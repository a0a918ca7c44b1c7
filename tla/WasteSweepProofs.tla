---------------------------- MODULE WasteSweepProofs -----------------------------
(***************************************************************************)
(* What holds of a sweep, of a triggered case and of every triage in them, *)
(* whatever the accounts, the reports and the answers of the sources.      *)
(***************************************************************************)
EXTENDS WasteSweep, FoldTheorems, SequenceTheorems

-----------------------------------------------------------------------------
(* Savings.                                                                  *)

Savings(findings) == [f \in findings |-> f.savings]

LEMMA TotalIsSum ==
    ASSUME NEW findings, IsFiniteSet(findings), \A f \in findings : f.savings \in Nat
    PROVE  TotalSavings(findings) = SumOver(Savings(findings), findings)
<1> DEFINE s == Savings(findings)
           Totals(h) == h = [T \in SUBSET findings |->
                               IF T = {} THEN 0 ELSE Member(T).savings + h[T \ {Member(T)}]]
           total == CHOOSE h : Totals(h)
<1>1. \A x \in findings : s[x] = x.savings /\ s[x] \in Int
  BY DEF Savings
<1>2. \A T \in SUBSET findings : T # {} => Member(T) \in findings
  BY DEF Member
<1>3. ASSUME NEW h PROVE Totals(h) <=> Sums(h, s, findings)
  <2> HIDE DEF s
  <2>1. [T \in SUBSET findings |-> IF T = {} THEN 0 ELSE Member(T).savings + h[T \ {Member(T)}]]
          = [T \in SUBSET findings |-> IF T = {} THEN 0 ELSE s[Member(T)] + h[T \ {Member(T)}]]
    BY <1>1, <1>2
  <2>2. QED
    BY <2>1 DEF Sums
<1>4. TotalSavings(findings) = total[findings]
  BY DEF TotalSavings, MapThenSumSet, MapThenFoldSet, Member
<1> HIDE DEF s, Totals
<1>5. PICK g : /\ Sums(g, s, findings)
               /\ \A T \in SUBSET findings : g[T] \in Int /\ SumOver(s, T) = g[T]
  BY <1>1, SumIsFold
<1>6. Sums(total, s, findings)
  BY <1>3, <1>5
<1> HIDE DEF total
<1>7. total[findings] = g[findings]
  BY <1>1, <1>5, <1>6, SumsAgree
<1>8. QED
  BY <1>4, <1>5, <1>7 DEF s

LEMMA FindingTypes ==
    ASSUME NEW r \in Reports
    PROVE  /\ IsFiniteSet(r) /\ IsFiniteSet(MapWasteFindings(r))
           /\ \A f \in MapWasteFindings(r) :
                 f.savings \in Nat /\ f = [list |-> f.list, id |-> f.id, savings |-> f.savings]
           /\ \A q \in r : MonthlySavings(q.list, q.amount) \in Nat
           /\ ScanSavings(r) \in Nat
<1>1. /\ IsFiniteSet(r)
      /\ \A q \in r : q.list \in DOMAIN ResourceType /\ q.amount \in Nat
  BY SweepAssumption
<1>2. \A q \in r : MonthlySavings(q.list, q.amount) \in Nat
  BY <1>1 DEF MonthlySavings
<1>3. \A f \in MapWasteFindings(r) :
         f.savings \in Nat /\ f = [list |-> f.list, id |-> f.id, savings |-> f.savings]
  BY <1>2 DEF MapWasteFindings
<1>4. IsFiniteSet(MapWasteFindings(r))
  <2> DEFINE f == [q \in r |-> [list |-> q.list, id |-> q.id, savings |-> MonthlySavings(q.list, q.amount)]]
  <2>1. MapWasteFindings(r) = {f[q] : q \in r}
    BY DEF MapWasteFindings
  <2> HIDE DEF f
  <2>2. QED
    BY <1>1, <2>1, ImageFinite
<1>5. ScanSavings(r) = SumOver(Savings(MapWasteFindings(r)), MapWasteFindings(r))
  BY <1>3, <1>4, TotalIsSum DEF ScanSavings
<1>6. ScanSavings(r) \in Nat
  <2>1. \A f \in MapWasteFindings(r) : Savings(MapWasteFindings(r))[f] \in Nat
    BY <1>3 DEF Savings
  <2>2. QED
    BY <1>4, <1>5, <2>1, SumNat
<1>7. QED
  BY <1>1, <1>2, <1>3, <1>4, <1>6

\* A report counts a resource once for each list, so twice at most.
LEMMA CountedTwiceAtMost ==
    ASSUME NEW r \in Reports
    PROVE  LET resources == {[id |-> q.id, savings |-> MonthlySavings(q.list, q.amount)] : q \in r}
           IN  TotalSavings(resources) \in Nat /\ ScanSavings(r) <= 2 * TotalSavings(resources)
<1> DEFINE resources == {[id |-> q.id, savings |-> MonthlySavings(q.list, q.amount)] : q \in r}
           findings == MapWasteFindings(r)
           p == [f \in findings |-> [id |-> f.id, savings |-> f.savings]]
           image == {p[f] : f \in findings}
<1>1. /\ IsFiniteSet(findings)
      /\ \A f \in findings :
            f.savings \in Nat /\ f = [list |-> f.list, id |-> f.id, savings |-> f.savings]
      /\ \A q \in r : MonthlySavings(q.list, q.amount) \in Nat
  BY FindingTypes
<1>2. image = resources
  <2>1. ASSUME NEW q \in r
        PROVE  [id |-> q.id, savings |-> MonthlySavings(q.list, q.amount)] \in image
    <3> DEFINE f == [list |-> q.list, id |-> q.id, savings |-> MonthlySavings(q.list, q.amount)]
    <3>1. f \in findings /\ p[f] = [id |-> q.id, savings |-> MonthlySavings(q.list, q.amount)]
      BY DEF MapWasteFindings
    <3>2. QED
      BY <3>1
  <2>2. ASSUME NEW f \in findings
        PROVE  p[f] \in resources
    <3>1. PICK q \in r : f = [list |-> q.list, id |-> q.id, savings |-> MonthlySavings(q.list, q.amount)]
      BY DEF MapWasteFindings
    <3>2. p[f] = [id |-> q.id, savings |-> MonthlySavings(q.list, q.amount)]
      BY <3>1
    <3>3. QED
      BY <3>2
  <2> HIDE DEF p, findings
  <2>3. QED
    BY <2>1, <2>2
<1>3. \A x \in image : x.savings \in Nat
  BY <1>1
<1>4. \A x \in findings : Savings(findings)[x] \in Nat /\ Savings(image)[p[x]] = Savings(findings)[x]
  BY <1>1 DEF Savings
<1>5. ASSUME NEW x \in findings, NEW y \in findings, NEW z \in findings,
             p[x] = p[y], p[y] = p[z], x # y, y # z, x # z
      PROVE  FALSE
  <2>1. x.id = y.id /\ y.id = z.id /\ x.savings = y.savings /\ y.savings = z.savings
    BY <1>5
  <2>2. x.list # y.list /\ y.list # z.list /\ x.list # z.list
    BY <1>1, <1>5, <2>1
  <2>3. PICK q \in r : q.id = x.id
    BY DEF MapWasteFindings
  <2> DEFINE L == {u.list : u \in {u \in r : u.id = q.id}}
  <2>4. x.list \in L /\ y.list \in L /\ z.list \in L
    BY <2>1, <2>3 DEF MapWasteFindings
  <2>5. Cardinality(L) <= 2
    BY SweepAssumption
  <2>6. IsFiniteSet(L)
    <3> DEFINE R == {u \in r : u.id = q.id}
               l == [u \in R |-> u.list]
    <3>1. IsFiniteSet(R)
      BY FindingTypes, FS_Subset
    <3>2. L = {l[u] : u \in R}
      OBVIOUS
    <3> HIDE DEF R, l
    <3>3. QED
      BY <3>1, <3>2, ImageFinite
  <2> HIDE DEF L
  <2>7. Cardinality({x.list, y.list, z.list}) = 3
    <3>1. IsFiniteSet({x.list}) /\ Cardinality({x.list}) = 1
      BY FS_Singleton
    <3> DEFINE two == {x.list} \cup {y.list}
    <3>2. IsFiniteSet(two) /\ Cardinality(two) = 1 + 1
      <4>1. y.list \notin {x.list}
        BY <2>2
      <4>2. QED
        BY <3>1, <4>1, FS_AddElement
    <3>3. z.list \notin two
      BY <2>2
    <3>4. {x.list, y.list, z.list} = two \cup {z.list}
      OBVIOUS
    <3> HIDE DEF two
    <3>5. Cardinality(two \cup {z.list}) = Cardinality(two) + 1
      BY <3>2, <3>3, FS_AddElement
    <3>6. QED
      BY <3>2, <3>4, <3>5
  <2>8. Cardinality({x.list, y.list, z.list}) <= Cardinality(L) /\ Cardinality(L) \in Nat
    BY <2>4, <2>6, FS_Subset, FS_CardinalityType
  <2>9. QED
    BY <2>5, <2>7, <2>8
<1>6. \A x, y, z \in findings : p[x] = p[y] /\ p[y] = p[z] => x = y \/ y = z \/ x = z
  BY <1>5
<1>7. SumOver(Savings(findings), findings) <= 2 * SumOver(Savings(image), image)
  <2> DEFINE f == Savings(findings)
             g == Savings(image)
  <2>1. IsFiniteSet(findings) /\ \A x \in findings : f[x] \in Nat /\ g[p[x]] = f[x]
    BY <1>1, <1>4
  <2> HIDE DEF f, g, p, findings
  <2>2. SumOver(f, findings) <= 2 * SumOver(g, {p[x] : x \in findings})
    BY <1>6, <2>1, SumOfPairs
  <2>3. QED
    BY <2>2 DEF f, g
<1>8. IsFiniteSet(image)
  <2> HIDE DEF p, findings
  <2>1. QED
    BY <1>1, ImageFinite
<1>9. TotalSavings(image) = SumOver(Savings(image), image) /\ TotalSavings(image) \in Nat
  <2> HIDE DEF image
  <2>1. \A x \in image : Savings(image)[x] \in Nat
    BY <1>3 DEF Savings
  <2>2. QED
    BY <1>3, <1>8, <2>1, TotalIsSum, SumNat
<1>10. ScanSavings(r) = SumOver(Savings(findings), findings)
  BY <1>1, TotalIsSum DEF ScanSavings
<1> HIDE DEF findings, image
<1>11. TotalSavings(image) \in Nat /\ ScanSavings(r) <= 2 * TotalSavings(image)
  BY <1>7, <1>9, <1>10
<1>12. QED
  BY <1>2, <1>11

-----------------------------------------------------------------------------
(* The classes.                                                              *)

\* Whether the answers s hold the signal of the class at this position.
Signal(a, s, k) == Signals(a, s)[Priority[k]]

\* What has been tried without success when a source is asked.
Tried == [ri |-> 0, sp |-> 0, bill |-> 1, waste |-> 2, namespaces |-> 5, deploys |-> 6, usage |-> 7]

Answers ==
    [ri : Coverages \cup {<<>>}, sp : Coverages \cup {<<>>}, bill : Bills \cup {<<>>},
     waste : {MapWasteFindings(r) : r \in Reports} \cup {{}},
     namespaces : Allocations \cup {FixtureDeltas, {}}, deploys : Deploys \cup {0},
     usage : Usages \cup {[baseline |-> 0, current |-> 0]}]

\* The triage has asked its sources in order, and an earlier class whose signal they
\* hold would have ended it.
TriageInv ==
    /\ seen \in Answers
    /\ stage \in Sources =>
          category = "none" /\ \A k \in 1..Tried[stage] : ~Signal(anomaly, seen, k)
    /\ stage \in {"idle", "failed"} => category = "none"
    /\ stage = "classified" =>
          \E i \in 1..9 : /\ category = Priority[i]
                          /\ Signal(anomaly, seen, i)
                          /\ \A k \in 1..(i - 1) : ~Signal(anomaly, seen, k)
    /\ ~endpoint /\ (stage \in {"deploys", "usage"} \/ category \in {"deploy_related", "expected_growth", "unknown"})
          => seen.namespaces = FixtureDeltas

\* A child has no window, so nothing of it comes after the plan.
ChildInv ==
    pc = "child" =>
        /\ anomaly \in Anomalies /\ ~anomaly.windowed
        /\ currentPhase \in {"watcher", "triage", "analyst"}
        /\ plan = <<>> /\ executions = <<>> /\ recommendation = "none"
        /\ reason \in {"none", "triage_error", "plan_error"}
        /\ report \in Reports /\ IsWaste(ScanSavings(report))

\* Who has not started counts nothing, and only the loop leaves for "done".
SweepInv ==
    /\ ResultTellsSweep
    /\ pc = "start" => result = NoResult

IInv == TypeOK /\ TriageInv /\ ChildInv /\ SweepInv

-----------------------------------------------------------------------------
(* The triage.                                                               *)

LEMMA SignalAt ==
    ASSUME NEW a, NEW s
    PROVE  LET items == QueryResult(s.bill)
           IN  /\ Signal(a, s, 1) <=> Magnitude(CoverageDelta(s.ri)) >= 5 \/ Magnitude(CoverageDelta(s.sp)) >= 5
               /\ Signal(a, s, 2) <=> \/ Material(Magnitude(Credits(items)), a)
                                      \/ Material(Magnitude(Refunds(items)), a)
               /\ Signal(a, s, 3) <=> s.waste # {} /\ Material(TotalSavings(s.waste), a)
               /\ Signal(a, s, 4) <=> Material(MarketplaceCharges(items), a)
               /\ Signal(a, s, 5) <=> Material(DataTransfer(items), a)
               /\ Signal(a, s, 6) <=> s.namespaces # {} /\ Material(LargestShift(s.namespaces), a)
               /\ Signal(a, s, 7) <=> s.deploys > 0
               /\ Signal(a, s, 8) <=> GrowsWithUsage(s.usage, a)
               /\ Signal(a, s, 9)
<1>1. /\ Priority[1] = "commitment_coverage_drift" /\ Priority[2] = "credits_refunds_fees"
      /\ Priority[3] = "resource_waste" /\ Priority[4] = "marketplace" /\ Priority[5] = "data_transfer"
      /\ Priority[6] = "k8s_cost_shift" /\ Priority[7] = "deploy_related"
      /\ Priority[8] = "expected_growth" /\ Priority[9] = "unknown"
  BY DEF Priority
<1> DEFINE items == QueryResult(s.bill)
           held == SignalsOf(a, s, items)
<1> HIDE DEF items
<1>2. /\ held["commitment_coverage_drift"] <=> Magnitude(CoverageDelta(s.ri)) >= 5 \/ Magnitude(CoverageDelta(s.sp)) >= 5
      /\ held["credits_refunds_fees"] <=> \/ Material(Magnitude(Credits(items)), a)
                                          \/ Material(Magnitude(Refunds(items)), a)
      /\ held["resource_waste"] <=> s.waste # {} /\ Material(TotalSavings(s.waste), a)
      /\ held["marketplace"] <=> Material(MarketplaceCharges(items), a)
      /\ held["data_transfer"] <=> Material(DataTransfer(items), a)
      /\ held["k8s_cost_shift"] <=> s.namespaces # {} /\ Material(LargestShift(s.namespaces), a)
      /\ held["deploy_related"] <=> s.deploys > 0
      /\ held["expected_growth"] <=> GrowsWithUsage(s.usage, a)
      /\ held["unknown"]
  BY DEF SignalsOf
<1> HIDE DEF held
<1>3. \A k \in 1..9 : Signal(a, s, k) <=> held[Priority[k]]
  BY DEF Signal, Signals, held, items
<1>4. QED
  BY <1>1, <1>2, <1>3 DEF items

LEMMA Classes ==
    /\ DOMAIN Priority = 1..9
    /\ \A i, j \in 1..9 : Priority[i] = Priority[j] => i = j
    /\ \A i \in 1..9 : Priority[i] # "none" /\ Priority[i] \in Categories
    /\ \A i \in 1..9 : Priority[i] \in {"deploy_related", "expected_growth", "unknown"} <=> i >= 7
  BY DEF Priority, Categories

\* The classes at these positions are tried when none before has a signal.
LEMMA Tries ==
    ASSUME NEW s, NEW next, NEW lo \in 0..9, NEW hi \in lo..9,
           category = "none",
           \A k \in 1..lo : ~Signal(anomaly, s, k),
           Try(anomaly, s, (lo + 1)..hi, next)
    PROVE  /\ seen' = s
           /\ \/ stage' = next /\ category' = "none" /\ \A k \in 1..hi : ~Signal(anomaly, s, k)
              \/ /\ stage' = "classified"
                 /\ \E i \in (lo + 1)..hi : /\ category' = Priority[i] /\ Signal(anomaly, s, i)
                                            /\ \A k \in 1..(i - 1) : ~Signal(anomaly, s, k)
<1> DEFINE found == {i \in (lo + 1)..hi : Signals(anomaly, s)[Priority[i]]}
<1>1. found = {i \in (lo + 1)..hi : Signal(anomaly, s, i)}
  BY DEF Signal
<1>2. seen' = s
  BY DEF Try
<1>3. CASE found # {}
  <2>1. category' = Priority[Min(found)] /\ stage' = "classified"
    BY <1>3 DEF Try
  <2> DEFINE i == Min(found)
  <2>2. found \in SUBSET Nat
    OBVIOUS
  <2>3. i \in found /\ \A n \in found : i <= n
    <3> HIDE DEF found
    <3>1. QED
      BY <1>3, <2>2, MinIsLeast
  <2> HIDE DEF i, found
  <2>4. i \in (lo + 1)..hi /\ Signal(anomaly, s, i)
    BY <1>1, <2>3
  <2>5. \A k \in 1..(i - 1) : ~Signal(anomaly, s, k)
    BY <1>1, <2>3, <2>4
  <2>6. QED
    BY <1>2, <2>1, <2>4, <2>5 DEF i
<1>4. CASE found = {}
  <2>1. stage' = next /\ category' = "none"
    BY <1>4 DEF Try
  <2>2. \A k \in (lo + 1)..hi : ~Signal(anomaly, s, k)
    <3> HIDE DEF found
    <3>1. QED
      BY <1>1, <1>4
  <2>3. QED
    BY <1>2, <2>1, <2>2
<1>5. QED
  BY <1>3, <1>4

\* A signal depends on the answers of its own source.
LEMMA SameSignals ==
    ASSUME NEW a, NEW s, NEW t
    PROVE  /\ s.ri = t.ri /\ s.sp = t.sp => (Signal(a, s, 1) <=> Signal(a, t, 1))
           /\ s.bill = t.bill => \A k \in {2, 4, 5} : Signal(a, s, k) <=> Signal(a, t, k)
           /\ s.waste = t.waste => (Signal(a, s, 3) <=> Signal(a, t, 3))
           /\ s.namespaces = t.namespaces => (Signal(a, s, 6) <=> Signal(a, t, 6))
           /\ s.deploys = t.deploys => (Signal(a, s, 7) <=> Signal(a, t, 7))
<1>1. s.ri = t.ri /\ s.sp = t.sp => (Signal(a, s, 1) <=> Signal(a, t, 1))
  BY SignalAt
<1>2. s.bill = t.bill => \A k \in {2, 4, 5} : Signal(a, s, k) <=> Signal(a, t, k)
  BY SignalAt
<1>3. s.waste = t.waste => (Signal(a, s, 3) <=> Signal(a, t, 3))
  BY SignalAt
<1>4. s.namespaces = t.namespaces => (Signal(a, s, 6) <=> Signal(a, t, 6))
  BY SignalAt
<1>5. s.deploys = t.deploys => (Signal(a, s, 7) <=> Signal(a, t, 7))
  BY SignalAt
<1>6. QED
  BY <1>1, <1>2, <1>3, <1>4, <1>5

\* A source answered.
LEMMA Answered ==
    ASSUME TriageInv, UNCHANGED <<anomaly, endpoint>>, stage \in Sources,
           NEW s \in Answers, NEW next, NEW lo \in 0..9, NEW hi \in lo..9,
           \A k \in 1..lo : ~Signal(anomaly, s, k),
           Try(anomaly, s, (lo + 1)..hi, next),
           (next \in Sources /\ Tried[next] = hi) \/ hi = 9,
           hi >= 6 /\ ~endpoint => s.namespaces = FixtureDeltas
    PROVE  /\ TriageInv'
           /\ stage' \in Sources \cup {"classified"} /\ category' \in Categories \cup {"none"}
<1>1. category = "none"
  BY DEF TriageInv
<1>2. /\ seen' = s
      /\ \/ stage' = next /\ category' = "none" /\ \A k \in 1..hi : ~Signal(anomaly, s, k)
         \/ /\ stage' = "classified"
            /\ \E i \in (lo + 1)..hi : /\ category' = Priority[i] /\ Signal(anomaly, s, i)
                                       /\ \A k \in 1..(i - 1) : ~Signal(anomaly, s, k)
  BY <1>1, Tries
<1>3. CASE stage' = next /\ category' = "none" /\ \A k \in 1..hi : ~Signal(anomaly, s, k)
  <2>1. next \in Sources /\ Tried[next] = hi
    <3>1. hi # 9
      BY <1>3, SignalAt
    <3>2. QED
      BY <3>1
  <2>2. next \in {"deploys", "usage"} => hi >= 6
    BY <2>1 DEF Tried
  <2>3. next \notin {"idle", "failed", "classified"}
    BY <2>1 DEF Sources
  <2>4. QED
    BY <1>2, <1>3, <2>1, <2>2, <2>3 DEF TriageInv
<1>4. CASE /\ stage' = "classified"
           /\ \E i \in (lo + 1)..hi : /\ category' = Priority[i] /\ Signal(anomaly, s, i)
                                      /\ \A k \in 1..(i - 1) : ~Signal(anomaly, s, k)
  <2>1. PICK i \in (lo + 1)..hi : /\ category' = Priority[i] /\ Signal(anomaly, s, i)
                                  /\ \A k \in 1..(i - 1) : ~Signal(anomaly, s, k)
    BY <1>4
  <2>2. i \in 1..9
    OBVIOUS
  <2>3. category' \in Categories
    BY <2>1, <2>2, Classes
  <2>4. category' \in {"deploy_related", "expected_growth", "unknown"} => hi >= 6
    BY <2>1, <2>2, Classes
  <2>5. stage' \notin Sources /\ stage' \notin {"idle", "failed", "deploys", "usage"}
    BY <1>4 DEF Sources
  <2>6. QED
    BY <1>2, <1>4, <2>1, <2>2, <2>3, <2>4, <2>5 DEF TriageInv
<1>5. QED
  BY <1>2, <1>3, <1>4

LEMMA TriageKeeps ==
    ASSUME TriageInv, UNCHANGED <<anomaly, endpoint>>, TriageStep(anomaly, AllocationAnswers)
    PROVE  /\ TriageInv'
           /\ stage' \in Sources \cup {"idle", "classified", "failed"}
           /\ category' \in Categories \cup {"none"}
<1> DEFINE a == anomaly
<1>1. seen \in Answers /\ (stage \in Sources => \A k \in 1..Tried[stage] : ~Signal(a, seen, k))
      /\ (~endpoint /\ stage \in {"deploys", "usage"} => seen.namespaces = FixtureDeltas)
  BY DEF TriageInv
<1>2. CASE GetRICoverage(a)
  <2>1. PICK days \in Coverages : Try(a, [seen EXCEPT !.ri = days], {}, "sp")
    BY <1>2 DEF GetRICoverage
  <2> DEFINE s == [seen EXCEPT !.ri = days]
  <2>2. s \in Answers
    BY <1>1 DEF Answers
  <2>3. stage \in Sources /\ "sp" \in Sources /\ Tried["sp"] = 0 /\ {} = (0 + 1)..0
    BY <1>2 DEF GetRICoverage, Sources, Tried
  <2> HIDE DEF s
  <2>4. Try(anomaly, s, (0 + 1)..0, "sp")
    BY <2>1, <2>3 DEF s
  <2>5. QED
    BY <2>2, <2>3, <2>4, Answered
<1>3. CASE GetSPCoverage(a)
  <2>1. PICK days \in Coverages : Try(a, [seen EXCEPT !.sp = days], {1}, "bill")
    BY <1>3 DEF GetSPCoverage
  <2> DEFINE s == [seen EXCEPT !.sp = days]
  <2>2. s \in Answers
    BY <1>1 DEF Answers
  <2>3. stage \in Sources /\ "bill" \in Sources /\ Tried["bill"] = 1 /\ {1} = (0 + 1)..1
    BY <1>3 DEF GetSPCoverage, Sources, Tried
  <2> HIDE DEF s
  <2>4. Try(anomaly, s, (0 + 1)..1, "bill")
    BY <2>1, <2>3 DEF s
  <2>5. QED
    BY <2>2, <2>3, <2>4, Answered
<1>4. CASE GetCURLineItems(a)
  <2>1. PICK bill \in Bills : Try(a, [seen EXCEPT !.bill = bill], {2}, "waste")
    BY <1>4 DEF GetCURLineItems
  <2> DEFINE s == [seen EXCEPT !.bill = bill]
  <2>2. s \in Answers /\ s.ri = seen.ri /\ s.sp = seen.sp
    BY <1>1 DEF Answers
  <2>3. stage = "bill" /\ stage \in Sources /\ "waste" \in Sources /\ Tried["waste"] = 2 /\ {2} = (1 + 1)..2
        /\ Tried["bill"] = 1
    BY <1>4 DEF GetCURLineItems, Sources, Tried
  <2> HIDE DEF s
  <2>4. Try(anomaly, s, (1 + 1)..2, "waste")
    BY <2>1, <2>3 DEF s
  <2>5. \A k \in 1..1 : ~Signal(anomaly, s, k)
    BY <1>1, <2>2, <2>3, SameSignals
  <2>6. QED
    BY <2>2, <2>3, <2>4, <2>5, Answered
<1>5. CASE Waste(a)
  <2>1. PICK report_ \in Reports : Try(a, [seen EXCEPT !.waste = MapWasteFindings(report_)], 3..5, "namespaces")
    BY <1>5 DEF Waste
  <2> DEFINE s == [seen EXCEPT !.waste = MapWasteFindings(report_)]
  <2>2. s \in Answers /\ s.ri = seen.ri /\ s.sp = seen.sp /\ s.bill = seen.bill
    BY <1>1 DEF Answers
  <2>3. stage = "waste" /\ stage \in Sources /\ "namespaces" \in Sources /\ Tried["namespaces"] = 5
        /\ 3..5 = (2 + 1)..5 /\ Tried["waste"] = 2
    BY <1>5 DEF Waste, Sources, Tried
  <2> HIDE DEF s
  <2>4. Try(anomaly, s, (2 + 1)..5, "namespaces")
    BY <2>1, <2>3 DEF s
  <2>5. \A k \in 1..2 : ~Signal(anomaly, s, k)
    BY <1>1, <2>2, <2>3, SameSignals
  <2>6. QED
    BY <2>2, <2>3, <2>4, <2>5, Answered
<1>6. CASE Allocation(a, AllocationAnswers)
  <2>1. PICK deltas \in AllocationAnswers : Try(a, [seen EXCEPT !.namespaces = deltas], {6}, "deploys")
    BY <1>6 DEF Allocation
  <2> DEFINE s == [seen EXCEPT !.namespaces = deltas]
  <2>2. /\ s \in Answers /\ s.ri = seen.ri /\ s.sp = seen.sp /\ s.bill = seen.bill /\ s.waste = seen.waste
        /\ s.namespaces = deltas /\ (~endpoint => deltas = FixtureDeltas)
    BY <1>1 DEF Answers, AllocationAnswers
  <2>3. stage = "namespaces" /\ stage \in Sources /\ "deploys" \in Sources /\ Tried["deploys"] = 6
        /\ {6} = (5 + 1)..6 /\ Tried["namespaces"] = 5
    BY <1>6 DEF Allocation, Sources, Tried
  <2> HIDE DEF s
  <2>4. Try(anomaly, s, (5 + 1)..6, "deploys")
    BY <2>1, <2>3 DEF s
  <2>5. \A k \in 1..5 : ~Signal(anomaly, s, k)
    BY <1>1, <2>2, <2>3, SameSignals
  <2>6. QED
    BY <2>2, <2>3, <2>4, <2>5, Answered
<1>7. CASE RecentDeploys(a)
  <2>1. PICK n \in Deploys : Try(a, [seen EXCEPT !.deploys = n], {7}, "usage")
    BY <1>7 DEF RecentDeploys
  <2> DEFINE s == [seen EXCEPT !.deploys = n]
  <2>2. /\ s \in Answers /\ s.ri = seen.ri /\ s.sp = seen.sp /\ s.bill = seen.bill /\ s.waste = seen.waste
        /\ s.namespaces = seen.namespaces
    BY <1>1 DEF Answers
  <2>3. stage = "deploys" /\ stage \in Sources /\ "usage" \in Sources /\ Tried["usage"] = 7
        /\ {7} = (6 + 1)..7 /\ Tried["deploys"] = 6
    BY <1>7 DEF RecentDeploys, Sources, Tried
  <2> HIDE DEF s
  <2>4. Try(anomaly, s, (6 + 1)..7, "usage")
    BY <2>1, <2>3 DEF s
  <2>5. \A k \in 1..6 : ~Signal(anomaly, s, k)
    BY <1>1, <2>2, <2>3, SameSignals
  <2>6. ~endpoint => s.namespaces = FixtureDeltas
    BY <1>1, <2>2, <2>3
  <2>7. QED
    BY <2>2, <2>3, <2>4, <2>5, <2>6, Answered
<1>8. CASE CloudWatchMetrics(a)
  <2>1. PICK usage \in Usages : Try(a, [seen EXCEPT !.usage = usage], {8, 9}, "classified")
    BY <1>8 DEF CloudWatchMetrics
  <2> DEFINE s == [seen EXCEPT !.usage = usage]
  <2>2. /\ s \in Answers /\ s.ri = seen.ri /\ s.sp = seen.sp /\ s.bill = seen.bill /\ s.waste = seen.waste
        /\ s.namespaces = seen.namespaces /\ s.deploys = seen.deploys
    BY <1>1 DEF Answers
  <2>3. stage = "usage" /\ stage \in Sources /\ {8, 9} = (7 + 1)..9 /\ Tried["usage"] = 7
    BY <1>8 DEF CloudWatchMetrics, Sources, Tried
  <2> HIDE DEF s
  <2>4. Try(anomaly, s, (7 + 1)..9, "classified")
    BY <2>1, <2>3 DEF s
  <2>5. \A k \in 1..7 : ~Signal(anomaly, s, k)
    BY <1>1, <2>2, <2>3, SameSignals
  <2>6. ~endpoint => s.namespaces = FixtureDeltas
    BY <1>1, <2>2, <2>3
  <2>7. QED
    BY <2>2, <2>3, <2>4, <2>5, <2>6, Answered
<1>9. CASE SourceFails
  <2>1. stage' = "failed" /\ UNCHANGED <<seen, category>> /\ category = "none"
    BY <1>9 DEF SourceFails, TriageInv
  <2>2. QED
    BY <2>1 DEF TriageInv, Sources
<1>10. QED
  BY <1>2, <1>3, <1>4, <1>5, <1>6, <1>7, <1>8, <1>9 DEF TriageStep

\* The triage of a new case has not begun or asks its first source.
LEMMA TriageBegins ==
    ASSUME NEW first \in {"idle", "ri"}, stage' = first, seen' = NothingSeen, category' = "none"
    PROVE  TriageInv'
<1>1. NothingSeen \in Answers
  BY DEF NothingSeen, Answers
<1>2. Tried["ri"] = 0 /\ "idle" \notin Sources
  BY DEF Tried, Sources
<1>3. QED
  BY <1>1, <1>2 DEF TriageInv

LEMMA TriageStays ==
    ASSUME TriageInv, UNCHANGED <<anomaly, endpoint, triageVars>>
    PROVE  TriageInv'
  BY DEF TriageInv, triageVars

-----------------------------------------------------------------------------
(* The case.                                                                 *)

LEMMA PlanIsApproved ==
    /\ AnalyzeAndRecommend \in Seq(RecommendedActions) /\ AnalyzeAndRecommend # <<>>
    /\ Decide(AnalyzeAndRecommend) = "auto_approved"
<1> DEFINE action == [risk |-> "low", target |-> BudgetTarget]
<1>1. action \in RecommendedActions
  BY CaseAssumption DEF RecommendedActions, ActionRiskLevels, KnownRisks
<1>2. AnalyzeAndRecommend = <<action>> /\ DOMAIN AnalyzeAndRecommend = {1} /\ AnalyzeAndRecommend[1] = action
  BY DEF AnalyzeAndRecommend
<1>3. IsFirstMax(AnalyzeAndRecommend, 1)
  BY <1>2 DEF IsFirstMax, RiskScore
<1>4. MaxRisk(AnalyzeAndRecommend) = "low"
  BY <1>2, <1>3 DEF MaxRisk
<1>5. AnalyzeAndRecommend # <<>> /\ AnalyzeAndRecommend \in Seq(RecommendedActions)
  BY <1>1, <1>2
<1>6. QED
  BY <1>4, <1>5 DEF Decide, RiskScore, DenyMinRisk, AutoApproveMaxRisk

\* A new case.
LEMMA CaseBegins ==
    ASSUME NEW a \in Anomalies, StartCase(a)
    PROVE  /\ TriageInv'
           /\ anomaly' = a /\ stage' = "idle" /\ category' = "none"
           /\ currentPhase' = "watcher" /\ approval' = "pending"
           /\ shouldTerminate' = FALSE /\ reason' = "none"
           /\ plan' = <<>> /\ executions' = <<>> /\ recommendation' = "none"
           /\ plan' \in Seq(RecommendedActions) /\ executions' \in Seq(Nat)
<1>1. TriageInv'
  BY TriageBegins DEF StartCase
<1>2. <<>> \in Seq(RecommendedActions)
  BY EmptySeq
<1>3. <<>> \in Seq(Nat)
  BY EmptySeq
<1>4. QED
  BY <1>1, <1>2, <1>3 DEF StartCase

LEMMA CaseKeeps ==
    ASSUME IInv, pc \in {"child", "triggered"}, CaseStep(AllocationAnswers), UNCHANGED sweepVars
    PROVE  IInv'
<1>1. UNCHANGED <<pc, accounts, result, report, endpoint, anomaly>>
  BY DEF sweepVars, CaseStep, Watch, TriageAnomaly, TriageReturns, PlanFails, PlanReturns, ExecuteFails,
     ExecuteReturns, VerifyFails, VerifyReturns
<1>2. SweepInv'
  BY <1>1 DEF IInv, SweepInv, ResultTellsSweep
<1>3. ASSUME UNCHANGED triageVars,
             currentPhase' \in {"watcher", "triage", "analyst", "executor", "verifier", "completed"},
             approval' \in {"pending", "auto_approved"}, shouldTerminate' \in BOOLEAN,
             reason' \in CaseReasons, plan' \in Seq(RecommendedActions), executions' \in Seq(Nat),
             recommendation' \in {"none", "close", "monitor"}
      PROVE  TypeOK' /\ TriageInv'
  BY <1>1, <1>3, TriageStays DEF IInv, TypeOK, triageVars
<1>4. CASE Watch
  <2>1. TriageInv'
    BY <1>4, TriageBegins DEF Watch, StartTriage
  <2>2. TypeOK'
    BY <1>1, <1>4 DEF Watch, StartTriage, KeepRunning, IInv, TypeOK, Sources
  <2>3. ChildInv'
    BY <1>1, <1>4 DEF Watch, StartTriage, KeepRunning, IInv, ChildInv
  <2>4. QED
    BY <1>2, <2>1, <2>2, <2>3 DEF IInv
<1>5. CASE TriageAnomaly(AllocationAnswers)
  <2>1. TriageStep(anomaly, AllocationAnswers) /\ UNCHANGED stateVars
    BY <1>5 DEF TriageAnomaly
  <2>2. /\ TriageInv' /\ stage' \in Sources \cup {"idle", "classified", "failed"}
        /\ category' \in Categories \cup {"none"}
    BY <1>1, <2>1, TriageKeeps DEF IInv
  <2>3. TypeOK'
    BY <1>1, <2>1, <2>2 DEF stateVars, IInv, TypeOK
  <2>4. ChildInv'
    BY <1>1, <2>1 DEF stateVars, IInv, ChildInv
  <2>5. QED
    BY <1>2, <2>2, <2>3, <2>4 DEF IInv
<1>6. CASE TriageReturns
  <2>1. Confidence["expected_growth"] = 80
    BY DEF Confidence
  <2>2. \/ currentPhase' = currentPhase /\ reason' = "triage_error" /\ shouldTerminate' = TRUE
        \/ currentPhase' = "analyst" /\ UNCHANGED <<shouldTerminate, reason>>
    <3>1. ~(category = "expected_growth" /\ Confidence[category] >= 85)
      BY <2>1
    <3>2. QED
      BY <1>6, <3>1 DEF TriageReturns, Return, KeepRunning
  <2>3. UNCHANGED <<approval, plan, executions, recommendation, triageVars>>
    BY <1>6 DEF TriageReturns
  <2>4. TypeOK' /\ TriageInv'
    BY <1>3, <2>2, <2>3 DEF IInv, TypeOK, CaseReasons
  <2>5. ChildInv'
    BY <1>1, <1>6, <2>2, <2>3 DEF TriageReturns, InPhase, IInv, ChildInv
  <2>6. QED
    BY <1>2, <2>4, <2>5 DEF IInv
<1>7. CASE PlanFails
  <2>1. TypeOK' /\ TriageInv'
    BY <1>3, <1>7 DEF PlanFails, Return, IInv, TypeOK, CaseReasons
  <2>2. ChildInv'
    BY <1>1, <1>7 DEF PlanFails, Return, IInv, ChildInv
  <2>3. QED
    BY <1>2, <2>1, <2>2 DEF IInv
<1>8. CASE PlanReturns
  <2>1. /\ plan' = AnalyzeAndRecommend /\ currentPhase' = "executor" /\ approval' = "auto_approved"
        /\ UNCHANGED <<shouldTerminate, reason, executions, recommendation, triageVars>>
    BY <1>8, PlanIsApproved DEF PlanReturns, KeepRunning
  <2>2. TypeOK' /\ TriageInv'
    BY <1>3, <2>1, PlanIsApproved DEF IInv, TypeOK
  <2>3. ChildInv'
    BY <1>1, <1>8 DEF PlanReturns, PlanCanSucceed, IInv, ChildInv
  <2>4. QED
    BY <1>2, <2>2, <2>3 DEF IInv
<1>9. CASE ExecuteFails
  <2>1. TypeOK' /\ TriageInv'
    BY <1>3, <1>9 DEF ExecuteFails, Return, IInv, TypeOK, CaseReasons
  <2>2. ChildInv'
    BY <1>1, <1>9 DEF ExecuteFails, InPhase, IInv, ChildInv
  <2>3. QED
    BY <1>2, <2>1, <2>2 DEF IInv
<1>10. CASE ExecuteReturns
  <2>1. executions' \in Seq(Nat)
    <3>1. DOMAIN plan = 1..Len(plan) /\ Len(plan) \in Nat
      BY LenProperties DEF IInv, TypeOK
    <3>2. executions' = [i \in 1..Len(plan) |-> i]
      BY <1>10, <3>1 DEF ExecuteReturns
    <3>3. QED
      BY <3>1, <3>2
  <2>2. TypeOK' /\ TriageInv'
    BY <1>3, <1>10, <2>1 DEF ExecuteReturns, KeepRunning, IInv, TypeOK
  <2>3. ChildInv'
    BY <1>1, <1>10 DEF ExecuteReturns, InPhase, IInv, ChildInv
  <2>4. QED
    BY <1>2, <2>2, <2>3 DEF IInv
<1>11. CASE VerifyFails
  <2>1. TypeOK' /\ TriageInv'
    BY <1>3, <1>11 DEF VerifyFails, Return, IInv, TypeOK, CaseReasons
  <2>2. ChildInv'
    BY <1>1, <1>11 DEF VerifyFails, InPhase, IInv, ChildInv
  <2>3. QED
    BY <1>2, <2>1, <2>2 DEF IInv
<1>12. CASE VerifyReturns
  <2>1. TypeOK' /\ TriageInv'
    BY <1>3, <1>12 DEF VerifyReturns, Return, IInv, TypeOK, CaseReasons
  <2>2. ChildInv'
    BY <1>1, <1>12 DEF VerifyReturns, InPhase, IInv, ChildInv
  <2>3. QED
    BY <1>2, <2>1, <2>2 DEF IInv
<1>13. QED
  BY <1>4, <1>5, <1>6, <1>7, <1>8, <1>9, <1>10, <1>11, <1>12 DEF CaseStep

-----------------------------------------------------------------------------
(* The sweep.                                                                *)

LEMMA ResultTypes ==
    /\ NoResult \in [DOMAIN NoResult -> Nat]
    /\ \A r \in [DOMAIN NoResult -> Nat] :
          /\ r.accounts_scanned \in Nat /\ r.waste_anomalies \in Nat
          /\ r.child_workflows_run \in Nat /\ r.scan_errors \in Nat
  BY DEF NoResult

LEMMA InductiveInit == Init => IInv
<1> SUFFICES ASSUME Init PROVE IInv
  OBVIOUS
<1>1. plan \in Seq(RecommendedActions)
  BY EmptySeq DEF Init, NoCase
<1>2. executions \in Seq(Nat)
  BY EmptySeq DEF Init, NoCase
<1>3. accounts \in Seq(Accounts) /\ Len(accounts) \in Nat
  BY EmptySeq DEF Init
<1>4. TypeOK
  BY <1>1, <1>2, <1>3, ResultTypes DEF Init, NoCase, TypeOK, CaseReasons
<1>5. TriageInv
  <2>1. NothingSeen \in Answers /\ "idle" \notin Sources
    BY DEF NothingSeen, Answers, Sources
  <2>2. QED
    BY <2>1 DEF Init, NoCase, TriageInv
<1>6. ChildInv
  BY DEF Init, ChildInv
<1>7. SweepInv
  BY <1>3 DEF Init, SweepInv, ResultTellsSweep, NoResult
<1>8. QED
  BY <1>4, <1>5, <1>6, <1>7 DEF IInv

\* The case is left alone.
LEMMA CaseStays ==
    ASSUME IInv, UNCHANGED <<caseVars, endpoint>>, pc' # "child",
           pc' \in {"start", "scan", "triggered", "done"},
           accounts' \in Seq(Accounts), result' \in [DOMAIN NoResult -> Nat]
    PROVE  TypeOK' /\ TriageInv' /\ ChildInv'
<1>1. UNCHANGED <<anomaly, stateVars, triageVars>>
  BY DEF caseVars
<1>2. TriageInv'
  BY <1>1, TriageStays DEF IInv
<1>3. TypeOK'
  BY <1>1 DEF stateVars, triageVars, IInv, TypeOK
<1>4. ChildInv'
  BY DEF ChildInv
<1>5. QED
  BY <1>2, <1>3, <1>4

LEMMA ScanKeeps ==
    ASSUME IInv, Scan
    PROVE  IInv'
<1>1. PICK r \in Reports :
        /\ report' = r
        /\ IF IsWaste(ScanSavings(r))
             THEN /\ result' = [result EXCEPT !.accounts_scanned = @ + 1, !.waste_anomalies = @ + 1]
                  /\ StartCase(WasteAnomaly(accounts[Scanned + 1], ScanSavings(r)))
                  /\ pc' = "child"
             ELSE /\ result' = [result EXCEPT !.accounts_scanned = @ + 1]
                  /\ UNCHANGED <<caseVars, pc>>
  BY DEF Scan
<1>2. UNCHANGED <<accounts, endpoint>> /\ pc = "scan" /\ Scanned # Len(accounts)
  BY DEF Scan, LoopEnds
<1>3. /\ result \in [DOMAIN NoResult -> Nat] /\ accounts \in Seq(Accounts) /\ Len(accounts) \in Nat
      /\ Scanned \in Nat /\ Scanned = result.accounts_scanned
      /\ result.waste_anomalies \in Nat /\ result.child_workflows_run \in Nat /\ result.scan_errors \in Nat
  BY ResultTypes, LenProperties DEF IInv, TypeOK, Scanned
<1>4. /\ Scanned + 1 \in 1..Len(accounts)
      /\ result.waste_anomalies + result.scan_errors <= Scanned
      /\ result.child_workflows_run <= result.waste_anomalies
  BY <1>2, <1>3 DEF IInv, SweepInv, ResultTellsSweep
<1>5. CASE IsWaste(ScanSavings(r))
  <2> DEFINE a == WasteAnomaly(accounts[Scanned + 1], ScanSavings(r))
  <2>1. /\ result' = [result EXCEPT !.accounts_scanned = @ + 1, !.waste_anomalies = @ + 1]
        /\ StartCase(a) /\ pc' = "child" /\ report' = r
    BY <1>1, <1>5
  <2>2. a \in Anomalies /\ ~a.windowed
    <3>1. accounts[Scanned + 1] \in Accounts
      BY <1>3, <1>4, ElementOfSeq
    <3>2. ScanSavings(r) \in Int
      BY FindingTypes
    <3>3. QED
      BY <3>1, <3>2 DEF WasteAnomaly, Anomalies
  <2> HIDE DEF a
  <2>3. /\ TriageInv'
        /\ anomaly' = a /\ stage' = "idle" /\ category' = "none"
        /\ currentPhase' = "watcher" /\ approval' = "pending"
        /\ shouldTerminate' = FALSE /\ reason' = "none"
        /\ plan' = <<>> /\ executions' = <<>> /\ recommendation' = "none"
        /\ plan' \in Seq(RecommendedActions) /\ executions' \in Seq(Nat)
    BY <2>1, <2>2, CaseBegins
  <2>4. /\ result' \in [DOMAIN NoResult -> Nat]
        /\ result'.accounts_scanned = Scanned + 1 /\ result'.waste_anomalies = result.waste_anomalies + 1
        /\ result'.child_workflows_run = result.child_workflows_run /\ result'.scan_errors = result.scan_errors
    <3>1. DOMAIN NoResult = {"accounts_scanned", "waste_anomalies", "child_workflows_run", "scan_errors"}
      BY DEF NoResult
    <3>2. DOMAIN result' = DOMAIN NoResult
      BY <1>3, <2>1
    <3>3. /\ result'["accounts_scanned"] = Scanned + 1
          /\ result'["waste_anomalies"] = result.waste_anomalies + 1
          /\ result'["child_workflows_run"] = result.child_workflows_run
          /\ result'["scan_errors"] = result.scan_errors
      BY <1>3, <2>1, <3>1
    <3>4. result' = [k \in DOMAIN NoResult |-> result'[k]]
      BY <1>3, <2>1
    <3>5. \A k \in DOMAIN NoResult : result'[k] \in Nat
      BY <1>3, <3>1, <3>3
    <3>6. QED
      BY <3>3, <3>4, <3>5
  <2>5. TypeOK'
    BY <1>2, <1>3, <2>1, <2>2, <2>3, <2>4 DEF IInv, TypeOK, CaseReasons
  <2>6. ChildInv'
    BY <1>5, <2>1, <2>2, <2>3 DEF ChildInv
  <2>7. SweepInv'
    <3>1. accounts' = accounts /\ pc' = "child"
      BY <1>2, <2>1
    <3>2. /\ Scanned + 1 <= Len(accounts)
          /\ (result.waste_anomalies + 1) + result.scan_errors <= Scanned + 1
          /\ result.child_workflows_run + 1 <= result.waste_anomalies + 1
      BY <1>3, <1>4
    <3>3. QED
      BY <2>4, <3>1, <3>2 DEF SweepInv, ResultTellsSweep
  <2>8. QED
    BY <2>3, <2>5, <2>6, <2>7 DEF IInv
<1>6. CASE ~IsWaste(ScanSavings(r))
  <2>1. result' = [result EXCEPT !.accounts_scanned = @ + 1] /\ UNCHANGED <<caseVars, pc>>
    BY <1>1, <1>6
  <2>2. /\ result' \in [DOMAIN NoResult -> Nat]
        /\ result'.accounts_scanned = Scanned + 1 /\ result'.waste_anomalies = result.waste_anomalies
        /\ result'.child_workflows_run = result.child_workflows_run /\ result'.scan_errors = result.scan_errors
    BY <1>3, <2>1 DEF NoResult
  <2>3. TypeOK' /\ TriageInv' /\ ChildInv'
    BY <1>2, <1>3, <2>1, <2>2, CaseStays
  <2>4. SweepInv'
    BY <1>2, <1>3, <1>4, <2>1, <2>2 DEF SweepInv, ResultTellsSweep
  <2>5. QED
    BY <2>3, <2>4 DEF IInv
<1>7. QED
  BY <1>5, <1>6

LEMMA InductiveStep == IInv /\ [Next]_vars => IInv'
<1> SUFFICES ASSUME IInv, [Next]_vars PROVE IInv'
  OBVIOUS
<1>1. /\ result \in [DOMAIN NoResult -> Nat] /\ accounts \in Seq(Accounts) /\ Len(accounts) \in Nat
      /\ result.accounts_scanned \in Nat /\ result.waste_anomalies \in Nat
      /\ result.child_workflows_run \in Nat /\ result.scan_errors \in Nat
  BY ResultTypes, LenProperties DEF IInv, TypeOK
<1>2. CASE UNCHANGED vars
  <2>1. UNCHANGED <<anomaly, stateVars, triageVars, pc, accounts, result, report, endpoint>>
    BY <1>2 DEF vars, caseVars, sweepVars
  <2>2. TriageInv'
    BY <2>1, TriageStays DEF IInv
  <2>3. QED
    BY <2>1, <2>2 DEF stateVars, triageVars, IInv, TypeOK, ChildInv, SweepInv, ResultTellsSweep
<1>3. CASE StartSweep
  <2>1. /\ UNCHANGED <<caseVars, result, endpoint>> /\ pc = "start" /\ pc' = "scan" /\ result = NoResult
        /\ accounts' \in Seq(Accounts) /\ Len(accounts') \in Nat
    <3>1. accounts' \in Seq(Accounts)
      BY <1>3, SweepAssumption DEF StartSweep
    <3>2. QED
      BY <1>3, <3>1, LenProperties DEF StartSweep, IInv, SweepInv
  <2>2. TypeOK' /\ TriageInv' /\ ChildInv'
    BY <1>1, <2>1, CaseStays
  <2>3. SweepInv'
    BY <2>1 DEF NoResult, SweepInv, ResultTellsSweep
  <2>4. QED
    BY <2>2, <2>3 DEF IInv
<1>4. CASE Trigger
  <2>1. PICK delta \in Deltas, account \in Accounts :
          StartCase([account |-> account, delta |-> delta, percent |-> 0, windowed |-> TRUE])
    BY <1>4 DEF Trigger
  <2> DEFINE a == [account |-> account, delta |-> delta, percent |-> 0, windowed |-> TRUE]
  <2>2. a \in Anomalies
    BY SweepAssumption DEF Anomalies
  <2> HIDE DEF a
  <2>3. StartCase(a)
    BY <2>1 DEF a
  <2>4. /\ TriageInv'
        /\ anomaly' = a /\ stage' = "idle" /\ category' = "none"
        /\ currentPhase' = "watcher" /\ approval' = "pending"
        /\ shouldTerminate' = FALSE /\ reason' = "none"
        /\ plan' = <<>> /\ executions' = <<>> /\ recommendation' = "none"
        /\ plan' \in Seq(RecommendedActions) /\ executions' \in Seq(Nat)
    BY <2>2, <2>3, CaseBegins
  <2>5. pc = "start" /\ pc' = "triggered" /\ UNCHANGED <<accounts, result, endpoint>>
    BY <1>4 DEF Trigger
  <2>6. TypeOK'
    BY <2>2, <2>4, <2>5 DEF IInv, TypeOK, CaseReasons
  <2>7. ChildInv' /\ SweepInv'
    BY <2>5 DEF IInv, ChildInv, SweepInv, ResultTellsSweep
  <2>8. QED
    BY <2>4, <2>6, <2>7 DEF IInv
<1>5. CASE Scan
  BY <1>5, ScanKeeps
<1>6. CASE ScanFails
  <2>1. /\ UNCHANGED <<caseVars, pc, accounts, endpoint>> /\ pc = "scan"
        /\ result.accounts_scanned # Len(accounts)
        /\ result' = [result EXCEPT !.accounts_scanned = @ + 1, !.scan_errors = @ + 1]
    BY <1>6 DEF ScanFails, LoopEnds, Scanned
  <2>2. /\ result' \in [DOMAIN NoResult -> Nat]
        /\ result'.accounts_scanned = result.accounts_scanned + 1
        /\ result'.waste_anomalies = result.waste_anomalies
        /\ result'.child_workflows_run = result.child_workflows_run
        /\ result'.scan_errors = result.scan_errors + 1
    <3>1. DOMAIN NoResult = {"accounts_scanned", "waste_anomalies", "child_workflows_run", "scan_errors"}
      BY DEF NoResult
    <3>2. DOMAIN result' = DOMAIN NoResult
      BY <1>1, <2>1
    <3>3. /\ result'["accounts_scanned"] = result.accounts_scanned + 1
          /\ result'["waste_anomalies"] = result.waste_anomalies
          /\ result'["child_workflows_run"] = result.child_workflows_run
          /\ result'["scan_errors"] = result.scan_errors + 1
      BY <1>1, <2>1, <3>1
    <3>4. result' = [k \in DOMAIN NoResult |-> result'[k]]
      BY <1>1, <2>1
    <3>5. \A k \in DOMAIN NoResult : result'[k] \in Nat
      BY <1>1, <3>1, <3>3
    <3>6. QED
      BY <3>3, <3>4, <3>5
  <2>3. TypeOK' /\ TriageInv' /\ ChildInv'
    BY <1>1, <2>1, <2>2, CaseStays
  <2>4. SweepInv'
    BY <1>1, <2>1, <2>2 DEF IInv, SweepInv, ResultTellsSweep
  <2>5. QED
    BY <2>3, <2>4 DEF IInv
<1>7. CASE CaseRuns
  BY <1>7, CaseKeeps DEF CaseRuns
<1>8. CASE ChildEnds
  <2>1. /\ UNCHANGED <<caseVars, accounts, endpoint>> /\ pc = "child" /\ pc' = "scan"
        /\ result' = [result EXCEPT !.child_workflows_run = @ + 1]
    BY <1>8 DEF ChildEnds
  <2>2. /\ result' \in [DOMAIN NoResult -> Nat]
        /\ result'.accounts_scanned = result.accounts_scanned
        /\ result'.waste_anomalies = result.waste_anomalies
        /\ result'.child_workflows_run = result.child_workflows_run + 1
        /\ result'.scan_errors = result.scan_errors
    BY <1>1, <2>1 DEF NoResult
  <2>3. TypeOK' /\ TriageInv' /\ ChildInv'
    BY <1>1, <2>1, <2>2, CaseStays
  <2>4. SweepInv'
    BY <1>1, <2>1, <2>2 DEF IInv, SweepInv, ResultTellsSweep
  <2>5. QED
    BY <2>3, <2>4 DEF IInv
<1>9. CASE ChildFails
  <2>1. UNCHANGED <<caseVars, accounts, result, endpoint>> /\ pc = "child" /\ pc' = "scan"
    BY <1>9 DEF ChildFails
  <2>2. TypeOK' /\ TriageInv' /\ ChildInv'
    BY <1>1, <2>1, CaseStays
  <2>3. SweepInv'
    BY <1>1, <2>1 DEF IInv, SweepInv, ResultTellsSweep
  <2>4. QED
    BY <2>2, <2>3 DEF IInv
<1>10. CASE SweepReturns
  <2>1. /\ UNCHANGED <<caseVars, accounts, result, endpoint>> /\ pc = "scan" /\ pc' = "done"
        /\ result.accounts_scanned = Len(accounts)
    BY <1>10 DEF SweepReturns, LoopEnds, Scanned
  <2>2. TypeOK' /\ TriageInv' /\ ChildInv'
    BY <1>1, <2>1, CaseStays
  <2>3. SweepInv'
    BY <1>1, <2>1 DEF IInv, SweepInv, ResultTellsSweep
  <2>4. QED
    BY <2>2, <2>3 DEF IInv
<1>11. QED
  BY <1>2, <1>3, <1>4, <1>5, <1>6, <1>7, <1>8, <1>9, <1>10 DEF Next

LEMMA Invariance == Spec => []IInv
  BY InductiveInit, InductiveStep, PTL DEF Spec

LEMMA OneAndTwo ==
    ASSUME NEW x, NEW y, NEW z
    PROVE  <<x>> \o <<y, z>> = <<x, y, z>>
<1> DEFINE S == {x, y, z}
           s == <<x>> \o <<y, z>>
<1>1. <<x>> \in Seq(S) /\ <<y, z>> \in Seq(S) /\ <<x, y, z>> \in Seq(S)
  OBVIOUS
<1>2. Len(<<x>>) = 1 /\ Len(<<y, z>>) = 2 /\ Len(<<x, y, z>>) = 3
  OBVIOUS
<1>3. Len(s) = 3 /\ s \in Seq(S) /\ \A i \in 1..3 : s[i] = IF i <= 1 THEN <<x>>[i] ELSE <<y, z>>[i - 1]
  BY <1>1, <1>2, ConcatProperties
<1>4. s[1] = x /\ s[2] = y /\ s[3] = z
  BY <1>3
<1>5. \A i \in 1..3 : s[i] = <<x, y, z>>[i]
  BY <1>4
<1>6. QED
  BY <1>1, <1>2, <1>3, <1>5, SeqEqual

-----------------------------------------------------------------------------
(* What a reader should know.                                                *)

\* Every state of the sweep and of its cases has the types TypeOK states; in
\* particular a case on the production activities is never denied and never waits for a
\* person: its approval is "pending" before the plan and "auto_approved" after it
\* (awsdoctor_sweep.go:21-107, planner.go:27-34, anomaly_lifecycle.go:62-241).
THEOREM TypeTheorem == Spec => []TypeOK
<1>1. IInv => TypeOK
  BY DEF IInv
<1>2. QED
  BY <1>1, Invariance, PTL

\* However the scans and the children end, the SweepResult adds up: no account is
\* counted twice or left out, and no child is counted that no wasteful account had
\* (awsdoctor_sweep.go:53-107).
THEOREM ResultTheorem == Spec => []ResultTellsSweep
<1>1. IInv => ResultTellsSweep
  BY DEF IInv, SweepInv
<1>2. QED
  BY <1>1, Invariance, PTL

\* For no report whatever does the sweep start a case below half the threshold of real
\* waste: a resource is listed twice at most, so the total is at most twice the real one
\* (runner.go:123-155, awsdoctor_sweep.go:75-92).
THEOREM RealWasteTheorem == Spec => []CaseForRealWaste
<1>1. ASSUME IInv PROVE CaseForRealWaste
  <2> SUFFICES ASSUME pc = "child"
               PROVE  LET resources == {[id |-> r.id, savings |-> MonthlySavings(r.list, r.amount)] : r \in report}
                      IN  2 * TotalSavings(resources) >= WasteSavingsThreshold
    BY DEF CaseForRealWaste
  <2> DEFINE total == TotalSavings({[id |-> r.id, savings |-> MonthlySavings(r.list, r.amount)] : r \in report})
  <2>1. report \in Reports /\ IsWaste(ScanSavings(report))
    BY <1>1 DEF IInv, ChildInv
  <2>2. total \in Nat /\ ScanSavings(report) <= 2 * total /\ ScanSavings(report) \in Nat
    BY <2>1, CountedTwiceAtMost, FindingTypes
  <2> HIDE DEF total
  <2>3. 2 * total >= WasteSavingsThreshold
    BY <2>1, <2>2 DEF IsWaste, WasteSavingsThreshold
  <2>4. QED
    BY <2>3 DEF total
<1>2. QED
  BY <1>1, Invariance, PTL

\* No child of the sweep gets past its plan, and a reader of it sees the anomaly and
\* perhaps its class, never an action, an approval or a verification
\* (awsdoctor_sweep.go:94-101, query.go:21-26, builder.go:16-60).
THEOREM ChildrenTheorem == Spec => []ChildrenStopAtPlan
<1>1. ASSUME IInv PROVE ChildrenStopAtPlan
  <2> SUFFICES ASSUME pc = "child"
               PROVE  /\ reason \in {"none", "triage_error", "plan_error"}
                      /\ Build \in {<<"anomaly_summary">>,
                                    <<"anomaly_summary", "triage_card", EvidenceComponent(category)>>}
    BY DEF ChildrenStopAtPlan
  <2>1. /\ reason \in {"none", "triage_error", "plan_error"} /\ anomaly \in Anomalies
        /\ plan = <<>> /\ executions = <<>> /\ recommendation = "none"
    BY <1>1 DEF IInv, ChildInv
  <2>2. anomaly # NoAnomaly
    BY <2>1, SweepAssumption
  <2> DEFINE evidence == EvidenceComponent(category)
             classified == stage = "classified" /\ (currentPhase # "triage" \/ shouldTerminate)
             card == IF classified THEN <<"triage_card", evidence>> ELSE <<>>
             Names == {"anomaly_summary", "triage_card", evidence}
  <2> HIDE DEF evidence, classified
  <2>3. Build = ((((<<"anomaly_summary">> \o card) \o <<>>) \o <<>>) \o <<>>) \o <<>>
    BY <2>1, <2>2 DEF Build, evidence, classified
  <2>4. \/ card = <<>> /\ <<"anomaly_summary">> \o card = <<"anomaly_summary">>
        \/ <<"anomaly_summary">> \o card = <<"anomaly_summary", "triage_card", evidence>>
    <3>1. <<"anomaly_summary">> \o <<>> = <<"anomaly_summary">>
      BY <<"anomaly_summary">> \in Seq(Names), ConcatEmptySeq
    <3>2. <<"anomaly_summary">> \o <<"triage_card", evidence>> = <<"anomaly_summary", "triage_card", evidence>>
      BY OneAndTwo
    <3>3. QED
      BY <3>1, <3>2
  <2>5. <<"anomaly_summary">> \in Seq(Names) /\ <<"anomaly_summary", "triage_card", evidence>> \in Seq(Names)
    OBVIOUS
  <2> HIDE DEF card, Names
  <2>6. Build = <<"anomaly_summary">> \o card
    BY <2>3, <2>4, <2>5, ConcatEmptySeq
  <2>7. QED
    BY <2>1, <2>4, <2>6 DEF evidence
<1>2. QED
  BY <1>1, Invariance, PTL

-----------------------------------------------------------------------------
(* The class of a case.                                                      *)

\* Who has no anomaly has no class.
LEMMA NobodysClass == Spec => [](anomaly = NoAnomaly => category = "none")
<1> DEFINE I == anomaly = NoAnomaly => category = "none"
<1>1. Init => I
  BY DEF Init, NoCase
<1>2. ASSUME I, [Next]_vars PROVE I'
  <2>1. CASE UNCHANGED caseVars
    BY <1>2, <2>1 DEF caseVars, triageVars
  <2>2. ASSUME NEW a, StartCase(a) PROVE I'
    BY <2>2 DEF StartCase
  <2>3. ASSUME CaseStep(AllocationAnswers) PROVE I'
    BY <2>3 DEF CaseStep, Watch, TriageAnomaly, TriageReturns, PlanFails, PlanReturns, ExecuteFails,
       ExecuteReturns, VerifyFails, VerifyReturns, InPhase
  <2>4. CASE UNCHANGED vars
    BY <2>1, <2>4 DEF vars
  <2>5. CASE StartSweep \/ ScanFails \/ ChildEnds \/ ChildFails \/ SweepReturns
    BY <2>1, <2>5 DEF StartSweep, ScanFails, ChildEnds, ChildFails, SweepReturns
  <2>6. CASE Trigger
    BY <2>2, <2>6 DEF Trigger
  <2>7. CASE Scan
    BY <2>1, <2>2, <2>7 DEF Scan
  <2>8. CASE CaseRuns
    BY <2>3, <2>8 DEF CaseRuns
  <2>9. QED
    BY <1>2, <2>4, <2>5, <2>6, <2>7, <2>8 DEF Next
<1>3. QED
  BY <1>1, <1>2, PTL DEF Spec

\* What a class says of the answers.
LEMMA ClassIsFirst ==
    ASSUME IInv, NEW i \in 1..9, category = Priority[i]
    PROVE  /\ stage = "classified" /\ seen \in Answers
           /\ Signal(anomaly, seen, i) /\ \A k \in 1..(i - 1) : ~Signal(anomaly, seen, k)
<1>1. category # "none"
  BY Classes
<1>2. stage = "classified" /\ seen \in Answers
  BY <1>1 DEF IInv, TypeOK, TriageInv
<1>3. PICK k \in 1..9 : /\ category = Priority[k] /\ Signal(anomaly, seen, k)
                        /\ \A m \in 1..(k - 1) : ~Signal(anomaly, seen, m)
  BY <1>2 DEF IInv, TriageInv
<1>4. k = i
  BY <1>3, Classes
<1>5. QED
  BY <1>2, <1>3, <1>4

LEMMA ShortBill ==
    ASSUME NEW bill \in Seq(LineItems), Len(bill) <= CURLimit
    PROVE  QueryResult(bill) = bill
<1>1. Len(bill) \in Nat /\ CURLimit \in Nat
  BY LenProperties, SourcesAssumption
<1>2. {CURLimit, Len(bill)} \in SUBSET Nat /\ {CURLimit, Len(bill)} # {}
  BY <1>1
<1>3. /\ Min({CURLimit, Len(bill)}) \in {CURLimit, Len(bill)}
      /\ Min({CURLimit, Len(bill)}) <= Len(bill)
  BY <1>2, MinIsLeast
<1>4. Min({CURLimit, Len(bill)}) = Len(bill)
  BY <1>1, <1>3
<1>5. QED
  BY <1>4, SubSeqFull DEF QueryResult

\* What an amount is measured by.
LEMMA Measure ==
    ASSUME NEW a, a.delta \in Int
    PROVE  Max({a.delta, 100}) \in {a.delta, 100} /\ a.delta <= Max({a.delta, 100}) /\ 100 <= Max({a.delta, 100})
<1>1. IsFiniteSet({a.delta, 100})
  BY PairFinite
<1>2. QED
  BY <1>1, MaxOfFinite

LEMMA FixtureFinite == IsFiniteSet({2000, 18000})
<1>1. \A x, y \in Int : IsFiniteSet({x, y})
  BY PairFinite
<1>2. QED
  BY <1>1

\* The two namespaces of the fixture went up by 180 dollars at most.
LEMMA FixtureShift == LargestShift(FixtureDeltas) = 18000 /\ Max(FixtureDeltas) = 18000
<1>1. IsFiniteSet({2000, 18000})
  BY FixtureFinite
<1>2. IsFiniteSet({2000, 18000} \cup {0})
  BY <1>1, FS_AddElement
<1>3. Max({2000, 18000}) = 18000
  BY <1>1, MaxOfFinite
<1>4. Max({2000, 18000} \cup {0}) = 18000
  <2>1. /\ {2000, 18000} \cup {0} \subseteq Int /\ {2000, 18000} \cup {0} # {}
        /\ 18000 \in {2000, 18000} \cup {0}
    OBVIOUS
  <2>2. Max({2000, 18000} \cup {0}) \in {2000, 18000} \cup {0} /\ 18000 <= Max({2000, 18000} \cup {0})
    BY <1>2, <2>1, MaxOfFinite
  <2>3. QED
    BY <2>2
<1>5. QED
  BY <1>3, <1>4 DEF LargestShift, FixtureDeltas

\* Whatever the sources answer, the class is the first of the nine with a signal in
\* their answers, and an earlier one can be missed in the bill only for the items its
\* query left out (primitives.go:93-345, query.go:34-42).
THEOREM ClassTheorem == Spec => []FirstClassWithSignal
<1>1. ASSUME IInv PROVE FirstClassWithSignal
  <2> SUFFICES ASSUME NEW i \in 1..9, category = Priority[i]
               PROVE  /\ Signals(anomaly, seen)[Priority[i]]
                      /\ \A j \in 1..(i - 1) :
                            SignalsOf(anomaly, seen, seen.bill)[Priority[j]] => Len(seen.bill) > CURLimit
    BY Classes DEF FirstClassWithSignal
  <2>1. /\ seen \in Answers /\ Signal(anomaly, seen, i)
        /\ \A k \in 1..(i - 1) : ~Signal(anomaly, seen, k)
    BY <1>1, ClassIsFirst
  <2>2. seen.bill \in Seq(LineItems) /\ Len(seen.bill) \in Nat
    <3>1. seen.bill \in Bills \cup {<<>>}
      BY <2>1 DEF Answers
    <3>2. seen.bill \in Seq(LineItems)
      BY <3>1, SourcesAssumption, EmptySeq
    <3>3. QED
      BY <3>2, LenProperties
  <2>3. ASSUME NEW j \in 1..(i - 1), SignalsOf(anomaly, seen, seen.bill)[Priority[j]],
               ~(Len(seen.bill) > CURLimit)
        PROVE  FALSE
    <3>1. QueryResult(seen.bill) = seen.bill
      BY <2>2, <2>3, SourcesAssumption, ShortBill
    <3>2. Signal(anomaly, seen, j)
      BY <2>3, <3>1 DEF Signal, Signals
    <3>3. QED
      BY <2>1, <2>3, <3>2
  <2>4. QED
    BY <2>1, <2>3 DEF Signal
<1>2. QED
  BY <1>1, Invariance, PTL

\* The stubbed kubecost decides: no answer of the other sources makes a case of at most
\* 900 dollars a deployment's, growth or unknown (main.go:83-87, stubs.go:113-131,
\* primitives.go:252-283).
THEOREM FixtureTheorem == Spec => []FixtureHidesLaterClasses
<1>1. ASSUME IInv PROVE FixtureHidesLaterClasses
  <2> SUFFICES ASSUME ~endpoint, anomaly # NoAnomaly, anomaly.delta <= 5 * Max(FixtureDeltas),
                      category \in {"deploy_related", "expected_growth", "unknown"}
               PROVE  FALSE
    BY DEF FixtureHidesLaterClasses
  <2>1. PICK i \in 1..9 : category = Priority[i] /\ i >= 7
    <3>1. category \in Categories
      BY <1>1 DEF IInv, TypeOK, Categories, Priority
    <3>2. PICK i \in 1..9 : category = Priority[i]
      BY <3>1, Classes DEF Categories
    <3>3. QED
      BY <3>2, Classes
  <2>2. ~Signal(anomaly, seen, 6)
    BY <1>1, <2>1, ClassIsFirst
  <2>3. seen.namespaces = FixtureDeltas
    BY <1>1 DEF IInv, TriageInv
  <2>4. anomaly.delta \in Int
    BY <1>1 DEF IInv, TypeOK, Anomalies
  <2>5. 5 * 18000 >= Max({anomaly.delta, 100})
    BY <2>4, Measure, FixtureShift
  <2>6. FixtureDeltas # {} /\ Material(LargestShift(FixtureDeltas), anomaly)
    BY <2>5, FixtureShift DEF Material, FixtureDeltas
  <2>7. QED
    BY <2>2, <2>3, <2>6, SignalAt
<1>2. QED
  BY <1>1, Invariance, PTL
\* The figure the reader of a classified case is shown is one that alone puts the case
\* into its class, whatever the answers: for a shift, the namespace with the largest
\* delta is shown and it is a fifth of the anomaly's (components.go:40-59, 161-174).
THEOREM FigureTheorem == Spec => []ShownFigureExplains
<1>1. ASSUME IInv, anomaly = NoAnomaly => category = "none" PROVE ShownFigureExplains
  <2> DEFINE Explains(n) == \/ category = "commitment_coverage_drift" /\ n >= 5
                            \/ category \in {"deploy_related", "expected_growth"} /\ n > 0
                            \/ Material(n, anomaly)
  <2> SUFFICES ASSUME category \in Categories \ {"resource_waste", "unknown"}
               PROVE  \E n \in ShownFigures(EvidenceComponent(category)) : Explains(n)
    BY DEF ShownFigureExplains
  <2> DEFINE items == QueryResult(seen.bill)
             shown == ShownFigures(EvidenceComponent(category))
  <2>1. PICK i \in 1..9 : category = Priority[i]
    BY Classes DEF Categories
  <2>2. i \in {1, 2, 4, 5, 6, 7, 8}
    <3>1. Priority[3] = "resource_waste" /\ Priority[9] = "unknown"
      BY DEF Priority
    <3>2. QED
      BY <2>1, <3>1
  <2>3. seen \in Answers /\ Signal(anomaly, seen, i)
    BY <1>1, <2>1, ClassIsFirst
  <2>4. anomaly.delta \in Int
    <3>1. category # "none"
      BY <2>1, Classes
    <3>2. QED
      BY <1>1, <3>1 DEF IInv, TypeOK, Anomalies
  <2>5. CASE i = 1
    <3>1. category = "commitment_coverage_drift"
      BY <2>1, <2>5 DEF Priority
    <3>2. shown = {Magnitude(CoverageDelta(seen.ri)), Magnitude(CoverageDelta(seen.sp))}
      BY <3>1 DEF ShownFigures, EvidenceComponent
    <3>3. Magnitude(CoverageDelta(seen.ri)) >= 5 \/ Magnitude(CoverageDelta(seen.sp)) >= 5
      BY <2>3, <2>5, SignalAt
    <3> HIDE DEF shown
    <3>4. QED
      BY <3>1, <3>2, <3>3 DEF shown
  <2>6. CASE i = 2
    <3>1. category = "credits_refunds_fees"
      BY <2>1, <2>6 DEF Priority
    <3>2. Magnitude(Credits(items)) \in shown /\ Magnitude(Refunds(items)) \in shown
      BY <3>1 DEF ShownFigures, EvidenceComponent
    <3>3. Material(Magnitude(Credits(items)), anomaly) \/ Material(Magnitude(Refunds(items)), anomaly)
      BY <2>3, <2>6, SignalAt
    <3> HIDE DEF shown, items
    <3>4. QED
      BY <3>2, <3>3 DEF shown
  <2>7. CASE i = 4
    <3>1. category = "marketplace"
      BY <2>1, <2>7 DEF Priority
    <3>2. MarketplaceCharges(items) \in shown
      BY <3>1 DEF ShownFigures, EvidenceComponent
    <3>3. Material(MarketplaceCharges(items), anomaly)
      BY <2>3, <2>7, SignalAt
    <3> HIDE DEF shown, items
    <3>4. QED
      BY <3>2, <3>3 DEF shown
  <2>8. CASE i = 5
    <3>1. category = "data_transfer"
      BY <2>1, <2>8 DEF Priority
    <3>2. EvidenceComponent(category) = "data_transfer_spike"
      BY <3>1 DEF EvidenceComponent
    <3>3. DataTransfer(items) \in shown
      BY <3>2 DEF ShownFigures
    <3>4. Material(DataTransfer(items), anomaly)
      BY <2>3, <2>8, SignalAt
    <3> HIDE DEF shown, items
    <3>5. QED
      BY <3>3, <3>4 DEF shown
  <2>9. CASE i = 6
    <3> DEFINE n == LargestShift(seen.namespaces)
    <3>1. category = "k8s_cost_shift"
      BY <2>1, <2>9 DEF Priority
    <3>2. shown = seen.namespaces
      BY <3>1 DEF ShownFigures, EvidenceComponent
    <3>3. Material(n, anomaly)
      BY <2>3, <2>9, SignalAt
    <3>4. IsFiniteSet(seen.namespaces) /\ seen.namespaces \subseteq Int
      <4>1. IsFiniteSet({2000, 18000})
        BY FixtureFinite
      <4>2. seen.namespaces \in Allocations \cup {FixtureDeltas, {}}
        BY <2>3 DEF Answers
      <4>3. CASE seen.namespaces \in Allocations
        BY <4>3, SourcesAssumption
      <4>4. CASE seen.namespaces = FixtureDeltas
        <5>1. FixtureDeltas = {2000, 18000}
          BY DEF FixtureDeltas
        <5>2. QED
          BY <4>1, <4>4, <5>1
      <4>5. CASE seen.namespaces = {}
        BY <4>5, FS_EmptySet
      <4>6. QED
        BY <4>2, <4>3, <4>4, <4>5
    <3>5. IsFiniteSet(seen.namespaces \cup {0}) /\ seen.namespaces \cup {0} \subseteq Int
      BY <3>4, FS_AddElement
    <3>6. n \in seen.namespaces \cup {0}
      BY <3>5, MaxOfFinite DEF LargestShift
    <3>7. n # 0
      <4>1. 5 * n >= Max({anomaly.delta, 100})
        BY <3>3 DEF Material
      <4>2. 100 <= Max({anomaly.delta, 100}) /\ Max({anomaly.delta, 100}) \in Int
        BY <2>4, Measure
      <4> HIDE DEF n
      <4>3. QED
        BY <4>1, <4>2
    <3> HIDE DEF shown, n
    <3>8. QED
      BY <3>2, <3>3, <3>6, <3>7 DEF shown
  <2>10. CASE i = 7
    <3>1. category = "deploy_related"
      BY <2>1, <2>10 DEF Priority
    <3>2. seen.deploys \in shown
      BY <3>1 DEF ShownFigures, EvidenceComponent
    <3>3. seen.deploys > 0
      BY <2>3, <2>10, SignalAt
    <3> HIDE DEF shown
    <3>4. QED
      BY <3>1, <3>2, <3>3 DEF shown
  <2>11. CASE i = 8
    <3>1. category = "expected_growth"
      BY <2>1, <2>11 DEF Priority
    <3>2. seen.usage.current - seen.usage.baseline \in shown
      BY <3>1 DEF ShownFigures, EvidenceComponent
    <3>3. GrowsWithUsage(seen.usage, anomaly)
      BY <2>3, <2>11, SignalAt
    <3>4. seen.usage.current - seen.usage.baseline > 0
      BY <3>3 DEF GrowsWithUsage
    <3> HIDE DEF shown
    <3>5. QED
      BY <3>1, <3>2, <3>4 DEF shown
  <2>12. QED
    BY <2>2, <2>5, <2>6, <2>7, <2>8, <2>9, <2>10, <2>11
<1>2. QED
  BY <1>1, Invariance, NobodysClass, PTL

-----------------------------------------------------------------------------
(* The phases of a case.                                                     *)

\* Each step of a case on the production activities is one the abstract view allows, so
\* its phases, its approval and its reason come in the view's order until the next case
\* begins (anomaly_lifecycle.go:62-241, awsdoctor_sweep.go:94-101).
THEOREM LifecyclesTheorem == Spec => CasesAreLifecycles
<1> DEFINE A == [View!Next \/ currentPhase' = "watcher"]_stateVars
<1>1. ASSUME IInv, [Next]_vars PROVE A
  <2>1. CASE UNCHANGED caseVars
    BY <2>1 DEF caseVars
  <2>2. ASSUME NEW a, StartCase(a) PROVE A
    BY <2>2 DEF StartCase
  <2>3. ASSUME CaseStep(AllocationAnswers) PROVE A
    <3>1. CASE Watch
      BY <3>1 DEF Watch, InPhase, KeepRunning, View!Next, View!Triage, View!Advance
    <3>2. CASE TriageAnomaly(AllocationAnswers)
      BY <3>2 DEF TriageAnomaly
    <3>3. CASE TriageReturns
      <4>1. CASE currentPhase' = "analyst" /\ KeepRunning
        BY <3>3, <4>1 DEF TriageReturns, InPhase, KeepRunning, View!Next, View!Analyse, View!Advance
      <4>2. CASE UNCHANGED currentPhase /\ \E r \in {"triage_error", "expected_growth_high_confidence"} : Return(r)
        BY <3>3, <4>2 DEF TriageReturns, InPhase, Return, View!Next, View!Stop, View!Return
      <4>3. QED
        BY <3>3, <4>1, <4>2 DEF TriageReturns
    <3>4. CASE PlanFails
      BY <3>4 DEF PlanFails, InPhase, Return, View!Next, View!Stop, View!Return
    <3>5. CASE PlanReturns
      <4>1. /\ plan' = AnalyzeAndRecommend /\ currentPhase' = "executor" /\ approval' = "auto_approved"
            /\ KeepRunning /\ InPhase("analyst")
        BY <3>5, PlanIsApproved DEF PlanReturns
      <4>2. (plan' # <<>>) = TRUE
        BY <4>1, PlanIsApproved
      <4>3. View!Plan
        BY <4>1, <4>2 DEF InPhase, KeepRunning, View!Plan, View!Advance
      <4>4. QED
        BY <4>3 DEF View!Next
    <3>6. CASE ExecuteFails
      BY <3>6 DEF ExecuteFails, InPhase, Return, View!Next, View!Stop, View!Return
    <3>7. CASE ExecuteReturns
      BY <3>7 DEF ExecuteReturns, InPhase, KeepRunning, View!Next, View!Verify, View!Advance
    <3>8. CASE VerifyFails
      BY <3>8 DEF VerifyFails, InPhase, Return, View!Next, View!Stop, View!Return
    <3>9. CASE VerifyReturns
      BY <3>9 DEF VerifyReturns, InPhase, Return, View!Next, View!Complete, View!Return
    <3>10. QED
      BY <2>3, <3>1, <3>2, <3>3, <3>4, <3>5, <3>6, <3>7, <3>8, <3>9 DEF CaseStep
  <2>4. CASE UNCHANGED vars
    BY <2>1, <2>4 DEF vars
  <2>5. CASE StartSweep \/ ScanFails \/ ChildEnds \/ ChildFails \/ SweepReturns
    BY <2>1, <2>5 DEF StartSweep, ScanFails, ChildEnds, ChildFails, SweepReturns
  <2>6. CASE Trigger
    BY <2>2, <2>6 DEF Trigger
  <2>7. CASE Scan
    BY <2>1, <2>2, <2>7 DEF Scan
  <2>8. CASE CaseRuns
    BY <2>3, <2>8 DEF CaseRuns
  <2>9. QED
    BY <1>1, <2>4, <2>5, <2>6, <2>7, <2>8 DEF Next
<1>2. QED
  BY <1>1, Invariance, PTL DEF Spec, CasesAreLifecycles
=============================================================================
