------------------------- MODULE ServiceTypes_proofs -------------------------
(***************************************************************************)
(* The types of the parts of ServiceParts that no other property leads to: *)
(* the monitor of objectives, the set-up, and the analyses of latency and  *)
(* of dependencies; and with those proved beside the other properties, the *)
(* type of every part.                                                     *)
(***************************************************************************)
EXTENDS ServiceParts_proofs, ReportParts_proofs

-----------------------------------------------------------------------------
(***************************************************************************)
(* The monitor of objectives.  A result is of an objective that the tick   *)
(* has checked: the next tick puts all of them up again, so it must find   *)
(* no result that is not handled.                                          *)
(***************************************************************************)
MonitorHandlesAll ==
    /\ handling => monitorTodo = {}
    /\ monitorTodo = {} /\ ~handling => results = {}

MonitorTyping == Monitor!TypeOK /\ MonitorHandlesAll

LEMMA MonitorTypingInit == Monitor!Init => MonitorTyping
  <1>1. Monitor!Absent \in 0..Monitor!Absent
    BY MonitorAssumption DEF Monitor!ConstantsAssumption, Monitor!Absent
  <1> QED
    BY <1>1 DEF Monitor!Init, MonitorTyping, MonitorHandlesAll, Monitor!TypeOK

LEMMA MonitorTypingNext == MonitorTyping /\ [Monitor!Next]_(Monitor!vars) => MonitorTyping'
  <1> SUFFICES ASSUME MonitorTyping, [Monitor!Next]_(Monitor!vars) PROVE MonitorTyping'
    OBVIOUS
  <1> USE DEF MonitorTyping, MonitorHandlesAll, Monitor!TypeOK, Monitor!world
  <1>1. CASE Monitor!Tick
    BY <1>1 DEF Monitor!Tick
  <1>2. ASSUME NEW s \in Slos, Monitor!Check(s) PROVE MonitorTyping'
    <2> DEFINE new == [slo |-> s, compliance |-> Monitor!Compliance(s),
                       requests |-> requests[s], failing |-> Monitor!Failing(s)]
    <2>1. /\ s \in monitorTodo /\ monitorTodo' = monitorTodo \ {s}
          /\ results' = results \cup {new} /\ new.slo = s
          /\ handling' = (monitorTodo' = {})
          /\ UNCHANGED <<kindOf, requests, failures, reachable, firing>>
      BY <1>2 DEF Monitor!Check
    <2> HIDE DEF new
    <2>2. handling' \in BOOLEAN /\ (handling' <=> monitorTodo' = {})
      BY <2>1, Zenon
    <2> QED
      BY <2>1, <2>2
  <1>3. ASSUME NEW r \in results, Monitor!Handle(r) PROVE MonitorTyping'
    BY <1>3 DEF Monitor!Handle
  <1>4. CASE Monitor!Outage
    BY <1>4 DEF Monitor!Outage
  <1>5. ASSUME NEW s \in Slos, Monitor!Change(s) PROVE MonitorTyping'
    BY <1>5 DEF Monitor!Change
  <1>6. CASE UNCHANGED Monitor!vars
    BY <1>6 DEF Monitor!vars
  <1> QED
    BY <1>1, <1>2, <1>3, <1>4, <1>5, <1>6 DEF Monitor!Next, Monitor!Work

\* What the monitor counts is in range, and an objective has no result while it is
\* still to be checked (slo/service.go, monitor_handler.go).
THEOREM MonitorTypeCorrect == Monitor!Spec => []Monitor!TypeOK
  <1>1. MonitorTyping => Monitor!TypeOK
    BY DEF MonitorTyping
  <1> QED
    BY <1>1, MonitorTypingInit, MonitorTypingNext, PTL DEF Monitor!Spec

-----------------------------------------------------------------------------
(***************************************************************************)
(* The set-up.  A question about a backend is about one that was chosen,   *)
(* and there is nothing of any backend before the choice.                  *)
(***************************************************************************)
SetupAsks ==
    /\ step.ask \in {"url", "auth"} => step.of \in backends
    /\ step.ask = "infra" => \E i \in 1..5 : step.of = Setup!InfraOrder[i]
    /\ step.ask \in {"name", "backends"} => urls = {} /\ creds = {}

SetupTyping == Setup!TypeOK /\ SetupAsks

\* Of a list that names everything in a set, the first in the set.
LEMMA FirstInSet ==
    ASSUME NEW order, NEW n \in Nat, DOMAIN order = 1..n, NEW S, S # {},
           \A x \in S : \E i \in DOMAIN order : x = order[i]
    PROVE  Setup!FirstIn(order, S) \in S
  <1> DEFINE at == {i \in DOMAIN order : order[i] \in S}
  <1>1. at \subseteq Nat /\ at # {}
    OBVIOUS
  <1>2. PICK i \in at : \A j \in at : i <= j
    BY <1>1, LeastNatural
  <1>3. \A j \in 1..(i - 1) : order[j] \notin S
    <2> SUFFICES ASSUME NEW j \in 1..(i - 1), order[j] \in S PROVE FALSE
      OBVIOUS
    <2>1. j \in Nat /\ j < i /\ i \in Nat
      BY <1>1, <1>2
    <2>2. j \in DOMAIN order
      BY <1>2, <2>1
    <2> QED
      BY <1>2, <2>1, <2>2
  <1> QED
    BY <1>2, <1>3 DEF Setup!FirstIn

\* Whatever was chosen, the next step is a question about something chosen.
LEMMA NextStepAsks ==
    ASSUME NEW us, NEW inf, inf \subseteq {Setup!InfraOrder[i] : i \in 1..5},
           backends' \subseteq Offered
    PROVE  LET to == Setup!NextStep(us, inf) IN
           \/ to.ask = "infra" /\ \E i \in 1..5 : to.of = Setup!InfraOrder[i]
           \/ to.ask = "url" /\ to.of \in backends'
           \/ to.ask = "discovery"
  <1> DEFINE missing == (backends' \ us)
                        \ (IF step = Setup!AuthStep("loki") THEN {"loki"} ELSE {})
             order == Setup!InfraOrder
             inOrder == Setup!Backends
  <1>1. CASE inf # {}
    <2>1. DOMAIN order = 1..5 /\ \A x \in inf : \E i \in DOMAIN order : x = order[i]
      BY DEF Setup!InfraOrder
    <2> HIDE DEF order
    <2>2. Setup!FirstIn(order, inf) \in inf
      BY <1>1, <2>1, FirstInSet
    <2>3. Setup!NextStep(us, inf) = Setup!Infra(Setup!FirstIn(order, inf))
      BY <1>1 DEF Setup!NextStep, order
    <2> QED
      BY <2>2, <2>3 DEF Setup!Infra, order
  <1>2. CASE inf = {} /\ missing # {}
    <2>1. DOMAIN inOrder = 1..4 /\ \A x \in missing : \E i \in DOMAIN inOrder : x = inOrder[i]
      BY SetupAssumption DEF Setup!Backends, Setup!ConstantsAssumption
    <2>2. Setup!NextStep(us, inf) = Setup!UrlStep(Setup!FirstIn(inOrder, missing))
      BY <1>2, Zenon DEF Setup!NextStep
    <2>3. missing \subseteq backends'
      OBVIOUS
    <2> HIDE DEF inOrder, missing
    <2>4. Setup!FirstIn(inOrder, missing) \in missing
      BY <1>2, <2>1, FirstInSet
    <2> QED
      BY <2>2, <2>3, <2>4 DEF Setup!UrlStep
  <1>3. CASE inf = {} /\ missing = {}
    BY <1>3 DEF Setup!NextStep, Setup!Ask
  <1> QED
    BY <1>1, <1>2, <1>3

\* Going on to another question asks about something chosen, without a result.
LEMMA SetupTypingGoes ==
    ASSUME Setup!GoToNextBackendStep, infra' \subseteq {Setup!InfraOrder[i] : i \in 1..5},
           backends' \subseteq Offered, discovery \in {"none", "global", "services", "deep"}
    PROVE  /\ SetupAsks'
           /\ step'.ask \in {"infra", "url", "discovery"} /\ result' = "none"
           /\ discovery' \in {"none", "global", "services", "deep"}
  <1>1. step' = Setup!NextStep(urls', infra')
    BY DEF Setup!GoToNextBackendStep
  <1>2. \/ step'.ask = "infra" /\ \E i \in 1..5 : step'.of = Setup!InfraOrder[i]
        \/ step'.ask = "url" /\ step'.of \in backends'
        \/ step'.ask = "discovery"
    BY <1>1, NextStepAsks
  <1> QED
    BY <1>2 DEF SetupAsks, Setup!GoToNextBackendStep

LEMMA SetupTypingInit == Setup!Init => SetupTyping
  <1> SUFFICES ASSUME Setup!Init PROVE SetupTyping
    OBVIOUS
  <1>1. {"kubeconfig", "context", "awsconfig", "awsprofile", "region"}
            \subseteq {Setup!InfraOrder[i] : i \in 1..5}
    BY DEF Setup!InfraOrder
  <1>2. infra \subseteq {"kubeconfig", "context", "awsconfig", "awsprofile", "region"}
    BY DEF Setup!Init
  <1>3. step.ask = "name"
    BY DEF Setup!Init, Setup!Ask
  <1> QED
    BY <1>1, <1>2, <1>3 DEF Setup!Init, SetupTyping, SetupAsks, Setup!TypeOK

LEMMA SetupTypingNext == SetupTyping /\ [Setup!Next]_(Setup!vars) => SetupTyping'
  <1> SUFFICES ASSUME SetupTyping, [Setup!Next]_(Setup!vars) PROVE SetupTyping'
    OBVIOUS
  <1> USE DEF SetupTyping, Setup!TypeOK, Setup!test
  <1>1. CASE Setup!ProfileName
    BY <1>1 DEF Setup!ProfileName, Setup!Ask, SetupAsks
  <1>2. CASE Setup!ChooseBackends
    BY <1>2, SetupTypingGoes DEF Setup!ChooseBackends, Setup!Ask, SetupAsks
  <1>3. ASSUME NEW filled \in BOOLEAN, Setup!AnswerInfra(filled) PROVE SetupTyping'
    <2>1. infra' \subseteq {Setup!InfraOrder[i] : i \in 1..5}
      BY <1>3 DEF Setup!AnswerInfra, SetupAsks
    <2>2. CASE step.of = "region"
      BY <1>3, <2>1, <2>2, SetupTypingGoes DEF Setup!AnswerInfra
    <2>3. CASE step.of # "region"
      <3> DEFINE k == CHOOSE i \in 1..4 : Setup!InfraOrder[i] = step.of
      <3>1. k \in 1..4
        BY <1>3, <2>3 DEF Setup!AnswerInfra, SetupAsks, Setup!InfraOrder
      <3>2. step' = Setup!Infra(Setup!InfraOrder[k + 1])
        BY <1>3, <2>3 DEF Setup!AnswerInfra
      <3> HIDE DEF k
      <3>3. step'.ask = "infra" /\ \E i \in 1..5 : step'.of = Setup!InfraOrder[i]
        BY <3>1, <3>2 DEF Setup!Infra
      <3> QED
        BY <1>3, <2>1, <2>3, <3>3 DEF Setup!AnswerInfra, SetupAsks
    <2> QED
      BY <2>2, <2>3
  <1>4. ASSUME NEW filled \in BOOLEAN, Setup!AnswerUrl(filled) PROVE SetupTyping'
    BY <1>4 DEF Setup!AnswerUrl, Setup!AuthStep, SetupAsks
  <1>5. ASSUME NEW filled \in BOOLEAN, Setup!AnswerAuth(filled) PROVE SetupTyping'
    <2>1. step.of \in backends /\ creds' \subseteq backends
      BY <1>5 DEF Setup!AnswerAuth, Setup!CredsAfter, SetupAsks
    <2>2. CASE step.of \in Setup!Tested /\ ~testing /\ result # step.of
      BY <1>5, <2>1, <2>2 DEF Setup!AnswerAuth, SetupAsks
    <2>3. CASE ~(step.of \in Setup!Tested /\ ~testing /\ result # step.of)
      BY <1>5, <2>1, <2>3, SetupTypingGoes DEF Setup!AnswerAuth
    <2> QED
      BY <2>2, <2>3
  <1>6. CASE Setup!AnswerTail
    <2>1. PICK i \in 1..6 :
              /\ step = Setup!Ask(Setup!Tail[i]) /\ step' = Setup!Ask(Setup!Tail[i + 1])
              /\ result' = IF i <= 2 THEN "none" ELSE result
              /\ UNCHANGED <<backends, urls, creds, infra, testing, tests, discovery>>
      BY <1>6 DEF Setup!AnswerTail
    <2>2. step'.ask = Setup!Tail[i + 1] /\ i + 1 \in 1..7
      BY <2>1 DEF Setup!Ask
    <2>3. Setup!Tail[i + 1] \notin {"url", "auth", "infra", "name", "backends"}
      BY <2>2 DEF Setup!Tail
    <2> QED
      BY <2>1, <2>2, <2>3 DEF SetupAsks
  <1>7. CASE Setup!GiveUp
    BY <1>7 DEF Setup!GiveUp, Setup!Ask, Setup!Tail, SetupAsks
  <1>8. ASSUME NEW b \in tests, Setup!TestReturns(b) PROVE SetupTyping'
    BY <1>8 DEF Setup!TestReturns, SetupAsks
  <1>9. CASE Setup!GlobalMetadata
    BY <1>9 DEF Setup!GlobalMetadata, SetupAsks
  <1>10. CASE Setup!ServicesReturn \/ Setup!DeepDiscovery
    <2>1. /\ step' = Setup!Ask("flows") /\ result' \in {"none", result}
          /\ discovery' \in {"none", "deep"}
          /\ UNCHANGED <<backends, urls, creds, infra, testing, tests>>
      BY <1>10 DEF Setup!ServicesReturn, Setup!DeepDiscovery
    <2>2. step'.ask \in {Setup!Tail[i] : i \in 1..7} /\ step'.ask = "flows"
      BY <2>1 DEF Setup!Ask, Setup!Tail
    <2>3. result' \in Setup!Tested \cup {"none"}
      BY <2>1
    <2> QED
      BY <2>1, <2>2, <2>3 DEF SetupAsks
  <1>11. CASE UNCHANGED Setup!vars
    BY <1>11 DEF Setup!vars, SetupAsks
  <1> QED
    BY <1>1, <1>2, <1>3, <1>4, <1>5, <1>6, <1>7, <1>8, <1>9, <1>10, <1>11
       DEF Setup!Next, Setup!Enter, Setup!Returns

\* Every question and every backend of the set-up is one that there is: what is
\* filled in or tested was chosen, also after a message has set the step
\* (config/wizard.go).
THEOREM SetupTypeCorrect == Setup!Spec => []Setup!TypeOK
  <1>1. SetupTyping => Setup!TypeOK
    BY DEF SetupTyping
  <1> QED
    BY <1>1, SetupTypingInit, SetupTypingNext, PTL DEF Setup!Spec

-----------------------------------------------------------------------------
(***************************************************************************)
(* The analysis of latency.  The metrics it settles on are of the          *)
(* candidates, or of the configuration where there are none.               *)
(***************************************************************************)
LatencyCandidates(ms) == toScore \subseteq ms /\ \A a \in scored : a.metric \in ms

LatencyChosen ==
    /\ latencyPc = "score latency" => LatencyCandidates(Latency!Names(Latencies))
    /\ latencyPc = "score requests" => LatencyCandidates(Latency!Names(Requests))
    /\ latencyPc \notin {"latency names", "score latency", "end"} =>
          cfg.latency \in Latency!Names(Latencies)
    /\ latencyPc \notin {"latency names", "score latency", "request names", "score requests",
                         "end"} => cfg.requests \in Latency!Names(Requests)

LatencyTyping ==
    /\ Latency!TypeOK /\ LatencyChosen
    /\ {"auto", "latency", "route", "services", "requests"} \subseteq DOMAIN cfg
    /\ {"confidence", "window"} \subseteq DOMAIN analysis

\* The operators of the community modules that the analysis has are those of here.
LEMMA LatencyOperators ==
    /\ \A S : Latency!Cardinality(S) = Cardinality(S)
    /\ \A S : Latency!IsFiniteSet(S) <=> IsFiniteSet(S)
  <1>1. ASSUME NEW S PROVE Latency!Cardinality(S) = Cardinality(S)
    BY Zenon DEF Latency!Cardinality, Cardinality
  <1>2. ASSUME NEW S PROVE Latency!IsFiniteSet(S) <=> IsFiniteSet(S)
    BY Zenon DEF Latency!IsFiniteSet, IsFiniteSet
  <1> QED
    BY <1>1, <1>2

\* The values of a label are counted, and of the labels the most counts.
LEMMA DiversityType ==
    ASSUME world \in Worlds, NEW m \in Latency!Names(Requests)
    PROVE  Latency!Diversity(m) \in Nat
  <1> DEFINE keys == UNION {DOMAIN s.tags : s \in world.metrics[m]}
             count == [l \in keys |-> Latency!Cardinality(Latency!Values(m, l))]
  <1>1. IsFiniteSet(world.metrics[m]) /\ \A s \in world.metrics[m] : IsFiniteSet(DOMAIN s.tags)
    BY LatencyAssumption, LatencyOperators DEF Latency!ConstantsAssumption
  <1>2. IsFiniteSet(keys)
    <2> DEFINE f == [s \in world.metrics[m] |-> DOMAIN s.tags]
               T == {f[s] : s \in world.metrics[m]}
    <2>1. IsFiniteSet(T)
      <3> HIDE DEF f
      <3> QED
        BY <1>1, ImageFinite
    <2>2. \A x \in T : IsFiniteSet(x)
      BY <1>1
    <2>3. keys = UNION T
      OBVIOUS
    <2> HIDE DEF keys, T
    <2> QED
      BY <2>1, <2>2, <2>3, FS_UNION
  <1>3. ASSUME NEW l \in keys PROVE count[l] \in Nat
    <2> DEFINE having == {t \in world.metrics[m] : l \in DOMAIN t.tags}
               f == [s \in having |-> s.tags[l]]
               vs == {f[s] : s \in having}
    <2>1. IsFiniteSet(having)
      BY <1>1, FS_Subset
    <2>2. IsFiniteSet(vs)
      <3> HIDE DEF f, having
      <3> QED
        BY <2>1, ImageFinite
    <2>3. vs = Latency!Values(m, l)
      BY DEF Latency!Values
    <2> QED
      BY <2>2, <2>3, FS_CardinalityType, LatencyOperators
  <1>4. CASE Latency!Readable(m) /\ keys # {}
    <2> DEFINE counts == {count[l] : l \in keys}
    <2>1. PICK top \in keys : \A l \in keys : count[top] >= count[l]
      <3> HIDE DEF keys, count
      <3> QED
        BY <1>2, <1>3, <1>4, GreatestValue
    <2>2. counts \subseteq Nat /\ \E x \in counts : \A y \in counts : x >= y
      BY <1>3, <2>1
    <2>3. Latency!Max(counts) \in counts
      <3> HIDE DEF counts
      <3> QED
        BY <2>2 DEF Latency!Max
    <2>4. Latency!Diversity(m) = Latency!Max(counts)
      <3>1. counts = {Latency!Cardinality(Latency!Values(m, l)) : l \in keys}
        OBVIOUS
      <3> HIDE DEF counts
      <3> QED
        BY <1>4, <3>1, Zenon DEF Latency!Diversity
    <2> QED
      BY <2>2, <2>3, <2>4
  <1>5. CASE ~(Latency!Readable(m) /\ keys # {})
    BY <1>5 DEF Latency!Diversity
  <1> QED
    BY <1>4, <1>5

\* Where a request metric must be taken from all of them, there is a best one.
LEMMA PreferredMetric ==
    ASSUME LatencyTyping, Latency!PreferRoutes, NEW q,
           q = cfg'.requests
    PROVE  q \in Latency!Names(Requests) \cup {cfg.requests}
  <1> DEFINE score(m) == Hint[m] + Latency!Diversity(m)
                         + Latency!Worth(Latency!FirstOn(ErrorLabels, m) # None, 5)
             fit == {i \in DOMAIN Requests :
                       /\ Latency!NamesKnown /\ Latency!HasRequests(Requests[i])
                       /\ Latency!FirstOn(RouteLabels, Requests[i]) # None}
             best == {i \in fit : \A j \in fit : score(Requests[i]) >= score(Requests[j])}
             value == [i \in fit |-> score(Requests[i])]
  <1>1. IsFiniteSet(fit) /\ fit \subseteq Nat
    <2>1. DOMAIN Requests = 1..Len(Requests) /\ Len(Requests) \in Nat
      BY LatencyAssumption DEF Latency!ConstantsAssumption
    <2>2. IsFiniteSet(DOMAIN Requests)
      BY <2>1, FS_Interval
    <2> QED
      BY <2>1, <2>2, FS_Subset
  <1>2. \A i \in fit : value[i] \in Int
    <2> SUFFICES ASSUME NEW i \in fit PROVE value[i] \in Int
      OBVIOUS
    <2>1. Requests[i] \in Latency!Names(Requests)
      BY DEF Latency!Names
    <2>2. Hint[Requests[i]] \in Nat
      BY <2>1, LatencyAssumption DEF Latency!ConstantsAssumption
    <2>3. Latency!Diversity(Requests[i]) \in Nat
      BY <2>1, DiversityType DEF LatencyTyping, Latency!TypeOK
    <2>4. Latency!Worth(Latency!FirstOn(ErrorLabels, Requests[i]) # None, 5) \in Nat
      BY DEF Latency!Worth
    <2> QED
      BY <2>2, <2>3, <2>4
  <1>3. CASE fit = {}
    BY <1>3 DEF Latency!PreferRoutes
  <1>4. CASE fit # {}
    <2>1. PICK top \in fit : \A i \in fit : value[top] >= value[i]
      <3> HIDE DEF fit, value
      <3> QED
        BY <1>1, <1>2, <1>4, GreatestValue
    <2>2. best # {} /\ best \subseteq Nat
      BY <1>1, <2>1
    <2>3. Latency!Min(best) \in best
      <3> HIDE DEF best
      <3>1. \E n \in best : \A m \in best : n <= m
        BY <2>2, LeastNatural
      <3> QED
        BY <3>1 DEF Latency!Min
    <2>4. Requests[Latency!Min(best)] \in Latency!Names(Requests)
      BY <2>3 DEF Latency!Names
    <2>5. \E m : cfg' = [cfg EXCEPT !.requests = Requests[Latency!Min(best)], !.route = m]
      BY <1>4 DEF Latency!PreferRoutes
    <2>6. cfg'.requests = Requests[Latency!Min(best)]
      <3> HIDE DEF best
      <3> QED
        BY <2>5 DEF LatencyTyping
    <2> QED
      BY <2>4, <2>6
  <1> QED
    BY <1>3, <1>4

\* The first of the good ones is a good one.
LEMMA LatencyFirst ==
    ASSUME NEW seq, DOMAIN seq \subseteq Nat, NEW good, Latency!First(seq, good) # None
    PROVE  Latency!First(seq, good) \in good /\ \E i \in DOMAIN seq : Latency!First(seq, good) = seq[i]
  <1> DEFINE at == {i \in DOMAIN seq : seq[i] \in good}
  <1>1. at # {} /\ at \subseteq Nat
    BY DEF Latency!First
  <1>2. Latency!Min(at) \in at
    <2> HIDE DEF at
    <2>1. \E n \in at : \A m \in at : n <= m
      BY <1>1, LeastNatural
    <2> QED
      BY <2>1 DEF Latency!Min
  <1>3. Latency!First(seq, good) = seq[Latency!Min(at)]
    BY <1>1 DEF Latency!First
  <1> QED
    BY <1>2, <1>3

\* The window an answer is of is the one asked for, or one tried after it.
LEMMA WindowType ==
    ASSUME NEW m, NEW sels PROVE Latency!Quantile(m, sels, 1).window \in 1..3
  <1> DEFINE tried == <<m>> \o Fallbacks
             of(v, form) == Latency!First(tried, {x \in Latency!Names(tried) :
                                                     Latency!P95(x, form, sels, v) # None})
             found(v) == IF of(v, "histogram") # None
                         THEN [p95 |-> Latency!P95(of(v, "histogram"), "histogram", sels, v),
                               window |-> v]
                         ELSE IF of(v, "summary") # None
                         THEN [p95 |-> Latency!P95(of(v, "summary"), "summary", sels, v),
                               window |-> v]
                         ELSE None
             seq == Latency!Tried(1)
             good == {v \in Latency!Names(seq) : latencyUp /\ found(v) # None}
             at == Latency!First(seq, good)
  <1>1. Latency!Quantile(m, sels, 1)
            = IF at = None THEN [p95 |-> None, window |-> 1] ELSE found(at)
    BY Zenon DEF Latency!Quantile
  <1>2. DOMAIN seq = 1..3 /\ \A i \in 1..3 : seq[i] \in 1..3
    BY DEF Latency!Tried
  <1>3. CASE at = None
    BY <1>1, <1>3
  <1>4. CASE at # None
    <2>1. at \in good /\ \E i \in DOMAIN seq : at = seq[i]
      <3> HIDE DEF good, seq
      <3> QED
        BY <1>2, <1>4, LatencyFirst
    <2>2. at \in 1..3
      <3> HIDE DEF at, seq
      <3> QED
        BY <1>2, <2>1
    <2>3. found(at).window = at
      <3> HIDE DEF at, of
      <3> QED
        BY <2>1
    <2> QED
      BY <1>1, <1>4, <2>2, <2>3
  <1> QED
    BY <1>3, <1>4

LEMMA LatencyTypingInit == Latency!Init => LatencyTyping
  <1> SUFFICES ASSUME Latency!Init PROVE LatencyTyping
    OBVIOUS
  <1>1. /\ cfg \in Configs
        /\ {"auto", "latency", "route", "services", "requests"} \subseteq DOMAIN cfg
        /\ cfg.latency \in Latency!Names(Latencies) \/ (cfg.auto /\ cfg.latency = None)
        /\ cfg.requests \in Latency!Names(Requests) \/ (cfg.auto /\ cfg.requests = None)
    BY LatencyAssumption DEF Latency!Init, Latency!ConstantsAssumption
  <1>2. latencyPc = IF cfg.auto THEN "latency names" ELSE "check labels"
    BY DEF Latency!Init
  <1>3. LatencyChosen
    BY <1>1, <1>2 DEF LatencyChosen
  <1>4. analysis.confidence = None /\ analysis.window = 1
        /\ {"confidence", "window"} \subseteq DOMAIN analysis
    BY DEF Latency!Init
  <1>5. /\ world \in Worlds /\ latencyUp \in BOOLEAN /\ steady \in BOOLEAN
        /\ named \in BOOLEAN /\ latencyKnown = {} /\ report = None
    BY Zenon DEF Latency!Init
  <1>6. /\ cfg.latency \in Latency!Names(Latencies) \cup {None}
        /\ cfg.requests \in Latency!Names(Requests) \cup {None}
    BY <1>1, Zenon
  <1>7. analysis.confidence \in {None, "high", "medium", "low"} /\ analysis.window \in 1..3
    BY <1>4
  <1>8. Latency!TypeOK
    BY <1>5, <1>6, <1>7 DEF Latency!TypeOK
  <1> QED
    BY <1>1, <1>3, <1>4, <1>8, Zenon DEF LatencyTyping

\* A step after the choice of the metrics, which leaves them alone.
Settled(at) ==
    at \notin {"latency names", "score latency", "request names", "score requests", "end"}

\* A step after discovery, which keeps the metrics that were chosen.
LEMMA LatencyTypingSettled ==
    ASSUME LatencyTyping, Settled(latencyPc), Settled(latencyPc') \/ latencyPc' = "end",
           world' = world, latencyUp' = latencyUp, steady' = steady, named' \in BOOLEAN,
           latencyKnown' \subseteq latencyKnown \cup {cfg.latency, cfg.requests},
           DOMAIN cfg' = DOMAIN cfg, cfg'.latency = cfg.latency, cfg'.requests = cfg.requests,
           DOMAIN analysis' = DOMAIN analysis, analysis'.window \in 1..3,
           analysis'.confidence \in {None, "high", "medium", "low"},
           report' \in {None, "unavailable", "RISK", "SAFE"}
    PROVE  LatencyTyping'
  <1>1. cfg.latency \in Latency!Names(Latencies) /\ cfg.requests \in Latency!Names(Requests)
    BY DEF LatencyTyping, LatencyChosen, Settled
  <1>2. LatencyChosen'
    BY <1>1 DEF LatencyChosen, Settled
  <1> QED
    BY <1>1, <1>2 DEF LatencyTyping, Latency!TypeOK

\* What a later step may learn are series of the metrics chosen.
LEMMA LatencyLearns ==
    ASSUME NEW ms, Latency!Learn(ms) PROVE latencyKnown' \subseteq latencyKnown \cup ms
  BY DEF Latency!Learn

LEMMA LatencyTypingChoice ==
    ASSUME LatencyTyping,
           \/ Latency!ListLatency \/ Latency!ChooseLatency
           \/ Latency!ListRequests \/ Latency!ChooseRequests
           \/ \E m \in toScore : Latency!ScoreLatency(m) \/ Latency!ScoreRequests(m)
    PROVE  LatencyTyping'
  <1> DEFINE Ls == Latency!Names(Latencies)
             Rs == Latency!Names(Requests)
             \* All but the metrics and the candidates.
             Rest == /\ UNCHANGED <<world, latencyUp, steady>> /\ named' \in BOOLEAN
                     /\ latencyKnown' \subseteq Ls \cup Rs
                     /\ DOMAIN cfg' = DOMAIN cfg
                     /\ DOMAIN analysis' = DOMAIN analysis
                     /\ UNCHANGED <<analysis.window, analysis.confidence>>
                     /\ report' \in {report, "unavailable"}
             Metrics2 == cfg'.latency \in Ls \cup {None} /\ cfg'.requests \in Rs \cup {None}
  <1>1. ASSUME Rest, Metrics2, LatencyChosen' PROVE LatencyTyping'
    BY <1>1 DEF LatencyTyping, Latency!TypeOK
  <1>2. /\ latencyKnown \subseteq Ls \cup Rs /\ named \in BOOLEAN /\ latencyUp \in BOOLEAN
        /\ cfg.latency \in Ls \cup {None} /\ cfg.requests \in Rs \cup {None}
    BY DEF LatencyTyping, Latency!TypeOK
  <1>3. CASE Latency!ListLatency
    <2>1. /\ UNCHANGED <<world, latencyUp, steady, cfg, routeForRps, analysis>>
          /\ named' = Latency!NamesKnown /\ scored' = {}
          /\ Latency!Learn({m \in Ls : Form[m] = "summary"})
      BY <1>3 DEF Latency!ListLatency, Latency!fixed
    <2>2. \/ latencyPc' = "score latency" /\ toScore' \subseteq Ls /\ report' = report
          \/ latencyPc' = "request names" /\ cfg.latency # None /\ report' = report
          \/ latencyPc' = "end" /\ report' = "unavailable"
      BY <1>3 DEF Latency!ListLatency, Latency!Go, Latency!Fail
    <2>3. named' \in BOOLEAN
      BY <1>2, <2>1, Zenon DEF Latency!NamesKnown
    <2>4. latencyKnown' \subseteq Ls \cup Rs
      BY <1>2, <2>1, LatencyLearns
    <2>5. LatencyChosen'
      BY <1>2, <2>1, <2>2 DEF LatencyChosen, LatencyCandidates
    <2> QED
      BY <1>1, <1>2, <2>1, <2>2, <2>3, <2>4, <2>5
  <1>4. ASSUME NEW m \in toScore, Latency!ScoreLatency(m) PROVE LatencyTyping'
    <2>1. /\ UNCHANGED <<world, latencyUp, steady, named, latencyKnown, cfg, latencyPc, analysis, report>>
          /\ latencyPc = "score latency" /\ toScore' = toScore \ {m}
          /\ \E h, n : scored' = scored \cup {[metric |-> m, hasData |-> h, score |-> n]}
      BY <1>4, Zenon DEF Latency!ScoreLatency, Latency!fixed, Latency!client
    <2>2. \A a \in scored' : a \in scored \/ a.metric = m
      <3>1. PICK h, n : scored' = scored \cup {[metric |-> m, hasData |-> h, score |-> n]}
        BY <2>1
      <3> QED
        BY <3>1
    <2>3. LatencyChosen'
      <3>1. /\ UNCHANGED <<latencyPc, cfg>> /\ latencyPc = "score latency"
            /\ toScore' \subseteq toScore
        BY <2>1
      <3>2. LatencyCandidates(Ls) /\ m \in Ls
        BY <3>1 DEF LatencyTyping, LatencyChosen, LatencyCandidates
      <3>3. LatencyCandidates(Ls)'
        BY <2>2, <3>1, <3>2 DEF LatencyCandidates
      <3> QED
        BY <3>1, <3>3 DEF LatencyTyping, LatencyChosen
    <2> QED
      BY <1>1, <1>2, <2>1, <2>3
  <1>5. CASE Latency!ChooseLatency
    <2>1. PICK a \in Latency!Best :
             /\ cfg' = [cfg EXCEPT !.latency = a.metric]
             /\ analysis' = [analysis EXCEPT !.chosen = a.hasData \/ \A b \in scored : ~b.hasData]
      BY <1>5 DEF Latency!ChooseLatency
    <2>2. /\ latencyPc = "score latency" /\ latencyPc' = "request names" /\ report' = report
          /\ UNCHANGED <<world, latencyUp, steady, named, latencyKnown>>
      BY <1>5 DEF Latency!ChooseLatency, Latency!fixed, Latency!client, Latency!Go
    <2>3. a.metric \in Ls
      BY <2>2 DEF Latency!Best, LatencyTyping, LatencyChosen, LatencyCandidates
    <2>4. cfg'.latency = a.metric /\ cfg'.requests = cfg.requests /\ DOMAIN cfg' = DOMAIN cfg
      BY <2>1 DEF LatencyTyping
    <2>5. /\ DOMAIN analysis' = DOMAIN analysis
          /\ UNCHANGED <<analysis.window, analysis.confidence>>
      BY <2>1 DEF LatencyTyping
    <2>6. LatencyChosen'
      BY <2>2, <2>3, <2>4 DEF LatencyChosen
    <2> QED
      BY <1>1, <1>2, <2>2, <2>3, <2>4, <2>5, <2>6
  <1>6. CASE Latency!ListRequests
    <2>1. /\ UNCHANGED <<world, latencyUp, steady, latencyKnown, cfg, routeForRps, analysis, report>>
          /\ named' = Latency!NamesKnown /\ scored' = {}
          /\ latencyPc = "request names" /\ latencyPc' = "score requests"
          /\ toScore' \subseteq Rs
      BY <1>6 DEF Latency!ListRequests, Latency!fixed, Latency!Go
    <2>2. named' \in BOOLEAN
      BY <1>2, <2>1, Zenon DEF Latency!NamesKnown
    <2>3. LatencyChosen'
      BY <2>1 DEF LatencyTyping, LatencyChosen, LatencyCandidates
    <2> QED
      BY <1>1, <1>2, <2>1, <2>2, <2>3
  <1>7. ASSUME NEW m \in toScore, Latency!ScoreRequests(m) PROVE LatencyTyping'
    <2>1. /\ UNCHANGED <<world, latencyUp, steady, named, cfg, latencyPc, analysis, report>>
          /\ latencyPc = "score requests" /\ toScore' \subseteq toScore
      BY <1>7 DEF Latency!ScoreRequests, Latency!fixed
    <2>2. m \in Rs /\ cfg.latency \in Ls /\ LatencyCandidates(Rs)
      BY <2>1 DEF LatencyTyping, LatencyChosen, LatencyCandidates
    <2>3. /\ \A a \in scored' : a \in scored \/ a.metric = m
          /\ latencyKnown' \subseteq latencyKnown \cup {m, cfg.latency}
      <3>1. CASE Latency!HasRequests(m)
        <4>1. \E n : scored' = scored \cup {[metric |-> m, hasData |-> TRUE, score |-> n]}
          BY <1>7, <3>1, Zenon DEF Latency!ScoreRequests
        <4>2. Latency!Learn({m, cfg.latency})
          BY <1>7, <3>1, Zenon DEF Latency!ScoreRequests
        <4> QED
          BY <4>1, <4>2, LatencyLearns
      <3>2. CASE ~Latency!HasRequests(m)
        BY <1>7, <3>2 DEF Latency!ScoreRequests
      <3> QED
        BY <3>1, <3>2
    <2>4. LatencyChosen'
      <3>1. LatencyCandidates(Rs)'
        BY <2>1, <2>2, <2>3 DEF LatencyCandidates
      <3> QED
        BY <2>1, <2>2, <3>1 DEF LatencyTyping, LatencyChosen
    <2> QED
      BY <1>1, <1>2, <2>1, <2>2, <2>3, <2>4
  <1>8. CASE Latency!ChooseRequests
    <2>1. /\ UNCHANGED <<world, latencyUp, steady, named, latencyKnown, analysis>>
          /\ latencyPc = "score requests"
          /\ \/ latencyPc' = "common labels" /\ report' = report
             \/ latencyPc' = "end" /\ report' = "unavailable" /\ cfg' = cfg
      BY <1>8 DEF Latency!ChooseRequests, Latency!fixed, Latency!client, Latency!Go, Latency!Fail
    <2>2. CASE \E a \in Latency!Best : cfg' = [cfg EXCEPT !.requests = a.metric]
      <3>1. PICK a \in Latency!Best : cfg' = [cfg EXCEPT !.requests = a.metric]
        BY <2>2
      <3>2. a.metric \in Rs
        BY <2>1 DEF Latency!Best, LatencyTyping, LatencyChosen, LatencyCandidates
      <3>3. cfg'.requests = a.metric /\ cfg'.latency = cfg.latency /\ DOMAIN cfg' = DOMAIN cfg
        BY <3>1 DEF LatencyTyping
      <3>4. LatencyChosen'
        BY <2>1, <3>2, <3>3 DEF LatencyTyping, LatencyChosen
      <3> QED
        BY <1>1, <1>2, <2>1, <3>2, <3>3, <3>4
    <2>3. CASE ~\E a \in Latency!Best : cfg' = [cfg EXCEPT !.requests = a.metric]
      <3>1. cfg' = cfg /\ (latencyPc' = "end" \/ cfg.requests # None)
        BY <1>8, <2>3 DEF Latency!ChooseRequests, Latency!Fail
      <3>2. LatencyChosen'
        BY <1>2, <2>1, <3>1 DEF LatencyTyping, LatencyChosen
      <3> QED
        BY <1>1, <1>2, <2>1, <3>1, <3>2
    <2> QED
      BY <2>2, <2>3
  <1> QED
    BY <1>3, <1>4, <1>5, <1>6, <1>7, <1>8

\* Steps after the choice.
LEMMA LatencyTypingDiscover ==
    ASSUME LatencyTyping,
           \/ Latency!CommonLabels \/ Latency!FindErrorLabel
           \/ Latency!SettleRoute \/ Latency!ValidateLabels
           \/ Latency!CheckLabels \/ Latency!CheckNames
    PROVE  LatencyTyping'
  <1> USE DEF Latency!fixed, Latency!client, Latency!Go, Settled
  <1>1. /\ named \in BOOLEAN /\ latencyUp \in BOOLEAN /\ analysis.window \in 1..3
        /\ analysis.confidence \in {None, "high", "medium", "low"}
        /\ report \in {None, "unavailable", "RISK", "SAFE"}
        /\ {"latency", "requests"} \subseteq DOMAIN cfg
        /\ {"confidence", "window"} \subseteq DOMAIN analysis
    BY DEF LatencyTyping, Latency!TypeOK
  <1>2. ASSUME Settled(latencyPc), Settled(latencyPc'),
               UNCHANGED <<world, latencyUp, steady, report>>, named' \in BOOLEAN,
               latencyKnown' \subseteq latencyKnown \cup {cfg.latency, cfg.requests},
               DOMAIN cfg' = DOMAIN cfg, UNCHANGED <<cfg.latency, cfg.requests>>,
               DOMAIN analysis' = DOMAIN analysis,
               UNCHANGED <<analysis.window, analysis.confidence>>
        PROVE  LatencyTyping'
    BY <1>1, <1>2, LatencyTypingSettled
  <1>3. CASE Latency!CommonLabels
    <2>1. \E a, b, c, d : cfg' = [cfg EXCEPT !.services = a, !.service = b, !.route = c, !.path = d]
      BY <1>3 DEF Latency!CommonLabels
    <2>2. DOMAIN cfg' = DOMAIN cfg /\ UNCHANGED <<cfg.latency, cfg.requests>>
      BY <1>1, <2>1
    <2>3. Latency!Learn({cfg.latency, cfg.requests})
      BY <1>3 DEF Latency!CommonLabels
    <2> QED
      BY <1>1, <1>2, <1>3, <2>2, <2>3, LatencyLearns DEF Latency!CommonLabels
  <1>4. CASE Latency!FindErrorLabel
    <2>1. /\ DOMAIN cfg' = DOMAIN cfg /\ UNCHANGED <<cfg.latency, cfg.requests>>
          /\ Latency!Learn({cfg.requests})
      BY <1>1, <1>4 DEF Latency!FindErrorLabel
    <2> QED
      BY <1>1, <1>2, <1>4, <2>1, LatencyLearns DEF Latency!FindErrorLabel
  <1>5. CASE Latency!SettleRoute
    <2>1. /\ DOMAIN cfg' = DOMAIN cfg /\ UNCHANGED <<cfg.latency, cfg.requests>>
          /\ Latency!Learn({cfg.requests})
      BY <1>1, <1>5 DEF Latency!SettleRoute
    <2> QED
      BY <1>1, <1>2, <1>5, <2>1, LatencyLearns DEF Latency!SettleRoute
  <1>6. CASE Latency!ValidateLabels
    <2>1. \/ cfg' = cfg
          \/ cfg' = [cfg EXCEPT !.service = None, !.path = None, !.services = << >>, !.route = None]
      BY <1>6 DEF Latency!ValidateLabels
    <2>2. DOMAIN cfg' = DOMAIN cfg /\ UNCHANGED <<cfg.latency, cfg.requests>>
      BY <1>1, <2>1
    <2> QED
      BY <1>1, <1>2, <1>6, <2>2 DEF Latency!ValidateLabels
  <1>7. CASE Latency!CheckLabels
    <2>1. \E a, b : cfg' = [cfg EXCEPT !.route = a, !.services = b]
      BY <1>7 DEF Latency!CheckLabels
    <2>2. DOMAIN cfg' = DOMAIN cfg /\ UNCHANGED <<cfg.latency, cfg.requests>>
      BY <1>1, <2>1
    <2>3. \E rs : analysis' = [analysis EXCEPT !.reasons = @ \cup rs]
      BY <1>7, Zenon DEF Latency!CheckLabels, Latency!Reasons
    <2>4. DOMAIN analysis' = DOMAIN analysis /\ UNCHANGED <<analysis.window, analysis.confidence>>
      BY <1>1, <2>3
    <2>5. Latency!Learn({cfg.requests})
      BY <1>7 DEF Latency!CheckLabels
    <2> QED
      BY <1>1, <1>2, <1>7, <2>2, <2>4, <2>5, LatencyLearns DEF Latency!CheckLabels
  <1>8. CASE Latency!CheckNames
    <2>1. \E rs : analysis' = [analysis EXCEPT !.reasons = @ \cup rs]
      BY <1>8, Zenon DEF Latency!CheckNames, Latency!Reasons
    <2>2. DOMAIN analysis' = DOMAIN analysis /\ UNCHANGED <<analysis.window, analysis.confidence>>
      BY <1>1, <2>1
    <2>3. named' \in BOOLEAN
      BY <1>1, <1>8, Zenon DEF Latency!CheckNames, Latency!NamesKnown
    <2>4. UNCHANGED <<world, latencyUp, steady, report, cfg, latencyKnown>>
          /\ latencyPc = "check names" /\ latencyPc' = "latency"
      BY <1>8 DEF Latency!CheckNames
    <2> QED
      BY <1>1, <1>2, <2>2, <2>3, <2>4
  <1> QED
    BY <1>3, <1>4, <1>5, <1>6, <1>7, <1>8

\* The queries only add to the result.
LEMMA LatencyTypingQueries ==
    ASSUME LatencyTyping,
           \/ Latency!QueryLatency \/ Latency!QueryTraffic \/ Latency!QueryErrors
           \/ Latency!QueryBaseline \/ Latency!QueryTables \/ Latency!Conclude
    PROVE  LatencyTyping'
  <1> USE DEF Latency!fixed, Latency!client, Latency!Go, Settled
  <1>1. /\ named \in BOOLEAN /\ analysis.window \in 1..3
        /\ analysis.confidence \in {None, "high", "medium", "low"}
        /\ report \in {None, "unavailable", "RISK", "SAFE"}
        /\ {"confidence", "window"} \subseteq DOMAIN analysis
    BY DEF LatencyTyping, Latency!TypeOK
  <1>2. ASSUME Settled(latencyPc), Settled(latencyPc'),
               UNCHANGED <<world, latencyUp, steady, report, named, cfg>>,
               latencyKnown' \subseteq latencyKnown \cup {cfg.latency, cfg.requests},
               DOMAIN analysis' = DOMAIN analysis, analysis'.window \in 1..3,
               analysis'.confidence \in {None, "high", "medium", "low"}
        PROVE  LatencyTyping'
    BY <1>1, <1>2, LatencyTypingSettled
  <1>3. CASE Latency!QueryLatency
    <2> DEFINE q == Latency!Quantile(cfg.latency, Latency!Selectors(cfg), 1)
    <2>1. \E a, b, c : analysis' = [analysis EXCEPT !.p95 = a, !.window = q.window,
                                                  !.reasons = b, !.gaps = c]
      BY <1>3 DEF Latency!QueryLatency
    <2>2. q.window \in 1..3
      BY WindowType
    <2> HIDE DEF q
    <2>3. /\ DOMAIN analysis' = DOMAIN analysis /\ analysis'.window = q.window
          /\ analysis'.confidence = analysis.confidence
      BY <1>1, <2>1
    <2> QED
      BY <1>1, <1>2, <1>3, <2>2, <2>3 DEF Latency!QueryLatency
  <1>4. CASE Latency!QueryTraffic
    <2> DEFINE sels == Latency!Selectors(cfg)
               n == Latency!Total(cfg.requests, sels, analysis.window)
               many(l, limit) == Latency!Asks(sels)
                                     /\ Latency!ManyValues(cfg.requests, sels, l, limit)
               route == IF cfg.route # None THEN cfg.route
                        ELSE IF cfg.auto THEN Latency!FirstOn(RouteLabels, cfg.requests) ELSE None
               service == IF Len(cfg.services) = 1 THEN cfg.services[1]
                          ELSE IF cfg.services = << >> /\ cfg.auto THEN "service" ELSE None
               total == IF n = None THEN 0 ELSE n
               reasons == analysis.reasons
                   \cup (IF ~Latency!Positive(n) THEN {"Traffic"} ELSE {})
                   \cup (IF Latency!Stale(cfg.requests, sels) THEN {"Stale data"} ELSE {})
               gaps == analysis.gaps + Latency!Worth(~Latency!Positive(n), 1)
               byRoute == ~(cfg.path = None /\ many(route, cfg.routeLimit))
               byService == ~(cfg.service = None /\ many(service, cfg.serviceLimit))
    <2>1. analysis' = [analysis EXCEPT !.total = total, !.reasons = reasons, !.gaps = gaps,
                                       !.byRoute = byRoute, !.byService = byService]
      BY <1>4, Zenon DEF Latency!QueryTraffic
    <2> HIDE DEF total, reasons, gaps, byRoute, byService
    <2>2. DOMAIN analysis' = DOMAIN analysis /\ UNCHANGED <<analysis.window, analysis.confidence>>
      BY <1>1, <2>1
    <2>3. Latency!Learn({cfg.requests})
      BY <1>4 DEF Latency!QueryTraffic
    <2>4. UNCHANGED <<world, latencyUp, steady, report, named, cfg>>
          /\ latencyPc = "traffic" /\ latencyPc' = "errors"
      BY <1>4 DEF Latency!QueryTraffic
    <2> QED
      BY <1>1, <1>2, <2>2, <2>3, <2>4, LatencyLearns
  <1>5. CASE Latency!QueryErrors
    <2>1. \E a : analysis' = [analysis EXCEPT !.errors = a]
      BY <1>5, Zenon DEF Latency!QueryErrors
    <2>2. DOMAIN analysis' = DOMAIN analysis /\ UNCHANGED <<analysis.window, analysis.confidence>>
      BY <1>1, <2>1
    <2>3. Latency!Learn({cfg.requests})
      BY <1>5 DEF Latency!QueryErrors
    <2>4. UNCHANGED <<world, latencyUp, steady, report, named, cfg>>
          /\ latencyPc = "errors" /\ latencyPc' = "baseline"
      BY <1>5 DEF Latency!QueryErrors
    <2> QED
      BY <1>1, <1>2, <2>2, <2>3, <2>4, LatencyLearns
  <1>6. CASE Latency!QueryBaseline
    <2>1. \E a, b, c, d : analysis' = [analysis EXCEPT !.base = a, !.baseTotal = b,
                                                     !.baseErrors = c, !.reasons = d]
      BY <1>6, Zenon DEF Latency!QueryBaseline
    <2>2. DOMAIN analysis' = DOMAIN analysis /\ UNCHANGED <<analysis.window, analysis.confidence>>
      BY <1>1, <2>1
    <2>3. Latency!Learn({cfg.requests})
      BY <1>6 DEF Latency!QueryBaseline
    <2>4. UNCHANGED <<world, latencyUp, steady, report, named, cfg>>
          /\ latencyPc = "baseline" /\ latencyPc' = "tables"
      BY <1>6 DEF Latency!QueryBaseline
    <2> QED
      BY <1>1, <1>2, <2>2, <2>3, <2>4, LatencyLearns
  <1>7. CASE Latency!QueryTables
    <2> DEFINE wantRoutes == cfg.path = None
               wantServices == cfg.service = None
               service == IF Len(cfg.services) = 1 THEN cfg.services[1] ELSE None
               routes == IF wantRoutes /\ analysis.byRoute
                         THEN Latency!Table(routeForRps, analysis.window) ELSE {}
               services == IF wantServices /\ analysis.byService
                           THEN Latency!Table(service, analysis.window) ELSE {}
               quantiles == IF wantRoutes /\ analysis.byRoute /\ ~world.strict
                                   /\ Form[cfg.latency] = "histogram"
                            THEN Latency!Table(cfg.route, analysis.window) ELSE {}
               reasons == analysis.reasons
                   \cup (IF ~analysis.byRoute THEN {"Route cardinality"} ELSE {})
                   \cup (IF ~analysis.byService THEN {"Service cardinality"} ELSE {})
                   \cup (IF wantRoutes /\ analysis.byRoute /\ cfg.route = None
                         THEN {"Top Endpoints"} ELSE {})
                   \cup (IF wantServices /\ analysis.byService /\ cfg.services = << >>
                         THEN {"Top Services"} ELSE {})
    <2>1. analysis' = [analysis EXCEPT !.routes = routes, !.services = services,
                                       !.quantiles = quantiles, !.reasons = reasons]
      BY <1>7, Zenon DEF Latency!QueryTables
    <2> HIDE DEF routes, services, quantiles, reasons
    <2>2. DOMAIN analysis' = DOMAIN analysis /\ UNCHANGED <<analysis.window, analysis.confidence>>
      BY <1>1, <2>1
    <2>3. UNCHANGED <<world, latencyUp, steady, report, named, latencyKnown, cfg>>
          /\ latencyPc = "tables" /\ latencyPc' = "conclude"
      BY <1>7 DEF Latency!QueryTables
    <2> QED
      BY <1>1, <1>2, <2>2, <2>3
  <1>8. CASE Latency!Conclude
    <2>1. \E a, b, c : analysis' = [analysis EXCEPT !.confidence = Latency!Confidence, !.spike = a,
                                                  !.incident = b, !.hints = c]
      BY <1>8, Zenon DEF Latency!Conclude
    <2>2. Latency!Confidence \in {"high", "medium", "low"}
      BY Zenon DEF Latency!Confidence
    <2>3. /\ DOMAIN analysis' = DOMAIN analysis /\ analysis'.window = analysis.window
          /\ analysis'.confidence = Latency!Confidence
      BY <1>1, <2>1
    <2>4. UNCHANGED <<world, latencyUp, steady, report, named, latencyKnown, cfg>>
          /\ latencyPc = "conclude" /\ latencyPc' = "report"
      BY <1>8 DEF Latency!Conclude
    <2> QED
      BY <1>1, <1>2, <2>2, <2>3, <2>4
  <1> QED
    BY <1>3, <1>4, <1>5, <1>6, <1>7, <1>8

LEMMA LatencyTypingPrefer ==
    ASSUME LatencyTyping, Latency!PreferRoutes PROVE LatencyTyping'
  <1>1. /\ UNCHANGED <<world, latencyUp, steady, named, toScore, scored, analysis, report>>
        /\ latencyPc = "prefer routes" /\ latencyPc' = "settle route"
        /\ \E J \in SUBSET DOMAIN Requests : Latency!Learn({Requests[i] : i \in J})
    BY DEF Latency!PreferRoutes, Latency!fixed, Latency!Go
  <1>2. \E m, l : cfg' = cfg \/ cfg' = [cfg EXCEPT !.requests = m, !.route = l]
    BY Zenon DEF Latency!PreferRoutes
  <1>3. cfg'.requests \in Latency!Names(Requests) \cup {cfg.requests}
    BY PreferredMetric
  <1>4. /\ cfg.latency \in Latency!Names(Latencies) /\ cfg.requests \in Latency!Names(Requests)
    BY <1>1 DEF LatencyTyping, LatencyChosen
  <1>5. /\ DOMAIN cfg' = DOMAIN cfg /\ cfg'.latency = cfg.latency
    BY <1>2 DEF LatencyTyping
  <1>6. latencyKnown' \subseteq latencyKnown \cup Latency!Names(Requests)
    <2>1. PICK J \in SUBSET DOMAIN Requests : Latency!Learn({Requests[i] : i \in J})
      BY <1>1
    <2>2. {Requests[i] : i \in J} \subseteq Latency!Names(Requests)
      BY DEF Latency!Names
    <2> QED
      BY <2>1, <2>2, LatencyLearns
  <1>7. LatencyChosen'
    BY <1>1, <1>3, <1>4, <1>5 DEF LatencyChosen
  <1> QED
    BY <1>1, <1>3, <1>4, <1>5, <1>6, <1>7 DEF LatencyTyping, Latency!TypeOK

LEMMA LatencyTypingNext == LatencyTyping /\ [Latency!Next]_(Latency!vars) => LatencyTyping'
  <1> SUFFICES ASSUME LatencyTyping, [Latency!Next]_(Latency!vars) PROVE LatencyTyping'
    OBVIOUS
  <1>1. CASE Latency!Report
    <2>1. /\ UNCHANGED <<world, latencyUp, steady, named, latencyKnown, cfg, analysis>>
          /\ latencyPc' = "end" /\ report' \in {report, "RISK", "SAFE"}
      BY <1>1 DEF Latency!Report, Latency!fixed, Latency!client
    <2> QED
      BY <2>1 DEF LatencyTyping, LatencyChosen, Latency!TypeOK
  <1>2. CASE Latency!GiveUp \/ Latency!Outage \/ Latency!Recovery \/ UNCHANGED Latency!vars
    <2>1. /\ UNCHANGED <<world, named, latencyKnown, cfg, latencyPc, toScore, scored, analysis>>
          /\ report' \in {report, "unavailable"}
          /\ latencyUp' \in {latencyUp, TRUE, FALSE} /\ steady' \in {steady, FALSE}
      BY <1>2 DEF Latency!GiveUp, Latency!Outage, Latency!Recovery, Latency!vars,
                  Latency!fixed, Latency!client
    <2>2. LatencyChosen'
      BY <2>1 DEF LatencyTyping, LatencyChosen, LatencyCandidates
    <2>3. latencyUp' \in BOOLEAN /\ steady' \in BOOLEAN
      BY <2>1, Zenon DEF LatencyTyping, Latency!TypeOK
    <2> QED
      BY <2>1, <2>2, <2>3 DEF LatencyTyping, Latency!TypeOK
  <1>3. CASE Latency!Discover
    BY <1>3, LatencyTypingChoice, LatencyTypingDiscover, LatencyTypingPrefer DEF Latency!Discover
  <1>4. CASE Latency!Analyse
    BY <1>1, <1>4, LatencyTypingDiscover, LatencyTypingQueries DEF Latency!Analyse
  <1>5. CASE \E m \in toScore : Latency!ScoreLatency(m) \/ Latency!ScoreRequests(m)
    BY <1>5, LatencyTypingChoice
  <1> QED
    BY <1>2, <1>3, <1>4, <1>5 DEF Latency!Next

\* The metrics an analysis ends up with are candidates, or those of the
\* configuration, its window is one of those tried, and what the check reports is
\* of a known kind, whenever Prometheus stops answering (checks/api_latency.go).
THEOREM LatencyTypeCorrect == Latency!Spec => []Latency!TypeOK
  <1>1. LatencyTyping => Latency!TypeOK
    BY DEF LatencyTyping
  <1> QED
    BY <1>1, LatencyTypingInit, LatencyTypingNext, PTL DEF Latency!Spec

-----------------------------------------------------------------------------
(***************************************************************************)
(* The graph of dependencies.  When it concludes there is an edge, so one  *)
(* is suspected, and an edge has three ends at most: its source, its       *)
(* destination and its route.                                              *)
(***************************************************************************)
Triples(ks) == \A k \in ks : \E a, b, c : k = <<a, b, c>>

ApmTyping ==
    /\ Concluding /\ Apm!TypeOK
    /\ Triples(DOMAIN edges.p95)
    /\ apmStep \in {"baseline", "rps", "conclude"} => DOMAIN edges.p95 # {}

\* What is listed is not empty if there are edges.
LEMMA OrdersNotEmpty ==
    ASSUME Concluding, DOMAIN edges.p95 # {}, NEW o \in Apm!Orders
    PROVE  DOMAIN o \subseteq Nat /\ 1 \in DOMAIN o
  <1> DEFINE all == {Apm!Edge(k) : k \in DOMAIN edges.p95}
             n == Apm!Cardinality(all)
  <1>1. n \in Nat /\ n >= 1
    <2>1. Apm!Cardinality(all) = Cardinality(all)
      BY Zenon DEF Apm!Cardinality, Cardinality
    <2>2. IsFiniteSet(all)
      <3> DEFINE f == [k \in DOMAIN edges.p95 |-> Apm!Edge(k)]
      <3>1. all = {f[k] : k \in DOMAIN edges.p95}
        OBVIOUS
      <3> HIDE DEF f, all
      <3> QED
        BY <3>1, ImageFinite DEF Concluding
    <2>3. all # {}
      OBVIOUS
    <2>4. Cardinality(all) \in Nat /\ Cardinality(all) # 0
      <3> HIDE DEF all
      <3> QED
        BY <2>2, <2>3, FS_CardinalityType, FS_EmptySet
    <2> QED
      BY <2>1, <2>4
  <1>2. asks.top \in Int
    BY ApmAssumption DEF Concluding, Apm!ConstantsAssumption
  <1>3. PICK q \in [1..n -> all] :
            o = IF asks.top <= 0 \/ n <= asks.top THEN q ELSE SubSeq(q, 1, asks.top)
    BY DEF Apm!Orders
  <1> HIDE DEF n, all
  <1>4. CASE asks.top <= 0 \/ n <= asks.top
    BY <1>1, <1>3, <1>4
  <1>5. CASE ~(asks.top <= 0 \/ n <= asks.top)
    <2>1. q \in Seq(all) /\ Len(q) = n
      BY <1>1, <1>3
    <2>2. o = SubSeq(q, 1, asks.top) /\ asks.top \in 1..n
      BY <1>1, <1>2, <1>3, <1>5
    <2>3. DOMAIN o = 1..asks.top
      BY <1>1, <2>1, <2>2
    <2> QED
      BY <2>2, <2>3
  <1> QED
    BY <1>4, <1>5

\* What is suspected is on the list.
LEMMA SuspectsListed ==
    ASSUME NEW o, DOMAIN o \subseteq Nat, 1 \in DOMAIN o, NEW ranked,
           ranked = None \/ \E i \in DOMAIN o : ranked = o[i],
           NEW e \in Apm!Suspects(o, ranked)
    PROVE  \E i \in DOMAIN o : e = o[i]
  <1> DEFINE own == {o[i] : i \in {j \in DOMAIN o : asks.service # None /\ o[j].key[1] = asks.service}}
             alike == {i \in DOMAIN o : Apm!Path(o[i]) = Apm!Path(ranked)}
  <1>1. CASE ranked # None
    <2>1. alike # {} /\ alike \subseteq Nat
      BY <1>1
    <2>2. Apm!Min(alike) \in alike
      <3> HIDE DEF alike
      <3>1. \E n \in alike : \A m \in alike : n <= m
        BY <2>1, LeastNatural
      <3> QED
        BY <3>1 DEF Apm!Min
    <2>3. e = o[Apm!Min(alike)]
      BY <1>1 DEF Apm!Suspects
    <2> QED
      BY <2>2, <2>3
  <1>2. CASE ranked = None /\ own = {}
    BY <1>2 DEF Apm!Suspects
  <1>3. CASE ranked = None /\ own # {}
    <2>1. e \in own
      BY <1>3 DEF Apm!Suspects, Apm!Worst
    <2> QED
      BY <2>1
  <1> QED
    BY <1>1, <1>2, <1>3

\* A path is two edges at most.
LEMMA PathLength ==
    ASSUME NEW e, NEW a, NEW b, NEW c, e.key = <<a, b, c>> PROVE Len(Apm!Path(e)) <= 3
  BY DEF Apm!Path

LEMMA ConcludedType ==
    ASSUME NEW o, NEW ranked, NEW e, NEW hop,
           ranked # None => Len(Apm!Path(ranked)) <= 3, Len(Apm!Path(e)) <= 3
    PROVE  LET end == Apm!Concluded(o, ranked, e, hop) IN
           end.confidence \in {None, "low", "medium", "high"} /\ Len(end.path) <= 3
  <1>1. \A x, y : Apm!ScoreConfidence(x, y) \in {"low", "medium", "high"}
    BY Zenon DEF Apm!ScoreConfidence
  <1>2. \A x : Apm!EdgeConfidence(x) \in {"low", "medium"}
    BY Zenon DEF Apm!EdgeConfidence
  <1>3. \A x, y, z : Len(<<x, y, z>>) <= 3
    OBVIOUS
  <1>4. Len(<< >>) <= 3
    OBVIOUS
  <1> QED
    BY <1>1, <1>2, <1>3, <1>4 DEF Apm!Concluded

LEMMA ApmTypingInit == Apm!Init => ApmTyping
  <1> SUFFICES ASSUME Apm!Init PROVE ApmTyping
    OBVIOUS
  <1>1. edges = [p95 |-> << >>, base |-> << >>, rps |-> << >>]
    BY DEF Apm!Init
  <1>2. DOMAIN edges.p95 = {} /\ edges = [p95 |-> edges.p95, base |-> edges.base, rps |-> edges.rps]
    BY <1>1
  <1>3. suspect.confidence = None /\ Len(suspect.path) = 0 /\ suspect = Apm!Nothing
    BY DEF Apm!Init, Apm!Nothing
  <1>4. ~Apm!HighIsCompared => suspect.confidence = "high"
    BY DEF Apm!HighIsCompared
  <1>5. Concluding
    BY <1>2, <1>3, <1>4, ApmAssumption, FS_EmptySet
       DEF Apm!Init, Concluding, Apm!ConstantsAssumption
  <1>6. /\ graph \in Graphs /\ online = TRUE /\ asks \in ApmConfigs /\ apmStep = "metric"
    BY DEF Apm!Init
  <1>7. Apm!TypeOK
    BY <1>3, <1>6 DEF Apm!TypeOK
  <1> QED
    BY <1>2, <1>5, <1>6, <1>7 DEF ApmTyping, Triples

\* A step that queries nothing, or whose query ends the search.
LEMMA ApmTypingStops ==
    ASSUME ApmTyping, Concluding', UNCHANGED <<graph, asks, edges>>, online' \in BOOLEAN,
           \/ UNCHANGED <<apmStep, suspect>>
           \/ suspect' = suspect /\ apmStep' \in {"labels", "limit", "p95"}
           \/ apmStep' = "end" /\ \E why : suspect' = [Apm!Nothing EXCEPT !.reason = why]
    PROVE  ApmTyping'
  <1>1. suspect' = suspect \/ (suspect'.confidence = None /\ Len(suspect'.path) = 0)
    BY DEF Apm!Nothing
  <1>2. Apm!TypeOK'
    <2>1. suspect'.confidence \in {None, "low", "medium", "high"} /\ Len(suspect'.path) <= 3
      BY <1>1 DEF ApmTyping, Apm!TypeOK
    <2>2. apmStep' \in {apmStep, "labels", "limit", "p95", "end"}
      OBVIOUS
    <2> QED
      BY <2>1, <2>2 DEF ApmTyping, Apm!TypeOK
  <1> QED
    BY <1>2 DEF ApmTyping

LEMMA ApmTypingNext == ApmTyping /\ [Apm!Next]_(Apm!vars) => ApmTyping'
  <1> SUFFICES ASSUME ApmTyping, [Apm!Next]_(Apm!vars) PROVE ApmTyping'
    OBVIOUS
  <1> USE DEF Apm!given, Apm!Go, Apm!Stop
  <1>1. Concluding'
    BY ApmAssumption, ConcludingNext DEF ApmTyping
  <1>2. online \in BOOLEAN
    BY DEF ApmTyping, Apm!TypeOK
  <1>3. CASE Apm!Outage \/ Apm!Recovery
    BY <1>1, <1>3, ApmTypingStops DEF Apm!Outage, Apm!Recovery
  <1>4. CASE Apm!DetectMetric \/ Apm!DetectLabels \/ Apm!CheckLimit
    <2>1. /\ UNCHANGED <<graph, asks, edges, online>>
          /\ \/ suspect' = suspect /\ apmStep' \in {"labels", "limit", "p95"}
             \/ apmStep' = "end" /\ \E why : suspect' = [Apm!Nothing EXCEPT !.reason = why]
      BY <1>4 DEF Apm!DetectMetric, Apm!DetectLabels, Apm!CheckLimit
    <2> QED
      BY <1>1, <1>2, <2>1, ApmTypingStops
  <1>5. CASE Apm!QueryP95
    <2>1. UNCHANGED <<graph, asks, online>> /\ apmStep = "p95"
      BY <1>5 DEF Apm!QueryP95
    <2>2. CASE UNCHANGED edges /\ \E why : Apm!Stop(why)
      BY <1>1, <1>2, <2>1, <2>2, ApmTypingStops
    <2>3. CASE Apm!Go("baseline") /\ Apm!Selected # {} /\
               edges' = [edges EXCEPT !.p95 = [k \in DOMAIN Apm!Series |-> Apm!P95(Apm!Series[k])]]
      <3>1. DOMAIN edges'.p95 = DOMAIN Apm!Series
        BY <2>3 DEF ApmTyping, Concluding
      <3>2. DOMAIN Apm!Series = {Apm!Key(s) : s \in Apm!Selected}
        BY DEF Apm!Series
      <3>3. Triples(DOMAIN edges'.p95)
        BY <3>1, <3>2 DEF Triples, Apm!Key
      <3>4. DOMAIN edges'.p95 # {}
        BY <2>3, <3>1, <3>2
      <3>5. Apm!TypeOK'
        BY <2>1, <2>3 DEF ApmTyping, Apm!TypeOK
      <3> QED
        BY <1>1, <3>3, <3>4, <3>5 DEF ApmTyping
    <2> QED
      BY <1>5, <2>2, <2>3 DEF Apm!QueryP95
  <1>6. CASE Apm!QueryBaseline \/ Apm!QueryRps
    <2>1. /\ UNCHANGED <<graph, asks, online, suspect>>
          /\ apmStep \in {"baseline", "rps"} /\ apmStep' \in {"rps", "conclude"}
      BY <1>6 DEF Apm!QueryBaseline, Apm!QueryRps
    <2>2. edges'.p95 = edges.p95
      <3>1. CASE UNCHANGED edges
        BY <3>1
      <3>2. ASSUME NEW b, edges' = [edges EXCEPT !.base = b] PROVE edges'.p95 = edges.p95
        BY <3>2 DEF ApmTyping, Concluding
      <3>3. ASSUME NEW r, edges' = [edges EXCEPT !.rps = r] PROVE edges'.p95 = edges.p95
        BY <3>3 DEF ApmTyping, Concluding
      <3> QED
        BY <1>6, <3>1, <3>2, <3>3 DEF Apm!QueryBaseline, Apm!QueryRps
    <2>3. Apm!TypeOK'
      BY <2>1 DEF ApmTyping, Apm!TypeOK
    <2> QED
      BY <1>1, <2>1, <2>2, <2>3 DEF ApmTyping
  <1>7. CASE Apm!Conclude
    <2>1. UNCHANGED <<graph, asks, online, edges>> /\ apmStep = "conclude" /\ apmStep' = "end"
      BY <1>7 DEF Apm!Conclude
    <2>2. PICK o \in Apm!Orders : \E ranked, e, hop :
              /\ ranked = None \/ \E i \in DOMAIN o : ranked = o[i]
              /\ e \in Apm!Suspects(o, ranked)
              /\ suspect' = Apm!Concluded(o, ranked, e, hop)
      BY <1>7 DEF Apm!Conclude
    <2>3. PICK ranked, e, hop :
              /\ ranked = None \/ \E i \in DOMAIN o : ranked = o[i]
              /\ e \in Apm!Suspects(o, ranked)
              /\ suspect' = Apm!Concluded(o, ranked, e, hop)
      BY <2>2
    <2>4. DOMAIN o \subseteq Nat /\ 1 \in DOMAIN o
      BY <2>1, OrdersNotEmpty DEF ApmTyping
    <2>5. \E i \in DOMAIN o : e = o[i]
      BY <2>3, <2>4, SuspectsListed
    <2>6. ASSUME NEW i \in DOMAIN o PROVE Len(Apm!Path(o[i])) <= 3
      <3>1. PICK k \in DOMAIN edges.p95 : o[i] = Apm!Edge(k)
        BY ApmAssumption, OrdersAreEdges DEF ApmTyping
      <3>2. PICK a, b, c : k = <<a, b, c>>
        BY DEF ApmTyping, Triples
      <3>3. o[i].key = <<a, b, c>>
        BY <3>1, <3>2 DEF Apm!Edge
      <3> QED
        BY <3>3, PathLength
    <2>7. suspect'.confidence \in {None, "low", "medium", "high"} /\ Len(suspect'.path) <= 3
      BY <2>3, <2>5, <2>6, ConcludedType
    <2>8. Apm!TypeOK'
      BY <2>1, <2>7 DEF ApmTyping, Apm!TypeOK
    <2> QED
      BY <1>1, <2>1, <2>8 DEF ApmTyping
  <1>8. CASE UNCHANGED Apm!vars
    BY <1>1, <1>2, <1>8, ApmTypingStops DEF Apm!vars
  <1> QED
    BY <1>3, <1>4, <1>5, <1>6, <1>7, <1>8 DEF Apm!Next

\* What the search for a cause concludes is of a known confidence and names two
\* hops at most, whichever queries fail and however the edges compare (apm.go).
THEOREM ApmTypeCorrect == Apm!Spec => []Apm!TypeOK
  <1>1. ApmTyping => Apm!TypeOK
    BY DEF ApmTyping
  <1> QED
    BY <1>1, ApmTypingInit, ApmTypingNext, PTL DEF Apm!Spec

-----------------------------------------------------------------------------
\* Every part has its types, whichever is at work.
THEOREM TypeCorrect ==
    /\ Catalog!Spec /\ Notify!Spec /\ Monitor!Spec /\ Recorder!Spec /\ Setup!Spec
    /\ Score!Spec /\ Toil!Spec /\ Client!Spec /\ Latency!Spec /\ Apm!Spec
    => []TypeOK
  <1>1. /\ Catalog!TypeOK /\ Notify!TypeOK /\ Monitor!TypeOK /\ Recorder!TypeOK /\ Setup!TypeOK
        /\ Score!TypeOK /\ Toil!TypeOK /\ Client!TypeOK /\ Latency!TypeOK /\ Apm!TypeOK
        => TypeOK
    BY DEF TypeOK
  <1> QED
    BY <1>1, CatalogTypeCorrect, NotifyTypeCorrect, MonitorTypeCorrect, RecorderTypeCorrect,
       SetupTypeCorrect, ScoreTypeCorrect, ToilTypeCorrect, ClientTypeCorrect,
       LatencyTypeCorrect, ApmTypeCorrect, PTL

=============================================================================
