------------------------ MODULE AlertProcessor_proofs ------------------------
(***************************************************************************)
(* Proofs about AlertProcessor for any number of workers, alerts, rules    *)
(* and reloads, and whatever was stored before.                            *)
(***************************************************************************)
EXTENDS AlertProcessor, FiniteSetTheorems, WellFoundedInduction, TLAPS

-----------------------------------------------------------------------------
(* The first rule that matches, and the latest incident found. *)

LEMMA LeastExists ==
    ASSUME NEW S \in SUBSET Nat, S # {}
    PROVE  \E x \in S : \A y \in S : x <= y
  <1> DEFINE R == {ss \in Nat \X Nat : ss[1] < ss[2]}
  <1>1. IsWellFoundedOn(R, Nat)
    BY NatLessThanWellFounded DEF OpToRel
  <1>2. PICK x \in S : \A y \in S : ~(<<y, x>> \in R)
    BY <1>1, WFMin
  <1>3. ASSUME NEW y \in S PROVE x <= y
    <2>1. x \in Nat /\ y \in Nat /\ <<y, x>> \notin R
      BY <1>2
    <2> QED
      BY <2>1
  <1> QED
    BY <1>3

LEMMA MinMember ==
    ASSUME NEW S \in SUBSET Nat, S # {}
    PROVE  Min(S) \in S /\ \A y \in S : Min(S) <= y
  BY LeastExists DEF Min

LEMMA MaxMember ==
    ASSUME NEW n \in Nat, NEW S \in SUBSET (1..n), S # {}
    PROVE  Max(S) \in S /\ \A y \in S : y <= Max(S)
  <1> DEFINE T == {n - x : x \in S}
  <1>1. T \in SUBSET Nat /\ T # {}
    <2>1. \A x \in S : n - x \in Nat
      OBVIOUS
    <2> QED
      BY <2>1
  <1>2. PICK m \in T : \A y \in T : m <= y
    <2> HIDE DEF T
    <2> QED BY <1>1, LeastExists
  <1>3. PICK x \in S : m = n - x
    BY <1>2
  <1>4. \A y \in S : x >= y
    <2> SUFFICES ASSUME NEW y \in S PROVE x >= y
      OBVIOUS
    <2>1. n - y \in T
      OBVIOUS
    <2>2. m <= n - y
      BY <1>2, <2>1
    <2> QED
      BY <1>3, <2>2
  <1> QED
    BY <1>3, <1>4 DEF Max

LEMMA LatestFound ==
    ASSUME NEW n \in Nat, NEW S \in SUBSET (1..n)
    PROVE  /\ Latest(S) \in 0..n
           /\ Latest(S) = 0 <=> S = {}
           /\ S # {} => Latest(S) \in S /\ \A y \in S : y <= Latest(S)
  <1>1. CASE S = {}
    BY <1>1 DEF Latest
  <1>2. CASE S # {}
    <2>1. Latest(S) \in S /\ \A y \in S : y <= Latest(S)
      BY <1>2, MaxMember DEF Latest
    <2>2. Latest(S) \in 1..n
      BY <2>1
    <2> QED
      BY <1>2, <2>1, <2>2
  <1> QED
    BY <1>1, <1>2

LEMMA FirstRuleType ==
    ASSUME NEW v \in Versions, NEW a \in Alerts, Matching(v, a) # {}
    PROVE  FirstRule(v, a) \in Order
  <1>1. RuleSets[v] \in Seq(Rule)
    BY AlertsAssumption DEF Versions
  <1>2. Matching(v, a) \in SUBSET Nat /\ Matching(v, a) \subseteq DOMAIN RuleSets[v]
    BY <1>1 DEF Matching
  <1>3. RuleSets[v][Min(Matching(v, a))] \in Rule
    BY <1>1, <1>2, MinMember
  <1> QED
    BY <1>3 DEF FirstRule, Order, Rule

-----------------------------------------------------------------------------
(***************************************************************************)
(* Typing.  What a worker holds at each label: the types are inductive     *)
(* only together with it.                                                  *)
(***************************************************************************)
HasAlert == {"seen", "match", "find"}

HasOrder == {"find", "resolve", "escalate", "suggested", "check", "create", "suggest"}

HasTarget == {"resolve", "escalate", "first note"}

ControlOf(st, made) ==
    /\ st.pc \in HasAlert => st.alert \in Alerts
    /\ st.pc \in HasOrder => st.order \in Order
    /\ st.pc \in HasTarget => st.target \in 1..made
    /\ st.pc = "create" => st.order.service \in Services

Control == \A w \in Workers : ControlOf(worker[w], Len(incidents))

\* An alert that may yet make an incident is with a worker; each delivery
\* brings one.
MayCreate == {"seen", "match", "find", "suggested", "check", "create", "suggest"}

Pending == {w \in Workers : worker[w].pc \in MayCreate}

OnePerAlert == Len(incidents) + Cardinality(Pending) <= Len(Stored) + sends

Typing == TypeOK /\ Control /\ OnePerAlert

LEMMA Bounds ==
    /\ MaxSends \in Nat /\ MaxTime \in Nat /\ Len(Stored) \in Nat
    /\ Len(RuleSets) \in Nat /\ 1 \in Versions /\ Versions \subseteq Nat
    /\ IsFiniteSet(Workers)
  BY AlertsAssumption, StoredAssumption DEF Versions

\* A set of workers that only w joins or leaves.
LEMMA CountChange ==
    ASSUME NEW P \in SUBSET Workers, NEW Q \in SUBSET Workers, NEW w \in Workers,
           \A v \in Workers \ {w} : v \in P <=> v \in Q
    PROVE  /\ Cardinality(P) \in Nat /\ Cardinality(Q) \in Nat
           /\ w \in P /\ w \notin Q => Cardinality(Q) = Cardinality(P) - 1
           /\ w \notin P /\ w \in Q => Cardinality(Q) = Cardinality(P) + 1
           /\ (w \in P <=> w \in Q) => Cardinality(Q) = Cardinality(P)
  <1>1. IsFiniteSet(P) /\ IsFiniteSet(Q)
    BY Bounds, FS_Subset
  <1>2. CASE w \in P /\ w \notin Q
    <2>1. Q = P \ {w}
      BY <1>2
    <2> QED
      BY <1>1, <1>2, <2>1, FS_RemoveElement, FS_CardinalityType
  <1>3. CASE w \notin P /\ w \in Q
    <2>1. Q = P \cup {w}
      BY <1>3
    <2> QED
      BY <1>1, <1>3, <2>1, FS_AddElement, FS_CardinalityType
  <1>4. CASE w \in P <=> w \in Q
    <2>1. P = Q
      BY <1>4
    <2> QED
      BY <1>1, <1>4, <2>1, FS_CardinalityType
  <1> QED
    BY <1>2, <1>3, <1>4

LEMMA LengthBound ==
    ASSUME Typing
    PROVE  Len(incidents) \in 0..MaxIncidents /\ Len(incidents) \in Nat
           /\ MaxIncidents \in Nat /\ DOMAIN incidents = 1..Len(incidents)
  <1>1. Cardinality(Pending) \in Nat
    BY Bounds, FS_Subset, FS_CardinalityType DEF Pending
  <1>2. Len(incidents) \in Nat /\ sends \in 0..MaxSends /\ DOMAIN incidents = 1..Len(incidents)
    BY DEF Typing, TypeOK
  <1>3. Len(incidents) + Cardinality(Pending) <= Len(Stored) + sends
    BY DEF Typing, OnePerAlert
  <1> QED
    BY <1>1, <1>2, <1>3, Bounds DEF MaxIncidents

LEMMA IdleType == Idle \in WorkerState /\ \A n : ControlOf(Idle, n)
  <1>1. MaxIncidents \in Nat
    BY Bounds DEF MaxIncidents
  <1> QED
    BY <1>1, Bounds DEF Idle, WorkerState, Label, Severity, ControlOf, HasAlert, HasOrder,
       HasTarget

LEMMA TypingInit == Init => Typing
  <1> SUFFICES ASSUME Init PROVE Typing
    OBVIOUS
  <1>1. TypeOK
    <2>1. worker \in [Workers -> WorkerState]
      BY IdleType DEF Init
    <2>2. now \in 0..MaxTime /\ sends \in 0..MaxSends
      BY Bounds DEF Init
    <2>3. seen \in [Versions -> [Keys -> (0..MaxTime) \cup {None}]]
      BY DEF Init
    <2> QED
      BY <2>1, <2>2, <2>3, Bounds, StoredAssumption DEF Init, TypeOK
  <1>2. Control
    BY IdleType DEF Init, Control
  <1>3. Pending = {}
    BY DEF Init, Pending, Idle, MayCreate
  <1>4. OnePerAlert
    BY <1>3, Bounds, FS_EmptySet DEF Init, OnePerAlert
  <1> QED
    BY <1>1, <1>2, <1>4 DEF Typing

-----------------------------------------------------------------------------
(***************************************************************************)
(* What any step of a worker does: it moves that worker alone, and adds at *)
(* most one incident, by an alert that has added none so far.  Incidents   *)
(* are promoted and resolved, and are never made otherwise than new.       *)
(***************************************************************************)
Ages(old, new) ==
    /\ new.service = old.service /\ new.created = old.created /\ new.via = old.via
    /\ \/ new.state = old.state
       \/ old.state = "Suggested" /\ new.state = "Started"
       \/ old.state = "Started" /\ new.state = "Resolved"

Grows(n) ==
    /\ incidents' \in Seq(Incident) /\ Len(incidents') = Len(incidents) + n
    /\ \A i \in 1..Len(incidents) : Ages(incidents[i], incidents'[i])

Made(new) == new.created = now /\ (new.via = "auto" => new.state = "Started")

Moves(w) ==
    /\ worker' = [worker EXCEPT ![w] = worker'[w]]
    /\ worker'[w] \in WorkerState
    /\ ControlOf(worker'[w], Len(incidents'))
    /\ \/ /\ Grows(0)
          /\ worker'[w].pc \in MayCreate => worker[w].pc \in MayCreate
       \/ /\ Grows(1) /\ Made(incidents'[Len(incidents')])
          /\ worker[w].pc \in MayCreate /\ worker'[w].pc \notin MayCreate

Rest ==
    /\ UNCHANGED <<now, sends, rules, cache>>
    /\ seen' \in [Versions -> [Keys -> (0..MaxTime) \cup {None}]]
    /\ stats' \in [Counters -> Nat]

LEMMA CountType ==
    ASSUME Typing, NEW c \in Counters, Count(c) \/ UNCHANGED stats
    PROVE  stats' \in [Counters -> Nat]
  BY DEF Typing, TypeOK, Count

LEMMA UntouchedType ==
    ASSUME Typing, UNCHANGED <<now, sends, rules, cache, seen>>
    PROVE  /\ UNCHANGED <<now, sends, rules, cache>>
           /\ seen' \in [Versions -> [Keys -> (0..MaxTime) \cup {None}]]
  BY DEF Typing, TypeOK

LEMMA NothingGrows == ASSUME Typing, UNCHANGED incidents PROVE Grows(0)
  BY DEF Typing, TypeOK, Grows, Ages

LEMMA EditGrows ==
    ASSUME Typing, NEW i \in 1..Len(incidents), NEW r \in Incident,
           Ages(incidents[i], r), incidents' = [incidents EXCEPT ![i] = r]
    PROVE  Grows(0)
  <1>1. incidents' \in Seq(Incident) /\ Len(incidents') = Len(incidents)
    BY DEF Typing, TypeOK
  <1>2. ASSUME NEW k \in 1..Len(incidents) PROVE Ages(incidents[k], incidents'[k])
    BY DEF Typing, TypeOK, Ages
  <1> QED
    BY <1>1, <1>2 DEF Grows

LEMMA AppendGrows ==
    ASSUME Typing, NEW r \in Incident, Made(r), incidents' = Append(incidents, r)
    PROVE  Grows(1) /\ Made(incidents'[Len(incidents')])
  <1>1. /\ incidents' \in Seq(Incident) /\ Len(incidents') = Len(incidents) + 1
        /\ incidents'[Len(incidents) + 1] = r
        /\ \A k \in 1..Len(incidents) : incidents'[k] = incidents[k]
    BY DEF Typing, TypeOK
  <1> QED
    BY <1>1 DEF Grows, Ages

\* A worker that is done, or goes on with what it has.
LEMMA DoneMoves ==
    ASSUME Typing, NEW w \in Workers, Done(w), UNCHANGED incidents
    PROVE  Moves(w)
  <1>1. worker' = [worker EXCEPT ![w] = Idle] /\ worker'[w] = Idle /\ Grows(0)
    BY NothingGrows DEF Typing, TypeOK, Done
  <1>2. Idle.pc \notin MayCreate
    BY DEF Idle, MayCreate
  <1> QED
    BY <1>1, <1>2, IdleType DEF Moves

LEMMA GoesOn ==
    ASSUME Typing, NEW w \in Workers, UNCHANGED incidents,
           NEW st \in WorkerState, worker' = [worker EXCEPT ![w] = st],
           ControlOf(st, Len(incidents)),
           st.pc \in MayCreate => worker[w].pc \in MayCreate
    PROVE  Moves(w)
  <1>1. worker'[w] = st /\ Grows(0)
    BY NothingGrows DEF Typing, TypeOK
  <1> QED
    BY <1>1 DEF Moves

LEMMA WorkerHas ==
    ASSUME Typing, NEW w \in Workers
    PROVE  worker[w] \in WorkerState /\ ControlOf(worker[w], Len(incidents))
  BY DEF Typing, TypeOK, Control

LEMMA SeenStep == ASSUME Typing, NEW w \in Workers, Seen(w) PROVE Moves(w) /\ Rest
  <1> DEFINE v == worker[w].cache
             k == worker[w].alert.key
             entries == Pruned(seen[v])
  <1>1. worker[w].alert \in Alerts /\ v \in Versions /\ worker[w].pc = "seen"
    BY WorkerHas DEF Seen, At, ControlOf, HasAlert, WorkerState
  <1>2. k \in Keys \cup {None} /\ now \in 0..MaxTime
    BY <1>1, AlertsAssumption DEF Alert, Typing, TypeOK
  <1>3. entries \in [Keys -> (0..MaxTime) \cup {None}]
    BY <1>1 DEF Pruned, Typing, TypeOK
  <1>4. Rest
    <2>1. seen' = [seen EXCEPT ![v] = IF k = None THEN @
                                      ELSE IF entries[k] # None THEN entries
                                      ELSE [entries EXCEPT ![k] = now]]
      BY DEF Seen
    <2> HIDE DEF entries, k, v
    <2>2. seen' \in [Versions -> [Keys -> (0..MaxTime) \cup {None}]]
      BY <1>1, <1>2, <1>3, <2>1 DEF Typing, TypeOK
    <2> QED
      BY <2>2, CountType DEF Seen, Rest, Counters
  <1>5. CASE Done(w)
    BY <1>4, <1>5, DoneMoves DEF Seen
  <1>6. CASE Goto(w, "match")
    <2> DEFINE st == [worker[w] EXCEPT !.pc = "match"]
    <2>1. st \in WorkerState /\ ControlOf(st, Len(incidents))
      BY <1>1, WorkerHas DEF WorkerState, Label, ControlOf, HasAlert, HasOrder, HasTarget
    <2>2. worker' = [worker EXCEPT ![w] = st] /\ UNCHANGED incidents
      BY <1>6 DEF Goto, Seen, Typing, TypeOK
    <2>3. worker[w].pc \in MayCreate
      BY <1>1 DEF MayCreate
    <2> QED
      BY <1>4, <2>1, <2>2, <2>3, GoesOn
  <1> QED
    BY <1>5, <1>6 DEF Seen

LEMMA MatchStep == ASSUME Typing, NEW w \in Workers, Match(w) PROVE Moves(w) /\ Rest
  <1> DEFINE a == worker[w].alert
             order == IF Matching(rules, a) # {} THEN FirstRule(rules, a)
                      ELSE IF a.slo THEN Fallback(a) ELSE None
  <1>1. a \in Alerts /\ worker[w].pc = "match" /\ rules \in Versions /\ worker[w] \in WorkerState
    BY WorkerHas DEF Match, At, ControlOf, HasAlert, Typing, TypeOK
  <1>2. order # None => order \in Order
    <2>1. Fallback(a) \in Order
      BY <1>1, AlertsAssumption DEF Fallback, Order, Alert, Severity
    <2> QED
      BY <1>1, <2>1, FirstRuleType
  <1>3. Rest
    BY UntouchedType, CountType DEF Match, Rest, Typing, TypeOK
  <1>4. CASE order = None
    BY <1>3, <1>4, DoneMoves DEF Match
  <1>5. CASE order # None
    <2> DEFINE st == [worker[w] EXCEPT !.pc = "find", !.rules = rules, !.order = order]
    <2>1. worker' = [worker EXCEPT ![w].pc = "find", ![w].rules = rules, ![w].order = order]
          /\ UNCHANGED incidents
      BY <1>5 DEF Match
    <2> HIDE DEF order
    <2>2. st \in WorkerState /\ ControlOf(st, Len(incidents))
      BY <1>1, <1>2, <1>5 DEF WorkerState, Label, ControlOf, HasAlert, HasOrder, HasTarget
    <2>3. worker' = [worker EXCEPT ![w] = st] /\ worker'[w] = st
      <3>1. worker'[w] = st
        BY <2>1 DEF Typing, TypeOK
      <3>2. worker' = [worker EXCEPT ![w] = worker'[w]]
        BY <2>1 DEF Typing, TypeOK
      <3> QED
        BY <3>1, <3>2
    <2>4. worker[w].pc \in MayCreate
      BY <1>1 DEF MayCreate
    <2> QED
      BY <1>3, <2>1, <2>2, <2>3, <2>4, GoesOn
  <1> QED
    BY <1>4, <1>5

LEMMA IncidentAt ==
    ASSUME Typing, NEW i \in 1..Len(incidents)
    PROVE  incidents[i] \in Incident
  BY DEF Typing, TypeOK

\* What a lookup finds is an incident in the state looked for, and the latest.
LEMMA Lookup ==
    ASSUME Typing, NEW s, NEW state, NEW i, i = Latest(InState(s, state))
    PROVE  /\ i \in 0..Len(incidents) /\ i \in 0..MaxIncidents
           /\ i = 0 <=> InState(s, state) = {}
           /\ i # 0 => /\ i \in 1..Len(incidents) /\ i \in InState(s, state)
                       /\ incidents[i].severity \in Severity
           /\ \A j \in InState(s, state) : j <= i
  <1>1. InState(s, state) \in SUBSET (1..Len(incidents)) /\ Len(incidents) \in Nat
    BY LengthBound DEF InState, Related
  <1>2. /\ i \in 0..Len(incidents) /\ (i = 0 <=> InState(s, state) = {})
        /\ InState(s, state) # {} => /\ i \in InState(s, state)
                                     /\ \A j \in InState(s, state) : j <= i
    BY <1>1, LatestFound
  <1>3. i # 0 => i \in 1..Len(incidents)
    BY <1>1, <1>2
  <1>4. i # 0 => incidents[i].severity \in Severity
    BY <1>3, IncidentAt DEF Incident
  <1> QED
    BY <1>2, <1>3, <1>4, LengthBound

LEMMA FindActiveStep ==
    ASSUME Typing, NEW w \in Workers, NEW ok \in BOOLEAN, FindActive(w, ok)
    PROVE  Moves(w) /\ Rest
  <1> DEFINE s == worker[w].order.service
             a == worker[w].alert
             i == IF ok THEN Latest(InState(s, "Started")) ELSE 0
             st == [Idle EXCEPT
                       !.pc = IF a.status = "resolved" THEN "resolve"
                              ELSE IF i = 0 THEN "suggested" ELSE "escalate",
                       !.order = worker[w].order,
                       !.target = i,
                       !.read = IF i = 0 THEN 1 ELSE incidents[i].severity,
                       !.known = IF i = 0 THEN Len(incidents) ELSE 0,
                       !.blind = ~ok]
  <1>1. worker[w].pc = "find" /\ worker[w].order \in Order
    BY WorkerHas DEF FindActive, At, ControlOf, HasOrder
  <1>2. /\ i \in 0..MaxIncidents /\ (i # 0 => i \in 1..Len(incidents))
        /\ i # 0 => incidents[i].severity \in Severity
    BY Lookup, LengthBound
  <1>3. Rest /\ UNCHANGED incidents
    BY UntouchedType, CountType DEF FindActive, Rest, Counters
  <1>4. CASE i = 0 /\ a.status = "resolved"
    BY <1>3, <1>4, DoneMoves DEF FindActive
  <1>5. CASE ~(i = 0 /\ a.status = "resolved")
    <2>1. worker' = [worker EXCEPT ![w] = st]
      BY <1>5, Zenon DEF FindActive
    <2>2. /\ st.pc \in {"resolve", "suggested", "escalate"} /\ st.order = worker[w].order
          /\ st.target = i /\ (st.pc \in {"resolve", "escalate"} => i # 0)
      BY <1>5 DEF Idle
    <2>3. st \in WorkerState
      <3> DEFINE q == IF i = 0 THEN 1 ELSE incidents[i].severity
                 n == IF i = 0 THEN Len(incidents) ELSE 0
                 l == IF a.status = "resolved" THEN "resolve"
                      ELSE IF i = 0 THEN "suggested" ELSE "escalate"
                 b == ~ok
      <3>1. q \in Severity /\ n \in 0..MaxIncidents /\ l \in Label
        BY <1>2, LengthBound DEF Severity, Label
      <3>2. b \in BOOLEAN
        OBVIOUS
      <3> HIDE DEF q, n, l, b, i
      <3>3. [Idle EXCEPT !.pc = l, !.order = worker[w].order, !.target = i, !.read = q,
                         !.known = n, !.blind = b] \in WorkerState
        BY <1>1, <1>2, <3>1, <3>2, IdleType DEF WorkerState
      <3> QED
        BY <3>3 DEF q, n, l, b
    <2> HIDE DEF st, i
    <2>4. ControlOf(st, Len(incidents))
      BY <1>1, <1>2, <2>2 DEF ControlOf, HasAlert, HasOrder, HasTarget
    <2> QED
      BY <1>1, <1>3, <2>1, <2>3, <2>4, GoesOn DEF MayCreate
  <1> QED
    BY <1>4, <1>5

LEMMA FindSuggestedStep ==
    ASSUME Typing, NEW w \in Workers, NEW ok \in BOOLEAN, FindSuggested(w, ok)
    PROVE  Moves(w) /\ Rest
  <1> DEFINE j == IF ok THEN Latest(InState(worker[w].order.service, "Suggested")) ELSE 0
             i == IF j # 0 /\ IsFresh(j) THEN j ELSE 0
             l == IF i # 0 THEN "escalate"
                  ELSE IF worker[w].order.mode = "auto" THEN "check" ELSE "suggest"
             q == IF i = 0 THEN 1 ELSE incidents[i].severity
             b == worker[w].blind \/ ~ok
             st == [worker[w] EXCEPT !.pc = l, !.target = i, !.read = q, !.blind = b]
  <1>1. worker[w].pc = "suggested" /\ worker[w].order \in Order /\ worker[w] \in WorkerState
    BY WorkerHas DEF FindSuggested, At, ControlOf, HasOrder
  <1>2. /\ i \in 0..MaxIncidents /\ (i # 0 => i \in 1..Len(incidents))
        /\ q \in Severity
    BY Lookup, LengthBound DEF Severity
  <1>3. Rest /\ UNCHANGED incidents
    BY UntouchedType, CountType DEF FindSuggested, Rest, Counters
  <1>4. worker' = [worker EXCEPT ![w].pc = l, ![w].target = i, ![w].read = q,
                                 ![w].blind = @ \/ ~ok]
    BY Zenon DEF FindSuggested
  <1>5. l \in {"escalate", "check", "suggest"} /\ (l = "escalate" => i # 0)
    OBVIOUS
  <1>6. b \in BOOLEAN
    OBVIOUS
  <1> HIDE DEF i, l, q, b
  <1>7. st \in WorkerState
    BY <1>1, <1>2, <1>5, <1>6 DEF WorkerState, Label
  <1>8. ControlOf(st, Len(incidents))
    BY <1>1, <1>2, <1>5 DEF WorkerState, ControlOf, HasAlert, HasOrder, HasTarget
  <1>9. worker' = [worker EXCEPT ![w] = st]
    BY <1>4 DEF Typing, TypeOK, b
  <1> QED
    BY <1>1, <1>3, <1>7, <1>8, <1>9, GoesOn DEF MayCreate

\* A step of a worker that adds nothing itself, whatever becomes of the
\* incident it acts on.
LEMMA ActsOn ==
    ASSUME Typing, NEW w \in Workers, Grows(0),
           NEW st \in WorkerState, worker' = [worker EXCEPT ![w] = st],
           ControlOf(st, Len(incidents)), st.pc \notin MayCreate
    PROVE  Moves(w)
  <1>1. worker'[w] = st /\ Len(incidents') = Len(incidents)
    BY LengthBound DEF Typing, TypeOK, Grows
  <1> QED
    BY <1>1 DEF Moves

LEMMA EscalateStep ==
    ASSUME Typing, NEW w \in Workers, NEW out, Escalate(w, out)
    PROVE  Moves(w) /\ Rest
  <1> DEFINE i == worker[w].target
             sev == worker[w].order.severity
             st == [Idle EXCEPT !.pc = "note"]
  <1>1. i \in 1..Len(incidents) /\ sev \in Severity
    BY WorkerHas DEF Escalate, At, ControlOf, HasOrder, HasTarget, Order
  <1>2. Grows(0)
    <2>1. CASE incidents' = [incidents EXCEPT ![i].severity = sev]
      <3> DEFINE r == [incidents[i] EXCEPT !.severity = sev]
      <3>1. r \in Incident /\ Ages(incidents[i], r)
        BY <1>1, IncidentAt DEF Incident, Ages
      <3>2. incidents' = [incidents EXCEPT ![i] = r]
        BY <2>1
      <3> HIDE DEF r
      <3> QED
        BY <1>1, <3>1, <3>2, EditGrows
    <2> QED
      BY <2>1, NothingGrows DEF Escalate
  <1>3. Rest
    BY UntouchedType, CountType DEF Escalate, Rest, Counters
  <1>4. st \in WorkerState /\ ControlOf(st, Len(incidents)) /\ st.pc \notin MayCreate
    <2>1. st \in WorkerState /\ st.pc = "note"
      BY IdleType DEF WorkerState, Label
    <2> QED
      BY <2>1 DEF ControlOf, HasAlert, HasOrder, HasTarget, MayCreate
  <1>5. worker' = [worker EXCEPT ![w] = st]
    BY DEF Escalate
  <1> QED
    BY <1>2, <1>3, <1>4, <1>5, ActsOn

LEMMA NoteStep ==
    ASSUME Typing, NEW w \in Workers, NEW out, NoteByID(w, out)
    PROVE  Moves(w) /\ Rest
  BY DoneMoves, UntouchedType, CountType DEF NoteByID, Rest, Counters

LEMMA ResolveStep ==
    ASSUME Typing, NEW w \in Workers, NEW out, ResolveByID(w, out)
    PROVE  Moves(w) /\ Rest
  <1> DEFINE i == worker[w].target
  <1>1. i \in 1..Len(incidents)
    BY WorkerHas DEF ResolveByID, At, ControlOf, HasTarget
  <1>2. Grows(0)
    <2>1. CASE /\ incidents[i].state = "Started"
               /\ incidents' = [incidents EXCEPT ![i].state = "Resolved"]
      <3> DEFINE r == [incidents[i] EXCEPT !.state = "Resolved"]
      <3>1. r \in Incident /\ Ages(incidents[i], r)
        BY <1>1, <2>1, IncidentAt DEF Incident, Ages
      <3>2. incidents' = [incidents EXCEPT ![i] = r]
        BY <2>1
      <3> HIDE DEF r
      <3> QED
        BY <1>1, <3>1, <3>2, EditGrows
    <2> QED
      BY <2>1, NothingGrows DEF ResolveByID
  <1>3. Rest
    BY UntouchedType, CountType DEF ResolveByID, Rest, Counters
  <1>4. Idle.pc \notin MayCreate
    BY DEF Idle, MayCreate
  <1> QED
    BY <1>2, <1>3, <1>4, IdleType, ActsOn DEF ResolveByID, Done

LEMMA StartCheckStep ==
    ASSUME Typing, NEW w \in Workers, NEW ok \in BOOLEAN, StartCheck(w, ok)
    PROVE  Moves(w) /\ Rest
  <1> DEFINE s == worker[w].order.service
  <1>1. worker[w].pc = "check" /\ worker[w].order \in Order /\ worker[w] \in WorkerState
    BY WorkerHas DEF StartCheck, At, ControlOf, HasOrder
  <1>2. Rest /\ UNCHANGED incidents
    BY UntouchedType, CountType DEF StartCheck, Rest, Counters
  <1>3. CASE s = None \/ ~ok
    BY <1>2, <1>3, DoneMoves DEF StartCheck
  <1>4. CASE s # None /\ Goto(w, "suggest")
    <2> DEFINE st == [worker[w] EXCEPT !.pc = "suggest"]
    <2>1. st \in WorkerState /\ ControlOf(st, Len(incidents))
      BY <1>1 DEF WorkerState, Label, ControlOf, HasAlert, HasOrder, HasTarget
    <2>2. worker' = [worker EXCEPT ![w] = st]
      BY <1>4 DEF Goto
    <2> QED
      BY <1>1, <1>2, <2>1, <2>2, GoesOn DEF MayCreate
  <1>5. CASE s # None /\ worker' = [worker EXCEPT ![w].pc = "create",
                                                  ![w].known = Len(incidents)]
    <2> DEFINE st == [worker[w] EXCEPT !.pc = "create", !.known = Len(incidents)]
    <2>1. st \in WorkerState
      BY <1>1, LengthBound DEF WorkerState, Label
    <2>2. ControlOf(st, Len(incidents))
      BY <1>1, <1>5 DEF WorkerState, ControlOf, HasAlert, HasOrder, HasTarget, Order
    <2>3. worker' = [worker EXCEPT ![w] = st]
      BY <1>5 DEF Typing, TypeOK
    <2> QED
      BY <1>1, <1>2, <2>1, <2>2, <2>3, GoesOn DEF MayCreate
  <1> QED
    BY <1>3, <1>4, <1>5 DEF StartCheck

LEMMA SaveNewStep ==
    ASSUME Typing, NEW w \in Workers, NEW out, NEW new \in Incident, Made(new),
           worker[w].pc \in MayCreate, SaveNew(w, out, new)
    PROVE  Moves(w) /\ Rest
  <1>1. Rest
    BY UntouchedType, CountType DEF SaveNew, Rest, Counters
  <1>2. CASE out = "failed"
    BY <1>1, <1>2, DoneMoves DEF SaveNew
  <1>3. CASE out # "failed"
    <2>1. Grows(1) /\ Made(incidents'[Len(incidents')]) /\ Len(incidents') = Len(incidents) + 1
      BY <1>3, AppendGrows DEF SaveNew, Grows
    <2>2. ASSUME NEW st \in WorkerState, st.pc \notin MayCreate, ControlOf(st, Len(incidents) + 1),
                 worker' = [worker EXCEPT ![w] = st]
          PROVE  Moves(w)
      <3>1. worker'[w] = st
        BY <2>2 DEF Typing, TypeOK
      <3> QED
        BY <2>1, <2>2, <3>1 DEF Moves
    <2>3. CASE out # "done"
      <3>1. Idle.pc \notin MayCreate
        BY DEF Idle, MayCreate
      <3> QED
        BY <1>1, <2>2, <2>3, <3>1, IdleType DEF SaveNew, Done
    <2>4. CASE out = "done"
      <3> DEFINE st == [Idle EXCEPT !.pc = "first note", !.target = Len(incidents) + 1]
      <3>1. Len(incidents) + 1 \in 0..MaxIncidents /\ Len(incidents) + 1 \in 1..(Len(incidents) + 1)
        <4>1. w \in Pending /\ Pending \in SUBSET Workers /\ IsFiniteSet(Pending)
          BY Bounds, FS_Subset DEF Pending
        <4>2. Cardinality(Pending) \in Nat /\ Cardinality(Pending) # 0
          BY <4>1, FS_CardinalityType, FS_EmptySet
        <4>3. Len(incidents) + Cardinality(Pending) <= Len(Stored) + sends /\ sends \in 0..MaxSends
          BY DEF Typing, TypeOK, OnePerAlert
        <4> QED
          BY <4>2, <4>3, LengthBound, Bounds DEF MaxIncidents
      <3>2. st \in WorkerState /\ st.pc = "first note" /\ st.target = Len(incidents) + 1
        BY <3>1, IdleType DEF WorkerState, Label
      <3>3. worker' = [worker EXCEPT ![w] = st]
        BY <2>4 DEF SaveNew
      <3> HIDE DEF st
      <3>4. ControlOf(st, Len(incidents) + 1) /\ st.pc \notin MayCreate
        BY <3>1, <3>2 DEF ControlOf, HasAlert, HasOrder, HasTarget, MayCreate
      <3> QED
        BY <1>1, <2>2, <3>2, <3>3, <3>4
    <2> QED
      BY <2>3, <2>4
  <1> QED
    BY <1>2, <1>3

LEMMA StartStep ==
    ASSUME Typing, NEW w \in Workers, NEW out, Start(w, out)
    PROVE  Moves(w) /\ Rest
  <1> DEFINE new == NewIncident(w, "Started", "auto")
  <1>1. worker[w].pc = "create" /\ worker[w].order \in Order /\ worker[w].order.service \in Services
    BY WorkerHas DEF Start, At, ControlOf, HasOrder
  <1>2. new \in Incident /\ Made(new)
    BY <1>1, Bounds DEF NewIncident, Incident, Made, Order, Typing, TypeOK
  <1> QED
    BY <1>1, <1>2, SaveNewStep DEF Start, MayCreate

LEMMA SuggestStep ==
    ASSUME Typing, NEW w \in Workers, NEW out, Suggest(w, out)
    PROVE  Moves(w) /\ Rest
  <1> DEFINE new == NewIncident(w, "Suggested", "suggest")
  <1>1. worker[w].pc = "suggest" /\ worker[w].order \in Order
    BY WorkerHas DEF Suggest, At, ControlOf, HasOrder
  <1>2. CASE worker[w].order.service = None
    BY <1>2, DoneMoves, UntouchedType, CountType DEF Suggest, Rest, Counters
  <1>3. CASE worker[w].order.service # None
    <2>1. new \in Incident /\ Made(new)
      BY <1>1, <1>3, Bounds DEF NewIncident, Incident, Made, Order, Typing, TypeOK
    <2> QED
      BY <1>1, <1>3, <2>1, SaveNewStep DEF Suggest, MayCreate
  <1> QED
    BY <1>2, <1>3

LEMMA FirstNoteStep ==
    ASSUME Typing, NEW w \in Workers, NEW out, FirstNote(w, out)
    PROVE  Moves(w) /\ Rest
  <1>1. stats' \in [Counters -> Nat]
    <2> DEFINE c == IF incidents[worker[w].target].via = "auto"
                    THEN "created" ELSE "suggested"
    <2>1. c \in {"created", "suggested"} /\ stats \in [Counters -> Nat]
      BY DEF Typing, TypeOK
    <2>2. stats' = [stats EXCEPT ![c] = @ + 1,
                                 !["failed"] = IF out = "done" THEN @ ELSE @ + 1]
      BY DEF FirstNote
    <2> HIDE DEF c
    <2> QED
      BY <2>1, <2>2 DEF Counters
  <1> QED
    BY <1>1, DoneMoves, UntouchedType DEF FirstNote, Rest

LEMMA HandleStep ==
    ASSUME Typing, NEW w \in Workers, Handle(w)
    PROVE  Moves(w) /\ Rest
  BY SeenStep, MatchStep, FindActiveStep, FindSuggestedStep, StartCheckStep, EscalateStep,
     NoteStep, ResolveStep, FirstNoteStep, StartStep, SuggestStep
  DEF Handle

LEMMA ControlKept ==
    ASSUME NEW st, NEW n \in Nat, NEW m \in Nat, n <= m, ControlOf(st, n)
    PROVE  ControlOf(st, m)
  BY DEF ControlOf

LEMMA TypingMoves ==
    ASSUME Typing, NEW w \in Workers, Moves(w), Rest
    PROVE  Typing'
  <1>1. /\ incidents' \in Seq(Incident) /\ Len(incidents') \in Nat
        /\ Len(incidents') = Len(incidents) \/ Len(incidents') = Len(incidents) + 1
        /\ Len(incidents) \in Nat
    BY LengthBound DEF Moves, Grows
  <1>2. TypeOK'
    BY <1>1 DEF Typing, TypeOK, Moves, Rest
  <1>3. Control'
    <2> SUFFICES ASSUME NEW v \in Workers PROVE ControlOf(worker'[v], Len(incidents'))
      BY DEF Control
    <2>1. CASE v = w
      BY <2>1 DEF Moves
    <2>2. CASE v # w
      <3>1. worker'[v] = worker[v]
        BY <2>2 DEF Moves, Typing, TypeOK
      <3> QED
        BY <1>1, <3>1, WorkerHas, ControlKept
    <2> QED
      BY <2>1, <2>2
  <1>4. OnePerAlert'
    <2> DEFINE P == Pending
               Q == {v \in Workers : worker'[v].pc \in MayCreate}
    <2>1. \A v \in Workers \ {w} : v \in P <=> v \in Q
      BY DEF Pending, Moves, Typing, TypeOK
    <2>2. P \in SUBSET Workers /\ Q \in SUBSET Workers
      BY DEF Pending
    <2>3. /\ w \in P <=> worker[w].pc \in MayCreate
          /\ w \in Q <=> worker'[w].pc \in MayCreate
      BY DEF Pending
    <2>4. Q = Pending'
      BY DEF Pending
    <2>5. Len(incidents) + Cardinality(P) <= Len(Stored) + sends /\ sends' = sends /\ sends \in Nat
      BY DEF Typing, TypeOK, OnePerAlert, Rest
    <2> HIDE DEF P, Q
    <2>6. /\ Cardinality(P) \in Nat /\ Cardinality(Q) \in Nat
          /\ w \in P /\ w \notin Q => Cardinality(Q) = Cardinality(P) - 1
          /\ (w \in P <=> w \in Q) => Cardinality(Q) = Cardinality(P)
      BY <2>1, <2>2, CountChange
    <2>7. \/ Len(incidents') = Len(incidents) /\ (w \in Q => w \in P)
          \/ Len(incidents') = Len(incidents) + 1 /\ w \in P /\ w \notin Q
      BY <1>1, <2>3 DEF Moves, Grows
    <2>8. Len(incidents') + Cardinality(Q) <= Len(Stored) + sends
      BY <1>1, <2>5, <2>6, <2>7, Bounds
    <2> QED
      BY <2>4, <2>5, <2>8 DEF OnePerAlert
  <1> QED
    BY <1>2, <1>3, <1>4 DEF Typing

LEMMA DeliveryStep ==
    ASSUME Typing, NEW w \in Workers, NEW a \in Alerts, HandleWebhook(w, a)
    PROVE  Typing'
  <1> DEFINE st == [Idle EXCEPT !.pc = "seen", !.alert = a, !.cache = cache]
  <1>1. st \in WorkerState /\ ControlOf(st, Len(incidents)) /\ st.pc \in MayCreate
    <2>1. st \in WorkerState /\ st.pc = "seen" /\ st.alert = a
      BY IdleType DEF WorkerState, Label, Typing, TypeOK
    <2> QED
      BY <2>1 DEF ControlOf, HasAlert, HasOrder, HasTarget, MayCreate
  <1>2. worker' = [worker EXCEPT ![w] = st] /\ worker'[w] = st
        /\ UNCHANGED <<now, rules, cache, seen, incidents>>
    BY DEF HandleWebhook, Typing, TypeOK
  <1>3. sends' = sends + 1 /\ sends \in Nat /\ sends' \in 0..MaxSends
    BY Bounds DEF HandleWebhook, Typing, TypeOK
  <1>4. stats' \in [Counters -> Nat]
    BY CountType DEF HandleWebhook, Counters
  <1> HIDE DEF st
  <1>5. TypeOK'
    BY <1>1, <1>2, <1>3, <1>4 DEF Typing, TypeOK
  <1>6. Control'
    BY <1>1, <1>2 DEF Typing, TypeOK, Control
  <1>7. OnePerAlert'
    <2> DEFINE Q == {v \in Workers : worker'[v].pc \in MayCreate}
    <2>1. /\ Pending \in SUBSET Workers /\ Q \in SUBSET Workers
          /\ \A v \in Workers \ {w} : v \in Pending <=> v \in Q
      BY <1>2 DEF Pending, Typing, TypeOK
    <2>2. w \notin Pending /\ w \in Q /\ Q = Pending'
      BY <1>1, <1>2 DEF HandleWebhook, At, Pending, MayCreate
    <2> HIDE DEF Q
    <2>3. Cardinality(Q) = Cardinality(Pending) + 1 /\ Cardinality(Pending) \in Nat
      BY <2>1, <2>2, CountChange
    <2> QED
      BY <1>2, <1>3, <2>2, <2>3, LengthBound, Bounds DEF Typing, OnePerAlert
  <1> QED
    BY <1>5, <1>6, <1>7 DEF Typing

\* What people do to an incident, in other processes.
LEMMA PeopleStep ==
    ASSUME Typing, NEW i \in DOMAIN incidents, Promote(i) \/ ResolveByHand(i)
    PROVE  Grows(0) /\ UNCHANGED <<now, sends, worker, rules, cache, seen, stats>>
  <1> DEFINE to == IF incidents[i].state = "Suggested" THEN "Started" ELSE "Resolved"
             r == [incidents[i] EXCEPT !.state = to]
  <1>1. i \in 1..Len(incidents) /\ incidents[i] \in Incident
    BY LengthBound, IncidentAt
  <1>2. incidents[i].state \in {"Suggested", "Started"} /\ incidents' = [incidents EXCEPT ![i] = r]
    BY DEF Promote, ResolveByHand
  <1>3. r \in Incident /\ Ages(incidents[i], r)
    BY <1>1, <1>2 DEF Incident, Ages
  <1> HIDE DEF r
  <1> QED
    BY <1>1, <1>2, <1>3, EditGrows DEF Promote, ResolveByHand

LEMMA TypingStill ==
    ASSUME Typing, Grows(0), TypeOK', UNCHANGED <<worker, sends>>
    PROVE  Typing'
  <1>1. Len(incidents') = Len(incidents)
    BY LengthBound DEF Grows
  <1> QED
    BY <1>1 DEF Typing, Control, OnePerAlert, Pending

LEMMA TypingNext == Typing /\ [Next]_vars => Typing'
  <1> SUFFICES ASSUME Typing, [Next]_vars PROVE Typing'
    OBVIOUS
  <1>1. ASSUME NEW i \in DOMAIN incidents, Promote(i) \/ ResolveByHand(i) PROVE Typing'
    <2>1. Grows(0) /\ UNCHANGED <<now, sends, worker, rules, cache, seen, stats>>
      BY <1>1, PeopleStep
    <2>2. TypeOK'
      BY <2>1 DEF Typing, TypeOK, Grows
    <2> QED
      BY <2>1, <2>2, TypingStill
  <1>2. CASE Reload
    <2>1. rules' \in Versions /\ cache' \in Versions
      BY <1>2, Bounds DEF Reload, SetRules, ResetCache, Versions, Typing, TypeOK
    <2> QED
      BY <1>2, <2>1, TypingStill, NothingGrows DEF Reload, Typing, TypeOK
  <1>3. CASE Tick
    <2>1. now' \in 0..MaxTime
      BY <1>3, Bounds DEF Tick, Typing, TypeOK
    <2> QED
      BY <1>3, <2>1, TypingStill, NothingGrows DEF Tick, Typing, TypeOK
  <1>4. CASE UNCHANGED vars
    BY <1>4, TypingStill, NothingGrows DEF vars, Typing, TypeOK
  <1> QED
    BY <1>1, <1>2, <1>3, <1>4, HandleStep, TypingMoves, DeliveryStep DEF Next

(***************************************************************************)
(* Every variable keeps its type, for any number of workers: a worker that *)
(* creates has rules and a service, one that escalates, resolves or notes  *)
(* has an incident.                                                        *)
(***************************************************************************)
THEOREM TypeCorrect == Spec => []TypeOK
  <1>1. Typing => TypeOK
    BY DEF Typing
  <1> QED
    BY <1>1, TypingInit, TypingNext, PTL DEF Spec

(***************************************************************************)
(* An alert makes at most one incident, however many rules, lookups and    *)
(* failures it meets: there are never more incidents than were stored and  *)
(* deliveries made, those counted that may still make one.                 *)
(***************************************************************************)
THEOREM OneIncidentPerAlert == Spec => []OnePerAlert
  <1>1. Typing => OnePerAlert
    BY DEF Typing
  <1> QED
    BY <1>1, TypingInit, TypingNext, PTL DEF Spec

-----------------------------------------------------------------------------
(***************************************************************************)
(* Reload.  The rules are replaced before the cache and read after it, so  *)
(* the cache a worker marked is never newer than the rules it matches.     *)
(***************************************************************************)
Early == {"seen", "match"}

RulesFirst ==
    /\ cache <= rules
    /\ \A w \in Workers : worker[w].pc \in Early => worker[w].cache <= rules

Reloading == RulesFirst /\ ReloadTakesEffect

LEMMA ReloadingInit == Init => Reloading
  BY DEF Init, Reloading, RulesFirst, ReloadTakesEffect, At, Idle, Early

\* Where a worker is after a step.
LEMMA AfterDone ==
    ASSUME Typing, NEW w \in Workers, Done(w)
    PROVE  worker'[w].pc = "idle"
  BY DEF Typing, TypeOK, Done, Idle

LEMMA AfterSave ==
    ASSUME Typing, NEW w \in Workers, NEW out, NEW new, SaveNew(w, out, new)
    PROVE  worker'[w].pc = IF out = "done" THEN "first note" ELSE "idle"
  BY AfterDone DEF Typing, TypeOK, SaveNew, Idle

LEMMA AfterOther ==
    ASSUME Typing, NEW w \in Workers, NEW out, NEW ok
    PROVE  /\ FindActive(w, ok) => worker'[w].pc \in {"idle", "resolve", "suggested", "escalate"}
           /\ FindSuggested(w, ok) => worker'[w].pc \in {"check", "suggest", "escalate"}
           /\ StartCheck(w, ok) => worker'[w].pc \in {"idle", "suggest", "create"}
           /\ Escalate(w, out) => worker'[w].pc = "note"
           /\ NoteByID(w, out) \/ ResolveByID(w, out) \/ FirstNote(w, out)
                => worker'[w].pc = "idle"
           /\ Seen(w) => worker'[w].pc \in {"idle", "match"}
           /\ Match(w) => worker'[w].pc \in {"idle", "find"}
  <1>1. worker \in [Workers -> WorkerState] /\ worker[w] \in WorkerState
    BY WorkerHas DEF Typing, TypeOK
  <1>2. ASSUME FindActive(w, ok)
        PROVE  worker'[w].pc \in {"idle", "resolve", "suggested", "escalate"}
    <2> DEFINE a == worker[w].alert
               i == IF ok THEN Latest(InState(worker[w].order.service, "Started")) ELSE 0
               l == IF a.status = "resolved" THEN "resolve"
                    ELSE IF i = 0 THEN "suggested" ELSE "escalate"
    <2> DEFINE new == [Idle EXCEPT !.pc = l, !.order = worker[w].order, !.target = i,
                                   !.read = IF i = 0 THEN 1 ELSE incidents[i].severity,
                                   !.known = IF i = 0 THEN Len(incidents) ELSE 0,
                                   !.blind = ~ok]
    <2>1. Done(w) \/ worker' = [worker EXCEPT ![w] = new]
      BY <1>2, Zenon DEF FindActive
    <2>2. l \in {"resolve", "suggested", "escalate"}
      OBVIOUS
    <2> HIDE DEF l, i, a
    <2>3. new.pc = l
      BY DEF Idle
    <2> HIDE DEF new
    <2>4. Done(w) \/ worker'[w].pc = l
      BY <1>1, <2>1, <2>3
    <2> QED
      BY <2>2, <2>4, AfterDone
  <1>3. ASSUME FindSuggested(w, ok) PROVE worker'[w].pc \in {"check", "suggest", "escalate"}
    BY <1>1, <1>3 DEF FindSuggested, WorkerState
  <1>4. ASSUME StartCheck(w, ok) PROVE worker'[w].pc \in {"idle", "suggest", "create"}
    BY <1>1, <1>4, AfterDone DEF StartCheck, Goto, WorkerState
  <1>5. ASSUME Escalate(w, out) PROVE worker'[w].pc = "note"
    BY <1>1, <1>5 DEF Escalate, Idle
  <1>6. ASSUME NoteByID(w, out) \/ ResolveByID(w, out) \/ FirstNote(w, out)
        PROVE  worker'[w].pc = "idle"
    BY <1>6, AfterDone DEF NoteByID, ResolveByID, FirstNote
  <1>7. ASSUME Seen(w) PROVE worker'[w].pc \in {"idle", "match"}
    BY <1>1, <1>7, AfterDone DEF Seen, Goto, WorkerState
  <1>8. ASSUME Match(w) PROVE worker'[w].pc \in {"idle", "find"}
    BY <1>1, <1>8, AfterDone DEF Match, WorkerState
  <1> QED
    BY <1>2, <1>3, <1>4, <1>5, <1>6, <1>7, <1>8

\* After the match a worker comes back to neither cache nor rules.
LEMMA LateStep ==
    ASSUME Typing, NEW w \in Workers, Handle(w), ~Seen(w), ~Match(w)
    PROVE  worker'[w].pc \notin {"seen", "match", "find"}
  <1>1. ASSUME NEW out, Start(w, out) \/ Suggest(w, out)
        PROVE  worker'[w].pc \notin {"seen", "match", "find"}
    BY <1>1, AfterSave, AfterDone DEF Start, Suggest
  <1> QED
    BY <1>1, AfterOther DEF Handle

LEMMA ReloadingHandle ==
    ASSUME Typing, Reloading, NEW w \in Workers, Handle(w)
    PROVE  Reloading'
  <1>1. Moves(w) /\ Rest
    BY HandleStep
  <1>2. \A v \in Workers \ {w} : worker'[v] = worker[v]
    BY <1>1 DEF Moves, Typing, TypeOK
  <1>3. worker[w] \in WorkerState /\ worker \in [Workers -> WorkerState] /\ rules \in Nat
    BY Bounds, WorkerHas DEF Typing, TypeOK
  <1>4. /\ worker'[w].pc \in Early => worker'[w].cache <= rules
        /\ worker'[w].pc = "find" => worker'[w].rules >= worker'[w].cache
    <2>1. CASE Seen(w)
      <3>1. worker'[w].pc # "find" /\ (worker'[w].pc = "match" => worker'[w].cache = worker[w].cache)
            /\ worker'[w].pc # "seen"
        BY <1>3, <2>1 DEF Seen, Done, Goto, Idle, WorkerState
      <3>2. worker[w].cache <= rules
        BY <2>1 DEF Seen, At, Reloading, RulesFirst, Early
      <3> QED
        BY <3>1, <3>2 DEF Early
    <2>2. CASE Match(w)
      <3>1. /\ worker'[w].pc \notin Early
            /\ worker'[w].pc = "find" => /\ worker'[w].rules = rules
                                         /\ worker'[w].cache = worker[w].cache
        BY <1>3, <2>2 DEF Match, Done, Idle, WorkerState, Early
      <3>2. worker[w].cache <= rules /\ worker[w].cache \in Nat
        BY <1>3, <2>2, Bounds DEF Match, At, Reloading, RulesFirst, Early, WorkerState
      <3> QED
        BY <1>3, <3>1, <3>2
    <2>3. CASE ~Seen(w) /\ ~Match(w)
      BY <2>3, LateStep DEF Early
    <2> QED
      BY <2>1, <2>2, <2>3
  <1> QED
    BY <1>1, <1>2, <1>4 DEF Reloading, RulesFirst, ReloadTakesEffect, At, Rest

LEMMA ReloadingDelivery ==
    ASSUME Typing, Reloading, NEW w \in Workers, NEW a \in Alerts, HandleWebhook(w, a)
    PROVE  Reloading'
  <1>1. /\ worker'[w].pc = "seen" /\ worker'[w].cache = cache
        /\ \A v \in Workers \ {w} : worker'[v] = worker[v]
        /\ UNCHANGED <<rules, cache>>
    BY DEF HandleWebhook, Idle, Typing, TypeOK
  <1> QED
    BY <1>1 DEF Reloading, RulesFirst, ReloadTakesEffect, At, Early

LEMMA ReloadingReload == ASSUME Typing, Reloading, Reload PROVE Reloading'
  <1>1. rules \in Nat /\ cache \in Nat /\ UNCHANGED worker
    BY Bounds DEF Typing, TypeOK, Reload
  <1>2. rules <= rules' /\ rules' \in Nat /\ cache' <= rules'
    BY <1>1 DEF Reload, SetRules, ResetCache, Reloading, RulesFirst
  <1>3. \A w \in Workers : worker[w].cache \in Nat
    BY WorkerHas, Bounds DEF WorkerState
  <1> QED
    BY <1>1, <1>2, <1>3 DEF Reloading, RulesFirst, ReloadTakesEffect, At

LEMMA ReloadingNext == Typing /\ Reloading /\ [Next]_vars => Reloading'
  <1> SUFFICES ASSUME Typing, Reloading, [Next]_vars PROVE Reloading'
    OBVIOUS
  <1>1. CASE UNCHANGED <<worker, rules, cache>>
    BY <1>1 DEF Reloading, RulesFirst, ReloadTakesEffect, At
  <1>2. ASSUME NEW i \in DOMAIN incidents, Promote(i) \/ ResolveByHand(i) PROVE Reloading'
    BY <1>1, <1>2 DEF Promote, ResolveByHand
  <1>3. CASE Tick \/ UNCHANGED vars
    BY <1>1, <1>3 DEF Tick, vars
  <1> QED
    BY <1>2, <1>3, ReloadingHandle, ReloadingDelivery, ReloadingReload DEF Next

(***************************************************************************)
(* A reload takes effect on every alert it lets through: what is marked in *)
(* the cache of a reload is matched against the rules of that reload or of *)
(* a later one, in whatever order workers and reloads read and replace     *)
(* the two.                                                                *)
(***************************************************************************)
THEOREM ReloadCorrect == Spec => []ReloadTakesEffect
  <1>1. Reloading => ReloadTakesEffect
    BY DEF Reloading
  <1> QED
    BY <1>1, TypingInit, TypingNext, ReloadingInit, ReloadingNext, PTL DEF Spec

-----------------------------------------------------------------------------
(***************************************************************************)
(* The metrics.  A step of a worker is one of four entries in the books:   *)
(* an incident made and about to be counted, one behind a failure, one     *)
(* counted, or none of these.                                              *)
(***************************************************************************)
Counted == stats["created"] + stats["suggested"]

Made1 == Len(incidents') = Len(incidents) + 1

MadeNone == Len(incidents') = Len(incidents)

NotesFirst(st) == st.pc = "first note"

Books(w) ==
    \/ Made1 /\ ~NotesFirst(worker[w]) /\ NotesFirst(worker'[w]) /\ UNCHANGED stats
    \/ /\ Made1 /\ ~NotesFirst(worker[w]) /\ ~NotesFirst(worker'[w])
       /\ Counted' = Counted /\ stats'["failed"] = stats["failed"] + 1
    \/ /\ MadeNone /\ NotesFirst(worker[w]) /\ ~NotesFirst(worker'[w])
       /\ Counted' = Counted + 1 /\ stats'["failed"] >= stats["failed"]
    \/ /\ MadeNone /\ ~NotesFirst(worker[w]) /\ ~NotesFirst(worker'[w])
       /\ Counted' = Counted /\ stats'["failed"] >= stats["failed"]

LEMMA StatsType ==
    ASSUME Typing
    PROVE  /\ stats \in [Counters -> Nat] /\ Counted \in Nat
           /\ stats["created"] \in Nat /\ stats["suggested"] \in Nat /\ stats["failed"] \in Nat
  BY DEF Typing, TypeOK, Counters, Counted

\* Failures, duplicates and deliveries count no incident.
LEMMA FailureCounts ==
    ASSUME Typing, Count("failed")
    PROVE  Counted' = Counted /\ stats'["failed"] = stats["failed"] + 1
  BY StatsType DEF Count, Counted, Counters

LEMMA OtherCounts ==
    ASSUME Typing, Count("deduped") \/ Count("received") \/ UNCHANGED stats
    PROVE  Counted' = Counted /\ stats'["failed"] = stats["failed"]
  BY StatsType DEF Count, Counted, Counters

LEMMA NoEntry ==
    ASSUME Typing, NEW w, MadeNone, ~NotesFirst(worker[w]), ~NotesFirst(worker'[w]),
           Count("failed") \/ Count("deduped") \/ Count("received") \/ UNCHANGED stats
    PROVE  Books(w)
  <1>1. Counted' = Counted /\ stats'["failed"] >= stats["failed"]
    <2>1. CASE Count("failed")
      BY <2>1, FailureCounts, StatsType
    <2>2. CASE Count("deduped") \/ Count("received") \/ UNCHANGED stats
      BY <2>2, OtherCounts, StatsType
    <2> QED
      BY <2>1, <2>2
  <1> QED
    BY <1>1 DEF Books

LEMMA BooksFirstNote ==
    ASSUME Typing, NEW w \in Workers, NEW out, FirstNote(w, out)
    PROVE  Books(w)
  <1> DEFINE c == IF incidents[worker[w].target].via = "auto" THEN "created" ELSE "suggested"
             f == IF out = "done" THEN stats["failed"] ELSE stats["failed"] + 1
  <1>1. c \in {"created", "suggested"} /\ f \in Nat /\ f >= stats["failed"]
    BY StatsType
  <1>2. stats' = [[stats EXCEPT ![c] = stats[c] + 1] EXCEPT !["failed"] = f]
    BY <1>1, StatsType DEF FirstNote, Counters
  <1> HIDE DEF c, f
  <1>3. stats'["failed"] = f /\ Counted' = Counted + 1
    BY <1>1, <1>2, StatsType DEF Counted, Counters
  <1>4. NotesFirst(worker[w]) /\ ~NotesFirst(worker'[w]) /\ MadeNone
    BY AfterOther DEF FirstNote, At, NotesFirst, MadeNone
  <1> QED
    BY <1>1, <1>3, <1>4 DEF Books

LEMMA BooksSaveNew ==
    ASSUME Typing, NEW w \in Workers, NEW out, NEW new \in Incident,
           ~NotesFirst(worker[w]), SaveNew(w, out, new)
    PROVE  Books(w)
  <1>1. NotesFirst(worker'[w]) <=> out = "done"
    BY AfterSave DEF NotesFirst
  <1>2. CASE out = "failed"
    BY <1>1, <1>2, NoEntry DEF SaveNew, MadeNone
  <1>3. CASE out # "failed"
    <2>1. Made1
      BY <1>3 DEF SaveNew, Made1, Typing, TypeOK
    <2>2. IF out = "done" THEN UNCHANGED stats ELSE Count("failed")
      BY DEF SaveNew
    <2> QED
      BY <1>1, <2>1, <2>2, FailureCounts DEF Books
  <1> QED
    BY <1>2, <1>3

LEMMA BooksHandle == ASSUME Typing, NEW w \in Workers, Handle(w) PROVE Books(w)
  <1>1. ASSUME NEW out, Start(w, out) \/ Suggest(w, out) PROVE Books(w)
    <2>1. /\ worker[w].order \in Order /\ ~NotesFirst(worker[w])
          /\ worker[w].pc = "create" => worker[w].order.service \in Services
      BY <1>1, WorkerHas DEF Start, Suggest, At, ControlOf, HasOrder, NotesFirst
    <2>2. CASE worker[w].order.service \in Services
      <3>1. /\ NewIncident(w, "Started", "auto") \in Incident
            /\ NewIncident(w, "Suggested", "suggest") \in Incident
        BY <2>1, <2>2, Bounds DEF NewIncident, Incident, Order, Typing, TypeOK
      <3>2. CASE Done(w) /\ Count("failed") /\ UNCHANGED incidents
        BY <2>1, <3>2, AfterDone, NoEntry DEF MadeNone, NotesFirst
      <3> QED
        BY <1>1, <2>1, <3>1, <3>2, BooksSaveNew DEF Start, Suggest
    <2>3. CASE worker[w].order.service = None /\ Suggest(w, out)
      <3>1. Done(w) /\ Count("failed") /\ UNCHANGED incidents
        BY <2>3 DEF Suggest
      <3> QED
        BY <2>1, <3>1, AfterDone, NoEntry DEF MadeNone, NotesFirst
    <2> QED
      BY <1>1, <2>1, <2>2, <2>3 DEF Start, At, Order
  <1>2. ASSUME Seen(w) \/ Match(w) PROVE Books(w)
    <2>1. UNCHANGED incidents /\ (Count("deduped") \/ UNCHANGED stats) /\ ~NotesFirst(worker[w])
      BY <1>2 DEF Seen, Match, At, NotesFirst
    <2>2. ~NotesFirst(worker'[w])
      BY <1>2, AfterOther DEF NotesFirst
    <2> QED
      BY <2>1, <2>2, NoEntry DEF MadeNone
  <1>3. ASSUME NEW ok \in BOOLEAN,
               FindActive(w, ok) \/ FindSuggested(w, ok) \/ StartCheck(w, ok)
        PROVE  Books(w)
    <2>1. UNCHANGED incidents /\ (Count("failed") \/ UNCHANGED stats) /\ ~NotesFirst(worker[w])
      BY <1>3 DEF FindActive, FindSuggested, StartCheck, At, NotesFirst
    <2>2. ~NotesFirst(worker'[w])
      BY <1>3, AfterOther DEF NotesFirst
    <2> QED
      BY <2>1, <2>2, NoEntry DEF MadeNone
  <1>4. ASSUME NEW out, Escalate(w, out) \/ NoteByID(w, out) \/ ResolveByID(w, out)
        PROVE  Books(w)
    <2>1. Count("failed") \/ Count("deduped") \/ UNCHANGED stats
      BY <1>4 DEF Escalate, NoteByID, ResolveByID
    <2>2. ~NotesFirst(worker[w]) /\ ~NotesFirst(worker'[w])
      BY <1>4, AfterOther DEF Escalate, NoteByID, ResolveByID, At, NotesFirst
    <2>3. MadeNone
      BY <1>4 DEF Escalate, NoteByID, ResolveByID, MadeNone, Typing, TypeOK
    <2> QED
      BY <2>1, <2>2, <2>3, NoEntry
  <1> QED
    BY <1>1, <1>2, <1>3, <1>4, BooksFirstNote DEF Handle

\* The workers whose incident is not counted yet.
Uncounted == {w \in Workers : At(w, "first note")}

Accounted ==
    LET made == Len(incidents) - Len(Stored)
        known == Counted + Cardinality(Uncounted)
    IN  known <= made /\ made <= known + stats["failed"]

LEMMA AccountedSame == Accounted <=> IncidentsAccounted
  BY DEF Accounted, IncidentsAccounted, Counted, Uncounted

LEMMA AccountedInit == Init => Accounted
  <1> SUFFICES ASSUME Init PROVE Accounted
    OBVIOUS
  <1>1. Uncounted = {}
    BY DEF Init, Uncounted, At, Idle
  <1>2. Counted = 0 /\ stats["failed"] = 0 /\ Len(incidents) = Len(Stored)
    BY DEF Init, Counted, Counters
  <1> QED
    BY <1>1, <1>2, Bounds, FS_EmptySet DEF Accounted

\* The balance of incidents made and known, for what one step may change.
LEMMA Balance ==
    ASSUME NEW m \in Nat, NEW n \in Nat, NEW c \in Nat, NEW u \in Nat, NEW f \in Nat,
           NEW g \in Nat, c + u <= m - n, m - n <= c + u + f
    PROVE  /\ c + (u + 1) <= (m + 1) - n /\ (m + 1) - n <= c + (u + 1) + f
           /\ c + u <= (m + 1) - n /\ (m + 1) - n <= c + u + (f + 1)
           /\ g >= f => /\ (c + 1) + (u - 1) <= m - n /\ m - n <= (c + 1) + (u - 1) + g
                       /\ m - n <= c + u + g
  OBVIOUS

LEMMA AccountedHandle ==
    ASSUME Typing, Accounted, NEW w \in Workers, Handle(w)
    PROVE  Accounted'
  <1> DEFINE P == Uncounted
             Q == {v \in Workers : worker'[v].pc = "first note"}
  <1>1. Books(w) /\ Moves(w) /\ Typing'
    BY BooksHandle, HandleStep, TypingMoves
  <1>2. /\ P \in SUBSET Workers /\ Q \in SUBSET Workers
        /\ \A v \in Workers \ {w} : v \in P <=> v \in Q
    BY <1>1 DEF Moves, Uncounted, At, Typing, TypeOK
  <1>3. /\ w \in P <=> NotesFirst(worker[w])
        /\ w \in Q <=> NotesFirst(worker'[w])
        /\ Q = Uncounted'
    BY DEF Uncounted, At, NotesFirst
  <1> HIDE DEF P, Q
  <1>4. /\ Cardinality(P) \in Nat /\ Cardinality(Q) \in Nat
        /\ w \in P /\ w \notin Q => Cardinality(Q) = Cardinality(P) - 1
        /\ w \notin P /\ w \in Q => Cardinality(Q) = Cardinality(P) + 1
        /\ (w \in P <=> w \in Q) => Cardinality(Q) = Cardinality(P)
    BY <1>2, CountChange
  <1>5. /\ Len(incidents) \in Nat /\ Len(Stored) \in Nat /\ Counted \in Nat
        /\ stats["failed"] \in Nat /\ stats'["failed"] \in Nat /\ Counted' \in Nat
    <2>1. stats' \in [Counters -> Nat]
      BY <1>1 DEF Typing, TypeOK
    <2>2. stats'["failed"] \in Nat /\ stats'["created"] \in Nat /\ stats'["suggested"] \in Nat
      BY <2>1 DEF Counters
    <2>3. Counted' \in Nat
      BY <2>2 DEF Counted
    <2>4. Len(incidents) \in Nat /\ Len(Stored) \in Nat
      BY LengthBound, Bounds
    <2>5. Counted \in Nat /\ stats["failed"] \in Nat
      BY StatsType
    <2> QED
      BY <2>2, <2>3, <2>4, <2>5
  <1>6. /\ Counted + Cardinality(P) <= Len(incidents) - Len(Stored)
        /\ Len(incidents) - Len(Stored) <= Counted + Cardinality(P) + stats["failed"]
    BY DEF Accounted, P
  <1>7. stats' = stats => Counted' = Counted /\ stats'["failed"] = stats["failed"]
    BY DEF Counted
  <1>8. \/ /\ Len(incidents') = Len(incidents) + 1 /\ Counted' = Counted
           /\ Cardinality(Q) = Cardinality(P) + 1 /\ stats'["failed"] = stats["failed"]
        \/ /\ Len(incidents') = Len(incidents) + 1 /\ Counted' = Counted
           /\ Cardinality(Q) = Cardinality(P) /\ stats'["failed"] = stats["failed"] + 1
        \/ /\ Len(incidents') = Len(incidents) /\ Counted' = Counted + 1
           /\ Cardinality(Q) = Cardinality(P) - 1 /\ stats'["failed"] >= stats["failed"]
        \/ /\ Len(incidents') = Len(incidents) /\ Counted' = Counted
           /\ Cardinality(Q) = Cardinality(P) /\ stats'["failed"] >= stats["failed"]
    BY <1>1, <1>3, <1>4, <1>7 DEF Books, Made1, MadeNone
  <1>9. /\ Counted' + Cardinality(Q) <= Len(incidents') - Len(Stored)
        /\ Len(incidents') - Len(Stored) <= Counted' + Cardinality(Q) + stats'["failed"]
    <2> DEFINE m == Len(incidents)
               n == Len(Stored)
               c == Counted
               u == Cardinality(P)
               f == stats["failed"]
               g == stats'["failed"]
    <2>1. /\ m \in Nat /\ n \in Nat /\ c \in Nat /\ u \in Nat /\ f \in Nat /\ g \in Nat
          /\ c + u <= m - n /\ m - n <= c + u + f
      BY <1>4, <1>5, <1>6
    <2> HIDE DEF m, n, c, u, f, g
    <2>2. /\ c + (u + 1) <= (m + 1) - n /\ (m + 1) - n <= c + (u + 1) + f
          /\ c + u <= (m + 1) - n /\ (m + 1) - n <= c + u + (f + 1)
          /\ g >= f => /\ (c + 1) + (u - 1) <= m - n /\ m - n <= (c + 1) + (u - 1) + g
                      /\ m - n <= c + u + g
      BY <2>1, Balance
    <2> USE DEF m, n, c, u, f, g
    <2>3. CASE /\ Len(incidents') = Len(incidents) + 1 /\ Counted' = Counted
               /\ Cardinality(Q) = Cardinality(P) + 1 /\ stats'["failed"] = stats["failed"]
      BY <2>2, <2>3, Zenon
    <2>4. CASE /\ Len(incidents') = Len(incidents) + 1 /\ Counted' = Counted
               /\ Cardinality(Q) = Cardinality(P) /\ stats'["failed"] = stats["failed"] + 1
      BY <2>2, <2>4, Zenon
    <2>5. CASE /\ Len(incidents') = Len(incidents) /\ Counted' = Counted + 1
               /\ Cardinality(Q) = Cardinality(P) - 1 /\ stats'["failed"] >= stats["failed"]
      BY <2>2, <2>5, Zenon
    <2>6. CASE /\ Len(incidents') = Len(incidents) /\ Counted' = Counted
               /\ Cardinality(Q) = Cardinality(P) /\ stats'["failed"] >= stats["failed"]
      BY <2>1, <2>2, <2>6, Zenon
    <2> QED
      BY <1>8, <2>3, <2>4, <2>5, <2>6
  <1> QED
    BY <1>3, <1>9 DEF Accounted

LEMMA AccountedNext == Typing /\ Accounted /\ [Next]_vars => Accounted'
  <1> SUFFICES ASSUME Typing, Accounted, [Next]_vars PROVE Accounted'
    OBVIOUS
  <1>1. ASSUME Grows(0), UNCHANGED <<worker, stats>> PROVE Accounted'
    <2>1. Len(incidents') = Len(incidents)
      BY <1>1, LengthBound DEF Grows
    <2> QED
      BY <1>1, <2>1 DEF Accounted, Counted, Uncounted, At
  <1>2. ASSUME NEW i \in DOMAIN incidents, Promote(i) \/ ResolveByHand(i) PROVE Accounted'
    BY <1>1, <1>2, PeopleStep
  <1>3. CASE Reload \/ Tick \/ UNCHANGED vars
    BY <1>1, <1>3, NothingGrows DEF Reload, Tick, vars
  <1>4. ASSUME NEW w \in Workers, NEW a \in Alerts, HandleWebhook(w, a) PROVE Accounted'
    <2>1. Uncounted' = Uncounted
      BY <1>4 DEF HandleWebhook, Idle, Uncounted, At, Typing, TypeOK
    <2>2. Counted' = Counted /\ stats'["failed"] = stats["failed"] /\ incidents' = incidents
      BY <1>4, OtherCounts DEF HandleWebhook
    <2> QED
      BY <2>1, <2>2 DEF Accounted
  <1> QED
    BY <1>2, <1>3, <1>4, AccountedHandle DEF Next

(***************************************************************************)
(* The metrics account for the incidents: each one made is counted, is     *)
(* about to be, or is behind a failure, and none is counted that was not   *)
(* made, whatever calls fail and however the workers interleave.           *)
(***************************************************************************)
THEOREM MetricsCorrect == Spec => []IncidentsAccounted
  BY TypingInit, TypingNext, AccountedInit, AccountedNext, AccountedSame, PTL DEF Spec

-----------------------------------------------------------------------------
(***************************************************************************)
(* Consolidation.  What a worker knows of the incidents it found none      *)
(* among stays true while they age: none the listener started becomes      *)
(* active again, and none suggested becomes fresh again.                   *)
(***************************************************************************)
KnownTo(st, incs) ==
    {i \in 1..Len(incs) : /\ i <= st.known /\ st.order.service # None
                          /\ Flow[incs[i].service] = Flow[st.order.service]}

NoneStarted(st, incs) ==
    \A i \in KnownTo(st, incs) : ~(incs[i].state = "Started" /\ incs[i].via = "auto")

NoneRecent(st, incs, t) ==
    \A i \in KnownTo(st, incs) :
       ~(incs[i].state = "Suggested" /\ t - incs[i].created <= Fresh)

LookedOf(st, incs, t) ==
    /\ st.pc \in {"suggested", "check", "create", "suggest"} => st.known <= Len(incs)
    /\ st.pc = "create" => NoneStarted(st, incs)
    /\ st.pc \in {"suggested", "check", "suggest"} => NoneStarted(st, incs) \/ st.blind
    /\ st.pc \in {"check", "suggest"} => NoneRecent(st, incs, t) \/ st.blind

Looked == \A w \in Workers : LookedOf(worker[w], incidents, now)

\* Incidents are in the order they were made, none later than the clock, and
\* what Start makes is never a suggestion.
History(incs, t) ==
    /\ \A i, j \in 1..Len(incs) : i <= j => incs[i].created <= incs[j].created
    /\ \A i \in 1..Len(incs) : /\ incs[i].created <= t
                               /\ incs[i].via = "auto" => incs[i].state # "Suggested"

Consolidating == History(incidents, now) /\ Looked

LEMMA ConsolidatingInit == Init => Consolidating
  <1> SUFFICES ASSUME Init PROVE Consolidating
    OBVIOUS
  <1>1. History(incidents, now)
    BY StoredAssumption DEF Init, History
  <1>2. Looked
    BY DEF Init, Looked, LookedOf, Idle
  <1> QED
    BY <1>1, <1>2 DEF Consolidating

\* What was known of the incidents is true of what becomes of them.
LEMMA StaysKnown ==
    ASSUME NEW old \in Seq(Incident), NEW new \in Seq(Incident), NEW t \in Nat, NEW u \in Nat,
           t <= u, Len(old) <= Len(new), History(old, t),
           \A i \in 1..Len(old) : Ages(old[i], new[i]),
           NEW st \in WorkerState, LookedOf(st, old, t)
    PROVE  LookedOf(st, new, u)
  <1>1. st.known \in Nat /\ Len(old) \in Nat /\ Len(new) \in Nat
    BY Bounds DEF WorkerState, MaxIncidents
  <1>2. CASE st.pc \notin {"suggested", "check", "create", "suggest"}
    BY <1>2 DEF LookedOf
  <1>3. CASE st.pc \in {"suggested", "check", "create", "suggest"}
    <2>1. st.known <= Len(old) /\ st.known <= Len(new)
      BY <1>1, <1>3 DEF LookedOf
    <2>2. ASSUME NEW i \in KnownTo(st, new)
          PROVE  /\ i \in KnownTo(st, old) /\ i \in 1..Len(old) /\ Ages(old[i], new[i])
                 /\ old[i].created \in Int /\ new[i].created = old[i].created
      <3>1. i \in 1..Len(old) /\ Ages(old[i], new[i])
        BY <1>1, <2>1, <2>2 DEF KnownTo
      <3>2. old[i] \in Incident
        BY <3>1
      <3> QED
        BY <2>2, <3>1, <3>2 DEF KnownTo, Ages, Incident
    <2>3. NoneStarted(st, old) => NoneStarted(st, new)
      BY <2>2 DEF NoneStarted, Ages, History
    <2>4. NoneRecent(st, old, t) => NoneRecent(st, new, u)
      <3> SUFFICES ASSUME NoneRecent(st, old, t), NEW i \in KnownTo(st, new),
                          new[i].state = "Suggested"
                   PROVE  ~(u - new[i].created <= Fresh)
        BY DEF NoneRecent
      <3>1. old[i].state = "Suggested" /\ i \in KnownTo(st, old)
        BY <2>2 DEF Ages
      <3>2. ~(t - old[i].created <= Fresh)
        BY <3>1 DEF NoneRecent
      <3>3. Fresh \in Nat /\ old[i].created \in Int /\ new[i].created = old[i].created
        BY <2>2, AlertsAssumption
      <3> QED
        BY <3>2, <3>3
    <2> QED
      BY <2>1, <2>3, <2>4 DEF LookedOf
  <1> QED
    BY <1>2, <1>3

LEMMA HistoryGrows ==
    ASSUME Typing, History(incidents, now),
           \/ Grows(0)
           \/ Grows(1) /\ Made(incidents'[Len(incidents')])
    PROVE  History(incidents', now)
  <1>1. /\ Len(incidents) \in Nat /\ now \in Nat /\ incidents' \in Seq(Incident)
        /\ \A i \in 1..Len(incidents) : Ages(incidents[i], incidents'[i])
        /\ \A i \in 1..Len(incidents) : incidents[i] \in Incident
    BY LengthBound, IncidentAt, Bounds DEF Grows, Typing, TypeOK
  <1>2. ASSUME NEW i \in 1..Len(incidents)
        PROVE  /\ incidents'[i].created = incidents[i].created /\ incidents[i].created <= now
               /\ incidents'[i].via = "auto" => incidents'[i].state # "Suggested"
    BY <1>1 DEF History, Ages
  <1>3. CASE Grows(0)
    BY <1>1, <1>2, <1>3 DEF History, Grows
  <1>4. CASE Grows(1) /\ Made(incidents'[Len(incidents')])
    <2> DEFINE m == Len(incidents) + 1
    <2>1. Len(incidents') = m /\ incidents'[m].created = now
          /\ (incidents'[m].via = "auto" => incidents'[m].state # "Suggested")
      BY <1>4 DEF Grows, Made
    <2>2. \A i \in 1..m : i \in 1..Len(incidents) \/ i = m
      BY <1>1
    <2>3. ASSUME NEW i \in 1..m
          PROVE  /\ incidents'[i].created <= now
                 /\ incidents'[i].via = "auto" => incidents'[i].state # "Suggested"
      BY <1>1, <1>2, <2>1, <2>2
    <2>4. ASSUME NEW i \in 1..m, NEW j \in 1..m, i <= j
          PROVE  incidents'[i].created <= incidents'[j].created
      <3>1. CASE j = m
        BY <2>1, <2>3, <3>1
      <3>2. CASE j \in 1..Len(incidents)
        <4>1. i \in 1..Len(incidents)
          BY <1>1, <2>4, <3>2
        <4> QED
          BY <1>2, <2>4, <3>2, <4>1 DEF History
      <3> QED
        BY <2>2, <3>1, <3>2
    <2> HIDE DEF m
    <2> QED
      BY <2>1, <2>3, <2>4 DEF History
  <1> QED
    BY <1>3, <1>4

\* A lookup that succeeds and finds nothing.
LEMMA NothingActive ==
    ASSUME Typing, NEW st, InState(st.order.service, "Started") = {}
    PROVE  NoneStarted(st, incidents)
  BY LengthBound DEF InState, Related, NoneStarted, KnownTo

LEMMA NothingRecent ==
    ASSUME Typing, History(incidents, now), NEW st, NEW j,
           j = Latest(InState(st.order.service, "Suggested")), ~(j # 0 /\ IsFresh(j))
    PROVE  NoneRecent(st, incidents, now)
  <1> DEFINE S == InState(st.order.service, "Suggested")
  <1>1. /\ j = 0 <=> S = {}
        /\ j # 0 => j \in 1..Len(incidents)
        /\ \A i \in S : i <= j
    BY Lookup
  <1> SUFFICES ASSUME NEW i \in KnownTo(st, incidents), incidents[i].state = "Suggested"
               PROVE  ~(now - incidents[i].created <= Fresh)
    BY DEF NoneRecent
  <1>2. i \in S /\ i \in 1..Len(incidents)
    BY LengthBound DEF InState, Related, KnownTo
  <1> HIDE DEF S
  <1>3. j \in 1..Len(incidents) /\ i <= j /\ ~(now - incidents[j].created <= Fresh)
    BY <1>1, <1>2 DEF IsFresh
  <1>4. incidents[i].created <= incidents[j].created
    BY <1>2, <1>3 DEF History
  <1>5. /\ now \in Nat /\ Fresh \in Nat /\ incidents[i].created \in Int
        /\ incidents[j].created \in Int
    <2>1. incidents[i] \in Incident /\ incidents[j] \in Incident
      BY <1>2, <1>3, IncidentAt
    <2> QED
      BY <2>1, AlertsAssumption, Bounds, SMTT(30) DEF Incident, Typing, TypeOK
  <1> QED
    BY <1>3, <1>4, <1>5

LEMMA LookedFindActive ==
    ASSUME Typing, NEW w \in Workers, NEW ok \in BOOLEAN, FindActive(w, ok)
    PROVE  LookedOf(worker'[w], incidents', now)
  <1> DEFINE s == worker[w].order.service
             a == worker[w].alert
             i == IF ok THEN Latest(InState(s, "Started")) ELSE 0
             l == IF a.status = "resolved" THEN "resolve"
                  ELSE IF i = 0 THEN "suggested" ELSE "escalate"
             n == IF i = 0 THEN Len(incidents) ELSE 0
             st == [Idle EXCEPT !.pc = l, !.order = worker[w].order, !.target = i,
                                !.read = IF i = 0 THEN 1 ELSE incidents[i].severity,
                                !.known = n, !.blind = ~ok]
  <1>1. worker'[w].pc = "idle" \/ worker'[w] = st
    <2>1. Done(w) \/ worker' = [worker EXCEPT ![w] = st]
      BY Zenon DEF FindActive
    <2> HIDE DEF st
    <2> QED
      BY <2>1, AfterDone DEF Typing, TypeOK
  <1>2. /\ st.pc = l /\ st.known = n /\ st.order = worker[w].order
        /\ l \in {"resolve", "suggested", "escalate"} /\ (l = "suggested" => i = 0)
    BY DEF Idle
  <1>3. st.blind = ~ok
    BY Zenon DEF Idle
  <1> HIDE DEF st, l
  <1>4. CASE worker'[w].pc = "idle" \/ l # "suggested"
    <2>1. worker'[w].pc \notin {"suggested", "check", "create", "suggest"}
      BY <1>1, <1>2, <1>4
    <2> QED
      BY <2>1 DEF LookedOf
  <1>5. CASE worker'[w] = st /\ l = "suggested"
    <2>1. n = Len(incidents) /\ Len(incidents) \in Nat /\ incidents' = incidents
      BY <1>2, <1>5, LengthBound DEF FindActive
    <2>2. ok => InState(s, "Started") = {}
      BY <1>2, <1>5, Lookup
    <2> HIDE DEF i, n
    <2>3. NoneStarted(st, incidents) \/ ~ok
      BY <1>2, <2>2, NothingActive
    <2>4. NoneStarted(st, incidents) \/ st.blind
      BY <1>3, <2>3, Zenon
    <2> QED
      BY <1>2, <1>5, <2>1, <2>4 DEF LookedOf
  <1> QED
    BY <1>1, <1>4, <1>5

LEMMA LookedFindSuggested ==
    ASSUME Typing, Consolidating, NEW w \in Workers, NEW ok \in BOOLEAN, FindSuggested(w, ok)
    PROVE  LookedOf(worker'[w], incidents', now)
  <1> DEFINE st == worker'[w]
             old == worker[w]
             j == IF ok THEN Latest(InState(old.order.service, "Suggested")) ELSE 0
             i == IF j # 0 /\ IsFresh(j) THEN j ELSE 0
  <1>1. old \in WorkerState /\ old.pc = "suggested" /\ incidents' = incidents
    BY WorkerHas DEF FindSuggested, At
  <1>2. /\ st.pc = IF i # 0 THEN "escalate"
                   ELSE IF old.order.mode = "auto" THEN "check" ELSE "suggest"
        /\ st.order = old.order /\ st.known = old.known /\ st.blind = (old.blind \/ ~ok)
    <2> DEFINE pc == IF i # 0 THEN "escalate"
                     ELSE IF old.order.mode = "auto" THEN "check" ELSE "suggest"
               read == IF i = 0 THEN 1 ELSE incidents[i].severity
               blind == old.blind \/ ~ok
    <2>1. worker'[w] = [old EXCEPT !.pc = pc, !.target = i, !.read = read, !.blind = blind]
      <3> HIDE DEF i
      <3> QED BY DEF FindSuggested, Typing, TypeOK, i
    <2> HIDE DEF i, pc, read, blind
    <2>2. st.pc = pc /\ st.order = old.order /\ st.known = old.known
      BY <1>1, <2>1 DEF WorkerState
    <2>3. st.blind = blind
      BY <1>1, <2>1, Zenon DEF WorkerState
    <2> QED
      BY <2>2, <2>3, Zenon DEF pc, blind
  <1>3. st.blind = (old.blind \/ ~ok)
    BY <1>2, Zenon
  <1>4. KnownTo(st, incidents) = KnownTo(old, incidents)
    BY <1>2 DEF KnownTo
  <1>5. old.known <= Len(incidents) /\ (NoneStarted(old, incidents) \/ old.blind)
    BY <1>1 DEF Consolidating, Looked, LookedOf
  <1>6. CASE i # 0
    BY <1>2, <1>6 DEF LookedOf
  <1>7. CASE i = 0
    <2>1. ok => ~(j # 0 /\ IsFresh(j))
      BY <1>7
    <2>2. ok => NoneRecent(old, incidents, now)
      BY <2>1, NothingRecent DEF Consolidating
    <2>3. NoneRecent(st, incidents, now) \/ st.blind
      BY <1>3, <1>4, <2>2 DEF NoneRecent
    <2>4. NoneStarted(st, incidents) \/ st.blind
      BY <1>3, <1>4, <1>5 DEF NoneStarted
    <2>5. st.pc # "create" /\ st.known <= Len(incidents)
      BY <1>2, <1>5
    <2> QED
      BY <1>1, <2>3, <2>4, <2>5, Zenon DEF LookedOf
  <1> QED
    BY <1>6, <1>7

LEMMA LookedStartCheck ==
    ASSUME Typing, Consolidating, NEW w \in Workers, NEW ok \in BOOLEAN, StartCheck(w, ok)
    PROVE  LookedOf(worker'[w], incidents', now)
  <1> DEFINE s == worker[w].order.service
             old == worker[w]
  <1>1. old \in WorkerState /\ old.pc = "check" /\ incidents' = incidents /\ Len(incidents) \in Nat
    BY WorkerHas, LengthBound DEF StartCheck, At
  <1>2. CASE worker'[w].pc = "idle"
    BY <1>2 DEF LookedOf
  <1>3. CASE Goto(w, "suggest")
    <2>1. /\ worker'[w].pc = "suggest" /\ worker'[w].order = old.order
          /\ worker'[w].known = old.known /\ worker'[w].blind = old.blind
      BY <1>1, <1>3 DEF Goto, Typing, TypeOK, WorkerState
    <2>2. /\ old.known <= Len(incidents) /\ (NoneStarted(old, incidents) \/ old.blind)
          /\ NoneRecent(old, incidents, now) \/ old.blind
      BY <1>1 DEF Consolidating, Looked, LookedOf
    <2> QED
      BY <1>1, <2>1, <2>2 DEF LookedOf, NoneStarted, NoneRecent, KnownTo
  <1>4. CASE /\ InState(s, "Started") = {}
             /\ worker' = [worker EXCEPT ![w].pc = "create", ![w].known = Len(incidents)]
    <2>1. /\ worker'[w].pc = "create" /\ worker'[w].order = old.order
          /\ worker'[w].known = Len(incidents)
      BY <1>1, <1>4 DEF Typing, TypeOK, WorkerState
    <2>2. NoneStarted(worker'[w], incidents)
      BY <1>4, <2>1, NothingActive
    <2> QED
      BY <1>1, <2>1, <2>2 DEF LookedOf
  <1> QED
    BY <1>2, <1>3, <1>4, AfterDone DEF StartCheck

LEMMA ConsolidatingHandle ==
    ASSUME Typing, Consolidating, NEW w \in Workers, Handle(w)
    PROVE  Consolidating'
  <1>1. Moves(w) /\ Rest
    BY HandleStep
  <1>2. History(incidents', now') /\ now' = now
    BY <1>1, HistoryGrows DEF Moves, Rest, Consolidating
  <1>3. LookedOf(worker'[w], incidents', now)
    <2>1. ASSUME worker'[w].pc \notin {"suggested", "check", "create", "suggest"}
          PROVE  LookedOf(worker'[w], incidents', now)
      BY <2>1 DEF LookedOf
    <2>2. ASSUME NEW out, Start(w, out) \/ Suggest(w, out)
          PROVE  LookedOf(worker'[w], incidents', now)
      BY <2>1, <2>2, AfterSave, AfterDone DEF Start, Suggest
    <2>3. ASSUME NEW out,
                 Escalate(w, out) \/ NoteByID(w, out) \/ ResolveByID(w, out) \/ FirstNote(w, out)
          PROVE  LookedOf(worker'[w], incidents', now)
      BY <2>1, <2>3, AfterOther
    <2>4. ASSUME Seen(w) \/ Match(w)
          PROVE  LookedOf(worker'[w], incidents', now)
      BY <2>1, <2>4, AfterOther
    <2> QED
      BY <2>2, <2>3, <2>4, LookedFindActive, LookedFindSuggested, LookedStartCheck DEF Handle
  <1>4. ASSUME NEW v \in Workers \ {w} PROVE LookedOf(worker'[v], incidents', now)
    <2>1. worker'[v] = worker[v] /\ worker[v] \in WorkerState
      BY <1>1, WorkerHas DEF Moves, Typing, TypeOK
    <2>2. /\ incidents \in Seq(Incident) /\ incidents' \in Seq(Incident) /\ now \in Nat
          /\ Len(incidents) <= Len(incidents')
          /\ \A i \in 1..Len(incidents) : Ages(incidents[i], incidents'[i])
      BY <1>1, LengthBound, Bounds DEF Moves, Grows, Typing, TypeOK
    <2>3. LookedOf(worker[v], incidents, now) /\ History(incidents, now)
      BY DEF Consolidating, Looked
    <2> QED
      BY <2>1, <2>2, <2>3, StaysKnown
  <1> QED
    BY <1>2, <1>3, <1>4 DEF Consolidating, Looked

LEMMA ConsolidatingStill ==
    ASSUME Typing, Consolidating, Grows(0), UNCHANGED worker, now' \in Nat, now <= now'
    PROVE  Consolidating'
  <1>1. /\ incidents \in Seq(Incident) /\ incidents' \in Seq(Incident) /\ now \in Nat
        /\ Len(incidents) = Len(incidents')
        /\ \A i \in 1..Len(incidents) : Ages(incidents[i], incidents'[i])
    BY LengthBound, Bounds DEF Grows, Typing, TypeOK
  <1>2. Looked'
    BY <1>1, StaysKnown, WorkerHas DEF Consolidating, Looked
  <1>3. History(incidents', now)
    BY HistoryGrows DEF Consolidating
  <1>4. \A i \in 1..Len(incidents') : incidents'[i].created \in Int
    <2>1. \A i \in 1..Len(incidents') : incidents'[i] \in Incident
      BY <1>1
    <2> QED
      BY <2>1 DEF Incident
  <1>5. \A i \in 1..Len(incidents') : incidents'[i].created <= now'
    BY <1>1, <1>3, <1>4 DEF History
  <1> QED
    BY <1>2, <1>3, <1>5 DEF Consolidating, History

LEMMA ConsolidatingNext == Typing /\ Consolidating /\ [Next]_vars => Consolidating'
  <1> SUFFICES ASSUME Typing, Consolidating, [Next]_vars PROVE Consolidating'
    OBVIOUS
  <1>1. now \in Nat
    BY Bounds DEF Typing, TypeOK
  <1>2. ASSUME NEW i \in DOMAIN incidents, Promote(i) \/ ResolveByHand(i) PROVE Consolidating'
    BY <1>1, <1>2, PeopleStep, ConsolidatingStill
  <1>3. CASE Reload \/ Tick \/ UNCHANGED vars
    <2>1. UNCHANGED <<worker, incidents>> /\ now' \in Nat /\ now <= now'
      BY <1>1, <1>3 DEF Reload, Tick, vars
    <2> QED
      BY <2>1, NothingGrows, ConsolidatingStill
  <1>4. ASSUME NEW w \in Workers, NEW a \in Alerts, HandleWebhook(w, a) PROVE Consolidating'
    <2>1. /\ worker'[w].pc = "seen" /\ \A v \in Workers \ {w} : worker'[v] = worker[v]
          /\ UNCHANGED <<now, incidents>>
      BY <1>4 DEF HandleWebhook, Idle, Typing, TypeOK
    <2> QED
      BY <2>1 DEF Consolidating, Looked, LookedOf
  <1> QED
    BY <1>2, <1>3, <1>4, ConsolidatingHandle DEF Next

(***************************************************************************)
(* Consolidation: an alert makes an incident for a flow only when, among   *)
(* the incidents there were at its lookup, none the listener started is    *)
(* active and none suggested is fresh, unless a lookup failed; whatever    *)
(* other workers, reloads and people did since the lookup.                 *)
(***************************************************************************)
THEOREM ConsolidationCorrect == Spec => Consolidated
  <1> DEFINE Step ==
               \A w \in Workers : Creates(w) =>
                  LET known == {i \in Related(worker[w].order.service) :
                                   i <= worker[w].known}
                      started == {i \in known : incidents[i].state = "Started"
                                                /\ incidents[i].via = "auto"}
                      recent == {i \in known : incidents[i].state = "Suggested"
                                               /\ IsFresh(i)}
                  IN  /\ started = {} \/ (At(w, "suggest") /\ worker[w].blind)
                      /\ recent = {} \/ At(w, "create") \/ worker[w].blind
  <1>1. ASSUME Typing, Consolidating PROVE Step
    <2> SUFFICES ASSUME NEW w \in Workers, worker[w].pc \in {"create", "suggest"}
                 PROVE  LET known == {i \in Related(worker[w].order.service) :
                                         i <= worker[w].known}
                            started == {i \in known : incidents[i].state = "Started"
                                                      /\ incidents[i].via = "auto"}
                            recent == {i \in known : incidents[i].state = "Suggested"
                                                     /\ IsFresh(i)}
                        IN  /\ started = {} \/ (At(w, "suggest") /\ worker[w].blind)
                            /\ recent = {} \/ At(w, "create") \/ worker[w].blind
      BY DEF Creates
    <2> DEFINE st == worker[w]
               known == {i \in Related(worker[w].order.service) : i <= worker[w].known}
    <2>1. known = KnownTo(st, incidents)
      BY <1>1, LengthBound DEF KnownTo, Related
    <2>2. NoneStarted(st, incidents) => \A i \in known : ~(incidents[i].state = "Started"
                                                           /\ incidents[i].via = "auto")
      BY <2>1 DEF NoneStarted
    <2>3. NoneRecent(st, incidents, now) => \A i \in known : ~(incidents[i].state = "Suggested"
                                                              /\ IsFresh(i))
      BY <2>1 DEF NoneRecent, IsFresh
    <2>4. LookedOf(st, incidents, now)
      BY <1>1 DEF Consolidating, Looked
    <2> HIDE DEF known
    <2>5. NoneStarted(st, incidents) \/ (st.pc = "suggest" /\ st.blind)
      BY <2>4 DEF LookedOf
    <2>6. NoneRecent(st, incidents, now) \/ st.pc = "create" \/ st.blind
      BY <2>4 DEF LookedOf
    <2> QED
      BY <2>2, <2>3, <2>5, <2>6 DEF At, known
  <1>2. Consolidated <=> [][Step]_vars
    BY DEF Consolidated
  <1> HIDE DEF Step
  <1> QED
    BY <1>1, <1>2, TypingInit, TypingNext, ConsolidatingInit, ConsolidatingNext, PTL DEF Spec

=============================================================================
