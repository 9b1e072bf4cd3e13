-------------------------- MODULE ReportParts_proofs --------------------------
(***************************************************************************)
(* Proofs about the reports of ServiceParts, which add up what incidents   *)
(* cost: the report of toil and the scorecard.                             *)
(***************************************************************************)
EXTENDS ServiceParts, Naturals, SumTheorems

-----------------------------------------------------------------------------
(***************************************************************************)
(* The report of toil.  What a profile spends is what its categories cost  *)
(* together: minutes are added up category by category.  The categories    *)
(* that are suggested are some of these, so they cost no more, and they    *)
(* are all of them when there are no more than are suggested.              *)
(***************************************************************************)
\* The operators of the standard modules that the report has are those of here.
LEMMA ToilOperators ==
    /\ \A S : Toil!Cardinality(S) = Cardinality(S)
    /\ \A f : Toil!SumFunction(f) = SumOver(f, DOMAIN f)
  <1>1. ASSUME NEW S PROVE Toil!Cardinality(S) = Cardinality(S)
    BY Zenon DEF Toil!Cardinality, Cardinality
  <1>2. ASSUME NEW f PROVE Toil!SumFunction(f) = SumFunction(f)
    BY DEF Toil!SumFunction, Toil!SumFunctionOnSet, Toil!FoldFunctionOnSet, Toil!MapThenFoldSet,
       SumFunction, SumFunctionOnSet, FoldFunctionOnSet, MapThenFoldSet
  <1> QED
    BY <1>1, <1>2, SumOfAll

ToilCounts(incs) ==
    /\ IsFiniteSet(incs)
    /\ \A i \in incs : i.minutes \in Nat /\ i.profile \in Profiles /\ i.category \in Categories

\* The minutes of incidents, and of a category, as sums (Total, InCategory).
LEMMA ToilTotals ==
    ASSUME NEW incs, ToilCounts(incs), NEW min, \A i \in incs : min[i] = i.minutes
    PROVE  /\ Toil!Total(incs) = SumOver(min, incs)
           /\ \A c : Toil!InCategory(incs, c) = SumOver(min, {i \in incs : i.category = c})
  <1>1. ASSUME NEW T \in SUBSET incs PROVE Toil!Total(T) = SumOver(min, T)
    <2> DEFINE g == [i \in T |-> i.minutes]
    <2>1. Toil!Total(T) = SumOver(g, T)
      BY ToilOperators DEF Toil!Total
    <2>2. IsFiniteSet(T) /\ \A x \in T : g[x] \in Nat /\ g[x] = min[x]
      BY FS_Subset DEF ToilCounts
    <2>3. SumOver(g, T) = SumOver(min, T)
      <3> HIDE DEF g
      <3> QED
        BY <2>2, SumAgree
    <2> QED
      BY <2>1, <2>3
  <1> QED
    BY <1>1 DEF Toil!InCategory

\* What is spent is the sum of what its categories take; incidents without
\* minutes, which are of no category of the breakdown, take nothing.
LEMMA ToilByCategory ==
    ASSUME NEW incs, ToilCounts(incs), NEW spent,
           spent = [c \in Toil!Spent(incs) |-> Toil!InCategory(incs, c)]
    PROVE  /\ IsFiniteSet(Toil!Spent(incs))
           /\ \A c \in Toil!Spent(incs) : spent[c] \in Nat
           /\ Toil!Total(incs) = SumOver(spent, Toil!Spent(incs))
           /\ Toil!Total(incs) \in Nat
  <1> DEFINE min == [i \in incs |-> i.minutes]
             class == [i \in incs |-> i.category]
             counted == Toil!Counted(incs)
             C == Toil!Spent(incs)
  <1>1. /\ counted \in SUBSET incs /\ IsFiniteSet(incs) /\ IsFiniteSet(counted)
        /\ \A i \in incs : min[i] \in Nat /\ min[i] = i.minutes
        /\ \A i \in incs \ counted : min[i] = 0
        /\ \A i \in counted : class[i] \in C
    BY FS_Subset DEF ToilCounts, Toil!Counted, Toil!Spent
  <1>2. IsFiniteSet(C)
    <2>1. C = {class[i] : i \in counted}
      BY DEF Toil!Counted, Toil!Spent
    <2> HIDE DEF class, counted, C
    <2> QED
      BY <1>1, <2>1, ImageFinite
  <1>3. \A c \in C : SumOver(min, {i \in counted : class[i] = c}) = Toil!InCategory(incs, c)
    <2> SUFFICES ASSUME NEW c \in C
                 PROVE  SumOver(min, {i \in counted : class[i] = c}) = Toil!InCategory(incs, c)
      OBVIOUS
    <2> DEFINE own == {i \in incs : i.category = c}
               part == {i \in counted : class[i] = c}
    <2>1. part \in SUBSET own /\ own \in SUBSET incs /\ \A x \in own \ part : min[x] = 0
      BY <1>1
    <2>2. IsFiniteSet(own) /\ \A x \in own : min[x] \in Nat
      BY <1>1, <2>1, FS_Subset
    <2>3. Toil!InCategory(incs, c) = SumOver(min, own)
      <3> HIDE DEF min
      <3> QED
        BY <1>1, ToilTotals
    <2> HIDE DEF own, part, min
    <2>4. SumOver(min, part) = SumOver(min, own)
      BY <2>1, <2>2, SumSubset
    <2> QED
      BY <2>3, <2>4 DEF part
  <1>4. ClassSums(min, class, C, counted) = spent
    BY <1>3 DEF ClassSums
  <1>5. Toil!Total(incs) = SumOver(min, incs)
    <2> HIDE DEF min
    <2> QED
      BY <1>1, ToilTotals
  <1> HIDE DEF min, class, counted, C
  <1>6. SumOver(min, counted) = SumOver(min, incs)
    BY <1>1, SumSubset
  <1>7. /\ SumOver(ClassSums(min, class, C, counted), C) = SumOver(min, counted)
        /\ \A c \in C : ClassSums(min, class, C, counted)[c] \in Nat
    <2>1. \A i \in counted : min[i] \in Nat /\ class[i] \in C
      BY <1>1
    <2> QED
      BY <1>1, <1>2, <2>1, SumByClass
  <1>8. SumOver(min, incs) \in Nat
    BY <1>1, SumType
  <1> QED
    BY <1>2, <1>4, <1>5, <1>6, <1>7, <1>8 DEF C

LEMMA RateIsNat == ASSUME NEW p \in Profiles PROVE Toil!Rate(p) \in Nat
  BY ToilAssumption DEF Toil!ConstantsAssumption, Toil!Rate

\* The suggestions of one profile (CalculateToilSummary).
LEMMA ToilSavings ==
    ASSUME NEW incs, ToilCounts(incs), NEW rate \in Nat, NEW sorted \in BOOLEAN,
           NEW cats \in Toil!TopOf(incs, sorted)
    PROVE  /\ Toil!Saved(incs, cats, rate) \in Nat
           /\ Toil!Total(incs) * rate \in Nat
           /\ Toil!Saved(incs, cats, rate) <= Toil!Total(incs) * rate
           /\ Cardinality(Toil!Spent(incs)) <= Top
                 => Toil!Saved(incs, cats, rate) = Toil!Total(incs) * rate
  <1> DEFINE spent == [c \in Toil!Spent(incs) |-> Toil!InCategory(incs, c)]
             money == [c \in cats |-> Toil!InCategory(incs, c) * rate]
             C == Toil!Spent(incs)
  <1>1. /\ IsFiniteSet(C) /\ \A c \in C : spent[c] \in Nat
        /\ Toil!Total(incs) = SumOver(spent, C)
        /\ Toil!Total(incs) \in Nat
    <2>1. spent = [c \in C |-> Toil!InCategory(incs, c)]
      OBVIOUS
    <2> HIDE DEF spent
    <2> QED
      BY <2>1, ToilByCategory
  <1>2. /\ cats \in SUBSET C
        /\ Cardinality(cats) = IF Cardinality(C) < Top THEN Cardinality(C) ELSE Top
    BY ToilOperators DEF Toil!TopOf
  <1>3. Toil!Saved(incs, cats, rate) = SumOver(money, cats)
    BY ToilOperators DEF Toil!Saved
  <1>4. IsFiniteSet(cats) /\ \A c \in cats : spent[c] \in Nat /\ money[c] = spent[c] * rate
    BY <1>1, <1>2, FS_Subset
  <1>5. Cardinality(C) <= Top => cats = C
    <2>1. Cardinality(C) \in Nat /\ Top \in Nat
      BY <1>1, FS_CardinalityType, ToilAssumption DEF Toil!ConstantsAssumption
    <2>2. Cardinality(C) <= Top => Cardinality(cats) = Cardinality(C)
      BY <1>2, <2>1
    <2> HIDE DEF C
    <2> QED
      BY <1>1, <1>2, <2>2, FS_Subset
  <1> HIDE DEF spent, money, C
  <1>6. SumOver(money, cats) = SumOver(spent, cats) * rate
    BY <1>4, SumScaled
  <1>7. SumOver(spent, cats) <= SumOver(spent, C)
    BY <1>1, <1>2, SumSubset
  <1>8. SumOver(spent, cats) \in Nat
    BY <1>4, SumType
  <1>9. /\ SumOver(spent, cats) * rate \in Nat /\ Toil!Total(incs) * rate \in Nat
        /\ SumOver(spent, cats) * rate <= Toil!Total(incs) * rate
    BY <1>1, <1>7, <1>8
  <1> QED
    BY <1>1, <1>3, <1>5, <1>6, <1>9 DEF C

\* What a report says is of the right types, and adds up.
ToilReported(summary) ==
    /\ DOMAIN summary.breakdown \subseteq Categories
    /\ DOMAIN summary.suggested \subseteq DOMAIN summary.breakdown
    /\ \A c \in DOMAIN summary.suggested : summary.suggested[c].confidence \in 1..4
    /\ summary.savings <= summary.cost
    /\ Cardinality(DOMAIN summary.breakdown) <= Top => summary.savings = summary.cost

\* There is always some evidence, if only of the lowest confidence.
LEMMA ToilEvidence == \A incs, c : Toil!Evidence(incs, c).confidence \in 1..4
  <1>1. \A source : Toil!Confidence(source) \in 1..4
    BY DEF Toil!Confidence
  <1> QED
    BY <1>1 DEF Toil!Evidence

\* The categories that are spent on, and suggested.
LEMMA ToilCategories ==
    ASSUME NEW incs, ToilCounts(incs), NEW sorted \in BOOLEAN, NEW cats \in Toil!TopOf(incs, sorted)
    PROVE  Toil!Spent(incs) \subseteq Categories /\ cats \subseteq Toil!Spent(incs)
  BY DEF ToilCounts, Toil!Spent, Toil!Counted, Toil!TopOf

\* A report of a profile (toil list, compare and verify).
LEMMA ToilOfProfile ==
    ASSUME NEW incs, ToilCounts(incs), NEW p \in Profiles,
           NEW summary \in Toil!Summaries(p, incs)
    PROVE  ToilReported(summary)
  <1>1. PICK cats \in Toil!TopOf(incs, TRUE) : summary = Toil!SummaryOf(p, incs, cats)
    BY DEF Toil!Summaries
  <1>2. /\ summary.savings = Toil!Saved(incs, cats, Toil!Rate(p))
        /\ summary.cost = Toil!Total(incs) * Toil!Rate(p)
        /\ DOMAIN summary.breakdown = Toil!Spent(incs)
        /\ summary.suggested = [c \in cats |-> Toil!Evidence(incs, c)]
    BY <1>1 DEF Toil!SummaryOf
  <1>3. /\ Toil!Saved(incs, cats, Toil!Rate(p)) <= Toil!Total(incs) * Toil!Rate(p)
        /\ Cardinality(Toil!Spent(incs)) <= Top
              => Toil!Saved(incs, cats, Toil!Rate(p)) = Toil!Total(incs) * Toil!Rate(p)
    BY RateIsNat, ToilSavings
  <1> QED
    BY <1>2, <1>3, ToilEvidence, ToilCategories DEF ToilReported

\* A report of all profiles adds up theirs, and no profile has a category that is
\* not in the breakdown (toil list and toil report of the organization).
LEMMA ToilOfOrganization ==
    ASSUME NEW incs, ToilCounts(incs), NEW summary \in Toil!OrgSummaries(incs)
    PROVE  ToilReported(summary)
  <1> DEFINE of(p) == {i \in incs : i.profile = p}
             parts == {i.profile : i \in incs}
             C == Toil!Spent(incs)
  <1>1. PICK choice \in [Profiles -> SUBSET Categories], cats \in Toil!TopOf(incs, FALSE) :
           /\ \A p \in Profiles : choice[p] \in Toil!TopOf(of(p), TRUE)
           /\ summary = Toil!OrgOf(incs, choice, cats)
    BY DEF Toil!OrgSummaries, Toil!Choices
  <1> DEFINE cost == [p \in parts |-> Toil!Total(of(p)) * Toil!Rate(p)]
             savings == [p \in parts |-> Toil!Saved(of(p), choice[p], Toil!Rate(p))]
  <1>2. /\ summary.cost = SumOver(cost, parts) /\ summary.savings = SumOver(savings, parts)
        /\ DOMAIN summary.breakdown = C
        /\ summary.suggested = [c \in cats |-> Toil!Evidence(incs, c)]
    BY <1>1, ToilOperators DEF Toil!OrgOf
  <1>3. parts \subseteq Profiles /\ IsFiniteSet(parts)
    <2> DEFINE profile == [i \in incs |-> i.profile]
    <2>1. parts = {profile[i] : i \in incs} /\ IsFiniteSet(incs)
      BY DEF ToilCounts
    <2>2. parts \subseteq Profiles
      BY DEF ToilCounts
    <2> HIDE DEF profile, parts
    <2> QED
      BY <2>1, <2>2, ImageFinite
  <1>4. ASSUME NEW p \in parts
        PROVE  /\ cost[p] \in Nat /\ savings[p] \in Nat /\ savings[p] <= cost[p]
               /\ Cardinality(C) <= Top => savings[p] = cost[p]
    <2>1. of(p) \in SUBSET incs /\ ToilCounts(of(p))
      BY FS_Subset DEF ToilCounts
    <2>2. Cardinality(C) <= Top => Cardinality(Toil!Spent(of(p))) <= Top
      <3>1. Toil!Spent(of(p)) \in SUBSET C
        BY DEF Toil!Spent, Toil!Counted
      <3>2. IsFiniteSet(C) /\ IsFiniteSet(Toil!Spent(of(p)))
        BY <2>1, ToilByCategory
      <3>3. Cardinality(Toil!Spent(of(p))) <= Cardinality(C)
        BY <3>1, <3>2, FS_Subset
      <3>4. Cardinality(C) \in Nat /\ Cardinality(Toil!Spent(of(p))) \in Nat /\ Top \in Nat
        BY <3>2, FS_CardinalityType, ToilAssumption DEF Toil!ConstantsAssumption
      <3> QED
        BY <3>3, <3>4
    <2>3. Toil!Rate(p) \in Nat /\ choice[p] \in Toil!TopOf(of(p), TRUE)
      BY <1>1, <1>3, RateIsNat
    <2> HIDE DEF of
    <2> QED
      BY <2>1, <2>2, <2>3, ToilSavings
  <1> HIDE DEF cost, savings, parts
  <1>5. SumOver(savings, parts) <= SumOver(cost, parts)
    BY <1>3, <1>4, SumLess
  <1>6. Cardinality(C) <= Top => SumOver(savings, parts) = SumOver(cost, parts)
    BY <1>3, <1>4, SumAgree
  <1> QED
    BY <1>2, <1>5, <1>6, ToilEvidence, ToilCategories DEF ToilReported

\* What reports can be about: incidents are numbered in the order they come, so
\* that they stay as many as there are numbers.
ToilTyping ==
    /\ toilNow \in 0..ToilTime
    /\ ToilCounts(toilIncidents)
    /\ Cardinality(toilIncidents) <= MaxIncidents
    /\ toilShown # None => ToilReported(toilShown.summary)

LEMMA ToilTypingInit == Toil!Init => ToilTyping
  BY FS_EmptySet, ToilAssumption
  DEF Toil!Init, ToilTyping, ToilCounts, Toil!ConstantsAssumption

LEMMA ToilTypingResolve ==
    ASSUME ToilTyping, NEW p \in Profiles, NEW s, NEW c \in Categories, NEW m \in Minutes,
           NEW e, Toil!Resolve(p, s, c, m, e)
    PROVE  ToilTyping'
  <1> DEFINE new == [id |-> Cardinality(toilIncidents), profile |-> p, service |-> s,
                     category |-> c, minutes |-> m, source |-> e, at |-> toilNow]
  <1>1. /\ toilIncidents' = toilIncidents \cup {new}
        /\ Cardinality(toilIncidents) < MaxIncidents
        /\ UNCHANGED <<toilNow, toilShown>>
    BY ToilOperators DEF Toil!Resolve
  <1>2. new.profile \in Profiles /\ new.category \in Categories /\ new.minutes \in Nat
    BY ToilAssumption DEF Toil!ConstantsAssumption
  <1> HIDE DEF new
  <1>3. /\ IsFiniteSet(toilIncidents') /\ Cardinality(toilIncidents) \in Nat
        /\ Cardinality(toilIncidents') <= Cardinality(toilIncidents) + 1
    <2>1. IsFiniteSet(toilIncidents)
      BY DEF ToilTyping, ToilCounts
    <2>2. Cardinality(toilIncidents) \in Nat
      BY <2>1, FS_CardinalityType
    <2>3. /\ IsFiniteSet(toilIncidents \cup {new})
          /\ Cardinality(toilIncidents \cup {new})
                \in {Cardinality(toilIncidents), Cardinality(toilIncidents) + 1}
      BY <2>1, FS_AddElement, Zenon
    <2> QED
      BY <1>1, <2>2, <2>3
  <1>4. Cardinality(toilIncidents') <= MaxIncidents
    <2>1. Cardinality(toilIncidents') \in Nat /\ MaxIncidents \in Nat
      BY <1>3, FS_CardinalityType, ToilAssumption DEF Toil!ConstantsAssumption
    <2> QED
      BY <1>1, <1>3, <2>1
  <1>5. ToilCounts(toilIncidents')
    BY <1>1, <1>2, <1>3 DEF ToilTyping, ToilCounts
  <1> QED
    BY <1>1, <1>4, <1>5 DEF ToilTyping

\* Whatever a report is about, and of which incidents.
LEMMA ToilTypingShow ==
    ASSUME ToilTyping, NEW scope, NEW incs, NEW summaries, Toil!Show(scope, incs, summaries),
           \A s \in summaries : ToilReported(s)
    PROVE  ToilTyping'
  <1>1. PICK s \in summaries : toilShown' = [scope |-> scope, of |-> incs, summary |-> s]
    BY DEF Toil!Show
  <1>2. toilShown'.summary = s
    BY <1>1
  <1> QED
    BY <1>2 DEF ToilTyping, Toil!Show

LEMMA ToilTypingNext == ToilTyping /\ [Toil!Next]_(Toil!vars) => ToilTyping'
  <1> SUFFICES ASSUME ToilTyping, [Toil!Next]_(Toil!vars) PROVE ToilTyping'
    OBVIOUS
  <1>0. \A incs \in SUBSET toilIncidents : ToilCounts(incs)
    BY FS_Subset DEF ToilTyping, ToilCounts
  <1>1. CASE Toil!Tick
    <2>1. toilNow' \in 0..ToilTime
      BY <1>1, ToilAssumption DEF Toil!Tick, ToilTyping, Toil!ConstantsAssumption
    <2> QED
      BY <1>1, <2>1 DEF Toil!Tick, ToilTyping
  <1>2. ASSUME NEW p \in Profiles, NEW s \in ToilServices, NEW c \in Categories,
               NEW m \in Minutes, NEW e \in Sources, Toil!Resolve(p, s, c, m, e)
        PROVE  ToilTyping'
    BY <1>2, ToilTypingResolve
  <1>3. ASSUME NEW p \in Profiles, Toil!ListProfile(p) PROVE ToilTyping'
    <2> DEFINE incs == {i \in Toil!Recent : i.profile = p}
    <2>1. incs \in SUBSET toilIncidents /\ Toil!Show(p, incs, Toil!Summaries(p, incs))
      BY <1>3 DEF Toil!ListProfile, Toil!Recent
    <2> HIDE DEF incs
    <2>2. \A s \in Toil!Summaries(p, incs) : ToilReported(s)
      BY <1>0, <2>1, ToilOfProfile
    <2> QED
      BY <2>1, <2>2, ToilTypingShow
  <1>4. ASSUME NEW p \in Profiles, Toil!ReportAll(p) PROVE ToilTyping'
    <2> DEFINE incs == {i \in toilIncidents : i.profile = p}
    <2>1. incs \in SUBSET toilIncidents /\ Toil!Show("organization", incs, Toil!OrgSummaries(incs))
      BY <1>4 DEF Toil!ReportAll
    <2> HIDE DEF incs
    <2>2. \A s \in Toil!OrgSummaries(incs) : ToilReported(s)
      BY <1>0, <2>1, ToilOfOrganization
    <2> QED
      BY <2>1, <2>2, ToilTypingShow
  <1>5. ASSUME NEW i \in toilIncidents, Toil!ListIncident(i) PROVE ToilTyping'
    <2>1. {i} \in SUBSET toilIncidents /\ i.profile \in Profiles
          /\ Toil!Show(i.profile, {i}, Toil!Summaries(i.profile, {i}))
      BY <1>5 DEF Toil!ListIncident, ToilTyping, ToilCounts
    <2>2. \A s \in Toil!Summaries(i.profile, {i}) : ToilReported(s)
      BY <1>0, <2>1, ToilOfProfile
    <2> QED
      BY <2>1, <2>2, ToilTypingShow
  <1>6. CASE Toil!ListAll
    <2> DEFINE incs == Toil!Recent
    <2>1. incs \in SUBSET toilIncidents /\ Toil!Show("organization", incs, Toil!OrgSummaries(incs))
      BY <1>6 DEF Toil!ListAll, Toil!Recent
    <2> HIDE DEF incs
    <2>2. \A s \in Toil!OrgSummaries(incs) : ToilReported(s)
      BY <1>0, <2>1, ToilOfOrganization
    <2> QED
      BY <2>1, <2>2, ToilTypingShow
  <1>7. CASE UNCHANGED Toil!vars
    BY <1>7 DEF Toil!vars, ToilTyping
  <1> QED
    BY <1>1, <1>2, <1>3, <1>4, <1>5, <1>6, <1>7 DEF Toil!Next

(***************************************************************************)
(* Every variable keeps its type: a report breaks down what was spent by   *)
(* the categories there are, and suggests some of these.                   *)
(***************************************************************************)
THEOREM ToilTypeCorrect == Toil!Spec => []Toil!TypeOK
  <1>1. ToilTyping => Toil!TypeOK
    BY ToilOperators DEF ToilTyping, ToilReported, Toil!TypeOK
  <1> QED
    BY <1>1, ToilTypingInit, ToilTypingNext, PTL DEF Toil!Spec

(***************************************************************************)
(* No report of toil promises to save more than was spent, at any rates,   *)
(* with any number of profiles, categories and incidents; and all of it    *)
(* could be saved when all categories are suggested.                       *)
(***************************************************************************)
THEOREM SavingsCorrect == Toil!Spec => []SavingsWithinCost
  <1>1. ToilTyping => SavingsWithinCost
    BY ToilOperators DEF ToilTyping, ToilReported, SavingsWithinCost, Toil!SavingsWithinCost
  <1> QED
    BY <1>1, ToilTypingInit, ToilTypingNext, PTL DEF Toil!Spec

-----------------------------------------------------------------------------
(***************************************************************************)
(* The scorecard.  Every number it computes is of the stores as they are;  *)
(* that percentages are percentages rests on what the stores hold: an      *)
(* incident that is over was not over before it began, and a month is not  *)
(* empty.                                                                  *)
(***************************************************************************)

\* The operators of the standard modules that the scorecard has are those of here.
LEMMA ScoreOperators ==
    /\ \A S : Score!Cardinality(S) = Cardinality(S)
    /\ \A S : Score!IsFiniteSet(S) <=> IsFiniteSet(S)
    /\ \A f : Score!SumFunction(f) = SumOver(f, DOMAIN f)
  <1>1. ASSUME NEW S PROVE Score!Cardinality(S) = Cardinality(S)
    BY Zenon DEF Score!Cardinality, Cardinality
  <1>2. ASSUME NEW S PROVE Score!IsFiniteSet(S) <=> IsFiniteSet(S)
    BY Zenon DEF Score!IsFiniteSet, IsFiniteSet
  <1>3. ASSUME NEW f PROVE Score!SumFunction(f) = SumFunction(f)
    BY DEF Score!SumFunction, Score!SumFunctionOnSet, Score!FoldFunctionOnSet,
       Score!MapThenFoldSet, SumFunction, SumFunctionOnSet, FoldFunctionOnSet, MapThenFoldSet
  <1> QED
    BY <1>1, <1>2, <1>3, SumOfAll

ScoreIncident(t) ==
    [id : Nat, profile : Profiles, service : Services, severity : {k.severity : k \in Kinds},
     from : 0..t, to : (0..t) \cup {None}, toil : Nat]
ScoreItem(t) == [id : Nat, profile : Profiles, service : Services, done : (0..t) \cup {None}]
ScoreEntry(t) == [services : SUBSET Services, at : 0..t]

ScoreTyping ==
    /\ scoreNow \in 0..MaxTime /\ reports \in 0..MaxReports /\ active \in Profiles
    /\ incidents \subseteq ScoreIncident(scoreNow) /\ IsFiniteSet(incidents)
    /\ Cardinality(incidents) <= MaxIncidents
    /\ \A i \in incidents : i.to # None => i.from <= i.to
    /\ items \subseteq ScoreItem(scoreNow) /\ IsFiniteSet(items)
    /\ Cardinality(items) <= MaxItems
    /\ shown # None => shown.services \subseteq Services
    /\ cache \in [Profiles -> [Score!Months -> {None} \cup ScoreEntry(scoreNow)]]

\* A part of a whole is between 0 and 100 per cent of it (Percent).
LEMMA PercentBound ==
    ASSUME NEW part \in Nat, NEW whole \in Nat, part <= whole
    PROVE  Score!Percent(part, whole) \in 0..100
  <1>1. CASE whole = 0
    BY <1>1 DEF Score!Percent
  <1>2. CASE whole # 0
    <2>1. 100 * part <= 100 * whole /\ 100 * part \in Nat /\ whole \in Nat \ {0}
      BY <1>2
    <2>2. (100 * part) \div whole \in 0..100
      BY <2>1
    <2> QED
      BY <1>2, <2>2 DEF Score!Percent
  <1> QED
    BY <1>1, <1>2

\* The same of sets, one of them a part of the other.
LEMMA ShareBound ==
    ASSUME NEW S, IsFiniteSet(S), NEW T \in SUBSET S
    PROVE  Score!Percent(Score!Cardinality(T), Score!Cardinality(S)) \in 0..100
  <1>1. /\ Cardinality(T) \in Nat /\ Cardinality(S) \in Nat
        /\ Cardinality(T) <= Cardinality(S)
    BY FS_Subset, FS_CardinalityType
  <1> QED
    BY <1>1, PercentBound, ScoreOperators

\* The average of percentages is one (Average).
LEMMA AverageBound ==
    ASSUME NEW f, IsFiniteSet(DOMAIN f), \A x \in DOMAIN f : f[x] \in 0..100,
           NEW default \in 0..100
    PROVE  Score!Average(f, default) \in 0..100
  <1>1. CASE DOMAIN f = {}
    BY <1>1 DEF Score!Average
  <1>2. CASE DOMAIN f # {}
    <2>1. Cardinality(DOMAIN f) \in Nat /\ Cardinality(DOMAIN f) # 0
      BY <1>2, FS_CardinalityType, FS_EmptySet
    <2>2. SumOver(f, DOMAIN f) \in Nat
      BY SumType
    <2>3. SumOver(f, DOMAIN f) <= 100 * Cardinality(DOMAIN f)
      BY SumBound
    <2>4. SumOver(f, DOMAIN f) \div Cardinality(DOMAIN f) \in 0..100
      BY <2>1, <2>2, <2>3
    <2> QED
      BY <1>2, <2>4, ScoreOperators DEF Score!Average
  <1> QED
    BY <1>1, <1>2

\* How long an incident has lasted is a number (Until).
LEMMA DurationType ==
    ASSUME ScoreTyping, NEW i \in incidents
    PROVE  Score!Until(i) - i.from \in Nat
  BY DEF ScoreTyping, ScoreIncident, Score!Until

\* The incidents a report is about are some of the store (Monthly, Outages).
LEMMA DowntimeType ==
    ASSUME ScoreTyping, NEW s, NEW incs \in SUBSET incidents
    PROVE  /\ Score!Downtime(s, incs) \in Nat
           /\ Score!Availability(s, incs) \in 0..100
  <1> DEFINE outages == Score!Outages(s, incs)
             lasted == [i \in outages |-> Score!Until(i) - i.from]
  <1>1. outages \in SUBSET incidents /\ IsFiniteSet(outages)
    <2>1. outages \in SUBSET incidents
      BY DEF Score!Outages
    <2> QED
      BY <2>1, FS_Subset DEF ScoreTyping
  <1>2. \A i \in outages : lasted[i] \in Nat
    BY <1>1, DurationType
  <1>3. Score!Downtime(s, incs) = SumOver(lasted, outages)
    BY ScoreOperators DEF Score!Downtime
  <1>4. SumOver(lasted, outages) \in Nat
    <2> HIDE DEF outages, lasted
    <2> QED
      BY <1>1, <1>2, SumType
  <1>5. Score!Positive(MonthLength, Score!Downtime(s, incs)) \in 0..MonthLength
    BY <1>3, <1>4, ScoreAssumption DEF Score!Positive, Score!ConstantsAssumption
  <1>6. Score!Availability(s, incs) \in 0..100
    BY <1>5, PercentBound, ScoreAssumption DEF Score!Availability, Score!ConstantsAssumption
  <1> QED
    BY <1>3, <1>4, <1>6

\* The services of flows (InFlows).
LEMMA InFlowsType ==
    ASSUME NEW a \in Profiles, NEW target PROVE Score!InFlows(a, target) \in SUBSET Services
  BY ScoreAssumption DEF Score!InFlows, Score!FlowsFor, Score!ConstantsAssumption

\* What is listed are services, so these are finitely many (Listed).
LEMMA ListedType ==
    ASSUME ScoreTyping, NEW p, NEW a \in Profiles, NEW target, NEW m
    PROVE  /\ Score!Monthly(p, target, m) \in SUBSET incidents
           /\ Score!Listed(p, a, target, m) \in SUBSET Services
           /\ IsFiniteSet(Score!Listed(p, a, target, m))
  <1>1. Score!Monthly(p, target, m) \in SUBSET incidents
    BY DEF Score!Monthly
  <1>2. \A i \in incidents : i.service \in Services
    BY DEF ScoreTyping, ScoreIncident
  <1>3. Score!Listed(p, a, target, m) \in SUBSET Services
    BY <1>1, <1>2, InFlowsType DEF Score!Listed
  <1>4. IsFiniteSet(Services)
    BY ScoreAssumption, ScoreOperators DEF Score!ConstantsAssumption
  <1> QED
    BY <1>1, <1>3, <1>4, FS_Subset

\* A score is a percentage, since its three parts are (ScoreOf, Score).
LEMMA ScoreBound ==
    ASSUME ScoreTyping, NEW p, NEW a \in Profiles, NEW target, NEW m
    PROVE  /\ Score!ScoreOf(p, a, target, m) \in 0..100
           /\ Score!Score(p, a, target, m) \in 0..100
  <1> DEFINE incs == Score!Monthly(p, target, m)
             f == [s \in Score!Listed(p, a, target, m) |-> Score!Availability(s, incs)]
             avail == Score!Average(f, 100)
             completed == Score!Percent(Score!Cardinality(Score!Completed(Score!Rows(p, m))),
                                        Score!Cardinality(Score!Rows(p, m)))
  <1>1. avail \in 0..100
    <2>1. /\ IsFiniteSet(DOMAIN f)
          /\ \A x \in DOMAIN f : f[x] \in 0..100
      BY ListedType, DowntimeType
    <2> HIDE DEF f
    <2> QED
      BY <2>1, AverageBound
  <1>2. completed \in 0..100
    <2>1. Score!Rows(p, m) \in SUBSET items /\ IsFiniteSet(items)
      BY DEF Score!Rows, ScoreTyping
    <2>2. IsFiniteSet(Score!Rows(p, m))
      BY <2>1, FS_Subset
    <2>3. Score!Completed(Score!Rows(p, m)) \in SUBSET Score!Rows(p, m)
      BY DEF Score!Completed
    <2> QED
      BY <2>2, <2>3, ShareBound
  <1>3. Score!Compliance({}, {}) \in 0..100
    BY FS_EmptySet, ShareBound DEF Score!Compliance
  <1>4. Score!ScoreOf(p, a, target, m) =
           (40 * avail + 40 * Score!Compliance({}, {}) + 20 * completed) \div 100
    BY DEF Score!ScoreOf
  <1> DEFINE compliance == Score!Compliance({}, {})
  <1>5. compliance \in 0..100
    BY <1>3
  <1>6. (40 * avail + 40 * compliance + 20 * completed) \div 100 \in 0..100
    <2> HIDE DEF avail, completed, compliance
    <2> QED
      BY <1>1, <1>2, <1>5
  <1>7. Score!ScoreOf(p, a, target, m) \in 0..100
    BY <1>4, <1>6
  <1> QED
    BY <1>7 DEF Score!Score

\* The rank among the profiles, which are finitely many (Position).
LEMMA PositionBound ==
    ASSUME NEW p \in Profiles, NEW a, NEW target, NEW m
    PROVE  Score!Position(p, a, target, m) \in 1..Score!Cardinality(Profiles)
  <1> DEFINE better == {o \in Profiles \ {p} :
                          /\ ~(m < Created[o])
                          /\ Score!ScoreOf(p, a, target, m) > Score!Score(p, a, target, m)}
  <1>1. IsFiniteSet(Profiles)
    BY ScoreAssumption, ScoreOperators DEF Score!ConstantsAssumption
  <1>2. better \in SUBSET (Profiles \ {p})
    OBVIOUS
  <1>3. /\ IsFiniteSet(Profiles \ {p})
        /\ Cardinality(Profiles \ {p}) = Cardinality(Profiles) - 1
    BY <1>1, FS_RemoveElement
  <1>4. Cardinality(better) <= Cardinality(Profiles \ {p}) /\ IsFiniteSet(better)
    <2> HIDE DEF better
    <2> QED
      BY <1>2, <1>3, FS_Subset
  <1>5. Cardinality(better) \in Nat /\ Cardinality(Profiles) \in Nat
    <2> HIDE DEF better
    <2> QED
      BY <1>1, <1>4, FS_CardinalityType
  <1>6. Score!Position(p, a, target, m) = 1 + Cardinality(better)
    BY ScoreOperators DEF Score!Position
  <1>7. Score!Cardinality(Profiles) = Cardinality(Profiles)
    BY ScoreOperators
  <1> HIDE DEF better
  <1> QED
    BY <1>3, <1>4, <1>5, <1>6, <1>7

\* The score of the organization is the average of its profiles' scores, by the
\* number of services each has (OrgScore).
LEMMA OrgScoreBound ==
    ASSUME ScoreTyping, NEW m PROVE Score!OrgScore(m) \in 0..100
  <1> DEFINE in == Score!Included(m)
             weight == [p \in in |-> Score!Weight(p, m)]
             of == [p \in in |-> Score!ScoreOf(p, active, None, m)]
             weighted == [p \in in |-> Score!Weight(p, m) * Score!ScoreOf(p, active, None, m)]
             all == [p \in in |-> Score!Weight(p, m) * 100]
  <1>1. in \in SUBSET Profiles /\ IsFiniteSet(in)
    <2>1. IsFiniteSet(Profiles) /\ in \in SUBSET Profiles
      BY ScoreAssumption, ScoreOperators DEF Score!ConstantsAssumption, Score!Included
    <2> QED
      BY <2>1, FS_Subset
  <1>2. active \in Profiles
    BY DEF ScoreTyping
  <1>3. ASSUME NEW p \in in
        PROVE  /\ weight[p] \in Nat /\ weight[p] = Score!Weight(p, m)
               /\ of[p] \in 0..100 /\ of[p] = Score!ScoreOf(p, active, None, m)
    <2>1. IsFiniteSet(Score!Listed(p, active, None, m))
      BY <1>2, ListedType
    <2>2. Score!Weight(p, m) \in Nat
      BY <2>1, FS_CardinalityType, ScoreOperators DEF Score!Weight
    <2>3. Score!ScoreOf(p, active, None, m) \in 0..100
      BY <1>2, ScoreBound
    <2> QED
      BY <2>2, <2>3
  <1>4. ASSUME NEW p \in in
        PROVE  /\ weighted[p] \in Nat /\ all[p] \in Nat /\ weighted[p] <= all[p]
               /\ weight[p] \in Nat /\ all[p] = weight[p] * 100
    <2> DEFINE w == Score!Weight(p, m)
               x == Score!ScoreOf(p, active, None, m)
    <2>1. w \in Nat /\ x \in 0..100
      BY <1>3
    <2>2. w * x \in Nat /\ w * 100 \in Nat /\ w * x <= w * 100
      <3> HIDE DEF w, x
      <3> QED
        BY <2>1
    <2> QED
      BY <2>1, <2>2
  <1>5. Score!OrgScore(m) =
           IF in = {} THEN 0
           ELSE IF SumOver(weight, in) > 0 THEN SumOver(weighted, in) \div SumOver(weight, in)
           ELSE Score!Average(of, 0)
    BY ScoreOperators DEF Score!OrgScore
  <1>6. Score!Average(of, 0) \in 0..100
    <2>1. DOMAIN of = in /\ \A p \in DOMAIN of : of[p] \in 0..100
      BY <1>3
    <2> HIDE DEF of
    <2> QED
      BY <1>1, <2>1, AverageBound
  <1> HIDE DEF in, weight, of, weighted, all
  <1>7. /\ SumOver(weighted, in) <= SumOver(all, in)
        /\ SumOver(all, in) = SumOver(weight, in) * 100
        /\ SumOver(weighted, in) \in Nat /\ SumOver(weight, in) \in Nat
    BY <1>1, <1>4, SumLess, SumScaled, SumType
  <1>8. SumOver(weight, in) > 0 => SumOver(weighted, in) \div SumOver(weight, in) \in 0..100
    BY <1>7
  <1> QED
    BY <1>5, <1>6, <1>8

\* Without incidents there is no toil, and no target is missed (OverTarget).
LEMMA NoToilOfNone == ASSUME Score!OverTarget({}) PROVE FALSE
  <1>1. Score!ToilHours({}) = 0
    <2> DEFINE f == [i \in {} |-> i.toil]
    <2>1. Score!ToilHours({}) = SumOver(f, {})
      BY ScoreOperators DEF Score!ToilHours
    <2> QED
      BY <2>1, SumEmpty
  <1>2. Capacity \in Nat /\ ToilTarget \in Nat
    BY ScoreAssumption DEF Score!ConstantsAssumption
  <1>3. Score!ToilPercent({}) = 0
    BY <1>1, <1>2 DEF Score!ToilPercent
  <1> QED
    BY <1>2, <1>3 DEF Score!OverTarget

\* All that the reports compute is in range.
LEMMA ScoreInRange == ScoreTyping => Score!TypeOK
  <1> SUFFICES ASSUME ScoreTyping PROVE Score!TypeOK
    OBVIOUS
  <1>1. ASSUME NEW p \in Profiles, NEW t \in Score!Targets, NEW m \in Score!Months
        PROVE  /\ Score!Score(p, p, t, m) \in 0..100
               /\ Score!Position(p, p, t, m) \in 1..Score!Cardinality(Profiles)
               /\ \A s \in Score!Listed(p, p, t, m) :
                     Score!Summary(s, p, t, m).availability \in 0..100
    <2>1. ASSUME NEW s PROVE Score!Summary(s, p, t, m).availability \in 0..100
      BY ListedType, DowntimeType DEF Score!Summary
    <2> QED
      BY <2>1, ScoreBound, PositionBound
  <1>2. ASSUME NEW m \in Score!Months
        PROVE  /\ Score!OrgScore(m) \in 0..100
               /\ \A h \in Score!Hotspots(m) : h.profile \in Score!Included(m)
               /\ Score!OverTarget(Score!OrgIncidents(m)) => Score!OrgIncidents(m) # {}
    <2>1. ASSUME NEW h \in Score!Hotspots(m) PROVE h.profile \in Score!Included(m)
      <3> DEFINE P1s(q) == {i \in Score!OrgIncidents(m) :
                              i.profile = q[1] /\ i.service = q[2] /\ i.severity = "P1"}
      <3>1. PICK q \in Profiles \X Services : h.profile = q[1] /\ P1s(q) # {}
        <4>1. PICK q \in {r \in Profiles \X Services : P1s(r) # {}} :
                 h = [profile |-> q[1], service |-> q[2],
                      status |-> IF Score!Cardinality(P1s(q)) > 2 THEN "Critical" ELSE "At Risk"]
          BY DEF Score!Hotspots
        <4> QED
          BY <4>1
      <3>2. PICK i \in Score!OrgIncidents(m) : i.profile = h.profile
        BY <3>1
      <3> QED
        BY <3>2 DEF Score!OrgIncidents, Score!Monthly
    <2> QED
      BY <2>1, OrgScoreBound, NoToilOfNone
  <1>3. \A p \in Profiles, m \in Score!Months : cache[p][m] # None => cache[p][m].at <= scoreNow
    BY DEF ScoreTyping, ScoreEntry
  <1>4. Score!Cardinality(incidents) <= MaxIncidents /\ Score!Cardinality(items) <= MaxItems
    BY ScoreOperators DEF ScoreTyping
  <1> QED
    BY <1>1, <1>2, <1>3, <1>4 DEF ScoreTyping, Score!TypeOK

LEMMA ScoreTypingInit == Score!Init => ScoreTyping
  <1> SUFFICES ASSUME Score!Init PROVE ScoreTyping
    OBVIOUS
  <1>1. /\ MaxTime \in Nat /\ MaxReports \in Nat /\ MaxIncidents \in Nat /\ MaxItems \in Nat
    BY ScoreAssumption DEF Score!ConstantsAssumption
  <1>2. IsFiniteSet({}) /\ Cardinality({}) = 0
    BY FS_EmptySet
  <1> QED
    BY <1>1, <1>2 DEF Score!Init, ScoreTyping

\* What was in the past stays there.
LEMMA ScoreTypingTick == ASSUME ScoreTyping, Score!Tick PROVE ScoreTyping'
  <1>1. /\ scoreNow' \in 0..MaxTime /\ 0..scoreNow \subseteq 0..scoreNow'
        /\ UNCHANGED <<incidents, items, active, cache, shown, reports>>
    BY ScoreAssumption DEF Score!Tick, ScoreTyping, Score!ConstantsAssumption
  <1>2. /\ ScoreIncident(scoreNow) \subseteq ScoreIncident(scoreNow')
        /\ ScoreItem(scoreNow) \subseteq ScoreItem(scoreNow')
        /\ ScoreEntry(scoreNow) \subseteq ScoreEntry(scoreNow')
    BY <1>1 DEF ScoreIncident, ScoreItem, ScoreEntry
  <1>3. cache' \in [Profiles -> [Score!Months -> {None} \cup ScoreEntry(scoreNow')]]
    <2>1. cache \in [Profiles -> [Score!Months -> {None} \cup ScoreEntry(scoreNow)]]
      BY DEF ScoreTyping
    <2> QED
      BY <1>1, <1>2, <2>1
  <1> QED
    BY <1>1, <1>2, <1>3 DEF ScoreTyping

\* An incident, or an item, more (OpenIncident, AddItem).
LEMMA OneMore ==
    ASSUME NEW S, IsFiniteSet(S), NEW x, NEW n \in Nat, Cardinality(S) < n
    PROVE  IsFiniteSet(S \cup {x}) /\ Cardinality(S \cup {x}) <= n
  <1>1. Cardinality(S) \in Nat
    BY FS_CardinalityType
  <1>2. /\ IsFiniteSet(S \cup {x})
        /\ Cardinality(S \cup {x}) \in {Cardinality(S), Cardinality(S) + 1}
    BY FS_AddElement, Zenon
  <1> QED
    BY <1>1, <1>2

\* One that changes stays one at most (ResolveIncident, CompleteItem).
LEMMA OneChanged ==
    ASSUME NEW S, IsFiniteSet(S), NEW x \in S, NEW y
    PROVE  /\ IsFiniteSet((S \ {x}) \cup {y})
           /\ Cardinality((S \ {x}) \cup {y}) <= Cardinality(S)
           /\ Cardinality((S \ {x}) \cup {y}) \in Nat /\ Cardinality(S) \in Nat
  <1>1. /\ IsFiniteSet(S \ {x}) /\ Cardinality(S) \in Nat /\ Cardinality(S \ {x}) \in Nat
        /\ Cardinality(S \ {x}) = Cardinality(S) - 1
    BY FS_RemoveElement, FS_CardinalityType
  <1>2. /\ IsFiniteSet((S \ {x}) \cup {y})
        /\ Cardinality((S \ {x}) \cup {y}) \in {Cardinality(S \ {x}), Cardinality(S \ {x}) + 1}
    BY <1>1, FS_AddElement, Zenon
  <1> QED
    BY <1>1, <1>2

LEMMA ScoreTypingOpen ==
    ASSUME ScoreTyping, NEW k \in Kinds, Score!OpenIncident(k) PROVE ScoreTyping'
  <1> DEFINE new == [id |-> Cardinality(incidents), profile |-> k.profile, service |-> k.service,
                     severity |-> k.severity, from |-> scoreNow, to |-> None, toil |-> 0]
  <1>1. /\ Cardinality(incidents) < MaxIncidents
        /\ incidents' = incidents \cup {new}
        /\ UNCHANGED <<scoreNow, items, active, cache, shown, reports>>
    BY ScoreOperators DEF Score!OpenIncident
  <1>2. IsFiniteSet(incidents') /\ Cardinality(incidents') <= MaxIncidents
    <2>1. IsFiniteSet(incidents) /\ MaxIncidents \in Nat
      BY ScoreAssumption DEF ScoreTyping, Score!ConstantsAssumption
    <2> HIDE DEF new
    <2> QED
      BY <1>1, <2>1, OneMore
  <1>3. new \in ScoreIncident(scoreNow) /\ new.to = None
    <2>1. Cardinality(incidents) \in Nat /\ scoreNow \in 0..scoreNow
      BY FS_CardinalityType DEF ScoreTyping
    <2> QED
      BY <2>1, ScoreAssumption DEF Score!ConstantsAssumption, ScoreIncident
  <1> HIDE DEF new
  <1> QED
    BY <1>1, <1>2, <1>3 DEF ScoreTyping

\* A resolution gives an incident an end and its toil.
LEMMA ResolvedType ==
    ASSUME NEW t, NEW i \in ScoreIncident(t), NEW at \in 0..t, NEW h \in Nat
    PROVE  [i EXCEPT !.to = at, !.toil = h] \in ScoreIncident(t)
  <1> DEFINE To == (0..t) \cup {None}
             From == 0..t
             Severity == {k.severity : k \in Kinds}
             Typed == [id : Nat, profile : Profiles, service : Services, severity : Severity,
                       from : From, to : To, toil : Nat]
  <1>1. at \in To /\ i \in Typed
    BY DEF ScoreIncident
  <1>2. [i EXCEPT !.to = at, !.toil = h] \in Typed
    <2> HIDE DEF To, From, Severity
    <2> QED
      BY <1>1
  <1> QED
    BY <1>2 DEF ScoreIncident

LEMMA ScoreTypingResolve ==
    ASSUME ScoreTyping, NEW i \in incidents, NEW h \in Toils, Score!ResolveIncident(i, h)
    PROVE  ScoreTyping'
  <1> DEFINE over == [i EXCEPT !.to = scoreNow, !.toil = h]
  <1>1. /\ incidents' = (incidents \ {i}) \cup {over}
        /\ UNCHANGED <<scoreNow, items, active, cache, shown, reports>>
    BY DEF Score!ResolveIncident
  <1>2. /\ over \in ScoreIncident(scoreNow) /\ over.from <= over.to
    <2>1. i \in ScoreIncident(scoreNow) /\ scoreNow \in 0..scoreNow /\ h \in Nat
      BY ScoreAssumption DEF ScoreTyping, Score!ConstantsAssumption
    <2>2. over.from = i.from /\ over.to = scoreNow /\ i.from \in 0..scoreNow
      BY <2>1 DEF ScoreIncident
    <2>3. over \in ScoreIncident(scoreNow)
      BY <2>1, ResolvedType
    <2> QED
      BY <2>2, <2>3
  <1>3. IsFiniteSet(incidents') /\ Cardinality(incidents') <= MaxIncidents
    <2>1. IsFiniteSet(incidents) /\ MaxIncidents \in Nat /\ Cardinality(incidents) <= MaxIncidents
      BY ScoreAssumption DEF ScoreTyping, Score!ConstantsAssumption
    <2> HIDE DEF over
    <2>2. /\ IsFiniteSet(incidents')
          /\ Cardinality(incidents') <= Cardinality(incidents)
          /\ Cardinality(incidents') \in Nat /\ Cardinality(incidents) \in Nat
      BY <1>1, <2>1, OneChanged
    <2> QED
      BY <2>1, <2>2
  <1> HIDE DEF over
  <1> QED
    BY <1>1, <1>2, <1>3 DEF ScoreTyping

LEMMA ScoreTypingAdd ==
    ASSUME ScoreTyping, NEW p \in Profiles, NEW s \in Services, Score!AddItem(p, s)
    PROVE  ScoreTyping'
  <1> DEFINE new == [id |-> Cardinality(items), profile |-> p, service |-> s, done |-> None]
  <1>1. /\ Cardinality(items) < MaxItems
        /\ items' = items \cup {new}
        /\ UNCHANGED <<scoreNow, incidents, active, cache, shown, reports>>
    BY ScoreOperators DEF Score!AddItem
  <1>2. IsFiniteSet(items') /\ Cardinality(items') <= MaxItems
    <2>1. IsFiniteSet(items) /\ MaxItems \in Nat
      BY ScoreAssumption DEF ScoreTyping, Score!ConstantsAssumption
    <2> HIDE DEF new
    <2> QED
      BY <1>1, <2>1, OneMore
  <1>3. new \in ScoreItem(scoreNow)
    BY FS_CardinalityType DEF ScoreTyping, ScoreItem
  <1> HIDE DEF new
  <1> QED
    BY <1>1, <1>2, <1>3 DEF ScoreTyping

LEMMA ScoreTypingComplete ==
    ASSUME ScoreTyping, NEW a \in items, Score!CompleteItem(a) PROVE ScoreTyping'
  <1> DEFINE over == [a EXCEPT !.done = scoreNow]
  <1>1. /\ items' = (items \ {a}) \cup {over}
        /\ UNCHANGED <<scoreNow, incidents, active, cache, shown, reports>>
    BY DEF Score!CompleteItem
  <1>2. over \in ScoreItem(scoreNow)
    BY DEF ScoreTyping, ScoreItem
  <1>3. IsFiniteSet(items') /\ Cardinality(items') <= MaxItems
    <2>1. IsFiniteSet(items) /\ MaxItems \in Nat /\ Cardinality(items) <= MaxItems
      BY ScoreAssumption DEF ScoreTyping, Score!ConstantsAssumption
    <2> HIDE DEF over
    <2>2. /\ IsFiniteSet(items')
          /\ Cardinality(items') <= Cardinality(items)
          /\ Cardinality(items') \in Nat /\ Cardinality(items) \in Nat
      BY <1>1, <2>1, OneChanged
    <2> QED
      BY <2>1, <2>2
  <1> HIDE DEF over
  <1> QED
    BY <1>1, <1>2, <1>3 DEF ScoreTyping

\* What objectives a report has are asked now, or were before (Budgets, Caching).
LEMMA BudgetsType ==
    ASSUME ScoreTyping, NEW a \in Profiles, NEW target, NEW m \in Score!Months
    PROVE  Score!Budgets(a, target, m) \in ScoreEntry(scoreNow)
  <1>1. CASE Score!Fresh(cache[a][m])
    BY <1>1 DEF Score!Budgets, Score!Fresh, ScoreTyping
  <1>2. CASE ~Score!Fresh(cache[a][m])
    <2>1. Score!Asked(a, target) \in ScoreEntry(scoreNow)
      BY InFlowsType DEF Score!Asked, ScoreEntry, ScoreTyping
    <2> QED
      BY <1>2, <2>1 DEF Score!Budgets
  <1> QED
    BY <1>1, <1>2

\* A report caches the services of its own flows, at its own time.
LEMMA CachingType ==
    ASSUME ScoreTyping, NEW a \in Profiles, NEW target, NEW m, Score!Caching(a, target, m)
    PROVE  cache' \in [Profiles -> [Score!Months -> {None} \cup ScoreEntry(scoreNow)]]
  <1> DEFINE due == {n \in {m, m - 1} \cap Score!Months : TRUE}
             row == [n \in Score!Months |-> IF n \in due THEN Score!Budgets(a, target, n)
                                            ELSE cache[a][n]]
  <1>1. cache \in [Profiles -> [Score!Months -> {None} \cup ScoreEntry(scoreNow)]]
    BY DEF ScoreTyping
  <1>2. cache' = [cache EXCEPT ![a] = row]
    BY DEF Score!Caching
  <1>3. row \in [Score!Months -> {None} \cup ScoreEntry(scoreNow)]
    BY <1>1, BudgetsType
  <1> HIDE DEF row
  <1> QED
    BY <1>1, <1>2, <1>3

LEMMA ScoreTypingReport ==
    ASSUME ScoreTyping, NEW p \in Profiles, NEW t \in Score!Targets, NEW m \in Score!Months,
           Score!Report(p, t, m)
    PROVE  ScoreTyping'
  <1>1. /\ UNCHANGED <<scoreNow, incidents, items>> /\ active' \in Profiles
        /\ reports' \in 0..MaxReports
    BY ScoreAssumption DEF Score!Report, ScoreTyping, Score!ConstantsAssumption
  <1>2. cache' \in [Profiles -> [Score!Months -> {None} \cup ScoreEntry(scoreNow)]]
    BY CachingType DEF Score!Report, ScoreTyping
  <1>3. shown' # None => shown'.services \subseteq Services
    BY BudgetsType DEF Score!Report, ScoreEntry
  <1> QED
    BY <1>1, <1>2, <1>3 DEF ScoreTyping

LEMMA ScoreTypingOrgReport ==
    ASSUME ScoreTyping, NEW m \in Score!Months, Score!OrgReport(m)
    PROVE  ScoreTyping'
  <1>1. /\ UNCHANGED <<scoreNow, incidents, items, active>>
        /\ reports' \in 0..MaxReports /\ active \in Profiles
    BY ScoreAssumption DEF Score!OrgReport, ScoreTyping, Score!ConstantsAssumption
  <1>2. cache' \in [Profiles -> [Score!Months -> {None} \cup ScoreEntry(scoreNow)]]
    BY <1>1, CachingType DEF Score!OrgReport, ScoreTyping
  <1>3. shown' # None => shown'.services \subseteq Services
    BY <1>1, BudgetsType DEF Score!OrgReport, ScoreEntry
  <1> QED
    BY <1>1, <1>2, <1>3 DEF ScoreTyping

LEMMA ScoreTypingNext == ScoreTyping /\ [Score!Next]_(Score!vars) => ScoreTyping'
  <1> SUFFICES ASSUME ScoreTyping, [Score!Next]_(Score!vars) PROVE ScoreTyping'
    OBVIOUS
  <1>1. CASE Score!Next
    BY <1>1, ScoreTypingTick, ScoreTypingOpen, ScoreTypingResolve, ScoreTypingAdd,
       ScoreTypingComplete, ScoreTypingReport, ScoreTypingOrgReport DEF Score!Next
  <1>2. CASE UNCHANGED Score!vars
    BY <1>2 DEF Score!vars, ScoreTyping
  <1> QED
    BY <1>1, <1>2

(***************************************************************************)
(* Every variable keeps its type, and all that a report would compute in   *)
(* any reachable state is in range: scores and availabilities are per      *)
(* cents, also those of the organization, which are weighted by services;  *)
(* the position of a profile is one among the profiles.                    *)
(***************************************************************************)
THEOREM ScoreTypeCorrect == Score!Spec => []Score!TypeOK
  BY ScoreInRange, ScoreTypingInit, ScoreTypingNext, PTL DEF Score!Spec

-----------------------------------------------------------------------------
(***************************************************************************)
(* Why an incident more makes no score better.  At the moment it begins it *)
(* has lasted no time, so that it changes no downtime; it adds no service  *)
(* that has had none of it to the average, as it is of one that is listed. *)
(* To compare the scores of two moments, these are functions of what they  *)
(* are computed from.                                                      *)
(***************************************************************************)
Lasted(i, t) == (IF i.to = None THEN t ELSE i.to) - i.from

DowntimeAt(s, incs, t) ==
    Score!SumFunction([i \in Score!Outages(s, incs) |-> Lasted(i, t)])

AvailabilityAt(s, incs, t) ==
    Score!Percent(Score!Positive(MonthLength, DowntimeAt(s, incs, t)), MonthLength)

ScoreAt(listed, incs, rows, t) ==
    (40 * Score!Average([s \in listed |-> AvailabilityAt(s, incs, t)], 100)
        + 40 * Score!Compliance({}, {})
        + 20 * Score!Percent(Score!Cardinality(Score!Completed(rows)), Score!Cardinality(rows)))
    \div 100

\* The score before and after a step, by what it depends on.
LEMMA ScoreIsAt ==
    ASSUME NEW p, NEW a, NEW target, NEW m
    PROVE  /\ Score!ScoreOf(p, a, target, m) =
                 ScoreAt(Score!Listed(p, a, target, m), Score!Monthly(p, target, m),
                         Score!Rows(p, m), scoreNow)
           /\ Score!ScoreOf(p, a, target, m)' =
                 ScoreAt(Score!Listed(p, a, target, m)', Score!Monthly(p, target, m)',
                         Score!Rows(p, m)', scoreNow')
  BY DEF Score!ScoreOf, Score!Availability, Score!Downtime, Score!Until,
     ScoreAt, AvailabilityAt, DowntimeAt, Lasted

\* An incident that has lasted no time adds to no downtime.
LEMMA DowntimeSame ==
    ASSUME NEW t, NEW incs, IsFiniteSet(incs), \A i \in incs : Lasted(i, t) \in Nat,
           NEW new, Lasted(new, t) = 0, NEW more, incs \subseteq more, more \subseteq incs \cup {new},
           NEW s
    PROVE  DowntimeAt(s, more, t) = DowntimeAt(s, incs, t)
  <1> DEFINE before == Score!Outages(s, incs)
             after == Score!Outages(s, more)
             f == [i \in before |-> Lasted(i, t)]
             g == [i \in after |-> Lasted(i, t)]
  <1>1. /\ before \in SUBSET after /\ before \in SUBSET incs /\ after \in SUBSET (incs \cup {new})
    BY DEF Score!Outages
  <1>2. IsFiniteSet(before) /\ IsFiniteSet(after)
    <2>1. IsFiniteSet(incs \cup {new})
      BY FS_AddElement
    <2> HIDE DEF before, after
    <2> QED
      BY <1>1, <2>1, FS_Subset
  <1>3. /\ \A i \in before : f[i] \in Nat /\ f[i] = g[i]
        /\ \A i \in after : g[i] \in Nat
        /\ \A i \in after \ before : g[i] = 0
    <2>1. after \ before \subseteq {new}
      BY DEF Score!Outages
    <2> HIDE DEF before, after
    <2> QED
      BY <1>1, <2>1
  <1>4. SumOver(g, before) = SumOver(g, after) /\ SumOver(f, before) = SumOver(g, before)
    <2> HIDE DEF before, after, f, g
    <2> QED
      BY <1>1, <1>2, <1>3, SumSubset, SumAgree
  <1>5. DowntimeAt(s, incs, t) = SumOver(f, before) /\ DowntimeAt(s, more, t) = SumOver(g, after)
    BY ScoreOperators DEF DowntimeAt
  <1> QED
    BY <1>4, <1>5

\* The incidents of a report, and the services it lists, when one is opened.
LEMMA OpenedIncident ==
    ASSUME ScoreTyping, NEW k \in Kinds, Score!OpenIncident(k),
           Score!Cardinality(incidents') > Score!Cardinality(incidents),
           NEW p \in Profiles, NEW target, NEW m,
           \A i \in incidents' \ incidents : i.service \in Score!Listed(p, p, target, m)
    PROVE  /\ Score!Monthly(p, target, m) \subseteq Score!Monthly(p, target, m)'
           /\ Score!ScoreOf(p, p, target, m)' = Score!ScoreOf(p, p, target, m)
  <1> DEFINE new == [id |-> Cardinality(incidents), profile |-> k.profile, service |-> k.service,
                     severity |-> k.severity, from |-> scoreNow, to |-> None, toil |-> 0]
             old == Score!Monthly(p, target, m)
             more == Score!Monthly(p, target, m)'
  <1>1. /\ incidents' = incidents \cup {new}
        /\ UNCHANGED <<scoreNow, items>>
    BY ScoreOperators DEF Score!OpenIncident
  <1>2. new \in incidents' \ incidents
    <2>1. incidents' # incidents
      <3>1. Cardinality(incidents) \in Nat
        BY FS_CardinalityType DEF ScoreTyping
      <3>2. Cardinality(incidents') > Cardinality(incidents)
        BY ScoreOperators
      <3> QED
        BY <3>1, <3>2
    <2> HIDE DEF new
    <2> QED
      BY <1>1, <2>1
  <1>3. /\ new.from = scoreNow /\ new.to = None /\ scoreNow \in Nat
    BY DEF ScoreTyping
  <1>4. Lasted(new, scoreNow) = 0
    BY <1>3 DEF Lasted
  <1> HIDE DEF new
  <1>5. old \subseteq more /\ more \subseteq old \cup {new}
    BY <1>1 DEF Score!Monthly
  <1>6. IsFiniteSet(old) /\ \A i \in old : Lasted(i, scoreNow) \in Nat
    <2>1. old \in SUBSET incidents
      BY DEF Score!Monthly
    <2>2. \A i \in old : Lasted(i, scoreNow) \in Nat
      BY <2>1, DurationType DEF Lasted, Score!Until
    <2> QED
      BY <2>1, <2>2, FS_Subset DEF ScoreTyping
  <1>7. Score!Listed(p, p, target, m)' = Score!Listed(p, p, target, m)
    <2>1. new.service \in Score!InFlows(p, target) \cup {i.service : i \in old}
      BY <1>2 DEF Score!Listed
    <2>2. /\ Score!Listed(p, p, target, m) = Score!InFlows(p, target) \cup {i.service : i \in old}
          /\ Score!Listed(p, p, target, m)' = Score!InFlows(p, target) \cup {i.service : i \in more}
      BY DEF Score!Listed, Score!InFlows, Score!FlowsFor
    <2> HIDE DEF old, more
    <2> QED
      BY <1>5, <2>1, <2>2
  <1>8. Score!Rows(p, m)' = Score!Rows(p, m)
    BY <1>1 DEF Score!Rows
  <1>9. \A s : AvailabilityAt(s, more, scoreNow) = AvailabilityAt(s, old, scoreNow)
    <2> HIDE DEF old, more
    <2>1. \A s : DowntimeAt(s, more, scoreNow) = DowntimeAt(s, old, scoreNow)
      BY <1>4, <1>5, <1>6, DowntimeSame
    <2> QED
      BY <2>1 DEF AvailabilityAt
  <1>10. Score!ScoreOf(p, p, target, m)' = Score!ScoreOf(p, p, target, m)
    <2> DEFINE listed == Score!Listed(p, p, target, m)
               rows == Score!Rows(p, m)
    <2>1. /\ Score!ScoreOf(p, p, target, m) = ScoreAt(listed, old, rows, scoreNow)
          /\ Score!ScoreOf(p, p, target, m)' = ScoreAt(listed, more, rows, scoreNow)
      BY <1>1, <1>7, <1>8, ScoreIsAt
    <2>2. [s \in listed |-> AvailabilityAt(s, more, scoreNow)]
             = [s \in listed |-> AvailabilityAt(s, old, scoreNow)]
      <3> HIDE DEF old, more
      <3> QED
        BY <1>9
    <2>3. ScoreAt(listed, more, rows, scoreNow) = ScoreAt(listed, old, rows, scoreNow)
      <3> HIDE DEF old, more, listed, rows
      <3> QED
        BY <2>2, Zenon DEF ScoreAt
    <2> QED
      BY <2>1, <2>3
  <1> QED
    BY <1>5, <1>10

\* Only an incident that is opened makes the store of incidents larger.
LEMMA OnlyOpened ==
    ASSUME ScoreTyping, [Score!Next]_(Score!vars),
           Score!Cardinality(incidents') > Score!Cardinality(incidents)
    PROVE  \E k \in Kinds : Score!OpenIncident(k)
  <1>1. IsFiniteSet(incidents) /\ Cardinality(incidents) \in Nat
    BY FS_CardinalityType DEF ScoreTyping
  <1>2. Cardinality(incidents') > Cardinality(incidents)
    BY ScoreOperators
  <1>3. incidents' # incidents
    BY <1>1, <1>2
  <1>4. ASSUME NEW i \in incidents, NEW h \in Toils, Score!ResolveIncident(i, h) PROVE FALSE
    <2> DEFINE over == [i EXCEPT !.to = scoreNow, !.toil = h]
    <2>1. incidents' = (incidents \ {i}) \cup {over}
      BY <1>4 DEF Score!ResolveIncident
    <2> HIDE DEF over
    <2>2. /\ Cardinality(incidents') <= Cardinality(incidents)
          /\ Cardinality(incidents') \in Nat /\ Cardinality(incidents) \in Nat
      BY <1>1, <2>1, OneChanged
    <2> QED
      BY <1>2, <2>2
  <1> QED
    BY <1>3, <1>4
    DEF Score!Next, Score!vars, Score!Tick, Score!AddItem, Score!CompleteItem, Score!Report,
        Score!OrgReport

\* Nothing but an incident that begins now adds one: it has lasted no time yet.
LEMMA WorseStep ==
    ASSUME ScoreTyping, [Score!Next]_(Score!vars),
           NEW p \in Profiles, NEW target \in Score!Targets, NEW m \in Score!Months,
           Score!Cardinality(incidents') > Score!Cardinality(incidents),
           \A i \in incidents' \ incidents : i.service \in Score!Listed(p, p, target, m),
           ~Score!Unavailable(p, target, m)
    PROVE  /\ Score!Score(p, p, target, m)' <= Score!Score(p, p, target, m)
           /\ Score!Health(Score!Score(p, p, target, m), Score!Worst(p, target, m)) = "At Risk"
                => Score!Health(Score!Score(p, p, target, m), Score!Worst(p, target, m))' # "Healthy"
  <1> DEFINE x == Score!ScoreOf(p, p, target, m)
             later == Score!Score(p, p, target, m)'
  <1>1. PICK k \in Kinds : Score!OpenIncident(k)
    BY OnlyOpened
  <1>2. /\ Score!Monthly(p, target, m) \subseteq Score!Monthly(p, target, m)'
        /\ Score!ScoreOf(p, p, target, m)' = x
    BY <1>1, OpenedIncident
  <1>3. x \in 0..100 /\ Score!Score(p, p, target, m) = x
    BY ScoreBound DEF Score!Score
  <1>4. later \in {0, x}
    BY <1>2 DEF Score!Score
  <1>5. Score!Worst(p, target, m) => Score!Worst(p, target, m)'
    BY <1>2 DEF Score!Worst
  <1>6. /\ Score!Health(Score!Score(p, p, target, m), Score!Worst(p, target, m))
              = Score!Health(x, Score!Worst(p, target, m))
        /\ Score!Health(Score!Score(p, p, target, m), Score!Worst(p, target, m))'
              = Score!Health(later, Score!Worst(p, target, m)')
    BY <1>3
  <1> HIDE DEF x, later
  <1>7. later <= x
    BY <1>3, <1>4
  <1>8. Score!Health(x, Score!Worst(p, target, m)) = "At Risk"
           => Score!Health(later, Score!Worst(p, target, m)') # "Healthy"
    BY <1>3, <1>4, <1>5 DEF Score!Health
  <1> QED
    BY <1>3, <1>6, <1>7, <1>8 DEF later

(***************************************************************************)
(* One more incident of a service that is listed already makes no score    *)
(* better, nor the health, whatever the profiles, flows and incidents are. *)
(***************************************************************************)
THEOREM WorseCorrect == Score!Spec => WorseIsNoBetter
  <1> DEFINE Better(p, t, m) ==
        LET new == incidents' \ incidents IN
        /\ Score!Cardinality(incidents') > Score!Cardinality(incidents)
        /\ \A i \in new : i.service \in Score!Listed(p, p, t, m)
        /\ ~Score!Unavailable(p, t, m)
        => /\ Score!Score(p, p, t, m)' <= Score!Score(p, p, t, m)
           /\ Score!Health(Score!Score(p, p, t, m), Score!Worst(p, t, m)) = "At Risk"
                => Score!Health(Score!Score(p, p, t, m), Score!Worst(p, t, m))' # "Healthy"
  <1>1. ScoreTyping /\ [Score!Next]_(Score!vars)
           => [\A p \in Profiles, t \in Score!Targets, m \in Score!Months : Better(p, t, m)]_(Score!vars)
    BY WorseStep
  <1> QED
    BY <1>1, ScoreTypingInit, ScoreTypingNext, PTL
    DEF Score!Spec, WorseIsNoBetter, Score!WorseIsNoBetter

=============================================================================
