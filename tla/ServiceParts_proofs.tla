------------------------- MODULE ServiceParts_proofs -------------------------
(***************************************************************************)
(* Proofs about the parts of ServiceParts, for all values of the constants.*)
(***************************************************************************)
EXTENDS ServiceParts, FiniteSets, SequenceTheorems, SumTheorems

-----------------------------------------------------------------------------
(***************************************************************************)
(* Typing.  A loader that waits for a sync.Once or runs it has one; the    *)
(* types are inductive only together with that.                            *)
(***************************************************************************)
CatalogWorking(l) == loaderPc[l] \in {"do", "store"}

CatalogHasOnce == \A l \in Loaders : CatalogWorking(l) => mine[l] \in Catalog!Onces

CatalogTyping == Catalog!ConstantsAssumption /\ Catalog!TypeOK /\ CatalogHasOnce

LEMMA CatalogTypingInit == Catalog!ConstantsAssumption /\ Catalog!Init => CatalogTyping
  <1> SUFFICES ASSUME Catalog!ConstantsAssumption, Catalog!Init PROVE CatalogTyping
    OBVIOUS
  <1>1. disk \in 1..MaxVersion /\ manifest \in 0..disk /\ cached \in 0..disk /\ base \in 0..disk
    BY DEF Catalog!ConstantsAssumption, Catalog!Init
  <1>2. read \in [Loaders -> 0..disk]
    BY DEF Catalog!Init
  <1> QED
    BY <1>1, <1>2, Zenon
       DEF Catalog!Init, CatalogTyping, Catalog!TypeOK, CatalogHasOnce,
           CatalogWorking

\* The files only change for a newer version, so whatever version was seen,
\* read or cached stays one that the files have had.
LEMMA CatalogTypingEdit == CatalogTyping /\ Catalog!Edit => CatalogTyping'
  <1> SUFFICES ASSUME CatalogTyping, Catalog!Edit PROVE CatalogTyping'
    OBVIOUS
  <1>1. disk' \in 1..MaxVersion /\ disk \in 1..MaxVersion /\ 0..disk \subseteq 0..disk'
    BY DEF CatalogTyping, Catalog!ConstantsAssumption, Catalog!TypeOK, Catalog!Edit
  <1>2. UNCHANGED <<manifest, polled, once, done, cached, mine, read, loaderPc, base, raced>>
    BY DEF Catalog!Edit, Catalog!loader
  <1> QED
    BY <1>1, <1>2
       DEF CatalogTyping, Catalog!ConstantsAssumption, Catalog!TypeOK,
           CatalogHasOnce, CatalogWorking

LEMMA CatalogTypingNext == CatalogTyping /\ [Catalog!Next]_(Catalog!vars) => CatalogTyping'
  <1> SUFFICES ASSUME CatalogTyping, [Catalog!Next]_(Catalog!vars) PROVE CatalogTyping'
    OBVIOUS
  <1> USE DEF CatalogTyping, Catalog!ConstantsAssumption, Catalog!TypeOK, CatalogHasOnce, CatalogWorking, Catalog!loader, Catalog!watcher
  <1>1. CASE Catalog!Edit
    BY <1>1, CatalogTypingEdit
  <1>2. CASE Catalog!Poll
    BY <1>2 DEF Catalog!Poll
  <1>3. CASE Catalog!InvalidateCache
    <2>1. raced' \in BOOLEAN
      BY <1>3, Zenon DEF Catalog!InvalidateCache
    <2>2. once' = NoOnce /\ cached' \in 0..disk' /\ base' \in 0..disk'
      BY <1>3 DEF Catalog!InvalidateCache
    <2> QED
      BY <1>3, <2>1, <2>2, Zenon DEF Catalog!InvalidateCache
  <1>4. ASSUME NEW l \in Loaders, Catalog!Look(l) PROVE CatalogTyping'
    BY <1>4 DEF Catalog!Look
  <1>5. ASSUME NEW l \in Loaders, Catalog!Install(l) PROVE CatalogTyping'
    BY <1>5 DEF Catalog!Install
  <1>6. ASSUME NEW l \in Loaders, Catalog!ReadFiles(l) PROVE CatalogTyping'
    BY <1>6 DEF Catalog!ReadFiles
  <1>7. ASSUME NEW l \in Loaders, Catalog!Store(l) PROVE CatalogTyping'
    BY <1>7 DEF Catalog!Store
  <1>8. ASSUME NEW l \in Loaders, Catalog!Return(l) PROVE CatalogTyping'
    BY <1>8 DEF Catalog!Return
  <1>9. CASE UNCHANGED Catalog!vars
    BY <1>9 DEF Catalog!vars
  <1> QED
    BY <1>1, <1>2, <1>3, <1>4, <1>5, <1>6, <1>7, <1>8, <1>9 DEF Catalog!Next, Catalog!Load

(***************************************************************************)
(* Every variable keeps its type: no loader, cache or watcher ever holds a *)
(* version the files have not had.                                         *)
(***************************************************************************)
THEOREM CatalogTypeCorrect == Catalog!Spec => []Catalog!TypeOK
  <1>1. CatalogTyping => Catalog!TypeOK
    BY DEF CatalogTyping
  <1> QED
    BY <1>1, CatalogTypingInit, CatalogTypingNext, CatalogAssumption, PTL DEF Catalog!Spec

-----------------------------------------------------------------------------
(***************************************************************************)
(* Why a load that raced with nothing is fresh.  A loader works with a     *)
(* sync.Once from its look to its return; without a race it is alone and   *)
(* its Once is the one in the map, and a Once in the map that has run left *)
(* a result no older than the last invalidation.                           *)
(***************************************************************************)
CatalogAlone == \A k, l \in Loaders : loaderPc[k] # "idle" /\ loaderPc[l] # "idle" => k = l

CatalogCurrent(version) == version > 0 /\ version >= base

CatalogOnceInMap == \A l \in Loaders : CatalogWorking(l) => mine[l] = once

CatalogReadCurrent == \A l \in Loaders : loaderPc[l] = "store" => CatalogCurrent(read[l])

CatalogCachedCurrent == once \in done => CatalogCurrent(cached)

CatalogUnraced == ~raced => CatalogAlone /\ CatalogOnceInMap /\ CatalogReadCurrent /\ CatalogCachedCurrent

LEMMA CatalogUnracedInit == Catalog!Init => CatalogUnraced
  BY DEF Catalog!Init, CatalogUnraced, CatalogAlone, CatalogOnceInMap,
     CatalogWorking, CatalogReadCurrent, CatalogCachedCurrent

\* Only an invalidation moves the base, and it finds nobody at work.
LEMMA CatalogUnracedInvalidate ==
    ASSUME CatalogTyping, CatalogUnraced, Catalog!InvalidateCache
    PROVE  CatalogUnraced'
  <1> SUFFICES ASSUME ~raced'
               PROVE  (CatalogAlone /\ CatalogOnceInMap /\ CatalogReadCurrent /\ CatalogCachedCurrent)'
    BY DEF CatalogUnraced
  <1>1. \A l \in Loaders : loaderPc'[l] = "idle"
    BY DEF Catalog!InvalidateCache, Catalog!Busy, Catalog!loader
  <1>2. once' = NoOnce /\ NoOnce \notin done'
    BY DEF Catalog!InvalidateCache, CatalogTyping, Catalog!TypeOK,
       Catalog!ConstantsAssumption
  <1> QED
    BY <1>1, <1>2
       DEF CatalogAlone, CatalogOnceInMap, CatalogWorking, CatalogReadCurrent,
           CatalogCachedCurrent

LEMMA CatalogUnracedLoad ==
    ASSUME CatalogTyping, CatalogUnraced, NEW l \in Loaders, Catalog!Load(l)
    PROVE  CatalogUnraced'
  <1> SUFFICES ASSUME ~raced'
               PROVE  (CatalogAlone /\ CatalogOnceInMap /\ CatalogReadCurrent /\ CatalogCachedCurrent)'
    BY DEF CatalogUnraced
  <1>1. CatalogAlone /\ CatalogOnceInMap /\ CatalogReadCurrent /\ CatalogCachedCurrent
    BY DEF CatalogUnraced, Catalog!Load, Catalog!Look, Catalog!Install,
       Catalog!ReadFiles, Catalog!Store, Catalog!Return
  <1> USE <1>1 DEF CatalogTyping, Catalog!ConstantsAssumption, Catalog!TypeOK,
                   CatalogAlone, CatalogOnceInMap, CatalogWorking, CatalogReadCurrent,
                   CatalogCachedCurrent, CatalogCurrent, Catalog!watcher
  <1>2. CASE Catalog!Look(l)
    <2>1. Catalog!Busy = {}
      BY <1>2 DEF Catalog!Look
    <2>2. \A k \in Loaders : loaderPc[k] = "idle"
      BY <2>1 DEF Catalog!Busy
    <2>3. /\ \A k \in Loaders \ {l} : loaderPc'[k] = "idle"
          /\ loaderPc'[l] \in {"install", "do"} /\ mine'[l] = once
          /\ once' = once /\ done' = done /\ cached' = cached /\ base' = base
      BY <1>2, <2>2 DEF Catalog!Look
    <2> QED
      BY <2>3
  <1>3. CASE Catalog!Install(l)
    BY <1>3 DEF Catalog!Install
  <1>4. CASE Catalog!ReadFiles(l)
    BY <1>4 DEF Catalog!ReadFiles
  <1>5. CASE Catalog!Store(l)
    BY <1>5 DEF Catalog!Store
  <1>6. CASE Catalog!Return(l)
    BY <1>6 DEF Catalog!Return
  <1> QED
    BY <1>2, <1>3, <1>4, <1>5, <1>6 DEF Catalog!Load

LEMMA CatalogUnracedNext ==
    CatalogTyping /\ CatalogUnraced /\ [Catalog!Next]_(Catalog!vars) => CatalogUnraced'
  <1> SUFFICES ASSUME CatalogTyping, CatalogUnraced, [Catalog!Next]_(Catalog!vars)
               PROVE  CatalogUnraced'
    OBVIOUS
  <1>1. CASE Catalog!Edit \/ Catalog!Poll \/ UNCHANGED Catalog!vars
    BY <1>1
       DEF Catalog!Edit, Catalog!Poll, Catalog!vars, Catalog!loader, CatalogUnraced,
           CatalogAlone, CatalogOnceInMap, CatalogWorking,
                CatalogReadCurrent, CatalogCachedCurrent, CatalogCurrent
  <1> QED
    BY <1>1, CatalogUnracedInvalidate, CatalogUnracedLoad DEF Catalog!Next

(***************************************************************************)
(* Whoever calls LoadOnce gets the files as they were at the last          *)
(* invalidation or later, never nothing, unless a load overlapped another  *)
(* one or an invalidation.                                                 *)
(***************************************************************************)
THEOREM FreshCorrect == Catalog!Spec => FreshUnlessRaced
  <1> USE CatalogAssumption
  <1> DEFINE Fresh == \A l \in Loaders : Catalog!Return(l) /\ ~raced => read'[l] > 0 /\ read'[l] >= base
  <1>1. Catalog!Spec => [](CatalogTyping /\ CatalogUnraced)
    BY CatalogTypingInit, CatalogTypingNext, CatalogUnracedInit, CatalogUnracedNext,
       PTL
       DEF Catalog!Spec
  <1>2. CatalogTyping /\ CatalogUnraced => Fresh
    BY DEF CatalogTyping, Catalog!TypeOK, CatalogUnraced, CatalogOnceInMap,
       CatalogWorking, CatalogCachedCurrent, CatalogCurrent, Catalog!Return
  <1> QED
    BY <1>1, <1>2, PTL DEF Catalog!Spec, FreshUnlessRaced, Catalog!FreshUnlessRaced

-----------------------------------------------------------------------------
(***************************************************************************)
(* The circuit of a notifier.  While it is closed the count it is opened   *)
(* on is that of the failures since it last closed.                        *)
(***************************************************************************)

\* PagerDuty waits only when there is an attempt left after the wait: that is
\* what an index past the table of waits says of the attempts configured.
NotifyTyped ==
    /\ Notify!TypeOK
    /\ \A c \in Callers :
          kind = "pagerduty" /\ notifyPc[c] = "backoff" => attempt[c] + 1 < PdAttempts

CountsAgree == breaker = "closed" => failCount = failed /\ failCount < Threshold

LEMMA NotifyTypedNext ==
    ASSUME Notify!ConstantsAssumption, NotifyTyped, [Notify!Next]_(Notify!vars)
    PROVE  NotifyTyped'
  <1> USE DEF Notify!ConstantsAssumption, NotifyTyped, Notify!TypeOK, Notify!circuit,
              Notify!BackoffTable
  <1>1. CASE Notify!Cool
    BY <1>1 DEF Notify!Cool
  <1>2. CASE Notify!Switch
    <2>1. up' \in BOOLEAN
      BY <1>2, Zenon DEF Notify!Switch
    <2> QED
      BY <1>2, <2>1 DEF Notify!Switch
  <1>3. ASSUME NEW c \in Callers, Notify!Begin(c) PROVE NotifyTyped'
    BY <1>3 DEF Notify!Begin, Notify!Step
  <1>4. ASSUME NEW c \in Callers, Notify!Send(c) PROVE NotifyTyped'
    BY <1>4 DEF Notify!Send, Notify!Step, Notify!AttemptsLeft
  <1>5. ASSUME NEW c \in Callers, Notify!Backoff(c) PROVE NotifyTyped'
    <2>1. CASE kind = "pagerduty" /\ attempt[c] \notin Notify!BackoffTable
      <3>1. PdAttempts > 4
        <4>1. attempt[c] \in Nat /\ attempt[c] \notin 0..2 /\ attempt[c] + 1 < PdAttempts
          BY <1>5, <2>1 DEF Notify!Backoff
        <4>2. PdAttempts \in Nat
          OBVIOUS
        <4> QED
          BY <4>1, <4>2
      <3>2. /\ notifyPc' = [d \in Callers |-> "dead"]
            /\ UNCHANGED <<kind, up, Notify!circuit, round, attempt, expired>>
        BY <1>5, <2>1 DEF Notify!Backoff
      <3> QED
        BY <2>1, <3>1, <3>2
    <2>2. CASE ~(kind = "pagerduty" /\ attempt[c] \notin Notify!BackoffTable)
      BY <1>5, <2>2 DEF Notify!Backoff, Notify!Step
    <2> QED
      BY <2>1, <2>2
  <1>6. ASSUME NEW c \in Callers, Notify!Again(c) PROVE NotifyTyped'
    BY <1>6 DEF Notify!Again, Notify!Step
  <1>7. ASSUME NEW c \in Callers, Notify!Record(c) PROVE NotifyTyped'
    <2>1. /\ breaker' \in {"closed", "open"} /\ cooled' \in BOOLEAN
          /\ failCount' \in 0..Threshold /\ failed' \in 0..Threshold
      <3>1. CASE Notify!RecordSuccess
        BY <3>1 DEF Notify!RecordSuccess
      <3>2. CASE Notify!RecordFailure
        <4>1. failCount' \in 0..Threshold /\ failed' \in 0..Threshold
          <5>1. \A n \in 0..Threshold : Notify!Capped(n + 1) \in 0..Threshold
            BY DEF Notify!Capped
          <5> QED
            BY <3>2, <5>1 DEF Notify!RecordFailure
        <4>2. breaker' \in {"closed", "open"}
          BY <3>2, Zenon DEF Notify!RecordFailure
        <4>3. cooled' \in BOOLEAN
          BY <3>2 DEF Notify!RecordFailure
        <4> QED
          BY <4>1, <4>2, <4>3
      <3> QED
        BY <1>7, <3>1, <3>2 DEF Notify!Record
    <2> QED
      BY <1>7, <2>1 DEF Notify!Record, Notify!Step
  <1>8. ASSUME NEW c \in Callers, Notify!Expire(c) PROVE NotifyTyped'
    BY <1>8 DEF Notify!Expire
  <1>9. CASE UNCHANGED Notify!vars
    BY <1>9 DEF Notify!vars
  <1> QED
    BY <1>1, <1>2, <1>3, <1>4, <1>5, <1>6, <1>7, <1>8, <1>9 DEF Notify!Next, Notify!Notify

LEMMA CountsAgreeNext ==
    ASSUME Notify!ConstantsAssumption, NotifyTyped, CountsAgree, [Notify!Next]_(Notify!vars)
    PROVE  /\ CountsAgree'
           /\ breaker = "closed" /\ breaker' = "open" => failed' >= Threshold
  <1> USE DEF Notify!ConstantsAssumption, NotifyTyped, Notify!TypeOK, CountsAgree
  <1>1. CASE UNCHANGED Notify!circuit
    BY <1>1 DEF Notify!circuit
  <1>2. CASE Notify!Cool
    BY <1>2 DEF Notify!Cool
  <1>3. ASSUME NEW c \in Callers, Notify!Record(c)
        PROVE  /\ CountsAgree'
               /\ breaker = "closed" /\ breaker' = "open" => failed' >= Threshold
    <2>1. CASE Notify!RecordSuccess
      BY <2>1 DEF Notify!RecordSuccess
    <2>2. CASE Notify!RecordFailure
      BY <2>2 DEF Notify!RecordFailure, Notify!Capped
    <2> QED
      BY <1>3, <2>1, <2>2 DEF Notify!Record
  <1>4. \/ UNCHANGED Notify!circuit
        \/ Notify!Cool
        \/ \E c \in Callers : Notify!Record(c)
    BY DEF Notify!Next, Notify!Notify, Notify!vars, Notify!circuit, Notify!Switch,
           Notify!Begin, Notify!Send, Notify!Backoff, Notify!Again, Notify!Expire
  <1> QED
    BY <1>1, <1>2, <1>3, <1>4

LEMMA NotifyAlways ==
    Notify!ConstantsAssumption => (Notify!Spec => [](NotifyTyped /\ CountsAgree))
  <1> SUFFICES ASSUME Notify!ConstantsAssumption
               PROVE  Notify!Spec => [](NotifyTyped /\ CountsAgree)
    OBVIOUS
  <1>1. ASSUME Notify!Init PROVE NotifyTyped /\ CountsAgree
    <2> USE DEF Notify!Init, Notify!ConstantsAssumption
    <2>1. failCount \in 0..Threshold /\ failed \in 0..Threshold /\ CountsAgree
      BY <1>1 DEF CountsAgree
    <2>2. /\ notifyPc \in [Callers -> {"idle", "send", "backoff", "again", "ok", "failed", "dead"}]
          /\ round \in [Callers -> 0..MaxRetries] /\ attempt \in [Callers -> Nat]
          /\ expired \in [Callers -> BOOLEAN]
          /\ \A c \in Callers : notifyPc[c] = "idle"
      BY <1>1
    <2>3. up \in BOOLEAN /\ cooled \in BOOLEAN
      BY <1>1
    <2> QED
      BY <1>1, <2>1, <2>2, <2>3 DEF NotifyTyped, Notify!TypeOK
  <1>2. NotifyTyped /\ CountsAgree /\ [Notify!Next]_(Notify!vars) => (NotifyTyped /\ CountsAgree)'
    BY NotifyTypedNext, CountsAgreeNext
  <1> QED
    BY <1>1, <1>2, PTL DEF Notify!Spec

\* The circuit, the callers and their retries keep to their types, for any number
\* of attempts: the process dies of PagerDuty's table of waits (pagerduty.go)
\* only when more than four of them are configured.
THEOREM NotifyTypeCorrect == Notify!Spec => []Notify!TypeOK
  <1>1. NotifyTyped /\ CountsAgree => Notify!TypeOK
    BY DEF NotifyTyped
  <1> QED
    BY <1>1, NotifyAlways, NotifyAssumption, PTL

\* The circuit opens only when as many notifications have failed since it last
\* closed as its threshold asks for (resilience.go), for any number of callers.
THEOREM TripsCorrect == Notify!Spec => TripsOnFailures
  <1> USE NotifyAssumption
  <1>1. NotifyTyped /\ CountsAgree /\ [Notify!Next]_(Notify!vars) =>
            [breaker = "closed" /\ breaker' = "open" => failed' >= Threshold]_(Notify!vars)
    BY CountsAgreeNext
  <1>2. Notify!Spec => [](NotifyTyped /\ CountsAgree)
    BY NotifyAlways
  <1> QED
    BY <1>1, <1>2, PTL DEF Notify!Spec, TripsOnFailures, Notify!TripsOnFailures

-----------------------------------------------------------------------------
(***************************************************************************)
(* The telemetry of incidents.  The seed is read before it is removed, and *)
(* nothing seeds an incident again that is being resolved.                 *)
(***************************************************************************)

Snapshots == [at : Nat, service : Services, tag : Ids \cup {NoId}]

\* A rolling buffer at the time t.
Rolling(buf, t) ==
    /\ buf \in Seq(Snapshots) /\ Len(buf) <= Size
    /\ \A k \in 1..Len(buf) : buf[k].at <= t

RecorderTyped ==
    /\ now \in 1..MaxTime /\ running \in BOOLEAN
    /\ checked \in Ids \cup {NoId} /\ latest \in Ids \cup {NoId} /\ todo \subseteq Services
    /\ state \in [Ids -> {"none", "active", "resolved"}]
    /\ recorderPc \in [Ids -> {"idle", "lookback", "collect", "clean", "write", "done", "lost"}]
    /\ Rolling(window, now) /\ Rolling(daemon, now)
    /\ DOMAIN buffer = Ids /\ \A i \in Ids : Rolling(buffer[i], now)

\* What was collected has the seed as long as that is there.
SeedKept ==
    /\ DOMAIN seed = Ids /\ DOMAIN kept = Ids /\ DOMAIN recorderPc = Ids
    /\ \A i \in Ids : recorderPc[i] = "clean" => seed[i] \subseteq kept[i]

LEMMA PushRolls ==
    ASSUME Recorder!ConstantsAssumption, NEW t \in Nat, NEW buf, NEW x \in Snapshots,
           Rolling(buf, t), x.at <= t
    PROVE  Rolling(Recorder!Push(buf, x), t)
  <1> USE DEF Recorder!ConstantsAssumption
  <1>1. buf \in Seq(Snapshots) /\ Len(buf) \in Nat /\ Len(buf) <= Size
    BY LenProperties DEF Rolling
  <1>2. ASSUME NEW b \in Seq(Snapshots), Len(b) < Size,
               \A k \in 1..Len(b) : b[k].at <= t
        PROVE  Rolling(Append(b, x), t)
    <2>1. Len(b) \in Nat
      BY LenProperties
    <2>2. /\ Append(b, x) \in Seq(Snapshots) /\ Len(Append(b, x)) = Len(b) + 1
          /\ \A k \in 1..Len(b) : Append(b, x)[k] = b[k]
          /\ Append(b, x)[Len(b) + 1] = x
      BY AppendProperties
    <2>3. ASSUME NEW k \in 1..(Len(b) + 1) PROVE Append(b, x)[k].at <= t
      <3>1. k \in 1..Len(b) \/ k = Len(b) + 1
        BY <2>1
      <3> QED
        BY <1>2, <2>2, <3>1
    <2>4. Len(b) + 1 <= Size
      BY <1>2, <2>1
    <2> QED
      BY <2>2, <2>3, <2>4 DEF Rolling
  <1>3. CASE Len(buf) >= Size
    <2>1. buf # << >>
      BY <1>1, <1>3, EmptySeq
    <2>2. /\ Tail(buf) \in Seq(Snapshots) /\ Len(Tail(buf)) = Len(buf) - 1
          /\ \A k \in 1..Len(Tail(buf)) : Tail(buf)[k] = buf[k + 1]
      BY <1>1, <2>1, HeadTailProperties
    <2>3. ASSUME NEW k \in 1..Len(Tail(buf)) PROVE Tail(buf)[k].at <= t
      <3>1. k + 1 \in 1..Len(buf)
        BY <1>1, <2>2
      <3> QED
        BY <2>2, <3>1 DEF Rolling
    <2>4. Len(Tail(buf)) < Size
      BY <1>1, <2>2
    <2> QED
      BY <1>2, <1>3, <2>2, <2>3, <2>4 DEF Recorder!Push
  <1>4. CASE ~(Len(buf) >= Size)
    <2>1. Len(buf) < Size
      BY <1>1, <1>4
    <2> QED
      BY <1>1, <1>2, <1>4, <2>1 DEF Recorder!Push, Rolling
  <1> QED
    BY <1>3, <1>4

\* A snapshot that is taken now, and time that goes on.
LEMMA SnapshotTyped ==
    ASSUME Recorder!ConstantsAssumption, now \in Nat, NEW s \in Services,
           NEW i \in Ids \cup {NoId}
    PROVE  Recorder!Snapshot(s, i) \in Snapshots /\ Recorder!Snapshot(s, i).at <= now
  BY DEF Recorder!Snapshot, Snapshots

LEMMA StillRolling ==
    ASSUME NEW t \in Nat, NEW buf, Rolling(buf, t) PROVE Rolling(buf, t + 1)
  <1>1. buf \in Seq(Snapshots) /\ Len(buf) \in Nat
    BY LenProperties DEF Rolling
  <1>2. ASSUME NEW k \in 1..Len(buf) PROVE buf[k].at <= t + 1
    <2>1. buf[k] \in Snapshots
      BY <1>1, ElementOfSeq
    <2>2. buf[k].at \in Nat /\ buf[k].at <= t
      BY <2>1 DEF Snapshots, Rolling
    <2> QED
      BY <2>2
  <1> QED
    BY <1>1, <1>2 DEF Rolling

LEMMA RecorderNext ==
    ASSUME Recorder!ConstantsAssumption, RecorderTyped, [Recorder!Next]_(Recorder!vars)
    PROVE  RecorderTyped'
  <1> USE DEF Recorder!scan, Recorder!files
  <1>1. now \in Nat /\ MaxTime \in Nat
    BY DEF RecorderTyped, Recorder!ConstantsAssumption
  <1>2. Rolling(<< >>, now)
    BY <1>1, EmptySeq DEF Rolling, Recorder!ConstantsAssumption
  <1>3. CASE Recorder!StartDaemon
    BY <1>3 DEF Recorder!StartDaemon, RecorderTyped
  <1>4. CASE Recorder!StopDaemon
    BY <1>2, <1>4 DEF Recorder!StopDaemon, RecorderTyped
  <1>5. CASE Recorder!Tick
    <2>1. /\ now' = now + 1 /\ checked' = latest /\ todo' = Services /\ now < MaxTime
          /\ UNCHANGED <<window, latest, running, daemon, state, recorderPc, buffer>>
      BY <1>5 DEF Recorder!Tick
    <2>2. Rolling(window, now') /\ Rolling(daemon, now')
      BY <1>1, <2>1, StillRolling DEF RecorderTyped
    <2>3. \A i \in Ids : Rolling(buffer[i], now')
      BY <1>1, <2>1, StillRolling DEF RecorderTyped
    <2>4. now' \in 1..MaxTime
      BY <1>1, <2>1 DEF RecorderTyped
    <2> QED
      BY <2>1, <2>2, <2>3, <2>4 DEF RecorderTyped
  <1>6. ASSUME NEW s \in Services, Recorder!Scan(s) PROVE RecorderTyped'
    <2> DEFINE tag == IF checked # NoId /\ ServiceOf[checked] = s THEN checked ELSE NoId
    <2>1. /\ daemon' = Recorder!Push(daemon, Recorder!Snapshot(s, tag))
          /\ window' \in {window, daemon'} /\ todo' \subseteq todo
          /\ UNCHANGED <<now, latest, running, checked, state, recorderPc, buffer>>
      BY <1>6 DEF Recorder!Scan
    <2>2. tag \in Ids \cup {NoId}
      BY DEF RecorderTyped
    <2> HIDE DEF tag
    <2>3. Rolling(daemon', now)
      BY <1>1, <2>1, <2>2, PushRolls, SnapshotTyped DEF RecorderTyped
    <2> QED
      BY <2>1, <2>3 DEF RecorderTyped
  <1>7. ASSUME NEW i \in Ids, Recorder!StartIncident(i) PROVE RecorderTyped'
    <2>1. /\ state' = [state EXCEPT ![i] = "active"] /\ recorderPc' = [recorderPc EXCEPT ![i] = "lookback"]
          /\ buffer' = [buffer EXCEPT ![i] = window] /\ latest' = i
          /\ UNCHANGED <<now, window, running, daemon, checked, todo>>
      BY <1>7 DEF Recorder!StartIncident
    <2> QED
      BY <2>1 DEF RecorderTyped
  <1>8. ASSUME NEW i \in Ids, Recorder!Lookback(i) PROVE RecorderTyped'
    <2> DEFINE snap == Recorder!Snapshot(ServiceOf[i], i)
    <2>1. /\ recorderPc' = [recorderPc EXCEPT ![i] = "idle"]
          /\ UNCHANGED <<now, latest, running, daemon, checked, todo, state>>
          /\ \/ UNCHANGED <<buffer, window>>
             \/ /\ buffer' = [buffer EXCEPT ![i] = Recorder!Push(buffer[i], snap)]
                /\ window' = buffer'[i]
      BY <1>8 DEF Recorder!Lookback
    <2>2. snap \in Snapshots /\ snap.at <= now
      BY <1>1, SnapshotTyped DEF Recorder!ConstantsAssumption
    <2> HIDE DEF snap
    <2>3. Rolling(Recorder!Push(buffer[i], snap), now)
      BY <1>1, <2>2, PushRolls DEF RecorderTyped
    <2> QED
      BY <2>1, <2>3 DEF RecorderTyped
  <1>9. ASSUME NEW i \in Ids, Recorder!Resolve(i) PROVE RecorderTyped'
    BY <1>9 DEF Recorder!Resolve, RecorderTyped
  <1>10. ASSUME NEW i \in Ids,
                Recorder!Collect(i) \/ Recorder!RemoveSeed(i) \/ Recorder!WriteLifecycle(i)
                \/ Recorder!Exit(i)
         PROVE  RecorderTyped'
    <2>1. UNCHANGED <<now, window, latest, running, daemon, checked, todo, state, buffer>>
      BY <1>10
         DEF Recorder!Collect, Recorder!RemoveSeed, Recorder!WriteLifecycle,
             Recorder!Exit
    <2>2. \E at \in {"idle", "clean", "write", "done", "lost"} : recorderPc' = [recorderPc EXCEPT ![i] = at]
      BY <1>10
         DEF Recorder!Collect, Recorder!RemoveSeed, Recorder!WriteLifecycle,
             Recorder!Exit
    <2>3. recorderPc' \in [Ids -> {"idle", "lookback", "collect", "clean", "write", "done", "lost"}]
      BY <2>2 DEF RecorderTyped
    <2> QED
      BY <2>1, <2>3 DEF RecorderTyped
  <1>11. CASE UNCHANGED Recorder!vars
    BY <1>11 DEF Recorder!vars, RecorderTyped
  <1> QED
    BY <1>3, <1>4, <1>5, <1>6, <1>7, <1>8, <1>9, <1>10, <1>11
       DEF Recorder!Next, RecorderTyped

LEMMA SeedKeptNext ==
    ASSUME SeedKept, [Recorder!Next]_(Recorder!vars)
    PROVE  SeedKept'
  <1> USE DEF SeedKept, Recorder!scan, Recorder!files
  <1>1. CASE Recorder!StartDaemon \/ Recorder!StopDaemon \/ Recorder!Tick
             \/ UNCHANGED Recorder!vars
    BY <1>1 DEF Recorder!StartDaemon, Recorder!StopDaemon, Recorder!Tick, Recorder!vars
  <1>2. ASSUME NEW s \in Services, Recorder!Scan(s) PROVE SeedKept'
    BY <1>2 DEF Recorder!Scan
  <1>3. ASSUME NEW i \in Ids, Recorder!StartIncident(i) \/ Recorder!Resolve(i)
        PROVE SeedKept'
    BY <1>3 DEF Recorder!StartIncident, Recorder!Resolve
  <1>4. ASSUME NEW i \in Ids, Recorder!Lookback(i) PROVE SeedKept'
    <2>1. /\ \E new : seed' = [seed EXCEPT ![i] = new]
          /\ recorderPc' = [recorderPc EXCEPT ![i] = "idle"] /\ UNCHANGED kept
      BY <1>4, Zenon DEF Recorder!Lookback
    <2> QED
      BY <2>1
  <1>5. ASSUME NEW i \in Ids, Recorder!Collect(i) PROVE SeedKept'
    <2>1. /\ \E more : kept' = [kept EXCEPT ![i] = seed[i] \cup more]
          /\ recorderPc' = [recorderPc EXCEPT ![i] = "clean"] /\ UNCHANGED seed
      BY <1>5, Zenon DEF Recorder!Collect
    <2> QED
      BY <2>1
  <1>6. ASSUME NEW i \in Ids, Recorder!RemoveSeed(i) PROVE SeedKept'
    BY <1>6 DEF Recorder!RemoveSeed
  <1>7. ASSUME NEW i \in Ids, Recorder!WriteLifecycle(i) \/ Recorder!Exit(i) PROVE SeedKept'
    <2>1. /\ kept' = [kept EXCEPT ![i] = {}] /\ UNCHANGED seed
          /\ \E at \in {"idle", "done", "lost"} : recorderPc' = [recorderPc EXCEPT ![i] = at]
      BY <1>7 DEF Recorder!WriteLifecycle, Recorder!Exit
    <2> QED
      BY <2>1
  <1> HIDE DEF SeedKept
  <1> QED
    BY <1>1, <1>2, <1>3, <1>4, <1>5, <1>6, <1>7 DEF Recorder!Next

LEMMA RecorderInit ==
    ASSUME Recorder!ConstantsAssumption, Recorder!Init PROVE RecorderTyped /\ SeedKept
  <1> USE DEF Recorder!Init
  <1>1. 1 \in 1..MaxTime /\ now = 1
    BY DEF Recorder!ConstantsAssumption
  <1>2. Rolling(<< >>, now)
    BY <1>1, EmptySeq DEF Rolling, Recorder!ConstantsAssumption
  <1>3. RecorderTyped
    BY <1>1, <1>2 DEF RecorderTyped
  <1>4. SeedKept
    BY DEF SeedKept
  <1> QED
    BY <1>3, <1>4

\* The buffers of the daemon and of the commands, and the window they share on
\* disk, hold no more than bufferSize snapshots (lifecycle_recorder.go: 60),
\* none of them of a service that is not scanned, for any incidents and services.
THEOREM RecorderTypeCorrect == Recorder!Spec => []Recorder!TypeOK
  <1> USE RecorderAssumption
  <1>1. Recorder!Init => RecorderTyped
    BY RecorderInit
  <1>2. RecorderTyped /\ [Recorder!Next]_(Recorder!vars) => RecorderTyped'
    BY RecorderNext
  <1>3. RecorderTyped => Recorder!TypeOK
    <2> SUFFICES ASSUME RecorderTyped PROVE Recorder!TypeOK
      OBVIOUS
    <2>1. ASSUME NEW buf, Rolling(buf, now)
          PROVE  Len(buf) <= Size /\ \A s \in Recorder!ToSet(buf) : s.at <= now /\ s.service \in Services
      <3>1. buf \in Seq(Snapshots) /\ DOMAIN buf = 1..Len(buf)
        BY <2>1, LenProperties DEF Rolling
      <3>2. ASSUME NEW k \in 1..Len(buf)
            PROVE buf[k].at <= now /\ buf[k].service \in Services
        <4>1. buf[k] \in Snapshots
          BY <3>1, ElementOfSeq
        <4> QED
          BY <2>1, <4>1 DEF Rolling, Snapshots
      <3> QED
        BY <2>1, <3>1, <3>2 DEF Rolling, Recorder!ToSet
    <2>2. \A buf \in {window, daemon} \cup {buffer[i] : i \in Ids} : Rolling(buf, now)
      BY DEF RecorderTyped
    <2> HIDE DEF Rolling
    <2> QED
      BY <2>1, <2>2 DEF RecorderTyped, Recorder!TypeOK
  <1> QED
    BY <1>1, <1>2, <1>3, PTL DEF Recorder!Spec

LEMMA OnlySeedNext ==
    ASSUME SeedKept, Recorder!Next
    PROVE  \A i \in Ids : Recorder!Foreign(kept'[i], i) \subseteq
                              Recorder!Foreign(seed[i], i) \cup Recorder!Foreign(kept[i], i)
  <1> USE DEF SeedKept, Recorder!Foreign, Recorder!scan, Recorder!files
  <1>1. CASE UNCHANGED kept
    BY <1>1
  <1>2. ASSUME NEW i \in Ids, kept' = [kept EXCEPT ![i] = {}]
        PROVE  \A j \in Ids : kept'[j] \subseteq kept[j]
    BY <1>2
  <1>3. ASSUME NEW i \in Ids, Recorder!Collect(i)
        PROVE  \A j \in Ids : Recorder!Foreign(kept'[j], j) \subseteq
                                  Recorder!Foreign(seed[j], j) \cup Recorder!Foreign(kept[j], j)
    <2> DEFINE more == {s \in Recorder!ToSet(Recorder!PreIncident(i)) :
                           s.tag = i \/ (s.tag = NoId /\ s.service = ServiceOf[i])}
    <2>1. /\ kept' = [kept EXCEPT ![i] = seed[i] \cup more]
          /\ \A s \in more : s.tag \in {i, NoId}
      BY <1>3 DEF Recorder!Collect
    <2> HIDE DEF more
    <2> QED
      BY <2>1
  <1>4. CASE \E i \in Ids : kept' = [kept EXCEPT ![i] = {}]
    BY <1>2, <1>4
  <1>5. CASE \E i \in Ids : Recorder!Collect(i)
    BY <1>3, <1>5
  <1> HIDE DEF SeedKept, Recorder!Foreign
  <1>6. UNCHANGED kept \/ (\E i \in Ids : kept' = [kept EXCEPT ![i] = {}])
        \/ \E i \in Ids : Recorder!Collect(i)
    BY Zenon DEF Recorder!Next, Recorder!StartDaemon, Recorder!StopDaemon, Recorder!Tick,
       Recorder!Scan, Recorder!StartIncident, Recorder!Lookback, Recorder!Resolve,
       Recorder!RemoveSeed, Recorder!WriteLifecycle, Recorder!Exit
  <1> QED
    BY <1>1, <1>4, <1>5, <1>6

\* What persistLifecycle (service.go) adds to a seed is the incident's own or
\* nobody's, for any incidents, services and sizes of the window, and whenever
\* the daemon persisted that.
THEOREM OnlySeedCorrect == Recorder!Spec => OnlySeedIsForeign
  <1>1. Recorder!Init => SeedKept
    BY DEF Recorder!Init, SeedKept
  <1>2. SeedKept /\ [Recorder!Next]_(Recorder!vars) => SeedKept'
    BY SeedKeptNext
  <1>3. SeedKept /\ [Recorder!Next]_(Recorder!vars) =>
           [\A i \in Ids : Recorder!Foreign(kept'[i], i) \subseteq
               Recorder!Foreign(seed[i], i) \cup Recorder!Foreign(kept[i], i)]_(Recorder!vars)
    BY OnlySeedNext
  <1> QED
    BY <1>1, <1>2, <1>3, PTL
       DEF Recorder!Spec, OnlySeedIsForeign, Recorder!OnlySeedIsForeign

LEMMA SeedReachesNext ==
    ASSUME RecorderTyped, SeedKept, Recorder!Next
    PROVE  \A i \in Ids : seed[i] # {} /\ seed'[i] = {} => seed[i] \subseteq kept[i]
  <1> USE DEF Recorder!scan, Recorder!files
  <1>1. CASE UNCHANGED seed
    BY <1>1
  <1>2. ASSUME NEW i \in Ids, Recorder!Lookback(i)
        PROVE  \A j \in Ids : seed[j] # {} /\ seed'[j] = {} => FALSE
    <2>1. PICK new : new # {} /\ seed' = [seed EXCEPT ![i] = new]
      <3> DEFINE snap == Recorder!Snapshot(ServiceOf[i], i)
      <3>1. CASE seed' = [seed EXCEPT ![i] = {snap}]
        BY <3>1
      <3>2. CASE /\ Recorder!PreIncident(i) # << >>
                 /\ seed' = [seed EXCEPT ![i] = Recorder!ToSet(Recorder!PreIncident(i))]
        <4>1. Recorder!PreIncident(i) \in Seq(Snapshots)
          BY DEF Recorder!PreIncident, RecorderTyped, Rolling
        <4>2. 1 \in DOMAIN Recorder!PreIncident(i)
          BY <3>2, <4>1, EmptySeq, LenProperties
        <4> QED
          BY <3>2, <4>2 DEF Recorder!ToSet
      <3> QED
        BY <1>2, <3>1, <3>2 DEF Recorder!Lookback, Recorder!Fresh
    <2> QED
      BY <2>1 DEF SeedKept
  <1>3. ASSUME NEW i \in Ids, Recorder!RemoveSeed(i)
        PROVE  \A j \in Ids : seed[j] # {} /\ seed'[j] = {} => seed[j] \subseteq kept[j]
    BY <1>3 DEF Recorder!RemoveSeed, SeedKept
  <1>4. CASE \E i \in Ids : Recorder!Lookback(i) \/ Recorder!RemoveSeed(i)
    BY <1>2, <1>3, <1>4
  <1>5. UNCHANGED seed \/ \E i \in Ids : Recorder!Lookback(i) \/ Recorder!RemoveSeed(i)
    BY Zenon DEF Recorder!Next, Recorder!StartDaemon, Recorder!StopDaemon, Recorder!Tick,
       Recorder!Scan, Recorder!StartIncident, Recorder!Resolve, Recorder!Collect,
       Recorder!WriteLifecycle, Recorder!Exit
  <1> QED
    BY <1>1, <1>4, <1>5

\* The history AutoLookbackEnrichment seeded (service.go) is removed by
\* PersistLifecycle (lifecycle_recorder.go) only once it was taken over, for any
\* incidents, services and sizes of the window.
THEOREM SeedReachesCorrect ==
    Recorder!Spec => SeedReachesLifecycle
  <1> USE RecorderAssumption
  <1>1. Recorder!Init => RecorderTyped /\ SeedKept
    BY RecorderInit
  <1>2. RecorderTyped /\ SeedKept /\ [Recorder!Next]_(Recorder!vars) => (RecorderTyped /\ SeedKept)'
    BY RecorderNext, SeedKeptNext
  <1>3. RecorderTyped /\ SeedKept /\ [Recorder!Next]_(Recorder!vars) =>
           [\A i \in Ids : seed[i] # {} /\ seed'[i] = {} => seed[i] \subseteq kept[i]]_(Recorder!vars)
    BY SeedReachesNext
  <1> QED
    BY <1>1, <1>2, <1>3, PTL
       DEF Recorder!Spec, SeedReachesLifecycle, Recorder!SeedReachesLifecycle

-----------------------------------------------------------------------------
(***************************************************************************)
(* Typing.  A goroutine that is in a call knows which one it is.           *)
(***************************************************************************)
ClientInCall == \A c \in Goroutines : clientPc[c] # "idle" => asked[c] \in Client!Queries

ClientTyping == Client!ConstantsAssumption /\ Client!TypeOK /\ ClientInCall

LEMMA ClientTypingInit == Client!ConstantsAssumption /\ Client!Init => ClientTyping
  <1> SUFFICES ASSUME Client!ConstantsAssumption, Client!Init PROVE ClientTyping
    OBVIOUS
  <1>1. /\ rest \in 0..Interval /\ wait \in [Goroutines -> Nat]
        /\ clientAttempt \in [Goroutines -> 0..ClientRetries] /\ calls \in [Goroutines -> 0..MaxCalls]
    BY DEF Client!ConstantsAssumption, Client!Init
  <1>2. /\ clientPc \in [Goroutines -> {"idle", "lock", "throttle", "sleep", "send", "backoff", "store", "decoding"}]
        /\ asked \in [Goroutines -> Client!Queries \cup {None}] /\ answer \in [Goroutines -> Client!Answers]
        /\ \A c \in Goroutines : clientPc[c] = "idle"
    BY DEF Client!Init, Client!Answers
  <1> QED
    BY <1>1, <1>2 DEF Client!Init, ClientTyping, Client!TypeOK, ClientInCall

LEMMA ClientLessType ==
    ASSUME NEW n \in Nat PROVE Client!Less(n) \in Nat /\ Client!Less(n) <= n
  BY DEF Client!Less

LEMMA ClientTypingTick == ClientTyping /\ Client!Tick => ClientTyping'
  <1> SUFFICES ASSUME ClientTyping, Client!Tick PROVE ClientTyping'
    OBVIOUS
  <1>1. rest' \in 0..Interval
    BY ClientLessType
       DEF ClientTyping, Client!ConstantsAssumption, Client!TypeOK, Client!Tick
  <1>2. wait' \in [Goroutines -> Nat]
    BY ClientLessType DEF ClientTyping, Client!TypeOK, Client!Tick
  <1> QED
    BY <1>1, <1>2, Zenon
       DEF ClientTyping, Client!ConstantsAssumption, Client!TypeOK, ClientInCall,
           Client!Tick, Client!call, Client!cache

LEMMA ClientTypingBegin ==
    ASSUME ClientTyping, NEW c \in Goroutines, NEW how \in Client!Queries,
           Client!Query(c, how) \/ Client!Series(c) \/ Client!MetricNames(c)
    PROVE  ClientTyping'
  <1> DEFINE k == IF Client!Query(c, how) THEN how ELSE IF Client!Series(c) THEN "series" ELSE "names"
  <1>1. /\ k \in Client!Queries /\ Client!Begins(c, k)
        /\ UNCHANGED <<server, rest, wait, Client!cache>>
    BY DEF Client!Query, Client!Series, Client!MetricNames, Client!Queries
  <1>2. clientAttempt' \in [Goroutines -> 0..ClientRetries] /\ calls' \in [Goroutines -> 0..MaxCalls]
    BY <1>1 DEF Client!Begins, ClientTyping, Client!ConstantsAssumption, Client!TypeOK
  <1>3. asked' \in [Goroutines -> Client!Queries \cup {None}] /\ asked'[c] \in Client!Queries
        /\ \A d \in Goroutines \ {c} : asked'[d] = asked[d]
    <2> HIDE DEF k
    <2> QED BY <1>1 DEF Client!Begins, ClientTyping, Client!TypeOK
  <1>4. /\ clientPc' \in [Goroutines -> {"idle", "lock", "throttle", "sleep", "send", "backoff", "store", "decoding"}]
        /\ clientPc'[c] # "decoding" /\ answer' \in [Goroutines -> Client!Answers]
        /\ \A d \in Goroutines \ {c} : clientPc'[d] = clientPc[d]
    BY DEF Client!Query, Client!Series, Client!MetricNames, Client!Step,
       Client!Return, Client!Answers, ClientTyping, Client!TypeOK
  <1> QED
    BY <1>1, <1>2, <1>3, <1>4 DEF Client!cache, ClientTyping, Client!TypeOK, ClientInCall

\* Every kind of call has its answer, and Prometheus answers none, one or many.
LEMMA ClientTypingRead ==
    ASSUME ClientTyping, NEW c \in Goroutines, clientPc[c] = "send", Client!Read(c)
    PROVE  /\ clientPc' \in [Goroutines -> {"idle", "lock", "throttle", "sleep", "send", "backoff", "store", "decoding"}]
           /\ \A d \in Goroutines \ {c} : clientPc'[d] = clientPc[d]
           /\ clientPc'[c] = "decoding" => asked[c] = "vector"
           /\ answer' \in [Goroutines -> Client!Answers]
           /\ names' \in BOOLEAN /\ series' \in BOOLEAN /\ lock' \in Goroutines \cup {None}
  <1>1. asked[c] \in Client!Queries /\ lock \in Goroutines \cup {None}
        /\ names \in BOOLEAN /\ series \in BOOLEAN
    BY DEF ClientTyping, ClientInCall, Client!TypeOK
  <1>2. Client!Unlocked(c) \in Goroutines \cup {None}
    BY <1>1 DEF Client!Unlocked
  <1> USE DEF ClientTyping, Client!TypeOK, Client!Return, Client!Step, Client!Answers, Client!cache
  <1>3. CASE Client!ReadBroken(c)
    BY <1>1, <1>2, <1>3 DEF Client!ReadBroken
  <1>4. CASE Client!ReadWhole(c)
    <2>1. PICK n \in 0..2 :
            CASE asked[c] = "names" -> /\ Client!Return(c, "value") /\ names' = TRUE
                                       /\ lock' = Client!Unlocked(c) /\ UNCHANGED series
              [] asked[c] = "series" ->
                    /\ IF n = 0 THEN Client!Return(c, "no data") ELSE Client!Step(c, "store") /\ UNCHANGED answer
                    /\ UNCHANGED Client!cache
              [] asked[c] = "instant" -> Client!Return(c, Client!InstantAnswer(n)) /\ UNCHANGED Client!cache
              [] asked[c] = "vector" -> Client!Return(c, Client!VectorAnswer(n)) /\ UNCHANGED Client!cache
      BY <1>4 DEF Client!ReadWhole
    <2> QED
      BY <1>1, <1>2, <2>1 DEF Client!Queries, Client!InstantAnswer, Client!VectorAnswer
  <1> QED
    BY <1>3, <1>4 DEF Client!Read

LEMMA ClientTypingSend ==
    ASSUME ClientTyping, NEW c \in Goroutines, Client!Send(c) PROVE ClientTyping'
  <1>1. CASE server = "up"
    BY <1>1, ClientTypingRead
       DEF Client!Send, ClientTyping, Client!ConstantsAssumption, Client!TypeOK,
           ClientInCall, Client!call
  <1>2. CASE server # "up" /\ Client!Retryable /\ clientAttempt[c] < ClientRetries
    <2>1. clientAttempt' \in [Goroutines -> 0..ClientRetries] /\ wait' \in [Goroutines -> Nat]
      <3>1. clientAttempt[c] + 1 \in 1..ClientRetries
        BY <1>2 DEF ClientTyping, Client!ConstantsAssumption, Client!TypeOK
      <3>2. clientAttempt[c] + 1 \in 0..ClientRetries /\ Backoffs[clientAttempt[c] + 1] \in Nat
        BY <3>1 DEF ClientTyping, Client!ConstantsAssumption
      <3> QED
        BY <1>2, <3>2, Zenon DEF Client!Send, ClientTyping, Client!TypeOK
    <2>2. Client!Step(c, "backoff") /\ UNCHANGED <<server, rest, Client!call, answer, Client!cache>>
      BY <1>2 DEF Client!Send
    <2> QED
      BY <2>1, <2>2
         DEF Client!Send, ClientTyping, Client!ConstantsAssumption, Client!TypeOK,
             ClientInCall, Client!Step, Client!call, Client!cache
  <1>3. CASE server # "up" /\ ~(Client!Retryable /\ clientAttempt[c] < ClientRetries)
    BY <1>3
       DEF Client!Send, ClientTyping, Client!ConstantsAssumption, Client!TypeOK,
           ClientInCall, Client!Return, Client!Step, Client!call,
       Client!Unlocked, Client!Answers
  <1> QED
    BY <1>1, <1>2, <1>3

LEMMA ClientTypingProceed ==
    ASSUME ClientTyping, NEW c \in Goroutines, Client!Proceed(c) PROVE ClientTyping'
  <1>1. Interval \in 0..Interval /\ rest \in 0..Interval /\ rest \in Nat
    BY DEF ClientTyping, Client!ConstantsAssumption, Client!TypeOK
  <1> USE DEF ClientTyping, Client!TypeOK, ClientInCall, Client!Return, Client!Step, Client!call, Client!cache
  <1>2. CASE Client!LockNames(c)
    BY <1>2 DEF Client!LockNames, Client!Answers
  <1>3. CASE Client!Throttle(c)
    BY <1>1, <1>3, Zenon DEF Client!Throttle
  <1>4. CASE Client!Wake(c)
    BY <1>1, <1>4, Zenon DEF Client!Wake
  <1>5. CASE Client!Send(c)
    BY <1>5, ClientTypingSend
  <1>6. CASE Client!Again(c)
    BY <1>6 DEF Client!Again
  <1>7. CASE Client!Store(c)
    BY <1>7 DEF Client!Store, Client!Answers
  <1> QED
    BY <1>2, <1>3, <1>4, <1>5, <1>6, <1>7 DEF Client!Proceed

LEMMA ClientTypingNext == ClientTyping /\ [Client!Next]_(Client!vars) => ClientTyping'
  <1> SUFFICES ASSUME ClientTyping, [Client!Next]_(Client!vars) PROVE ClientTyping'
    OBVIOUS
  <1>1. ASSUME NEW s \in {"up", "failing", "refusing"}, Client!Turn(s) PROVE ClientTyping'
    BY <1>1
       DEF Client!Turn, ClientTyping, Client!ConstantsAssumption, Client!TypeOK,
           ClientInCall, Client!call, Client!cache
  <1>2. CASE UNCHANGED Client!vars
    BY <1>2
       DEF Client!vars, ClientTyping, Client!ConstantsAssumption, Client!TypeOK,
           ClientInCall, Client!call, Client!cache
  <1> QED
    BY <1>1, <1>2, ClientTypingTick, ClientTypingBegin, ClientTypingProceed
       DEF Client!Next, Client!Queries

(***************************************************************************)
(* Every variable keeps its type: no request is repeated more often than   *)
(* there are waits for.                                                    *)
(***************************************************************************)
THEOREM ClientTypeCorrect == Client!Spec => []Client!TypeOK
  <1>1. ClientTyping => Client!TypeOK
    BY DEF ClientTyping
  <1> QED
    BY <1>1, ClientTypingInit, ClientTypingNext, ClientAssumption, PTL DEF Client!Spec

-----------------------------------------------------------------------------
(***************************************************************************)
(* The lock over the request.  The goroutine that fetches the names is the *)
(* one that holds the lock, from its second look at the cache through all  *)
(* repetitions to the answer or the error; nobody else can see that the    *)
(* names are missing meanwhile.                                            *)
(***************************************************************************)
ClientLockIsOfFetcher == \A c \in Goroutines : lock = c <=> Client!Fetching(c)

ClientNamesMissing == \A c \in Goroutines : Client!Fetching(c) => ~names

ClientWaitersWantNames == \A c \in Goroutines : clientPc[c] = "lock" => asked[c] = "names"

ClientLocked == ClientLockIsOfFetcher /\ ClientNamesMissing /\ ClientWaitersWantNames

LEMMA ClientLockedInit == Client!ConstantsAssumption /\ Client!Init => ClientLocked
  BY DEF Client!Init, Client!ConstantsAssumption, ClientLocked, ClientNamesMissing,
     ClientLockIsOfFetcher, Client!Fetching,
         ClientWaitersWantNames

\* The answer of a request, also a broken one, ends the fetch of the names, if it
\* was one, and leaves the lock and the names as they are otherwise.
LEMMA ClientLockedRead ==
    ASSUME ClientTyping, ClientLocked, NEW c \in Goroutines, clientPc[c] = "send", Client!Read(c)
    PROVE  /\ asked[c] = "names" => clientPc'[c] = "idle" /\ lock' = Client!Unlocked(c)
           /\ asked[c] # "names" => UNCHANGED <<names, lock>>
           /\ \A d \in Goroutines \ {c} : clientPc'[d] = clientPc[d]
           /\ asked[c] = "names" \/ clientPc'[c] \in {"idle", "store", "decoding"}
  <1> USE DEF Client!Return, Client!Step, Client!cache, ClientTyping, Client!TypeOK
  <1>1. asked[c] \in Client!Queries
    BY DEF ClientInCall
  <1>2. CASE Client!ReadBroken(c)
    <2>1. asked[c] # "names" => Client!Unlocked(c) = lock
      BY DEF ClientLocked, ClientLockIsOfFetcher, Client!Fetching, Client!Unlocked
    <2> QED
      BY <1>2, <2>1 DEF Client!ReadBroken
  <1>3. CASE Client!ReadWhole(c)
    <2>1. PICK n \in 0..2 :
            CASE asked[c] = "names" -> /\ Client!Return(c, "value") /\ names' = TRUE
                                       /\ lock' = Client!Unlocked(c) /\ UNCHANGED series
              [] asked[c] = "series" ->
                    /\ IF n = 0 THEN Client!Return(c, "no data") ELSE Client!Step(c, "store") /\ UNCHANGED answer
                    /\ UNCHANGED Client!cache
              [] asked[c] = "instant" -> Client!Return(c, Client!InstantAnswer(n)) /\ UNCHANGED Client!cache
              [] asked[c] = "vector" -> Client!Return(c, Client!VectorAnswer(n)) /\ UNCHANGED Client!cache
      BY <1>3 DEF Client!ReadWhole
    <2> QED
      BY <1>1, <2>1 DEF Client!Queries
  <1> QED
    BY <1>2, <1>3 DEF Client!Read

LEMMA ClientLockedSend ==
    ASSUME ClientTyping, ClientLocked, NEW c \in Goroutines, Client!Send(c) PROVE ClientLocked'
  <1> USE DEF ClientTyping, Client!ConstantsAssumption, Client!TypeOK, ClientLocked, ClientLockIsOfFetcher, ClientNamesMissing,
              ClientWaitersWantNames, Client!Fetching, Client!Unlocked, Client!call, Client!cache
  <1>1. CASE server = "up"
    <2>1. clientPc[c] = "send" /\ UNCHANGED asked /\ Client!Read(c)
      BY <1>1 DEF Client!Send
    <2>2. CASE asked[c] = "names"
      <3>1. lock = c /\ \A d \in Goroutines \ {c} : ~Client!Fetching(d)
        BY <2>1, <2>2
      <3>2. lock' = None /\ clientPc'[c] = "idle" /\ \A d \in Goroutines \ {c} : clientPc'[d] = clientPc[d]
        BY <2>1, <2>2, <3>1, ClientLockedRead
      <3> QED
        BY <2>1, <3>1, <3>2
    <2>3. CASE asked[c] # "names"
      <3>1. UNCHANGED <<names, lock>> /\ clientPc'[c] # "lock"
        BY <2>1, <2>3, ClientLockedRead
      <3>2. \A d \in Goroutines \ {c} : clientPc'[d] = clientPc[d]
        BY <2>1, ClientLockedRead
      <3> QED
        BY <2>1, <2>3, <3>1, <3>2
    <2> QED
      BY <2>2, <2>3
  <1>2. CASE server # "up" /\ Client!Retryable /\ clientAttempt[c] < ClientRetries
    BY <1>2 DEF Client!Send, Client!Step
  <1>3. CASE server # "up" /\ ~(Client!Retryable /\ clientAttempt[c] < ClientRetries)
    <2>1. /\ clientPc[c] = "send" /\ clientPc' = [clientPc EXCEPT ![c] = "idle"]
          /\ lock' = Client!Unlocked(c) /\ UNCHANGED <<asked, names>>
      BY <1>3, Zenon DEF Client!Send, Client!Return, Client!Step, Client!call
    <2>2. /\ clientPc'[c] = "idle" /\ \A d \in Goroutines \ {c} : clientPc'[d] = clientPc[d]
          /\ ~Client!Fetching(c)'
      BY <2>1
    <2>3. \A d \in Goroutines \ {c} : Client!Fetching(d)' <=> Client!Fetching(d)
      BY <2>1, <2>2
    <2>4. CASE lock = c
      <3>1. lock' = None /\ \A d \in Goroutines : ~Client!Fetching(d)'
        BY <2>1, <2>2, <2>3, <2>4
      <3> QED
        BY <2>1, <2>2, <3>1
    <2>5. CASE lock # c
      <3>1. lock' = lock
        BY <2>1, <2>5
      <3> QED
        BY <2>1, <2>2, <2>3, <2>5, <3>1
    <2> QED
      BY <2>4, <2>5
  <1> QED
    BY <1>1, <1>2, <1>3

LEMMA ClientLockedNext ==
    ClientTyping /\ ClientLocked /\ [Client!Next]_(Client!vars) => ClientLocked'
  <1> SUFFICES ASSUME ClientTyping, ClientLocked, [Client!Next]_(Client!vars)
               PROVE  ClientLocked'
    OBVIOUS
  <1> USE DEF ClientTyping, Client!ConstantsAssumption, Client!TypeOK, ClientLocked, ClientLockIsOfFetcher, ClientNamesMissing,
              ClientWaitersWantNames, Client!Fetching, Client!Return, Client!Step, Client!call, Client!cache
  <1>1. CASE Client!Tick \/ UNCHANGED Client!vars
    BY <1>1 DEF Client!Tick, Client!vars
  <1>2. ASSUME NEW s \in {"up", "failing", "refusing"}, Client!Turn(s) PROVE ClientLocked'
    BY <1>2 DEF Client!Turn
  <1>3. ASSUME NEW c \in Goroutines, NEW how \in Client!Queries, Client!Query(c, how)
        PROVE ClientLocked'
    BY <1>3 DEF Client!Query, Client!Begins
  <1>4. ASSUME NEW c \in Goroutines, Client!Series(c) PROVE ClientLocked'
    BY <1>4 DEF Client!Series, Client!Begins
  <1>5. ASSUME NEW c \in Goroutines, Client!MetricNames(c) PROVE ClientLocked'
    BY <1>5 DEF Client!MetricNames, Client!Begins
  <1>6. ASSUME NEW c \in Goroutines, Client!LockNames(c) PROVE ClientLocked'
    BY <1>6 DEF Client!LockNames
  <1>7. ASSUME NEW c \in Goroutines, Client!Throttle(c) PROVE ClientLocked'
    BY <1>7 DEF Client!Throttle
  <1>8. ASSUME NEW c \in Goroutines, Client!Wake(c) PROVE ClientLocked'
    BY <1>8 DEF Client!Wake
  <1>9. ASSUME NEW c \in Goroutines, Client!Again(c) PROVE ClientLocked'
    BY <1>9 DEF Client!Again
  <1>10. ASSUME NEW c \in Goroutines, Client!Store(c) PROVE ClientLocked'
    BY <1>10 DEF Client!Store
  <1> QED
    BY <1>1, <1>2, <1>3, <1>4, <1>5, <1>6, <1>7, <1>8, <1>9, <1>10, ClientLockedSend
    DEF Client!Next, Client!Proceed

(***************************************************************************)
(* The names of all metrics are fetched by one goroutine at a time, and    *)
(* never again once they are known, however many ask at once and however   *)
(* often a fetch failed before.                                            *)
(***************************************************************************)
THEOREM FetchCorrect == Client!Spec => []NamesFetchedOnce
  <1>1. ClientTyping /\ ClientLocked => NamesFetchedOnce
    BY DEF ClientLocked, ClientLockIsOfFetcher, ClientNamesMissing, NamesFetchedOnce,
       Client!NamesFetchedOnce
  <1> QED
    BY <1>1, ClientTypingInit, ClientTypingNext, ClientLockedInit, ClientLockedNext,
       ClientAssumption, PTL DEF Client!Spec

(***************************************************************************)
(* The lock is given back: whoever holds it is fetching the names, so that *)
(* no answer, error or last repetition leaves it locked for the others.    *)
(***************************************************************************)
THEOREM LockGivenBack == Client!Spec => []ClientLockIsOfFetcher
  <1>1. ClientLocked => ClientLockIsOfFetcher
    BY DEF ClientLocked
  <1> QED
    BY <1>1, ClientTypingInit, ClientTypingNext, ClientLockedInit, ClientLockedNext,
       ClientAssumption, PTL DEF Client!Spec

-----------------------------------------------------------------------------
(***************************************************************************)
(* The analysis of API latency.  Whoever answers first, data outweighs     *)
(* what the names of the candidates are worth, and the label that groups   *)
(* is looked up once more after the last choice of a metric.               *)
(***************************************************************************)

Checked == {"check names", "latency", "traffic", "errors", "baseline", "tables", "conclude"}

\* What a candidate has been given so far.
Rated(a) == IF a.hasData THEN a.score \in 50..99 ELSE a.score \in 0..49

Discovered ==
    /\ steady => latencyUp
    /\ {"auto", "route", "services", "requests"} \subseteq DOMAIN cfg /\ "chosen" \in DOMAIN analysis
    /\ latencyPc = "score latency" => toScore \subseteq Latency!Names(Latencies)
                                      /\ \A a \in scored : Rated(a)
    /\ analysis.chosen
    /\ steady /\ cfg.auto /\ latencyPc \in Checked =>
          /\ cfg.route # None => Latency!HasLabel(cfg.requests, cfg.route)
          /\ cfg.services # << >> => Latency!OnRequests(cfg.services)

\* What the client can read it can read later, as long as Prometheus answers.
LEMMA LabelsStay ==
    ASSUME NEW m, NEW l, latencyUp', world' = world, Latency!HasLabel(m, l)
    PROVE  Latency!HasLabel(m, l)'
  BY DEF Latency!HasLabel, Latency!Readable

LEMMA RatedByData ==
    ASSUME Latency!ConstantsAssumption, NEW m \in Latency!Names(Latencies), NEW a,
           a = [metric |-> m, hasData |-> Latency!HasLatency(m),
                score |-> Hint[m] + Latency!Worth(Latency!HasLatency(m), Latency!DataIsWorth)
                                  + Latency!Worth(Form[m] = "summary", 10)]
    PROVE  Rated(a)
  <1>1. Hint[m] \in 0..39
    BY DEF Latency!ConstantsAssumption, Latency!Names
  <1>2. Latency!Worth(Form[m] = "summary", 10) \in 0..10
    BY DEF Latency!Worth
  <1>3. CASE Latency!HasLatency(m)
    <2>1. Latency!Worth(Latency!HasLatency(m), Latency!DataIsWorth) = 50
      BY <1>3 DEF Latency!Worth, Latency!DataIsWorth
    <2>2. a.score \in 50..99
      BY <1>1, <1>2, <2>1
    <2>3. a.hasData
      BY <1>3, Zenon
    <2> QED
      BY <2>2, <2>3 DEF Rated
  <1>4. CASE ~Latency!HasLatency(m)
    <2>1. Latency!Worth(Latency!HasLatency(m), Latency!DataIsWorth) = 0
      BY <1>4 DEF Latency!Worth
    <2>2. a.score \in 0..49
      BY <1>1, <1>2, <2>1
    <2>3. ~a.hasData
      BY <1>4, Zenon
    <2> QED
      BY <2>2, <2>3 DEF Rated
  <1> QED
    BY <1>3, <1>4

LEMMA DiscoveredNext ==
    ASSUME Latency!ConstantsAssumption, Discovered, [Latency!Next]_(Latency!vars)
    PROVE  Discovered'
  <1> USE DEF Latency!fixed, Latency!client, Latency!Go, Latency!Fail
  <1> DEFINE Same == UNCHANGED <<world, latencyUp, steady>>
             Chosen == "chosen" \in DOMAIN analysis' /\ analysis'.chosen
  \* Before the labels are checked.
  <1>1. ASSUME Same, {"auto", "route", "services", "requests"} \subseteq DOMAIN cfg', Chosen,
               latencyPc' \notin Checked \cup {"score latency"}
        PROVE  Discovered'
    BY <1>1 DEF Discovered
  \* After that.
  <1>2. ASSUME Same, UNCHANGED cfg, Chosen, latencyPc \in Checked,
               latencyPc' # "score latency"
        PROVE  Discovered'
    BY <1>2, LabelsStay DEF Discovered, Latency!OnRequests
  <1>3. CASE Latency!ListLatency
    <2>1. Same /\ UNCHANGED <<cfg, analysis>> /\ scored' = {}
          /\ latencyPc' \in {"score latency", "request names", "end"}
          /\ (latencyPc' = "score latency" => toScore' \subseteq Latency!Names(Latencies))
      BY <1>3 DEF Latency!ListLatency
    <2> QED
      BY <2>1 DEF Discovered, Checked
  <1>4. ASSUME NEW m \in toScore, Latency!ScoreLatency(m) PROVE Discovered'
    <2>1. Same /\ UNCHANGED <<cfg, analysis, latencyPc>> /\ latencyPc = "score latency"
          /\ toScore' \subseteq toScore /\ m \in toScore
      BY <1>4 DEF Latency!ScoreLatency
    <2>2. m \in Latency!Names(Latencies)
      BY <2>1 DEF Discovered
    <2>3. \A a \in scored' : Rated(a)
      <3>1. \A a \in scored' \ scored : Rated(a)
        BY <1>4, <2>2, RatedByData DEF Latency!ScoreLatency
      <3> QED
        BY <2>1, <3>1 DEF Discovered
    <2> QED
      BY <2>1, <2>3 DEF Discovered, Checked
  <1>5. CASE Latency!ChooseLatency
    <2>1. PICK a \in Latency!Best :
             /\ cfg' = [cfg EXCEPT !.latency = a.metric]
             /\ analysis' = [analysis EXCEPT !.chosen = a.hasData \/ \A b \in scored : ~b.hasData]
      BY <1>5 DEF Latency!ChooseLatency
    <2>2. \A b \in scored : b.hasData => a.hasData
      <3>1. /\ a \in scored /\ \A b \in scored : a.score >= b.score
            /\ \A b \in scored : Rated(b)
        BY <1>5 DEF Latency!Best, Latency!ChooseLatency, Discovered
      <3> QED
        BY <3>1 DEF Rated
    <2>3. "chosen" \in DOMAIN analysis /\ {"auto", "route", "services", "requests"} \subseteq DOMAIN cfg
      BY DEF Discovered
    <2>4. DOMAIN analysis' = DOMAIN analysis /\ DOMAIN cfg' = DOMAIN cfg
      BY <2>1
    <2>5. analysis'.chosen = (a.hasData \/ \A b \in scored : ~b.hasData)
      BY <2>1, <2>3
    <2>6. analysis'.chosen
      BY <2>2, <2>5, Zenon
    <2>7. Same /\ latencyPc' = "request names"
      BY <1>5 DEF Latency!ChooseLatency
    <2> QED
      BY <1>1, <2>3, <2>4, <2>6, <2>7 DEF Checked
  <1>6. CASE \/ Latency!ListRequests \/ Latency!ChooseRequests \/ Latency!CommonLabels
             \/ Latency!FindErrorLabel \/ Latency!PreferRoutes \/ Latency!SettleRoute
             \/ Latency!ValidateLabels \/ Latency!Report
    <2>1. Same /\ UNCHANGED analysis
      BY <1>6 DEF Latency!ListRequests, Latency!ChooseRequests, Latency!CommonLabels,
         Latency!FindErrorLabel, Latency!PreferRoutes, Latency!SettleRoute,
         Latency!ValidateLabels, Latency!Report
    <2>2. latencyPc' \in {"score requests", "common labels", "error label", "prefer routes",
                          "settle route", "validate labels", "check labels", "end"}
      BY <1>6 DEF Latency!ListRequests, Latency!ChooseRequests, Latency!CommonLabels,
         Latency!FindErrorLabel, Latency!PreferRoutes, Latency!SettleRoute,
         Latency!ValidateLabels, Latency!Report
    <2>3. DOMAIN cfg' = DOMAIN cfg
      <3>1. CASE Latency!ListRequests \/ Latency!Report
        BY <3>1 DEF Latency!ListRequests, Latency!Report
      <3>2. CASE Latency!ChooseRequests
        BY <3>2 DEF Latency!ChooseRequests
      <3>3. CASE Latency!CommonLabels
        BY <3>3 DEF Latency!CommonLabels
      <3>4. CASE Latency!FindErrorLabel
        BY <3>4 DEF Latency!FindErrorLabel
      <3>5. CASE Latency!PreferRoutes
        BY <3>5 DEF Latency!PreferRoutes
      <3>6. CASE Latency!SettleRoute
        BY <3>6 DEF Latency!SettleRoute
      <3>7. CASE Latency!ValidateLabels
        BY <3>7 DEF Latency!ValidateLabels
      <3> QED
        BY <1>6, <3>1, <3>2, <3>3, <3>4, <3>5, <3>6, <3>7
    <2>4. Chosen
      BY <2>1 DEF Discovered
    <2> QED
      BY <1>1, <2>1, <2>2, <2>3, <2>4 DEF Checked, Discovered
  <1>7. ASSUME NEW m \in toScore, Latency!ScoreRequests(m) PROVE Discovered'
    <2>1. Same /\ UNCHANGED <<cfg, analysis, latencyPc>> /\ latencyPc = "score requests"
      BY <1>7 DEF Latency!ScoreRequests
    <2>2. Chosen
      BY <2>1 DEF Discovered
    <2> QED
      BY <1>1, <2>1, <2>2 DEF Checked, Discovered
  <1>8. CASE Latency!CheckLabels
    <2> DEFINE noRoute == cfg.route # None /\ ~Latency!HasLabel(cfg.requests, cfg.route)
               noService == cfg.services # << >> /\ ~Latency!OnRequests(cfg.services)
    <2>1. /\ Same /\ latencyPc' = "check names"
          /\ cfg' = [cfg EXCEPT !.route = IF noRoute /\ cfg.auto THEN None ELSE @,
                                !.services = IF noService /\ cfg.auto THEN << >> ELSE @]
          /\ \E rs : Latency!Reasons(rs)
      BY <1>8 DEF Latency!CheckLabels
    <2> HIDE DEF noRoute, noService
    <2>2. {"auto", "route", "services", "requests"} \subseteq DOMAIN cfg
      BY DEF Discovered
    <2>3. /\ cfg'.auto = cfg.auto /\ cfg'.requests = cfg.requests /\ DOMAIN cfg' = DOMAIN cfg
          /\ cfg'.route = (IF noRoute /\ cfg.auto THEN None ELSE cfg.route)
          /\ cfg'.services = (IF noService /\ cfg.auto THEN << >> ELSE cfg.services)
      BY <2>1, <2>2
    <2>4. Chosen
      BY <2>1 DEF Discovered, Latency!Reasons
    <2>5. world' = world /\ (steady' => latencyUp')
      BY <2>1 DEF Discovered
    <2>6. ASSUME steady', cfg'.auto, cfg'.route # None
          PROVE  Latency!HasLabel(cfg.requests, cfg.route)'
      <3>1. cfg'.route = cfg.route /\ Latency!HasLabel(cfg.requests, cfg.route)
        BY <2>3, <2>6 DEF noRoute
      <3> QED
        BY <2>3, <2>5, <2>6, <3>1 DEF Latency!HasLabel, Latency!Readable
    <2>7. ASSUME steady', cfg'.auto, cfg'.services # << >>
          PROVE  Latency!OnRequests(cfg.services)'
      <3>1. cfg'.services = cfg.services /\ Latency!OnRequests(cfg.services)
        BY <2>3, <2>7 DEF noService
      <3> QED
        BY <2>3, <2>5, <2>7, <3>1 DEF Latency!OnRequests, Latency!HasLabel, Latency!Readable
    <2> QED
      BY <2>1, <2>2, <2>3, <2>4, <2>5, <2>6, <2>7 DEF Discovered, Checked
  <1>9. CASE \/ Latency!CheckNames \/ Latency!QueryLatency \/ Latency!QueryTraffic
             \/ Latency!QueryErrors \/ Latency!QueryBaseline \/ Latency!QueryTables
             \/ Latency!Conclude
    <2>1. /\ Same /\ UNCHANGED cfg /\ latencyPc \in Checked
          /\ latencyPc' \in {"latency", "traffic", "errors", "baseline", "tables", "conclude",
                             "report"}
      BY <1>9 DEF Checked, Latency!CheckNames, Latency!QueryLatency, Latency!QueryTraffic,
         Latency!QueryErrors, Latency!QueryBaseline, Latency!QueryTables, Latency!Conclude
    <2>2. DOMAIN analysis' = DOMAIN analysis /\ analysis'.chosen = analysis.chosen
      <3>1. "chosen" \in DOMAIN analysis
        BY DEF Discovered
      <3>2. CASE Latency!CheckNames
        BY <3>1, <3>2 DEF Latency!CheckNames, Latency!Reasons
      <3>3. CASE Latency!QueryLatency
        BY <3>1, <3>3 DEF Latency!QueryLatency
      <3>4. CASE Latency!QueryTraffic
        BY <3>1, <3>4 DEF Latency!QueryTraffic
      <3>5. CASE Latency!QueryErrors
        BY <3>1, <3>5 DEF Latency!QueryErrors
      <3>6. CASE Latency!QueryBaseline
        BY <3>1, <3>6 DEF Latency!QueryBaseline
      <3>7. CASE Latency!QueryTables
        BY <3>1, <3>7 DEF Latency!QueryTables
      <3>8. CASE Latency!Conclude
        BY <3>1, <3>8 DEF Latency!Conclude
      <3> QED
        BY <1>9, <3>2, <3>3, <3>4, <3>5, <3>6, <3>7, <3>8
    <2>3. Chosen
      BY <2>2 DEF Discovered
    <2> QED
      BY <1>2, <2>1, <2>3
  <1>10. CASE Latency!GiveUp \/ Latency!Outage \/ Latency!Recovery \/ UNCHANGED Latency!vars
    <2>1. /\ UNCHANGED <<world, latencyKnown, cfg, latencyPc, toScore, scored, analysis>>
          /\ (steady' => steady) /\ (steady' => latencyUp')
      <3>1. CASE Latency!GiveUp
        BY <3>1 DEF Latency!GiveUp, Discovered
      <3>2. CASE Latency!Outage
        BY <3>2 DEF Latency!Outage
      <3>3. CASE Latency!Recovery
        BY <3>3 DEF Latency!Recovery, Discovered
      <3>4. CASE UNCHANGED Latency!vars
        BY <3>4 DEF Latency!vars, Discovered
      <3> QED
        BY <1>10, <3>1, <3>2, <3>3, <3>4
    <2> QED
      BY <2>1, LabelsStay DEF Discovered, Latency!OnRequests, Rated
  <1> QED
    BY <1>3, <1>4, <1>5, <1>6, <1>7, <1>8, <1>9, <1>10
       DEF Latency!Next, Latency!Discover, Latency!Analyse

\* What is discovered can be worked with (api_latency.go): a latency metric
\* that has data if any candidate has, and labels that the metric of requests
\* has, for any metrics, tags and order of answers, while Prometheus answers.
THEOREM DiscoveryCorrect ==
    Latency!Spec => []DiscoveryFits
  <1> USE LatencyAssumption
  <1>1. ASSUME Latency!Init PROVE Discovered
    <2>1. /\ steady = TRUE /\ latencyUp = TRUE
          /\ cfg \in Configs /\ latencyPc \in {"latency names", "check labels"}
      BY <1>1 DEF Latency!Init
    <2>2. "chosen" \in DOMAIN analysis /\ analysis.chosen
      BY <1>1 DEF Latency!Init
    <2> QED
      BY <2>1, <2>2 DEF Discovered, Checked, Latency!ConstantsAssumption
  <1>2. Discovered /\ [Latency!Next]_(Latency!vars) => Discovered'
    BY DiscoveredNext
  <1>3. Discovered => DiscoveryFits
    BY DEF Discovered, Checked, DiscoveryFits, Latency!DiscoveryFits,
       Latency!ChosenHasData, Latency!LabelsFit
  <1> QED
    BY <1>1, <1>2, <1>3, PTL DEF Latency!Spec

-----------------------------------------------------------------------------
(***************************************************************************)
(* The graph of dependencies.  Confidence is high only after an edge was   *)
(* compared; queries that failed leave no baseline, and what is missing    *)
(* counts as 0, which is none.                                             *)
(***************************************************************************)

\* What the edges are read from is finite, and nothing is concluded before the end.
Concluding ==
    /\ graph \in Graphs /\ asks \in ApmConfigs
    /\ apmStep \in {"labels", "limit", "p95"} => metric \in DOMAIN graph
    /\ edges = [p95 |-> edges.p95, base |-> edges.base, rps |-> edges.rps]
    /\ IsFiniteSet(DOMAIN edges.p95)
    /\ apmStep # "end" => suspect = Apm!Nothing
    /\ Apm!HighIsCompared

\* The edges that are listed, all or the first of them, are edges of the answers.
LEMMA OrdersAreEdges ==
    ASSUME Apm!ConstantsAssumption, Concluding, NEW o \in Apm!Orders, NEW i \in DOMAIN o
    PROVE  \E k \in DOMAIN edges.p95 : o[i] = Apm!Edge(k)
  <1> DEFINE all == {Apm!Edge(k) : k \in DOMAIN edges.p95}
             n == Apm!Cardinality(all)
  <1>1. n \in Nat
    <2>1. Apm!Cardinality(all) = Cardinality(all)
      BY Zenon DEF Apm!Cardinality, Cardinality
    <2>2. IsFiniteSet(all)
      <3> DEFINE f == [k \in DOMAIN edges.p95 |-> Apm!Edge(k)]
      <3>1. all = {f[k] : k \in DOMAIN edges.p95}
        OBVIOUS
      <3> HIDE DEF f, all
      <3> QED
        BY <3>1, ImageFinite DEF Concluding
    <2> QED
      BY <2>1, <2>2, FS_CardinalityType
  <1>2. asks.top \in Int
    BY DEF Concluding, Apm!ConstantsAssumption
  <1>3. PICK q \in [1..n -> all] :
            o = IF asks.top <= 0 \/ n <= asks.top THEN q ELSE SubSeq(q, 1, asks.top)
    BY DEF Apm!Orders
  <1> HIDE DEF n, all
  <1>4. o[i] \in all
    <2>1. CASE asks.top <= 0 \/ n <= asks.top
      BY <1>3, <2>1
    <2>2. CASE ~(asks.top <= 0 \/ n <= asks.top)
      <3>1. q \in Seq(all)
        BY <1>1, <1>3
      <3>2. o = SubSeq(q, 1, asks.top) /\ asks.top \in 1..n
        BY <1>1, <1>2, <1>3, <2>2
      <3> QED
        BY <1>1, <1>3, <3>1, <3>2
    <2> QED
      BY <2>1, <2>2
  <1> QED
    BY <1>4 DEF all

LEMMA HighHasBaseline ==
    ASSUME Apm!ConstantsAssumption, NEW o, NEW ranked, NEW e, NEW hop,
           Apm!Concluded(o, ranked, e, hop).confidence = "high"
    PROVE  Apm!HasBaseline(o)
  BY DEF Apm!Concluded, Apm!ScoreConfidence, Apm!EdgeConfidence, Apm!ConstantsAssumption

LEMMA ConcludingNext ==
    ASSUME Apm!ConstantsAssumption, Concluding, [Apm!Next]_(Apm!vars)
    PROVE  Concluding'
  <1> USE DEF Apm!given, Apm!Go, Apm!Stop
  <1>1. None # "high" /\ Apm!Nothing.confidence = None
    BY DEF Apm!ConstantsAssumption, Apm!Nothing
  <1>2. ASSUME graph' \in Graphs, asks' \in ApmConfigs, UNCHANGED edges,
               apmStep' \in {"labels", "limit", "p95"} => metric' \in DOMAIN graph',
               apmStep' # "end" => suspect' = Apm!Nothing,
               \/ UNCHANGED suspect
               \/ \E why : suspect' = [Apm!Nothing EXCEPT !.reason = why]
        PROVE  Concluding'
    <2>1. suspect' = suspect \/ suspect'.confidence # "high"
      BY <1>1, <1>2 DEF Apm!Nothing
    <2> QED
      BY <1>2, <2>1 DEF Concluding, Apm!HighIsCompared
  <1>3. CASE Apm!Outage \/ Apm!Recovery
    BY <1>2, <1>3 DEF Apm!Outage, Apm!Recovery, Concluding
  <1>4. CASE Apm!DetectMetric
    <2>1. UNCHANGED <<graph, asks, edges>> /\ apmStep = "metric"
      BY <1>4 DEF Apm!DetectMetric
    <2>2. CASE \E why : Apm!Stop(why)
      BY <1>2, <2>1, <2>2 DEF Concluding
    <2>3. CASE Apm!Go("labels") /\ metric' # None
               /\ \/ metric' = asks.metric
                  \/ \E good : metric' = Apm!First(Metrics, good)
      <3>1. metric' \in DOMAIN graph
        <4>1. CASE metric' = asks.metric
          BY <2>3, <4>1 DEF Apm!ConstantsAssumption, Concluding
        <4>2. CASE \E good : metric' = Apm!First(Metrics, good)
          <5>1. PICK good : metric' = Apm!First(Metrics, good)
            BY <4>2
          <5>2. \E i \in DOMAIN Metrics : metric' = Metrics[i]
            <6> DEFINE at == {i \in DOMAIN Metrics : Metrics[i] \in good}
            <6>1. at # {} /\ metric' = Metrics[Apm!Min(at)]
              BY <2>3, <5>1 DEF Apm!First
            <6>2. at \subseteq Nat
              BY DEF Apm!ConstantsAssumption
            <6>3. Apm!Min(at) \in at
              <7> HIDE DEF at
              <7> QED
                BY <6>1, <6>2, LeastNatural DEF Apm!Min
            <6> QED
              BY <6>1, <6>3
          <5> QED
            BY <2>3, <5>2 DEF Apm!ConstantsAssumption, Concluding
        <4> QED
          BY <2>3, <4>1, <4>2
      <3> QED
        BY <1>2, <2>1, <2>3, <3>1 DEF Concluding
    <2> QED
      BY <1>4, <2>2, <2>3 DEF Apm!DetectMetric
  <1>5. CASE Apm!DetectLabels
    BY <1>2, <1>5 DEF Apm!DetectLabels, Concluding
  <1>6. CASE Apm!CheckLimit
    BY <1>2, <1>6 DEF Apm!CheckLimit, Concluding
  <1>7. CASE Apm!QueryP95
    <2>1. UNCHANGED <<graph, asks, metric>> /\ apmStep = "p95"
      BY <1>7 DEF Apm!QueryP95
    <2>2. CASE UNCHANGED edges /\ \E why : Apm!Stop(why)
      BY <1>2, <2>1, <2>2 DEF Concluding
    <2>3. CASE Apm!Go("baseline") /\
               edges' = [edges EXCEPT !.p95 = [k \in DOMAIN Apm!Series |-> Apm!P95(Apm!Series[k])]]
      <3>1. IsFiniteSet(DOMAIN Apm!Series)
        <4>1. IsFiniteSet(graph[metric])
          <5>1. graph \in Graphs /\ metric \in DOMAIN graph
            BY <2>1 DEF Concluding
          <5> QED
            BY <5>1, Zenon DEF Apm!ConstantsAssumption, Apm!IsFiniteSet, IsFiniteSet
        <4>2. Apm!Selected \in SUBSET graph[metric]
          BY DEF Apm!Selected
        <4>3. IsFiniteSet(Apm!Selected)
          BY <4>1, <4>2, FS_Subset
        <4> DEFINE f == [s \in Apm!Selected |-> Apm!Key(s)]
        <4>4. DOMAIN Apm!Series = {f[s] : s \in Apm!Selected}
          BY DEF Apm!Series
        <4> HIDE DEF f
        <4> QED
          BY <4>3, <4>4, ImageFinite
      <3>2. edges' = [p95 |-> [k \in DOMAIN Apm!Series |-> Apm!P95(Apm!Series[k])],
                      base |-> edges.base, rps |-> edges.rps]
        BY <2>3 DEF Concluding
      <3>3. suspect' = Apm!Nothing /\ apmStep' = "baseline"
        BY <2>1, <2>3 DEF Concluding
      <3> QED
        BY <1>1, <2>1, <3>1, <3>2, <3>3 DEF Concluding, Apm!HighIsCompared
    <2> QED
      BY <1>7, <2>2, <2>3 DEF Apm!QueryP95
  <1>8. CASE Apm!QueryBaseline \/ Apm!QueryRps
    <2>1. UNCHANGED <<graph, asks>> /\ apmStep' \in {"rps", "conclude"} /\ suspect' = Apm!Nothing
      BY <1>8 DEF Apm!QueryBaseline, Apm!QueryRps, Concluding
    <2>2. \E b, r : edges' = [p95 |-> edges.p95, base |-> b, rps |-> r]
      <3>1. CASE UNCHANGED edges
        BY <3>1 DEF Concluding
      <3>2. ASSUME NEW b, edges' = [edges EXCEPT !.base = b]
            PROVE  edges' = [p95 |-> edges.p95, base |-> b, rps |-> edges.rps]
        BY <3>2 DEF Concluding
      <3>3. ASSUME NEW r, edges' = [edges EXCEPT !.rps = r]
            PROVE  edges' = [p95 |-> edges.p95, base |-> edges.base, rps |-> r]
        BY <3>3 DEF Concluding
      <3> QED
        BY <1>8, <3>1, <3>2, <3>3 DEF Apm!QueryBaseline, Apm!QueryRps
    <2> QED
      BY <1>1, <2>1, <2>2 DEF Concluding, Apm!HighIsCompared
  <1>9. CASE Apm!Conclude
    <2>1. UNCHANGED <<graph, asks, edges>> /\ apmStep' = "end"
      BY <1>9 DEF Apm!Conclude
    <2>2. PICK o \in Apm!Orders : \E ranked, e, hop : suspect' = Apm!Concluded(o, ranked, e, hop)
      BY <1>9 DEF Apm!Conclude
    <2>3. ASSUME suspect'.confidence = "high"
          PROVE  \E k \in DOMAIN edges.base : Apm!More(edges.base[k], 1)
      <3>1. Apm!HasBaseline(o)
        BY <2>2, <2>3, HighHasBaseline
      <3>2. PICK i \in DOMAIN o : Apm!More(o[i].base, 1)
        BY <3>1 DEF Apm!HasBaseline
      <3>3. PICK k \in DOMAIN edges.p95 : o[i] = Apm!Edge(k)
        BY OrdersAreEdges
      <3>4. o[i].base = Apm!At(edges.base, k)
        BY <3>3 DEF Apm!Edge
      <3>5. k \in DOMAIN edges.base /\ o[i].base = edges.base[k]
        BY <3>2, <3>4 DEF Apm!At, Apm!More, Apm!ConstantsAssumption
      <3> QED
        BY <3>2, <3>5
    <2> QED
      BY <2>1, <2>3 DEF Concluding, Apm!HighIsCompared
  <1>10. CASE UNCHANGED Apm!vars
    BY <1>2, <1>10 DEF Apm!vars, Concluding
  <1> QED
    BY <1>3, <1>4, <1>5, <1>6, <1>7, <1>8, <1>9, <1>10 DEF Apm!Next

\* High confidence in a cause needs a baseline that was read (apm.go), for any
\* metrics, labels and graphs, and whichever queries fail.
THEOREM ComparedCorrect == Apm!Spec => []HighIsCompared
  <1> USE ApmAssumption
  <1>1. ASSUME Apm!Init PROVE Concluding
    <2>1. suspect.confidence # "high"
      BY <1>1 DEF Apm!Init, Apm!Nothing, Apm!ConstantsAssumption
    <2>2. edges = [p95 |-> << >>, base |-> << >>, rps |-> << >>]
      BY <1>1 DEF Apm!Init
    <2>3. DOMAIN edges.p95 = {}
      BY <2>2
    <2>4. edges = [p95 |-> edges.p95, base |-> edges.base, rps |-> edges.rps]
      BY <2>2
    <2> QED
      BY <1>1, <2>1, <2>3, <2>4, FS_EmptySet DEF Apm!Init, Concluding, Apm!HighIsCompared
  <1>2. Concluding /\ [Apm!Next]_(Apm!vars) => Concluding'
    BY ConcludingNext
  <1>3. Concluding => HighIsCompared
    BY DEF Concluding, HighIsCompared
  <1> QED
    BY <1>1, <1>2, <1>3, PTL DEF Apm!Spec

=============================================================================
