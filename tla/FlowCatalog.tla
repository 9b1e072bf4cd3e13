---------------------------- MODULE FlowCatalog ----------------------------
(***************************************************************************)
(* The cache of flow files of one profile (src/internal/flow/loader.go):   *)
(* LoadOnce, called by commands, views and handlers at once, and the       *)
(* watcher that polls the files and invalidates the cache.                 *)
(*                                                                         *)
(* A version stands for the content of the files; every change makes a new *)
(* one. The map of sync.Once values and the maps of results are guarded by *)
(* one lock, which LoadOnce takes and releases several times.              *)
(***************************************************************************)
EXTENDS Naturals, FiniteSets

CONSTANTS Loaders,      \* callers of LoadOnce
          NoOnce,       \* no entry in loadOncePerProfile
          MaxVersion    \* bound on changes of the files

VARIABLES disk,         \* version of the files
          manifest,     \* version the watcher saw last
          polled,       \* the watcher found a change and has yet to invalidate
          once,         \* the entry of loadOncePerProfile
          done,         \* once values whose load has returned
          cached,       \* cachedResultPerProfile, 0 when absent
          mine,         \* the once each loader works with
          read,         \* the version each loader read or returned
          pc,
          base,         \* version at the last invalidation
          raced         \* a load overlapped another one or an invalidation

vars == <<disk, manifest, polled, once, done, cached, mine, read, pc, base, raced>>
loader == <<mine, read, pc>>
watcher == <<disk, manifest, polled>>

\* Enough sync.Once values for a new one always to be at hand.
Onces == 1..(Cardinality(Loaders) + 1)

ConstantsAssumption == MaxVersion \in Nat \ {0} /\ NoOnce \notin Onces

TypeOK ==
    /\ disk \in 1..MaxVersion /\ manifest \in 0..disk /\ polled \in BOOLEAN
    /\ once \in Onces \cup {NoOnce} /\ done \subseteq Onces
    /\ cached \in 0..disk /\ base \in 0..disk /\ raced \in BOOLEAN
    /\ mine \in [Loaders -> Onces \cup {NoOnce}] /\ read \in [Loaders -> 0..disk]
    /\ pc \in [Loaders -> {"idle", "install", "do", "store"}]

Busy == {l \in Loaders : pc[l] # "idle"}

Init ==
    /\ disk = 1 /\ manifest = 0 /\ polled = FALSE
    /\ once = NoOnce /\ done = {} /\ cached = 0
    /\ mine = [l \in Loaders |-> NoOnce]
    /\ read = [l \in Loaders |-> 0]
    /\ pc = [l \in Loaders |-> "idle"]
    /\ base = 0 /\ raced = FALSE

Edit ==
    /\ disk < MaxVersion
    /\ disk' = disk + 1
    /\ UNCHANGED <<manifest, polled, once, done, cached, loader, base, raced>>

Poll ==
    /\ ~polled /\ disk # manifest
    /\ manifest' = disk
    /\ polled' = TRUE
    /\ UNCHANGED <<disk, once, done, cached, loader, base, raced>>

\* As InvalidateCache, leaving the sync.Once in the map.
InvalidateResultOnly ==
    /\ polled
    /\ polled' = FALSE
    /\ cached' = 0
    /\ base' = manifest
    /\ raced' = (raced \/ Busy # {})
    /\ UNCHANGED <<disk, manifest, once, done, loader>>

InvalidateCache ==
    /\ polled
    /\ polled' = FALSE
    /\ once' = NoOnce /\ cached' = 0
    /\ base' = manifest
    /\ raced' = (raced \/ Busy # {})
    /\ UNCHANGED <<disk, manifest, done, loader>>

\* The read lock: take the entry there is.
Look(l) ==
    /\ pc[l] = "idle"
    /\ mine' = [mine EXCEPT ![l] = once]
    /\ pc' = [pc EXCEPT ![l] = IF once = NoOnce THEN "install" ELSE "do"]
    /\ raced' = (raced \/ Busy # {})
    /\ UNCHANGED <<watcher, once, done, cached, read, base>>

\* The write lock: the entry is not looked up again.
Install(l) ==
    /\ pc[l] = "install"
    /\ once' \in Onces \ ({once} \cup {mine[k] : k \in Loaders})
    /\ mine' = [mine EXCEPT ![l] = once']
    /\ done' = done \ {once'}
    /\ pc' = [pc EXCEPT ![l] = "do"]
    /\ UNCHANGED <<watcher, cached, read, base, raced>>

\* once.Do: the first caller reads the files; the others wait for it.
ReadFiles(l) ==
    /\ pc[l] = "do" /\ mine[l] \notin done
    /\ \A k \in Loaders : ~(mine[k] = mine[l] /\ pc[k] = "store")
    /\ read' = [read EXCEPT ![l] = disk]
    /\ pc' = [pc EXCEPT ![l] = "store"]
    /\ UNCHANGED <<watcher, once, done, cached, mine, base, raced>>

Store(l) ==
    /\ pc[l] = "store"
    /\ cached' = read[l]
    /\ done' = done \cup {mine[l]}
    /\ pc' = [pc EXCEPT ![l] = "do"]
    /\ UNCHANGED <<watcher, once, mine, read, base, raced>>

Return(l) ==
    /\ pc[l] = "do" /\ mine[l] \in done
    /\ read' = [read EXCEPT ![l] = cached]
    /\ mine' = [mine EXCEPT ![l] = NoOnce]
    /\ pc' = [pc EXCEPT ![l] = "idle"]
    /\ UNCHANGED <<watcher, once, done, cached, base, raced>>

Load(l) == Look(l) \/ Install(l) \/ ReadFiles(l) \/ Store(l) \/ Return(l)
Next == Edit \/ Poll \/ InvalidateCache \/ \E l \in Loaders : Load(l)

Spec == Init /\ [][Next]_vars

\* ------------------------------ properties -------------------------------

\* As long as loads and invalidations have not overlapped, what a caller gets
\* is what the files held at the last invalidation or later, never nothing.
FreshUnlessRaced ==
    [][\A l \in Loaders : Return(l) /\ ~raced => read'[l] > 0 /\ read'[l] >= base]_vars

=============================================================================
