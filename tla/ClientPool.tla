----------------------------- MODULE ClientPool -----------------------------
(***************************************************************************)
(* The process-wide pool of HttpClients kept by the cgo binding            *)
(* (cffi_binding/main.go).  A request looks its configuration key up       *)
(* without a lock, then again under clientPoolMu, and builds and inserts a *)
(* client only if both lookups miss.  Three parties remove entries: the    *)
(* LRU cap that every insertion and every SetPoolMaxEntries enforces, the  *)
(* background TTL scanner, and ClearClientPool.  Timestamps are written by *)
(* cache hits without any lock, so every scan of them races with refreshes.*)
(***************************************************************************)
EXTENDS Integers, FiniteSets

CONSTANTS Threads,      \* goroutines that run getOrCreateClientFromConfig
          Keys,         \* distinct client configurations (cache keys)
          Caps,         \* arguments callers pass to SetPoolMaxEntries
          TTLs,         \* arguments callers pass to SetPoolTTL
          DefaultCap,   \* defaultPoolMaxEntries
          DefaultTTL,   \* 5 minutes
          MaxClock,     \* bound: the clock stops here
          MaxBuilds     \* bound: clients ever built

Scanner == "scanner"    \* the goroutine startEviction launches
Admin   == "admin"      \* the thread that calls SetPoolMaxEntries
Free    == "free"       \* clientPoolMu is not held
NoKey   == "nokey"      \* the empty protectedKey of SetPoolMaxEntries
NoEntry == 0            \* the key is not in clientPool
NoStamp == -1           \* not a candidate for LRU eviction

ASSUME PoolAssumption ==
    /\ IsFiniteSet(Keys) /\ NoKey \notin Keys
    /\ Scanner \notin Threads /\ Admin \notin Threads /\ Free \notin Threads
    /\ Caps \subseteq Int /\ TTLs \subseteq Int
    /\ DefaultCap \in Nat \ {0} /\ DefaultTTL \in Nat \ {0}
    /\ MaxClock \in Nat /\ MaxBuilds \in Nat

VARIABLES
    pool,            \* clientPool: key -> poolEntry (its number) or NoEntry
    lastAccess,      \* poolEntry.lastAccess, for every entry ever built
    builds,          \* number of entries ever built; the next one is builds+1
    count,           \* poolEntryCount
    maxEntries,      \* poolMaxEntries; <= 0 means unlimited
    ttl,             \* poolTTLNs
    totalEvictions,  \* totalEvictions
    cleared,         \* history: entries removed by ClearClientPool
    mu,              \* holder of clientPoolMu
    clock,           \* time.Now()
    pc,              \* where each process stands
    key,             \* the key a process works for (protectedKey while it evicts)
    ent,             \* the entry a cache hit found
    stamp,           \* the time a cache hit read before it stores it
    cap,             \* evictLRUOverCapLocked: maxEntries as read at its start
    left,            \* ... keys its Range has still to visit
    cand,            \* ... candidates: key -> lastAccess as read by the Range
    cutoff,          \* evictStaleEntries: cutoff
    scanLeft,        \* ... keys its Range has still to visit
    toDelete,        \* ... toDelete
    victim,          \* ... the key that passed the re-check and is deleted next
    evicted          \* ... evicted

reqVars   == <<key, ent, stamp>>
evictVars == <<cap, left, cand>>
scanVars  == <<cutoff, scanLeft, toDelete, victim, evicted>>
statVars  == <<count, totalEvictions, cleared>>
confVars  == <<maxEntries, ttl>>
vars == <<pool, lastAccess, builds, mu, clock, pc, reqVars, evictVars, scanVars,
          statVars, confVars>>

Procs  == Threads \cup {Scanner, Admin}
Pooled == {k \in Keys : pool[k] # NoEntry}

Goto(p, label) == pc' = [pc EXCEPT ![p] = label]

\* Locals go out of scope when a function returns; they are reset so that
\* states that differ only in dead values are one state.
Return(p) ==
    /\ pc' = [pc EXCEPT ![p] = "idle"]
    /\ key' = [key EXCEPT ![p] = NoKey]
DropEvictVars == cap' = 0 /\ left' = {} /\ cand' = [k \in Keys |-> NoStamp]
-----------------------------------------------------------------------------
Init ==
    /\ pool = [k \in Keys |-> NoEntry]
    /\ lastAccess = [e \in 1..MaxBuilds |-> 0]
    /\ builds = 0 /\ count = 0 /\ totalEvictions = 0 /\ cleared = 0
    /\ maxEntries = DefaultCap /\ ttl = DefaultTTL
    /\ mu = Free /\ clock = 0
    /\ pc = [p \in Procs |-> IF p = Scanner THEN "off" ELSE "idle"]
    /\ key = [p \in Procs |-> NoKey]
    /\ ent = [t \in Threads |-> NoEntry]
    /\ stamp = [t \in Threads |-> 0]
    /\ cap = 0 /\ left = {} /\ cand = [k \in Keys |-> NoStamp]
    /\ cutoff = 0 /\ scanLeft = {} /\ toDelete = {} /\ victim = NoKey /\ evicted = 0

Tick ==
    /\ clock < MaxClock
    /\ clock' = clock + 1
    /\ UNCHANGED <<pool, lastAccess, builds, mu, pc, reqVars, evictVars,
                   scanVars, statVars, confVars>>
-----------------------------------------------------------------------------
(* getOrCreateClientFromConfig.  The first call also starts the scanner.   *)

Request(t, k) ==
    /\ pc[t] = "idle"
    /\ pc' = [pc EXCEPT ![t] = "lookup",
                        ![Scanner] = IF @ = "off" THEN "sleep" ELSE @]
    /\ key' = [key EXCEPT ![t] = k]
    /\ UNCHANGED <<pool, lastAccess, builds, mu, clock, ent, stamp, evictVars,
                   scanVars, statVars, confVars>>

\* The lock-free clientPool.Load of the fast path.
LookupFast(t) ==
    /\ pc[t] = "lookup"
    /\ ent' = [ent EXCEPT ![t] = pool[key[t]]]
    /\ Goto(t, IF pool[key[t]] # NoEntry THEN "stamp" ELSE "lock")
    /\ UNCHANGED <<pool, lastAccess, builds, mu, clock, key, stamp, evictVars,
                   scanVars, statVars, confVars>>

\* Mutant: no second lookup once the lock is held.
LookupLockedOnce(t) ==
    /\ pc[t] = "lock" /\ mu = Free
    /\ mu' = t
    /\ Goto(t, "build")
    /\ UNCHANGED <<pool, lastAccess, builds, clock, reqVars, evictVars,
                   scanVars, statVars, confVars>>

\* clientPoolMu.Lock() and the second Load, which no other writer can race.
LookupLocked(t) ==
    /\ pc[t] = "lock" /\ mu = Free
    /\ mu' = t
    /\ ent' = [ent EXCEPT ![t] = pool[key[t]]]
    /\ Goto(t, IF pool[key[t]] # NoEntry THEN "stampLocked" ELSE "build")
    /\ UNCHANGED <<pool, lastAccess, builds, clock, key, stamp, evictVars,
                   scanVars, statVars, confVars>>

\* time.Now() of a hit; the store below is a step of its own, so a slower hit
\* may overwrite a newer timestamp with an older one.
ReadClock(t) ==
    /\ pc[t] \in {"stamp", "stampLocked"}
    /\ stamp' = [stamp EXCEPT ![t] = clock]
    /\ Goto(t, IF pc[t] = "stamp" THEN "touch" ELSE "touchLocked")
    /\ UNCHANGED <<pool, lastAccess, builds, mu, clock, key, ent, evictVars,
                   scanVars, statVars, confVars>>

\* lastAccess.Store and return pe.client: the entry may be gone from the pool.
Touch(t) ==
    /\ pc[t] \in {"touch", "touchLocked"}
    /\ lastAccess' = [lastAccess EXCEPT ![ent[t]] = stamp[t]]
    /\ mu' = IF pc[t] = "touchLocked" THEN Free ELSE mu
    /\ ent' = [ent EXCEPT ![t] = NoEntry]
    /\ stamp' = [stamp EXCEPT ![t] = 0]
    /\ Return(t)
    /\ UNCHANGED <<pool, builds, clock, evictVars, scanVars, statVars, confVars>>

\* buildClientFromConfig returned an error: the deferred unlock runs.
BuildFails(t) ==
    /\ pc[t] = "build"
    /\ mu' = Free
    /\ Return(t)
    /\ UNCHANGED <<pool, lastAccess, builds, clock, ent, stamp, evictVars,
                   scanVars, statVars, confVars>>

\* The client is built, stored with a fresh timestamp and counted.
Insert(t) ==
    /\ pc[t] = "build" /\ builds < MaxBuilds
    /\ builds' = builds + 1
    /\ lastAccess' = [lastAccess EXCEPT ![builds + 1] = clock]
    /\ pool' = [pool EXCEPT ![key[t]] = builds + 1]
    /\ count' = count + 1
    /\ Goto(t, "evict")
    /\ UNCHANGED <<mu, clock, reqVars, evictVars, scanVars, totalEvictions,
                   cleared, confVars>>
-----------------------------------------------------------------------------
(* evictLRUOverCapLocked(protectedKey), run with clientPoolMu held by p.   *)

EvictBegin(p) ==
    /\ pc[p] = "evict"
    /\ IF maxEntries <= 0
         THEN /\ mu' = Free
              /\ Return(p)
              /\ UNCHANGED evictVars
         ELSE /\ cap' = maxEntries
              /\ left' = Keys
              /\ Goto(p, "evictRange")
              /\ UNCHANGED <<mu, key, cand>>
    /\ UNCHANGED <<pool, lastAccess, builds, clock, ent, stamp, scanVars,
                   statVars, confVars>>

\* Mutant: the Range offers the protected key as a candidate too.
EvictVisitAny(p, k) ==
    /\ pc[p] = "evictRange" /\ k \in left
    /\ left' = left \ {k}
    /\ cand' = [cand EXCEPT ![k] = IF pool[k] # NoEntry THEN lastAccess[pool[k]]
                                   ELSE NoStamp]
    /\ UNCHANGED <<pool, lastAccess, builds, mu, clock, pc, reqVars, cap,
                   scanVars, statVars, confVars>>

\* One callback of clientPool.Range: a timestamp is read while hits move it.
EvictVisit(p, k) ==
    /\ pc[p] = "evictRange" /\ k \in left
    /\ left' = left \ {k}
    /\ cand' = [cand EXCEPT ![k] = IF pool[k] # NoEntry /\ k # key[p]
                                     THEN lastAccess[pool[k]]
                                     ELSE NoStamp]
    /\ UNCHANGED <<pool, lastAccess, builds, mu, clock, pc, reqVars, cap,
                   scanVars, statVars, confVars>>

\* Mutant: the protected entry is not counted.
LiveNone(p) == 0

Candidates == {k \in Keys : cand[k] # NoStamp}
Live(p) == IF key[p] \in Pooled THEN 1 ELSE 0

\* The sets the sorted prefix candidates[0..over-1] may be; sort.Slice is not
\* stable and Range has no order, so ties are broken either way.
Oldest(n) ==
    {V \in SUBSET Candidates :
        /\ Cardinality(V) = n
        /\ \A v \in V, c \in Candidates \ V : cand[v] <= cand[c]}

\* Mutant: one entry too few is evicted.
OverLess(p) ==
    LET o == Cardinality(Candidates) + Live(p) - cap - 1
    IN  IF o <= 0 THEN 0 ELSE o

\* over, after it was clamped to the number of candidates.
Over(p) ==
    LET n == Cardinality(Candidates)
        o == n + Live(p) - cap
    IN  IF o <= 0 THEN 0 ELSE IF o > n THEN n ELSE o

\* Recount, delete the oldest entries over the cap, unlock.
EvictFinish(p) ==
    /\ pc[p] = "evictRange" /\ left = {}
    /\ \E V \in Oldest(Over(p)) :
          /\ pool' = [k \in Keys |-> IF k \in V THEN NoEntry ELSE pool[k]]
          /\ count' = Cardinality(Candidates) + Live(p) - Over(p)
          /\ totalEvictions' = totalEvictions + Over(p)
    /\ mu' = Free
    /\ Return(p) /\ DropEvictVars
    /\ UNCHANGED <<lastAccess, builds, clock, ent, stamp, scanVars, cleared,
                   confVars>>
-----------------------------------------------------------------------------
(* evictStaleEntries, one pass of the background scanner.                  *)

ScanBegin ==
    /\ pc[Scanner] = "sleep"
    /\ cutoff' = clock - (IF ttl <= 0 THEN DefaultTTL ELSE ttl)
    /\ scanLeft' = Keys
    /\ toDelete' = {}
    /\ Goto(Scanner, "range")
    /\ UNCHANGED <<pool, lastAccess, builds, mu, clock, reqVars, evictVars,
                   victim, evicted, statVars, confVars>>

\* One callback of the lock-free Range: entries come and go around it.
ScanVisit(k) ==
    /\ pc[Scanner] = "range" /\ k \in scanLeft
    /\ scanLeft' = scanLeft \ {k}
    /\ toDelete' = IF pool[k] # NoEntry /\ lastAccess[pool[k]] < cutoff
                     THEN toDelete \cup {k} ELSE toDelete
    /\ UNCHANGED <<pool, lastAccess, builds, mu, clock, pc, reqVars, evictVars,
                   cutoff, victim, evicted, statVars, confVars>>

\* Serialise with insertions, LRU eviction and ClearClientPool.
ScanLock ==
    /\ pc[Scanner] = "range" /\ scanLeft = {} /\ mu = Free
    /\ mu' = Scanner
    /\ evicted' = 0
    /\ Goto(Scanner, "sweep")
    /\ UNCHANGED <<pool, lastAccess, builds, clock, reqVars, evictVars, cutoff,
                   scanLeft, toDelete, victim, statVars, confVars>>

\* The re-check under the lock: skip what is gone or was refreshed meanwhile.
ScanRecheck(k) ==
    /\ pc[Scanner] = "sweep" /\ k \in toDelete
    /\ toDelete' = toDelete \ {k}
    /\ IF pool[k] = NoEntry \/ lastAccess[pool[k]] >= cutoff
         THEN UNCHANGED <<pc, victim>>
         ELSE /\ victim' = k
              /\ Goto(Scanner, "delete")
    /\ UNCHANGED <<pool, lastAccess, builds, mu, clock, reqVars, evictVars,
                   cutoff, scanLeft, evicted, statVars, confVars>>

\* CloseIdleConnections (which takes time: hits go on), Delete, counters.
ScanDelete ==
    /\ pc[Scanner] = "delete"
    /\ pool' = [pool EXCEPT ![victim] = NoEntry]
    /\ count' = count - 1
    /\ evicted' = evicted + 1
    /\ victim' = NoKey
    /\ Goto(Scanner, "sweep")
    /\ UNCHANGED <<lastAccess, builds, mu, clock, reqVars, evictVars, cutoff,
                   scanLeft, toDelete, totalEvictions, cleared, confVars>>

\* Mutant: the sweep does not report what it evicted.
ScanEndSilent ==
    /\ pc[Scanner] = "sweep" /\ toDelete = {}
    /\ mu' = Free
    /\ cutoff' = 0 /\ evicted' = 0
    /\ Goto(Scanner, "sleep")
    /\ UNCHANGED <<pool, lastAccess, builds, clock, reqVars, evictVars,
                   scanLeft, toDelete, victim, statVars, confVars>>

\* Mutant: an early return when nothing is evicted leaves the mutex locked.
ScanEndLocked ==
    /\ pc[Scanner] = "sweep" /\ toDelete = {}
    /\ totalEvictions' = totalEvictions + evicted
    /\ mu' = IF evicted = 0 THEN mu ELSE Free
    /\ cutoff' = 0 /\ evicted' = 0
    /\ Goto(Scanner, "sleep")
    /\ UNCHANGED <<pool, lastAccess, builds, clock, reqVars, evictVars,
                   scanLeft, toDelete, victim, count, cleared, confVars>>

ScanEnd ==
    /\ pc[Scanner] = "sweep" /\ toDelete = {}
    /\ totalEvictions' = totalEvictions + evicted
    /\ mu' = Free
    /\ cutoff' = 0 /\ evicted' = 0
    /\ Goto(Scanner, "sleep")
    /\ UNCHANGED <<pool, lastAccess, builds, clock, reqVars, evictVars,
                   scanLeft, toDelete, victim, count, cleared, confVars>>
-----------------------------------------------------------------------------
(* Exported administration calls.                                          *)

NormalCap(n) == IF n < 0 THEN DefaultCap ELSE n

\* SetPoolMaxEntries stores the cap first and locks afterwards.
SetMaxEntries(n) ==
    /\ pc[Admin] = "idle"
    /\ maxEntries' = NormalCap(n)
    /\ Goto(Admin, "lock")
    /\ UNCHANGED <<pool, lastAccess, builds, mu, clock, reqVars, evictVars,
                   scanVars, statVars, ttl>>

SetMaxEntriesLock ==
    /\ pc[Admin] = "lock" /\ mu = Free
    /\ mu' = Admin
    /\ Goto(Admin, "evict")
    /\ UNCHANGED <<pool, lastAccess, builds, clock, reqVars, evictVars,
                   scanVars, statVars, confVars>>

SetTTL(s) ==
    /\ ttl' = IF s <= 0 THEN DefaultTTL ELSE s
    /\ UNCHANGED <<pool, lastAccess, builds, mu, clock, pc, reqVars, evictVars,
                   scanVars, statVars, maxEntries>>

\* Mutant: ClearClientPool without clientPoolMu.
ClearUnlocked ==
    /\ pool' = [k \in Keys |-> NoEntry]
    /\ count' = 0
    /\ cleared' = cleared + Cardinality(Pooled)
    /\ UNCHANGED <<lastAccess, builds, mu, clock, pc, reqVars, evictVars,
                   scanVars, totalEvictions, confVars>>

\* Mutant: ClearClientPool also closes evictionStopCh; evictionOnce has fired.
ClearStops ==
    /\ mu = Free
    /\ pool' = [k \in Keys |-> NoEntry]
    /\ count' = 0
    /\ cleared' = cleared + Cardinality(Pooled)
    /\ pc' = [pc EXCEPT ![Scanner] = IF @ = "sleep" THEN "stopped" ELSE @]
    /\ UNCHANGED <<lastAccess, builds, mu, clock, reqVars, evictVars,
                   scanVars, totalEvictions, confVars>>

\* ClearClientPool: close, delete and reset the count under the lock.
Clear ==
    /\ mu = Free
    /\ pool' = [k \in Keys |-> NoEntry]
    /\ count' = 0
    /\ cleared' = cleared + Cardinality(Pooled)
    /\ UNCHANGED <<lastAccess, builds, mu, clock, pc, reqVars, evictVars,
                   scanVars, totalEvictions, confVars>>
-----------------------------------------------------------------------------
ThreadStep(t) ==
    \/ LookupFast(t) \/ LookupLocked(t) \/ ReadClock(t) \/ Touch(t)
    \/ BuildFails(t) \/ Insert(t)

EvictStep(p) ==
    \/ EvictBegin(p)
    \/ \E k \in Keys : EvictVisit(p, k)
    \/ EvictFinish(p)

ScanStep ==
    \/ ScanBegin \/ ScanLock \/ ScanDelete \/ ScanEnd
    \/ \E k \in Keys : ScanVisit(k) \/ ScanRecheck(k)

Next ==
    \/ Tick
    \/ \E t \in Threads : ThreadStep(t) \/ \E k \in Keys : Request(t, k)
    \/ \E p \in Threads \cup {Admin} : EvictStep(p)
    \/ ScanStep
    \/ \E n \in Caps : SetMaxEntries(n)
    \/ SetMaxEntriesLock
    \/ \E s \in TTLs : SetTTL(s)
    \/ Clear

Spec == Init /\ [][Next]_vars

(* Go's scheduler runs every goroutine that can run (weak fairness), and   *)
(* sync.Mutex hands the lock over after 1 ms of waiting ("starvation mode"),*)
(* so a waiter is not overtaken for ever (strong fairness on locking).     *)
Fairness ==
    /\ WF_vars(Tick)
    /\ \A t \in Threads : /\ WF_vars(ThreadStep(t))
                          /\ SF_vars(LookupLocked(t))
    /\ \A p \in Threads \cup {Admin} : WF_vars(EvictStep(p))
    /\ WF_vars(ScanStep) /\ SF_vars(ScanLock)
    /\ SF_vars(SetMaxEntriesLock)

FairSpec == Spec /\ Fairness
-----------------------------------------------------------------------------
(* Correctness.                                                            *)

Labels == {"idle", "lookup", "lock", "stamp", "touch", "stampLocked",
           "touchLocked", "build", "evict", "evictRange",
           "off", "sleep", "range", "sweep", "delete"}

\* Labels at which a process is inside a critical section of clientPoolMu.
Critical == {"stampLocked", "touchLocked", "build", "evict", "evictRange",
             "sweep", "delete"}

\* The types, for a counter that might still have gone negative.
Types ==
    /\ pool \in [Keys -> 0..builds]
    /\ builds \in 0..MaxBuilds /\ clock \in 0..MaxClock
    /\ lastAccess \in [1..MaxBuilds -> 0..MaxClock]
    /\ count \in Int /\ totalEvictions \in Nat /\ cleared \in Nat
    /\ maxEntries \in Int /\ ttl \in Nat \ {0}
    /\ mu \in Procs \cup {Free}
    /\ pc \in [Procs -> Labels]
    /\ key \in [Procs -> Keys \cup {NoKey}]
    /\ ent \in [Threads -> 0..builds] /\ stamp \in [Threads -> 0..MaxClock]
    /\ cap \in Int /\ left \in SUBSET Keys
    /\ cand \in [Keys -> (0..MaxClock) \cup {NoStamp}]
    /\ cutoff \in Int /\ scanLeft \in SUBSET Keys /\ toDelete \in SUBSET Keys
    /\ victim \in Keys \cup {NoKey} /\ evicted \in Nat

(* Every variable keeps its type; in particular poolEntryCount, which the  *)
(* sweep decrements blindly (poolEntryCount.Add(-1)), never goes negative. *)
TypeOK == Types /\ count \in Nat

(* clientPoolMu is held by exactly the process inside a critical section:  *)
(* building, LRU eviction and the TTL sweep exclude one another.           *)
MutexOwner == \A p \in Procs : pc[p] \in Critical <=> mu = p

(* Single flight: a client is built only for a key that has none, so an    *)
(* insertion never overwrites (and leaks) a client another request built   *)
(* between the lock-free lookup and the lock (main.go:1426-1432).          *)
NoOverwrite == \A t \in Threads : pc[t] = "build" => pool[key[t]] = NoEntry

(* poolEntryCount is "exact entry count; mutated only under clientPoolMu": *)
(* whoever takes the lock finds it equal to the number of pooled clients.  *)
CountExact == mu = Free => count = Cardinality(Pooled)

(* No client is lost and none is reported twice: every client ever built   *)
(* is pooled, or was cleared, or is counted in totalEvictions, also when a *)
(* sweep, a clear and an insertion race for the same key.                  *)
Conservation ==
    mu = Free => builds = Cardinality(Pooled) + totalEvictions + cleared

(* "memory stays bounded at poolMaxEntries clients regardless of rotation  *)
(* breadth": outside critical sections the pool respects the cap, except   *)
(* between the store of a new cap and the eviction it is waiting to run.   *)
CapRespected ==
    mu = Free /\ pc[Admin] # "lock" /\ maxEntries > 0
        => Cardinality(Pooled) <= maxEntries

(* The TTL sweep deletes (and counts) only an entry that is in the pool,   *)
(* whatever was removed between its lock-free Range and the lock.          *)
SweepDeletesLive == pc[Scanner] = "delete" => victim \in Pooled

(* "the entry this call just created never evicts itself": when a request  *)
(* that built a client releases the lock, its client is still pooled.      *)
InsertSurvives ==
    [][\A t \in Threads :
          pc[t] \in {"evict", "evictRange"} /\ pc'[t] = "idle"
              => pool'[key[t]] = builds]_vars

(* Every request leaves getOrCreateClientFromConfig, whatever the scanner, *)
(* the other requests and the administration calls do with the lock.       *)
RequestsReturn ==
    \A t \in Threads : pc[t] = "lookup" ~> pc[t] = "idle"

(* A client that no request touches does not stay pooled for ever: the     *)
(* scanner, which outlives ClearClientPool, reclaims it.                   *)
IdleReclaimed ==
    \A k \in Keys : \A e \in 1..MaxBuilds :
        []<>~(pool[k] = e /\ lastAccess[e] < MaxClock - ttl)
=============================================================================
