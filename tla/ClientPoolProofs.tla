-------------------------- MODULE ClientPoolProofs --------------------------
(***************************************************************************)
(* Proofs that ClientPool keeps its lock discipline, its counters and its  *)
(* cap for any set of threads, any finite set of configurations, any       *)
(* arguments of the administration calls and any bounds.                   *)
(***************************************************************************)
EXTENDS ClientPool, FiniteSetTheorems, TLAPS

ThreadLabels == {"idle", "lookup", "lock", "stamp", "touch", "stampLocked",
                 "touchLocked", "build", "evict", "evictRange"}

\* Where each process may be, and which of its locals are then defined.
Shape ==
    /\ \A t \in Threads :
          /\ pc[t] \in ThreadLabels
          /\ pc[t] # "idle" => key[t] \in Keys
          /\ pc[t] \in {"stamp", "touch", "stampLocked", "touchLocked"}
                => ent[t] # NoEntry
    /\ pc[Admin] \in {"idle", "lock", "evict", "evictRange"}
    /\ pc[Scanner] \in {"off", "sleep", "range", "sweep", "delete"}
    /\ key[Admin] = NoKey

\* What the mutex buys: nobody else changes the pool inside a critical section.
Discipline == Types /\ Shape /\ MutexOwner /\ NoOverwrite /\ SweepDeletesLive

USE PoolAssumption DEF Procs, Scanner, Admin, Free, NoKey, NoEntry, NoStamp

LEMMA DisciplineInit == Init => Discipline
  BY DEF Init, Discipline, Types, Shape, MutexOwner, NoOverwrite,
         SweepDeletesLive, Labels, Critical, ThreadLabels

LEMMA ReturnTypes ==
  ASSUME Types, NEW p \in Procs, Return(p)
  PROVE  pc' \in [Procs -> Labels] /\ key' \in [Procs -> Keys \cup {NoKey}]
  BY DEF Types, Return, Labels

LEMMA DisciplineThread ==
  ASSUME Discipline, NEW t \in Threads, ThreadStep(t) PROVE Discipline'
<1> USE DEF Discipline, Types, Shape, MutexOwner, NoOverwrite,
            SweepDeletesLive, Labels, Critical, ThreadLabels, Goto, Return,
            Pooled, reqVars, evictVars, scanVars, statVars, confVars
<1>1. CASE LookupFast(t) BY <1>1 DEF LookupFast
<1>2. CASE LookupLocked(t) BY <1>2 DEF LookupLocked
<1>3. CASE ReadClock(t) BY <1>3 DEF ReadClock
<1>4. CASE Touch(t)
  <2>1. Types' BY <1>4 DEF Touch
  <2>2. Shape' BY <1>4 DEF Touch
  <2>3. MutexOwner' BY <1>4 DEF Touch
  <2>4. NoOverwrite' /\ SweepDeletesLive' BY <1>4 DEF Touch
  <2> QED BY <2>1, <2>2, <2>3, <2>4
<1>5. CASE BuildFails(t) BY <1>5 DEF BuildFails
<1>6. CASE Insert(t)
  <2>1. builds' \in 0..MaxBuilds /\ builds <= builds' /\ builds' = builds + 1
    BY <1>6 DEF Insert
  <2>2. pool' \in [Keys -> 0..builds'] BY <1>6, <2>1 DEF Insert
  <2>3. ent' \in [Threads -> 0..builds'] BY <1>6, <2>1 DEF Insert
  <2>4. lastAccess' \in [1..MaxBuilds -> 0..MaxClock] BY <1>6, <2>1 DEF Insert
  <2>5. Types' BY <1>6, <2>1, <2>2, <2>3, <2>4 DEF Insert
  <2>6. Shape' BY <1>6 DEF Insert
  <2>7. MutexOwner' BY <1>6 DEF Insert
  <2>8. NoOverwrite' /\ SweepDeletesLive' BY <1>6 DEF Insert
  <2> QED BY <2>5, <2>6, <2>7, <2>8
<1> QED BY <1>1, <1>2, <1>3, <1>4, <1>5, <1>6 DEF ThreadStep

\* The numbers the LRU eviction computes are what their names say.
LEMMA OverBounds ==
  ASSUME NEW p, cap \in Int
  PROVE  /\ IsFiniteSet(Candidates) /\ Cardinality(Candidates) \in Nat
         /\ Live(p) \in {0, 1}
         /\ Over(p) \in 0..Cardinality(Candidates)
         /\ \A V \in Oldest(Over(p)) : V \subseteq Candidates /\ Cardinality(V) = Over(p)
<1>1. IsFiniteSet(Candidates) BY FS_Subset DEF Candidates
<1>2. Cardinality(Candidates) \in Nat BY <1>1, FS_CardinalityType
<1> QED BY <1>1, <1>2 DEF Live, Over, Oldest

LEMMA DisciplineEvict ==
  ASSUME Discipline, NEW p \in Threads \cup {Admin}, EvictStep(p) PROVE Discipline'
<1> USE DEF Discipline, Types, Shape, MutexOwner, NoOverwrite,
            SweepDeletesLive, Labels, Critical, ThreadLabels, Goto, Return,
            Pooled, reqVars, evictVars, scanVars, statVars, confVars
<1>1. CASE EvictBegin(p)
  <2>1. CASE maxEntries <= 0
    <3>0. pc' \in [Procs -> Labels] /\ key' \in [Procs -> Keys \cup {NoKey}]
      BY <1>1, <2>1, ReturnTypes DEF EvictBegin
    <3>1. Types' BY <1>1, <2>1, <3>0 DEF EvictBegin
    <3>2. Shape' BY <1>1, <2>1 DEF EvictBegin
    <3>3. MutexOwner' BY <1>1, <2>1 DEF EvictBegin
    <3>4. NoOverwrite' /\ SweepDeletesLive' BY <1>1, <2>1 DEF EvictBegin
    <3> QED BY <3>1, <3>2, <3>3, <3>4
  <2>2. CASE ~(maxEntries <= 0)
    <3>1. Types' BY <1>1, <2>2 DEF EvictBegin
    <3>2. Shape' BY <1>1, <2>2 DEF EvictBegin
    <3>3. MutexOwner' BY <1>1, <2>2 DEF EvictBegin
    <3>4. NoOverwrite' /\ SweepDeletesLive' BY <1>1, <2>2 DEF EvictBegin
    <3> QED BY <3>1, <3>2, <3>3, <3>4
  <2> QED BY <2>1, <2>2
<1>2. CASE \E k \in Keys : EvictVisit(p, k)
  <2> PICK k \in Keys : EvictVisit(p, k) BY <1>2
  <2>1. cand' \in [Keys -> (0..MaxClock) \cup {NoStamp}] BY DEF EvictVisit
  <2>2. UNCHANGED <<pool, lastAccess, builds, mu, clock, pc, reqVars, cap,
                    scanVars, statVars, confVars>> /\ left' \in SUBSET Keys
    BY DEF EvictVisit
  <2> QED BY <2>1, <2>2
<1>3. CASE EvictFinish(p)
  <2>1. PICK V \in Oldest(Over(p)) :
          /\ pool' = [k \in Keys |-> IF k \in V THEN NoEntry ELSE pool[k]]
          /\ count' = Cardinality(Candidates) + Live(p) - Over(p)
          /\ totalEvictions' = totalEvictions + Over(p)
    BY <1>3 DEF EvictFinish
  <2>2. count' \in Int /\ totalEvictions' \in Nat BY <2>1, OverBounds
  <2>3. pool' \in [Keys -> 0..builds] BY <2>1
  <2>4. \A k \in Keys : pool[k] = NoEntry => pool'[k] = NoEntry BY <2>1
  <2> QED BY <1>3, <2>2, <2>3, <2>4 DEF EvictFinish, DropEvictVars
<1> QED BY <1>1, <1>2, <1>3 DEF EvictStep

LEMMA DisciplineScan ==
  ASSUME Discipline, ScanStep PROVE Discipline'
<1> USE DEF Discipline, Types, Shape, MutexOwner, NoOverwrite,
            SweepDeletesLive, Labels, Critical, ThreadLabels, Goto,
            Pooled, reqVars, evictVars, scanVars, statVars, confVars
<1>1. CASE ScanBegin BY <1>1 DEF ScanBegin
<1>2. CASE ScanLock BY <1>2 DEF ScanLock
<1>3. CASE ScanDelete BY <1>3 DEF ScanDelete
<1>4. CASE ScanEnd BY <1>4 DEF ScanEnd
<1>5. CASE \E k \in Keys : ScanVisit(k) BY <1>5 DEF ScanVisit
<1>6. CASE \E k \in Keys : ScanRecheck(k) BY <1>6 DEF ScanRecheck
<1> QED BY <1>1, <1>2, <1>3, <1>4, <1>5, <1>6 DEF ScanStep

LEMMA PooledFinite == IsFiniteSet(Pooled) /\ Cardinality(Pooled) \in Nat
<1>1. IsFiniteSet(Pooled) BY FS_Subset DEF Pooled
<1> QED BY <1>1, FS_CardinalityType

LEMMA DisciplineNext == Discipline /\ [Next]_vars => Discipline'
<1> SUFFICES ASSUME Discipline, [Next]_vars PROVE Discipline' OBVIOUS
<1> USE DEF Discipline, Types, Shape, MutexOwner, NoOverwrite,
            SweepDeletesLive, Labels, Critical, ThreadLabels, Goto,
            Pooled, reqVars, evictVars, scanVars, statVars, confVars
<1>1. CASE Tick BY <1>1 DEF Tick
<1>2. ASSUME NEW t \in Threads, ThreadStep(t) PROVE Discipline'
  BY <1>2, DisciplineThread
<1>3. ASSUME NEW t \in Threads, NEW k \in Keys, Request(t, k) PROVE Discipline'
  <2>1. Types' BY <1>3 DEF Request
  <2>2. Shape' BY <1>3 DEF Request
  <2>3. MutexOwner' BY <1>3 DEF Request
  <2>4. NoOverwrite' /\ SweepDeletesLive' BY <1>3 DEF Request
  <2> QED BY <2>1, <2>2, <2>3, <2>4
<1>4. ASSUME NEW p \in Threads \cup {Admin}, EvictStep(p) PROVE Discipline'
  BY <1>4, DisciplineEvict
<1>5. CASE ScanStep BY <1>5, DisciplineScan
<1>6. ASSUME NEW n \in Caps, SetMaxEntries(n) PROVE Discipline'
  BY <1>6 DEF SetMaxEntries, NormalCap
<1>7. CASE SetMaxEntriesLock BY <1>7 DEF SetMaxEntriesLock
<1>8. ASSUME NEW s \in TTLs, SetTTL(s) PROVE Discipline' BY <1>8 DEF SetTTL
<1>9. CASE Clear
  <2>1. cleared' \in Nat BY <1>9, PooledFinite DEF Clear
  <2> QED BY <1>9, <2>1 DEF Clear
<1>10. CASE UNCHANGED vars BY <1>10 DEF vars
<1> QED BY <1>1, <1>2, <1>3, <1>4, <1>5, <1>6, <1>7, <1>8, <1>9, <1>10 DEF Next

LEMMA DisciplineInvariant == Spec => []Discipline
  BY DisciplineInit, DisciplineNext, PTL DEF Spec

(* The lock discipline of main.go holds in every execution: critical       *)
(* sections exclude one another, a client is built only for a key without  *)
(* one, and the sweep deletes only what is pooled.                         *)
THEOREM LockDiscipline == Spec => [](MutexOwner /\ NoOverwrite /\ SweepDeletesLive)
<1>1. Discipline => MutexOwner /\ NoOverwrite /\ SweepDeletesLive BY DEF Discipline
<1> QED BY <1>1, DisciplineInvariant, PTL
-----------------------------------------------------------------------------
(* Counting.  poolEntryCount is exact in every state, not only when the    *)
(* lock is free, because every store to the pool is one step with its      *)
(* counter; the recount of an LRU eviction agrees with it because the      *)
(* Range sees a pool that only its own process may change.                 *)

\* Keys the Range of p has visited are candidates iff pooled and unprotected.
RangeExact ==
    \A p \in Threads \cup {Admin} : pc[p] = "evictRange" =>
        /\ cap > 0
        /\ \A k \in Keys \ left :
              cand[k] # NoStamp <=> (pool[k] # NoEntry /\ k # key[p])

Counted  == count = Cardinality(Pooled)
Balanced == builds = Cardinality(Pooled) + totalEvictions + cleared + evicted
SweepCounts == pc[Scanner] \notin {"sweep", "delete"} => evicted = 0

Accounts == RangeExact /\ Counted /\ Balanced /\ SweepCounts

LEMMA AccountsInit == Init => Accounts
<1> SUFFICES ASSUME Init PROVE Accounts OBVIOUS
<1>1. Pooled = {} BY DEF Init, Pooled
<1>2. Cardinality(Pooled) = 0 BY <1>1, FS_EmptySet
<1> QED BY <1>2 DEF Init, Accounts, RangeExact, Counted, Balanced, SweepCounts

\* A step that changes neither the pool nor its counters, nor a Range.
LEMMA AccountsSame ==
  ASSUME Discipline, Accounts,
         UNCHANGED <<pool, builds, count, totalEvictions, cleared, evicted, cap,
                     left, cand>>,
         \A p \in Threads \cup {Admin} :
             pc'[p] = "evictRange" => pc[p] = "evictRange" /\ key'[p] = key[p],
         pc'[Scanner] \in {"sweep", "delete"} \/ pc'[Scanner] = pc[Scanner]
            \/ evicted = 0
  PROVE  Accounts'
<1>1. Pooled' = Pooled BY DEF Pooled
<1> QED BY <1>1 DEF Accounts, RangeExact, Counted, Balanced, SweepCounts

\* The pool as the eviction that just finished its Range sees it.
LEMMA RangeComplete ==
  ASSUME Discipline, Accounts, NEW p \in Threads \cup {Admin},
         pc[p] = "evictRange", left = {}
  PROVE  /\ Candidates = Pooled \ {key[p]}
         /\ Cardinality(Pooled) = Cardinality(Candidates) + Live(p)
<1>1. Candidates = Pooled \ {key[p]}
  BY DEF Discipline, Types, Accounts, RangeExact, Candidates, Pooled
<1>2. Cardinality(Pooled \ {key[p]}) =
          IF key[p] \in Pooled THEN Cardinality(Pooled) - 1 ELSE Cardinality(Pooled)
  BY PooledFinite, FS_RemoveElement
<1> QED BY <1>1, <1>2, PooledFinite DEF Live

\* What an eviction leaves: exactly Over(p) entries fewer, none unaccounted.
LEMMA EvictFinishEffect ==
  ASSUME Discipline, Accounts, NEW p \in Threads \cup {Admin}, EvictFinish(p)
  PROVE  /\ Cardinality(Pooled') = Cardinality(Pooled) - Over(p)
         /\ count' = Cardinality(Pooled')
         /\ totalEvictions' = totalEvictions + Over(p)
         /\ Over(p) \in Nat
         /\ Cardinality(Pooled') <= cap
<1>1. PICK V \in Oldest(Over(p)) :
        /\ pool' = [k \in Keys |-> IF k \in V THEN NoEntry ELSE pool[k]]
        /\ count' = Cardinality(Candidates) + Live(p) - Over(p)
        /\ totalEvictions' = totalEvictions + Over(p)
  BY DEF EvictFinish
<1>2. cap \in Int /\ cap > 0
  BY DEF Discipline, Types, Accounts, RangeExact, EvictFinish
<1>3. /\ Candidates = Pooled \ {key[p]}
      /\ Cardinality(Pooled) = Cardinality(Candidates) + Live(p)
  BY RangeComplete DEF EvictFinish
<1>4. V \subseteq Candidates /\ Cardinality(V) = Over(p) BY <1>2, OverBounds
<1>5. Pooled' = Pooled \ V BY <1>1 DEF Pooled
<1>6. Pooled \cap V = V BY <1>3, <1>4
<1>7. Cardinality(Pooled') = Cardinality(Pooled) - Over(p)
  BY <1>4, <1>5, <1>6, PooledFinite, FS_Difference
<1>8. /\ Cardinality(Candidates) \in Nat /\ Live(p) \in {0, 1}
      /\ Over(p) \in 0..Cardinality(Candidates)
  BY <1>2, OverBounds
<1>9. Cardinality(Candidates) + Live(p) - Over(p) <= cap
  BY <1>2, <1>8 DEF Over
<1> QED BY <1>1, <1>3, <1>7, <1>8, <1>9

\* The books stay balanced when the pool grows by d clients, d of them built,
\* and the rest evicted or cleared.
LEMMA Books ==
  ASSUME Discipline, Accounts,
         NEW b \in Int, NEW e \in Int, NEW c \in Int, NEW s \in Int,
         builds' = builds + b, totalEvictions' = totalEvictions + e,
         cleared' = cleared + c, evicted' = evicted + s,
         Cardinality(Pooled') = Cardinality(Pooled) + b - e - c - s,
         count' = Cardinality(Pooled')
  PROVE  Counted' /\ Balanced'
<1>1. /\ Cardinality(Pooled) \in Nat /\ builds \in Int /\ totalEvictions \in Int
      /\ cleared \in Int /\ evicted \in Int
  BY PooledFinite DEF Discipline, Types
<1>2. builds = Cardinality(Pooled) + totalEvictions + cleared + evicted
  BY DEF Accounts, Balanced
<1>3. builds' = Cardinality(Pooled') + totalEvictions' + cleared' + evicted'
  BY <1>1, <1>2
<1> QED BY <1>3 DEF Counted, Balanced

LEMMA AccountsThread ==
  ASSUME Discipline, Accounts, NEW t \in Threads, ThreadStep(t) PROVE Accounts'
<1> USE DEF Discipline, Types, Shape, Goto, Return, evictVars, scanVars, statVars,
            reqVars
<1>1. CASE LookupFast(t) BY <1>1, AccountsSame DEF LookupFast
<1>2. CASE LookupLocked(t) BY <1>2, AccountsSame DEF LookupLocked
<1>3. CASE ReadClock(t) BY <1>3, AccountsSame DEF ReadClock
<1>4. CASE Touch(t) BY <1>4, AccountsSame DEF Touch
<1>5. CASE BuildFails(t) BY <1>5, AccountsSame DEF BuildFails
<1>6. CASE Insert(t)
  <2>1. key[t] \in Keys /\ pool[key[t]] = NoEntry
    BY <1>6 DEF Insert, NoOverwrite
  <2>2. Pooled' = Pooled \cup {key[t]} /\ key[t] \notin Pooled
    BY <1>6, <2>1 DEF Insert, Pooled
  <2>3. Cardinality(Pooled') = Cardinality(Pooled) + 1
    BY <2>2, PooledFinite, FS_AddElement
  <2>4. Counted' /\ Balanced'
    <3>1. /\ builds' = builds + 1 /\ totalEvictions' = totalEvictions + 0
          /\ cleared' = cleared + 0 /\ evicted' = evicted + 0
          /\ count' = count + 1
      BY <1>6 DEF Insert
    <3>2. count' = Cardinality(Pooled')
      BY <2>3, <3>1 DEF Accounts, Counted
    <3>3. Cardinality(Pooled') = Cardinality(Pooled) + 1 - 0 - 0 - 0
      BY <2>3, PooledFinite
    <3> QED BY <3>1, <3>2, <3>3, Books
  <2>5. \A p \in Threads \cup {Admin} : pc'[p] # "evictRange"
    BY <1>6 DEF Insert, MutexOwner, Critical
  <2> QED BY <1>6, <2>4, <2>5 DEF Insert, Accounts, RangeExact, SweepCounts
<1> QED BY <1>1, <1>2, <1>3, <1>4, <1>5, <1>6 DEF ThreadStep

LEMMA AccountsEvict ==
  ASSUME Discipline, Accounts, NEW p \in Threads \cup {Admin}, EvictStep(p)
  PROVE  Accounts'
<1> USE DEF Discipline, Types, Shape, Goto, Return, evictVars, scanVars, statVars,
            reqVars
<1>0. \A q \in Threads \cup {Admin} : pc[q] = "evictRange" => q = p
  BY DEF EvictStep, EvictBegin, EvictVisit, EvictFinish, MutexOwner, Critical
<1>1. CASE EvictBegin(p)
  <2>1. Pooled' = Pooled BY <1>1 DEF EvictBegin, Pooled
  <2>2. RangeExact'
    <3>1. CASE maxEntries <= 0
      <4>0. pc' = [pc EXCEPT ![p] = "idle"] BY <1>1, <3>1 DEF EvictBegin
      <4>1. \A q \in Threads \cup {Admin} : pc'[q] # "evictRange"
        BY <1>0, <4>0
      <4> QED BY <4>1 DEF RangeExact
    <3>2. CASE ~(maxEntries <= 0)
      <4>1. Keys \ left' = {} /\ cap' > 0 BY <1>1, <3>2 DEF EvictBegin
      <4> QED BY <4>1 DEF RangeExact
    <3> QED BY <3>1, <3>2
  <2> QED BY <1>1, <2>1, <2>2
          DEF EvictBegin, Accounts, Counted, Balanced, SweepCounts
<1>2. CASE \E k \in Keys : EvictVisit(p, k)
  <2> PICK k \in Keys : EvictVisit(p, k) BY <1>2
  <2>1. Pooled' = Pooled BY DEF EvictVisit, Pooled
  <2>2. RangeExact' BY <1>0 DEF EvictVisit, RangeExact, Accounts
  <2> QED BY <2>1, <2>2 DEF EvictVisit, Accounts, Counted, Balanced, SweepCounts
<1>3. CASE EvictFinish(p)
  <2>2. Counted' /\ Balanced'
    <3>1. /\ builds' = builds + 0 /\ cleared' = cleared + 0 /\ evicted' = evicted + 0
      BY <1>3 DEF EvictFinish
    <3>2. /\ Cardinality(Pooled') = Cardinality(Pooled) + 0 - Over(p) - 0 - 0
          /\ count' = Cardinality(Pooled') /\ Over(p) \in Int
          /\ totalEvictions' = totalEvictions + Over(p)
      BY <1>3, EvictFinishEffect, PooledFinite
    <3> QED BY <3>1, <3>2, Books
  <2>3. RangeExact' BY <1>0, <1>3 DEF EvictFinish, RangeExact
  <2> QED BY <1>3, <2>2, <2>3 DEF Accounts, SweepCounts, EvictFinish
<1> QED BY <1>1, <1>2, <1>3 DEF EvictStep

LEMMA AccountsScan ==
  ASSUME Discipline, Accounts, ScanStep PROVE Accounts'
<1> USE DEF Discipline, Types, Shape, Goto, evictVars, scanVars, statVars, reqVars
<1>1. CASE ScanBegin
  <2>1. evicted = 0 BY <1>1 DEF ScanBegin, Accounts, SweepCounts
  <2> QED BY <1>1, <2>1, AccountsSame DEF ScanBegin
<1>2. CASE ScanLock
  <2>1. evicted = 0 /\ evicted' = 0 BY <1>2 DEF ScanLock, Accounts, SweepCounts
  <2> QED BY <1>2, <2>1, AccountsSame DEF ScanLock
<1>3. CASE ScanDelete
  <2>1. Pooled' = Pooled \ {victim} /\ victim \in Pooled
    BY <1>3 DEF ScanDelete, Pooled, SweepDeletesLive
  <2>2. Cardinality(Pooled') = Cardinality(Pooled) - 1
    BY <2>1, PooledFinite, FS_RemoveElement
  <2>3. Counted' /\ Balanced'
    <3>1. /\ builds' = builds + 0 /\ totalEvictions' = totalEvictions + 0
          /\ cleared' = cleared + 0 /\ evicted' = evicted + 1
          /\ count' = count - 1
      BY <1>3 DEF ScanDelete
    <3>2. count' = Cardinality(Pooled')
      BY <2>2, <3>1 DEF Accounts, Counted
    <3>3. Cardinality(Pooled') = Cardinality(Pooled) + 0 - 0 - 0 - 1
      BY <2>2, PooledFinite
    <3> QED BY <3>1, <3>2, <3>3, Books
  <2>4. \A p \in Threads \cup {Admin} : pc'[p] # "evictRange"
    BY <1>3 DEF ScanDelete, MutexOwner, Critical
  <2> QED BY <1>3, <2>3, <2>4 DEF ScanDelete, Accounts, RangeExact, SweepCounts
<1>4. CASE ScanEnd
  <2>1. Pooled' = Pooled BY <1>4 DEF ScanEnd, Pooled
  <2>2. RangeExact' BY <1>4 DEF ScanEnd, Accounts, RangeExact
  <2>3. Balanced' BY <1>4, <2>1, PooledFinite DEF ScanEnd, Accounts, Balanced
  <2> QED BY <1>4, <2>1, <2>2, <2>3 DEF ScanEnd, Accounts, Counted, SweepCounts
<1>5. CASE \E k \in Keys : ScanVisit(k) BY <1>5, AccountsSame DEF ScanVisit
<1>6. CASE \E k \in Keys : ScanRecheck(k) BY <1>6, AccountsSame DEF ScanRecheck
<1> QED BY <1>1, <1>2, <1>3, <1>4, <1>5, <1>6 DEF ScanStep

LEMMA AccountsNext == Discipline /\ Accounts /\ [Next]_vars => Accounts'
<1> SUFFICES ASSUME Discipline, Accounts, [Next]_vars PROVE Accounts' OBVIOUS
<1> USE DEF Discipline, Types, Shape, Goto, evictVars, scanVars, statVars, reqVars
<1>1. CASE Tick BY <1>1, AccountsSame DEF Tick
<1>2. ASSUME NEW t \in Threads, ThreadStep(t) PROVE Accounts'
  BY <1>2, AccountsThread
<1>3. ASSUME NEW t \in Threads, NEW k \in Keys, Request(t, k) PROVE Accounts'
  <2>1. evicted = 0 \/ pc'[Scanner] = pc[Scanner]
    BY <1>3 DEF Request, Accounts, SweepCounts
  <2> QED BY <1>3, <2>1, AccountsSame DEF Request
<1>4. ASSUME NEW p \in Threads \cup {Admin}, EvictStep(p) PROVE Accounts'
  BY <1>4, AccountsEvict
<1>5. CASE ScanStep BY <1>5, AccountsScan
<1>6. ASSUME NEW n \in Caps, SetMaxEntries(n) PROVE Accounts'
  BY <1>6, AccountsSame DEF SetMaxEntries
<1>7. CASE SetMaxEntriesLock BY <1>7, AccountsSame DEF SetMaxEntriesLock
<1>8. ASSUME NEW s \in TTLs, SetTTL(s) PROVE Accounts'
  BY <1>8, AccountsSame DEF SetTTL
<1>9. CASE Clear
  <2>1. Pooled' = {} BY <1>9 DEF Clear, Pooled
  <2>2. Cardinality(Pooled') = 0 BY <2>1, FS_EmptySet
  <2>3. \A p \in Threads \cup {Admin} : pc'[p] # "evictRange"
    BY <1>9 DEF Clear, MutexOwner, Critical
  <2>4. /\ builds' = builds + 0 /\ totalEvictions' = totalEvictions + 0
        /\ cleared' = cleared + Cardinality(Pooled) /\ evicted' = evicted + 0
        /\ count' = 0
    BY <1>9 DEF Clear
  <2>5. Cardinality(Pooled') = Cardinality(Pooled) + 0 - 0 - Cardinality(Pooled) - 0
    BY <2>2, PooledFinite
  <2>6. Counted' /\ Balanced' BY <2>2, <2>4, <2>5, PooledFinite, Books
  <2> QED BY <1>9, <2>3, <2>6 DEF Clear, Accounts, RangeExact, SweepCounts
<1>10. CASE UNCHANGED vars BY <1>10, AccountsSame DEF vars
<1> QED BY <1>1, <1>2, <1>3, <1>4, <1>5, <1>6, <1>7, <1>8, <1>9, <1>10 DEF Next

LEMMA AccountsInvariant == Spec => []Accounts
  BY AccountsInit, AccountsNext, DisciplineInvariant, PTL DEF Spec

(* Every variable keeps its type, and poolEntryCount is never negative.    *)
THEOREM TypeCorrect == Spec => []TypeOK
<1>1. Discipline /\ Accounts => TypeOK
  BY PooledFinite DEF Discipline, Accounts, Counted, TypeOK, Types
<1> QED BY <1>1, DisciplineInvariant, AccountsInvariant, PTL

(* poolEntryCount is exact whenever the lock is free (main.go:280).        *)
THEOREM CountIsExact == Spec => []CountExact
<1>1. Accounts => CountExact BY DEF Accounts, Counted, CountExact
<1> QED BY <1>1, AccountsInvariant, PTL

(* No pooled client is lost, none is evicted twice.                        *)
THEOREM NoClientLost == Spec => []Conservation
<1>1. Discipline /\ Accounts => Conservation
  <2> SUFFICES ASSUME Discipline, Accounts, mu = Free
               PROVE  builds = Cardinality(Pooled) + totalEvictions + cleared
    BY DEF Conservation
  <2>1. evicted = 0
    BY DEF Discipline, Types, MutexOwner, Critical, Accounts, SweepCounts
  <2> QED BY <2>1, PooledFinite DEF Accounts, Balanced, Discipline, Types
<1> QED BY <1>1, DisciplineInvariant, AccountsInvariant, PTL
-----------------------------------------------------------------------------
(* The cap.  A process inside an eviction may be over it; everybody else   *)
(* may be only while SetPoolMaxEntries, having stored a smaller cap, waits *)
(* for the lock.  An eviction in progress uses the cap it read, which can  *)
(* differ from the current one only in that same situation.                *)

Within(n) == n <= 0 \/ Cardinality(Pooled) <= n

CapKept ==
    /\ \/ pc[Admin] = "lock"
       \/ \E p \in Threads \cup {Admin} : pc[p] \in {"evict", "evictRange"}
       \/ Within(maxEntries)
    /\ \A p \in Threads \cup {Admin} :
          pc[p] = "evictRange" => pc[Admin] = "lock" \/ cap = maxEntries

LEMMA CapInit == Init => CapKept
<1> SUFFICES ASSUME Init PROVE CapKept OBVIOUS
<1>1. Pooled = {} BY DEF Init, Pooled
<1>2. Cardinality(Pooled) = 0 BY <1>1, FS_EmptySet
<1> QED BY <1>2 DEF Init, CapKept, Within

\* A step that neither grows the pool nor ends or begins an eviction.
LEMMA CapSame ==
  ASSUME Discipline, CapKept, UNCHANGED <<maxEntries, cap>>,
         Pooled' \subseteq Pooled,
         pc'[Admin] = pc[Admin],
         \A p \in Threads \cup {Admin} : \A l \in {"evict", "evictRange"} :
             pc'[p] = l <=> pc[p] = l
  PROVE  CapKept'
<1>1. Cardinality(Pooled') <= Cardinality(Pooled) /\ Cardinality(Pooled') \in Nat
  BY PooledFinite, FS_Subset, FS_CardinalityType
<1>2. Within(maxEntries) => Within(maxEntries)'
  BY <1>1, PooledFinite DEF Within, Discipline, Types
<1> QED BY <1>2 DEF CapKept

LEMMA CapThread ==
  ASSUME Discipline, CapKept, NEW t \in Threads, ThreadStep(t) PROVE CapKept'
<1> USE DEF Discipline, Types, Shape, Goto, Return, evictVars, confVars, Pooled
<1>1. CASE LookupFast(t) BY <1>1, CapSame DEF LookupFast
<1>2. CASE LookupLocked(t) BY <1>2, CapSame DEF LookupLocked
<1>3. CASE ReadClock(t) BY <1>3, CapSame DEF ReadClock
<1>4. CASE Touch(t) BY <1>4, CapSame DEF Touch
<1>5. CASE BuildFails(t) BY <1>5, CapSame DEF BuildFails
<1>6. CASE Insert(t)
  <2>1. pc'[t] = "evict" BY <1>6 DEF Insert
  <2>2. \A p \in Threads \cup {Admin} : pc'[p] # "evictRange"
    BY <1>6 DEF Insert, MutexOwner, Critical
  <2> QED BY <2>1, <2>2 DEF CapKept
<1> QED BY <1>1, <1>2, <1>3, <1>4, <1>5, <1>6 DEF ThreadStep

LEMMA CapEvict ==
  ASSUME Discipline, Accounts, CapKept, NEW p \in Threads \cup {Admin}, EvictStep(p)
  PROVE  CapKept'
<1> USE DEF Discipline, Types, Shape, Goto, Return, evictVars, confVars, Pooled
<1>0. \A q \in Threads \cup {Admin} : pc[q] \in {"evict", "evictRange"} => q = p
  BY DEF EvictStep, EvictBegin, EvictVisit, EvictFinish, MutexOwner, Critical
<1>1. CASE EvictBegin(p)
  <2>1. CASE maxEntries <= 0
    BY <1>0, <1>1, <2>1 DEF EvictBegin, CapKept, Within
  <2>2. CASE ~(maxEntries <= 0)
    <3>1. pc'[p] = "evictRange" /\ cap' = maxEntries' BY <1>1, <2>2 DEF EvictBegin
    <3> QED BY <3>1 DEF CapKept
  <2> QED BY <2>1, <2>2
<1>2. CASE \E k \in Keys : EvictVisit(p, k) BY <1>2, CapSame DEF EvictVisit
<1>3. CASE EvictFinish(p)
  <2>1. \A q \in Threads \cup {Admin} : pc'[q] # "evictRange"
    BY <1>0, <1>3 DEF EvictFinish
  <2>2. CASE pc[Admin] = "lock"
    <3>1. pc'[Admin] = "lock" BY <1>3, <2>2 DEF EvictFinish
    <3> QED BY <2>1, <3>1 DEF CapKept
  <2>3. CASE pc[Admin] # "lock"
    <3>1. cap = maxEntries' BY <1>3, <2>3 DEF EvictFinish, CapKept
    <3>2. Within(maxEntries)' BY <1>3, <3>1, EvictFinishEffect DEF Within
    <3> QED BY <2>1, <3>2 DEF CapKept
  <2> QED BY <2>2, <2>3
<1> QED BY <1>1, <1>2, <1>3 DEF EvictStep

LEMMA CapNext == Discipline /\ Accounts /\ CapKept /\ [Next]_vars => CapKept'
<1> SUFFICES ASSUME Discipline, Accounts, CapKept, [Next]_vars PROVE CapKept' OBVIOUS
<1> USE DEF Discipline, Types, Shape, Goto, evictVars, confVars, Pooled
<1>1. CASE Tick BY <1>1, CapSame DEF Tick
<1>2. ASSUME NEW t \in Threads, ThreadStep(t) PROVE CapKept' BY <1>2, CapThread
<1>3. ASSUME NEW t \in Threads, NEW k \in Keys, Request(t, k) PROVE CapKept'
  BY <1>3, CapSame DEF Request
<1>4. ASSUME NEW p \in Threads \cup {Admin}, EvictStep(p) PROVE CapKept'
  BY <1>4, CapEvict
<1>5. CASE ScanStep
  <2>1. CASE ScanBegin \/ ScanLock \/ ScanEnd
    BY <2>1, CapSame DEF ScanBegin, ScanLock, ScanEnd
  <2>2. CASE ScanDelete BY <2>2, CapSame DEF ScanDelete
  <2>3. ASSUME NEW k \in Keys, ScanVisit(k) PROVE CapKept'
    BY <2>3, CapSame DEF ScanVisit
  <2>4. ASSUME NEW k \in Keys, ScanRecheck(k) PROVE CapKept'
    <3>1. pc'[Admin] = pc[Admin] /\ \A p \in Threads : pc'[p] = pc[p]
      BY <2>4 DEF ScanRecheck
    <3>2. UNCHANGED <<maxEntries, cap, pool>> BY <2>4 DEF ScanRecheck
    <3> QED BY <3>1, <3>2, CapSame
  <2> QED BY <1>5, <2>1, <2>2, <2>3, <2>4 DEF ScanStep
<1>6. ASSUME NEW n \in Caps, SetMaxEntries(n) PROVE CapKept'
  BY <1>6 DEF SetMaxEntries, CapKept
<1>7. CASE SetMaxEntriesLock
  <2>1. pc'[Admin] = "evict" BY <1>7 DEF SetMaxEntriesLock
  <2>2. \A p \in Threads \cup {Admin} : pc'[p] # "evictRange"
    BY <1>7 DEF SetMaxEntriesLock, MutexOwner, Critical
  <2> QED BY <2>1, <2>2 DEF CapKept
<1>8. ASSUME NEW s \in TTLs, SetTTL(s) PROVE CapKept' BY <1>8, CapSame DEF SetTTL
<1>9. CASE Clear BY <1>9, CapSame DEF Clear
<1>10. CASE UNCHANGED vars BY <1>10, CapSame DEF vars
<1> QED BY <1>1, <1>2, <1>3, <1>4, <1>5, <1>6, <1>7, <1>8, <1>9, <1>10 DEF Next

(* "memory stays bounded at poolMaxEntries clients regardless of rotation  *)
(* breadth" (main.go:398-406), for every number of threads and keys.       *)
THEOREM CapIsRespected == Spec => []CapRespected
<1>1. Spec => []CapKept
  BY CapInit, CapNext, DisciplineInvariant, AccountsInvariant, PTL DEF Spec
<1>2. Discipline /\ CapKept => CapRespected
  BY PooledFinite
     DEF Discipline, Types, MutexOwner, Critical, CapKept, CapRespected, Within
<1> QED BY <1>1, <1>2, DisciplineInvariant, PTL
-----------------------------------------------------------------------------
(* The client a request has just built.  From its insertion to the end of  *)
(* the eviction it triggers the lock is held, so nobody builds another one *)
(* or removes it, and the eviction does not offer its key as a candidate.  *)

Newest ==
    \A t \in Threads : pc[t] \in {"evict", "evictRange"} => pool[key[t]] = builds

LEMMA NewestInit == Init => Newest
  BY DEF Init, Newest

\* A step of an eviction removes candidates only, and the key its process
\* has protected is not one of them.
LEMMA EvictSpares ==
  ASSUME Discipline, Accounts, NEW p \in Threads \cup {Admin}, EvictStep(p),
         key[p] \in Keys
  PROVE  pool'[key[p]] = pool[key[p]]
<1> USE DEF Discipline, Types, Shape
<1>1. CASE EvictBegin(p) BY <1>1 DEF EvictBegin
<1>2. CASE \E k \in Keys : EvictVisit(p, k) BY <1>2 DEF EvictVisit
<1>3. CASE EvictFinish(p)
  <2>1. PICK V \in Oldest(Over(p)) :
          pool' = [k \in Keys |-> IF k \in V THEN NoEntry ELSE pool[k]]
    BY <1>3 DEF EvictFinish
  <2>2. V \subseteq Candidates BY <2>1 DEF Oldest
  <2>3. pc[p] = "evictRange" /\ left = {} BY <1>3 DEF EvictFinish
  <2>4. Candidates = Pooled \ {key[p]} BY ONLY <2>3, RangeComplete, Discipline, Accounts,
                                              p \in Threads \cup {Admin}
  <2> QED BY <2>1, <2>2, <2>4
<1> QED BY <1>1, <1>2, <1>3 DEF EvictStep

LEMMA NewestNext == Discipline /\ Accounts /\ Newest /\ [Next]_vars => Newest'
<1> SUFFICES ASSUME Discipline, Accounts, Newest, [Next]_vars,
                    NEW t \in Threads, pc'[t] \in {"evict", "evictRange"}
             PROVE  pool'[key'[t]] = builds'
  BY DEF Newest
<1> USE DEF Discipline, Types, Shape, Goto, Return, reqVars, Newest
<1>1. CASE Tick BY <1>1 DEF Tick
<1>2. ASSUME NEW u \in Threads, ThreadStep(u) PROVE pool'[key'[t]] = builds'
  <2>1. CASE Insert(u)
    <3>1. u = t BY <2>1 DEF Insert, MutexOwner, Critical
    <3> QED BY <2>1, <3>1 DEF Insert
  <2>2. CASE LookupFast(u) \/ LookupLocked(u) \/ ReadClock(u)
    BY <2>2 DEF LookupFast, LookupLocked, ReadClock
  <2>3. CASE Touch(u) \/ BuildFails(u) BY <2>3 DEF Touch, BuildFails
  <2> QED BY <1>2, <2>1, <2>2, <2>3 DEF ThreadStep
<1>3. ASSUME NEW u \in Threads, NEW k \in Keys, Request(u, k)
      PROVE  pool'[key'[t]] = builds'
  BY <1>3 DEF Request
<1>4. ASSUME NEW p \in Threads \cup {Admin}, EvictStep(p) PROVE pool'[key'[t]] = builds'
  <2>1. pc[t] \in {"evict", "evictRange"} /\ key'[t] = key[t] /\ builds' = builds
    BY <1>4 DEF EvictStep, EvictBegin, EvictVisit, EvictFinish
  <2>2. p = t
    BY <1>4, <2>1 DEF EvictStep, EvictBegin, EvictVisit, EvictFinish, MutexOwner, Critical
  <2> QED BY <1>4, <2>1, <2>2, EvictSpares
<1>5. CASE ScanStep
  <2>1. CASE ScanBegin \/ ScanLock \/ ScanEnd BY <2>1 DEF ScanBegin, ScanLock, ScanEnd
  <2>2. CASE ScanDelete BY <2>2 DEF ScanDelete, MutexOwner, Critical
  <2>3. CASE \E k \in Keys : ScanVisit(k) \/ ScanRecheck(k)
    BY <2>3 DEF ScanVisit, ScanRecheck
  <2> QED BY <1>5, <2>1, <2>2, <2>3 DEF ScanStep
<1>6. ASSUME NEW n \in Caps, SetMaxEntries(n) PROVE pool'[key'[t]] = builds'
  BY <1>6 DEF SetMaxEntries
<1>7. CASE SetMaxEntriesLock BY <1>7 DEF SetMaxEntriesLock
<1>8. ASSUME NEW s \in TTLs, SetTTL(s) PROVE pool'[key'[t]] = builds' BY <1>8 DEF SetTTL
<1>9. CASE Clear BY <1>9 DEF Clear, MutexOwner, Critical
<1>10. CASE UNCHANGED vars BY <1>10 DEF vars
<1> QED BY <1>1, <1>2, <1>3, <1>4, <1>5, <1>6, <1>7, <1>8, <1>9, <1>10 DEF Next

(* "the entry this call just created never evicts itself" (main.go:429),   *)
(* nor is it removed by anyone else: a request that built a client leaves  *)
(* getOrCreateClientFromConfig with that client in the pool.               *)
THEOREM InsertedStays == Spec => InsertSurvives
<1>1. Spec => []Newest
  BY NewestInit, NewestNext, DisciplineInvariant, AccountsInvariant, PTL DEF Spec
<1>2. Discipline /\ Accounts /\ Newest /\ [Next]_vars
        => [\A t \in Threads : pc[t] \in {"evict", "evictRange"} /\ pc'[t] = "idle"
                => pool'[key[t]] = builds]_vars
  <2> SUFFICES ASSUME Discipline, Accounts, Newest, [Next]_vars, NEW t \in Threads,
                      pc[t] \in {"evict", "evictRange"}, pc'[t] = "idle"
               PROVE  pool'[key[t]] = builds
    OBVIOUS
  <2> USE DEF Goto, Return, Discipline, Types, Shape
  <2>1. CASE EvictStep(t) BY <2>1, EvictSpares DEF Newest
  <2>2. ASSUME NEW p \in Procs, EvictStep(p), p # t PROVE FALSE
    BY <2>2 DEF EvictStep, EvictBegin, EvictVisit, EvictFinish
  <2>3. ASSUME NEW u \in Threads, ThreadStep(u) PROVE FALSE
    BY <2>3 DEF ThreadStep, LookupFast, LookupLocked, ReadClock, Touch, BuildFails, Insert
  <2>4. ASSUME NEW u \in Threads, NEW k \in Keys, Request(u, k) PROVE FALSE
    BY <2>4 DEF Request
  <2>5. CASE ScanStep
    BY <2>5 DEF ScanStep, ScanBegin, ScanLock, ScanDelete, ScanEnd, ScanVisit, ScanRecheck
  <2>6. ASSUME NEW n \in Caps, SetMaxEntries(n) PROVE FALSE BY <2>6 DEF SetMaxEntries
  <2>7. CASE SetMaxEntriesLock BY <2>7 DEF SetMaxEntriesLock
  <2>8. CASE \/ Tick \/ Clear \/ UNCHANGED vars \/ \E s \in TTLs : SetTTL(s)
    BY <2>8 DEF Tick, Clear, vars, SetTTL
  <2> QED BY <2>1, <2>2, <2>3, <2>4, <2>5, <2>6, <2>7, <2>8 DEF Next
<1> QED BY <1>1, <1>2, DisciplineInvariant, AccountsInvariant, PTL DEF Spec, InsertSurvives
=============================================================================
