--------------------------- MODULE CelCache_proofs ---------------------------
(***************************************************************************)
(* Proofs about CelCache, for any number of callers, any set of            *)
(* expressions and any positive capacity.                                  *)
(***************************************************************************)
EXTENDS CelCache, FiniteSetTheorems, TLAPS

\* Whatever evictIfNeeded keeps is finite and leaves room for one more entry.
LEMMA EvictionMakesRoom ==
  ASSUME IsFiniteSet(entries), NEW kept, evictIfNeeded(kept), NEW e
  PROVE /\ IsFiniteSet(kept \cup {e})
        /\ Cardinality(kept \cup {e}) <= Capacity
<1>1. IsFiniteSet(kept)
  BY FS_Subset DEF evictIfNeeded
<1>2. Cardinality(kept) \in Nat /\ Cardinality(entries) \in Nat
  BY <1>1, FS_CardinalityType
<1>3. Cardinality(kept) <= Capacity - 1
  BY <1>2, SizeAssumption DEF evictIfNeeded
<1>4. /\ IsFiniteSet(kept \cup {e})
      /\ \/ Cardinality(kept \cup {e}) = Cardinality(kept)
         \/ Cardinality(kept \cup {e}) = Cardinality(kept) + 1
  BY <1>1, FS_AddElement
<1> QED
  BY <1>2, <1>3, <1>4, SizeAssumption

\* The empty cache without callers satisfies the invariant.
LEMMA CacheInit == Init => CacheInv
<1> SUFFICES ASSUME Init PROVE CacheInv
  OBVIOUS
<1>1. IsFiniteSet(entries) /\ Cardinality(entries) = 0
  BY FS_EmptySet DEF Init
<1> QED
  BY <1>1, SizeAssumption, NameAssumption
  DEF Init, CacheInv, TypeOK, Results, CacheBounded, OwnProgram, OnlyCompiledCached, HitsHeld

\* Every section of getOrCompile keeps the types.
LEMMA TypeStep == CacheInv /\ [Next]_vars => TypeOK'
<1> SUFFICES ASSUME CacheInv, [Next]_vars PROVE TypeOK'
  OBVIOUS
<1> USE NameAssumption DEF CacheInv, TypeOK, Results, Goto
<1>1. CASE UNCHANGED vars
  BY <1>1 DEF vars
<1>2. ASSUME NEW p \in Callers, NEW e \in Exprs, Hit(p, e) \/ Miss(p, e) PROVE TypeOK'
  BY <1>2 DEF Hit, Miss
<1>3. ASSUME NEW p \in Callers, Join(p) \/ Lead(p) \/ Fail(p) \/ Present(p) PROVE TypeOK'
  BY <1>3 DEF Join, Lead, Fail, Present, Deregister
<1>4. ASSUME NEW p \in Callers, Insert(p) PROVE TypeOK'
  <2>1. PICK kept \in SUBSET entries : evictIfNeeded(kept) /\ Put(p, kept)
    BY <1>4 DEF Insert
  <2>2. expr[p] \in Exprs
    BY <1>4 DEF Insert, Deregister
  <2>3. IsFiniteSet(kept \cup {expr[p]})
    BY <2>1, EvictionMakesRoom
  <2>4. entries' \subseteq Exprs /\ IsFiniteSet(entries')
    BY <2>1, <2>2, <2>3 DEF Put
  <2> QED
    BY <1>4, <2>1, <2>2, <2>4 DEF Insert, Deregister, Put
<1>5. ASSUME NEW p \in Callers, StoreClock(p) \/ Receive(p) \/ runProgram(p) PROVE TypeOK'
  BY <1>5 DEF StoreClock, Receive, runProgram
<1>6. ASSUME NEW p \in Callers, Compile(p) PROVE TypeOK'
  BY <1>6 DEF Compile, Compiled
<1> QED
  BY <1>1, <1>2, <1>3, <1>4, <1>5, <1>6 DEF Next, Locking, Unlocked

\* Every step of a caller preserves the invariant.
LEMMA CacheStep == CacheInv /\ [Next]_vars => CacheInv'
<1> SUFFICES ASSUME CacheInv, [Next]_vars PROVE CacheInv'
  OBVIOUS
<1>0. TypeOK'
  BY TypeStep
<1> USE NameAssumption DEF CacheInv, TypeOK, Goto, CacheBounded, OwnProgram, OnlyCompiledCached, HitsHeld
<1>1. CASE UNCHANGED vars
  BY <1>0, <1>1 DEF vars, Compiled
<1>2. ASSUME NEW p \in Callers, NEW e \in Exprs, Hit(p, e) PROVE CacheInv'
  BY <1>0, <1>2 DEF Hit, Compiled
<1>3. ASSUME NEW p \in Callers, NEW e \in Exprs, Miss(p, e) PROVE CacheInv'
  BY <1>0, <1>3 DEF Miss, Compiled
<1>4. ASSUME NEW p \in Callers, StoreClock(p) PROVE CacheInv'
  BY <1>0, <1>4 DEF StoreClock, Compiled
<1>5. ASSUME NEW p \in Callers, Join(p) PROVE CacheInv'
  BY <1>0, <1>5 DEF Join, Compiled
<1>6. ASSUME NEW p \in Callers, Receive(p) PROVE CacheInv'
  BY <1>0, <1>6 DEF Receive, Compiled
<1>7. ASSUME NEW p \in Callers, Lead(p) PROVE CacheInv'
  BY <1>0, <1>7 DEF Lead, Compiled
<1>8. ASSUME NEW p \in Callers, Compile(p) PROVE CacheInv'
  BY <1>0, <1>8 DEF Compile, Compiled, Sharers
<1>9. ASSUME NEW p \in Callers, Fail(p) PROVE CacheInv'
  BY <1>0, <1>9 DEF Fail, Deregister, Compiled
<1>10. ASSUME NEW p \in Callers, Present(p) PROVE CacheInv'
  BY <1>0, <1>10 DEF Present, Deregister, Compiled
<1>11. ASSUME NEW p \in Callers, Insert(p) PROVE CacheInv'
  <2>1. PICK kept \in SUBSET entries : evictIfNeeded(kept) /\ Put(p, kept)
    BY <1>11 DEF Insert
  <2>2. CacheBounded'
    BY <2>1, EvictionMakesRoom DEF Put
  <2>3. expr[p] \in Exprs /\ out[p] = expr[p] /\ expr[p] \notin Bad
    BY <1>11 DEF Insert, Deregister, Compiled
  <2>4. OnlyCompiledCached'
    BY <1>11, <2>1, <2>3 DEF Put, Insert, Deregister
  <2>5. HitsHeld'
    BY <1>11 DEF Insert, Deregister, Unread
  <2> QED
    BY <1>0, <1>11, <2>2, <2>3, <2>4, <2>5 DEF Insert, Deregister, Compiled
<1>12. ASSUME NEW p \in Callers, runProgram(p) PROVE CacheInv'
  BY <1>0, <1>12 DEF runProgram, Compiled
<1> QED
  BY <1>1, <1>2, <1>3, <1>4, <1>5, <1>6, <1>7, <1>8, <1>9, <1>10, <1>11, <1>12
  DEF Next, Locking, Unlocked

\* The inductive invariant of getOrCompile: a call is in flight exactly while its
\* leader compiles or has yet to insert, and what is cached or handed to a
\* waiter is the right program.
THEOREM CacheInvariant == Spec => []CacheInv
BY CacheInit, CacheStep, PTL DEF Spec

\* The cache and its callers stay typed, and the cache stays finite.
THEOREM TypeCorrect == Spec => []TypeOK
<1>1. CacheInv => TypeOK
  BY DEF CacheInv
<1> QED
  BY <1>1, CacheInvariant, PTL

\* evictIfNeeded keeps the cache within its capacity whatever the interleaving.
THEOREM CacheWithinCapacity == Spec => []CacheBounded
<1>1. CacheInv => CacheBounded
  BY DEF CacheInv
<1> QED
  BY <1>1, CacheInvariant, PTL

\* Evaluate never runs another expression's program, nor a nil one.
THEOREM EvaluatesOwnProgram == Spec => []OwnProgram
<1>1. CacheInv => OwnProgram
  BY DEF CacheInv
<1> QED
  BY <1>1, CacheInvariant, PTL

\* The inflight map admits one compile of an expression at a time.
THEOREM OneCompileAtATime == Spec => []CompilesShared
<1>1. CacheInv => CompilesShared
  BY DEF CacheInv, CompilesShared
<1> QED
  BY <1>1, CacheInvariant, PTL

\* A failed compile is never cached.
THEOREM FailuresNotCached == Spec => []OnlyCompiledCached
<1>1. CacheInv => OnlyCompiledCached
  BY DEF CacheInv
<1> QED
  BY <1>1, CacheInvariant, PTL

\* Every addition to globalClock yields a clock no entry and no other hit has,
\* and a store hands it to one entry.
LEMMA ClockStep == ClockInv /\ [Next]_vars => ClockInv'
<1> SUFFICES ASSUME ClockInv, [Next]_vars PROVE ClockInv'
  OBVIOUS
<1>0. CacheInv /\ CacheInv' /\ TypeOK
  BY CacheStep DEF ClockInv, CacheInv
<1> USE DEF ClockInv, VictimUnique, TypeOK, Goto
<1>1. CASE UNCHANGED vars
  BY <1>0, <1>1 DEF vars
<1>2. ASSUME NEW p \in Callers, NEW e \in Exprs, Hit(p, e) PROVE ClockInv'
  BY <1>0, <1>2 DEF Hit
<1>3. ASSUME NEW p \in Callers, NEW e \in Exprs, Miss(p, e) PROVE ClockInv'
  BY <1>0, <1>3 DEF Miss
<1>4. ASSUME NEW p \in Callers, StoreClock(p) PROVE ClockInv'
  <2>1. expr[p] \in entries
    BY <1>0, <1>4 DEF CacheInv, HitsHeld, StoreClock
  <2> QED
    BY <1>0, <1>4, <2>1 DEF StoreClock
<1>5. ASSUME NEW p \in Callers,
             Join(p) \/ Receive(p) \/ Lead(p) \/ Compile(p) \/ Fail(p) \/ runProgram(p)
      PROVE ClockInv'
  <2>1. UNCHANGED <<entries, stamp, globalClock, tick>>
    BY <1>5 DEF Join, Receive, Lead, Compile, Fail, Deregister, runProgram
  <2>2. \A q \in Callers : pc'[q] = "hit" => pc[q] = "hit"
    BY <1>0, <1>5 DEF Join, Receive, Lead, Compile, Fail, Deregister, runProgram
  <2> QED
    BY <1>0, <2>1, <2>2
<1>6. ASSUME NEW p \in Callers, Present(p) PROVE ClockInv'
  BY <1>0, <1>6 DEF Present, Deregister, Unread
<1>7. ASSUME NEW p \in Callers, Insert(p) PROVE ClockInv'
  <2>1. PICK kept \in SUBSET entries : evictIfNeeded(kept) /\ Put(p, kept)
    BY <1>7 DEF Insert
  <2>2. \A q \in Callers : pc'[q] # "hit"
    BY <1>0, <1>7 DEF Insert, Deregister, Unread
  <2>3. /\ expr[p] \in Exprs /\ globalClock' = globalClock + 1
        /\ entries' = kept \cup {expr[p]} /\ kept \subseteq Exprs
        /\ stamp'[expr[p]] = globalClock + 1
        /\ \A e \in kept \ {expr[p]} : stamp'[e] = stamp[e] /\ stamp[e] \in Nat
    BY <1>0, <1>7, <2>1 DEF Put, CacheInv, Insert, Deregister
  <2>4. \A e \in kept : stamp[e] <= globalClock
    BY <2>1
  <2>5. VictimUnique'
    BY <1>0, <2>1, <2>3, <2>4
  <2>6. \A e \in entries' : stamp'[e] <= globalClock'
    BY <1>0, <2>3, <2>4
  <2> QED
    BY <1>0, <2>2, <2>5, <2>6
<1> QED
  BY <1>1, <1>2, <1>3, <1>4, <1>5, <1>6, <1>7 DEF Next, Locking, Unlocked

\* Clocks handed out and not yet stored are fresh, in every reachable state.
THEOREM ClockInvariant == Spec => []ClockInv
<1>1. Init => ClockInv
  BY CacheInit DEF Init, ClockInv, VictimUnique
<1> QED
  BY <1>1, ClockStep, PTL DEF Spec

\* The entry evictIfNeeded deletes is determined.
THEOREM EvictionDetermined == Spec => []VictimUnique
<1>1. ClockInv => VictimUnique
  BY DEF ClockInv
<1> QED
  BY <1>1, ClockInvariant, PTL

\* Evictions wait for the read lock, so the entry of a hit stays cached.
THEOREM HitEntriesHeld == Spec => []HitsHeld
<1>1. CacheInv => HitsHeld
  BY DEF CacheInv
<1> QED
  BY <1>1, CacheInvariant, PTL
=============================================================================
