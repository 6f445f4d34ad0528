------------------------------ MODULE CelCache ------------------------------
(***************************************************************************)
(* internal/cel.Cache: callers that evaluate expressions concurrently,     *)
(* share one compile of the same expression and keep compiled programs in  *)
(* an LRU cache.                                                           *)
(*                                                                         *)
(* A section under the write lock is one step, taken while no caller holds *)
(* the read lock.  A hit is two steps, both under the read lock: the       *)
(* atomic add to globalClock and the atomic store into the entry.  The     *)
(* program of expression e is written e.                                   *)
(***************************************************************************)
EXTENDS Integers, FiniteSets

CONSTANTS
  Callers,     \* goroutines calling Evaluate
  Exprs,       \* expression sources; never empty strings
  Bad,         \* the ones that do not compile
  Capacity,
  MaxClock,    \* bound: additions to globalClock
  Error, None

ASSUME SizeAssumption == Capacity \in Nat \ {0} /\ MaxClock \in Nat
ASSUME NameAssumption == /\ Bad \subseteq Exprs
                         /\ Error \notin Exprs /\ None \notin Exprs \cup Callers
                         /\ Error # None

VARIABLES
  entries,     \* the expressions in Cache.entries
  stamp,       \* cacheEntry.clock of each, 0 without an entry
  program,     \* cacheEntry.program of each, None without an entry
  inflight,    \* the caller compiling each expression, None if not in flight
  globalClock,
  pc,          \* where each caller is in getOrCompile
  expr,        \* its expression
  call,        \* the caller whose compileCall it waits on, None if none
  tick,        \* what its addition to globalClock returned, until it is stored
  out          \* prog or err of its call; None before they are set

vars == <<entries, stamp, program, inflight, globalClock, pc, expr, call, tick, out>>

Init ==
  /\ entries = {} /\ globalClock = 0
  /\ stamp = [e \in Exprs |-> 0]
  /\ program = [e \in Exprs |-> None]
  /\ inflight = [e \in Exprs |-> None]
  /\ pc = [p \in Callers |-> "idle"]
  /\ expr = [p \in Callers |-> None]
  /\ call = [p \in Callers |-> None]
  /\ tick = [p \in Callers |-> 0]
  /\ out = [p \in Callers |-> None]

Goto(p, l) == pc' = [pc EXCEPT ![p] = l]

\* No caller is between RLock and RUnlock, so Lock is granted.
Unread == \A p \in Callers : pc[p] # "hit"

Compiled(e) == IF e \in Bad THEN Error ELSE e
-----------------------------------------------------------------------------
(* getOrCompile, the fast path. *)

\* Bound: every call in progress may still add to globalClock once, unless its
\* expression does not compile.
InBound(e) ==
  e \in Bad \/ globalClock + Cardinality({p \in Callers : pc[p] # "idle"}) < MaxClock

\* Mutant: the clock is read and not incremented.
Hit_read(p, e) ==
  /\ pc[p] = "idle" /\ InBound(e)
  /\ e \in entries
  /\ tick' = [tick EXCEPT ![p] = globalClock]
  /\ out' = [out EXCEPT ![p] = program[e]]
  /\ expr' = [expr EXCEPT ![p] = e]
  /\ Goto(p, "hit")
  /\ UNCHANGED <<entries, stamp, program, inflight, globalClock, call>>

Hit(p, e) ==
  /\ pc[p] = "idle" /\ InBound(e)
  /\ e \in entries
  /\ globalClock' = globalClock + 1
  /\ tick' = [tick EXCEPT ![p] = globalClock + 1]
  /\ out' = [out EXCEPT ![p] = program[e]]
  /\ expr' = [expr EXCEPT ![p] = e]
  /\ Goto(p, "hit")
  /\ UNCHANGED <<entries, stamp, program, inflight, call>>

StoreClock(p) ==
  /\ pc[p] = "hit"
  /\ stamp' = [stamp EXCEPT ![expr[p]] = tick[p]]
  /\ tick' = [tick EXCEPT ![p] = 0]
  /\ Goto(p, "run")
  /\ UNCHANGED <<entries, program, inflight, globalClock, expr, call, out>>

Miss(p, e) ==
  /\ pc[p] = "idle" /\ InBound(e)
  /\ e \notin entries
  /\ expr' = [expr EXCEPT ![p] = e]
  /\ Goto(p, "missed")
  /\ UNCHANGED <<entries, stamp, program, inflight, globalClock, call, tick, out>>
-----------------------------------------------------------------------------
(* getOrCompile, the slow path. *)

\* A call found in flight may be closed already: its leader has not yet taken
\* the lock to delete it.
Join(p) ==
  /\ pc[p] = "missed" /\ Unread
  /\ inflight[expr[p]] # None
  /\ call' = [call EXCEPT ![p] = inflight[expr[p]]]
  /\ out' = [out EXCEPT ![p] = out[inflight[expr[p]]]]
  /\ Goto(p, "wait")
  /\ UNCHANGED <<entries, stamp, program, inflight, globalClock, expr, tick>>

\* Mutant: the waiter does not wait for the call to be closed.
Receive_early(p) ==
  /\ pc[p] = "wait"
  /\ call' = [call EXCEPT ![p] = None]
  /\ Goto(p, "run")
  /\ UNCHANGED <<entries, stamp, program, inflight, globalClock, expr, tick, out>>

Receive(p) ==
  /\ pc[p] = "wait" /\ out[p] # None
  /\ call' = [call EXCEPT ![p] = None]
  /\ Goto(p, "run")
  /\ UNCHANGED <<entries, stamp, program, inflight, globalClock, expr, tick, out>>

\* Mutant: the in-flight map is not consulted.
Lead_always(p) ==
  /\ pc[p] = "missed" /\ Unread
  /\ inflight' = [inflight EXCEPT ![expr[p]] = p]
  /\ Goto(p, "compile")
  /\ UNCHANGED <<entries, stamp, program, globalClock, expr, call, tick, out>>

Lead(p) ==
  /\ pc[p] = "missed" /\ Unread
  /\ inflight[expr[p]] = None
  /\ inflight' = [inflight EXCEPT ![expr[p]] = p]
  /\ Goto(p, "compile")
  /\ UNCHANGED <<entries, stamp, program, globalClock, expr, call, tick, out>>

\* Those who see p's call closed: p and the callers waiting on it.
Sharers(p) == {q \in Callers : q = p \/ (call[q] = p /\ out[q] = None)}

\* Mutant: a failed compile returns without closing the call.
Compile_unclosed(p) ==
  /\ pc[p] = "compile"
  /\ LET closed == IF expr[p] \in Bad THEN {p} ELSE Sharers(p)
     IN out' = [q \in Callers |-> IF q \in closed THEN Compiled(expr[p]) ELSE out[q]]
  /\ Goto(p, "insert")
  /\ UNCHANGED <<entries, stamp, program, inflight, globalClock, expr, call, tick>>

\* prog and err are set, then the call is closed; only then are they read.
Compile(p) ==
  /\ pc[p] = "compile"
  /\ out' = [q \in Callers |-> IF q \in Sharers(p) THEN Compiled(expr[p]) ELSE out[q]]
  /\ Goto(p, "insert")
  /\ UNCHANGED <<entries, stamp, program, inflight, globalClock, expr, call, tick>>

Deregister(p) ==
  /\ pc[p] = "insert" /\ Unread
  /\ inflight' = [inflight EXCEPT ![expr[p]] = None]
  /\ Goto(p, "run")
  /\ UNCHANGED <<expr, call, tick, out>>

Fail(p) ==
  /\ Deregister(p)
  /\ out[p] = Error
  /\ UNCHANGED <<entries, stamp, program, globalClock>>

\* The double-check: the entry is there already.
Present(p) ==
  /\ Deregister(p)
  /\ out[p] # Error /\ expr[p] \in entries
  /\ globalClock' = globalClock + 1
  /\ stamp' = [stamp EXCEPT ![expr[p]] = globalClock + 1]
  /\ UNCHANGED <<entries, program>>

\* The loop of evictIfNeeded deletes the entry with the least clock until fewer
\* than capacity are left: kept is what remains.
Newest(kept) == \A e \in kept, d \in entries \ kept : stamp[d] <= stamp[e]

\* Mutant: the loop stops one entry too early.
evictIfNeeded_late(kept) ==
  /\ kept \subseteq entries /\ Newest(kept)
  /\ IF Cardinality(entries) <= Capacity THEN kept = entries ELSE Cardinality(kept) = Capacity

evictIfNeeded(kept) ==
  /\ kept \subseteq entries /\ Newest(kept)
  /\ IF Cardinality(entries) < Capacity THEN kept = entries ELSE Cardinality(kept) = Capacity - 1

Put(p, kept) ==
  /\ entries' = kept \cup {expr[p]}
  /\ globalClock' = globalClock + 1
  /\ stamp' = [e \in Exprs |-> IF e = expr[p] THEN globalClock + 1
                               ELSE IF e \in kept THEN stamp[e] ELSE 0]
  /\ program' = [e \in Exprs |-> IF e = expr[p] THEN out[p]
                                 ELSE IF e \in kept THEN program[e] ELSE None]

\* Mutant: the entry is evicted and added under the read lock, beside hits.
Insert_shared(p) ==
  /\ pc[p] = "insert"
  /\ inflight' = [inflight EXCEPT ![expr[p]] = None]
  /\ Goto(p, "run")
  /\ out[p] # Error /\ expr[p] \notin entries
  /\ \E kept \in SUBSET entries : evictIfNeeded(kept) /\ Put(p, kept)
  /\ UNCHANGED <<expr, call, tick, out>>

\* Mutant: the error of the compile is not looked at.
Insert_failed(p) ==
  /\ Deregister(p)
  /\ expr[p] \notin entries
  /\ \E kept \in SUBSET entries : evictIfNeeded(kept) /\ Put(p, kept)

Insert(p) ==
  /\ Deregister(p)
  /\ out[p] # Error /\ expr[p] \notin entries
  /\ \E kept \in SUBSET entries : evictIfNeeded(kept) /\ Put(p, kept)

\* Evaluate returns the error, or runs the program and returns its verdict.
runProgram(p) ==
  /\ pc[p] = "run"
  /\ expr' = [expr EXCEPT ![p] = None]
  /\ out' = [out EXCEPT ![p] = None]
  /\ Goto(p, "idle")
  /\ UNCHANGED <<entries, stamp, program, inflight, globalClock, call, tick>>
-----------------------------------------------------------------------------
Locking(p) == Join(p) \/ Lead(p) \/ Fail(p) \/ Present(p) \/ Insert(p)
Unlocked(p) == StoreClock(p) \/ Receive(p) \/ Compile(p) \/ runProgram(p)

Next ==
  \E p \in Callers : \/ \E e \in Exprs : Hit(p, e) \/ Miss(p, e)
                     \/ Locking(p)
                     \/ Unlocked(p)

Spec == Init /\ [][Next]_vars

\* A caller that is not blocked runs, and RWMutex grants Lock although readers
\* keep coming: a waiting writer holds back later readers.
FairSpec == Spec /\ \A p \in Callers : WF_vars(Unlocked(p)) /\ SF_vars(Locking(p))
-----------------------------------------------------------------------------
(* Properties. *)

Results == Exprs \cup {Error, None}

\* The variables of the cache and of its callers have their types.
TypeOK ==
  /\ entries \subseteq Exprs /\ IsFiniteSet(entries)
  /\ stamp \in [Exprs -> Nat] /\ globalClock \in Nat
  /\ program \in [Exprs -> Results]
  /\ inflight \in [Exprs -> Callers \cup {None}]
  /\ pc \in [Callers -> {"idle", "hit", "missed", "wait", "compile", "insert", "run"}]
  /\ expr \in [Callers -> Exprs \cup {None}]
  /\ call \in [Callers -> Callers \cup {None}]
  /\ tick \in [Callers -> Nat]
  /\ out \in [Callers -> Results]

\* However inserts, evictions and double-checks interleave, the cache never
\* holds more programs than its capacity.
CacheBounded == Cardinality(entries) <= Capacity

\* Evaluate proceeds with the program of the expression it was given, or with
\* an error exactly when that does not compile: through a hit, a shared compile
\* or its own; never with the nil program of a call still in flight.
OwnProgram == \A p \in Callers : pc[p] = "run" => out[p] = Compiled(expr[p])

\* Concurrent compiles of one expression are shared: no two callers are
\* compiling the same one (the inflight map's comment).
CompilesShared ==
  \A p, q \in Callers : pc[p] = "compile" /\ pc[q] = "compile" /\ expr[p] = expr[q] => p = q

\* A failed compile leaves nothing in the cache, and an entry's program is its
\* own expression's.
OnlyCompiledCached == \A e \in entries : program[e] = e /\ e \notin Bad

\* The entry a hit refreshes is in the cache until the read lock is released.
HitsHeld == \A p \in Callers : pc[p] = "hit" => expr[p] \in entries

\* What getOrCompile relies on between its locked sections: a call is in flight
\* exactly while its leader compiles or has yet to insert, and a caller still
\* waiting waits on one that is being compiled.
CacheInv ==
  /\ TypeOK
  /\ CacheBounded /\ OwnProgram /\ OnlyCompiledCached /\ HitsHeld
  /\ \A p \in Callers : pc[p] # "idle" => expr[p] \in Exprs
  /\ \A p \in Callers : pc[p] \in {"compile", "insert"} => inflight[expr[p]] = p
  /\ \A e \in Exprs : inflight[e] # None =>
       pc[inflight[e]] \in {"compile", "insert"} /\ expr[inflight[e]] = e
  /\ \A p \in Callers : pc[p] \in {"idle", "missed", "compile"} => out[p] = None
  /\ \A p \in Callers : pc[p] \in {"hit", "insert"} => out[p] = Compiled(expr[p])
  /\ \A p \in Callers : pc[p] # "wait" => call[p] = None
  /\ \A p \in Callers : pc[p] = "wait" /\ out[p] # None => out[p] = Compiled(expr[p])
  /\ \A p \in Callers : pc[p] = "wait" /\ out[p] = None =>
       call[p] \in Callers /\ pc[call[p]] = "compile" /\ expr[call[p]] = expr[p]

\* Although hits store their clocks late and out of order, no two entries carry
\* the same one, so the entry evictIfNeeded deletes is determined and does not
\* depend on the order in which the map is iterated.
VictimUnique == \A d, e \in entries : d # e => stamp[d] # stamp[e]

\* What VictimUnique rests on: clocks handed out and not yet stored are fresh.
ClockInv ==
  /\ CacheInv /\ VictimUnique
  /\ \A e \in entries : stamp[e] <= globalClock
  /\ \A p \in Callers : pc[p] = "hit" => tick[p] <= globalClock
  /\ \A p \in Callers, e \in entries : pc[p] = "hit" => tick[p] # stamp[e]
  /\ \A p, q \in Callers : pc[p] = "hit" /\ pc[q] = "hit" /\ p # q => tick[p] # tick[q]

\* No caller hangs: every call of Evaluate returns, also one that waits on a
\* compile that fails.
EveryCallReturns == \A p \in Callers : pc[p] # "idle" ~> pc[p] = "idle"
=============================================================================
