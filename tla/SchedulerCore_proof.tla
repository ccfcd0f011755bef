------------------------- MODULE SchedulerCore_proof -------------------------
(***************************************************************************)
(* What every schedule() made of the steps of SchedulerCore guarantees:    *)
(* its queues are consistent, no KV block is lost, the token budget is     *)
(* respected, and the life of a request is the one RequestLifecycle        *)
(* promises.  Sums of token and block counts come first.  Then its batches *)
(* in flight: the placeholders they owe, the positions they sample at, the *)
(* slots and the tokens they compute, and the model runner executing them. *)
(***************************************************************************)
EXTENDS ModelRunner, RequestQueue_proof, FiniteSetTheorems, TLAPS

-----------------------------------------------------------------------------
(* Sums.  FoldFunction takes the elements of a domain one by one, in some  *)
(* order.  To know what it computes without an induction over that order,  *)
(* a sum is compared with a set that has as many elements: one pair for    *)
(* each unit of each value.                                                *)

Units(f, s) == UNION {{x} \X (1 .. f[x]) : x \in s}
Debts(f, s) == UNION {{x} \X (1 .. -f[x]) : x \in s}
Total(f, s) == Cardinality(Units(f, s)) - Cardinality(Debts(f, s))
Some(s) == CHOOSE x \in s : TRUE

\* The units of one more element.
LEMMA UnitsAdd ==
  ASSUME NEW s, IsFiniteSet(s), NEW f, \A y \in s : f[y] \in Int,
         NEW x, x \notin s, f[x] \in Int, IsFiniteSet(Units(f, s))
  PROVE  /\ IsFiniteSet(Units(f, s \cup {x}))
         /\ Cardinality(Units(f, s \cup {x})) =
              Cardinality(Units(f, s)) + (IF f[x] > 0 THEN f[x] ELSE 0)
<1> DEFINE u == Units(f, s)
           v == {x} \X (1 .. f[x])
<1>1. Units(f, s \cup {x}) = u \cup v /\ u \cap v = {}
  <2>1. \A p \in u : \E y \in s : p \in {y} \X (1 .. f[y])
    BY DEF Units
  <2>2. u \cap v = {}
    BY <2>1
  <2>3. Units(f, s \cup {x}) = u \cup v
    BY DEF Units
  <2> QED
    BY <2>2, <2>3
<1>2. IsFiniteSet(v) /\ Cardinality(v) = (IF f[x] > 0 THEN f[x] ELSE 0)
  <2>1. IsFiniteSet({x}) /\ Cardinality({x}) = 1
    BY FS_Singleton
  <2>2. /\ IsFiniteSet(1 .. f[x])
        /\ Cardinality(1 .. f[x]) = IF 1 > f[x] THEN 0 ELSE f[x] - 1 + 1
    BY FS_Interval
  <2>3. IsFiniteSet(v) /\ Cardinality(v) = Cardinality({x}) * Cardinality(1 .. f[x])
    BY <2>1, <2>2, FS_Product
  <2> QED
    BY <2>1, <2>2, <2>3
<1> HIDE DEF u, v
<1>3. /\ IsFiniteSet(u \cup v)
      /\ Cardinality(u \cup v) = Cardinality(u) + Cardinality(v) - Cardinality(u \cap v)
  BY <1>2, FS_Union DEF u
<1>4. Cardinality(u) \in Nat /\ Cardinality({}) = 0
  BY FS_CardinalityType, FS_EmptySet DEF u
<1>5. Cardinality(u \cup v) = Cardinality(u) + Cardinality(v)
  <2>1. Cardinality(u \cap v) = 0
    BY <1>1, <1>4
  <2>2. Cardinality(v) \in Int
    BY <1>2
  <2> QED
    BY <1>3, <1>4, <2>1, <2>2
<1>6. IsFiniteSet(Units(f, s \cup {x})) /\ Cardinality(Units(f, s \cup {x})) = Cardinality(u \cup v)
  BY <1>1, <1>3
<1> QED
  BY <1>2, <1>5, <1>6 DEF u

\* Only the values of the elements matter.
LEMMA TotalSame ==
  ASSUME NEW s, NEW f, NEW g, \A x \in s : f[x] = g[x]
  PROVE  Total(f, s) = Total(g, s)
<1>1. Units(f, s) = Units(g, s)
  BY DEF Units
<1>2. Debts(f, s) = Debts(g, s)
  BY DEF Debts
<1> QED
  BY <1>1, <1>2 DEF Total

\* A family of subsets of a finite set has a smallest member.
LEMMA SmallestMember ==
  ASSUME NEW S, IsFiniteSet(S), NEW F, F \subseteq SUBSET S, F # {}
  PROVE  \E T \in F : \A U \in F : U \subseteq T => U = T
<1>1. IsWellFoundedOn(StrictSubsetOrdering(S), FiniteSubsetsOf(S))
  BY FS_StrictSubsetOrderingWellFounded
<1>2. F \subseteq FiniteSubsetsOf(S)
  BY FS_FiniteSubsetsOfFinite
<1>3. PICK T \in F : \A U \in F : ~(<<U, T>> \in StrictSubsetOrdering(S))
  BY <1>1, <1>2, WFMin
<1>4. ASSUME NEW U \in F, U \subseteq T, U # T PROVE FALSE
  <2>1. <<U, T>> \in StrictSubsetOrdering(S)
    BY <1>4 DEF StrictSubsetOrdering
  <2> QED
    BY <1>3, <2>1
<1> QED
  BY <1>4

\* Finitely many values have finitely many units.
LEMMA UnitsFinite ==
  ASSUME NEW s, IsFiniteSet(s), NEW f, \A y \in s : f[y] \in Int
  PROVE  IsFiniteSet(Units(f, s))
<1> DEFINE F == {t \in SUBSET s : ~IsFiniteSet(Units(f, t))}
<1>1. SUFFICES ASSUME F # {} PROVE FALSE
  BY DEF F
<1>2. PICK T \in F : \A U \in F : U \subseteq T => U = T
  <2>1. F \subseteq SUBSET s
    OBVIOUS
  <2> HIDE DEF F
  <2> QED
    BY <1>1, <2>1, SmallestMember
<1>3. T # {}
  <2>1. Units(f, {}) = {}
    BY DEF Units
  <2> QED
    BY <2>1, FS_EmptySet
<1>4. PICK x \in T : TRUE
  BY <1>3
<1> DEFINE R == T \ {x}
<1>5. R \in SUBSET s /\ IsFiniteSet(R) /\ IsFiniteSet(Units(f, R)) /\ R \cup {x} = T /\ x \notin R
  <2>1. R \in SUBSET s /\ R \cup {x} = T /\ x \notin R
    BY <1>4
  <2>2. IsFiniteSet(R)
    BY <2>1, FS_Subset
  <2>3. R \notin F
    BY <1>2, <1>4
  <2> QED
    BY <2>1, <2>2, <2>3
<1>6. f[x] \in Int /\ \A y \in R : f[y] \in Int
  BY <1>4, <1>5
<1> HIDE DEF R
<1>7. IsFiniteSet(Units(f, R \cup {x}))
  BY <1>5, <1>6, UnitsAdd
<1> QED
  BY <1>2, <1>5, <1>7

\* A sum with one element more.
LEMMA TotalAdd ==
  ASSUME NEW s, IsFiniteSet(s), NEW f, \A y \in s : f[y] \in Int,
         NEW x, x \notin s, f[x] \in Int
  PROVE  /\ Total(f, s) \in Int
         /\ Total(f, s \cup {x}) = Total(f, s) + f[x]
<1>1. /\ Cardinality(Units(f, s)) \in Nat
      /\ Cardinality(Units(f, s \cup {x})) =
           Cardinality(Units(f, s)) + (IF f[x] > 0 THEN f[x] ELSE 0)
  BY UnitsFinite, UnitsAdd, FS_CardinalityType
<1>2. /\ Cardinality(Debts(f, s)) \in Nat
      /\ Cardinality(Debts(f, s \cup {x})) =
           Cardinality(Debts(f, s)) + (IF -f[x] > 0 THEN -f[x] ELSE 0)
  <2> DEFINE g == [y \in s \cup {x} |-> -f[y]]
  <2>1. g[x] = -f[x] /\ g[x] \in Int /\ \A y \in s : g[y] = -f[y] /\ g[y] \in Int
    OBVIOUS
  <2>2. Debts(f, s) = Units(g, s) /\ Debts(f, s \cup {x}) = Units(g, s \cup {x})
    BY DEF Debts, Units
  <2> HIDE DEF g
  <2>3. /\ Cardinality(Units(g, s)) \in Nat
        /\ Cardinality(Units(g, s \cup {x})) =
             Cardinality(Units(g, s)) + (IF g[x] > 0 THEN g[x] ELSE 0)
    BY <2>1, UnitsFinite, UnitsAdd, FS_CardinalityType
  <2> QED
    BY <2>1, <2>2, <2>3
<1> QED
  BY <1>1, <1>2 DEF Total

\* Nothing to add.
LEMMA TotalEmpty == ASSUME NEW f PROVE Total(f, {}) = 0
<1>1. Units(f, {}) = {} /\ Debts(f, {}) = {}
  BY DEF Units, Debts
<1>2. Cardinality(Units(f, {})) = 0 /\ Cardinality(Debts(f, {})) = 0
  BY <1>1, FS_EmptySet
<1> QED
  BY <1>2 DEF Total

\* A sum of integers is an integer.
LEMMA TotalType ==
  ASSUME NEW s, IsFiniteSet(s), NEW f, \A y \in s : f[y] \in Int
  PROVE  Total(f, s) \in Int
<1>1. CASE s = {}
  BY <1>1, TotalEmpty
<1>2. CASE s # {}
  <2>1. PICK x \in s : TRUE
    BY <1>2
  <2> DEFINE t == s \ {x}
  <2>2. IsFiniteSet(t) /\ x \notin t /\ f[x] \in Int /\ t \cup {x} = s /\ \A y \in t : f[y] \in Int
    BY <2>1, FS_RemoveElement
  <2> HIDE DEF t
  <2>3. Total(f, t) \in Int /\ Total(f, t \cup {x}) = Total(f, t) + f[x]
    BY <2>2, TotalAdd
  <2>4. Total(f, s) = Total(f, t) + f[x]
    BY <2>2, <2>3, Zenon
  <2> QED
    BY <2>2, <2>3, <2>4
<1> QED
  BY <1>1, <1>2

\* Taking any element out of a sum.
LEMMA TotalSplit ==
  ASSUME NEW s, IsFiniteSet(s), NEW f, \A y \in s : f[y] \in Int, NEW x \in s
  PROVE  Total(f, s \ {x}) \in Int /\ Total(f, s) = f[x] + Total(f, s \ {x})
<1> DEFINE t == s \ {x}
<1>1. IsFiniteSet(t) /\ x \notin t /\ f[x] \in Int /\ t \cup {x} = s /\ \A y \in t : f[y] \in Int
  BY FS_RemoveElement
<1> HIDE DEF t
<1>2. Total(f, t) \in Int /\ Total(f, t \cup {x}) = Total(f, t) + f[x]
  BY <1>1, TotalAdd
<1>3. Total(f, s) = Total(f, t) + f[x]
  BY <1>1, <1>2, Zenon
<1>4. Total(f, s) = f[x] + Total(f, t)
  BY <1>1, <1>2, <1>3
<1> QED
  BY <1>2, <1>4 DEF t

\* What FoldFunction computes: the equation its recursion stands for has a
\* solution, which is Total, and no other.
LEMMA SumIsTotal ==
  ASSUME NEW D, IsFiniteSet(D), NEW f \in [D -> Int]
  PROVE  Sum(f) = Total(f, D)
<1> DEFINE Solves(g) ==
      g = [s \in SUBSET D |-> IF s = {} THEN 0 ELSE f[Some(s)] + g[s \ {Some(s)}]]
<1>1. Sum(f) = (CHOOSE g : Solves(g))[D]
  <2>1. D = DOMAIN f
    OBVIOUS
  <2>2. Sum(f) = (CHOOSE g : g = [s \in SUBSET (DOMAIN f) |->
                    IF s = {} THEN 0 ELSE f[Some(s)] + g[s \ {Some(s)}]])[DOMAIN f]
    BY Zenon DEF Sum, FoldFunction, FoldFunctionOnSet, MapThenFoldSet, Some
  <2> QED
    BY <2>1, <2>2, Zenon
<1>2. ASSUME NEW s \in SUBSET D, s # {}
      PROVE  Some(s) \in s /\ Total(f, s) = f[Some(s)] + Total(f, s \ {Some(s)})
  <2>1. Some(s) \in s
    BY <1>2 DEF Some
  <2>2. IsFiniteSet(s)
    BY FS_Subset
  <2> QED
    BY <2>1, <2>2, TotalSplit
<1>3. Solves([s \in SUBSET D |-> Total(f, s)])
  <2> DEFINE g == [s \in SUBSET D |-> Total(f, s)]
  <2>1. ASSUME NEW s \in SUBSET D
        PROVE  g[s] = IF s = {} THEN 0 ELSE f[Some(s)] + g[s \ {Some(s)}]
    <3>1. CASE s = {}
      BY <3>1, TotalEmpty
    <3>2. CASE s # {}
      <4>1. s \ {Some(s)} \in SUBSET D
        OBVIOUS
      <4> QED
        BY <1>2, <3>2, <4>1
    <3> QED
      BY <3>1, <3>2
  <2>2. g = [s \in SUBSET D |-> g[s]]
    OBVIOUS
  <2> HIDE DEF g
  <2>3. g = [s \in SUBSET D |-> IF s = {} THEN 0 ELSE f[Some(s)] + g[s \ {Some(s)}]]
    BY <2>1, <2>2
  <2> QED
    BY <2>3 DEF g
<1> DEFINE it == CHOOSE g : Solves(g)
<1>4. Solves(it)
  <2> HIDE DEF Solves
  <2> QED
    BY <1>3
<1>5. \A s \in SUBSET D : it[s] = IF s = {} THEN 0 ELSE f[Some(s)] + it[s \ {Some(s)}]
  <2> HIDE DEF it
  <2> QED
    BY <1>4
<1> HIDE DEF it
<1> DEFINE F == {s \in SUBSET D : it[s] # Total(f, s)}
<1>6. F = {}
  <2> SUFFICES ASSUME F # {} PROVE FALSE
    OBVIOUS
  <2>1. PICK T \in F : \A U \in F : U \subseteq T => U = T
    <3>1. F \subseteq SUBSET D
      OBVIOUS
    <3> HIDE DEF F
    <3> QED
      BY <3>1, SmallestMember
  <2>2. T \in SUBSET D /\ it[T] # Total(f, T)
    BY <2>1
  <2>3. T # {}
    BY <1>5, <2>2, TotalEmpty
  <2>4. Some(T) \in T /\ T \ {Some(T)} \notin F
    BY <1>2, <2>1, <2>2, <2>3
  <2>5. it[T \ {Some(T)}] = Total(f, T \ {Some(T)})
    BY <2>2, <2>4
  <2>6. it[T] = f[Some(T)] + it[T \ {Some(T)}]
    BY <1>5, <2>2, <2>3
  <2> QED
    BY <1>2, <2>2, <2>3, <2>5, <2>6
<1>7. it[D] = Total(f, D)
  BY <1>6
<1> QED
  BY <1>1, <1>7 DEF it

\* A sum of integers is one, and changes by as much as one of them does.
LEMMA SumUpdate ==
  ASSUME NEW D, IsFiniteSet(D), NEW f \in [D -> Int], NEW r \in D, NEW v \in Int
  PROVE  /\ Sum(f) \in Int
         /\ Sum([f EXCEPT ![r] = v]) = Sum(f) - f[r] + v
<1> DEFINE g == [f EXCEPT ![r] = v]
<1>1. g \in [D -> Int] /\ g[r] = v /\ \A x \in D \ {r} : f[x] = g[x]
  OBVIOUS
<1> HIDE DEF g
<1>2. Sum(f) = Total(f, D) /\ Sum(g) = Total(g, D)
  BY <1>1, SumIsTotal
<1>3. Total(f, D \ {r}) \in Int /\ Total(f, D) = f[r] + Total(f, D \ {r})
  BY TotalSplit
<1>4. Total(g, D) = g[r] + Total(g, D \ {r})
  BY <1>1, TotalSplit
<1>5. Total(f, D \ {r}) = Total(g, D \ {r})
  BY <1>1, TotalSame
<1>6. f[r] \in Int
  OBVIOUS
<1> QED
  BY <1>1, <1>2, <1>3, <1>4, <1>5, <1>6 DEF g

\* Nothing but zeros.
LEMMA SumZero ==
  ASSUME NEW D, IsFiniteSet(D)
  PROVE  Sum([r \in D |-> 0]) = 0
<1> DEFINE z == [r \in D |-> 0]
           F == {s \in SUBSET D : Total(z, s) # 0}
<1>1. z \in [D -> Int] /\ \A x \in D : z[x] = 0
  OBVIOUS
<1> HIDE DEF z
<1>2. F = {}
  <2> SUFFICES ASSUME F # {} PROVE FALSE
    OBVIOUS
  <2>1. PICK T \in F : \A U \in F : U \subseteq T => U = T
    <3>1. F \subseteq SUBSET D
      OBVIOUS
    <3> HIDE DEF F
    <3> QED
      BY <3>1, SmallestMember
  <2>2. T # {} /\ T \in SUBSET D /\ Total(z, T) # 0
    BY <2>1, TotalEmpty
  <2>3. PICK x \in T : TRUE
    BY <2>2
  <2>4. T \ {x} \notin F /\ T \ {x} \in SUBSET D
    BY <2>1, <2>2, <2>3
  <2>5. IsFiniteSet(T) /\ \A y \in T : z[y] \in Int
    BY <1>1, <2>2, FS_Subset
  <2>6. Total(z, T) = z[x] + Total(z, T \ {x})
    BY <2>3, <2>5, TotalSplit
  <2> QED
    BY <1>1, <2>2, <2>3, <2>4, <2>6
<1>3. Total(z, D) = 0
  BY <1>2
<1>4. Sum(z) = Total(z, D)
  BY <1>1, SumIsTotal
<1> QED
  BY <1>3, <1>4 DEF z

-----------------------------------------------------------------------------
(* The steps both schedulers are made of.  What schedule() of either one   *)
(* does is one of these, whichever loop comes first and however it counts  *)
(* the tokens of a request; their proofs show it, and then have every      *)
(* invariant of CoreNext.                                                  *)

\* schedule() starts, with room in the batch queue.
Begins ==
  /\ pc = "idle" /\ QueueHasRoom(queue) /\ budget' = MaxNumScheduledTokens
  /\ pc' \in {"waiting", "running"}
  /\ UNCHANGED <<reqVars, blockVars, queueVars, skipped, idx, cur, num,
                 nsched, sspec, todo, queue>>

\* The waiting loop skips, admits, and ends; the running loop follows only
\* if nothing is scheduled yet.
Skips(r) == pc = "waiting" /\ r \in Elems(waiting) /\ SetAside(r)

Admits(r, n) ==
  /\ pc = "waiting" /\ r \in Elems(waiting)
  /\ Len(running) # MaxNumRunningReqs /\ 0 < n /\ n <= budget
  /\ n <= NumTokens(r) - computed[r]
  /\ computed[r] + n <= MaxModelLen
  /\ Fits(r, n, 0) /\ Admit(r, n)

PutsBack ==
  /\ pc = "waiting" /\ PutBackSkipped
  /\ pc' \in {"running", "commit"} /\ (pc' = "running" => nsched = Zero)
  /\ UNCHANGED <<reqVars, blockVars, running, finished, budget, idx, cur,
                 num, nsched, sspec, todo, queue>>

\* The unchunked loops let a request run NumSpecTokens - 1 tokens past its
\* limit, and so past the model length; the chunked ones stop at it.
DraftsFit == Chunked \/ NumSpecTokens <= 1

\* The length limit of the running loops, the tokens of a request they have
\* not computed, and where no output of an earlier life of a request takes
\* placeholders of it: then a count of tokens is never negative.
Ceiling(r) == IF Chunked THEN MaxModelLen ELSE MaxTotalTokens(r) + NumSpecTokens - 1
Remaining(r) == NumTokens(r) + spec[r] + placeholders[r] - computed[r]
Exact == AsyncScheduling => MaxSubmissions = 1

\* Two batches in flight without async scheduling, and what the waiting loop
\* of such a pass relies on: the requests that are sampled run.
Pipelined == ~AsyncScheduling /\ BatchQueueSize = 2 /\ MaxSubmissions = 1
SampledRun == \A r \in Reqs : Live(r) /\ InFlight(r) # {} => status[r] = "running"

\* The running loop passes over a request, picks one, and ends; the waiting
\* loop follows only if no request scheduled in this pass was preempted.
PassesOver ==
  /\ pc = "running" /\ idx' = idx + 1
  /\ UNCHANGED <<reqVars, blockVars, queueVars, pc, skipped, budget, cur,
                 num, nsched, sspec, todo, queue>>

Picks ==
  /\ pc = "running" /\ idx <= Len(running)
  /\ cur' = running[idx] /\ num' \in Int /\ num' <= budget
  /\ DraftsFit => computed[running[idx]] + num' <= MaxModelLen
  /\ num' <= Remaining(running[idx]) /\ computed[running[idx]] + num' <= Ceiling(running[idx])
  /\ Exact => num' > 0
  /\ pc' = "alloc"
  /\ UNCHANGED <<reqVars, blockVars, queueVars, skipped, budget, idx, nsched,
                 sspec, todo, queue>>

LeavesRunning ==
  /\ pc = "running" /\ pc' \in {"waiting", "commit"}
  /\ pc' = "waiting" => /\ \A r \in Reqs : nsched[r] # 0 => r \in Elems(running)
                        /\ Pipelined => SampledRun
  /\ UNCHANGED <<reqVars, blockVars, queueVars, localVars, todo, queue>>

\* The batch enters the queue; the engine returns or waits for the oldest.
Commits ==
  /\ EnterQueue
  /\ \/ pc' = "idle" /\ todo' = {} /\ QueueHasRoom(Append(queue, NewBatch))
     \/ StartOutput(Append(queue, NewBatch))

\* The oldest batch leaves the queue; the masks of others may be renewed.
Pops ==
  /\ pc = "output" /\ todo = {} /\ pc' = "idle"
  /\ queue' \in Seq(Batches) /\ Len(queue') = Len(queue) - 1
  /\ \A i \in 1 .. Len(queue) - 1 :
       /\ queue'[i].n = queue[i + 1].n /\ queue'[i].s = queue[i + 1].s
       /\ queue'[i].emit = queue[i + 1].emit /\ queue'[i].base = queue[i + 1].base
       /\ queue'[i].lost = queue[i + 1].lost
       /\ queue'[i].sub = queue[i + 1].sub
  /\ spec' \in [Reqs -> Nat]
  /\ \A r \in Reqs : spec'[r] = spec[r] \/ spec'[r] <= NumSpecTokens
  /\ UNCHANGED <<status, out, computed, placeholders, submissions, ready,
                 blockVars, queueVars, localVars, todo>>

PassStep ==
  \/ Begins \/ PutsBack \/ PassesOver \/ Picks \/ ScheduleRunning \/ LeavesRunning
  \/ \E r \in Reqs : Skips(r) \/ Preempt(r) \/ \E n \in Int : Admits(r, n)

CoreNext ==
  \/ PassStep \/ Commits \/ Drain \/ OutputStep \/ Pops \/ ClientStep
  \/ \E r \in Reqs : GrammarReady(r)
  \/ UNCHANGED vars

-----------------------------------------------------------------------------
(* The invariant behind the types.                                          *)

\* Between two passes nothing is scheduled and nothing is set aside; a pass
\* is only started, and only goes on, with room in the batch queue; blocks
\* are only asked for once a request is picked.
PassState ==
  /\ pc \in {"idle", "output"} => nsched = Zero
  /\ pc # "waiting" => skipped = <<>>
  /\ pc # "output" => Len(queue) < BatchQueueSize
  /\ pc = "alloc" => cur \in Reqs

\* The running loop has passed every request it scheduled.
LoopAhead == pc \in {"running", "alloc"} => Cardinality(Scheduled(nsched)) < idx

\* The batch queue is never read when it is empty, running[idx] never with
\* an index out of range.
Inv == TypeOK /\ LoopAhead /\ PassState /\ BatchQueueBounded

USE DEF Live, Statuses, Steps, SetAside, Admit, PutBackSkipped, EnterQueue

-----------------------------------------------------------------------------
(* The parts actions are made of.                                           *)

\* What allocate_slots takes is what it found free.
LEMMA AllocateType ==
  ASSUME TypeOK, NEW r \in Reqs, NEW n \in Int, NEW lookahead \in Nat,
         Fits(r, n, lookahead), AllocateSlots(r, n, lookahead)
  PROVE  held' \in [Reqs -> Nat] /\ free' \in Nat
<1>1. /\ held \in [Reqs -> Nat] /\ free \in Nat /\ computed[r] \in Int
      /\ FixedWindow \in Nat /\ MaxModelLen \in Nat /\ BlockSize \in Nat \ {0}
  BY CoreAssumption DEF TypeOK
<1>2. BlocksFor(r, n, lookahead) \in Int
  <2>1. MinOf(computed[r] + n + lookahead + FixedWindow, MaxModelLen) \in Int
    BY <1>1 DEF MinOf
  <2> QED
    BY <1>1, <2>1 DEF BlocksFor
<1>3. NewBlocks(r, n, lookahead) \in Nat
  BY <1>1, <1>2 DEF NewBlocks
<1> DEFINE new == NewBlocks(r, n, lookahead)
<1>4. /\ new <= free /\ free' = free - new
      /\ held' = [held EXCEPT ![r] = held[r] + new]
  BY DEF Fits, AllocateSlots
<1> HIDE DEF new
<1>5. new \in Nat /\ held[r] + new \in Nat
  BY <1>1, <1>3 DEF new
<1>6. free' \in Nat
  BY <1>1, <1>4, <1>5
<1>7. held' \in [Reqs -> Nat]
  BY <1>1, <1>4, <1>5
<1> QED
  BY <1>6, <1>7

\* Giving all blocks of a request back keeps the types of the pool.
LEMMA FreeType ==
  ASSUME TypeOK, NEW r \in Reqs, FreeBlocks(r)
  PROVE  held' \in [Reqs -> Nat] /\ free' \in Nat
<1>1. held \in [Reqs -> Nat] /\ free \in Nat /\ held[r] \in Nat
  BY DEF TypeOK
<1>2. held' \in [Reqs -> Nat]
  BY <1>1 DEF FreeBlocks
<1>3. free' \in Nat
  BY <1>1 DEF FreeBlocks
<1> QED
  BY <1>2, <1>3

\* The end of a request, by abort or by stop.
LEMMA FinishType ==
  ASSUME TypeOK, NEW r \in Reqs, Finish(r)
  PROVE  /\ status' \in [Reqs -> Statuses]
         /\ out' \in [Reqs -> Nat] /\ computed' \in [Reqs -> Int]
         /\ placeholders' \in [Reqs -> Int] /\ spec' \in [Reqs -> Nat]
         /\ submissions' \in [Reqs -> Nat] /\ ready' \subseteq Reqs
         /\ held' \in [Reqs -> Nat] /\ free' \in Nat
         /\ waiting' \in Seq(Reqs) /\ running' \in Seq(Reqs)
         /\ finished' \subseteq Reqs
<1>1. held' \in [Reqs -> Nat] /\ free' \in Nat
  BY FreeType DEF Finish
<1>2. waiting' \in Seq(Reqs) /\ running' \in Seq(Reqs)
  BY WithoutElems DEF Finish, TypeOK
<1>3. status' \in [Reqs -> Statuses]
  BY DEF Finish, TypeOK
<1>4. /\ out \in [Reqs -> Nat] /\ computed \in [Reqs -> Int]
      /\ placeholders \in [Reqs -> Int] /\ spec \in [Reqs -> Nat]
  BY DEF TypeOK
<1>5. /\ out' = [out EXCEPT ![r] = 0] /\ computed' = [computed EXCEPT ![r] = 0]
      /\ placeholders' = [placeholders EXCEPT ![r] = 0]
      /\ spec' = [spec EXCEPT ![r] = 0]
  BY DEF Finish
<1>6. out' \in [Reqs -> Nat]
  BY <1>4, <1>5
<1>7. spec' \in [Reqs -> Nat]
  BY <1>4, <1>5
<1>8. computed' \in [Reqs -> Int]
  BY <1>4, <1>5
<1>9. placeholders' \in [Reqs -> Int]
  BY <1>4, <1>5
<1>10. /\ submissions' \in [Reqs -> Nat] /\ ready' \subseteq Reqs
       /\ finished' \subseteq Reqs
  BY DEF Finish, TypeOK
<1> QED
  BY <1>1, <1>2, <1>3, <1>6, <1>7, <1>8, <1>9, <1>10

\* Token counts are integers.
LEMMA TokensType ==
  ASSUME TypeOK, NEW r \in Reqs
  PROVE  /\ NumTokens(r) \in Nat /\ MaxTotalTokens(r) \in Nat
         /\ PrefillTokens(r) \in Int
<1>1. /\ Prompt[r] \in Nat /\ MaxTokens[r] \in Nat /\ MaxModelLen \in Nat
      /\ NumSpecTokens \in Nat /\ LongPrefillThreshold \in Nat
      /\ out[r] \in Nat /\ computed[r] \in Int /\ spec[r] \in Nat
      /\ placeholders[r] \in Int /\ budget \in Int
  BY CoreAssumption DEF TypeOK
<1> QED
  BY <1>1 DEF NumTokens, MaxTotalTokens, PrefillTokens, MinOf

\* A pass ends with a batch made of what it scheduled.
LEMMA NewBatchType ==
  ASSUME TypeOK
  PROVE  NewBatch \in Batches
<1>1. Emitting \subseteq Reqs
  BY DEF Emitting, Scheduled
<1>2. \A r \in Reqs : /\ NumTokens(r) + placeholders[r] \in Int
                      /\ out[r] \in Nat /\ submissions[r] \in Nat
  <2>1. /\ placeholders \in [Reqs -> Int]
        /\ out \in [Reqs -> Nat] /\ submissions \in [Reqs -> Nat]
    BY DEF TypeOK
  <2> QED
    BY <2>1, TokensType
<1> QED
  BY <1>1, <1>2 DEF NewBatch, Batches, TypeOK, Zero

-----------------------------------------------------------------------------
(* Type correctness.                                                        *)

\* An idle engine with empty queues has the types and the pass state.
LEMMA InitInv == Init => Inv
<1> SUFFICES ASSUME Init PROVE Inv
  OBVIOUS
<1>1. /\ NumBlocks \in Nat /\ BatchQueueSize \in Nat \ {0}
      /\ Zero \in [Reqs -> Nat] /\ Zero \in [Reqs -> Int]
  BY CoreAssumption DEF Zero
<1>2. TypeOK
  BY <1>1 DEF Init, TypeOK
<1>3. LoopAhead /\ PassState /\ BatchQueueBounded
  BY <1>1 DEF Init, LoopAhead, PassState, BatchQueueBounded
<1> QED
  BY <1>2, <1>3 DEF Inv

\* The requests scheduled in this pass are finitely many, and one request
\* more or less changes their number by one.
LEMMA ScheduledFinite ==
  ASSUME nsched \in [Reqs -> Int]
  PROVE  /\ IsFiniteSet(Scheduled(nsched))
         /\ Cardinality(Scheduled(nsched)) \in Nat
         /\ Scheduled(Zero) = {}
         /\ Cardinality({}) = 0
<1>1. IsFiniteSet(Scheduled(nsched))
  <2>1. Scheduled(nsched) \subseteq Reqs
    BY DEF Scheduled
  <2> QED
    BY <2>1, CoreAssumption, FS_Subset
<1>2. Scheduled(Zero) = {}
  BY DEF Scheduled, Zero
<1> QED
  BY <1>1, <1>2, FS_CardinalityType, FS_EmptySet

\* schedule() begins with the full token budget and no request scheduled.
LEMMA BeginsInv ==
  ASSUME Inv, Begins
  PROVE  Inv'
<1> USE DEF Inv
<1>1. TypeOK'
  <2>1. /\ UNCHANGED <<reqVars, blockVars, queueVars>>
        /\ UNCHANGED <<skipped, idx, cur, num, nsched, sspec, todo, queue>>
    BY DEF Begins
  <2>2. budget' \in Int /\ pc' \in Steps
    BY CoreAssumption DEF Begins
  <2> QED
    BY <2>1, <2>2 DEF TypeOK, reqVars, blockVars, queueVars
<1>2. LoopAhead'
  <2>1. nsched = Zero /\ idx \in Nat \ {0} /\ nsched' = nsched /\ idx' = idx
    BY DEF Begins, PassState, TypeOK
  <2>2. Cardinality(Scheduled(nsched')) = 0
    BY <2>1, ScheduledFinite DEF TypeOK
  <2> QED
    BY <2>1, <2>2 DEF LoopAhead
<1>3. PassState' /\ BatchQueueBounded'
  BY DEF Begins, PassState, BatchQueueBounded, QueueHasRoom
<1> QED
  BY <1>1, <1>2, <1>3

\* A request put aside moves from one queue to another, and is still one.
LEMMA SkipsInv ==
  ASSUME Inv, NEW r \in Reqs, Skips(r)
  PROVE  Inv'
<1> USE DEF Inv
<1>1. waiting' \in Seq(Reqs) /\ skipped' \in Seq(Reqs)
  BY WithoutElems, PrependElems DEF Skips, TypeOK
<1>2. TypeOK'
  BY <1>1 DEF Skips, TypeOK, reqVars, blockVars
<1>3. LoopAhead' /\ PassState' /\ BatchQueueBounded'
  BY DEF Skips, LoopAhead, PassState, BatchQueueBounded
<1> QED
  BY <1>2, <1>3

\* Admitting a request records its tokens and blocks as natural numbers.
LEMMA AdmitsInv ==
  ASSUME Inv, NEW r \in Reqs, NEW n \in Int, Admits(r, n)
  PROVE  Inv'
<1> USE DEF Inv
<1>1. held' \in [Reqs -> Nat] /\ free' \in Nat
  BY AllocateType DEF Admits
<1>2. waiting' \in Seq(Reqs) /\ running' \in Seq(Reqs)
  BY WithoutElems, AppendElems DEF Admits, TypeOK
<1>3. nsched' \in [Reqs -> Int]
  BY DEF Admits, TypeOK
<1>4. budget' \in Int
  BY DEF Admits, TypeOK
<1>5. status' \in [Reqs -> Statuses]
  BY DEF Admits, TypeOK
<1>6. TypeOK'
  BY <1>1, <1>2, <1>3, <1>4, <1>5 DEF Admits, TypeOK
<1>7. LoopAhead' /\ PassState' /\ BatchQueueBounded'
  BY DEF Admits, LoopAhead, PassState, BatchQueueBounded
<1> QED
  BY <1>6, <1>7

\* The skipped requests return to waiting in their order, all of them.
LEMMA PutsBackInv ==
  ASSUME Inv, PutsBack
  PROVE  Inv'
<1> USE DEF Inv
<1>1. waiting' \in Seq(Reqs) /\ skipped' \in Seq(Reqs)
  <2>1. /\ waiting \in Seq(Reqs) /\ skipped \in Seq(Reqs)
        /\ Backwards(skipped) \in Seq(Reqs)
    BY BackwardsElems DEF TypeOK
  <2>2. /\ waiting' \in {skipped \o waiting, Backwards(skipped) \o waiting}
        /\ skipped' = <<>>
    BY DEF PutsBack
  <2>3. /\ skipped \o waiting \in Seq(Reqs)
        /\ Backwards(skipped) \o waiting \in Seq(Reqs)
    BY <2>1, ConcatElems
  <2>4. waiting' \in Seq(Reqs)
    <3>1. CASE waiting' = skipped \o waiting
      BY <2>3, <3>1
    <3>2. CASE waiting' = Backwards(skipped) \o waiting
      BY <2>3, <3>2
    <3> QED
      BY <2>2, <3>1, <3>2
  <2>5. skipped' \in Seq(Reqs)
    BY <2>2
  <2> QED
    BY <2>4, <2>5
<1>2. TypeOK'
  BY <1>1 DEF PutsBack, TypeOK, reqVars, blockVars
<1>3. LoopAhead'
  <2>1. /\ idx' = idx /\ idx \in Nat \ {0} /\ nsched' = nsched
        /\ pc' = "running" => Scheduled(nsched) = {}
        /\ pc' \in {"running", "commit"}
    BY ScheduledFinite DEF PutsBack, TypeOK
  <2>2. Cardinality({}) = 0
    BY FS_EmptySet
  <2> QED
    BY <2>1, <2>2 DEF LoopAhead
<1>4. PassState' /\ BatchQueueBounded'
  BY DEF PutsBack, PassState, BatchQueueBounded
<1> QED
  BY <1>2, <1>3, <1>4

\* Passing over a running request moves req_index by one, in range.
LEMMA PassesOverInv ==
  ASSUME Inv, PassesOver
  PROVE  Inv'
<1> USE DEF Inv
<1>1. TypeOK'
  <2>1. idx' = idx + 1 /\ idx' \in Nat \ {0}
    BY DEF PassesOver, TypeOK
  <2> QED
    BY <2>1 DEF PassesOver, TypeOK, reqVars, blockVars, queueVars
<1>2. LoopAhead'
  <2>1. Cardinality(Scheduled(nsched)) \in Nat /\ idx \in Nat
    BY ScheduledFinite DEF TypeOK
  <2> QED
    BY <2>1 DEF PassesOver, LoopAhead
<1>3. PassState' /\ BatchQueueBounded'
  BY DEF PassesOver, PassState, BatchQueueBounded
<1> QED
  BY <1>1, <1>2, <1>3

\* The request taken up by the running loop is one of running.
LEMMA PicksInv ==
  ASSUME Inv, Picks
  PROVE  Inv'
<1> USE DEF Inv
<1>1. running[idx] \in Reqs
  BY DEF Picks, TypeOK
<1>2. TypeOK'
  BY <1>1 DEF Picks, TypeOK, reqVars, blockVars, queueVars
<1>3. LoopAhead' /\ PassState' /\ BatchQueueBounded'
  BY <1>1 DEF Picks, LoopAhead, PassState, BatchQueueBounded
<1> QED
  BY <1>2, <1>3

\* Leaving the running loop changes nothing but the phase.
LEMMA LeavesRunningInv ==
  ASSUME Inv, LeavesRunning
  PROVE  Inv'
<1>1. TypeOK'
  BY DEF LeavesRunning, Inv, TypeOK, reqVars, blockVars, queueVars, localVars
<1>2. LoopAhead' /\ PassState' /\ BatchQueueBounded'
  BY DEF LeavesRunning, Inv, LoopAhead, PassState, BatchQueueBounded, localVars
<1> QED
  BY <1>1, <1>2 DEF Inv

\* Scheduling the request in hand moves req_index past it, in range.
LEMMA ScheduleRunningInv ==
  ASSUME Inv, ScheduleRunning
  PROVE  Inv'
<1>1. cur \in Reqs /\ num \in Int /\ NumSpecTokens \in Nat /\ TypeOK
  BY CoreAssumption DEF Inv, PassState, ScheduleRunning, TypeOK
<1>2. held' \in [Reqs -> Nat] /\ free' \in Nat
  BY <1>1, AllocateType DEF ScheduleRunning
<1>3. nsched' \in [Reqs -> Int]
  BY <1>1 DEF ScheduleRunning, TypeOK
<1>4. sspec' \in [Reqs -> Int]
  <2> DEFINE extra == num + computed[cur] - NumTokens(cur) - placeholders[cur]
             s == IF spec[cur] > 0 /\ extra > 0 THEN MinOf(extra, spec[cur]) ELSE 0
  <2>1. extra \in Int /\ spec[cur] \in Int
    <3>1. /\ computed[cur] \in Int /\ placeholders[cur] \in Int
          /\ spec[cur] \in Int
      BY <1>1 DEF TypeOK
    <3>2. NumTokens(cur) \in Int
      BY <1>1, TokensType
    <3> QED
      BY <1>1, <3>1, <3>2
  <2>2. s \in Int
    BY <2>1 DEF MinOf
  <2>3. sspec' = [sspec EXCEPT ![cur] = s]
    BY DEF ScheduleRunning
  <2> HIDE DEF s
  <2> QED
    BY <1>1, <2>2, <2>3 DEF TypeOK
<1>5. spec' \in [Reqs -> Nat]
  BY <1>1 DEF ScheduleRunning, TypeOK
<1>6. budget' \in Int /\ idx' = idx + 1 /\ idx' \in Nat \ {0} /\ idx \in Nat
  BY <1>1 DEF ScheduleRunning, TypeOK
<1>7. TypeOK'
  <2>1. /\ status' = status /\ out' = out /\ computed' = computed
        /\ placeholders' = placeholders /\ submissions' = submissions
        /\ ready' = ready /\ waiting' = waiting /\ running' = running
        /\ finished' = finished /\ skipped' = skipped /\ todo' = todo
        /\ queue' = queue /\ pc' = "running" /\ cur' = NoReq /\ num' = 0
    BY DEF ScheduleRunning, queueVars
  <2>2. /\ computed' \in [Reqs -> Int] /\ placeholders' \in [Reqs -> Int]
        /\ out' \in [Reqs -> Nat] /\ submissions' \in [Reqs -> Nat]
        /\ status' \in [Reqs -> Statuses] /\ ready' \subseteq Reqs
        /\ waiting' \in Seq(Reqs) /\ running' \in Seq(Reqs)
        /\ finished' \subseteq Reqs /\ skipped' \in Seq(Reqs)
        /\ todo' \subseteq Reqs /\ queue' \in Seq(Batches)
    BY <1>1, <2>1 DEF TypeOK
  <2>3. pc' \in Steps /\ cur' \in Reqs \cup {NoReq} /\ num' \in Int
    BY <2>1
  <2> QED
    BY <1>2, <1>3, <1>4, <1>5, <1>6, <2>2, <2>3 DEF TypeOK
<1>8. LoopAhead'
  <2>1. Scheduled(nsched') \subseteq Scheduled(nsched) \cup {cur}
    BY <1>1 DEF ScheduleRunning, Scheduled, TypeOK
  <2>2. /\ IsFiniteSet(Scheduled(nsched) \cup {cur})
        /\ Cardinality(Scheduled(nsched) \cup {cur})
             <= Cardinality(Scheduled(nsched)) + 1
        /\ Cardinality(Scheduled(nsched)) \in Nat
        /\ Cardinality(Scheduled(nsched) \cup {cur}) \in Nat
    <3>1. IsFiniteSet(Scheduled(nsched)) /\ Cardinality(Scheduled(nsched)) \in Nat
      BY <1>1, ScheduledFinite DEF TypeOK
    <3> QED
      BY <3>1, FS_AddElement, FS_CardinalityType
  <2>3. /\ Cardinality(Scheduled(nsched')) \in Nat
        /\ Cardinality(Scheduled(nsched'))
             <= Cardinality(Scheduled(nsched) \cup {cur})
    BY <2>1, <2>2, FS_Subset, FS_CardinalityType
  <2>4. Cardinality(Scheduled(nsched)) < idx /\ pc' = "running"
    BY DEF ScheduleRunning, Inv, LoopAhead
  <2>5. Cardinality(Scheduled(nsched')) < idx'
    BY <1>6, <2>2, <2>3, <2>4
  <2> QED
    BY <2>4, <2>5 DEF LoopAhead
<1>9. PassState' /\ BatchQueueBounded'
  BY DEF ScheduleRunning, Inv, PassState, BatchQueueBounded
<1> QED
  BY <1>7, <1>8, <1>9 DEF Inv

\* A preemption shortens running behind or before req_index, and the index
\* follows it.
LEMMA PreemptInv ==
  ASSUME Inv, NEW v \in Reqs, Preempt(v)
  PROVE  Inv'
<1>1. TypeOK
  BY DEF Inv
<1>2. held' \in [Reqs -> Nat] /\ free' \in Nat
  BY <1>1, FreeType DEF Preempt
<1>3. running' \in Seq(Reqs) /\ waiting' \in Seq(Reqs)
  BY <1>1, WithoutElems, PrependElems DEF Preempt, TypeOK
<1>4. status' \in [Reqs -> Statuses]
  BY <1>1 DEF Preempt, TypeOK
<1>5. computed' \in [Reqs -> Int]
  BY <1>1 DEF Preempt, TypeOK
<1>6. /\ Refund(v) => nsched' = [nsched EXCEPT ![v] = 0]
      /\ ~Refund(v) => nsched' = nsched
      /\ nsched \in [Reqs -> Int] /\ nsched' \in [Reqs -> Int]
  <2>1. /\ Refund(v) => nsched' = [nsched EXCEPT ![v] = 0]
        /\ ~Refund(v) => nsched' = nsched
        /\ nsched \in [Reqs -> Int]
    BY <1>1 DEF Preempt, TypeOK
  <2>2. [nsched EXCEPT ![v] = 0] \in [Reqs -> Int]
    BY <2>1
  <2> QED
    BY <2>1, <2>2
<1>7. sspec' \in [Reqs -> Int]
  <2>1. /\ sspec' = [sspec EXCEPT ![v] = 0] \/ sspec' = sspec
        /\ sspec \in [Reqs -> Int]
    BY <1>1 DEF Preempt, TypeOK
  <2>2. [sspec EXCEPT ![v] = 0] \in [Reqs -> Int]
    BY <2>1
  <2> QED
    BY <2>1, <2>2
<1>8. budget' \in Int
  <2>1. budget \in Int /\ nsched[v] \in Int
    BY <1>1 DEF TypeOK
  <2> QED
    BY <2>1 DEF Preempt
<1>9. /\ idx \in Nat \ {0} /\ Cardinality(Scheduled(nsched)) < idx
      /\ Cardinality(Scheduled(nsched)) \in Nat
      /\ IsFiniteSet(Scheduled(nsched))
  BY <1>1, ScheduledFinite DEF Preempt, Inv, LoopAhead, TypeOK
<1>10. /\ idx' \in Nat \ {0}
       /\ Cardinality(Scheduled(nsched')) < idx'
  <2>1. CASE Refund(v)
    <3>1. v \in Scheduled(nsched) /\ idx' = idx - 1
      BY <2>1 DEF Preempt, Refund, Scheduled
    <3>2. Scheduled(nsched') = Scheduled(nsched) \ {v}
      BY <1>6, <2>1 DEF Scheduled
    <3>3. /\ Cardinality(Scheduled(nsched) \ {v})
              = Cardinality(Scheduled(nsched)) - 1
          /\ Cardinality(Scheduled(nsched) \ {v}) \in Nat
      <4>1. IsFiniteSet(Scheduled(nsched) \ {v})
        BY <1>9, FS_Subset
      <4> QED
        BY <1>9, <3>1, <4>1, FS_RemoveElement, FS_CardinalityType
    <3> QED
      BY <1>9, <3>1, <3>2, <3>3
  <2>2. CASE ~Refund(v)
    BY <1>9, <2>2 DEF Preempt
  <2> QED
    BY <2>1, <2>2
<1>11. cur' \in Reqs \cup {NoReq} /\ num' \in Int /\ pc' \in {"alloc", "commit"}
  <2>1. CASE v = cur
    BY <2>1 DEF Preempt
  <2>2. CASE v # cur
    BY <1>1, <2>2 DEF Preempt, TypeOK
  <2> QED
    BY <2>1, <2>2
<1>12. TypeOK'
  BY <1>1, <1>2, <1>3, <1>4, <1>5, <1>6, <1>7, <1>8, <1>10, <1>11
     DEF Preempt, TypeOK
<1>13. LoopAhead'
  BY <1>10, <1>11 DEF LoopAhead
<1>14. PassState' /\ BatchQueueBounded'
  BY DEF Preempt, Inv, PassState, BatchQueueBounded
<1> QED
  BY <1>12, <1>13, <1>14 DEF Inv

\* The end of schedule(): the new batch goes to the queue, and either there
\* is room for another one or the oldest output is waited for.
LEMMA CommitsInv ==
  ASSUME Inv, Commits
  PROVE  Inv'
<1>1. /\ TypeOK /\ Len(queue) < BatchQueueSize /\ BatchQueueSize \in Nat
      /\ Zero \in [Reqs -> Int] /\ NumSpecTokens \in Nat
  <2>1. BatchQueueSize \in Nat /\ NumSpecTokens \in Nat
    BY CoreAssumption
  <2>2. Len(queue) < BatchQueueSize
    BY DEF Commits, Inv, PassState
  <2> QED
    BY <2>1, <2>2 DEF Inv, Zero
<1>2. NewBatch \in Batches
  BY <1>1, NewBatchType
<1>3. /\ queue \in Seq(Batches) /\ queue' = Append(queue, NewBatch)
      /\ queue' \in Seq(Batches) /\ Len(queue') = Len(queue) + 1
      /\ queue' # <<>> /\ Len(queue) \in Nat
  <2>1. queue \in Seq(Batches) /\ queue' = Append(queue, NewBatch)
    BY <1>1 DEF Commits, TypeOK
  <2> QED
    BY <1>2, <2>1
<1>4. computed' \in [Reqs -> Int]
  <2>1. \A r \in Reqs : computed[r] + nsched[r] \in Int
    BY <1>1 DEF TypeOK
  <2> QED
    BY <2>1 DEF Commits
<1>5. placeholders' \in [Reqs -> Int]
  <2>1. \A r \in Reqs : /\ placeholders[r] \in Int
                        /\ placeholders[r] + 1 + sspec[r] \in Int
    BY <1>1 DEF TypeOK
  <2> QED
    BY <2>1 DEF Commits
<1>6. spec' \in [Reqs -> Nat]
  <2>1. \A r \in Reqs : spec[r] \in Nat
    BY <1>1 DEF TypeOK
  <2> QED
    BY <1>1, <2>1 DEF Commits
<1>7. /\ pc' \in {"idle", "output"}
      /\ pc' = "idle" => Len(queue') < BatchQueueSize
      /\ todo' \subseteq Reqs
  <2>1. \/ /\ QueueHasRoom(Append(queue, NewBatch))
           /\ pc' = "idle" /\ todo' = {}
        \/ StartOutput(Append(queue, NewBatch))
    BY DEF Commits
  <2> QED
    BY <1>3, <2>1 DEF StartOutput, QueueHasRoom, Scheduled
<1>8. TypeOK'
  <2>1. /\ finished' = {} /\ nsched' = Zero /\ sspec' = Zero
        /\ budget' = 0 /\ idx' = 1
        /\ UNCHANGED <<status, out, submissions, ready, blockVars, waiting,
                       running, skipped, cur, num>>
    BY DEF Commits
  <2>2. /\ nsched' \in [Reqs -> Int] /\ sspec' \in [Reqs -> Int]
        /\ finished' \subseteq Reqs /\ budget' \in Int /\ idx' \in Nat \ {0}
    BY <1>1, <2>1
  <2>3. pc' \in Steps /\ todo' \subseteq Reqs /\ queue' \in Seq(Batches)
    BY <1>3, <1>7
  <2>4. /\ status' \in [Reqs -> Statuses] /\ out' \in [Reqs -> Nat]
        /\ submissions' \in [Reqs -> Nat] /\ ready' \subseteq Reqs
        /\ held' \in [Reqs -> Nat] /\ free' \in Nat
        /\ waiting' \in Seq(Reqs) /\ running' \in Seq(Reqs)
        /\ skipped' \in Seq(Reqs)
        /\ cur' \in Reqs \cup {NoReq} /\ num' \in Int
    BY <1>1, <2>1 DEF TypeOK, blockVars
  <2> QED
    BY <1>4, <1>5, <1>6, <2>2, <2>3, <2>4 DEF TypeOK
<1>9. LoopAhead'
  BY <1>7 DEF Commits, LoopAhead
<1>10. PassState'
  <2>1. nsched' = Zero /\ skipped' = <<>>
    BY DEF Commits, Inv, PassState
  <2> QED
    BY <1>7, <2>1 DEF PassState
<1>11. BatchQueueBounded'
  <2>1. Len(queue') <= BatchQueueSize
    BY <1>1, <1>3
  <2> QED
    BY <1>3, <1>7, <2>1 DEF BatchQueueBounded
<1> QED
  BY <1>8, <1>9, <1>10, <1>11 DEF Inv

\* With no request left, the output of the oldest batch in flight begins.
LEMMA DrainInv ==
  ASSUME Inv, Drain
  PROVE  Inv'
<1>1. TypeOK'
  <2>1. pc' = "output" /\ todo' \subseteq Reqs
    BY DEF Drain, StartOutput, Scheduled
  <2>2. UNCHANGED <<reqVars, blockVars, queueVars, localVars, queue>>
    BY DEF Drain
  <2> QED
    BY <2>1, <2>2 DEF Inv, TypeOK, reqVars, blockVars, queueVars, localVars
<1>2. LoopAhead' /\ PassState' /\ BatchQueueBounded'
  BY DEF Drain, Inv, StartOutput, LoopAhead, PassState, BatchQueueBounded,
         localVars
<1> QED
  BY <1>1, <1>2 DEF Inv

\* Popping the oldest batch leaves the batch queue shorter, of its type.
LEMMA PopsInv ==
  ASSUME Inv, Pops
  PROVE  Inv'
<1>1. /\ queue \in Seq(Batches) /\ queue # <<>> /\ BatchQueueSize \in Nat
      /\ Len(queue) <= BatchQueueSize
      /\ queue' \in Seq(Batches) /\ Len(queue') = Len(queue) - 1
      /\ Len(queue) \in Nat /\ spec' \in [Reqs -> Nat]
  <2>1. /\ pc = "output" /\ queue' \in Seq(Batches) /\ Len(queue') = Len(queue) - 1
        /\ spec' \in [Reqs -> Nat]
    BY DEF Pops
  <2>2. queue \in Seq(Batches) /\ BatchQueueSize \in Nat
    BY CoreAssumption DEF Inv, TypeOK
  <2>3. queue # <<>> /\ Len(queue) <= BatchQueueSize
    BY <2>1 DEF Inv, BatchQueueBounded
  <2> QED
    BY <2>1, <2>2, <2>3
<1>2. TypeOK'
  BY <1>1 DEF Pops, Inv, TypeOK, blockVars, queueVars, localVars
<1>3. Len(queue') < BatchQueueSize
  BY <1>1
<1>4. LoopAhead' /\ PassState' /\ BatchQueueBounded'
  BY <1>1, <1>3 DEF Pops, Inv, LoopAhead, PassState, BatchQueueBounded, localVars
<1> QED
  BY <1>2, <1>4 DEF Inv

\* A batch keeps its type when drafts of a request of it are lost.
LEMMA MoveType ==
  ASSUME NEW q \in Batches, NEW r \in Reqs, NEW x \in Int
  PROVE  [q EXCEPT !.lost[r] = x] \in Batches
<1>1. q.lost \in [Reqs -> Int]
  BY DEF Batches
<1>2. [q.lost EXCEPT ![r] = x] \in [Reqs -> Int]
  BY <1>1
<1>3. [q EXCEPT !.lost = [q.lost EXCEPT ![r] = x]] \in Batches
  BY <1>2 DEF Batches
<1> QED
  BY <1>3

\* One turn of update_from_output, for a request that goes on or stops.
LEMMA UpdateInv ==
  ASSUME Inv, pc = "output", NEW r \in Reqs,
         NEW accepted \in Nat, NEW kept \in Nat, NEW stopped \in BOOLEAN,
         UpdateFromOutput(r, accepted, kept, stopped),
         todo' \subseteq Reqs, UNCHANGED <<localVars, pc>>
  PROVE  Inv'
<1> DEFINE rejected == Rejected(Head(queue), r, accepted)
<1>1. TypeOK /\ queue \in Seq(Batches) /\ queue # <<>> /\ Head(queue) \in Batches
  <2>1. TypeOK /\ queue \in Seq(Batches)
    BY DEF Inv, TypeOK
  <2>2. queue # <<>>
    BY DEF Inv, BatchQueueBounded
  <2> QED
    BY <2>1, <2>2
<1>2. rejected \in Int
  <2>1. Head(queue).s \in [Reqs -> Int]
    BY <1>1 DEF Batches
  <2>2. Head(queue).s[r] \in Int
    BY <2>1
  <2> QED
    BY <2>2 DEF Rejected
<1>3. /\ queue' \in Seq(Batches) /\ Len(queue') = Len(queue) /\ queue' # <<>>
  <2> DEFINE move(i) == IF i > 1 /\ r \in queue[i].emit
                        THEN [queue[i] EXCEPT !.lost[r] = @ + rejected]
                        ELSE queue[i]
  <2>1. queue' = [i \in 1 .. Len(queue) |-> move(i)]
    BY <1>1 DEF UpdateFromOutput
  <2>2. \A i \in 1 .. Len(queue) : move(i) \in Batches
    <3> HIDE DEF rejected
    <3> SUFFICES ASSUME NEW i \in 1 .. Len(queue) PROVE move(i) \in Batches
      OBVIOUS
    <3>1. queue[i] \in Batches
      BY <1>1
    <3>2. queue[i].lost[r] + rejected \in Int
      BY <1>2, <3>1 DEF Batches
    <3> QED
      BY <3>1, <3>2, MoveType
  <2> HIDE DEF move
  <2>3. queue' \in [1 .. Len(queue) -> Batches] /\ Len(queue) \in Nat \ {0}
    BY <1>1, <2>1, <2>2
  <2> QED
    BY <2>3
<1>4. /\ status' \in [Reqs -> Statuses]
      /\ out' \in [Reqs -> Nat] /\ computed' \in [Reqs -> Int]
      /\ placeholders' \in [Reqs -> Int] /\ spec' \in [Reqs -> Nat]
      /\ submissions' \in [Reqs -> Nat] /\ ready' \subseteq Reqs
      /\ held' \in [Reqs -> Nat] /\ free' \in Nat
      /\ waiting' \in Seq(Reqs) /\ running' \in Seq(Reqs)
      /\ finished' \subseteq Reqs
  <2>1. CASE Finish(r)
    BY <1>1, <2>1, FinishType
  <2>2. CASE ~Finish(r)
    <3>1. /\ out' = [out EXCEPT ![r] = @ + kept]
          /\ computed' = [computed EXCEPT ![r] =
                            IF @ > 0 THEN @ - rejected ELSE @]
          /\ placeholders' = [placeholders EXCEPT ![r] =
                                PlaceholdersAfter(r, rejected, kept)]
          /\ UNCHANGED <<status, spec, submissions, ready, blockVars, queueVars>>
      BY <2>2 DEF UpdateFromOutput
    <3> HIDE DEF rejected
    <3>2. /\ out[r] + kept \in Nat
          /\ (IF computed[r] > 0 THEN computed[r] - rejected ELSE computed[r]) \in Int
          /\ PlaceholdersAfter(r, rejected, kept) \in Int
      <4>1. out[r] \in Nat /\ computed[r] \in Int /\ placeholders[r] \in Int
        BY <1>1 DEF TypeOK
      <4>2. PlaceholdersAfter(r, rejected, kept) \in Int
        BY <1>2, <4>1 DEF PlaceholdersAfter
      <4> QED
        BY <1>2, <4>1, <4>2
    <3>3. out' \in [Reqs -> Nat]
      BY <1>1, <3>1, <3>2 DEF TypeOK
    <3>4. computed' \in [Reqs -> Int]
      BY <1>1, <3>1, <3>2 DEF TypeOK
    <3>5. placeholders' \in [Reqs -> Int]
      BY <1>1, <3>1, <3>2 DEF TypeOK
    <3> QED
      BY <1>1, <3>1, <3>3, <3>4, <3>5 DEF TypeOK, blockVars, queueVars
  <2> QED
    BY <2>1, <2>2
<1>5. TypeOK'
  BY <1>1, <1>3, <1>4 DEF TypeOK, localVars
<1>6. LoopAhead' /\ PassState' /\ BatchQueueBounded'
  BY <1>3 DEF Inv, LoopAhead, PassState, BatchQueueBounded, localVars
<1> QED
  BY <1>5, <1>6 DEF Inv

\* Applying one request's tokens, a stop included, keeps the types.
LEMMA OutputStepInv ==
  ASSUME Inv, OutputStep
  PROVE  Inv'
<1> DEFINE r == CHOOSE r \in todo : TRUE
<1>1. r \in Reqs /\ todo' \subseteq Reqs /\ pc = "output"
      /\ UNCHANGED <<localVars, pc>>
  BY DEF OutputStep, Inv, TypeOK
<1>2. NumSpecTokens \in Nat
  BY CoreAssumption
<1>3. CASE \E accepted \in 0 .. NumSpecTokens, kept \in 1 .. NumSpecTokens + 1,
               stopped \in BOOLEAN : UpdateFromOutput(r, accepted, kept, stopped)
  <2> HIDE DEF r
  <2>1. PICK accepted \in 0 .. NumSpecTokens, kept \in 1 .. NumSpecTokens + 1,
             stopped \in BOOLEAN : UpdateFromOutput(r, accepted, kept, stopped)
    BY <1>3
  <2>2. accepted \in Nat /\ kept \in Nat
    BY <1>2
  <2> QED
    BY <1>1, <2>1, <2>2, UpdateInv
<1>4. CASE UNCHANGED <<reqVars, blockVars, queueVars, queue>>
  <2>1. TypeOK'
    BY <1>1, <1>4 DEF Inv, TypeOK, reqVars, blockVars, queueVars, localVars
  <2>2. LoopAhead' /\ PassState' /\ BatchQueueBounded'
    BY <1>1, <1>4 DEF Inv, LoopAhead, PassState, BatchQueueBounded, localVars
  <2> QED
    BY <2>1, <2>2 DEF Inv
<1> QED
  BY <1>3, <1>4 DEF OutputStep

\* What a client or the grammar backend does between two steps keeps the
\* types and the pass state.
LEMMA ClientInv ==
  ASSUME Inv, NEW r \in Reqs, AddRequest(r) \/ Abort(r) \/ GrammarReady(r)
  PROVE  Inv'
<1>1. TypeOK
  BY DEF Inv
<1>2. CASE AddRequest(r)
  <2>1. waiting' \in Seq(Reqs)
    BY <1>1, <1>2 DEF AddRequest, TypeOK
  <2>2. status' \in [Reqs -> Statuses]
    BY <1>1, <1>2 DEF AddRequest, TypeOK
  <2>3. submissions' \in [Reqs -> Nat]
    BY <1>1, <1>2 DEF AddRequest, TypeOK
  <2>4. TypeOK'
    BY <1>1, <1>2, <2>1, <2>2, <2>3
       DEF AddRequest, TypeOK, blockVars, localVars
  <2>5. LoopAhead' /\ PassState' /\ BatchQueueBounded'
    BY <1>2 DEF AddRequest, Inv, LoopAhead, PassState, BatchQueueBounded, localVars
  <2> QED
    BY <2>4, <2>5 DEF Inv
<1>3. CASE Abort(r)
  <2>1. TypeOK'
    BY <1>1, <1>3, FinishType DEF Abort, TypeOK, localVars
  <2>2. LoopAhead' /\ PassState' /\ BatchQueueBounded'
    BY <1>3 DEF Abort, Inv, LoopAhead, PassState, BatchQueueBounded, localVars
  <2> QED
    BY <2>1, <2>2 DEF Inv
<1>4. CASE GrammarReady(r)
  <2>1. TypeOK'
    BY <1>1, <1>4 DEF GrammarReady, TypeOK, blockVars, queueVars, localVars
  <2>2. LoopAhead' /\ PassState' /\ BatchQueueBounded'
    BY <1>4 DEF GrammarReady, Inv, LoopAhead, PassState, BatchQueueBounded, localVars
  <2> QED
    BY <2>1, <2>2 DEF Inv
<1> QED
  BY <1>2, <1>3, <1>4

\* A stuttering step changes nothing.
LEMMA StutterInv ==
  ASSUME Inv, UNCHANGED vars
  PROVE  Inv'
<1>1. TypeOK'
  BY DEF Inv, TypeOK, vars, reqVars, blockVars, queueVars, localVars
<1>2. LoopAhead' /\ PassState' /\ BatchQueueBounded'
  BY DEF Inv, LoopAhead, PassState, BatchQueueBounded, vars, localVars
<1> QED
  BY <1>1, <1>2 DEF Inv

\* Inv is inductive.
LEMMA StepInv ==
  ASSUME Inv, CoreNext
  PROVE  Inv'
<1>1. CASE PassStep
  BY <1>1, BeginsInv, PutsBackInv, PassesOverInv, PicksInv, ScheduleRunningInv,
     LeavesRunningInv, SkipsInv, AdmitsInv, PreemptInv DEF PassStep
<1>2. CASE Commits \/ Drain \/ OutputStep \/ Pops
  BY <1>2, CommitsInv, DrainInv, OutputStepInv, PopsInv
<1>3. CASE ClientStep \/ \E r \in Reqs : GrammarReady(r)
  BY <1>3, ClientInv DEF ClientStep
<1> QED
  BY <1>1, <1>2, <1>3, StutterInv DEF CoreNext

-----------------------------------------------------------------------------
(* Every live request is in exactly one queue, the one its status names.    *)

\* A change of nothing the queues depend on.
LEMMA SameQueues ==
  ASSUME QueueConsistency, UNCHANGED <<waiting, running, skipped, status>>
  PROVE  QueueConsistency'
BY DEF QueueConsistency

\* Nothing is set aside outside the waiting loop.
LEMMA NoneSkipped ==
  ASSUME Inv, pc # "waiting"
  PROVE  skipped = <<>> /\ Elems(skipped) = {}
BY DEF Inv, PassState, Elems

\* A request enters waiting only when no queue holds it.
LEMMA AddRequestConsistent ==
  ASSUME Inv, QueueConsistency, NEW r \in Reqs, AddRequest(r)
  PROVE  QueueConsistency'
<1>1. /\ waiting \in Seq(Reqs) /\ status \in [Reqs -> Statuses]
  BY DEF Inv, TypeOK
<1>2. /\ waiting' = Append(waiting, r)
      /\ UNCHANGED <<running, skipped>>
      /\ \A o \in Reqs : o # r => status'[o] = status[o]
      /\ status'[r] \in {"waiting", "waiting_fsm"}
      /\ ~Live(r)
  BY <1>1 DEF AddRequest, localVars
<1>3. r \notin Elems(waiting) /\ r \notin Elems(skipped) /\ r \notin Elems(running)
  BY <1>2 DEF QueueConsistency
<1>4. Elems(waiting') = Elems(waiting) \cup {r} /\ NoRepeats(waiting')
  BY <1>1, <1>2, <1>3, AppendElems DEF QueueConsistency
<1> QED
  BY <1>2, <1>3, <1>4 DEF QueueConsistency

\* A stop or an abort takes the request out of the queue it is in.
LEMMA FinishConsistent ==
  ASSUME Inv, QueueConsistency, pc # "waiting", NEW r \in Reqs, Finish(r),
         UNCHANGED skipped
  PROVE  QueueConsistency'
<1>1. /\ waiting \in Seq(Reqs) /\ running \in Seq(Reqs)
      /\ status \in [Reqs -> Statuses]
  BY DEF Inv, TypeOK
<1>2. /\ waiting' = Without(waiting, r) /\ running' = Without(running, r)
      /\ \A o \in Reqs : o # r => status'[o] = status[o]
      /\ status'[r] = "finished"
  BY <1>1 DEF Finish
<1>3. /\ Elems(waiting') = Elems(waiting) \ {r} /\ NoRepeats(waiting')
      /\ Elems(running') = Elems(running) \ {r} /\ NoRepeats(running')
  BY <1>1, <1>2, WithoutElems DEF QueueConsistency
<1>4. Elems(skipped) = {} /\ skipped' = skipped
  BY NoneSkipped
<1> QED
  BY <1>2, <1>3, <1>4 DEF QueueConsistency

\* Setting aside moves the request from one queue to the other.
LEMMA SkipsConsistent ==
  ASSUME Inv, QueueConsistency, NEW r \in Reqs, Skips(r)
  PROVE  QueueConsistency'
<1>1. /\ waiting \in Seq(Reqs) /\ skipped \in Seq(Reqs)
      /\ waiting' = Without(waiting, r) /\ skipped' = Prepend(skipped, r)
      /\ r \in Elems(waiting) /\ UNCHANGED <<running, status>>
  BY DEF Inv, TypeOK, Skips, reqVars
<1>2. r \notin Elems(skipped)
  BY <1>1 DEF QueueConsistency
<1>3. /\ Elems(waiting') = Elems(waiting) \ {r} /\ NoRepeats(waiting')
      /\ Elems(skipped') = Elems(skipped) \cup {r} /\ NoRepeats(skipped')
  BY <1>1, <1>2, WithoutElems, PrependElems DEF QueueConsistency
<1> QED
  BY <1>1, <1>3 DEF QueueConsistency

\* An admitted request leaves waiting for running, and is RUNNING.
LEMMA AdmitsConsistent ==
  ASSUME Inv, QueueConsistency, NEW r \in Reqs, NEW n \in Int, Admits(r, n)
  PROVE  QueueConsistency'
<1>1. /\ waiting \in Seq(Reqs) /\ running \in Seq(Reqs)
      /\ status \in [Reqs -> Statuses]
      /\ waiting' = Without(waiting, r) /\ running' = Append(running, r)
      /\ r \in Elems(waiting) /\ skipped' = skipped
      /\ status' = [status EXCEPT ![r] = "running"]
  BY DEF Inv, TypeOK, Admits
<1>2. /\ \A o \in Reqs : o # r => status'[o] = status[o]
      /\ status'[r] = "running"
  BY <1>1
<1>3. r \notin Elems(running) /\ r \notin Elems(skipped)
  BY <1>1 DEF QueueConsistency
<1>4. /\ Elems(waiting') = Elems(waiting) \ {r} /\ NoRepeats(waiting')
      /\ Elems(running') = Elems(running) \cup {r} /\ NoRepeats(running')
  BY <1>1, <1>3, WithoutElems, AppendElems DEF QueueConsistency
<1> QED
  BY <1>1, <1>2, <1>3, <1>4 DEF QueueConsistency

\* The skipped requests come back, in either order.
LEMMA PutsBackConsistent ==
  ASSUME Inv, QueueConsistency, PutsBack
  PROVE  QueueConsistency'
<1>1. /\ waiting \in Seq(Reqs) /\ skipped \in Seq(Reqs)
      /\ skipped' = <<>> /\ UNCHANGED <<running, status>>
      /\ \/ waiting' = skipped \o waiting
         \/ waiting' = Backwards(skipped) \o waiting
  BY DEF Inv, TypeOK, PutsBack, reqVars
<1>2. /\ Backwards(skipped) \in Seq(Reqs)
      /\ Elems(Backwards(skipped)) = Elems(skipped)
      /\ NoRepeats(Backwards(skipped))
  BY <1>1, BackwardsElems DEF QueueConsistency
<1>3. /\ NoRepeats(skipped) /\ NoRepeats(waiting)
      /\ Elems(skipped) \cap Elems(waiting) = {}
  BY DEF QueueConsistency
<1>4. /\ Elems(waiting') = Elems(skipped) \cup Elems(waiting)
      /\ NoRepeats(waiting')
  <2>1. CASE waiting' = skipped \o waiting
    BY <1>1, <1>3, <2>1, ConcatElems
  <2>2. CASE waiting' = Backwards(skipped) \o waiting
    BY <1>1, <1>2, <1>3, <2>2, ConcatElems
  <2> QED
    BY <1>1, <2>1, <2>2
<1>5. Elems(skipped') = {} /\ NoRepeats(skipped')
  BY <1>1 DEF Elems, NoRepeats
<1> QED
  BY <1>1, <1>4, <1>5 DEF QueueConsistency

\* A preempted request leaves running for the front of waiting.
LEMMA PreemptConsistent ==
  ASSUME Inv, QueueConsistency, NEW v \in Reqs, Preempt(v)
  PROVE  QueueConsistency'
<1>1. /\ waiting \in Seq(Reqs) /\ running \in Seq(Reqs)
      /\ status \in [Reqs -> Statuses]
      /\ running' = Without(running, v) /\ waiting' = Prepend(waiting, v)
      /\ v \in Elems(running) /\ skipped' = skipped
      /\ status' = [status EXCEPT ![v] = "preempted"]
  BY DEF Inv, TypeOK, Preempt, IsVictim
<1>2. /\ \A o \in Reqs : o # v => status'[o] = status[o]
      /\ status'[v] = "preempted"
  BY <1>1
<1>3. v \notin Elems(waiting) /\ v \notin Elems(skipped)
  BY <1>1 DEF QueueConsistency
<1>4. /\ Elems(running') = Elems(running) \ {v} /\ NoRepeats(running')
      /\ Elems(waiting') = Elems(waiting) \cup {v} /\ NoRepeats(waiting')
  BY <1>1, <1>3, WithoutElems, PrependElems DEF QueueConsistency
<1> QED
  BY <1>1, <1>2, <1>3, <1>4 DEF QueueConsistency

\* update_from_output touches the queues only where it finishes a request.
LEMMA OutputStepConsistent ==
  ASSUME Inv, QueueConsistency, OutputStep
  PROVE  QueueConsistency'
<1> DEFINE r == CHOOSE r \in todo : TRUE
<1>1. r \in Reqs /\ pc # "waiting" /\ skipped' = skipped
  BY DEF OutputStep, Inv, TypeOK, localVars
<1> HIDE DEF r
<1>2. CASE Finish(r)
  BY <1>1, <1>2, FinishConsistent
<1>3. CASE ~Finish(r)
  <2>1. UNCHANGED <<waiting, running, status>>
    BY <1>3 DEF OutputStep, UpdateFromOutput, queueVars, reqVars, r
  <2> QED
    BY <1>1, <2>1, SameQueues
<1> QED
  BY <1>2, <1>3

\* Every step keeps every live request in the queue its status names.
LEMMA StepConsistent ==
  ASSUME Inv, QueueConsistency, CoreNext
  PROVE  QueueConsistency'
<1>1. CASE UNCHANGED <<waiting, running, skipped, status>>
  BY <1>1, SameQueues
<1>2. CASE PassStep
  <2>1. CASE Begins \/ PassesOver \/ Picks \/ ScheduleRunning \/ LeavesRunning
    BY <1>1, <2>1 DEF Begins, PassesOver, Picks, ScheduleRunning,
       LeavesRunning, queueVars, reqVars, localVars
  <2> QED
    BY <1>2, <2>1, PutsBackConsistent, SkipsConsistent, AdmitsConsistent,
       PreemptConsistent DEF PassStep
<1>3. CASE Commits \/ Drain \/ Pops
  BY <1>1, <1>3 DEF Commits, Drain, Pops, queueVars, reqVars, localVars
<1>4. CASE ClientStep
  <2>1. ASSUME NEW r \in Reqs, Abort(r) PROVE QueueConsistency'
    BY <2>1, FinishConsistent DEF Abort, localVars
  <2> QED
    BY <1>4, <2>1, AddRequestConsistent DEF ClientStep
<1>5. CASE \E r \in Reqs : GrammarReady(r)
  BY <1>1, <1>5 DEF GrammarReady, queueVars, localVars
<1>6. CASE UNCHANGED vars
  BY <1>1, <1>6 DEF vars, queueVars, reqVars, localVars
<1> QED
  BY <1>2, <1>3, <1>4, <1>5, <1>6, OutputStepConsistent DEF CoreNext
-----------------------------------------------------------------------------
(* The invariant of a pass.                                                 *)

\* The request that blocks are asked for is running, not scheduled yet, and
\* not behind the loop's index: a preemption by priority may pull the queue
\* under the index, one by FCFS takes the last request only.
Picked ==
  pc = "alloc" =>
    /\ cur \in Elems(running) /\ nsched[cur] = 0 /\ num <= budget
    /\ ~PriorityPolicy => idx <= Len(running) /\ cur = running[idx]
    /\ \A i \in DOMAIN running : running[i] = cur => i <= idx

\* What the running loop has not reached yet is not scheduled.
AheadFree ==
  pc \in {"running", "alloc"} =>
    \A i \in DOMAIN running : i >= idx => nsched[running[i]] = 0

\* A request the waiting loop may admit has no tokens of this pass.
WaitingFree ==
  pc = "waiting" => \A r \in Reqs : nsched[r] # 0 => r \in Elems(running)

\* What is computed is computed for running requests.
Unstarted == \A r \in Reqs : status[r] # "running" => computed[r] <= 0

\* Never more running requests than max_num_seqs, between two passes either.
RunningBound == Len(running) <= MaxNumRunningReqs

PassInv ==
  /\ Picked /\ AheadFree /\ WaitingFree /\ Unstarted
  /\ BudgetRespected /\ RunningBound

-----------------------------------------------------------------------------
(* The block pool.                                                          *)

\* What a request gets is what the pool loses.
LEMMA AllocateAccounts ==
  ASSUME TypeOK, BlockAccounting, NEW r \in Reqs, NEW n \in Int,
         NEW lookahead \in Nat, AllocateSlots(r, n, lookahead),
         \A o \in Reqs : o # r => status'[o] = status[o], status'[r] = "running"
  PROVE  BlockAccounting'
<1>1. /\ held \in [Reqs -> Nat] /\ held \in [Reqs -> Int] /\ free \in Nat
      /\ computed[r] \in Int /\ NumBlocks \in Nat /\ IsFiniteSet(Reqs)
      /\ FixedWindow \in Nat /\ MaxModelLen \in Nat /\ BlockSize \in Nat \ {0}
  <2>1. held \in [Reqs -> Nat] /\ free \in Nat /\ computed[r] \in Int
    BY DEF TypeOK
  <2>2. held \in [Reqs -> Int]
    BY <2>1
  <2> QED
    BY <2>1, <2>2, CoreAssumption
<1> DEFINE new == NewBlocks(r, n, lookahead)
<1>2. new \in Int
  <2>1. MinOf(computed[r] + n + lookahead + FixedWindow, MaxModelLen) \in Int
    BY <1>1 DEF MinOf
  <2>2. BlocksFor(r, n, lookahead) \in Int
    BY <1>1, <2>1 DEF BlocksFor
  <2> QED
    BY <1>1, <2>2 DEF NewBlocks
<1>3. held' = [held EXCEPT ![r] = held[r] + new] /\ free' = free - new
  BY DEF AllocateSlots
<1> HIDE DEF new
<1>4. held[r] + new \in Int /\ held[r] \in Int
  BY <1>1, <1>2
<1>5. Sum(held) \in Int /\ Sum(held') = Sum(held) - held[r] + (held[r] + new)
  <2>1. held \in [Reqs -> Int] /\ IsFiniteSet(Reqs)
    BY <1>1
  <2>2. /\ Sum(held) \in Int
        /\ Sum([held EXCEPT ![r] = held[r] + new]) = Sum(held) - held[r] + (held[r] + new)
    BY <1>4, <2>1, SumUpdate
  <2> QED
    BY <1>3, <2>2
<1>6. free' + Sum(held') = NumBlocks
  <2>1. free + Sum(held) = NumBlocks /\ free' = free - new
    BY <1>3 DEF BlockAccounting
  <2>2. PICK x \in Int, y \in Int, z \in Int : x = free /\ y = Sum(held) /\ z = held[r]
    BY <1>1, <1>4, <1>5
  <2> QED
    BY <1>1, <1>2, <1>5, <2>1, <2>2
<1>7. \A o \in Reqs : held'[o] > 0 => status'[o] = "running"
  BY <1>1, <1>3 DEF BlockAccounting
<1> QED
  BY <1>6, <1>7 DEF BlockAccounting

\* Preemption, stop and abort give everything back.
LEMMA FreeAccounts ==
  ASSUME TypeOK, BlockAccounting, NEW r \in Reqs, FreeBlocks(r),
         \A o \in Reqs : o # r => status'[o] = status[o]
  PROVE  BlockAccounting'
<1>1. /\ held \in [Reqs -> Nat] /\ held \in [Reqs -> Int] /\ free \in Nat
      /\ held[r] \in Int /\ NumBlocks \in Nat /\ IsFiniteSet(Reqs)
  <2>1. held \in [Reqs -> Nat] /\ free \in Nat /\ held[r] \in Nat
    BY DEF TypeOK
  <2>2. held \in [Reqs -> Int] /\ held[r] \in Int
    BY <2>1
  <2> QED
    BY <2>1, <2>2, CoreAssumption
<1>2. held' = [held EXCEPT ![r] = 0] /\ free' = free + held[r]
  BY DEF FreeBlocks
<1>3. Sum(held) \in Int /\ Sum(held') = Sum(held) - held[r] + 0
  <2>1. 0 \in Int
    OBVIOUS
  <2> QED
    BY <1>1, <1>2, <2>1, SumUpdate
<1>4. free' + Sum(held') = NumBlocks
  BY <1>1, <1>2, <1>3 DEF BlockAccounting
<1>5. \A o \in Reqs : held'[o] > 0 => status'[o] = "running"
  BY <1>1, <1>2 DEF BlockAccounting
<1> QED
  BY <1>4, <1>5 DEF BlockAccounting

\* update_from_output frees blocks only where it finishes a request.
LEMMA OutputAccounts ==
  ASSUME TypeOK, BlockAccounting, OutputStep
  PROVE  BlockAccounting'
<1> DEFINE r == CHOOSE r \in todo : TRUE
<1>1. r \in Reqs
  BY DEF OutputStep, TypeOK
<1>2. \/ \E accepted \in 0 .. NumSpecTokens, kept \in 1 .. NumSpecTokens + 1,
            stopped \in BOOLEAN : UpdateFromOutput(r, accepted, kept, stopped)
      \/ UNCHANGED <<status, held, free>>
  BY DEF OutputStep, reqVars, blockVars
<1> HIDE DEF r
<1>3. CASE Finish(r)
  <2>1. FreeBlocks(r) /\ \A o \in Reqs : o # r => status'[o] = status[o]
    BY <1>1, <1>3 DEF Finish, TypeOK
  <2> QED
    BY <1>1, <2>1, FreeAccounts
<1>4. CASE ~Finish(r)
  <2>1. UNCHANGED <<status, held, free>>
    BY <1>2, <1>4 DEF UpdateFromOutput, blockVars
  <2> QED
    BY <2>1 DEF BlockAccounting
<1> QED
  BY <1>3, <1>4

\* No step loses a block or gives one out twice.
LEMMA StepAccounts ==
  ASSUME Inv, QueueConsistency, PassInv, BlockAccounting, CoreNext
  PROVE  BlockAccounting'
<1>1. TypeOK /\ status \in [Reqs -> Statuses] /\ NumSpecTokens \in Nat
  BY CoreAssumption DEF Inv, TypeOK
<1>2. CASE UNCHANGED <<status, held, free>>
  BY <1>2 DEF BlockAccounting
<1>3. ASSUME NEW r \in Reqs, NEW n \in Int, Admits(r, n)
      PROVE  BlockAccounting'
  <2>1. /\ AllocateSlots(r, n, 0) /\ status'[r] = "running"
        /\ \A o \in Reqs : o # r => status'[o] = status[o]
    BY <1>1, <1>3 DEF Admits
  <2> QED
    BY <1>1, <2>1, AllocateAccounts
<1>4. CASE ScheduleRunning
  <2>1. /\ cur \in Reqs /\ num \in Int /\ status[cur] = "running"
        /\ AllocateSlots(cur, num, NumSpecTokens) /\ status' = status
    <3>1. pc = "alloc" /\ AllocateSlots(cur, num, NumSpecTokens) /\ status' = status
      BY <1>4 DEF ScheduleRunning
    <3>2. cur \in Reqs /\ cur \in Elems(running) /\ num \in Int
      BY <3>1 DEF Inv, PassState, PassInv, Picked, TypeOK
    <3> QED
      BY <3>1, <3>2 DEF QueueConsistency
  <2> QED
    BY <1>1, <2>1, AllocateAccounts
<1>5. ASSUME NEW v \in Reqs, Preempt(v)
      PROVE  BlockAccounting'
  <2>1. FreeBlocks(v) /\ \A o \in Reqs : o # v => status'[o] = status[o]
    BY <1>1, <1>5 DEF Preempt
  <2> QED
    BY <1>1, <2>1, FreeAccounts
<1>6. CASE PassStep
  <2>1. CASE Begins \/ PutsBack \/ PassesOver \/ Picks \/ LeavesRunning
    BY <1>2, <2>1 DEF Begins, PutsBack, PassesOver, Picks, LeavesRunning,
       reqVars, blockVars
  <2>2. ASSUME NEW r \in Reqs, Skips(r) PROVE BlockAccounting'
    BY <1>2, <2>2 DEF Skips, reqVars, blockVars
  <2> QED
    BY <1>3, <1>4, <1>5, <1>6, <2>1, <2>2 DEF PassStep
<1>7. CASE Commits \/ Drain \/ Pops
  BY <1>2, <1>7 DEF Commits, Drain, Pops, reqVars, blockVars
<1>8. ASSUME NEW r \in Reqs, AddRequest(r) PROVE BlockAccounting'
  <2>1. /\ UNCHANGED <<held, free>> /\ ~Live(r)
        /\ \A o \in Reqs : o # r => status'[o] = status[o]
    BY <1>1, <1>8 DEF AddRequest, blockVars
  <2> QED
    BY <2>1 DEF BlockAccounting
<1>9. ASSUME NEW r \in Reqs, Abort(r) PROVE BlockAccounting'
  <2>1. FreeBlocks(r) /\ \A o \in Reqs : o # r => status'[o] = status[o]
    BY <1>1, <1>9 DEF Abort, Finish
  <2> QED
    BY <1>1, <2>1, FreeAccounts
<1>10. CASE \E r \in Reqs : GrammarReady(r)
  BY <1>2, <1>10 DEF GrammarReady, blockVars
<1>11. CASE UNCHANGED vars
  BY <1>2, <1>11 DEF vars, reqVars, blockVars
<1>12. CASE OutputStep
  BY <1>1, <1>12, OutputAccounts
<1> QED
  BY <1>6, <1>7, <1>8, <1>9, <1>10, <1>11, <1>12 DEF CoreNext, ClientStep

-----------------------------------------------------------------------------
(* The budget of a pass.                                                    *)

\* Outside schedule() only the length of running and what is computed count.
LEMMA NoPass ==
  ASSUME pc' \in {"idle", "output"}, Unstarted', RunningBound'
  PROVE  PassInv'
BY DEF PassInv, Picked, AheadFree, WaitingFree, BudgetRespected, Scheduling

\* The facts about the variables of a pass that the steps below use.
LEMMA PassFacts ==
  ASSUME Inv, QueueConsistency
  PROVE  /\ running \in Seq(Reqs) /\ Len(running) \in Nat /\ NoRepeats(running)
         /\ DOMAIN running = 1 .. Len(running)
         /\ nsched \in [Reqs -> Int] /\ Sum(nsched) \in Int
         /\ budget \in Int /\ idx \in Nat \ {0} /\ num \in Int
         /\ MaxNumScheduledTokens \in Nat /\ MaxNumRunningReqs \in Nat
         /\ Elems(running) \subseteq Reqs /\ IsFiniteSet(Reqs)
<1>1. /\ running \in Seq(Reqs) /\ nsched \in [Reqs -> Int] /\ budget \in Int
      /\ idx \in Nat \ {0} /\ num \in Int
  BY DEF Inv, TypeOK
<1>2. /\ IsFiniteSet(Reqs) /\ MaxNumScheduledTokens \in Nat
      /\ MaxNumRunningReqs \in Nat
  BY CoreAssumption
<1>3. Sum(nsched) \in Int
  <2>1. Sum(nsched) = Total(nsched, Reqs)
    BY <1>1, <1>2, SumIsTotal
  <2>2. Total(nsched, Reqs) \in Int
    BY <1>1, <1>2, TotalType
  <2> QED
    BY <2>1, <2>2
<1>4. NoRepeats(running)
  BY DEF QueueConsistency
<1> QED
  BY <1>1, <1>2, <1>3, <1>4, ElemsType

\* A pass begins with the whole budget and nothing scheduled.
LEMMA BeginsPass ==
  ASSUME Inv, QueueConsistency, PassInv, Begins
  PROVE  PassInv'
<1>1. /\ nsched = Zero /\ nsched' = Zero /\ budget' = MaxNumScheduledTokens
      /\ UNCHANGED <<running, status, computed>> /\ pc' \in {"waiting", "running"}
  BY DEF Begins, Inv, PassState, queueVars, reqVars
<1>2. Sum(Zero) = 0 /\ Scheduled(Zero) = {} /\ \A r \in Reqs : Zero[r] = 0
  BY CoreAssumption, SumZero, ScheduledFinite DEF Zero, Inv, TypeOK
<1>3. BudgetRespected'
  BY <1>1, <1>2, PassFacts DEF BudgetRespected, PassInv, RunningBound
<1>4. \A i \in DOMAIN running : running[i] \in Reqs
  BY PassFacts
<1> QED
  BY <1>1, <1>2, <1>3, <1>4
     DEF PassInv, Picked, AheadFree, WaitingFree, Unstarted, RunningBound

\* What is admitted had no tokens of this pass, and takes what there is.
LEMMA AdmitsPass ==
  ASSUME Inv, QueueConsistency, PassInv, NEW r \in Reqs, NEW n \in Int, Admits(r, n)
  PROVE  PassInv'
<1>1. /\ pc = "waiting" /\ pc' = "waiting" /\ n <= budget /\ r \in Elems(waiting)
      /\ Len(running) # MaxNumRunningReqs /\ running' = Append(running, r)
      /\ nsched' = [nsched EXCEPT ![r] = n] /\ budget' = budget - n
      /\ status' = [status EXCEPT ![r] = "running"] /\ computed' = computed
  BY DEF Admits
<1>2. nsched[r] = 0
  BY <1>1 DEF QueueConsistency, PassInv, WaitingFree
<1>3. Elems(running') = Elems(running) \cup {r} /\ Len(running') = Len(running) + 1
  BY <1>1, PassFacts, AppendElems
<1>4. Len(running') <= MaxNumRunningReqs
  BY <1>1, <1>3, PassFacts DEF PassInv, RunningBound
<1>5. Sum(nsched') = Sum(nsched) - nsched[r] + n
  BY <1>1, PassFacts, SumUpdate
<1>6. budget' >= 0 /\ budget' + Sum(nsched') = MaxNumScheduledTokens
  <2>1. budget + Sum(nsched) = MaxNumScheduledTokens
    BY <1>1 DEF PassInv, BudgetRespected, Scheduling
  <2> QED
    BY <1>1, <1>2, <1>5, <2>1, PassFacts
<1>7. \A o \in Reqs : nsched'[o] # 0 => o = r \/ nsched[o] # 0
  BY <1>1, PassFacts
<1>8. WaitingFree' /\ Scheduled(nsched') \subseteq Elems(running')
  BY <1>1, <1>3, <1>7 DEF PassInv, WaitingFree, Scheduled
<1>9. Unstarted'
  BY <1>1 DEF PassInv, Unstarted, Inv, TypeOK
<1> QED
  BY <1>1, <1>4, <1>6, <1>8, <1>9
     DEF PassInv, Picked, AheadFree, BudgetRespected, RunningBound

\* The request the loop picks is one it has not scheduled.
LEMMA PicksPass ==
  ASSUME Inv, QueueConsistency, PassInv, Picks
  PROVE  PassInv'
<1>1. /\ pc = "running" /\ pc' = "alloc" /\ idx <= Len(running)
      /\ cur' = running[idx] /\ num' <= budget
      /\ UNCHANGED <<running, status, computed, nsched, budget, idx>>
  BY DEF Picks, queueVars, reqVars
<1>2. idx \in DOMAIN running
  BY <1>1, PassFacts
<1>3. running[idx] \in Elems(running) /\ nsched[running[idx]] = 0
  BY <1>1, <1>2, PassFacts DEF Elems, PassInv, AheadFree
<1>4. \A i \in DOMAIN running : running[i] = running[idx] => i <= idx
  BY <1>2, PassFacts DEF NoRepeats
<1>5. Picked'
  BY <1>1, <1>3, <1>4 DEF Picked
<1>6. BudgetRespected' /\ AheadFree'
  BY <1>1 DEF PassInv, BudgetRespected, Scheduling, AheadFree
<1> QED
  BY <1>1, <1>5, <1>6 DEF PassInv, WaitingFree, Unstarted, RunningBound

\* The picked request gets its tokens, and the loop moves past it.
LEMMA ScheduleRunningPass ==
  ASSUME Inv, QueueConsistency, PassInv, ScheduleRunning
  PROVE  PassInv'
<1>1. /\ pc = "alloc" /\ pc' = "running" /\ idx' = idx + 1
      /\ nsched' = [nsched EXCEPT ![cur] = num] /\ budget' = budget - num
      /\ UNCHANGED <<running, status, computed>>
  BY DEF ScheduleRunning, queueVars
<1>2. /\ cur \in Reqs /\ cur \in Elems(running) /\ nsched[cur] = 0 /\ num <= budget
      /\ \A i \in DOMAIN running : running[i] = cur => i <= idx
      /\ \A i \in DOMAIN running : i >= idx => nsched[running[i]] = 0
      /\ budget + Sum(nsched) = MaxNumScheduledTokens
      /\ Scheduled(nsched) \subseteq Elems(running)
  BY <1>1, PassFacts DEF PassInv, Picked, AheadFree, BudgetRespected, Scheduling
<1>3. Sum(nsched') = Sum(nsched) - nsched[cur] + num
  <2>1. nsched \in [Reqs -> Int] /\ num \in Int /\ IsFiniteSet(Reqs) /\ cur \in Reqs
    BY <1>2, PassFacts
  <2>2. Sum([nsched EXCEPT ![cur] = num]) = Sum(nsched) - nsched[cur] + num
    BY <2>1, SumUpdate
  <2> QED
    BY <1>1, <2>2
<1>4. budget' >= 0 /\ budget' + Sum(nsched') = MaxNumScheduledTokens
  BY <1>1, <1>2, <1>3, PassFacts
<1>5. Scheduled(nsched') \subseteq Elems(running')
  BY <1>1, <1>2, PassFacts DEF Scheduled
<1>6. AheadFree'
  <2> SUFFICES ASSUME NEW i \in DOMAIN running, i >= idx + 1
               PROVE  nsched'[running[i]] = 0
    BY <1>1 DEF AheadFree
  <2>1. running[i] \in Reqs /\ running[i] # cur /\ nsched[running[i]] = 0
    BY <1>2, PassFacts
  <2> QED
    BY <1>1, <2>1, PassFacts
<1> QED
  BY <1>1, <1>4, <1>5, <1>6
     DEF PassInv, Picked, WaitingFree, Unstarted, RunningBound, BudgetRespected

\* A victim loses what it was given in this pass: by priority it is refunded
\* and the index follows it, by FCFS the loop had not reached it.
LEMMA PreemptPass ==
  ASSUME Inv, QueueConsistency, PassInv, NEW v \in Reqs, Preempt(v)
  PROVE  PassInv'
<1>1. /\ pc = "alloc" /\ running' = Without(running, v) /\ v \in Elems(running)
      /\ ~PriorityPolicy => v = running[Len(running)]
      /\ status' = [status EXCEPT ![v] = "preempted"]
      /\ computed' = [computed EXCEPT ![v] = 0]
  BY DEF Preempt, IsVictim
<1>2. /\ Refund(v) => /\ budget' = budget + nsched[v] /\ idx' = idx - 1
                      /\ nsched' = [nsched EXCEPT ![v] = 0]
      /\ ~Refund(v) => budget' = budget /\ idx' = idx /\ nsched' = nsched
  BY DEF Preempt
<1>3. /\ v = cur => pc' = "commit"
      /\ v # cur => pc' = "alloc" /\ cur' = cur /\ num' = num
  BY <1>1 DEF Preempt
<1>4. /\ cur \in Elems(running) /\ nsched[cur] = 0 /\ num <= budget /\ budget >= 0
      /\ ~PriorityPolicy => idx <= Len(running) /\ cur = running[idx]
      /\ \A i \in DOMAIN running : running[i] = cur => i <= idx
      /\ \A i \in DOMAIN running : i >= idx => nsched[running[i]] = 0
      /\ budget + Sum(nsched) = MaxNumScheduledTokens
      /\ Scheduled(nsched) \subseteq Elems(running)
  BY <1>1 DEF PassInv, Picked, AheadFree, BudgetRespected, Scheduling
<1>5. PICK p \in 1 .. Len(running) : running[p] = v
  BY <1>1, PassFacts DEF Elems
<1>6. /\ Len(running') = Len(running) - 1
      /\ DOMAIN running' = 1 .. Len(running) - 1
      /\ \A j \in 1 .. Len(running) - 1 :
           running'[j] = IF j < p THEN running[j] ELSE running[j + 1]
      /\ Elems(running') = Elems(running) \ {v}
  <2>1. running' \in Seq(Reqs) /\ Elems(running') = Elems(running) \ {v}
    BY <1>1, PassFacts, WithoutElems
  <2>2. /\ Len(running') = Len(running) - 1
        /\ \A j \in 1 .. Len(running) - 1 :
             running'[j] = IF j < p THEN running[j] ELSE running[j + 1]
    BY <1>1, <1>5, PassFacts, WithoutAt
  <2> QED
    BY <2>1, <2>2
<1>n. /\ Len(running) \in Int /\ DOMAIN running = 1 .. Len(running)
      /\ idx \in Int /\ p \in Int /\ 1 <= p /\ p <= Len(running)
  BY <1>5, PassFacts
<1>b. budget \in Int /\ num \in Int
  BY PassFacts
<1>7. Refund(v) => p < idx /\ nsched[v] > 0 /\ PriorityPolicy
  <2>1. p \in DOMAIN running /\ p \in Int /\ idx \in Int /\ nsched[v] \in Int
    BY <1>5, PassFacts
  <2>2. p >= idx => nsched[v] = 0
    BY <1>4, <1>5, <2>1
  <2> QED
    BY <2>1, <2>2 DEF Refund
<1>8. ~PriorityPolicy => p = Len(running) /\ nsched[v] = 0
  <2> SUFFICES ASSUME ~PriorityPolicy PROVE p = Len(running) /\ nsched[v] = 0
    OBVIOUS
  <2>1. Len(running) \in DOMAIN running /\ p \in DOMAIN running
    BY <1>5, PassFacts
  <2>2. p = Len(running)
    BY <1>1, <1>5, <2>1, PassFacts DEF NoRepeats
  <2>3. idx <= Len(running)
    BY <1>4
  <2>4. Len(running) >= idx
    BY <2>3, PassFacts
  <2> QED
    BY <1>1, <1>4, <2>1, <2>2, <2>4
<1>9. ~Refund(v) => ~(nsched[v] > 0)
  BY <1>8 DEF Refund
<1>10. \A o \in Reqs : /\ o # v => nsched'[o] = nsched[o]
                       /\ ~(nsched'[v] > 0) /\ (nsched[o] = 0 => nsched'[o] = 0)
  BY <1>2, <1>9, PassFacts
<1>11. Scheduled(nsched') \subseteq Elems(running')
  BY <1>4, <1>6, <1>10 DEF Scheduled
<1>12. budget' >= budget /\ budget' + Sum(nsched') = MaxNumScheduledTokens
  <2>1. CASE Refund(v)
    <3>1. 0 \in Int /\ nsched[v] \in Int /\ nsched[v] > 0
      BY <1>7, <2>1, PassFacts
    <3>2. Sum(nsched') = Sum(nsched) - nsched[v] + 0
      <4>1. nsched \in [Reqs -> Int] /\ IsFiniteSet(Reqs)
        BY PassFacts
      <4>2. Sum([nsched EXCEPT ![v] = 0]) = Sum(nsched) - nsched[v] + 0
        BY <3>1, <4>1, SumUpdate
      <4> QED
        BY <1>2, <2>1, <4>2
    <3>3. PICK y \in Int : y = Sum(nsched)
      BY PassFacts
    <3> QED
      BY <1>2, <1>4, <1>b, <2>1, <3>1, <3>2, <3>3
  <2>2. CASE ~Refund(v)
    BY <1>2, <1>4, <1>b, <2>2
  <2> QED
    BY <2>1, <2>2
<1>13. RunningBound'
  BY <1>6, PassFacts DEF PassInv, RunningBound
<1>14. BudgetRespected'
  <2>1. budget' \in Int
    BY <1>2, PassFacts
  <2>2. budget' >= 0
    BY <1>4, <1>12, <2>1, PassFacts
  <2> QED
    BY <1>11, <1>12, <1>13, <2>2 DEF BudgetRespected, RunningBound
<1>15. AheadFree'
  <2> SUFFICES ASSUME NEW i \in 1 .. Len(running) - 1, i >= idx'
               PROVE  nsched'[running'[i]] = 0
    BY <1>6 DEF AheadFree
  <2>1. \E k \in DOMAIN running : running'[i] = running[k] /\ k >= idx
    <3>1. CASE i < p
      <4>1. running'[i] = running[i] /\ i \in DOMAIN running /\ i \in Int
        BY <1>6, <1>n, <3>1
      <4>2. i >= idx
        <5>1. ~Refund(v) => i >= idx
          BY <1>2
        <5>2. Refund(v) => i >= idx - 1 /\ p < idx
          BY <1>2, <1>7
        <5> QED
          BY <1>n, <3>1, <5>1, <5>2
      <4> QED
        BY <4>1, <4>2
    <3>2. CASE i >= p
      <4>1. running'[i] = running[i + 1] /\ i + 1 \in DOMAIN running
        <5>1. i + 1 \in DOMAIN running /\ ~(i < p)
          BY <1>n, <3>2
        <5> QED
          BY <1>6, <5>1
      <4>2. i + 1 >= idx
        BY <1>2, <1>n
      <4> QED
        BY <4>1, <4>2
    <3> QED
      BY <1>n, <3>1, <3>2
  <2>2. PICK k \in DOMAIN running : running'[i] = running[k] /\ nsched[running[k]] = 0
    BY <1>4, <2>1
  <2>3. running[k] \in Reqs
    BY PassFacts
  <2> QED
    BY <1>10, <2>2, <2>3
<1>16. Picked'
  <2> SUFFICES ASSUME v # cur PROVE Picked'
    BY <1>3 DEF Picked
  <2>1. cur' \in Elems(running') /\ nsched'[cur'] = 0 /\ num' <= budget'
    <3>1. cur \in Reqs
      BY <1>4, PassFacts
    <3>2. budget' \in Int
      <4>1. nsched[v] \in Int
        BY PassFacts
      <4> QED
        BY <1>2, <1>b, <4>1
    <3>3. cur' = cur /\ num' = num
      BY <1>3
    <3>4. cur \in Elems(running')
      BY <1>4, <1>6
    <3>5. nsched'[cur] = 0
      BY <1>4, <1>10, <3>1
    <3>6. num <= budget'
      BY <1>4, <1>12, <1>b, <3>2
    <3> QED
      BY <3>3, <3>4, <3>5, <3>6
  <2>2. ~PriorityPolicy => idx' <= Len(running') /\ cur' = running'[idx']
    <3> SUFFICES ASSUME ~PriorityPolicy
                 PROVE  idx' <= Len(running') /\ cur' = running'[idx']
      OBVIOUS
    <3>1. p = Len(running) /\ idx' = idx /\ cur' = cur
      BY <1>2, <1>3, <1>7, <1>8
    <3>2. idx <= Len(running) /\ cur = running[idx] /\ idx \in 1 .. Len(running)
      BY <1>4, <1>n, PassFacts
    <3>3. idx # p
      BY <1>5, <3>2
    <3>4. idx \in 1 .. Len(running) - 1 /\ idx < p
      <4>1. p = Len(running)
        BY <3>1
      <4>2. PICK m \in Int : m = Len(running)
        BY <1>n
      <4>3. idx \in 1 .. m /\ idx # m
        BY <3>2, <3>3, <4>1, <4>2
      <4>4. idx \in 1 .. m - 1 /\ idx < m
        BY <4>3
      <4> QED
        BY <4>1, <4>2, <4>4
    <3>5. running'[idx] = running[idx] /\ idx <= Len(running')
      BY <1>6, <3>4
    <3> QED
      BY <3>1, <3>2, <3>5
  <2>3. ASSUME NEW i \in DOMAIN running', running'[i] = cur' PROVE i <= idx'
    <3>1. i \in 1 .. Len(running) - 1 /\ cur' = cur
      BY <1>3, <1>6, <2>3
    <3>2. CASE i < p
      <4>1. running[i] = cur /\ i \in DOMAIN running
        BY <1>6, <1>n, <2>3, <3>1, <3>2
      <4>2. i <= idx
        BY <1>4, <4>1
      <4>3. idx' = idx \/ (idx' = idx - 1 /\ p < idx)
        BY <1>2, <1>7
      <4> QED
        BY <1>n, <3>1, <3>2, <4>2, <4>3
    <3>3. CASE i >= p
      <4>1. running[i + 1] = cur /\ i + 1 \in DOMAIN running
        <5>1. i + 1 \in DOMAIN running /\ ~(i < p)
          BY <1>n, <3>1, <3>3
        <5> QED
          BY <1>6, <2>3, <3>1, <5>1
      <4>2. i + 1 <= idx
        BY <1>4, <4>1
      <4>3. idx' = idx \/ idx' = idx - 1
        BY <1>2
      <4> QED
        BY <1>n, <3>1, <4>2, <4>3
    <3> QED
      BY <1>n, <3>1, <3>2, <3>3
  <2> QED
    BY <2>1, <2>2, <2>3 DEF Picked
<1>17. Unstarted'
  BY <1>1 DEF PassInv, Unstarted, Inv, TypeOK
<1>18. WaitingFree'
  BY <1>1, <1>3 DEF WaitingFree
<1> QED
  BY <1>13, <1>14, <1>15, <1>16, <1>17, <1>18 DEF PassInv

\* The other steps of schedule().
LEMMA OtherPass ==
  ASSUME Inv, QueueConsistency, PassInv,
         PutsBack \/ PassesOver \/ LeavesRunning \/ \E r \in Reqs : Skips(r)
  PROVE  PassInv'
<1>1. /\ UNCHANGED <<running, status, computed, nsched, budget>>
      /\ pc \in {"waiting", "running"} /\ pc' \in {"waiting", "running", "commit"}
  BY DEF PutsBack, PassesOver, LeavesRunning, Skips, reqVars, queueVars, localVars
<1>2. BudgetRespected'
  BY <1>1 DEF PassInv, BudgetRespected, Scheduling
<1>3. WaitingFree'
  BY <1>1 DEF PassInv, WaitingFree, PutsBack, PassesOver, LeavesRunning, Skips
<1>4. AheadFree'
  <2>1. CASE PutsBack
    <3>1. pc' = "running" => \A i \in DOMAIN running : nsched[running[i]] = 0
      BY <2>1, PassFacts DEF PutsBack, Zero
    <3> QED
      BY <1>1, <2>1, <3>1 DEF AheadFree, PutsBack
  <2>2. CASE PassesOver
    <3>1. idx' = idx + 1 /\ pc = "running"
      BY <2>2 DEF PassesOver
    <3> QED
      BY <1>1, <3>1, PassFacts DEF PassInv, AheadFree
  <2>3. CASE LeavesRunning \/ \E r \in Reqs : Skips(r)
    BY <2>3 DEF LeavesRunning, Skips, AheadFree
  <2> QED
    BY <2>1, <2>2, <2>3
<1> QED
  BY <1>1, <1>2, <1>3, <1>4 DEF PassInv, Picked, Unstarted, RunningBound

\* Removing a request never makes a queue longer.
LEMMA WithoutShorter ==
  ASSUME NEW S, NEW s \in Seq(S), NEW r, NEW n \in Nat, Len(s) <= n
  PROVE  Len(Without(s, r)) <= n
<1>1. CASE r \notin Elems(s)
  BY <1>1 DEF Without
<1>2. CASE r \in Elems(s)
  <2>1. Len(Without(s, r)) = Len(s) - 1
    BY <1>2, WithoutLen
  <2> QED
    BY <2>1
<1> QED
  BY <1>1, <1>2

\* The batch takes the tokens over; a request that is not running had none.
LEMMA CommitsPass ==
  ASSUME Inv, QueueConsistency, PassInv, Commits
  PROVE  PassInv'
<1>1. /\ pc = "commit" /\ pc' \in {"idle", "output"}
      /\ UNCHANGED <<running, status>>
      /\ computed' = [r \in Reqs |-> computed[r] + nsched[r]]
  BY DEF Commits, StartOutput
<1>2. Unstarted'
  <2> SUFFICES ASSUME NEW r \in Reqs, status[r] # "running"
               PROVE  computed[r] + nsched[r] <= 0
    BY <1>1 DEF Unstarted
  <2>1. computed[r] \in Int /\ nsched[r] \in Int /\ computed[r] <= 0
    BY DEF Inv, TypeOK, PassInv, Unstarted
  <2>2. ~(nsched[r] > 0)
    BY <1>1 DEF PassInv, BudgetRespected, Scheduling, Scheduled, QueueConsistency
  <2> QED
    BY <2>1, <2>2
<1> QED
  BY <1>1, <1>2, NoPass DEF PassInv, RunningBound

\* A request ends: nothing of it is computed, and one less is running.
LEMMA FinishPass ==
  ASSUME Inv, QueueConsistency, PassInv, NEW r \in Reqs, Finish(r),
         pc' \in {"idle", "output"}
  PROVE  PassInv'
<1>1. /\ status' = [status EXCEPT ![r] = "finished"]
      /\ computed' = [computed EXCEPT ![r] = 0]
      /\ running' = Without(running, r)
  BY DEF Finish
<1>2. Unstarted'
  BY <1>1 DEF PassInv, Unstarted, Inv, TypeOK
<1>3. RunningBound'
  BY <1>1, PassFacts, WithoutShorter DEF PassInv, RunningBound
<1> QED
  BY <1>2, <1>3, NoPass

\* update_from_output takes rejected drafts off a positive count only.
LEMMA OutputPass ==
  ASSUME Inv, QueueConsistency, PassInv, OutputStep
  PROVE  PassInv'
<1> DEFINE r == CHOOSE r \in todo : TRUE
<1>1. r \in Reqs /\ pc' \in {"idle", "output"}
  BY DEF OutputStep, Inv, TypeOK
<1>2. \/ \E accepted \in 0 .. NumSpecTokens, kept \in 1 .. NumSpecTokens + 1,
            stopped \in BOOLEAN : UpdateFromOutput(r, accepted, kept, stopped)
      \/ UNCHANGED <<status, computed, running>>
  BY DEF OutputStep, reqVars, queueVars
<1> HIDE DEF r
<1>3. CASE Finish(r)
  BY <1>1, <1>3, FinishPass
<1>4. CASE UNCHANGED <<status, computed, running>>
  BY <1>1, <1>4, NoPass DEF PassInv, Unstarted, RunningBound
<1>5. ASSUME NEW accepted \in 0 .. NumSpecTokens, NEW kept \in 1 .. NumSpecTokens + 1,
             NEW stopped \in BOOLEAN, UpdateFromOutput(r, accepted, kept, stopped),
             ~Finish(r)
      PROVE  PassInv'
  <2> DEFINE rejected == Rejected(Head(queue), r, accepted)
  <2>1. /\ UNCHANGED <<status, running>>
        /\ computed' = [computed EXCEPT ![r] =
                          IF @ > 0 THEN @ - rejected ELSE @]
    BY <1>5 DEF UpdateFromOutput, queueVars
  <2> HIDE DEF rejected
  <2>2. /\ \A o \in Reqs : o # r => computed'[o] = computed[o]
        /\ ~(computed[r] > 0) => computed'[r] = computed[r]
    BY <1>1, <2>1 DEF Inv, TypeOK
  <2>3. \A o \in Reqs : computed[o] \in Int
    BY DEF Inv, TypeOK
  <2>4. Unstarted'
    BY <2>1, <2>2, <2>3 DEF PassInv, Unstarted
  <2> QED
    BY <1>1, <2>1, <2>4, NoPass DEF PassInv, RunningBound
<1> QED
  BY <1>2, <1>3, <1>4, <1>5

\* Every step keeps to the budget.
LEMMA StepPass ==
  ASSUME Inv, QueueConsistency, PassInv, CoreNext
  PROVE  PassInv'
<1>1. CASE PassStep
  BY <1>1, BeginsPass, PicksPass, ScheduleRunningPass, AdmitsPass, PreemptPass,
     OtherPass DEF PassStep
<1>2. CASE Drain \/ Pops
  <2>1. UNCHANGED <<status, computed, running>> /\ pc' \in {"idle", "output"}
    BY <1>2 DEF Drain, Pops, StartOutput, reqVars, queueVars
  <2> QED
    BY <2>1, NoPass DEF PassInv, Unstarted, RunningBound
<1>3. ASSUME NEW r \in Reqs, AddRequest(r) PROVE PassInv'
  <2>1. /\ UNCHANGED <<computed, running>> /\ pc' = "idle" /\ ~Live(r)
        /\ \A o \in Reqs : o # r => status'[o] = status[o]
    BY <1>3 DEF AddRequest, Inv, TypeOK
  <2>2. Unstarted'
    BY <2>1 DEF PassInv, Unstarted
  <2> QED
    BY <2>1, <2>2, NoPass DEF PassInv, RunningBound
<1>4. ASSUME NEW r \in Reqs, Abort(r) PROVE PassInv'
  BY <1>4, FinishPass DEF Abort
<1>5. CASE \/ \E r \in Reqs : GrammarReady(r)
           \/ UNCHANGED vars
  <2>1. UNCHANGED <<status, computed, running, pc, cur, num, idx, budget, nsched>>
    BY <1>5 DEF GrammarReady, vars, reqVars, queueVars, localVars
  <2> QED
    BY <2>1 DEF PassInv, Picked, AheadFree, WaitingFree, Unstarted,
       BudgetRespected, Scheduling, RunningBound
<1> QED
  BY <1>1, <1>2, <1>3, <1>4, <1>5, CommitsPass, OutputPass
     DEF CoreNext, ClientStep

-----------------------------------------------------------------------------
(* The life of a request.                                                   *)

Phases == [r \in Reqs |-> Phase(r)]

\* What the steps of a life rest on besides the queues: a request that is
\* gone has no tokens, and outputs are applied to live requests only.
LifeInv ==
  /\ \A r \in Reqs : ~Live(r) => out[r] = 0
  /\ \A r \in todo : Live(r)
  /\ pc # "output" => todo = {}

\* A change of one status is a change of one phase.
LEMMA OnePhase ==
  ASSUME status \in [Reqs -> Statuses], NEW r \in Reqs, NEW s,
         status' = [status EXCEPT ![r] = s]
  PROVE  /\ \A o \in Reqs : o # r => Phase(o)' = Phase(o) /\ status'[o] = status[o]
         /\ status'[r] = s
         /\ s = "running" => Phases' = [Phases EXCEPT ![r] = "active"]
         /\ s \in {"waiting", "waiting_fsm", "preempted"}
              => Phases' = [Phases EXCEPT ![r] = "queued"]
         /\ s = "finished" => Phases' = [Phases EXCEPT ![r] = "gone"]
<1>1. \A o \in Reqs : o # r => status'[o] = status[o]
  OBVIOUS
<1>2. status'[r] = s
  OBVIOUS
<1>3. \A o \in Reqs : o # r => Phase(o)' = Phase(o)
  BY <1>1 DEF Phase
<1>4. Phases' = [Phases EXCEPT ![r] = Phase(r)']
  BY <1>3 DEF Phases
<1>5. /\ s = "running" => Phase(r)' = "active"
      /\ s \in {"waiting", "waiting_fsm", "preempted"} => Phase(r)' = "queued"
      /\ s = "finished" => Phase(r)' = "gone"
  BY <1>2 DEF Phase
<1> QED
  BY <1>1, <1>2, <1>3, <1>4, <1>5

\* The same statuses and tokens are no step at all.
LEMMA SameLife ==
  ASSUME UNCHANGED <<status, out>>
  PROVE  UNCHANGED Lifecycle!lifecycleVars
<1>1. Phases' = Phases
  BY DEF Phases, Phase
<1> QED
  BY <1>1 DEF Lifecycle!lifecycleVars, Phases

\* Phases and statuses name the same things.
LEMMA PhaseOf ==
  ASSUME status \in [Reqs -> Statuses], NEW r \in Reqs
  PROVE  /\ Phase(r) = "active" <=> status[r] = "running"
         /\ Phase(r) = "queued" <=> status[r] \in {"waiting", "waiting_fsm", "preempted"}
         /\ Phase(r) = "gone" <=> ~Live(r)
         /\ Phases[r] = Phase(r)
<1>1. status[r] \in Statuses
  OBVIOUS
<1> QED
  BY <1>1 DEF Phase, Phases, Live, Statuses

\* The active requests are those in running, at most as many as its length.
LEMMA ActiveBound ==
  ASSUME TypeOK, QueueConsistency
  PROVE  Cardinality(Lifecycle!Active) <= Len(running)
<1>1. running \in Seq(Reqs) /\ status \in [Reqs -> Statuses]
  BY DEF TypeOK
<1>2. Lifecycle!Active = Elems(running)
  <2>1. Lifecycle!Active = {r \in Reqs : Phases[r] = "active"}
    BY DEF Lifecycle!Active, Phases
  <2>2. \A r \in Reqs : Phases[r] = "active" <=> status[r] = "running"
    BY <1>1, PhaseOf
  <2>3. \A r \in Reqs : r \in Elems(running) <=> status[r] = "running"
    BY DEF QueueConsistency
  <2>4. Elems(running) \subseteq Reqs
    BY <1>1, ElemsType
  <2> QED
    BY <2>1, <2>2, <2>3, <2>4
<1>3. Len(running) \in Nat /\ DOMAIN running = 1 .. Len(running)
  BY <1>1
<1>4. IsFiniteSet(1 .. Len(running)) /\ Cardinality(1 .. Len(running)) = Len(running)
  <2>1. 1 \in Int /\ Len(running) \in Int
    BY <1>3
  <2>2. IsFiniteSet(1 .. Len(running))
        /\ Cardinality(1 .. Len(running))
             = IF 1 > Len(running) THEN 0 ELSE Len(running) - 1 + 1
    BY <2>1, FS_Interval
  <2> QED
    BY <1>3, <2>2
<1>5. running \in Surjection(1 .. Len(running), Elems(running))
  BY <1>1, <1>3 DEF Surjection, Elems
<1>6. Cardinality(Elems(running)) <= Cardinality(1 .. Len(running))
  BY <1>4, <1>5, FS_Surjection
<1> QED
  BY <1>2, <1>4, <1>6

\* Only finitely many requests are active.
LEMMA ActiveFinite == Cardinality(Lifecycle!Active) \in Nat
<1>1. Lifecycle!Active \subseteq Reqs
  BY DEF Lifecycle!Active
<1> QED
  BY <1>1, CoreAssumption, FS_Subset, FS_CardinalityType

\* add_request submits it.
LEMMA AddRequestLives ==
  ASSUME TypeOK, LifeInv, NEW r \in Reqs, AddRequest(r)
  PROVE  Lifecycle!Submit(r) /\ LifeInv'
<1>1. /\ status \in [Reqs -> Statuses] /\ pc = "idle" /\ ~Live(r)
      /\ \E s \in {"waiting", "waiting_fsm"} : status' = [status EXCEPT ![r] = s]
      /\ UNCHANGED <<out, running, pc, todo>>
  BY DEF TypeOK, AddRequest, localVars
<1>2. PICK s \in {"waiting", "waiting_fsm"} : status' = [status EXCEPT ![r] = s]
  BY <1>1
<1>3. Phases' = [Phases EXCEPT ![r] = "queued"] /\ Phases[r] = "gone"
  BY <1>1, <1>2, OnePhase, PhaseOf
<1>4. out[r] = 0 /\ todo = {}
  BY <1>1 DEF LifeInv
<1>5. \A o \in Reqs : Live(o) => Live(o)'
  <2>1. \A o \in Reqs : o # r => status'[o] = status[o]
    BY <1>1, <1>2
  <2>2. status'[r] = s
    BY <1>1, <1>2
  <2> QED
    BY <1>2, <2>1, <2>2 DEF Live
<1>6. LifeInv'
  BY <1>1, <1>4, <1>5 DEF LifeInv
<1> QED
  BY <1>1, <1>3, <1>4, <1>6 DEF Lifecycle!Submit, Phases

\* A stop or an abort ends it.
LEMMA FinishLives ==
  ASSUME TypeOK, LifeInv, NEW r \in Reqs, Live(r), Finish(r), pc' = pc,
         todo' \subseteq todo \ {r}
  PROVE  Lifecycle!End(r) /\ LifeInv'
<1>1. /\ status \in [Reqs -> Statuses] /\ running \in Seq(Reqs) /\ out \in [Reqs -> Nat]
      /\ status' = [status EXCEPT ![r] = "finished"]
      /\ out' = [out EXCEPT ![r] = 0] /\ running' = Without(running, r)
      /\ todo \subseteq Reqs
  BY DEF TypeOK, Finish
<1>2. Phases' = [Phases EXCEPT ![r] = "gone"] /\ Phases[r] # "gone"
  BY <1>1, OnePhase, PhaseOf
<1>3. \A o \in Reqs : o # r => (Live(o)' <=> Live(o)) /\ out'[o] = out[o]
  BY <1>1 DEF Live
<1>4. ~Live(r)' /\ out'[r] = 0
  BY <1>1 DEF Live
<1>6. LifeInv'
  <2>1. \A o \in Reqs : ~Live(o)' => out'[o] = 0
    BY <1>3, <1>4 DEF LifeInv
  <2>2. \A o \in todo' : Live(o)'
    BY <1>1, <1>3 DEF LifeInv
  <2>3. pc' # "output" => todo' = {}
    BY DEF LifeInv
  <2> QED
    BY <2>1, <2>2, <2>3 DEF LifeInv
<1> QED
  BY <1>1, <1>2, <1>6 DEF Lifecycle!End, Phases

\* Admission to a batch activates it, new or resumed.
LEMMA AdmitLives ==
  ASSUME TypeOK, QueueConsistency, RunningBound, LifeInv, NEW r \in Reqs,
         NEW n \in Int, Admits(r, n)
  PROVE  Lifecycle!Activate(r) /\ LifeInv'
<1>1. /\ status \in [Reqs -> Statuses] /\ running \in Seq(Reqs)
      /\ r \in Elems(waiting) /\ Len(running) # MaxNumRunningReqs
      /\ status' = [status EXCEPT ![r] = "running"] /\ running' = Append(running, r)
      /\ UNCHANGED <<out, pc, todo>>
  BY DEF TypeOK, Admits
<1>2. status[r] \in {"waiting", "waiting_fsm", "preempted"}
  BY <1>1 DEF QueueConsistency
<1>3. Phases' = [Phases EXCEPT ![r] = "active"] /\ Phases[r] = "queued"
  BY <1>1, <1>2, OnePhase, PhaseOf
<1>4. Len(running) \in Nat /\ MaxNumRunningReqs \in Nat /\ Len(running') = Len(running) + 1
  BY <1>1, CoreAssumption
<1>5. Len(running) < MaxNumRunningReqs
  BY <1>1, <1>4 DEF RunningBound
<1>6. Cardinality(Lifecycle!Active) < MaxNumRunningReqs
  <2>1. Cardinality(Lifecycle!Active) \in Nat
    BY ActiveFinite
  <2> QED
    BY <1>4, <1>5, <2>1, ActiveBound
<1>7. \A o \in Reqs : Live(o) => Live(o)'
  BY <1>1 DEF Live
<1>8. LifeInv'
  <2>1. todo \subseteq Reqs
    BY DEF TypeOK
  <2> QED
    BY <1>1, <1>4, <1>5, <1>7, <2>1 DEF LifeInv
<1>9. Lifecycle!Activate(r)
  <2>1. [q \in Reqs |-> Phase(q)][r] = "queued"
    BY <1>3 DEF Phases
  <2>2. [q \in Reqs |-> Phase(q)]' = [[q \in Reqs |-> Phase(q)] EXCEPT ![r] = "active"]
    BY <1>3 DEF Phases
  <2>3. Lifecycle!Cardinality(Lifecycle!Active) = Cardinality(Lifecycle!Active)
    BY DEF Cardinality, Lifecycle!Cardinality
  <2> QED
    BY <1>1, <1>6, <2>1, <2>2, <2>3 DEF Lifecycle!Activate
<1> QED
  BY <1>8, <1>9

\* A preemption suspends it; its tokens stay.
LEMMA PreemptLives ==
  ASSUME TypeOK, QueueConsistency, LifeInv, NEW v \in Reqs, Preempt(v)
  PROVE  Lifecycle!Suspend(v) /\ LifeInv'
<1>1. /\ status \in [Reqs -> Statuses] /\ running \in Seq(Reqs) /\ v \in Elems(running)
      /\ status' = [status EXCEPT ![v] = "preempted"] /\ running' = Without(running, v)
      /\ UNCHANGED <<out, todo>> /\ pc = "alloc" /\ pc' \in {"alloc", "commit"}
  BY DEF TypeOK, Preempt, IsVictim
<1>2. status[v] = "running"
  BY <1>1 DEF QueueConsistency
<1>3. Phases' = [Phases EXCEPT ![v] = "queued"] /\ Phases[v] = "active"
  BY <1>1, <1>2, OnePhase, PhaseOf
<1>4. \A o \in Reqs : Live(o) => Live(o)'
  BY <1>1 DEF Live
<1>6. LifeInv'
  <2>1. todo \subseteq Reqs
    BY DEF TypeOK
  <2> QED
    BY <1>1, <1>4, <2>1 DEF LifeInv
<1> QED
  BY <1>1, <1>3, <1>6 DEF Lifecycle!Suspend, Phases

\* update_from_output appends its tokens, fewer than would reach its limit,
\* or ends it.
LEMMA OutputLives ==
  ASSUME TypeOK, LifeInv, OutputStep
  PROVE  ([Lifecycle!LifecycleNext]_(Lifecycle!lifecycleVars)) /\ LifeInv'
<1> DEFINE r == CHOOSE r \in todo : TRUE
           limit == [q \in Reqs |-> MinOf(MaxTokens[q], MaxModelLen - Prompt[q])]
<1>1. r \in todo /\ r \in Reqs /\ todo \subseteq Reqs /\ todo' = todo \ {r} /\ pc' = pc
  BY DEF OutputStep, TypeOK
<1>2. Live(r)
  BY <1>1 DEF LifeInv
<1>3. \/ \E accepted \in 0 .. NumSpecTokens, kept \in 1 .. NumSpecTokens + 1,
            stopped \in BOOLEAN : UpdateFromOutput(r, accepted, kept, stopped)
      \/ UNCHANGED <<status, out, running>>
  BY DEF OutputStep, reqVars, queueVars
<1> HIDE DEF r
<1>4. CASE Finish(r)
  <2>1. Lifecycle!End(r) /\ LifeInv'
    BY <1>1, <1>2, <1>4, FinishLives
  <2> QED
    BY <1>1, <2>1 DEF Lifecycle!LifecycleNext
<1>5. CASE UNCHANGED <<status, out, running>>
  <2>1. LifeInv'
    BY <1>1, <1>5 DEF LifeInv, Live
  <2> QED
    BY <1>5, <2>1, SameLife
<1>6. ASSUME NEW accepted \in 0 .. NumSpecTokens, NEW kept \in 1 .. NumSpecTokens + 1,
             NEW stopped \in BOOLEAN, UpdateFromOutput(r, accepted, kept, stopped),
             ~Finish(r)
      PROVE  Lifecycle!Produce(r) /\ LifeInv'
  <2>1. /\ out' = [out EXCEPT ![r] = @ + kept] /\ UNCHANGED <<status, running>>
        /\ kept <= MaxTotalTokens(r) - NumTokens(r)
        /\ kept # MaxTotalTokens(r) - NumTokens(r)
    <3>1. /\ ~stopped
          /\ out' = [out EXCEPT ![r] = @ + kept] /\ UNCHANGED <<status, running>>
          /\ kept = MaxTotalTokens(r) - NumTokens(r) => stopped
          /\ kept \in 1 .. MinOf(accepted + 1, MaxTotalTokens(r) - NumTokens(r))
      BY <1>6 DEF UpdateFromOutput, queueVars
    <3>2. MaxTotalTokens(r) - NumTokens(r) \in Int /\ accepted \in Int
      BY <1>1, TokensType
    <3> QED
      BY <3>1, <3>2 DEF MinOf
  <2>2. /\ out \in [Reqs -> Nat] /\ out[r] \in Nat /\ Prompt[r] \in Nat
        /\ MaxTokens[r] \in Nat /\ MaxModelLen \in Nat /\ kept \in Nat \ {0}
    <3>1. out \in [Reqs -> Nat] /\ out[r] \in Nat
      BY <1>1 DEF TypeOK
    <3>2. Prompt[r] \in Nat /\ MaxTokens[r] \in Nat /\ MaxModelLen \in Nat
      BY <1>1, CoreAssumption
    <3>3. kept \in Nat \ {0}
      <4>1. NumSpecTokens \in Nat
        BY CoreAssumption
      <4> QED
        BY <4>1
    <3> QED
      BY <3>1, <3>2, <3>3
  <2>3. MaxTotalTokens(r) - NumTokens(r) = limit[r] - out[r] /\ limit[r] \in Int
    BY <1>1, <2>2 DEF MaxTotalTokens, NumTokens, MinOf
  <2> HIDE DEF limit
  <2>4. out[r] + kept \in out[r] + 1 .. limit[r] - 1
    BY <2>1, <2>2, <2>3
  <2>5. out' = [out EXCEPT ![r] = out[r] + kept]
    BY <2>1, <2>2
  <2>6. Phases' = Phases /\ Phases[r] # "gone"
    <3>1. Phases' = Phases
      BY <2>1 DEF Phases, Phase
    <3>2. status \in [Reqs -> Statuses]
      BY DEF TypeOK
    <3> QED
      BY <1>1, <1>2, <3>1, <3>2, PhaseOf
  <2>7. \E n \in out[r] + 1 .. limit[r] - 1 : out' = [out EXCEPT ![r] = n]
    BY <2>4, <2>5
  <2>8. Lifecycle!Produce(r)
    BY <1>1, <2>6, <2>7 DEF Lifecycle!Produce, Phases, limit
  <2>9. \A o \in Reqs : (Live(o)' <=> Live(o)) /\ (o # r => out'[o] = out[o])
    BY <2>1, <2>2 DEF Live
  <2> QED
    BY <1>1, <1>2, <2>1, <2>8, <2>9 DEF LifeInv
<1> QED
  BY <1>1, <1>3, <1>4, <1>5, <1>6 DEF Lifecycle!LifecycleNext

\* Every step of a scheduler is a step of a life, or none.
LEMMA StepLives ==
  ASSUME Inv, QueueConsistency, RunningBound, LifeInv, CoreNext
  PROVE  ([Lifecycle!LifecycleNext]_(Lifecycle!lifecycleVars)) /\ LifeInv'
<1>1. TypeOK
  BY DEF Inv
<1>2. ASSUME UNCHANGED <<status, out, todo>>, pc = "output" <=> pc' = "output"
      PROVE  ([Lifecycle!LifecycleNext]_(Lifecycle!lifecycleVars)) /\ LifeInv'
  <2>1. LifeInv'
    BY <1>2 DEF LifeInv, Live
  <2> QED
    BY <1>2, <2>1, SameLife
<1>3. CASE PassStep
  <2>1. CASE Begins \/ PutsBack \/ PassesOver \/ Picks \/ ScheduleRunning
             \/ LeavesRunning
    BY <1>2, <2>1 DEF Begins, PutsBack, PassesOver, Picks, ScheduleRunning,
       LeavesRunning, reqVars
  <2>2. ASSUME NEW r \in Reqs, Skips(r)
        PROVE  ([Lifecycle!LifecycleNext]_(Lifecycle!lifecycleVars)) /\ LifeInv'
    BY <1>2, <2>2 DEF Skips, reqVars
  <2>3. ASSUME NEW r \in Reqs, Preempt(r) \/ \E n \in Int : Admits(r, n)
        PROVE  ([Lifecycle!LifecycleNext]_(Lifecycle!lifecycleVars)) /\ LifeInv'
    BY <1>1, <2>3, AdmitLives, PreemptLives DEF Lifecycle!LifecycleNext
  <2> QED
    BY <1>3, <2>1, <2>2, <2>3 DEF PassStep
<1>4. CASE Commits \/ Drain \/ Pops
  <2>1. UNCHANGED <<status, out>> /\ todo' \subseteq {r \in Reqs : Live(r)}
        /\ (pc' # "output" => todo' = {})
    BY <1>4 DEF Commits, Drain, Pops, StartOutput, reqVars, Scheduled, LifeInv
  <2>2. LifeInv'
    BY <2>1 DEF LifeInv, Live
  <2> QED
    BY <2>1, <2>2, SameLife
<1>5. CASE OutputStep
  BY <1>1, <1>5, OutputLives
<1>6. ASSUME NEW r \in Reqs, AddRequest(r) \/ Abort(r)
      PROVE  ([Lifecycle!LifecycleNext]_(Lifecycle!lifecycleVars)) /\ LifeInv'
  <2>1. CASE AddRequest(r)
    BY <1>1, <2>1, AddRequestLives DEF Lifecycle!LifecycleNext
  <2>2. CASE Abort(r)
    <3>1. Live(r) /\ Finish(r) /\ pc' = pc /\ todo' \subseteq todo \ {r}
      BY <2>2 DEF Abort, LifeInv
    <3>2. Lifecycle!End(r) /\ LifeInv'
      BY <1>1, <3>1, FinishLives
    <3> QED
      BY <3>2 DEF Lifecycle!LifecycleNext
  <2> QED
    BY <1>6, <2>1, <2>2
<1>7. CASE \E r \in Reqs : GrammarReady(r)
  BY <1>2, <1>7 DEF GrammarReady
<1>8. CASE UNCHANGED vars
  BY <1>2, <1>8 DEF vars, reqVars
<1> QED
  BY <1>3, <1>4, <1>5, <1>6, <1>7, <1>8 DEF CoreNext, ClientStep

-----------------------------------------------------------------------------
(* The batches in flight.  Where they are counted there are at most two of *)
(* them: async scheduling is two batches deep.                             *)

\* What batch i still owes request r, and what is owed in all.
Due(i, r) == IF i \in InFlight(r) THEN 1 + queue[i].s[r] ELSE 0
Owed(r) == Due(1, r) + Due(2, r)

\* An id is submitted before it lives, is stopped at its limit, and leaves
\* no placeholder behind when it is gone.
Submitted ==
  \A r \in Reqs :
    /\ submissions[r] <= MaxSubmissions /\ sspec[r] >= 0
    /\ Live(r) => submissions[r] >= 1 /\ NumTokens(r) < MaxTotalTokens(r)
    /\ ~Live(r) => placeholders[r] = 0

\* A batch samples for requests it computes, of this or an earlier
\* submission of their ids.
Tagged ==
  \A i \in DOMAIN queue : \A r \in queue[i].emit :
    /\ r \in Reqs /\ queue[i].n[r] > 0 /\ queue[i].s[r] >= 0
    /\ queue[i].sub[r] >= 1 /\ queue[i].sub[r] <= submissions[r]

\* num_output_placeholders never exceeds what is owed, and is exact if no
\* output of an aborted request can reach a new one of the same id.
Awaited ==
  /\ AsyncScheduling => \A r \in Reqs : Live(r) =>
       /\ placeholders[r] <= Owed(r)
       /\ MaxSubmissions = 1 => placeholders[r] = Owed(r)
  /\ ~AsyncScheduling => \A r \in Reqs : placeholders[r] = 0

InOrder == BatchQueueSize <= 2 /\ MaxSubmissions = 1

\* Each batch was scheduled on what the ones before it will have left.
Placed ==
  InOrder => \A r \in Reqs : Live(r) =>
    /\ 1 \in InFlight(r) => queue[1].base[r] - queue[1].lost[r] = NumTokens(r)
    /\ 2 \in InFlight(r) => queue[2].base[r] - queue[2].lost[r] = NumTokens(r) + Due(1, r)

FlightInv == Submitted /\ Tagged /\ Awaited /\ Placed

\* A pipeline of two batches never computes a request that is being sampled:
\* it has no tokens to compute, and the output of one that was preempted
\* meanwhile is applied before the waiting loop can see the request.
Single ==
  \A r \in Reqs : Live(r) /\ InFlight(r) # {} =>
    /\ nsched[r] = 0 /\ ~(1 \in InFlight(r) /\ 2 \in InFlight(r))
    /\ status[r] = "running" => computed[r] = NumTokens(r)
    /\ status[r] # "running" => 2 \notin InFlight(r) /\ pc \notin {"idle", "waiting"}

\* What is owed is a number of tokens, at least one for a batch in flight.
LEMMA DueType ==
  ASSUME TypeOK, Tagged, NEW r \in Reqs, NEW i
  PROVE  /\ Due(i, r) \in Nat
         /\ i \in InFlight(r) =>
              /\ i \in DOMAIN queue /\ Due(i, r) = 1 + queue[i].s[r]
              /\ queue[i].s[r] \in Nat
         /\ i \notin InFlight(r) => Due(i, r) = 0
<1>1. CASE i \in InFlight(r)
  <2>1. i \in DOMAIN queue /\ r \in queue[i].emit
    BY <1>1 DEF InFlight
  <2>2. queue[i] \in Batches
    BY <2>1 DEF TypeOK
  <2>3. queue[i].s[r] \in Int /\ queue[i].s[r] >= 0
    BY <2>1, <2>2 DEF Batches, Tagged
  <2> QED
    BY <1>1, <2>1, <2>3 DEF Due
<1>2. CASE i \notin InFlight(r)
  BY <1>2 DEF Due
<1> QED
  BY <1>1, <1>2

\* Steps that do not concern the batches in flight.
LEMMA SameFlight ==
  ASSUME FlightInv, UNCHANGED <<queue, submissions, out, placeholders, todo>>,
         pc = "output" <=> pc' = "output",
         \A r \in Reqs : (Live(r)' <=> Live(r)) /\ sspec'[r] >= 0
  PROVE  FlightInv'
<1>1. \A r : InFlight(r)' = InFlight(r)
  BY DEF InFlight
<1>2. \A i, r : Due(i, r)' = Due(i, r)
  BY <1>1 DEF Due
<1>3. \A r : Owed(r)' = Owed(r)
  BY <1>2 DEF Owed
<1>4. \A r : NumTokens(r)' = NumTokens(r) /\ MaxTotalTokens(r)' = MaxTotalTokens(r)
  BY DEF NumTokens, MaxTotalTokens
<1>5. Submitted'
  BY <1>4 DEF FlightInv, Submitted
<1>6. Tagged'
  BY DEF FlightInv, Tagged
<1>7. Awaited'
  BY <1>3 DEF FlightInv, Awaited
<1>8. Placed'
  BY <1>1, <1>2, <1>4 DEF FlightInv, Placed
<1> QED
  BY <1>5, <1>6, <1>7, <1>8 DEF FlightInv

\* A request ends; its batches stay in flight.
LEMMA FinishFlight ==
  ASSUME TypeOK, FlightInv, NEW r \in Reqs, Finish(r), sspec' = sspec,
         \A o \in Reqs : o # r =>
           /\ InFlight(o)' = InFlight(o)
           /\ \A i \in DOMAIN queue : /\ queue'[i].base[o] = queue[i].base[o]
                                       /\ queue'[i].lost[o] = queue[i].lost[o],
         DOMAIN queue' = DOMAIN queue,
         \A i \in DOMAIN queue : /\ queue'[i].n = queue[i].n /\ queue'[i].s = queue[i].s
                                 /\ queue'[i].emit = queue[i].emit
                                 /\ queue'[i].sub = queue[i].sub
  PROVE  FlightInv'
<1>1. /\ status' = [status EXCEPT ![r] = "finished"]
      /\ placeholders' = [placeholders EXCEPT ![r] = 0]
      /\ out' = [out EXCEPT ![r] = 0] /\ submissions' = submissions
  BY DEF Finish
<1>2. /\ status'[r] = "finished" /\ placeholders'[r] = 0
      /\ \A o \in Reqs : o # r => /\ status'[o] = status[o] /\ out'[o] = out[o]
                                  /\ placeholders'[o] = placeholders[o]
  BY <1>1 DEF TypeOK
<1>3. \A o \in Reqs : o # r => /\ NumTokens(o)' = NumTokens(o)
                               /\ MaxTotalTokens(o)' = MaxTotalTokens(o)
  BY <1>2 DEF NumTokens, MaxTotalTokens
<1>4. \A i : \A o \in Reqs : o # r => Due(i, o)' = Due(i, o)
  <2> SUFFICES ASSUME NEW i, NEW o \in Reqs, o # r PROVE Due(i, o)' = Due(i, o)
    OBVIOUS
  <2>1. i \in InFlight(o) => queue'[i].s = queue[i].s
    BY DEF InFlight
  <2> QED
    BY <2>1 DEF Due
<1>5. Submitted'
  BY <1>1, <1>2, <1>3 DEF FlightInv, Submitted
<1>6. Tagged'
  BY <1>1 DEF FlightInv, Tagged
<1>7. Awaited'
  BY <1>2, <1>4 DEF FlightInv, Awaited, Owed
<1>8. Placed'
  <2> SUFFICES ASSUME InOrder, NEW o \in Reqs, Live(o)'
               PROVE  /\ 1 \in InFlight(o)' => queue'[1].base[o] - queue'[1].lost[o] = NumTokens(o)'
                      /\ 2 \in InFlight(o)' =>
                           queue'[2].base[o] - queue'[2].lost[o] = NumTokens(o)' + Due(1, o)'
    BY DEF Placed, InOrder
  <2>1. o # r /\ Live(o)
    BY <1>2
  <2>2. \A i \in InFlight(o) : i \in DOMAIN queue
    BY DEF InFlight
  <2> QED
    BY <1>3, <1>4, <2>1, <2>2 DEF FlightInv, Placed
<1> QED
  BY <1>5, <1>6, <1>7, <1>8 DEF FlightInv

\* A new submission is owed nothing by the batches of an old one.
LEMMA AddRequestFlight ==
  ASSUME TypeOK, LifeInv, FlightInv, NEW r \in Reqs, AddRequest(r)
  PROVE  FlightInv' /\ InFlight(r)' = {}
<1>1. /\ ~Live(r) /\ submissions[r] < MaxSubmissions /\ pc = "idle" /\ pc' = "idle"
      /\ \E s \in {"waiting", "waiting_fsm"} : status' = [status EXCEPT ![r] = s]
      /\ submissions' = [submissions EXCEPT ![r] = @ + 1]
      /\ UNCHANGED <<out, placeholders, queue, sspec, todo>>
  BY DEF AddRequest, localVars
<1>2. /\ submissions'[r] = submissions[r] + 1 /\ submissions[r] \in Nat
      /\ \A o \in Reqs : o # r => status'[o] = status[o] /\ submissions'[o] = submissions[o]
      /\ \A o \in Reqs : submissions[o] \in Nat
      /\ MaxSubmissions \in Nat
  BY <1>1, CoreAssumption DEF TypeOK
<1>3. placeholders[r] = 0 /\ out[r] = 0
  BY <1>1 DEF FlightInv, Submitted, LifeInv
<1>4. \A o \in Reqs : o # r => InFlight(o)' = InFlight(o)
  BY <1>1, <1>2 DEF InFlight
<1>5. InFlight(r)' = {}
  <2> SUFFICES ASSUME NEW i \in DOMAIN queue, r \in queue[i].emit,
                      queue[i].sub[r] = submissions'[r]
               PROVE  FALSE
    BY <1>1 DEF InFlight
  <2>1. queue[i].sub[r] <= submissions[r]
    BY DEF FlightInv, Tagged
  <2> QED
    BY <1>2, <2>1
<1>6. \A i : /\ Due(i, r)' = 0
             /\ \A o \in Reqs : o # r => Due(i, o)' = Due(i, o)
  BY <1>1, <1>4, <1>5 DEF Due
<1>7. \A o \in Reqs : NumTokens(o)' = NumTokens(o) /\ MaxTotalTokens(o)' = MaxTotalTokens(o)
  BY <1>1 DEF NumTokens, MaxTotalTokens
<1>8. NumTokens(r) < MaxTotalTokens(r)
  <2>1. /\ Prompt[r] \in Nat /\ MaxTokens[r] \in Nat \ {0} /\ MaxModelLen \in Nat
        /\ Prompt[r] < MaxModelLen
    BY CoreAssumption
  <2> QED
    BY <1>3, <2>1 DEF NumTokens, MaxTotalTokens, MinOf
<1>9. Submitted'
  <2>1. submissions'[r] <= MaxSubmissions /\ submissions'[r] >= 1
    BY <1>1, <1>2
  <2> QED
    BY <1>1, <1>2, <1>3, <1>7, <1>8, <2>1 DEF FlightInv, Submitted
<1>10. Tagged'
  <2> SUFFICES ASSUME NEW i \in DOMAIN queue, NEW o \in queue[i].emit
               PROVE  /\ o \in Reqs /\ queue[i].n[o] > 0 /\ queue[i].s[o] >= 0
                      /\ queue[i].sub[o] >= 1 /\ queue[i].sub[o] <= submissions'[o]
    BY <1>1 DEF Tagged
  <2>1. /\ o \in Reqs /\ queue[i].n[o] > 0 /\ queue[i].s[o] >= 0
        /\ queue[i].sub[o] >= 1 /\ queue[i].sub[o] <= submissions[o]
    BY DEF FlightInv, Tagged
  <2>2. queue[i].sub[o] \in Nat
    <3>1. queue[i] \in Batches
      BY DEF TypeOK
    <3> QED
      BY <2>1, <3>1 DEF Batches
  <2> QED
    BY <1>2, <2>1, <2>2
<1>11. Awaited'
  <2>1. Owed(r)' = 0 /\ \A o \in Reqs : o # r => Owed(o)' = Owed(o)
    BY <1>6 DEF Owed
  <2> QED
    BY <1>1, <1>2, <1>3, <2>1 DEF FlightInv, Awaited
<1>12. Placed'
  BY <1>1, <1>2, <1>4, <1>5, <1>6, <1>7 DEF FlightInv, Placed, InOrder
<1> QED
  BY <1>5, <1>9, <1>10, <1>11, <1>12 DEF FlightInv

\* The engine starts to consume the oldest output: all it owes to live
\* requests is still to be applied.
LEMMA DrainFlight ==
  ASSUME TypeOK, FlightInv, Drain
  PROVE  /\ FlightInv'
         /\ \A r \in Reqs : Live(r) => InFlight(r)' = InFlight(r)
<1>1. /\ pc = "idle" /\ pc' = "output" /\ queue # <<>>
      /\ todo' = {r \in Scheduled(Head(queue).n) : Live(r)}
      /\ UNCHANGED <<queue, submissions, out, placeholders, status, sspec>>
  BY DEF Drain, StartOutput, reqVars, localVars
<1>2. \A r \in Reqs : Live(r) => InFlight(r)' = InFlight(r)
  <2> SUFFICES ASSUME NEW r \in Reqs, Live(r), NEW i \in DOMAIN queue,
                      r \in queue[i].emit, i = 1
               PROVE  r \in todo'
    BY <1>1 DEF InFlight
  <2>1. queue[1].n[r] > 0
    BY DEF FlightInv, Tagged
  <2>2. Head(queue) = queue[1]
    BY <1>1 DEF TypeOK
  <2> QED
    BY <1>1, <2>1, <2>2 DEF Scheduled
<1>3. \A r \in Reqs : Live(r) => Owed(r)' = Owed(r) /\ Due(1, r)' = Due(1, r)
  BY <1>1, <1>2 DEF Due, Owed
<1>4. \A r : NumTokens(r)' = NumTokens(r) /\ MaxTotalTokens(r)' = MaxTotalTokens(r)
  BY <1>1 DEF NumTokens, MaxTotalTokens
<1>5. Submitted'
  BY <1>1, <1>4 DEF FlightInv, Submitted
<1>6. Tagged'
  BY <1>1 DEF FlightInv, Tagged
<1>7. Awaited'
  BY <1>1, <1>3 DEF FlightInv, Awaited
<1>8. Placed'
  BY <1>1, <1>2, <1>3, <1>4 DEF FlightInv, Placed, InOrder
<1> QED
  BY <1>2, <1>5, <1>6, <1>7, <1>8 DEF FlightInv

\* A batch whose output is consumed owes nothing; the next one moves up.
LEMMA PopsFlight ==
  ASSUME Inv, FlightInv, Pops
  PROVE  /\ FlightInv'
         /\ \A r \in Reqs : \A i \in Nat \ {0} :
              i \in InFlight(r)' <=> i + 1 \in InFlight(r)
<1>1. /\ pc = "output" /\ pc' = "idle" /\ todo = {} /\ Len(queue') = Len(queue) - 1
      /\ queue' \in Seq(Batches) /\ queue \in Seq(Batches) /\ Len(queue) \in Nat \ {0}
      /\ UNCHANGED <<submissions, out, placeholders, status, sspec>>
  <2>1. queue # <<>> /\ queue \in Seq(Batches)
    BY DEF Pops, Inv, TypeOK, BatchQueueBounded
  <2>2. Len(queue) \in Nat \ {0}
    BY <2>1
  <2> QED
    BY <2>1, <2>2 DEF Pops, localVars
<1>2. /\ DOMAIN queue = 1 .. Len(queue) /\ DOMAIN queue' = 1 .. Len(queue) - 1
      /\ \A i \in DOMAIN queue' : i + 1 \in DOMAIN queue /\ i \in Nat \ {0}
  BY <1>1
<1>3. \A i \in DOMAIN queue' :
        /\ queue'[i].n = queue[i + 1].n /\ queue'[i].s = queue[i + 1].s
        /\ queue'[i].emit = queue[i + 1].emit /\ queue'[i].base = queue[i + 1].base
        /\ queue'[i].lost = queue[i + 1].lost
        /\ queue'[i].sub = queue[i + 1].sub
  BY <1>2 DEF Pops
<1>4. \A r \in Reqs : /\ 1 \notin InFlight(r)
                      /\ \A i \in Nat \ {0} : i \in InFlight(r)' <=> i + 1 \in InFlight(r)
  <2> SUFFICES ASSUME NEW r \in Reqs, NEW i \in Nat \ {0}
               PROVE  1 \notin InFlight(r) /\ (i \in InFlight(r)' <=> i + 1 \in InFlight(r))
    OBVIOUS
  <2>1. 1 \notin InFlight(r)
    BY <1>1 DEF InFlight
  <2>2. i \in DOMAIN queue' <=> i + 1 \in DOMAIN queue
    BY <1>1, <1>2
  <2>3. i + 1 # 1
    OBVIOUS
  <2> QED
    <3>1. i + 1 \in DOMAIN queue => /\ queue'[i].emit = queue[i + 1].emit
                                    /\ queue'[i].sub = queue[i + 1].sub
      BY <1>3, <2>2
    <3>2. pc' # "output" /\ submissions' = submissions
      BY <1>1
    <3> QED
      BY <2>1, <2>2, <2>3, <3>1, <3>2 DEF InFlight
<1>5. \A r \in Reqs : /\ Due(1, r) = 0
                      /\ \A i \in Nat \ {0} : Due(i, r)' = Due(i + 1, r)
  <2> SUFFICES ASSUME NEW r \in Reqs, NEW i \in Nat \ {0}
               PROVE  Due(1, r) = 0 /\ Due(i, r)' = Due(i + 1, r)
    OBVIOUS
  <2>1. i \in InFlight(r)' => i \in DOMAIN queue'
    BY DEF InFlight
  <2> QED
    BY <1>3, <1>4, <2>1 DEF Due
<1>6. \A r : NumTokens(r)' = NumTokens(r) /\ MaxTotalTokens(r)' = MaxTotalTokens(r)
  BY <1>1 DEF NumTokens, MaxTotalTokens
<1>7. Submitted'
  BY <1>1, <1>6 DEF FlightInv, Submitted
<1>8. Tagged'
  BY <1>1, <1>2, <1>3 DEF FlightInv, Tagged
<1>9. ASSUME BatchQueueSize <= 2, NEW r \in Reqs
      PROVE  3 \notin InFlight(r)
  <2>1. Len(queue) <= 2
    <3>1. Len(queue) <= BatchQueueSize /\ Len(queue) \in Nat
      BY <1>1 DEF Inv, BatchQueueBounded
    <3>2. BatchQueueSize \in Nat /\ BatchQueueSize <= 2
      BY <1>9, CoreAssumption
    <3> QED
      BY <3>1, <3>2
  <2>2. 3 \notin DOMAIN queue
    BY <1>1, <1>2, <2>1
  <2> QED
    BY <2>2 DEF InFlight
<1>10. Awaited'
  <2>1. ASSUME AsyncScheduling, NEW r \in Reqs PROVE Owed(r)' = Owed(r)
    <3>1. Due(3, r) = 0 /\ Due(1, r) = 0 /\ Due(2, r) \in Nat
      <4>1. 3 \notin InFlight(r)
        BY <1>9, <2>1, CoreAssumption
      <4> QED
        BY <1>5, <4>1, DueType DEF Inv, FlightInv
    <3>2. Due(1, r)' = Due(2, r) /\ Due(2, r)' = Due(3, r)
      BY <1>5
    <3> QED
      BY <3>1, <3>2 DEF Owed
  <2> QED
    BY <1>1, <2>1 DEF FlightInv, Awaited
<1>11. Placed'
  <2> SUFFICES ASSUME InOrder, NEW r \in Reqs, Live(r)
               PROVE  /\ 1 \in InFlight(r)' => queue'[1].base[r] - queue'[1].lost[r] = NumTokens(r)
                      /\ 2 \notin InFlight(r)'
    BY <1>1, <1>6 DEF Placed, InOrder
  <2>1. 2 \notin InFlight(r)'
    BY <1>4, <1>9 DEF InOrder
  <2>2. ASSUME 1 \in InFlight(r)' PROVE queue'[1].base[r] - queue'[1].lost[r] = NumTokens(r)
    <3>1. 2 \in InFlight(r) /\ 1 \in DOMAIN queue'
      BY <1>4, <2>2 DEF InFlight
    <3>2. queue[2].base[r] - queue[2].lost[r] = NumTokens(r) + Due(1, r) /\ Due(1, r) = 0
      BY <1>5, <3>1 DEF FlightInv, Placed
    <3>3. NumTokens(r) \in Int
      BY TokensType DEF Inv
    <3> QED
      BY <1>3, <3>1, <3>2, <3>3
  <2> QED
    BY <2>1, <2>2
<1> QED
  BY <1>4, <1>7, <1>8, <1>10, <1>11 DEF FlightInv

\* A new batch owes what it samples, at the end of what is owed before it.
LEMMA CommitsFlight ==
  ASSUME Inv, QueueConsistency, PassInv, FlightInv, Pipelined => Single, Commits
  PROVE  /\ FlightInv'
         /\ \A r \in Reqs : Live(r) => InFlight(r)' =
              InFlight(r) \cup (IF r \in Emitting THEN {Len(queue) + 1} ELSE {})
<1> DEFINE new == NewBatch
<1>1. /\ pc = "commit" /\ queue \in Seq(Batches) /\ Len(queue) \in Nat
      /\ queue' = Append(queue, new) /\ sspec' = Zero
      /\ UNCHANGED <<submissions, out, status>>
      /\ \/ pc' = "idle"
         \/ pc' = "output" /\ todo' = {r \in Scheduled(Head(queue').n) : Live(r)}
  <2>1. queue \in Seq(Batches) /\ Len(queue) \in Nat
    BY DEF Inv, TypeOK
  <2> QED
    BY <2>1 DEF Commits, StartOutput
<1>2. /\ new.emit = Emitting /\ new.n = nsched /\ new.s = sspec
      /\ \A r \in Emitting : /\ new.sub[r] = submissions[r]
                             /\ new.base[r] = NumTokens(r) + placeholders[r] /\ new.lost[r] = 0
  BY DEF NewBatch, Emitting, Scheduled, Zero
<1> HIDE DEF new
<1>3. \A r \in Emitting : r \in Reqs /\ nsched[r] > 0 /\ Live(r)
  BY <1>1 DEF Emitting, Scheduled, PassInv, BudgetRespected, Scheduling,
     QueueConsistency
<1> PICK k \in Nat : k = Len(queue) + 1
  BY <1>1
<1>4. /\ k \in Nat \ {0} /\ DOMAIN queue = 1 .. Len(queue) /\ DOMAIN queue' = 1 .. k
      /\ DOMAIN queue' = DOMAIN queue \cup {k} /\ k \notin DOMAIN queue
      /\ queue'[k] = new /\ \A i \in DOMAIN queue : queue'[i] = queue[i]
      /\ Head(queue') = queue'[1] /\ 1 \in DOMAIN queue'
  <2>1. new \in Batches
    BY NewBatchType DEF new, Inv
  <2> QED
    BY <1>1, <2>1
<1>5. Tagged'
  <2>1. ASSUME NEW r \in Emitting
        PROVE  /\ r \in Reqs /\ nsched[r] > 0 /\ sspec[r] >= 0
               /\ submissions[r] >= 1 /\ submissions[r] <= submissions[r]
    <3>1. r \in Reqs /\ nsched[r] > 0 /\ Live(r)
      BY <1>3
    <3>2. submissions[r] \in Nat
      BY <3>1 DEF Inv, TypeOK
    <3> QED
      BY <3>1, <3>2 DEF FlightInv, Submitted
  <2> QED
    BY <1>1, <1>2, <1>4, <2>1 DEF FlightInv, Tagged
<1>6. ASSUME NEW r \in Reqs, Live(r)
      PROVE  InFlight(r)' = InFlight(r) \cup (IF r \in Emitting THEN {k} ELSE {})
  <2>1. pc' = "output" /\ 1 \in DOMAIN queue' /\ r \in queue'[1].emit => r \in todo'
    BY <1>1, <1>4, <1>5, <1>6 DEF Tagged, Scheduled
  <2>2. ASSUME NEW i PROVE i \in InFlight(r)' <=>
          /\ i \in DOMAIN queue' /\ r \in queue'[i].emit
          /\ queue'[i].sub[r] = submissions[r]
    BY <1>1, <2>1 DEF InFlight
  <2>3. ASSUME NEW i PROVE i \in InFlight(r) <=>
          /\ i \in DOMAIN queue /\ r \in queue[i].emit
          /\ queue[i].sub[r] = submissions[r]
    BY <1>1 DEF InFlight
  <2> QED
    BY <1>2, <1>4, <2>2, <2>3
<1>7. ASSUME NEW r \in Reqs, Live(r)
      PROVE  /\ \A i : i # k => Due(i, r)' = Due(i, r)
             /\ Due(k, r)' = IF r \in Emitting THEN 1 + sspec[r] ELSE 0
             /\ Due(k, r) = 0
  <2>1. \A i \in InFlight(r) : i \in DOMAIN queue
    BY DEF InFlight
  <2>2. InFlight(r)' = InFlight(r) \cup (IF r \in Emitting THEN {k} ELSE {})
    BY <1>6, <1>7
  <2>3. ASSUME NEW i, i # k PROVE Due(i, r)' = Due(i, r)
    <3>1. i \in InFlight(r)' <=> i \in InFlight(r)
      BY <2>2, <2>3
    <3>2. i \in InFlight(r) => queue'[i] = queue[i]
      BY <1>4, <2>1
    <3> QED
      BY <3>1, <3>2 DEF Due
  <2>4. k \notin InFlight(r)
    BY <1>4, <2>1
  <2>5. k \in InFlight(r)' <=> r \in Emitting
    BY <2>2, <2>4
  <2>6. queue'[k].s = sspec
    BY <1>2, <1>4
  <2> QED
    BY <2>3, <2>4, <2>5, <2>6 DEF Due
<1>8. \A r : NumTokens(r)' = NumTokens(r) /\ MaxTotalTokens(r)' = MaxTotalTokens(r)
  BY <1>1 DEF NumTokens, MaxTotalTokens
<1>9. /\ ~AsyncScheduling => placeholders' = placeholders
      /\ \A r \in Reqs : ~(AsyncScheduling /\ r \in Emitting)
           => placeholders'[r] = placeholders[r]
      /\ AsyncScheduling => \A r \in Emitting :
           placeholders'[r] = placeholders[r] + 1 + sspec[r]
  <2>1. placeholders' = [r \in Reqs |->
          IF AsyncScheduling /\ r \in Emitting
          THEN placeholders[r] + 1 + sspec[r] ELSE placeholders[r]]
    BY DEF Commits
  <2>2. placeholders \in [Reqs -> Int]
    BY DEF Inv, TypeOK
  <2> QED
    BY <1>3, <2>1, <2>2
<1>10. Submitted'
  BY <1>1, <1>3, <1>8, <1>9 DEF FlightInv, Submitted, Zero
<1>11. /\ BatchQueueSize <= 2 => k \in {1, 2} /\ (k = 2 => BatchQueueSize = 2)
       /\ AsyncScheduling => k \in {1, 2}
  <2>1. Len(queue) < BatchQueueSize /\ BatchQueueSize \in Nat
    BY <1>1, CoreAssumption DEF Inv, PassState
  <2> QED
    BY <1>1, <2>1, CoreAssumption
<1>12. Awaited'
  <2>1. ASSUME AsyncScheduling, NEW r \in Reqs, Live(r)
        PROVE  /\ placeholders'[r] <= Owed(r)'
               /\ MaxSubmissions = 1 => placeholders'[r] = Owed(r)'
    <3>1. /\ placeholders[r] \in Int /\ sspec[r] \in Int /\ Due(1, r) \in Int
          /\ Due(2, r) \in Int /\ placeholders[r] <= Owed(r)
          /\ MaxSubmissions = 1 => placeholders[r] = Owed(r)
      <4>1. TypeOK /\ Tagged /\ Awaited /\ placeholders[r] \in Int /\ sspec[r] \in Int
        BY DEF Inv, TypeOK, FlightInv
      <4>2. Due(1, r) \in Nat /\ Due(2, r) \in Nat
        BY <4>1, DueType
      <4> QED
        BY <2>1, <4>1, <4>2 DEF Awaited
    <3>2. Owed(r)' = Owed(r) + (IF r \in Emitting THEN 1 + sspec[r] ELSE 0)
      <4>1. /\ \A i : i # k => Due(i, r)' = Due(i, r)
            /\ Due(k, r)' = IF r \in Emitting THEN 1 + sspec[r] ELSE 0
            /\ Due(k, r) = 0
        BY <1>7, <2>1
      <4>2. CASE k = 1
        <5>1. Due(2, r)' = Due(2, r)
          BY <4>1, <4>2
        <5> QED
          BY <3>1, <4>1, <4>2, <5>1 DEF Owed
      <4>3. CASE k = 2
        <5>1. Due(1, r)' = Due(1, r)
          BY <4>1, <4>3
        <5> QED
          BY <3>1, <4>1, <4>3, <5>1 DEF Owed
      <4> QED
        BY <1>11, <2>1, <4>2, <4>3
    <3>3. placeholders'[r] = placeholders[r] + (IF r \in Emitting THEN 1 + sspec[r] ELSE 0)
      BY <1>9, <2>1, <3>1
    <3>4. Owed(r) \in Int
      BY <3>1 DEF Owed
    <3> QED
      BY <3>1, <3>2, <3>3, <3>4
  <2> QED
    BY <1>1, <1>9, <2>1 DEF FlightInv, Awaited
<1>13. Placed'
  <2> SUFFICES ASSUME InOrder, NEW r \in Reqs, Live(r)
               PROVE  /\ 1 \in InFlight(r)' => queue'[1].base[r] - queue'[1].lost[r] = NumTokens(r)
                      /\ 2 \in InFlight(r)' =>
                           queue'[2].base[r] - queue'[2].lost[r] = NumTokens(r) + Due(1, r)'
    BY <1>1, <1>8 DEF Placed, InOrder
  <2>1. /\ 1 \in InFlight(r) => queue[1].base[r] - queue[1].lost[r] = NumTokens(r)
        /\ 2 \in InFlight(r) => queue[2].base[r] - queue[2].lost[r] = NumTokens(r) + Due(1, r)
        /\ \A i \in InFlight(r) : i \in DOMAIN queue
    BY DEF FlightInv, Placed, InFlight
  <2>2. NumTokens(r) \in Int /\ Due(1, r) \in Int /\ Due(2, r) \in Int
    BY TokensType, DueType DEF Inv, FlightInv
  <2>3. CASE k = 1
    <3>1. Due(1, r) = 0 /\ Due(2, r) = 0 /\ placeholders[r] = 0
      <4>1. DOMAIN queue = {}
        BY <1>1, <1>4, <2>3
      <4>2. Due(1, r) = 0 /\ Due(2, r) = 0
        BY <2>1, <4>1 DEF Due
      <4> QED
        BY <4>2 DEF InOrder, FlightInv, Awaited, Owed
    <3> QED
      BY <1>2, <1>4, <1>6, <2>1, <2>2, <2>3, <3>1
  <2>4. CASE k = 2
    <3>1. Due(2, r) = 0 /\ Due(1, r)' = Due(1, r)
      BY <1>7, <2>4
    <3>2. r \in Emitting => placeholders[r] = Due(1, r)
      <4>1. CASE AsyncScheduling
        BY <2>2, <3>1, <4>1 DEF InOrder, FlightInv, Awaited, Owed
      <4>2. ASSUME ~AsyncScheduling, r \in Emitting PROVE placeholders[r] = Due(1, r)
        <5>1. Pipelined
          BY <1>11, <2>4, <4>2 DEF InOrder, Pipelined
        <5>2. InFlight(r) = {}
          BY <1>3, <4>2, <5>1 DEF Single
        <5>3. Due(1, r) = 0
          BY <5>2 DEF Due
        <5> QED
          BY <4>2, <5>3 DEF FlightInv, Awaited
      <4> QED
        BY <4>1, <4>2
    <3> QED
      BY <1>2, <1>4, <1>6, <2>1, <2>2, <2>4, <3>1, <3>2
  <2> QED
    BY <1>11, <2>3, <2>4 DEF InOrder
<1> QED
  BY <1>5, <1>6, <1>10, <1>12, <1>13 DEF FlightInv

\* What the batches remember when output is applied to request r.
LEMMA MovedQueue ==
  ASSUME TypeOK, NEW r \in Reqs, NEW rejected \in Int,
         queue' = [i \in DOMAIN queue |->
           IF i > 1 /\ r \in queue[i].emit
           THEN [queue[i] EXCEPT !.lost[r] = @ + rejected] ELSE queue[i]]
  PROVE  /\ DOMAIN queue' = DOMAIN queue
         /\ \A i \in DOMAIN queue :
              /\ queue'[i].n = queue[i].n /\ queue'[i].s = queue[i].s
              /\ queue'[i].emit = queue[i].emit /\ queue'[i].sub = queue[i].sub
              /\ queue'[i].mask = queue[i].mask
              /\ \A o \in Reqs : o # r => queue'[i].lost[o] = queue[i].lost[o]
              /\ queue'[i].base = queue[i].base
              /\ i > 1 /\ r \in queue[i].emit => queue'[i].lost[r] = queue[i].lost[r] + rejected
<1>1. DOMAIN queue' = DOMAIN queue
  OBVIOUS
<1>2. ASSUME NEW i \in DOMAIN queue
      PROVE  /\ queue'[i].n = queue[i].n /\ queue'[i].s = queue[i].s
             /\ queue'[i].emit = queue[i].emit /\ queue'[i].sub = queue[i].sub
             /\ queue'[i].mask = queue[i].mask
             /\ \A o \in Reqs : o # r => queue'[i].lost[o] = queue[i].lost[o]
             /\ queue'[i].base = queue[i].base
             /\ i > 1 /\ r \in queue[i].emit => queue'[i].lost[r] = queue[i].lost[r] + rejected
  <2>1. queue[i] \in Batches
    <3>1. queue \in Seq(Batches)
      BY DEF TypeOK
    <3> QED
      BY <3>1
  <2>2. queue[i].lost \in [Reqs -> Int]
    BY <2>1 DEF Batches
  <2>3. CASE i > 1 /\ r \in queue[i].emit
    <3>1. queue'[i] = [queue[i] EXCEPT !.lost = [queue[i].lost EXCEPT ![r] = @ + rejected]]
      BY <2>3
    <3>2. /\ queue'[i].n = queue[i].n /\ queue'[i].s = queue[i].s
          /\ queue'[i].emit = queue[i].emit /\ queue'[i].sub = queue[i].sub
          /\ queue'[i].mask = queue[i].mask
          /\ queue'[i].base = queue[i].base
          /\ queue'[i].lost = [queue[i].lost EXCEPT ![r] = @ + rejected]
      BY <2>1, <3>1 DEF Batches
    <3> QED
      BY <2>2, <3>2
  <2>4. CASE ~(i > 1 /\ r \in queue[i].emit)
    BY <2>4
  <2> QED
    BY <2>3, <2>4
<1> QED
  BY <1>1, <1>2

\* Output that does not stop its request: all of it that was accepted is
\* appended, which leaves room below the limit.
LEMMA GoesOn ==
  ASSUME Inv, NEW r \in Reqs, pc = "output",
         NEW accepted \in Nat, NEW kept \in Nat, NEW stopped \in BOOLEAN,
         UpdateFromOutput(r, accepted, kept, stopped), ~Finish(r)
  PROVE  /\ kept = accepted + 1 /\ NumTokens(r) + kept < MaxTotalTokens(r)
         /\ out' = [out EXCEPT ![r] = out[r] + kept]
         /\ placeholders' = [placeholders EXCEPT ![r] =
              PlaceholdersAfter(r, Rejected(Head(queue), r, accepted), kept)]
         /\ status' = status /\ submissions' = submissions
<1>1. /\ ~stopped
      /\ kept < MinOf(accepted + 1, MaxTotalTokens(r) - NumTokens(r)) => stopped
      /\ kept = MaxTotalTokens(r) - NumTokens(r) => stopped
      /\ kept \in 1 .. MinOf(accepted + 1, MaxTotalTokens(r) - NumTokens(r))
      /\ out' = [out EXCEPT ![r] = @ + kept]
      /\ placeholders' = [placeholders EXCEPT ![r] =
              PlaceholdersAfter(r, Rejected(Head(queue), r, accepted), kept)]
      /\ status' = status /\ submissions' = submissions
  BY DEF UpdateFromOutput
<1>2. NumTokens(r) \in Int /\ MaxTotalTokens(r) \in Int
  BY TokensType DEF Inv
<1>3. kept = accepted + 1 /\ NumTokens(r) + kept < MaxTotalTokens(r)
  <2>1. PICK left \in Int : left = MaxTotalTokens(r) - NumTokens(r)
    BY <1>2
  <2>2. /\ ~(kept < MinOf(accepted + 1, left)) /\ kept # left
        /\ kept \in 1 .. MinOf(accepted + 1, left)
    BY <1>1, <2>1
  <2>3. kept = accepted + 1 /\ kept < left
    BY <2>2 DEF MinOf
  <2> QED
    BY <1>2, <2>1, <2>3
<1>4. out' = [out EXCEPT ![r] = out[r] + kept]
  BY <1>1 DEF Inv, TypeOK
<1> QED
  BY <1>1, <1>3, <1>4

\* The placeholders of r after an output that brings 1 + s tokens less the
\* rejected ones: never more than is owed after it.
LEMMA AfterOutput ==
  ASSUME TypeOK, NEW r \in Reqs, NEW s \in Nat, NEW accepted \in 0 .. s,
         NEW later \in Nat
  PROVE  LET ph == PlaceholdersAfter(r, s - accepted, accepted + 1) IN
         /\ ph <= placeholders[r]
         /\ AsyncScheduling /\ placeholders[r] <= later + 1 + s => ph <= later
         /\ AsyncScheduling /\ placeholders[r] = later + 1 + s => ph = later
         /\ ~AsyncScheduling /\ placeholders[r] = 0 => ph = 0
<1>1. placeholders[r] \in Int /\ accepted \in Nat /\ s - accepted \in Nat
  BY DEF TypeOK
<1> DEFINE p == IF placeholders[r] > 0 THEN placeholders[r] - (s - accepted)
                                       ELSE placeholders[r]
<1>2. p \in Int /\ p <= placeholders[r]
  BY <1>1
<1>3. PlaceholdersAfter(r, s - accepted, accepted + 1)
        = IF AsyncScheduling /\ (Chunked \/ p > 0) THEN p - (accepted + 1) ELSE p
  BY DEF PlaceholdersAfter
<1>4. AsyncScheduling \in BOOLEAN /\ Chunked \in BOOLEAN
  BY CoreAssumption
<1> HIDE DEF p
<1>5. CASE AsyncScheduling
  BY <1>1, <1>2, <1>3, <1>4, <1>5 DEF p
<1>6. CASE ~AsyncScheduling
  BY <1>1, <1>2, <1>3, <1>4, <1>6 DEF p
<1> QED
  BY <1>5, <1>6

\* What an output leaves of request o in flight: all, or all but what it
\* brought to the request.
Applied(o) ==
  Live(o)' =>
    /\ Live(o) /\ \A i \in InFlight(o) : queue'[i].mask = queue[i].mask
    /\ \/ InFlight(o)' = InFlight(o) /\ out'[o] = out[o]
       \/ InFlight(o)' = InFlight(o) \ {1} /\ (MaxSubmissions = 1 => 1 \in InFlight(o))

\* One turn of update_from_output.
LEMMA UpdateFlight ==
  ASSUME Inv, LifeInv, FlightInv, pc = "output", NEW r \in todo,
         NEW accepted \in Nat, NEW kept \in Nat, NEW stopped \in BOOLEAN,
         UpdateFromOutput(r, accepted, kept, stopped),
         todo' = todo \ {r}, UNCHANGED <<localVars, pc>>
  PROVE  /\ FlightInv'
         /\ \A o \in Reqs : Applied(o)
<1> DEFINE b == Head(queue)
           rejected == Rejected(b, r, accepted)
<1>1. /\ TypeOK /\ r \in Reqs /\ Live(r) /\ sspec' = sspec
      /\ queue # <<>> /\ 1 \in DOMAIN queue /\ b = queue[1]
  <2>1. queue \in Seq(Batches) /\ queue # <<>>
    BY DEF Inv, TypeOK, BatchQueueBounded
  <2>2. 1 \in DOMAIN queue /\ b = queue[1]
    BY <2>1
  <2> QED
    BY <2>1, <2>2 DEF Inv, TypeOK, LifeInv, localVars
<1>2. r \in queue[1].emit /\ accepted \in 0 .. queue[1].s[r] /\ queue[1].s[r] \in Nat
  <2>1. r \in queue[1].emit /\ accepted \in 0 .. queue[1].s[r]
    BY <1>1 DEF UpdateFromOutput
  <2>2. queue[1] \in Batches
    BY <1>1 DEF TypeOK
  <2>3. queue[1].s[r] \in Int /\ queue[1].s[r] >= 0
    BY <1>1, <2>1, <2>2 DEF Batches, FlightInv, Tagged
  <2> QED
    BY <2>1, <2>3
<1>3. rejected = queue[1].s[r] - accepted /\ rejected \in Int
  BY <1>1, <1>2 DEF Rejected
<1>4. /\ DOMAIN queue' = DOMAIN queue
      /\ \A i \in DOMAIN queue :
           /\ queue'[i].n = queue[i].n /\ queue'[i].s = queue[i].s
           /\ queue'[i].emit = queue[i].emit /\ queue'[i].sub = queue[i].sub
           /\ queue'[i].mask = queue[i].mask
           /\ \A o \in Reqs : o # r => queue'[i].lost[o] = queue[i].lost[o]
           /\ queue'[i].base = queue[i].base
           /\ i > 1 /\ r \in queue[i].emit => queue'[i].lost[r] = queue[i].lost[r] + rejected
  <2>1. queue' = [i \in DOMAIN queue |->
           IF i > 1 /\ r \in queue[i].emit
           THEN [queue[i] EXCEPT !.lost[r] = @ + rejected] ELSE queue[i]]
    BY DEF UpdateFromOutput
  <2> HIDE DEF rejected
  <2> QED
    BY <1>1, <1>3, <2>1, MovedQueue
<1>5. submissions' = submissions
  BY DEF UpdateFromOutput, Finish
<1>6. \A o \in Reqs : o # r => InFlight(o)' = InFlight(o)
  BY <1>1, <1>4, <1>5 DEF InFlight
<1>7. CASE Finish(r)
  <2>1. /\ ~Live(r)'
        /\ \A o \in Reqs : o # r => out'[o] = out[o] /\ status'[o] = status[o]
    BY <1>1, <1>7 DEF Finish, TypeOK
  <2>2. \A o \in Reqs : Applied(o)
    BY <1>4, <1>6, <2>1 DEF Applied, InFlight
  <2> QED
    BY <1>1, <1>4, <1>6, <1>7, <2>2, FinishFlight
<1>8. CASE ~Finish(r)
  <2>1. /\ kept = accepted + 1 /\ NumTokens(r) + kept < MaxTotalTokens(r)
        /\ out' = [out EXCEPT ![r] = out[r] + kept]
        /\ placeholders' = [placeholders EXCEPT ![r] =
             PlaceholdersAfter(r, rejected, kept)]
        /\ status' = status
    BY <1>1, <1>8, GoesOn
  <2>2. /\ \A o \in Reqs : o # r => out'[o] = out[o] /\ placeholders'[o] = placeholders[o]
        /\ out'[r] = out[r] + kept /\ placeholders'[r] = PlaceholdersAfter(r, rejected, kept)
    BY <1>1, <2>1 DEF TypeOK
  <2>3. /\ InFlight(r)' = InFlight(r) \ {1}
        /\ 1 \in InFlight(r) <=> queue[1].sub[r] = submissions[r]
    BY <1>1, <1>2, <1>4, <1>5 DEF InFlight
  <2>4. \A i : /\ \A o \in Reqs : o # r => Due(i, o)' = Due(i, o)
               /\ i # 1 => Due(i, r)' = Due(i, r)
    <3> SUFFICES ASSUME NEW i, NEW o \in Reqs, o # r \/ i # 1
                 PROVE  Due(i, o)' = Due(i, o)
      BY <1>1
    <3>1. i \in InFlight(o)' <=> i \in InFlight(o)
      BY <1>6, <2>3
    <3>2. i \in InFlight(o) => queue'[i].s = queue[i].s
      BY <1>4 DEF InFlight
    <3> QED
      BY <3>1, <3>2 DEF Due
  <2>5. Due(1, r)' = 0 /\ Due(1, r) \in Nat /\ Due(2, r) \in Nat
        /\ (1 \in InFlight(r) => Due(1, r) = 1 + queue[1].s[r])
        /\ (1 \notin InFlight(r) => Due(1, r) = 0)
    BY <1>1, <2>3, DueType DEF Due, FlightInv
  <2>6. MaxSubmissions = 1 => 1 \in InFlight(r)
    <3>1. /\ queue[1].sub[r] >= 1 /\ queue[1].sub[r] <= submissions[r]
          /\ submissions[r] <= MaxSubmissions
      BY <1>1, <1>2 DEF FlightInv, Tagged, Submitted
    <3>2. queue[1] \in Batches
      BY <1>1 DEF TypeOK
    <3>3. queue[1].sub[r] \in Nat /\ submissions[r] \in Nat
      BY <1>1, <3>2 DEF TypeOK, Batches
    <3> QED
      BY <2>3, <3>1, <3>3
  <2>7. /\ \A o \in Reqs : /\ MaxTotalTokens(o)' = MaxTotalTokens(o)
                            /\ o # r => NumTokens(o)' = NumTokens(o)
        /\ NumTokens(r)' = NumTokens(r) + kept /\ NumTokens(r) \in Int
    <3>1. out[r] \in Nat /\ Prompt[r] \in Nat
      BY <1>1, CoreAssumption DEF TypeOK
    <3> QED
      BY <1>1, <2>2, <3>1 DEF NumTokens, MaxTotalTokens
  <2>8. Submitted'
    BY <1>1, <1>5, <2>1, <2>2, <2>7 DEF FlightInv, Submitted
  <2>9. Tagged'
    BY <1>4, <1>5 DEF FlightInv, Tagged
  <2>10. LET ph == PlaceholdersAfter(r, rejected, kept)
             later == Due(2, r) IN
         /\ ph <= placeholders[r]
         /\ AsyncScheduling /\ placeholders[r] <= later + 1 + queue[1].s[r] => ph <= later
         /\ AsyncScheduling /\ placeholders[r] = later + 1 + queue[1].s[r] => ph = later
         /\ ~AsyncScheduling /\ placeholders[r] = 0 => ph = 0
    <3> HIDE DEF rejected
    <3>1. PlaceholdersAfter(r, rejected, kept)
            = PlaceholdersAfter(r, queue[1].s[r] - accepted, accepted + 1)
      BY <1>3, <2>1
    <3>2. TypeOK /\ r \in Reqs /\ queue[1].s[r] \in Nat /\ Due(2, r) \in Nat
          /\ accepted \in 0 .. queue[1].s[r]
      BY <1>1, <1>2, <2>5 DEF Inv
    <3> QED
      BY <3>1, <3>2, AfterOutput
  <2>11. Awaited'
    <3>1. ~AsyncScheduling => \A o \in Reqs : placeholders'[o] = 0
      BY <1>1, <2>2, <2>10 DEF FlightInv, Awaited
    <3>2. ASSUME AsyncScheduling, NEW o \in Reqs, Live(o)'
          PROVE  /\ placeholders'[o] <= Owed(o)'
                 /\ MaxSubmissions = 1 => placeholders'[o] = Owed(o)'
      <4>1. Live(o) /\ placeholders[o] <= Owed(o)
            /\ (MaxSubmissions = 1 => placeholders[o] = Owed(o))
        BY <2>1, <3>2 DEF FlightInv, Awaited
      <4>2. CASE o # r
        BY <2>2, <2>4, <4>1, <4>2 DEF Owed
      <4>3. CASE o = r
        <5>1. Due(2, r)' = Due(2, r)
          BY <2>4
        <5>2. Owed(r)' = Due(2, r)
          BY <2>5, <5>1 DEF Owed
        <5>3. placeholders'[r] \in Int /\ placeholders[r] \in Int
          <6>1. TypeOK /\ TypeOK' /\ r \in Reqs
            <7>1. r \in Reqs /\ accepted \in Nat /\ kept \in Nat /\ stopped \in BOOLEAN
              BY <1>1
            <7>2. todo' \subseteq Reqs /\ UNCHANGED <<localVars, pc>>
              BY <1>1 DEF TypeOK
            <7>3. Inv'
              BY <7>1, <7>2, UpdateInv
            <7> QED
              BY <1>1, <7>3 DEF Inv
          <6> QED
            BY <6>1 DEF TypeOK
        <5>4. placeholders'[r] <= Due(2, r)
          <6>1. CASE 1 \in InFlight(r)
            <7>1. placeholders[r] <= Due(2, r) + 1 + queue[1].s[r]
              BY <1>2, <2>5, <4>1, <4>3, <6>1 DEF Owed
            <7> QED
              BY <2>2, <2>10, <3>2, <7>1
          <6>2. CASE 1 \notin InFlight(r)
            <7>1. placeholders[r] <= Due(2, r)
              BY <2>5, <4>1, <4>3, <6>2 DEF Owed
            <7>2. placeholders'[r] <= placeholders[r]
              BY <2>2, <2>10
            <7> QED
              BY <2>5, <5>3, <7>1, <7>2
          <6> QED
            BY <6>1, <6>2
        <5>5. MaxSubmissions = 1 => placeholders'[r] = Due(2, r)
          <6> SUFFICES ASSUME MaxSubmissions = 1 PROVE placeholders'[r] = Due(2, r)
            OBVIOUS
          <6>1. placeholders[r] = Due(2, r) + 1 + queue[1].s[r]
            BY <1>2, <2>5, <2>6, <4>1, <4>3 DEF Owed
          <6> QED
            BY <2>2, <2>10, <3>2, <6>1
        <5> QED
          BY <4>3, <5>2, <5>4, <5>5
      <4> QED
        BY <4>2, <4>3
    <3> QED
      BY <3>1, <3>2 DEF Awaited
  <2>12. Placed'
    <3> SUFFICES ASSUME InOrder, NEW o \in Reqs, Live(o)
                 PROVE  /\ 1 \in InFlight(o)' => queue'[1].base[o] - queue'[1].lost[o] = NumTokens(o)'
                        /\ 2 \in InFlight(o)' =>
                             queue'[2].base[o] - queue'[2].lost[o] = NumTokens(o)' + Due(1, o)'
      BY <2>1 DEF Placed, InOrder
    <3>1. CASE o # r
      <4>1. \A i \in InFlight(o) : i \in DOMAIN queue
        BY DEF InFlight
      <4> QED
        BY <1>4, <1>6, <2>4, <2>7, <3>1, <4>1 DEF FlightInv, Placed
    <3>2. CASE o = r
      <4>1. 1 \notin InFlight(r)' /\ 1 \in InFlight(r)
        BY <2>3, <2>6 DEF InOrder
      <4>2. ASSUME 2 \in InFlight(r)'
            PROVE  queue'[2].base[r] - queue'[2].lost[r] = NumTokens(r)' + Due(1, r)'
        <5>1. 2 \in InFlight(r) /\ 2 \in DOMAIN queue /\ r \in queue[2].emit
          BY <2>3, <4>2 DEF InFlight
        <5>2. queue[2].base[r] - queue[2].lost[r] = NumTokens(r) + Due(1, r)
          BY <1>1, <5>1 DEF FlightInv, Placed
        <5>3. /\ queue'[2].base[r] = queue[2].base[r]
              /\ queue'[2].lost[r] = queue[2].lost[r] + rejected
          BY <1>4, <5>1
        <5>4. queue[2].base[r] \in Int /\ queue[2].lost[r] \in Int
          <6>1. queue \in Seq(Batches)
            BY <1>1 DEF TypeOK
          <6>2. queue[2] \in Batches
            BY <5>1, <6>1
          <6>3. queue[2].base \in [Reqs -> Int] /\ queue[2].lost \in [Reqs -> Int]
            BY <6>2 DEF Batches
          <6>4. r \in Reqs
            BY <1>1
          <6> QED
            BY <6>3, <6>4
        <5>5. PICK was \in Int, gone \in Int : was = queue[2].base[r] /\ gone = queue[2].lost[r]
          BY <5>4
        <5>6. was - (gone + rejected) = (was - gone) - rejected
          BY <1>3, <5>5
        <5> QED
          BY <1>2, <1>3, <2>1, <2>5, <2>7, <4>1, <5>2, <5>3, <5>5, <5>6
      <4> QED
        BY <3>2, <4>1, <4>2
    <3> QED
      BY <3>1, <3>2
  <2>13. \A o \in Reqs : Applied(o)
    <3>1. \A o \in Reqs : \A i \in InFlight(o) : queue'[i].mask = queue[i].mask
      BY <1>4 DEF InFlight
    <3> QED
      BY <1>6, <2>1, <2>2, <2>3, <2>6, <3>1 DEF Applied
  <2> QED
    BY <2>8, <2>9, <2>11, <2>12, <2>13 DEF FlightInv
<1> QED
  BY <1>7, <1>8
\* The output of a request, sampled or not.
LEMMA OutputFlight ==
  ASSUME Inv, LifeInv, FlightInv, OutputStep
  PROVE  FlightInv' /\ \A o \in Reqs : Applied(o)
<1>1. /\ pc = "output" /\ todo # {} /\ todo \subseteq Reqs /\ UNCHANGED <<localVars, pc>>
      /\ \E q \in todo : q = CHOOSE r \in todo : TRUE
  BY DEF OutputStep, Inv, TypeOK
<1>2. PICK q \in todo : q = CHOOSE r \in todo : TRUE
  BY <1>1
<1>3. /\ todo' = todo \ {q}
      /\ \/ \E accepted \in 0 .. NumSpecTokens, kept \in 1 .. NumSpecTokens + 1,
              stopped \in BOOLEAN : UpdateFromOutput(q, accepted, kept, stopped)
         \/ /\ q \notin Head(queue).emit
            /\ UNCHANGED <<reqVars, blockVars, queueVars, queue>>
  BY <1>2 DEF OutputStep
<1>4. CASE \E accepted \in 0 .. NumSpecTokens, kept \in 1 .. NumSpecTokens + 1,
              stopped \in BOOLEAN : UpdateFromOutput(q, accepted, kept, stopped)
  <2>1. PICK accepted \in 0 .. NumSpecTokens, kept \in 1 .. NumSpecTokens + 1,
             stopped \in BOOLEAN : UpdateFromOutput(q, accepted, kept, stopped)
    BY <1>4
  <2>2. NumSpecTokens \in Nat
    BY CoreAssumption
  <2>3. accepted \in Nat /\ kept \in Nat
    BY <2>2
  <2> QED
    BY <1>1, <1>3, <2>1, <2>3, UpdateFlight
<1>5. CASE q \notin Head(queue).emit /\ UNCHANGED <<reqVars, blockVars, queueVars, queue>>
  <2>1. UNCHANGED <<queue, submissions, out, placeholders, status, sspec, pc>>
    BY <1>1, <1>5 DEF reqVars, localVars
  <2>2. q \notin queue[1].emit
    <3>1. queue \in Seq(Batches) /\ queue # <<>>
      BY <1>1 DEF Inv, TypeOK, BatchQueueBounded
    <3> QED
      BY <1>5, <3>1
  <2>3. \A r : InFlight(r)' = InFlight(r)
    BY <1>3, <2>1, <2>2 DEF InFlight
  <2>4. \A i, r : Due(i, r)' = Due(i, r)
    BY <2>1, <2>3 DEF Due
  <2>5. \A r : /\ NumTokens(r)' = NumTokens(r) /\ MaxTotalTokens(r)' = MaxTotalTokens(r)
               /\ Owed(r)' = Owed(r)
    BY <2>1, <2>4 DEF NumTokens, MaxTotalTokens, Owed
  <2>6. Submitted'
    BY <2>1, <2>5 DEF FlightInv, Submitted
  <2>7. Tagged'
    BY <2>1 DEF FlightInv, Tagged
  <2>8. Awaited'
    BY <2>1, <2>5 DEF FlightInv, Awaited
  <2>9. Placed'
    BY <2>1, <2>3, <2>4, <2>5 DEF FlightInv, Placed
  <2>10. \A o \in Reqs : Applied(o)
    BY <2>1, <2>3 DEF Applied
  <2> QED
    BY <2>6, <2>7, <2>8, <2>9, <2>10 DEF FlightInv
<1> QED
  BY <1>3, <1>4, <1>5

\* No step of schedule() before its end concerns the batches in flight.
LEMMA PassFlight ==
  ASSUME Inv, QueueConsistency, FlightInv, PassStep
  PROVE  FlightInv'
<1>1. /\ UNCHANGED <<queue, submissions, out, placeholders, todo>>
      /\ pc # "output" /\ pc' # "output"
  BY DEF PassStep, Begins, PutsBack, PassesOver, Picks, ScheduleRunning,
     LeavesRunning, Skips, Preempt, Admits, reqVars
<1>2. \A r \in Reqs : sspec[r] \in Int /\ sspec[r] >= 0
  BY DEF FlightInv, Submitted, Inv, TypeOK
<1>3. CASE Begins \/ PutsBack \/ PassesOver \/ Picks \/ LeavesRunning
           \/ \E r \in Reqs : Skips(r)
  <2>1. status' = status /\ sspec' = sspec
    BY <1>3 DEF Begins, PutsBack, PassesOver, Picks, LeavesRunning, Skips,
       reqVars, localVars
  <2> QED
    BY <1>1, <1>2, <2>1, SameFlight
<1>4. CASE ScheduleRunning
  <2>1. cur \in Reqs /\ status' = status
    BY <1>4 DEF ScheduleRunning, Inv, PassState
  <2>2. \E n \in Nat : sspec' = [sspec EXCEPT ![cur] = n]
    <3>1. /\ num \in Int /\ computed[cur] \in Int /\ placeholders[cur] \in Int
          /\ spec[cur] \in Nat /\ NumTokens(cur) \in Int
      <4>1. TypeOK /\ NumTokens(cur) \in Int
        BY <2>1, TokensType DEF Inv
      <4> QED
        BY <2>1, <4>1 DEF TypeOK
    <3>2. PICK extra \in Int :
            extra = num + computed[cur] - NumTokens(cur) - placeholders[cur]
      BY <3>1
    <3>3. sspec' = [sspec EXCEPT ![cur] =
            IF spec[cur] > 0 /\ extra > 0 THEN MinOf(extra, spec[cur]) ELSE 0]
      BY <1>4, <3>2 DEF ScheduleRunning
    <3>4. (IF spec[cur] > 0 /\ extra > 0 THEN MinOf(extra, spec[cur]) ELSE 0) \in Nat
      BY <3>1 DEF MinOf
    <3> QED
      BY <3>3, <3>4
  <2>3. \A r \in Reqs : sspec'[r] >= 0
    <3>1. sspec \in [Reqs -> Int]
      BY DEF Inv, TypeOK
    <3> QED
      BY <1>2, <2>1, <2>2, <3>1
  <2> QED
    BY <1>1, <2>1, <2>3, SameFlight
<1>5. ASSUME NEW v \in Reqs, Preempt(v) PROVE FlightInv'
  <2>1. /\ status' = [status EXCEPT ![v] = "preempted"]
        /\ sspec' = sspec \/ sspec' = [sspec EXCEPT ![v] = 0]
    BY <1>5 DEF Preempt
  <2>2. status[v] = "running"
    BY <1>5 DEF Preempt, IsVictim, QueueConsistency
  <2>3. \A r \in Reqs : (Live(r)' <=> Live(r)) /\ sspec'[r] >= 0
    <3>1. status \in [Reqs -> Statuses] /\ sspec \in [Reqs -> Int]
      BY DEF Inv, TypeOK
    <3>2. \A r \in Reqs : Live(r)' <=> Live(r)
      BY <2>1, <2>2, <3>1
    <3>3. \A r \in Reqs : sspec'[r] >= 0
      BY <1>2, <2>1, <3>1
    <3> QED
      BY <3>2, <3>3
  <2> QED
    BY <1>1, <2>3, SameFlight
<1>6. ASSUME NEW r \in Reqs, NEW n \in Int, Admits(r, n) PROVE FlightInv'
  <2>1. status' = [status EXCEPT ![r] = "running"] /\ sspec' = sspec
    BY <1>6 DEF Admits
  <2>2. Live(r)
    BY <1>6 DEF Admits, QueueConsistency
  <2>3. \A o \in Reqs : (Live(o)' <=> Live(o)) /\ sspec'[o] >= 0
    BY <1>2, <2>1, <2>2 DEF Inv, TypeOK
  <2> QED
    BY <1>1, <2>3, SameFlight
<1> QED
  BY <1>3, <1>4, <1>5, <1>6 DEF PassStep

\* Every step keeps the account of the batches in flight.
LEMMA StepFlight ==
  ASSUME Inv, QueueConsistency, PassInv, LifeInv, FlightInv, Pipelined => Single,
         CoreNext
  PROVE  FlightInv'
<1>1. TypeOK /\ \A r \in Reqs : sspec[r] >= 0
  BY DEF Inv, FlightInv, Submitted
<1>2. CASE ClientStep
  <2>1. ASSUME NEW r \in Reqs, Abort(r) PROVE FlightInv'
    <3>1. Finish(r) /\ sspec' = sspec /\ UNCHANGED <<pc, todo, queue>>
          /\ submissions' = submissions
      BY <2>1 DEF Abort, Finish, localVars
    <3>2. \A o : InFlight(o)' = InFlight(o)
      BY <3>1 DEF InFlight
    <3> QED
      BY <1>1, <3>1, <3>2, FinishFlight
  <2> QED
    BY <1>1, <1>2, <2>1, AddRequestFlight DEF ClientStep
<1>3. CASE (\E r \in Reqs : GrammarReady(r)) \/ UNCHANGED vars
  <2>1. UNCHANGED <<queue, submissions, out, placeholders, todo, pc, status, sspec>>
    BY <1>3 DEF GrammarReady, vars, reqVars, localVars
  <2> QED
    BY <1>1, <2>1, SameFlight
<1> QED
  BY <1>1, <1>2, <1>3, PassFlight, CommitsFlight, DrainFlight, OutputFlight,
     PopsFlight DEF CoreNext

\* A sum over at most two batches.
LEMMA TotalOfTwo ==
  ASSUME NEW s, s \subseteq {1, 2}, IsFiniteSet(s), NEW f, \A y \in s : f[y] \in Int
  PROVE  Total(f, s) = (IF 1 \in s THEN f[1] ELSE 0) + (IF 2 \in s THEN f[2] ELSE 0)
<1> DEFINE t == s \ {1}
           u == t \ {2}
<1>1. /\ IsFiniteSet(t) /\ (\A y \in t : f[y] \in Int) /\ u = {}
      /\ (2 \in t <=> 2 \in s) /\ (1 \notin s => t = s) /\ (2 \notin t => u = t)
  BY FS_Subset
<1>2. 1 \in s => Total(f, t) \in Int /\ Total(f, s) = f[1] + Total(f, t)
  BY TotalSplit
<1> HIDE DEF t
<1>3. 2 \in t => Total(f, u) \in Int /\ Total(f, t) = f[2] + Total(f, u)
  BY <1>1, TotalSplit
<1> HIDE DEF u
<1>4. Total(f, u) = 0
  BY <1>1, TotalEmpty
<1>5. /\ 2 \in t => Total(f, t) = f[2] /\ f[2] \in Int
      /\ 2 \notin t => Total(f, t) = 0
  <2>1. ASSUME 2 \in t PROVE Total(f, t) = f[2] /\ f[2] \in Int
    <3>1. f[2] \in Int
      BY <1>1, <2>1
    <3>2. Total(f, t) = f[2] + Total(f, u)
      BY <1>3, <2>1
    <3> QED
      BY <1>4, <3>1, <3>2
  <2>2. ASSUME 2 \notin t PROVE Total(f, t) = 0
    <3>1. u = t
      BY <1>1, <2>2
    <3> QED
      BY <1>4, <3>1, Zenon
  <2> QED
    BY <2>1, <2>2
<1>6. 1 \notin s => Total(f, s) = Total(f, t)
  BY <1>1
<1> QED
  BY <1>1, <1>2, <1>5, <1>6

\* What is owed is what num_output_placeholders is meant to count.
LEMMA OwedIsSum ==
  ASSUME Inv, FlightInv, AsyncScheduling, NEW r \in Reqs
  PROVE  Sum([i \in InFlight(r) |-> 1 + queue[i].s[r]]) = Owed(r)
<1> DEFINE f == [i \in InFlight(r) |-> 1 + queue[i].s[r]]
<1>1. TypeOK /\ Tagged /\ queue \in Seq(Batches) /\ Len(queue) <= 2
  BY CoreAssumption DEF Inv, FlightInv, BatchQueueBounded, TypeOK
<1>2. InFlight(r) \subseteq {1, 2}
  <2>1. DOMAIN queue = 1 .. Len(queue) /\ Len(queue) \in Nat
    BY <1>1
  <2>2. \A i \in DOMAIN queue : i \in {1, 2}
    BY <1>1, <2>1
  <2> QED
    BY <2>2 DEF InFlight
<1>3. \A i \in InFlight(r) : f[i] = Due(i, r) /\ f[i] \in Int
  BY <1>1, DueType DEF Due
<1>4. f \in [InFlight(r) -> Int] /\ DOMAIN f = InFlight(r)
  BY <1>3
<1>5. IsFiniteSet(InFlight(r))
  BY <1>2, FS_Interval, FS_Subset, 1 .. 2 = {1, 2}
<1>6. Sum(f) = Total(f, InFlight(r))
  BY <1>4, <1>5, SumIsTotal
<1> HIDE DEF f
<1>7. \A i \in InFlight(r) : f[i] \in Int
  BY <1>3
<1>8. Total(f, InFlight(r)) = (IF 1 \in InFlight(r) THEN f[1] ELSE 0)
                              + (IF 2 \in InFlight(r) THEN f[2] ELSE 0)
  BY <1>2, <1>5, <1>7, TotalOfTwo
<1>9. \A i : i \notin InFlight(r) => Due(i, r) = 0
  BY DEF Due
<1>10. Total(f, InFlight(r)) = Owed(r)
  BY <1>3, <1>8, <1>9 DEF Owed
<1> QED
  BY <1>6, <1>10 DEF f
-----------------------------------------------------------------------------
(* The slots of a batch.                                                    *)

\* What is scheduled has its slots, and ends within the model length.
Covered ==
  Scheduling =>
    /\ \A r \in Scheduled(nsched) : /\ computed[r] + nsched[r] <= held[r] * BlockSize
                                    /\ computed[r] + nsched[r] <= MaxModelLen
    /\ pc = "alloc" => computed[cur] + num <= MaxModelLen

\* Whole blocks for x tokens have room for x tokens.
LEMMA RoundUp ==
  ASSUME NEW x \in Int, NEW b \in Nat \ {0}
  PROVE  ((x + b - 1) \div b) \in Int /\ x <= ((x + b - 1) \div b) * b
<1> DEFINE y == x + b - 1
           q == y \div b
           m == y % b
<1>1. q \in Int /\ m \in 0 .. b - 1 /\ x + b - 1 = b * q + m
  OBVIOUS
<1> HIDE DEF q, m
<1>2. b * q = q * b /\ q * b \in Int
  BY <1>1
<1>3. x <= q * b
  BY <1>1, <1>2
<1> QED
  BY <1>1, <1>3 DEF q

\* More blocks, more slots.
LEMMA MoreBlocks ==
  ASSUME NEW h \in Int, NEW k \in Int, h <= k, NEW b \in Nat
  PROVE  h * b <= k * b /\ h * b \in Int /\ k * b \in Int
OBVIOUS

\* allocate_slots leaves the request with slots for all it asked for, and
\* takes none from others.
LEMMA AllocateCovers ==
  ASSUME TypeOK, NEW r \in Reqs, NEW n \in Int, NEW lookahead \in Nat,
         AllocateSlots(r, n, lookahead), computed[r] + n <= MaxModelLen
  PROVE  /\ computed[r] + n <= held'[r] * BlockSize
         /\ \A o \in Reqs : o # r => held'[o] = held[o]
<1>1. /\ held \in [Reqs -> Nat] /\ held[r] \in Nat /\ computed[r] \in Int
      /\ FixedWindow \in Nat /\ MaxModelLen \in Nat /\ BlockSize \in Nat \ {0}
  BY CoreAssumption DEF TypeOK
<1>2. PICK x \in Int : /\ x = MinOf(computed[r] + n + lookahead + FixedWindow, MaxModelLen)
                       /\ computed[r] + n <= x
  BY <1>1 DEF MinOf
<1>3. PICK k \in Int : k = BlocksFor(r, n, lookahead) /\ x <= k * BlockSize
  BY <1>1, <1>2, RoundUp DEF BlocksFor
<1>4. /\ held'[r] = held[r] + NewBlocks(r, n, lookahead)
      /\ \A o \in Reqs : o # r => held'[o] = held[o]
  BY <1>1 DEF AllocateSlots
<1>5. held'[r] \in Int /\ k <= held'[r]
  BY <1>1, <1>3, <1>4 DEF NewBlocks
<1>6. k * BlockSize <= held'[r] * BlockSize
      /\ k * BlockSize \in Int /\ held'[r] * BlockSize \in Int
  BY <1>1, <1>3, <1>5, MoreBlocks
<1> QED
  BY <1>1, <1>2, <1>3, <1>4, <1>6

\* A request gets its tokens and slots for them.
LEMMA GivenCovers ==
  ASSUME TypeOK, Covered, Scheduling, NEW r \in Reqs, NEW n \in Int,
         NEW lookahead \in Nat, AllocateSlots(r, n, lookahead),
         computed[r] + n <= MaxModelLen, computed' = computed,
         nsched' = [nsched EXCEPT ![r] = n], pc' # "alloc"
  PROVE  Covered'
<1>1. /\ computed[r] + n <= held'[r] * BlockSize
      /\ \A o \in Reqs : o # r => held'[o] = held[o]
  BY AllocateCovers
<1>2. nsched'[r] = n /\ \A o \in Reqs : o # r => nsched'[o] = nsched[o]
  BY DEF TypeOK
<1> QED
  BY <1>1, <1>2 DEF Covered, Scheduled

\* Every step keeps the batch within its slots.
LEMMA StepCovered ==
  ASSUME Inv, QueueConsistency, PassInv, Covered, DraftsFit, CoreNext
  PROVE  Covered'
<1>1. TypeOK /\ NumSpecTokens \in Nat
  BY CoreAssumption DEF Inv
<1>2. CASE Begins
  <2>1. nsched' = Zero /\ pc' # "alloc"
    BY <1>2 DEF Begins, Inv, PassState
  <2>2. Scheduled(nsched)' = {}
    BY <2>1 DEF Scheduled, Zero
  <2> QED
    BY <2>1, <2>2 DEF Covered
<1>3. CASE PutsBack \/ PassesOver \/ LeavesRunning \/ (\E r \in Reqs : Skips(r))
           \/ (\E r \in Reqs : GrammarReady(r)) \/ UNCHANGED vars
  <2>1. UNCHANGED <<computed, nsched, held, cur, num>>
    BY <1>3 DEF PutsBack, PassesOver, LeavesRunning, Skips, GrammarReady, vars,
       reqVars, localVars, blockVars
  <2>2. Scheduling' => Scheduling /\ (pc' = "alloc" => pc = "alloc")
    BY <1>3 DEF PutsBack, PassesOver, LeavesRunning, Skips, GrammarReady, vars,
       Scheduling
  <2> QED
    BY <2>1, <2>2 DEF Covered, Scheduled
<1>4. ASSUME NEW r \in Reqs, NEW n \in Int, Admits(r, n) PROVE Covered'
  <2>1. /\ AllocateSlots(r, n, 0) /\ computed[r] + n <= MaxModelLen
        /\ computed' = computed /\ nsched' = [nsched EXCEPT ![r] = n]
        /\ pc = "waiting" /\ pc' = pc
    BY <1>4 DEF Admits
  <2> QED
    BY <1>1, <2>1, GivenCovers DEF Scheduling
<1>5. CASE Picks
  <2>1. /\ pc = "running" /\ cur' = running[idx]
        /\ computed[running[idx]] + num' <= MaxModelLen
        /\ UNCHANGED <<computed, nsched, held>>
    BY <1>5 DEF Picks, reqVars, blockVars
  <2> QED
    BY <2>1 DEF Covered, Scheduled, Scheduling
<1>6. CASE ScheduleRunning
  <2>1. /\ AllocateSlots(cur, num, NumSpecTokens) /\ computed[cur] + num <= MaxModelLen
        /\ computed' = computed /\ nsched' = [nsched EXCEPT ![cur] = num]
        /\ pc = "alloc" /\ pc' = "running" /\ cur \in Reqs /\ num \in Int
    BY <1>1, <1>6 DEF ScheduleRunning, Covered, Scheduling, Inv, PassState, TypeOK
  <2> QED
    BY <1>1, <2>1, GivenCovers DEF Scheduling
<1>7. ASSUME NEW v \in Reqs, Preempt(v) PROVE Covered'
  <2>1. /\ pc = "alloc" /\ computed' = [computed EXCEPT ![v] = 0]
        /\ held' = [held EXCEPT ![v] = 0] /\ running' = Without(running, v)
        /\ nsched' = nsched \/ nsched' = [nsched EXCEPT ![v] = 0]
        /\ pc' \in {"alloc", "commit"}
        /\ pc' = "alloc" => cur # v /\ cur' = cur /\ num' = num
    BY <1>7 DEF Preempt, FreeBlocks
  <2>2. Scheduled(nsched)' \subseteq Elems(running')
    BY <1>7, <2>1, PreemptPass DEF PassInv, BudgetRespected, Scheduling
  <2>3. v \notin Elems(running')
    <3>1. running \in Seq(Reqs) /\ NoRepeats(running)
      BY <1>1 DEF TypeOK, QueueConsistency
    <3> QED
      BY <2>1, <3>1, WithoutElems
  <2>4. \A r \in Reqs : r # v => /\ computed'[r] = computed[r] /\ held'[r] = held[r]
                                 /\ nsched'[r] = nsched[r]
    BY <1>1, <2>1 DEF TypeOK
  <2>5. \A r \in Scheduled(nsched)' : r # v /\ r \in Scheduled(nsched)
    BY <2>2, <2>3, <2>4 DEF Scheduled
  <2>6. pc' = "alloc" => cur \in Reqs
    BY <2>1 DEF Inv, PassState
  <2> QED
    BY <2>1, <2>4, <2>5, <2>6 DEF Covered, Scheduling, Scheduled
<1>8. CASE Commits \/ Drain \/ OutputStep \/ Pops \/ ClientStep
  <2>1. pc' \in {"idle", "output"}
    BY <1>8 DEF Commits, Drain, StartOutput, OutputStep, Pops, ClientStep,
       AddRequest, Abort
  <2> QED
    BY <2>1 DEF Covered, Scheduling
<1> QED
  BY <1>2, <1>3, <1>4, <1>5, <1>6, <1>7, <1>8 DEF CoreNext, PassStep

-----------------------------------------------------------------------------
(* The tokens a request has not computed yet.  Where no output of an        *)
(* earlier life of a request can reach it, they are never fewer than none,  *)
(* and so is no count of tokens in a batch.                                 *)

\* Without async scheduling the drafts of a batch count as computed until
\* its output is applied.
Landing(r) ==
  IF ~AsyncScheduling /\ pc = "output" /\ r \in todo /\ r \in queue[1].emit
  THEN queue[1].s[r] ELSE 0

\* What is computed, with the tokens of this pass, is at most what the
\* request has, and exactly that if drafts are scheduled.
Level(r) ==
  /\ computed[r] + nsched[r] <= NumTokens(r) + placeholders[r] + sspec[r] + Landing(r)
  /\ computed[r] + nsched[r] <= Ceiling(r)
  /\ sspec[r] > 0 => computed[r] + nsched[r] = NumTokens(r) + placeholders[r] + sspec[r]

Counted ==
  /\ \A r \in Reqs : /\ nsched[r] >= 0 /\ (nsched[r] = 0 => sspec[r] = 0)
                     /\ spec[r] <= NumSpecTokens /\ sspec[r] <= NumSpecTokens
                     /\ status[r] = "running" => Level(r)
  /\ pc = "alloc" => /\ 0 < num /\ num <= Remaining(cur)
                     /\ computed[cur] + num <= Ceiling(cur)

\* The numbers these are about.
LEMMA LevelType ==
  ASSUME Inv, FlightInv, NEW r \in Reqs
  PROVE  /\ computed[r] \in Int /\ nsched[r] \in Int /\ spec[r] \in Nat
         /\ placeholders[r] \in Int /\ sspec[r] \in Nat /\ NumSpecTokens \in Nat
         /\ NumTokens(r) \in Nat /\ Ceiling(r) \in Int /\ Remaining(r) \in Int
         /\ MaxTotalTokens(r) \in Nat /\ MaxTotalTokens(r) <= MaxModelLen
         /\ MaxModelLen \in Nat /\ Landing(r) \in Nat
<1>1. /\ computed[r] \in Int /\ nsched[r] \in Int /\ spec[r] \in Nat
      /\ placeholders[r] \in Int /\ sspec[r] \in Int
  BY DEF Inv, TypeOK
<1>2. /\ NumTokens(r) \in Nat /\ MaxTotalTokens(r) \in Nat /\ NumSpecTokens \in Nat
      /\ MaxModelLen \in Nat /\ Prompt[r] \in Nat /\ MaxTokens[r] \in Nat
  BY TokensType, CoreAssumption DEF Inv
<1>3. MaxTotalTokens(r) <= MaxModelLen
  BY <1>2 DEF MaxTotalTokens, MinOf
<1>4. sspec[r] >= 0
  BY DEF FlightInv, Submitted
<1>5. Ceiling(r) \in Int
  BY <1>2 DEF Ceiling
<1>6. Landing(r) \in Nat
  <2>1. CASE pc = "output" /\ r \in queue[1].emit
    <3>1. 1 \in DOMAIN queue
      <4>1. queue \in Seq(Batches) /\ queue # <<>>
        BY <2>1 DEF Inv, TypeOK, BatchQueueBounded
      <4> QED
        BY <4>1
    <3>2. queue[1] \in Batches
      BY <3>1 DEF Inv, TypeOK
    <3>3. queue[1].s[r] \in Int /\ queue[1].s[r] >= 0
      BY <2>1, <3>1, <3>2 DEF Batches, FlightInv, Tagged
    <3> QED
      BY <3>3 DEF Landing
  <2>2. CASE ~(pc = "output" /\ r \in queue[1].emit)
    BY <2>2 DEF Landing
  <2> QED
    BY <2>1, <2>2
<1> QED
  BY <1>1, <1>2, <1>3, <1>4, <1>5, <1>6 DEF Remaining

\* The same of the next state.
LEMMA LandingNext ==
  Inv' /\ FlightInv' => (\A r \in Reqs : Landing(r) \in Nat)'
<1> DEFINE Landings == \A r \in Reqs : Landing(r) \in Nat
<1>1. Inv /\ FlightInv => Landings
  BY LevelType
<1> HIDE DEF Landings
<1>2. (Inv /\ FlightInv => Landings)'
  BY <1>1, PTL
<1> QED
  BY <1>2 DEF Landings

\* No request that lives owes less than nothing.
LEMMA NothingOwed ==
  ASSUME Inv, FlightInv, Exact, NEW r \in Reqs, Live(r)
  PROVE  placeholders[r] >= 0
<1>1. CASE AsyncScheduling
  <2>1. placeholders[r] = Due(1, r) + Due(2, r)
    BY <1>1 DEF Exact, FlightInv, Awaited, Owed
  <2>2. Due(1, r) \in Nat /\ Due(2, r) \in Nat
    BY DueType DEF Inv, FlightInv
  <2> QED
    BY <2>1, <2>2
<1>2. CASE ~AsyncScheduling
  BY <1>2 DEF FlightInv, Awaited
<1> QED
  BY <1>1, <1>2

\* A step that changes none of the numbers of a request keeps its level.
LEMMA LevelKept ==
  ASSUME Inv, FlightInv, NEW r \in Reqs, Level(r),
         computed'[r] = computed[r], nsched'[r] = nsched[r], spec'[r] = spec[r],
         placeholders'[r] = placeholders[r], sspec'[r] = sspec[r], out'[r] = out[r],
         Landing(r)' \in Nat, Landing(r)' >= Landing(r)
  PROVE  Level(r)'
<1>1. NumTokens(r)' = NumTokens(r) /\ Ceiling(r)' = Ceiling(r)
  BY DEF NumTokens, Ceiling, MaxTotalTokens
<1>2. PICK x \in Int, y \in Int :
        /\ x = computed[r] + nsched[r]
        /\ y = NumTokens(r) + placeholders[r] + sspec[r]
  BY LevelType
<1>3. x <= y + Landing(r)
  BY <1>2 DEF Level
<1>4. x <= y + Landing(r)'
  BY <1>2, <1>3, LevelType
<1> QED
  BY <1>1, <1>2, <1>4 DEF Level

\* Steps that change none of the numbers.
LEMMA SameCounted ==
  ASSUME Inv, FlightInv, Counted, Inv', FlightInv',
         UNCHANGED <<computed, nsched, spec, placeholders, sspec, out>>,
         \A r \in Reqs : status'[r] = "running" => status[r] = "running",
         pc' # "alloc" \/ (pc = "alloc" /\ UNCHANGED <<cur, num>>),
         \A r \in Reqs : Landing(r)' >= Landing(r)
  PROVE  Counted'
<1>1. ASSUME NEW r \in Reqs, status'[r] = "running" PROVE Level(r)'
  <2>1. Level(r) /\ Landing(r)' \in Nat
    <3>1. Level(r)
      BY <1>1 DEF Counted
    <3>2. Landing(r)' \in Nat
      BY LandingNext
    <3> QED
      BY <3>1, <3>2
  <2> QED
    BY <2>1, LevelKept
<1>2. CASE pc' = "alloc"
  <2>1. UNCHANGED <<Remaining(cur), Ceiling(cur), computed[cur], num>> /\ pc = "alloc"
    BY <1>2 DEF Remaining, Ceiling, NumTokens, MaxTotalTokens
  <2> QED
    BY <1>1, <2>1 DEF Counted
<1>3. CASE pc' # "alloc"
  BY <1>1, <1>3 DEF Counted
<1> QED
  BY <1>2, <1>3

\* A request is admitted with at most the tokens it has.
LEMMA AdmitsCounted ==
  ASSUME Inv, QueueConsistency, PassInv, FlightInv, Counted, Exact, Inv', FlightInv',
         NEW r \in Reqs, NEW n \in Int, Admits(r, n)
  PROVE  Counted'
<1>1. /\ pc = "waiting" /\ pc' = "waiting" /\ r \in Elems(waiting)
      /\ 0 < n /\ n <= NumTokens(r) - computed[r]
      /\ nsched' = [nsched EXCEPT ![r] = n]
      /\ status' = [status EXCEPT ![r] = "running"]
      /\ UNCHANGED <<out, computed, placeholders, spec, sspec>>
  BY DEF Admits
<1>2. nsched[r] = 0 /\ sspec[r] = 0
  BY <1>1 DEF QueueConsistency, PassInv, WaitingFree, Counted
<1>3. /\ nsched'[r] = n /\ \A o \in Reqs : o # r => /\ nsched'[o] = nsched[o]
                                                    /\ status'[o] = status[o]
  BY <1>1 DEF Inv, TypeOK
<1>4. Live(r) /\ NumTokens(r) < MaxTotalTokens(r) /\ placeholders[r] >= 0
  <2>1. Live(r)
    BY <1>1 DEF QueueConsistency
  <2> QED
    BY <2>1, NothingOwed DEF FlightInv, Submitted
<1>5. Level(r)'
  <2>1. NumTokens(r)' = NumTokens(r) /\ Ceiling(r)' = Ceiling(r)
    BY <1>1 DEF NumTokens, Ceiling, MaxTotalTokens
  <2>2. computed[r] + n <= NumTokens(r)
    BY <1>1, LevelType
  <2>3. computed[r] + n <= Ceiling(r)
    BY <1>1, <1>4, <2>2, LevelType DEF Ceiling
  <2>4. Landing(r)' = 0
    BY <1>1 DEF Landing
  <2>5. NumTokens(r) <= NumTokens(r) + placeholders[r] + sspec[r] + 0
    BY <1>4, LevelType
  <2> QED
    BY <1>1, <1>2, <1>3, <2>1, <2>2, <2>3, <2>4, <2>5, LevelType DEF Level
<1>6. ASSUME NEW o \in Reqs, o # r, status'[o] = "running" PROVE Level(o)'
  <2>1. Level(o) /\ Landing(o)' = 0 /\ Landing(o) = 0
    BY <1>1, <1>3, <1>6 DEF Counted, Landing
  <2> QED
    BY <1>1, <1>3, <1>6, <2>1, LevelKept
<1> QED
  BY <1>1, <1>2, <1>3, <1>5, <1>6 DEF Counted

\* The picked request gets what it was picked for, with as many drafts as
\* go beyond its tokens.
LEMMA ScheduleRunningCounted ==
  ASSUME Inv, QueueConsistency, PassInv, FlightInv, Counted, Exact, Inv', FlightInv',
         ScheduleRunning
  PROVE  Counted'
<1>1. PICK c \in Reqs : c = cur
  BY DEF ScheduleRunning, Inv, PassState
<1>2. /\ pc = "alloc" /\ pc' = "running"
      /\ nsched' = [nsched EXCEPT ![c] = num]
      /\ spec' = [spec EXCEPT ![c] = 0]
      /\ UNCHANGED <<status, out, computed, placeholders>>
  BY <1>1 DEF ScheduleRunning
<1>3. num \in Int /\ 0 < num /\ num <= Remaining(c) /\ computed[c] + num <= Ceiling(c)
  BY <1>1, <1>2 DEF Counted, Inv, TypeOK
<1>4. PICK extra \in Int :
        /\ extra = num + computed[c] - NumTokens(c) - placeholders[c]
        /\ sspec' = [sspec EXCEPT ![c] =
             IF spec[c] > 0 /\ extra > 0 THEN MinOf(extra, spec[c]) ELSE 0]
  <2>1. num + computed[c] - NumTokens(c) - placeholders[c] \in Int
    BY <1>3, LevelType
  <2> QED
    BY <1>1, <2>1 DEF ScheduleRunning
<1>5. /\ nsched'[c] = num /\ spec'[c] = 0
      /\ sspec'[c] = IF spec[c] > 0 /\ extra > 0 THEN MinOf(extra, spec[c]) ELSE 0
      /\ \A o \in Reqs : o # c => /\ nsched'[o] = nsched[o] /\ spec'[o] = spec[o]
                                  /\ sspec'[o] = sspec[o]
  BY <1>2, <1>4 DEF Inv, TypeOK
<1>6. extra <= spec[c]
  BY <1>3, <1>4, LevelType DEF Remaining
<1>7. sspec'[c] = IF extra > 0 THEN extra ELSE 0
  BY <1>4, <1>5, <1>6, LevelType DEF MinOf
<1>8. Level(c)'
  <2>1. /\ NumTokens(c)' = NumTokens(c) /\ Ceiling(c)' = Ceiling(c) /\ Landing(c)' = 0
        /\ computed'[c] = computed[c] /\ placeholders'[c] = placeholders[c]
    BY <1>2 DEF NumTokens, Ceiling, MaxTotalTokens, Landing
  <2>2. computed[c] + num = NumTokens(c) + placeholders[c] + extra
    BY <1>3, <1>4, LevelType
  <2>3. /\ computed[c] + num <= NumTokens(c) + placeholders[c] + sspec'[c] + 0
        /\ sspec'[c] > 0 => computed[c] + num = NumTokens(c) + placeholders[c] + sspec'[c]
    BY <1>4, <1>7, <2>2, LevelType
  <2> QED
    BY <1>3, <1>5, <2>1, <2>3 DEF Level
<1>9. ASSUME NEW o \in Reqs, o # c, status'[o] = "running" PROVE Level(o)'
  <2>1. Level(o) /\ Landing(o)' = 0 /\ Landing(o) = 0
    BY <1>2, <1>9 DEF Counted, Landing
  <2> QED
    BY <1>2, <1>5, <1>9, <2>1, LevelKept
<1>10. ASSUME NEW o \in Reqs
       PROVE  /\ nsched'[o] >= 0 /\ (nsched'[o] = 0 => sspec'[o] = 0)
              /\ spec'[o] <= NumSpecTokens /\ sspec'[o] <= NumSpecTokens
  <2>1. /\ nsched[o] >= 0 /\ (nsched[o] = 0 => sspec[o] = 0)
        /\ spec[o] <= NumSpecTokens /\ sspec[o] <= NumSpecTokens
    BY DEF Counted
  <2>2. CASE o = c
    <3>1. sspec'[c] <= NumSpecTokens
      BY <1>6, <1>7, <2>1, <2>2, LevelType
    <3> QED
      BY <1>3, <1>5, <2>2, <3>1, LevelType
  <2>3. CASE o # c
    BY <1>5, <2>1, <2>3
  <2> QED
    BY <2>2, <2>3
<1> QED
  BY <1>2, <1>8, <1>9, <1>10 DEF Counted

\* The victim has nothing scheduled any more.
LEMMA PreemptCounted ==
  ASSUME Inv, QueueConsistency, PassInv, FlightInv, Counted, Exact, Inv', FlightInv',
         NEW v \in Reqs, Preempt(v)
  PROVE  Counted'
<1>1. /\ pc = "alloc" /\ pc' \in {"alloc", "commit"}
      /\ pc' = "alloc" => cur # v /\ cur' = cur /\ num' = num
      /\ status' = [status EXCEPT ![v] = "preempted"]
      /\ computed' = [computed EXCEPT ![v] = 0]
      /\ \/ nsched' = nsched /\ sspec' = sspec
         \/ nsched' = [nsched EXCEPT ![v] = 0] /\ sspec' = [sspec EXCEPT ![v] = 0]
      /\ UNCHANGED <<out, placeholders, spec>>
  BY DEF Preempt
<1>2. /\ status'[v] = "preempted"
      /\ \/ nsched'[v] = nsched[v] /\ sspec'[v] = sspec[v]
         \/ nsched'[v] = 0 /\ sspec'[v] = 0
      /\ \A o \in Reqs : o # v => /\ nsched'[o] = nsched[o] /\ sspec'[o] = sspec[o]
                                  /\ computed'[o] = computed[o] /\ status'[o] = status[o]
  <2>1. /\ nsched \in [Reqs -> Int] /\ sspec \in [Reqs -> Int]
        /\ computed \in [Reqs -> Int] /\ status \in [Reqs -> Statuses]
    BY DEF Inv, TypeOK
  <2>2. /\ status'[v] = "preempted"
        /\ \A o \in Reqs : o # v => computed'[o] = computed[o] /\ status'[o] = status[o]
    BY <1>1, <2>1
  <2>3. CASE nsched' = nsched /\ sspec' = sspec
    BY <2>2, <2>3
  <2>4. CASE nsched' = [nsched EXCEPT ![v] = 0] /\ sspec' = [sspec EXCEPT ![v] = 0]
    BY <2>1, <2>2, <2>4
  <2> QED
    BY <1>1, <2>3, <2>4
<1>3. ASSUME NEW o \in Reqs, status'[o] = "running" PROVE Level(o)'
  <2>1. o # v /\ Level(o) /\ Landing(o)' = 0 /\ Landing(o) = 0
    BY <1>1, <1>2, <1>3 DEF Counted, Landing
  <2> QED
    BY <1>1, <1>2, <1>3, <2>1, LevelKept
<1>4. ASSUME NEW o \in Reqs
      PROVE  /\ nsched'[o] >= 0 /\ (nsched'[o] = 0 => sspec'[o] = 0)
             /\ spec'[o] <= NumSpecTokens /\ sspec'[o] <= NumSpecTokens
  <2>1. /\ nsched[o] >= 0 /\ (nsched[o] = 0 => sspec[o] = 0)
        /\ spec[o] <= NumSpecTokens /\ sspec[o] <= NumSpecTokens
    BY DEF Counted
  <2>2. CASE o = v
    BY <1>1, <1>2, <2>1, <2>2, LevelType
  <2>3. CASE o # v
    BY <1>1, <1>2, <2>1, <2>3
  <2> QED
    BY <2>2, <2>3
<1>5. ASSUME pc' = "alloc"
      PROVE  0 < num' /\ num' <= Remaining(cur)' /\ computed'[cur'] + num' <= Ceiling(cur)'
  <2>1. PICK c \in Reqs : c = cur /\ c = cur' /\ c # v
    BY <1>1, <1>5 DEF Inv, PassState
  <2>2. computed'[c] = computed[c] /\ Remaining(c)' = Remaining(c) /\ Ceiling(c)' = Ceiling(c)
    BY <1>1, <1>2, <2>1 DEF Remaining, Ceiling, NumTokens, MaxTotalTokens
  <2>3. Remaining(cur)' = Remaining(c)' /\ Ceiling(cur)' = Ceiling(c)'
    BY <2>1
  <2> QED
    BY <1>1, <1>5, <2>1, <2>2, <2>3 DEF Counted
<1> QED
  BY <1>3, <1>4, <1>5 DEF Counted

\* What was scheduled counts as computed; the tokens it will sample count as
\* placeholders, or their drafts as landing.
LEMMA CommitsCounted ==
  ASSUME Inv, QueueConsistency, PassInv, FlightInv, Counted, Exact, Inv', FlightInv',
         Commits
  PROVE  Counted'
<1>1. /\ pc = "commit" /\ pc' \in {"idle", "output"} /\ status' = status /\ out' = out
      /\ computed' = [r \in Reqs |-> computed[r] + nsched[r]]
      /\ placeholders' = [r \in Reqs |->
           IF AsyncScheduling /\ r \in Emitting
           THEN placeholders[r] + 1 + sspec[r] ELSE placeholders[r]]
      /\ spec' = [r \in Reqs |-> IF AsyncScheduling /\ r \in Emitting
                                 THEN NumSpecTokens ELSE spec[r]]
      /\ nsched' = Zero /\ sspec' = Zero /\ queue' = Append(queue, NewBatch)
  BY DEF Commits, StartOutput
<1>2. ASSUME ~AsyncScheduling, NEW r \in Reqs, status[r] = "running", r \in Emitting
      PROVE  Landing(r)' >= sspec[r]
  <2>1. CASE BatchQueueSize = 1
    <3>1. queue \in Seq(Batches) /\ Len(queue) = 0
      <4>1. queue \in Seq(Batches) /\ Len(queue) < BatchQueueSize
        BY <1>1, <1>2 DEF Inv, PassState, TypeOK
      <4> QED
        BY <2>1, <4>1
    <3>2. queue' = <<NewBatch>> /\ Len(queue') = 1 /\ queue'[1] = NewBatch
      <4>1. NewBatch \in Batches /\ queue = <<>>
        BY <3>1, NewBatchType DEF Inv
      <4> QED
        BY <1>1, <4>1
    <3>3. StartOutput(queue')
      BY <1>1, <2>1, <3>1, <3>2 DEF Commits, QueueHasRoom
    <3>4. r \in Scheduled(NewBatch.n) /\ r \in NewBatch.emit /\ NewBatch.s[r] = sspec[r]
      BY <1>2 DEF NewBatch, Emitting, Scheduled
    <3>5. r \in todo' /\ pc' = "output"
      BY <1>2, <3>2, <3>3, <3>4 DEF StartOutput
    <3>6. Landing(r)' = sspec[r]
      BY <1>2, <3>2, <3>4, <3>5 DEF Landing
    <3> QED
      BY <3>6, LevelType
  <2>2. CASE BatchQueueSize # 1
    <3>1. NumSpecTokens = 0
      BY <1>2, <2>2, CoreAssumption
    <3>2. sspec[r] = 0
      BY <3>1, LevelType DEF Counted
    <3>3. Landing(r)' \in Nat
      BY LandingNext
    <3> QED
      BY <3>2, <3>3
  <2> QED
    BY <2>1, <2>2
<1>3. ASSUME NEW r \in Reqs, status'[r] = "running" PROVE Level(r)'
  <2>1. Level(r) /\ Landing(r) = 0 /\ nsched[r] >= 0 /\ (nsched[r] = 0 => sspec[r] = 0)
    BY <1>1, <1>3 DEF Counted, Landing
  <2>2. /\ computed'[r] = computed[r] + nsched[r] /\ nsched'[r] = 0 /\ sspec'[r] = 0
        /\ NumTokens(r)' = NumTokens(r) /\ Ceiling(r)' = Ceiling(r)
    BY <1>1 DEF Zero, NumTokens, Ceiling, MaxTotalTokens
  <2>3. computed[r] + nsched[r] \in Int /\ computed[r] + nsched[r] <= Ceiling(r)
    BY <2>1, LevelType DEF Level
  <2>4. Landing(r)' \in Nat
    BY LandingNext
  <2>5. CASE AsyncScheduling /\ r \in Emitting
    <3>1. /\ computed[r] + nsched[r] = NumTokens(r) + placeholders[r] + sspec[r]
          /\ placeholders'[r] = placeholders[r] + 1 + sspec[r] /\ spec'[r] = NumSpecTokens
      BY <1>1, <2>5 DEF Emitting
    <3>2. computed[r] + nsched[r]
            <= NumTokens(r) + (placeholders[r] + 1 + sspec[r]) + 0 + Landing(r)'
      BY <3>1, <2>4, LevelType
    <3> QED
      BY <2>2, <2>3, <3>1, <3>2 DEF Level
  <2>6. CASE ~AsyncScheduling /\ r \in Emitting
    <3>1. /\ computed[r] + nsched[r] = NumTokens(r) + placeholders[r] + sspec[r]
          /\ placeholders'[r] = placeholders[r] /\ spec'[r] = spec[r]
      BY <1>1, <2>6 DEF Emitting
    <3>2. Landing(r)' >= sspec[r]
      BY <1>1, <1>2, <1>3, <2>6
    <3>3. computed[r] + nsched[r] <= NumTokens(r) + placeholders[r] + 0 + Landing(r)'
      BY <2>4, <3>1, <3>2, LevelType
    <3> QED
      BY <2>2, <2>3, <3>1, <3>2, <3>3 DEF Level
  <2>7. CASE r \notin Emitting
    <3>1. placeholders'[r] = placeholders[r] /\ spec'[r] = spec[r]
      BY <1>1, <2>7
    <3>2. sspec[r] = 0
      <4>1. nsched[r] > 0 => computed[r] + nsched[r] # NumTokens(r) + placeholders[r] + sspec[r]
        BY <2>7 DEF Emitting, Scheduled
      <4>2. sspec[r] > 0 => computed[r] + nsched[r] = NumTokens(r) + placeholders[r] + sspec[r]
        BY <2>1 DEF Level
      <4> QED
        BY <2>1, <4>1, <4>2, LevelType
    <3>3. computed[r] + nsched[r]
            <= NumTokens(r) + placeholders[r] + 0 + Landing(r)'
      <4>1. computed[r] + nsched[r] <= NumTokens(r) + placeholders[r] + 0 + 0
        BY <2>1, <3>2 DEF Level
      <4> QED
        BY <2>3, <2>4, <4>1, LevelType
    <3> QED
      BY <2>2, <2>3, <3>1, <3>3 DEF Level
  <2> QED
    BY <2>5, <2>6, <2>7
<1>4. ASSUME NEW r \in Reqs
      PROVE  /\ nsched'[r] = 0 /\ sspec'[r] = 0 /\ sspec'[r] <= NumSpecTokens
             /\ spec'[r] <= NumSpecTokens
  BY <1>1, LevelType DEF Counted, Zero
<1> QED
  BY <1>1, <1>3, <1>4 DEF Counted

\* Rejected drafts are no longer computed, and the tokens that were kept are
\* no longer placeholders.
LEMMA UpdateCounted ==
  ASSUME Inv, LifeInv, FlightInv, Counted, Exact, Inv', FlightInv',
         pc = "output", NEW r \in todo,
         NEW accepted \in Nat, NEW kept \in Nat, NEW stopped \in BOOLEAN,
         UpdateFromOutput(r, accepted, kept, stopped),
         todo' = todo \ {r}, UNCHANGED <<localVars, pc>>
  PROVE  Counted'
<1>1. /\ TypeOK /\ r \in Reqs /\ Live(r) /\ 1 \in DOMAIN queue /\ Head(queue) = queue[1]
      /\ nsched' = nsched /\ sspec' = sspec /\ nsched = Zero /\ sspec[r] = 0
  <2>1. queue \in Seq(Batches) /\ queue # <<>>
    BY DEF Inv, TypeOK, BatchQueueBounded
  <2>2. 1 \in DOMAIN queue /\ Head(queue) = queue[1]
    BY <2>1
  <2>3. TypeOK /\ r \in Reqs /\ Live(r) /\ nsched = Zero
    BY DEF Inv, TypeOK, LifeInv, PassState
  <2> QED
    BY <2>2, <2>3 DEF localVars, Counted, Zero
<1>2. PICK s \in Nat : /\ s = queue[1].s[r] /\ accepted \in 0 .. s /\ r \in queue[1].emit
                       /\ Rejected(Head(queue), r, accepted) = s - accepted
  <2>1. queue[1] \in Batches
    BY <1>1 DEF TypeOK
  <2>2. r \in queue[1].emit /\ accepted \in 0 .. queue[1].s[r]
    BY <1>1 DEF UpdateFromOutput
  <2>3. queue[1].s[r] \in Nat
    BY <1>1, <2>1, <2>2 DEF Batches, FlightInv, Tagged
  <2> QED
    BY <1>1, <2>2, <2>3 DEF Rejected
<1>3. queue'[1].s = queue[1].s /\ queue'[1].emit = queue[1].emit
  <2>1. queue' = [i \in DOMAIN queue |->
           IF i > 1 /\ r \in queue[i].emit
           THEN [queue[i] EXCEPT !.lost[r] = @ + Rejected(Head(queue), r, accepted)]
           ELSE queue[i]]
    BY DEF UpdateFromOutput
  <2> QED
    BY <1>1, <2>1
<1>4. \A o \in Reqs : o # r => Landing(o)' = Landing(o)
  BY <1>3 DEF Landing
<1>5. /\ spec'[r] <= NumSpecTokens
      /\ \A o \in Reqs : o # r => /\ out'[o] = out[o] /\ computed'[o] = computed[o]
                                  /\ placeholders'[o] = placeholders[o]
                                  /\ spec'[o] = spec[o] /\ status'[o] = status[o]
  <2>1. spec[r] <= NumSpecTokens /\ 0 <= NumSpecTokens
    BY <1>1, LevelType DEF Counted
  <2>2. CASE Finish(r)
    BY <1>1, <2>1, <2>2 DEF Finish, TypeOK
  <2>3. CASE ~Finish(r)
    BY <1>1, <2>1, <2>3 DEF UpdateFromOutput, TypeOK
  <2> QED
    BY <2>2, <2>3
<1>6. ASSUME NEW o \in Reqs, o # r, status'[o] = "running" PROVE Level(o)'
  <2>1. Level(o) /\ Landing(o)' \in Nat /\ Landing(o)' >= Landing(o)
    <3>1. Level(o) /\ Landing(o) \in Nat
      BY <1>5, <1>6, LevelType DEF Counted
    <3> QED
      BY <1>4, <1>6, <3>1
  <2> QED
    BY <1>1, <1>5, <1>6, <2>1, LevelKept
<1>7. ASSUME status'[r] = "running" PROVE Level(r)'
  <2>1. ~Finish(r)
    BY <1>1, <1>7 DEF Finish, TypeOK
  <2>2. /\ kept = accepted + 1 /\ NumTokens(r) + kept < MaxTotalTokens(r)
        /\ out' = [out EXCEPT ![r] = out[r] + kept]
        /\ placeholders' = [placeholders EXCEPT ![r] =
             PlaceholdersAfter(r, s - accepted, kept)]
        /\ status' = status
    BY <1>1, <1>2, <2>1, GoesOn
  <2>3. /\ computed' = [computed EXCEPT ![r] = IF @ > 0 THEN @ - (s - accepted) ELSE @]
        /\ spec' = spec
    BY <1>2, <2>1 DEF UpdateFromOutput
  <2>4. /\ computed'[r] = IF computed[r] > 0 THEN computed[r] - (s - accepted) ELSE computed[r]
        /\ placeholders'[r] = PlaceholdersAfter(r, s - accepted, accepted + 1)
        /\ spec'[r] = spec[r] /\ nsched'[r] = 0 /\ sspec'[r] = 0
    BY <1>1, <2>2, <2>3 DEF TypeOK, Zero
  <2>5. NumTokens(r)' = NumTokens(r) + accepted + 1 /\ Ceiling(r)' = Ceiling(r)
    <3>1. out'[r] = out[r] + kept /\ out[r] \in Nat /\ Prompt[r] \in Nat
      BY <1>1, <2>2, CoreAssumption DEF TypeOK
    <3> QED
      BY <2>2, <3>1 DEF NumTokens, Ceiling, MaxTotalTokens
  <2>6. Landing(r)' = 0 /\ Level(r)
    BY <1>1, <1>7, <2>2 DEF Landing, Counted
  <2>7. \/ /\ AsyncScheduling /\ placeholders'[r] \in Nat /\ Landing(r) = 0
           /\ placeholders[r] = placeholders'[r] + 1 + s
        \/ /\ ~AsyncScheduling /\ placeholders'[r] = 0 /\ placeholders[r] = 0
           /\ Landing(r) = s
    <3>1. CASE AsyncScheduling
      <4>1. 1 \in InFlight(r)
        <5>1. /\ queue[1].sub[r] >= 1 /\ queue[1].sub[r] <= submissions[r]
              /\ submissions[r] <= 1
          BY <1>1, <1>2, <3>1 DEF FlightInv, Tagged, Submitted, Exact
        <5>2. queue[1] \in Batches
          BY <1>1 DEF TypeOK
        <5>3. queue[1].sub[r] \in Nat /\ submissions[r] \in Nat
          BY <1>1, <5>2 DEF TypeOK, Batches
        <5>4. queue[1].sub[r] = submissions[r]
          BY <5>1, <5>3
        <5> QED
          BY <1>1, <1>2, <5>4 DEF InFlight
      <4>2. Due(1, r) = 1 + s /\ Due(2, r) \in Nat
        BY <1>1, <1>2, <4>1, DueType DEF FlightInv
      <4>3. placeholders[r] = Due(1, r) + Due(2, r)
        BY <1>1, <3>1 DEF Exact, FlightInv, Awaited, Owed
      <4>4. PICK later \in Nat : later = Due(2, r) /\ placeholders[r] = later + 1 + s
        BY <4>2, <4>3
      <4>5. placeholders'[r] = later
        BY <1>1, <1>2, <2>4, <3>1, <4>4, AfterOutput
      <4> QED
        BY <3>1, <4>4, <4>5 DEF Landing
    <3>2. CASE ~AsyncScheduling
      <4>1. placeholders[r] = 0 /\ 0 \in Nat
        BY <1>1, <3>2 DEF FlightInv, Awaited
      <4>2. placeholders'[r] = 0
        BY <1>1, <1>2, <2>4, <3>2, <4>1, AfterOutput
      <4> QED
        BY <1>2, <3>2, <4>1, <4>2 DEF Landing
    <3> QED
      BY <3>1, <3>2
  <2>8. computed[r] <= NumTokens(r) + placeholders[r] + Landing(r)
        /\ computed[r] <= Ceiling(r)
    BY <1>1, <2>6, LevelType DEF Level, Zero
  <2>9. computed'[r] <= NumTokens(r)' + placeholders'[r]
        /\ computed'[r] <= Ceiling(r)
    <3>1. /\ computed[r] \in Int /\ NumTokens(r) \in Nat /\ spec[r] \in Nat
          /\ Ceiling(r) \in Int /\ accepted <= s
      BY <1>1, <1>2, LevelType
    <3>2. CASE computed[r] > 0
      <4>1. computed'[r] = computed[r] - (s - accepted)
        BY <2>4, <3>2
      <4> QED
        BY <1>2, <2>5, <2>7, <2>8, <3>1, <4>1
    <3>3. CASE computed[r] <= 0
      <4>1. computed'[r] = computed[r] /\ placeholders'[r] \in Nat
        BY <2>4, <2>7, <3>1, <3>3
      <4> QED
        BY <2>5, <2>8, <3>1, <3>3, <4>1
    <3> QED
      BY <3>1, <3>2, <3>3
  <2>10. computed'[r] \in Int /\ NumTokens(r)' \in Int /\ placeholders'[r] \in Int
    BY <1>1, <1>2, <2>4, <2>5, <2>7, LevelType
  <2> QED
    BY <1>1, <2>4, <2>5, <2>6, <2>9, <2>10, LevelType DEF Level
<1>8. \A o \in Reqs : spec'[o] <= NumSpecTokens
  BY <1>5 DEF Counted
<1> QED
  BY <1>1, <1>6, <1>7, <1>8 DEF Counted

\* update_from_output: a request without output in the batch has no drafts
\* landing.
LEMMA OutputCounted ==
  ASSUME Inv, LifeInv, FlightInv, Counted, Exact, Inv', FlightInv', OutputStep
  PROVE  Counted'
<1>1. /\ pc = "output" /\ todo # {} /\ UNCHANGED <<localVars, pc>>
      /\ \E q \in todo : q = CHOOSE r \in todo : TRUE
  BY DEF OutputStep
<1>2. PICK q \in todo : q = CHOOSE r \in todo : TRUE
  BY <1>1
<1>3. /\ todo' = todo \ {q}
      /\ \/ \E accepted \in 0 .. NumSpecTokens, kept \in 1 .. NumSpecTokens + 1,
              stopped \in BOOLEAN : UpdateFromOutput(q, accepted, kept, stopped)
         \/ /\ q \notin Head(queue).emit
            /\ UNCHANGED <<reqVars, blockVars, queueVars, queue>>
  BY <1>2 DEF OutputStep
<1>4. CASE \E accepted \in 0 .. NumSpecTokens, kept \in 1 .. NumSpecTokens + 1,
              stopped \in BOOLEAN : UpdateFromOutput(q, accepted, kept, stopped)
  <2>1. PICK accepted \in 0 .. NumSpecTokens, kept \in 1 .. NumSpecTokens + 1,
             stopped \in BOOLEAN : UpdateFromOutput(q, accepted, kept, stopped)
    BY <1>4
  <2>2. accepted \in Nat /\ kept \in Nat
    BY CoreAssumption
  <2> QED
    BY <1>1, <1>3, <2>1, <2>2, UpdateCounted
<1>5. CASE q \notin Head(queue).emit /\ UNCHANGED <<reqVars, blockVars, queueVars, queue>>
  <2>1. /\ UNCHANGED <<queue, computed, nsched, spec, placeholders, sspec, out, status, cur, num>>
        /\ pc' # "alloc"
    BY <1>1, <1>5 DEF reqVars, localVars
  <2>2. q \notin queue[1].emit
    <3>1. queue \in Seq(Batches) /\ queue # <<>>
      BY <1>1 DEF Inv, TypeOK, BatchQueueBounded
    <3> QED
      BY <1>5, <3>1
  <2>3. ASSUME NEW r \in Reqs PROVE Landing(r)' >= Landing(r)
    <3>1. Landing(r)' = Landing(r) /\ Landing(r) \in Nat
      BY <1>1, <1>3, <2>1, <2>2, LevelType DEF Landing
    <3> QED
      BY <3>1
  <2> QED
    BY <2>1, <2>3, SameCounted
<1> QED
  BY <1>3, <1>4, <1>5

\* The oldest batch leaves: its drafts are applied, new ones may be there.
LEMMA PopsCounted ==
  ASSUME Inv, FlightInv, Counted, Pops, Inv', FlightInv'
  PROVE  Counted'
<1>1. /\ pc = "output" /\ todo = {} /\ pc' = "idle"
      /\ UNCHANGED <<status, out, computed, placeholders, nsched, sspec>>
      /\ \A r \in Reqs : spec'[r] = spec[r] \/ spec'[r] <= NumSpecTokens
  BY DEF Pops, localVars
<1>2. ASSUME NEW r \in Reqs
      PROVE  /\ nsched'[r] >= 0 /\ (nsched'[r] = 0 => sspec'[r] = 0)
             /\ spec'[r] <= NumSpecTokens
             /\ status'[r] = "running" => Level(r)'
  <2>1. /\ spec'[r] <= NumSpecTokens
        /\ nsched[r] >= 0 /\ (nsched[r] = 0 => sspec[r] = 0)
        /\ status[r] = "running" => Level(r)
    BY <1>1, LevelType DEF Counted
  <2>2. /\ Landing(r) = 0 /\ Landing(r)' = 0
        /\ NumTokens(r)' = NumTokens(r) /\ Ceiling(r)' = Ceiling(r)
    BY <1>1 DEF Landing, NumTokens, Ceiling, MaxTotalTokens
  <2>3. ASSUME Level(r) PROVE Level(r)'
    BY <1>1, <2>2, <2>3 DEF Level
  <2> QED
    BY <1>1, <2>1, <2>3
<1> QED
  BY <1>1, <1>2 DEF Counted

\* Every step keeps the counts.
LEMMA StepCounted ==
  ASSUME Inv, QueueConsistency, PassInv, LifeInv, FlightInv, Counted, Exact,
         Inv', FlightInv', CoreNext
  PROVE  Counted'
<1>1. CASE Begins \/ PutsBack \/ PassesOver \/ LeavesRunning \/ (\E r \in Reqs : Skips(r))
  <2>1. /\ UNCHANGED <<computed, nsched, spec, placeholders, sspec, out, status>>
        /\ pc \notin {"output", "alloc"} /\ pc' \notin {"output", "alloc"}
    BY <1>1 DEF Begins, PutsBack, PassesOver, LeavesRunning, Skips, reqVars, localVars
  <2>2. \A r \in Reqs : Landing(r)' = 0 /\ Landing(r) = 0
    BY <2>1 DEF Landing
  <2> QED
    BY <2>1, <2>2, SameCounted
<1>2. CASE (\E r \in Reqs : GrammarReady(r)) \/ UNCHANGED vars
  <2>1. /\ UNCHANGED <<computed, nsched, spec, placeholders, sspec, out, status,
                       cur, num, pc, todo, queue>>
    BY <1>2 DEF GrammarReady, vars, reqVars, localVars
  <2>2. ASSUME NEW r \in Reqs PROVE Landing(r)' >= Landing(r)
    <3>1. Landing(r)' = Landing(r) /\ Landing(r) \in Nat
      BY <2>1, LevelType DEF Landing
    <3> QED
      BY <3>1
  <2> QED
    BY <2>1, <2>2, SameCounted
<1>3. ASSUME NEW r \in Reqs, AddRequest(r) \/ Abort(r) PROVE Counted'
  <2>1. /\ pc = "idle" /\ pc' = "idle" /\ UNCHANGED <<nsched, sspec>>
        /\ status'[r] # "running"
        /\ spec'[r] <= NumSpecTokens
        /\ \A o \in Reqs : o # r => /\ out'[o] = out[o] /\ computed'[o] = computed[o]
                                    /\ placeholders'[o] = placeholders[o]
                                    /\ spec'[o] = spec[o] /\ status'[o] = status[o]
    <3>1. spec[r] <= NumSpecTokens /\ 0 <= NumSpecTokens
      BY LevelType DEF Counted
    <3>2. CASE AddRequest(r)
      BY <3>1, <3>2 DEF AddRequest, localVars, Inv, TypeOK
    <3>3. CASE Abort(r)
      BY <3>1, <3>3 DEF Abort, Finish, localVars, Inv, TypeOK
    <3> QED
      BY <1>3, <3>2, <3>3
  <2>2. ASSUME NEW o \in Reqs, status'[o] = "running" PROVE Level(o)'
    <3>1. o # r /\ Level(o) /\ Landing(o)' = 0 /\ Landing(o) = 0
      BY <2>1, <2>2 DEF Counted, Landing
    <3> QED
      BY <2>1, <2>2, <3>1, LevelKept
  <2>3. \A o \in Reqs : spec'[o] <= NumSpecTokens
    BY <2>1 DEF Counted
  <2> QED
    BY <2>1, <2>2, <2>3 DEF Counted
<1>4. CASE Picks
  <2>1. PICK c \in Reqs : c = running[idx] /\ c = cur'
    <3>1. running \in Seq(Reqs) /\ idx \in DOMAIN running
      BY <1>4 DEF Picks, Inv, TypeOK
    <3> QED
      BY <1>4, <3>1 DEF Picks
  <2>2. /\ UNCHANGED <<computed, nsched, spec, placeholders, sspec, out, status>>
        /\ pc = "running" /\ pc' = "alloc"
        /\ num' > 0 /\ num' <= Remaining(c) /\ computed[c] + num' <= Ceiling(c)
    BY <1>4, <2>1 DEF Picks, reqVars
  <2>3. ASSUME NEW o \in Reqs, status'[o] = "running" PROVE Level(o)'
    <3>1. Level(o) /\ Landing(o)' = 0 /\ Landing(o) = 0
      BY <2>2, <2>3 DEF Counted, Landing
    <3> QED
      BY <2>2, <2>3, <3>1, LevelKept
  <2>4. Remaining(c)' = Remaining(c) /\ Ceiling(c)' = Ceiling(c)
    BY <2>2 DEF Remaining, Ceiling, NumTokens, MaxTotalTokens
  <2>5. /\ Remaining(cur)' = Remaining(c)' /\ Ceiling(cur)' = Ceiling(c)'
        /\ num' \in Int
    BY <1>4, <2>1 DEF Picks
  <2> QED
    BY <2>1, <2>2, <2>3, <2>4, <2>5 DEF Counted
<1>5. CASE Drain
  <2>1. /\ UNCHANGED <<computed, nsched, spec, placeholders, sspec, out, status>>
        /\ pc = "idle" /\ pc' = "output"
    BY <1>5 DEF Drain, StartOutput, reqVars, localVars
  <2>2. ASSUME NEW r \in Reqs PROVE Landing(r)' >= Landing(r)
    <3>1. Landing(r) = 0 /\ Landing(r)' \in Nat
      BY <2>1, LandingNext DEF Landing
    <3> QED
      BY <3>1
  <2> QED
    BY <2>1, <2>2, SameCounted
<1> QED
  BY <1>1, <1>2, <1>3, <1>4, <1>5, AdmitsCounted, ScheduleRunningCounted, PreemptCounted,
     CommitsCounted, OutputCounted, PopsCounted DEF CoreNext, PassStep, ClientStep

-----------------------------------------------------------------------------
(* Two batches in flight without async scheduling.                          *)

\* Nothing is speculated and nothing is a placeholder then, and a request in
\* flight is in the first batch, the second, or both.
LEMMA PipelinedFacts ==
  ASSUME Inv, FlightInv, Counted, Pipelined, NEW r \in Reqs
  PROVE  /\ spec[r] = 0 /\ sspec[r] = 0 /\ placeholders[r] = 0
         /\ InFlight(r) \subseteq {1, 2}
         /\ pc # "output" => InFlight(r) \subseteq {1}
<1>1. spec[r] = 0 /\ sspec[r] = 0
  <2>1. NumSpecTokens = 0
    BY CoreAssumption DEF Pipelined
  <2> QED
    BY <2>1, LevelType DEF Counted
<1>2. placeholders[r] = 0
  BY DEF Pipelined, FlightInv, Awaited
<1>3. /\ Len(queue) \in Nat /\ DOMAIN queue = 1 .. Len(queue)
      /\ Len(queue) <= 2 /\ (pc # "output" => Len(queue) < 2)
  BY DEF Inv, TypeOK, BatchQueueBounded, PassState, Pipelined
<1> QED
  BY <1>1, <1>2, <1>3 DEF InFlight

\* The steps of a pass: a request in flight is not picked, not admitted, and
\* only in the first batch when it is preempted.
LEMMA PassSingle ==
  ASSUME Inv, QueueConsistency, PassInv, FlightInv, Counted, Pipelined, Single, PassStep
  PROVE  Single'
<1>1. /\ UNCHANGED <<queue, submissions, out, placeholders, todo>>
      /\ pc # "output" /\ pc' # "output"
  BY DEF PassStep, Begins, PutsBack, PassesOver, Picks, ScheduleRunning,
     LeavesRunning, Skips, Preempt, Admits, reqVars
<1>2. \A r : InFlight(r)' = InFlight(r) /\ NumTokens(r)' = NumTokens(r)
  BY <1>1 DEF InFlight, NumTokens
<1>3. CASE Begins \/ PutsBack \/ PassesOver \/ Picks \/ LeavesRunning
           \/ \E r \in Reqs : Skips(r)
  <2>1. UNCHANGED <<status, computed, nsched>>
    BY <1>3 DEF Begins, PutsBack, PassesOver, Picks, LeavesRunning, Skips,
       reqVars, localVars
  <2>2. ASSUME NEW r \in Reqs, Live(r), InFlight(r) # {}, status[r] # "running"
        PROVE  pc' \notin {"idle", "waiting"}
    <3>1. pc \notin {"idle", "waiting"}
      BY <2>2 DEF Single
    <3>2. CASE LeavesRunning
      BY <2>2, <3>2 DEF LeavesRunning, SampledRun
    <3>3. CASE Begins
      BY <3>1, <3>3 DEF Begins
    <3>4. CASE PutsBack \/ PassesOver \/ Picks
      BY <3>4 DEF PutsBack, PassesOver, Picks
    <3>5. ASSUME NEW o \in Reqs, Skips(o) PROVE pc' \notin {"idle", "waiting"}
      BY <3>1, <3>5 DEF Skips
    <3> QED
      BY <1>3, <3>2, <3>3, <3>4, <3>5
  <2> QED
    BY <1>2, <2>1, <2>2 DEF Single
<1>4. CASE ScheduleRunning
  <2>1. PICK c \in Reqs : c = cur
    BY <1>4 DEF ScheduleRunning, Inv, PassState
  <2>2. /\ pc = "alloc" /\ pc' = "running" /\ status' = status /\ computed' = computed
        /\ \A r \in Reqs : r # c => nsched'[r] = nsched[r]
    BY <1>4, <2>1 DEF ScheduleRunning, Inv, TypeOK
  <2>3. status[c] = "running"
    BY <2>1, <2>2 DEF PassInv, Picked, QueueConsistency
  <2>4. Remaining(c) > 0
    <3>1. 0 < num /\ num <= Remaining(c) /\ num \in Int
      BY <2>1, <2>2 DEF Counted, Inv, TypeOK
    <3> QED
      BY <3>1, LevelType
  <2>5. computed[c] # NumTokens(c)
    <3>1. spec[c] = 0 /\ placeholders[c] = 0
      BY PipelinedFacts
    <3> QED
      BY <2>4, <3>1, LevelType DEF Remaining
  <2>6. InFlight(c) = {}
    BY <2>3, <2>5 DEF Single
  <2> QED
    BY <1>2, <2>2, <2>6 DEF Single
<1>5. ASSUME NEW v \in Reqs, Preempt(v) PROVE Single'
  <2>1. /\ pc = "alloc" /\ pc' \in {"alloc", "commit"}
        /\ status' = [status EXCEPT ![v] = "preempted"]
        /\ computed' = [computed EXCEPT ![v] = 0]
        /\ nsched' = nsched \/ nsched' = [nsched EXCEPT ![v] = 0]
    BY <1>5 DEF Preempt
  <2>2. /\ status'[v] = "preempted" /\ nsched'[v] \in {nsched[v], 0}
        /\ \A r \in Reqs : r # v => /\ status'[r] = status[r] /\ computed'[r] = computed[r]
                                    /\ nsched'[r] = nsched[r]
    <3>1. /\ nsched \in [Reqs -> Int] /\ computed \in [Reqs -> Int]
          /\ status \in [Reqs -> Statuses]
      BY DEF Inv, TypeOK
    <3>2. /\ status'[v] = "preempted"
          /\ \A r \in Reqs : r # v => status'[r] = status[r] /\ computed'[r] = computed[r]
      BY <2>1, <3>1
    <3>3. /\ nsched'[v] \in {nsched[v], 0}
          /\ \A r \in Reqs : r # v => nsched'[r] = nsched[r]
      BY <2>1, <3>1
    <3> QED
      BY <3>2, <3>3
  <2>3. status[v] = "running" /\ Live(v)
    BY <1>5 DEF Preempt, IsVictim, QueueConsistency
  <2>4. 2 \notin InFlight(v)
    BY <2>1, PipelinedFacts
  <2> QED
    BY <1>2, <2>1, <2>2, <2>3, <2>4 DEF Single
<1>6. ASSUME NEW r \in Reqs, NEW n \in Int, Admits(r, n) PROVE Single'
  <2>1. /\ pc = "waiting" /\ pc' = "waiting" /\ r \in Elems(waiting) /\ computed' = computed
        /\ \A o \in Reqs : o # r => status'[o] = status[o] /\ nsched'[o] = nsched[o]
    BY <1>6 DEF Admits, Inv, TypeOK
  <2>2. Live(r) /\ status[r] # "running"
    BY <2>1 DEF QueueConsistency
  <2>3. InFlight(r) = {}
    BY <2>1, <2>2 DEF Single
  <2> QED
    BY <1>2, <2>1, <2>3 DEF Single
<1> QED
  BY <1>3, <1>4, <1>5, <1>6 DEF PassStep

\* What a new batch samples is computed to its end, and was not in flight; a
\* batch behind another one waits for the other's output.
LEMMA CommitsSingle ==
  ASSUME Inv, QueueConsistency, PassInv, FlightInv, Counted, Pipelined, Single, Commits
  PROVE  Single'
<1>1. /\ pc = "commit" /\ UNCHANGED <<status, out>> /\ nsched' = Zero
      /\ computed' = [r \in Reqs |-> computed[r] + nsched[r]]
      /\ pc' \in {"idle", "output"}
      /\ pc' = "idle" => QueueHasRoom(Append(queue, NewBatch))
  BY DEF Commits, StartOutput
<1>2. /\ queue \in Seq(Batches) /\ Len(queue) \in Nat /\ DOMAIN queue = 1 .. Len(queue)
      /\ Len(queue) < 2
  BY <1>1 DEF Inv, TypeOK, PassState, Pipelined
<1>3. pc' = "idle" => queue = <<>>
  <2>1. Len(Append(queue, NewBatch)) = Len(queue) + 1
    BY <1>2
  <2>2. pc' = "idle" => Len(queue) = 0
    BY <1>1, <1>2, <2>1 DEF QueueHasRoom, Pipelined
  <2> QED
    BY <1>2, <2>2
<1>4. ASSUME NEW r \in Reqs, Live(r), InFlight(r)' # {}
      PROVE  /\ ~(1 \in InFlight(r)' /\ 2 \in InFlight(r)')
             /\ status[r] = "running" => computed'[r] = NumTokens(r)
             /\ status[r] # "running" => 2 \notin InFlight(r)' /\ pc' = "output"
  <2>1. InFlight(r)' = InFlight(r) \cup (IF r \in Emitting THEN {Len(queue) + 1} ELSE {})
    BY <1>4, CommitsFlight
  <2>2. InFlight(r) \subseteq {1} /\ sspec[r] = 0 /\ placeholders[r] = 0
    BY <1>1, PipelinedFacts
  <2>3. computed'[r] = computed[r] + nsched[r]
    BY <1>1
  <2>4. CASE r \in Emitting
    <3>1. nsched[r] > 0 /\ computed[r] + nsched[r] = NumTokens(r) + 0 + 0
      BY <2>2, <2>4 DEF Emitting, Scheduled
    <3>2. status[r] = "running"
      BY <1>1, <2>4 DEF Emitting, PassInv, BudgetRespected, Scheduling, QueueConsistency
    <3>3. InFlight(r) = {}
      BY <1>4, <3>1 DEF Single
    <3>4. computed'[r] = NumTokens(r)
      BY <2>3, <3>1, LevelType
    <3>5. ~(1 \in InFlight(r)' /\ 2 \in InFlight(r)')
      BY <2>1, <2>4, <3>3
    <3> QED
      BY <3>2, <3>4, <3>5
  <2>5. CASE r \notin Emitting
    <3>1. InFlight(r)' = InFlight(r) /\ InFlight(r) # {}
      BY <1>4, <2>1, <2>5
    <3>2. nsched[r] = 0 /\ (status[r] = "running" => computed[r] = NumTokens(r))
      BY <1>4, <3>1 DEF Single
    <3>3. queue # <<>>
      BY <3>1 DEF InFlight
    <3>4. computed'[r] = computed[r]
      BY <2>3, <3>2, LevelType
    <3> QED
      BY <1>1, <1>3, <2>2, <3>1, <3>2, <3>3, <3>4
  <2> QED
    BY <2>4, <2>5
<1>5. \A r \in Reqs : NumTokens(r)' = NumTokens(r) /\ nsched'[r] = 0
  BY <1>1 DEF NumTokens, Zero
<1> QED
  BY <1>1, <1>4, <1>5 DEF Single

\* Output is applied to a request that no other batch samples.
LEMMA OutputSingle ==
  ASSUME Inv, LifeInv, FlightInv, Counted, Pipelined, Single, OutputStep
  PROVE  Single'
<1>1. pc = "output" /\ pc' = "output" /\ nsched' = nsched /\ todo \subseteq Reqs
  BY DEF OutputStep, localVars, Inv, TypeOK
<1>2. ASSUME NEW o \in Reqs, Live(o)', out'[o] = out[o]
      PROVE  status'[o] = status[o] /\ computed'[o] = computed[o]
  <2>1. CASE UNCHANGED reqVars
    BY <2>1 DEF reqVars
  <2>2. ASSUME NEW r \in todo, NEW accepted \in Nat, NEW kept \in Nat, NEW stopped \in BOOLEAN,
               UpdateFromOutput(r, accepted, kept, stopped)
        PROVE  status'[o] = status[o] /\ computed'[o] = computed[o]
    <3>1. CASE Finish(r)
      <4>1. /\ status' = [status EXCEPT ![r] = "finished"]
            /\ computed' = [computed EXCEPT ![r] = 0]
        BY <3>1 DEF Finish
      <4>2. o # r
        BY <1>1, <1>2, <4>1 DEF Inv, TypeOK
      <4> QED
        BY <1>1, <4>1, <4>2 DEF Inv, TypeOK
    <3>2. CASE ~Finish(r)
      <4>1. /\ status' = status /\ out' = [out EXCEPT ![r] = out[r] + kept]
            /\ kept = accepted + 1
        BY <1>1, <2>2, <3>2, GoesOn
      <4>2. o # r
        <5>1. out[r] \in Nat /\ out'[r] = out[r] + kept
          BY <1>1, <4>1 DEF Inv, TypeOK
        <5> QED
          BY <1>2, <4>1, <5>1
      <4>3. \E x : computed' = [computed EXCEPT ![r] = x]
        BY <2>2, <3>2 DEF UpdateFromOutput
      <4> QED
        BY <1>1, <4>1, <4>2, <4>3 DEF Inv, TypeOK
    <3> QED
      BY <3>1, <3>2
  <2>3. PICK q \in todo : q = CHOOSE r \in todo : TRUE
    BY DEF OutputStep
  <2>4. CASE \E accepted \in 0 .. NumSpecTokens, kept \in 1 .. NumSpecTokens + 1,
                stopped \in BOOLEAN : UpdateFromOutput(q, accepted, kept, stopped)
    <3>1. PICK accepted \in 0 .. NumSpecTokens, kept \in 1 .. NumSpecTokens + 1,
               stopped \in BOOLEAN : UpdateFromOutput(q, accepted, kept, stopped)
      BY <2>4
    <3>2. accepted \in Nat /\ kept \in Nat
      BY <3>1, CoreAssumption
    <3> QED
      BY <2>2, <2>3, <3>1, <3>2
  <2> QED
    BY <2>1, <2>3, <2>4 DEF OutputStep
<1>3. ASSUME NEW o \in Reqs, Live(o)', InFlight(o)' # {}
      PROVE  Live(o) /\ InFlight(o)' = InFlight(o) /\ out'[o] = out[o]
  <2>1. /\ Live(o)
        /\ \/ InFlight(o)' = InFlight(o) /\ out'[o] = out[o]
           \/ InFlight(o)' = InFlight(o) \ {1} /\ 1 \in InFlight(o)
    BY <1>3, OutputFlight DEF Applied, Pipelined
  <2>2. 1 \in InFlight(o) => InFlight(o) \ {1} = {}
    <3>1. InFlight(o) \subseteq {1, 2}
      BY PipelinedFacts
    <3>2. 1 \in InFlight(o) => 2 \notin InFlight(o)
      BY <2>1 DEF Single
    <3> QED
      BY <3>1, <3>2
  <2> QED
    BY <1>3, <2>1, <2>2
<1>4. ASSUME NEW o \in Reqs, out'[o] = out[o] PROVE NumTokens(o)' = NumTokens(o)
  BY <1>4 DEF NumTokens
<1> QED
  BY <1>1, <1>2, <1>3, <1>4 DEF Single

\* Every step of a pipeline of two batches.
LEMMA StepSingle ==
  ASSUME Inv, QueueConsistency, PassInv, LifeInv, FlightInv, Counted, Pipelined, Single,
         CoreNext
  PROVE  Single'
<1>1. CASE PassStep
  BY <1>1, PassSingle
<1>2. CASE Commits
  BY <1>2, CommitsSingle
<1>3. CASE Drain
  BY <1>3 DEF Drain, HasRequests, Single, reqVars
<1>4. CASE OutputStep
  BY <1>4, OutputSingle
<1>5. CASE Pops
  <2>1. /\ pc = "output" /\ UNCHANGED <<status, out, computed, nsched>>
    BY <1>5 DEF Pops, localVars
  <2>2. ASSUME NEW r \in Reqs, Live(r), InFlight(r)' # {}
        PROVE  2 \in InFlight(r) /\ InFlight(r)' \subseteq {1}
    <3>1. \A i \in Nat \ {0} : i \in InFlight(r)' <=> i + 1 \in InFlight(r)
      BY <1>5, PopsFlight
    <3>2. InFlight(r) \subseteq {1, 2}
      BY PipelinedFacts
    <3>3. PICK i : i \in InFlight(r)'
      BY <2>2
    <3>4. \A j \in InFlight(r)' : j \in Nat \ {0}
      BY <1>5 DEF InFlight, Pops
    <3>5. \A j \in InFlight(r)' : j + 1 \in {1, 2} /\ j \in Nat \ {0} /\ j + 1 \in InFlight(r)
      BY <3>1, <3>2, <3>4
    <3>6. \A j \in InFlight(r)' : j = 1
      BY <3>5
    <3> QED
      BY <3>3, <3>5, <3>6
  <2>3. \A r : NumTokens(r)' = NumTokens(r)
    BY <2>1 DEF NumTokens
  <2>4. ASSUME NEW r \in Reqs, Live(r), InFlight(r)' # {}
        PROVE  nsched[r] = 0 /\ status[r] = "running" /\ computed[r] = NumTokens(r)
    BY <2>2, <2>4 DEF Single
  <2> QED
    BY <2>1, <2>2, <2>3, <2>4 DEF Single
<1>6. ASSUME NEW o \in Reqs, AddRequest(o) \/ Abort(o) PROVE Single'
  <2>1. /\ pc = "idle" /\ pc' = "idle" /\ UNCHANGED <<queue, todo, nsched>>
        /\ \A r \in Reqs : r # o => /\ status'[r] = status[r] /\ out'[r] = out[r]
                                    /\ computed'[r] = computed[r]
                                    /\ submissions'[r] = submissions[r]
    <3>1. CASE AddRequest(o)
      BY <3>1 DEF AddRequest, localVars, Inv, TypeOK
    <3>2. CASE Abort(o)
      BY <3>2 DEF Abort, Finish, localVars, Inv, TypeOK
    <3> QED
      BY <1>6, <3>1, <3>2
  <2>2. ~Live(o)' \/ InFlight(o)' = {}
    <3>1. CASE AddRequest(o)
      BY <3>1, AddRequestFlight DEF Inv
    <3>2. CASE Abort(o)
      BY <3>2 DEF Abort, Finish, Inv, TypeOK
    <3> QED
      BY <1>6, <3>1, <3>2
  <2>3. \A r \in Reqs : r # o => /\ InFlight(r)' = InFlight(r)
                                 /\ NumTokens(r)' = NumTokens(r)
    BY <2>1 DEF InFlight, NumTokens
  <2> QED
    BY <2>1, <2>2, <2>3 DEF Single
<1>7. CASE (\E r \in Reqs : GrammarReady(r)) \/ UNCHANGED vars
  <2>1. UNCHANGED <<queue, submissions, out, todo, pc, status, computed, nsched>>
    BY <1>7 DEF GrammarReady, vars, reqVars, localVars
  <2>2. \A r : InFlight(r)' = InFlight(r) /\ NumTokens(r)' = NumTokens(r)
    BY <2>1 DEF InFlight, NumTokens
  <2> QED
    BY <2>1, <2>2 DEF Single
<1> QED
  BY <1>1, <1>2, <1>3, <1>4, <1>5, <1>6, <1>7 DEF CoreNext, ClientStep

-----------------------------------------------------------------------------
(* All of it together.                                                      *)

\* The inductive invariant of every scheduler made of these steps.
CoreInv ==
  /\ Inv /\ QueueConsistency /\ BlockAccounting /\ PassInv /\ LifeInv /\ FlightInv
  /\ DraftsFit => Covered
  /\ Exact => Counted
  /\ Pipelined => Single

\* It holds initially, in a state that maps to the initial one of a life.
LEMMA InitCore ==
  ASSUME Init
  PROVE  CoreInv /\ Lifecycle!LifecycleInit
<1>1. QueueConsistency
  BY DEF Init, QueueConsistency, Elems, NoRepeats
<1>2. BlockAccounting
  <2>1. Sum(held) = 0 /\ free = NumBlocks /\ NumBlocks \in Nat
    BY SumZero, CoreAssumption DEF Init, Zero
  <2> QED
    BY <2>1 DEF BlockAccounting, Init, Zero
<1>3. PassInv
  <2>1. Unstarted /\ RunningBound
    BY CoreAssumption DEF Init, Unstarted, RunningBound, Zero
  <2> QED
    BY <2>1 DEF Init, PassInv, Picked, AheadFree, WaitingFree, BudgetRespected,
       Scheduling
<1>4. LifeInv
  BY DEF Init, LifeInv, Zero
<1>5. Phases = [r \in Reqs |-> "gone"]
  BY DEF Init, Phases, Phase
<1>6. Lifecycle!LifecycleInit
  BY <1>5 DEF Init, Zero, Lifecycle!LifecycleInit, Phases
<1>7. FlightInv
  <2>1. \A r \in Reqs : ~Live(r)
    BY DEF Init
  <2>2. Submitted /\ Awaited /\ Placed
    BY <2>1, CoreAssumption DEF Init, Zero, Submitted, Awaited, Placed
  <2>3. Tagged
    BY DEF Init, Tagged
  <2> QED
    BY <2>2, <2>3 DEF FlightInv
<1>8. Covered
  BY DEF Init, Covered, Scheduling
<1>9. Counted
  BY CoreAssumption DEF Init, Counted, Zero
<1>10. Single
  BY DEF Init, Single
<1> QED
  BY <1>1, <1>2, <1>3, <1>4, <1>6, <1>7, <1>8, <1>9, <1>10, InitInv DEF CoreInv

\* Every step keeps it, and is a step of a life or none.
LEMMA StepCore ==
  ASSUME CoreInv, CoreNext
  PROVE  CoreInv' /\ [Lifecycle!LifecycleNext]_(Lifecycle!lifecycleVars)
<1>1. /\ Inv /\ QueueConsistency /\ BlockAccounting /\ PassInv /\ LifeInv
      /\ RunningBound /\ FlightInv /\ (DraftsFit => Covered) /\ (Exact => Counted)
      /\ (Pipelined => Single)
  BY DEF CoreInv, PassInv
<1>2. DraftsFit => Covered'
  BY <1>1, StepCovered
<1>3. (DraftsFit' <=> DraftsFit) /\ (Exact' <=> Exact) /\ (Pipelined' <=> Pipelined)
  BY DEF DraftsFit, Exact, Pipelined
<1>4. Inv' /\ QueueConsistency' /\ BlockAccounting' /\ PassInv' /\ FlightInv'
  BY <1>1, StepInv, StepConsistent, StepAccounts, StepPass, StepFlight
<1>5. Exact => Counted'
  BY <1>1, <1>4, StepCounted
<1>6. Pipelined => Single'
  <2>1. Pipelined => Exact
    BY DEF Pipelined, Exact
  <2> QED
    BY <1>1, <2>1, StepSingle
<1> QED
  BY <1>1, <1>2, <1>3, <1>4, <1>5, <1>6, StepLives DEF CoreInv

\* What the invariant says of the placeholders and of sampled positions.
LEMMA FlightFacts ==
  ASSUME CoreInv, MaxSubmissions = 1
  PROVE  /\ PlaceholderAccounting
         /\ InOrder => OutputsInSequence
<1>1. Inv /\ FlightInv /\ TypeOK /\ LifeInv
  BY DEF CoreInv, Inv
<1>2. ASSUME AsyncScheduling, NEW r \in Reqs, Live(r)
      PROVE  placeholders[r] = Sum([i \in InFlight(r) |-> 1 + queue[i].s[r]])
  <2>1. placeholders[r] = Owed(r)
    BY <1>1, <1>2 DEF FlightInv, Awaited
  <2> QED
    BY <1>1, <1>2, <2>1, OwedIsSum
<1>3. ASSUME InOrder, pc = "output", NEW r \in todo \cap Head(queue).emit,
             Head(queue).sub[r] = submissions[r]
      PROVE  Head(queue).base[r] - Head(queue).lost[r] = NumTokens(r)
  <2>1. r \in Reqs /\ Live(r)
    BY <1>1 DEF TypeOK, LifeInv
  <2>2. 1 \in DOMAIN queue /\ Head(queue) = queue[1]
    <3>1. queue \in Seq(Batches) /\ queue # <<>>
      BY <1>1, <1>3 DEF TypeOK, Inv, BatchQueueBounded
    <3> QED
      BY <3>1
  <2>3. 1 \in InFlight(r)
    BY <1>3, <2>2 DEF InFlight
  <2> QED
    BY <1>1, <1>3, <2>1, <2>2, <2>3 DEF FlightInv, Placed
<1> QED
  BY <1>2, <1>3 DEF PlaceholderAccounting, OutputsInSequence

\* What it says of the slots and positions of a batch.
LEMMA CoveredFacts ==
  ASSUME CoreInv, DraftsFit
  PROVE  /\ SlotsCoverSchedule
         /\ pc = "commit" => \A r \in Scheduled(nsched) :
              computed[r] + nsched[r] <= MaxModelLen
BY DEF CoreInv, Covered, SlotsCoverSchedule, Scheduling

\* A prompt that waits has tokens to compute, within the model length.
LEMMA PrefillFits ==
  ASSUME CoreInv, NEW r \in Elems(waiting)
  PROVE  /\ r \in Reqs /\ PrefillTokens(r) \in Int /\ PrefillTokens(r) > 0
         /\ computed[r] + PrefillTokens(r) <= MaxModelLen
         /\ PrefillTokens(r) <= NumTokens(r) - computed[r]
<1>1. r \in Reqs /\ TypeOK
  BY ElemsType DEF CoreInv, Inv, TypeOK
<1>2. computed[r] \in Int /\ computed[r] <= 0 /\ Live(r)
  <2>1. status[r] \in {"waiting", "waiting_fsm", "preempted"}
    BY <1>1 DEF CoreInv, QueueConsistency
  <2> QED
    BY <1>1, <2>1 DEF CoreInv, PassInv, Unstarted, TypeOK
<1>3. NumTokens(r) \in Nat /\ LongPrefillThreshold \in Nat /\ MaxTotalTokens(r) \in Int
      /\ Prompt[r] \in Nat /\ MaxTokens[r] \in Nat /\ MaxModelLen \in Nat
      /\ 0 < NumTokens(r)
  <2>1. Prompt[r] \in Nat \ {0} /\ out[r] \in Nat
    BY <1>1, CoreAssumption DEF TypeOK
  <2>2. 0 < NumTokens(r)
    BY <2>1 DEF NumTokens
  <2> QED
    BY <1>1, <2>2, TokensType, CoreAssumption
<1>4. NumTokens(r) < MaxTotalTokens(r)
  BY <1>1, <1>2 DEF CoreInv, FlightInv, Submitted
<1>5. MaxTotalTokens(r) <= MaxModelLen
  BY <1>3 DEF MaxTotalTokens, MinOf
<1> QED
  BY <1>1, <1>2, <1>3, <1>4, <1>5 DEF PrefillTokens

\* A request the running loop comes to is not scheduled yet, and has no fewer
\* tokens than are computed.
LEMMA NextRunning ==
  ASSUME CoreInv, pc = "running", idx <= Len(running)
  PROVE  /\ running[idx] \in Reqs
         /\ Exact => /\ Remaining(running[idx]) >= 0
                     /\ computed[running[idx]] <= Ceiling(running[idx])
<1>1. Inv /\ QueueConsistency /\ PassInv /\ FlightInv
  BY DEF CoreInv
<1>2. idx \in DOMAIN running
  BY <1>1, PassFacts
<1>3. PICK r \in Reqs : r = running[idx] /\ r \in Elems(running)
  BY <1>1, <1>2 DEF Elems, Inv, TypeOK
<1>4. nsched[r] = 0 /\ status[r] = "running"
  <2>1. idx >= idx
    BY <1>1, PassFacts
  <2> QED
    BY <1>1, <1>2, <1>3, <2>1 DEF PassInv, AheadFree, QueueConsistency
<1>5. ASSUME Exact PROVE Remaining(r) >= 0 /\ computed[r] <= Ceiling(r)
  <2>1. Level(r) /\ sspec[r] = 0 /\ Landing(r) = 0
    BY <1>4, <1>5 DEF CoreInv, Counted, Landing
  <2>2. computed[r] + 0 <= NumTokens(r) + placeholders[r] + 0 + 0
        /\ computed[r] + 0 <= Ceiling(r)
    BY <1>4, <2>1 DEF Level
  <2>3. /\ computed[r] \in Int /\ NumTokens(r) \in Int /\ spec[r] \in Nat
        /\ placeholders[r] \in Int /\ Ceiling(r) \in Int
    BY <1>1, LevelType
  <2>4. computed[r] <= NumTokens(r) + placeholders[r] /\ computed[r] <= Ceiling(r)
    BY <2>2, <2>3
  <2>5. PICK a \in Int, b \in Nat, c \in Int, d \in Int :
          a = NumTokens(r) /\ b = spec[r] /\ c = placeholders[r] /\ d = computed[r]
    BY <2>3
  <2>6. Remaining(r) = a + b + c - d
    BY <2>5 DEF Remaining
  <2>7. d <= a + c
    BY <2>4, <2>5
  <2> QED
    BY <2>4, <2>6, <2>7
<1> QED
  BY <1>3, <1>5

\* FinishOutput takes the oldest batch off the queue.
LEMMA FinishPops ==
  ASSUME Inv, FinishOutput
  PROVE  Pops
<1>1. /\ pc = "output" /\ pc' = "idle" /\ todo = {} /\ queue' = Tail(queue)
      /\ queue \in Seq(Batches) /\ queue # <<>> /\ spec \in [Reqs -> Nat]
      /\ NumSpecTokens \in Nat
  BY CoreAssumption DEF FinishOutput, Inv, TypeOK, BatchQueueBounded
<1>2. /\ queue' \in Seq(Batches) /\ Len(queue') = Len(queue) - 1
      /\ \A i \in 1 .. Len(queue) - 1 : queue'[i] = queue[i + 1]
  BY <1>1
<1>3. /\ spec' \in [Reqs -> Nat]
      /\ \A r \in Reqs : spec'[r] = spec[r] \/ spec'[r] <= NumSpecTokens
  BY <1>1 DEF FinishOutput, HandOverDrafts
<1> QED
  BY <1>1, <1>2, <1>3 DEF FinishOutput, Pops

-----------------------------------------------------------------------------
(* The model runner.  Every output it has not executed yet fits what the    *)
(* ones before it will have left in its caches: a request that is sent      *)
(* without its data is known by then, and the new blocks complete the ones  *)
(* that are known.                                                          *)

\* What the code keeps.
Outputs ==
  [new : SUBSET Reqs, resumed : SUBSET Reqs, blocks : [Reqs -> Int],
   computed : [Reqs -> Int], finished : SUBSET Reqs, held : [Reqs -> Nat],
   outs : [Reqs -> Int]]
States ==
  [known : BOOLEAN, computed : Int, outs : Int, blocks : Int, draftLen : Int]

RunnerType ==
  /\ newReqs \subseteq Reqs /\ resumedReqs \subseteq Reqs
  /\ newBlocks \in [Reqs -> Int] /\ counts \in [Reqs -> Int]
  /\ sent \in Seq(Outputs) /\ executed \in BOOLEAN
  /\ cached \in [Reqs -> States] /\ inBatch \subseteq Reqs

\* How many of the batches in the queue are executed, the requests of batch
\* i, and those of the persistent batch it will find.
Done == IF executed THEN 1 ELSE 0
Batch(i) == Scheduled(queue[i].n)
Before(i) == IF i = Done THEN inBatch ELSE Batch(i)

\* No batch from i to k touches r.
Quiet(r, i, k) == \A j \in i .. k : r \notin Batch(j) /\ r \notin sent[j].finished

\* After batch i the worker knows r, with v blocks.
Knows(r, i, v) ==
  \/ /\ cached[r].known /\ (Exact => v = cached[r].blocks)
     /\ Quiet(r, Done + 1, i)
  \/ \E j \in Done + 1 .. i :
       /\ r \in Batch(j) /\ (Exact => v = sent[j].held[r])
       /\ Quiet(r, j + 1, i)

\* Batch i tells the worker what it needs to know of r: a resumed request is
\* not in the persistent batch, where its blocks would be added up, and one
\* sent without its data is known.
Told(i, r) ==
  /\ r \in sent[i].new \cup sent[i].resumed =>
       (Exact => sent[i].blocks[r] = sent[i].held[r])
  /\ r \in sent[i].resumed => r \notin Before(i - 1)
  /\ r \notin sent[i].new =>
       /\ r \notin sent[i].finished
       /\ \E w \in Int :
            /\ Knows(r, i - 1, w)
            /\ Exact /\ r \notin sent[i].resumed
                 => w + sent[i].blocks[r] = sent[i].held[r]

\* One output for each batch in the queue; a batch is executed while the
\* engine waits for it, and the answers it waits for are of that batch.
Paired ==
  /\ Len(sent) = Len(queue) /\ (executed => pc = "output")
  /\ pc = "output" => todo \subseteq Batch(1)

Instructed ==
  \A i \in Done + 1 .. Len(queue) :
    sent[i].new \subseteq Batch(i) /\ \A r \in Batch(i) : Told(i, r)

Prepared ==
  executed => \A r \in Batch(1) :
    cached[r].known /\ (Exact => cached[r].blocks = sent[1].held[r])

\* What the worker will know of r after the queue, with the new blocks of
\* this pass what the request owns.
Recalled(r) ==
  /\ r \notin finished
  /\ \E w \in Int :
       /\ Knows(r, Len(queue), w)
       /\ Exact /\ status[r] = "running" /\ r \notin resumedReqs
            => w + newBlocks[r] = held[r]

\* A request that may be resumed is not in the persistent batch any more.
Resumable == \A r \in Reqs : status[r] = "preempted" => r \notin Before(Len(queue))

Upcoming(r) ==
  /\ r \in newReqs \cup resumedReqs =>
       /\ pc \in {"waiting", "commit"} /\ status[r] = "running"
       /\ nsched[r] > 0 /\ newBlocks[r] = held[r]
  /\ (status[r] = "running" /\ r \notin newReqs) \/ status[r] = "preempted"
       => Recalled(r)
  /\ r \in resumedReqs => r \notin Before(Len(queue))
  /\ nsched[r] = 0 => newBlocks[r] = 0

RunnerInv ==
  /\ RunnerType /\ Paired /\ Instructed /\ Prepared
  /\ \A r \in Reqs : Upcoming(r)
  /\ pc \in {"idle", "output", "waiting"} => Resumable

\* The steps of the engine the worker hears of.
Moves == PassStep \/ Commits \/ Drain \/ OutputStep \/ Pops \/ ClientStep
Hears == Engine(Moves)

\* The batches as numbers.
LEMMA RunnerNumbers ==
  ASSUME Inv, RunnerType, Paired
  PROVE  /\ Done \in {0, 1} /\ Len(queue) \in Nat /\ Len(sent) = Len(queue)
         /\ Done <= Len(queue)
         /\ \A i \in 1 .. Len(queue) :
              /\ sent[i] \in Outputs /\ queue[i] \in Batches
              /\ sent[i].new \subseteq Reqs /\ sent[i].resumed \subseteq Reqs
              /\ sent[i].finished \subseteq Reqs /\ sent[i].blocks \in [Reqs -> Int]
              /\ sent[i].held \in [Reqs -> Nat] /\ sent[i].computed \in [Reqs -> Int]
              /\ sent[i].outs \in [Reqs -> Int]
              /\ queue[i].n \in [Reqs -> Int] /\ queue[i].s \in [Reqs -> Int]
              /\ Batch(i) \subseteq Reqs
<1>1. /\ queue \in Seq(Batches) /\ sent \in Seq(Outputs) /\ executed \in BOOLEAN
      /\ Len(sent) = Len(queue) /\ (executed => pc = "output")
      /\ pc = "output" => queue # <<>>
  BY DEF Inv, TypeOK, RunnerType, Paired, BatchQueueBounded
<1>2. /\ Done \in {0, 1} /\ Len(queue) \in Nat /\ Done <= Len(queue)
  BY <1>1 DEF Done
<1>3. ASSUME NEW i \in 1 .. Len(queue) PROVE sent[i] \in Outputs /\ queue[i] \in Batches
  BY <1>1, <1>3
<1>4. ASSUME NEW i \in 1 .. Len(queue)
      PROVE  /\ sent[i].new \subseteq Reqs /\ sent[i].resumed \subseteq Reqs
             /\ sent[i].finished \subseteq Reqs /\ sent[i].blocks \in [Reqs -> Int]
             /\ sent[i].held \in [Reqs -> Nat] /\ sent[i].computed \in [Reqs -> Int]
             /\ sent[i].outs \in [Reqs -> Int]
             /\ queue[i].n \in [Reqs -> Int] /\ queue[i].s \in [Reqs -> Int]
             /\ Batch(i) \subseteq Reqs
  <2>1. sent[i] \in Outputs /\ queue[i] \in Batches
    BY <1>3
  <2> QED
    BY <2>1 DEF Outputs, Batches, Batch, Scheduled
<1> QED
  BY <1>1, <1>2, <1>3, <1>4

-----------------------------------------------------------------------------
(* What a step leaves of the outputs in the queue.                          *)

\* Outputs that stay where they are say the same.
LEMMA HistoryStays ==
  ASSUME Inv, RunnerType, Paired, executed' = executed, inBatch' = inBatch,
         \A i \in 1 .. Len(queue) : Batch(i)' = Batch(i) /\ sent'[i] = sent[i],
         NEW r \in Reqs, cached'[r].known = cached[r].known,
         cached'[r].blocks = cached[r].blocks
  PROVE  \A i \in Done .. Len(queue) :
           /\ Before(i)' = Before(i)
           /\ \A v \in Int : Knows(r, i, v) => Knows(r, i, v)'
           /\ i > Done /\ Told(i, r) => Told(i, r)'
<1>1. Done \in {0, 1} /\ Len(queue) \in Nat /\ Done' = Done /\ Exact' = Exact
  BY RunnerNumbers DEF Done, Exact
<1>2. ASSUME NEW i \in Done .. Len(queue) PROVE Before(i)' = Before(i)
  BY <1>1, <1>2 DEF Before
<1>3. ASSUME NEW i \in Int, NEW k \in Int, i >= Done + 1, k <= Len(queue), Quiet(r, i, k)
      PROVE  Quiet(r, i, k)'
  BY <1>1, <1>3 DEF Quiet
<1>4. ASSUME NEW i \in Done .. Len(queue), NEW v \in Int, Knows(r, i, v)
      PROVE  Knows(r, i, v)'
  <2>1. CASE cached[r].known /\ (Exact => v = cached[r].blocks) /\ Quiet(r, Done + 1, i)
    <3>1. Quiet(r, Done + 1, i)'
      <4>1. PICK d \in Int : d = Done + 1
        BY <1>1
      <4>2. Quiet(r, d, i)'
        BY <1>1, <1>3, <2>1, <4>1
      <4> QED
        BY <1>1, <4>1, <4>2 DEF Quiet
    <3> QED
      BY <1>1, <2>1, <3>1 DEF Knows
  <2>2. CASE \E j \in Done + 1 .. i :
               /\ r \in Batch(j) /\ (Exact => v = sent[j].held[r])
               /\ Quiet(r, j + 1, i)
    <3>1. PICK j \in Done + 1 .. i :
               /\ r \in Batch(j) /\ (Exact => v = sent[j].held[r])
               /\ Quiet(r, j + 1, i)
      BY <2>2
    <3>2. Quiet(r, j + 1, i)' /\ r \in Batch(j)' /\ (Exact => v = sent'[j].held[r])
      BY <1>1, <1>3, <3>1
    <3>3. j \in Done' + 1 .. i
      BY <1>1, <3>1
    <3> QED
      BY <1>1, <3>2, <3>3 DEF Knows
  <2> QED
    BY <1>4, <2>1, <2>2 DEF Knows
<1>5. ASSUME NEW i \in Done .. Len(queue), i > Done, Told(i, r) PROVE Told(i, r)'
  <2>1. i - 1 \in Done .. Len(queue) /\ sent'[i] = sent[i]
    BY <1>1, <1>5
  <2>2. Before(i - 1)' = Before(i - 1) /\ \A v \in Int : Knows(r, i - 1, v) => Knows(r, i - 1, v)'
    BY <1>2, <1>4, <2>1
  <2> QED
    BY <1>1, <1>5, <2>1, <2>2 DEF Told
<1> QED
  BY <1>2, <1>4, <1>5

\* When the oldest batch leaves, what was known of batch i + 1 is known of
\* batch i.
LEMMA HistoryMoves ==
  ASSUME Inv, RunnerType, Paired, executed, ~executed', inBatch' = inBatch,
         cached' = cached,
         \A i \in 1 .. Len(queue) - 1 : Batch(i)' = Batch(i + 1) /\ sent'[i] = sent[i + 1],
         NEW r \in Reqs
  PROVE  \A i \in 0 .. Len(queue) - 1 :
           /\ Before(i)' = Before(i + 1)
           /\ \A v \in Int : Knows(r, i + 1, v) => Knows(r, i, v)'
           /\ i > 0 /\ Told(i + 1, r) => Told(i, r)'
<1>1. Done = 1 /\ Len(queue) \in Nat /\ Done' = 0 /\ Exact' = Exact
  BY RunnerNumbers DEF Done, Exact
<1>2. ASSUME NEW i \in 0 .. Len(queue) - 1 PROVE Before(i)' = Before(i + 1)
  BY <1>1, <1>2 DEF Before
<1>3. ASSUME NEW i \in Int, NEW k \in Int, i >= 1, k <= Len(queue) - 1, Quiet(r, i + 1, k + 1)
      PROVE  Quiet(r, i, k)'
  <2>1. ASSUME NEW j \in i .. k PROVE r \notin Batch(j)' /\ r \notin sent'[j].finished
    <3>1. j + 1 \in i + 1 .. k + 1 /\ j \in 1 .. Len(queue) - 1
      BY <1>1, <1>3, <2>1
    <3>2. r \notin Batch(j + 1) /\ r \notin sent[j + 1].finished
      BY <1>3, <3>1 DEF Quiet
    <3> QED
      BY <3>1, <3>2
  <2> QED
    BY <2>1 DEF Quiet
<1>4. ASSUME NEW i \in 0 .. Len(queue) - 1, NEW v \in Int, Knows(r, i + 1, v)
      PROVE  Knows(r, i, v)'
  <2>1. CASE cached[r].known /\ (Exact => v = cached[r].blocks) /\ Quiet(r, Done + 1, i + 1)
    <3>1. Quiet(r, 1, i)'
      <4>1. ASSUME NEW j \in 1 .. i PROVE r \notin Batch(j)' /\ r \notin sent'[j].finished
        <5>1. j + 1 \in Done + 1 .. i + 1 /\ j \in 1 .. Len(queue) - 1
          BY <1>1, <4>1
        <5>2. r \notin Batch(j + 1) /\ r \notin sent[j + 1].finished
          BY <2>1, <5>1 DEF Quiet
        <5> QED
          BY <5>1, <5>2
      <4> QED
        BY <4>1 DEF Quiet
    <3>2. Quiet(r, Done + 1, i)'
      BY <1>1, <3>1 DEF Quiet
    <3> QED
      BY <1>1, <2>1, <3>2 DEF Knows
  <2>2. CASE \E j \in Done + 1 .. i + 1 :
               /\ r \in Batch(j) /\ (Exact => v = sent[j].held[r])
               /\ Quiet(r, j + 1, i + 1)
    <3>1. PICK j \in 2 .. i + 1 :
               /\ r \in Batch(j) /\ (Exact => v = sent[j].held[r])
               /\ Quiet(r, j + 1, i + 1)
      BY <1>1, <2>2
    <3>2. PICK m \in 1 .. i : j = m + 1
      <4>1. j - 1 \in 1 .. i /\ j = (j - 1) + 1
        BY <3>1
      <4> QED
        BY <4>1
    <3>3. r \in Batch(m)' /\ (Exact => v = sent'[m].held[r])
      <4>1. m \in 1 .. Len(queue) - 1
        BY <1>1, <3>2
      <4> QED
        BY <3>1, <3>2, <4>1
    <3>4. Quiet(r, m + 1, i)'
      <4>1. PICK p \in Int : p = m + 1
        BY <3>2
      <4>2. Quiet(r, p + 1, i + 1)
        BY <3>1, <3>2, <4>1
      <4>3. Quiet(r, p, i)'
        BY <1>1, <1>3, <3>2, <4>1, <4>2
      <4> QED
        BY <4>1, <4>3
    <3>5. m \in Done' + 1 .. i
      BY <1>1, <3>2
    <3> QED
      BY <1>1, <3>3, <3>4, <3>5 DEF Knows
  <2> QED
    BY <1>4, <2>1, <2>2 DEF Knows
<1>5. ASSUME NEW i \in 0 .. Len(queue) - 1, i > 0, Told(i + 1, r) PROVE Told(i, r)'
  <2>1. PICK m \in 0 .. Len(queue) - 1 : i = m + 1 /\ m = i - 1
    <3>1. i - 1 \in 0 .. Len(queue) - 1 /\ i = (i - 1) + 1
      BY <1>1, <1>5
    <3> QED
      BY <3>1
  <2>2. sent'[i] = sent[i + 1]
    BY <1>1, <1>5
  <2>3. Before(m)' = Before(i) /\ \A v \in Int : Knows(r, i, v) => Knows(r, m, v)'
    BY <1>2, <1>4, <2>1
  <2>4. i + 1 - 1 = i
    BY <1>1, <1>5
  <2> QED
    BY <1>1, <1>5, <2>1, <2>2, <2>3, <2>4 DEF Told
<1> QED
  BY <1>2, <1>4, <1>5

\* When the worker has executed the oldest batch, it knows what was known
\* after that batch.
LEMMA HistoryDone ==
  ASSUME Inv, RunnerType, Paired, Instructed, ~executed, executed',
         queue # <<>>, UNCHANGED <<queue, sent>>,
         inBatch' = Batch(1), NEW r \in Reqs,
         r \in Batch(1) =>
           cached'[r].known /\ (Exact => cached'[r].blocks = sent[1].held[r]),
         r \notin Batch(1) /\ r \notin sent[1].finished => cached'[r] = cached[r]
  PROVE  \A i \in 1 .. Len(queue) :
           /\ Before(i)' = Before(i)
           /\ \A v \in Int : Knows(r, i, v) => Knows(r, i, v)'
           /\ i > 1 /\ Told(i, r) => Told(i, r)'
<1>1. /\ Done = 0 /\ Len(queue) \in Nat /\ Done' = 1 /\ Exact' = Exact
      /\ queue' = queue /\ sent' = sent /\ Len(queue) >= 1
  <2>1. queue \in Seq(Batches)
    BY DEF Inv, TypeOK
  <2> QED
    BY <2>1, RunnerNumbers DEF Done, Exact
<1>2. \A i \in 1 .. Len(queue) : Batch(i)' = Batch(i)
  BY <1>1 DEF Batch, Scheduled
<1>3. ASSUME NEW i \in 1 .. Len(queue) PROVE Before(i)' = Before(i)
  BY <1>1, <1>2, <1>3 DEF Before
<1>4. ASSUME NEW i \in Int, NEW k \in Int, i >= 1, k <= Len(queue), Quiet(r, i, k)
      PROVE  Quiet(r, i, k)'
  BY <1>1, <1>2, <1>4 DEF Quiet
<1>5. ASSUME NEW i \in 1 .. Len(queue), NEW v \in Int, Knows(r, i, v)
      PROVE  Knows(r, i, v)'
  <2>1. CASE cached[r].known /\ (Exact => v = cached[r].blocks) /\ Quiet(r, Done + 1, i)
    <3>1. r \notin Batch(1) /\ r \notin sent[1].finished
      BY <1>1, <1>5, <2>1 DEF Quiet
    <3>2. Quiet(r, 2, i)
      BY <1>1, <1>5, <2>1 DEF Quiet
    <3>3. Quiet(r, 2, i)'
      BY <1>1, <1>4, <3>2
    <3>4. Quiet(r, Done + 1, i)'
      BY <1>1, <3>3 DEF Quiet
    <3> QED
      BY <1>1, <2>1, <3>1, <3>4 DEF Knows
  <2>2. CASE \E j \in Done + 1 .. i :
               /\ r \in Batch(j) /\ (Exact => v = sent[j].held[r])
               /\ Quiet(r, j + 1, i)
    <3>1. PICK j \in 1 .. i :
               /\ r \in Batch(j) /\ (Exact => v = sent[j].held[r])
               /\ Quiet(r, j + 1, i)
      BY <1>1, <2>2
    <3>2. Quiet(r, j + 1, i)' /\ r \in Batch(j)' /\ (Exact => v = sent'[j].held[r])
      BY <1>1, <1>2, <1>4, <3>1
    <3>3. CASE j = 1
      <4>1. Quiet(r, Done + 1, i)'
        BY <1>1, <3>2, <3>3 DEF Quiet
      <4>2. cached'[r].known /\ (Exact => v = cached'[r].blocks)
        BY <3>1, <3>3
      <4> QED
        BY <1>1, <4>1, <4>2 DEF Knows
    <3>4. CASE j # 1
      <4>1. j \in Done' + 1 .. i
        BY <1>1, <3>1, <3>4
      <4> QED
        BY <1>1, <3>2, <4>1 DEF Knows
    <3> QED
      BY <3>3, <3>4
  <2> QED
    BY <1>5, <2>1, <2>2 DEF Knows
<1>6. ASSUME NEW i \in 1 .. Len(queue), i > 1, Told(i, r) PROVE Told(i, r)'
  <2>1. i - 1 \in 1 .. Len(queue)
    BY <1>1, <1>6
  <2>2. Before(i - 1)' = Before(i - 1) /\ \A v \in Int : Knows(r, i - 1, v) => Knows(r, i - 1, v)'
    BY <1>3, <1>5, <2>1
  <2> QED
    BY <1>1, <1>6, <2>2 DEF Told
<1> QED
  BY <1>3, <1>5, <1>6

\* What the worker will know after the queue stays.
HistoryKept ==
  /\ \A r \in Reqs, v \in Int : Knows(r, Len(queue), v) => Knows(r, Len(queue), v)'
  /\ Before(Len(queue))' = Before(Len(queue))

\* A step that leaves the batches and the caches alone leaves what was told.
LEMMA NothingTold ==
  ASSUME Inv, RunnerType, Paired, Instructed, Prepared,
         sent' = sent, executed' = executed, inBatch' = inBatch,
         Len(queue') = Len(queue),
         \A i \in 1 .. Len(queue) : Batch(i)' = Batch(i),
         \A r \in Reqs : /\ cached'[r].known = cached[r].known
                         /\ cached'[r].blocks = cached[r].blocks
  PROVE  Instructed' /\ Prepared' /\ HistoryKept
<1>1. /\ Done \in {0, 1} /\ Len(queue) \in Nat /\ Done' = Done /\ Exact' = Exact
      /\ Done <= Len(queue)
      /\ \A i \in 1 .. Len(queue) : Batch(i) \subseteq Reqs
  BY RunnerNumbers DEF Done, Exact
<1>2. \A i \in 1 .. Len(queue) : Batch(i)' = Batch(i) /\ sent'[i] = sent[i]
  OBVIOUS
<1>3. ASSUME NEW r \in Reqs
      PROVE  \A i \in Done .. Len(queue) :
               /\ Before(i)' = Before(i)
               /\ \A v \in Int : Knows(r, i, v) => Knows(r, i, v)'
               /\ i > Done /\ Told(i, r) => Told(i, r)'
  BY <1>2, <1>3, HistoryStays
<1>4. Instructed'
  <2>1. ASSUME NEW i \in Done + 1 .. Len(queue)
        PROVE  sent'[i].new \subseteq Batch(i)' /\ \A r \in Batch(i)' : Told(i, r)'
    <3>1. i \in 1 .. Len(queue) /\ i \in Done .. Len(queue) /\ i > Done
      BY <1>1, <2>1
    <3>2. sent[i].new \subseteq Batch(i) /\ \A r \in Batch(i) : Told(i, r)
      BY <2>1 DEF Instructed
    <3> QED
      BY <1>1, <1>2, <1>3, <3>1, <3>2
  <2> QED
    BY <1>1, <2>1 DEF Instructed
<1>5. Prepared'
  <2>1. executed' => 1 \in 1 .. Len(queue)
    BY <1>1 DEF Done
  <2> QED
    BY <1>1, <1>2, <2>1 DEF Prepared
<1>6. HistoryKept
  <2>1. PICK n \in Done .. Len(queue) : n = Len(queue) /\ n = Len(queue)'
    BY <1>1
  <2>2. \A r \in Reqs, v \in Int : Knows(r, n, v) => Knows(r, n, v)'
    BY <1>3
  <2>3. Before(n)' = Before(n)
    BY <1>1, <1>2, <2>1 DEF Before
  <2> QED
    BY <2>1, <2>2, <2>3 DEF HistoryKept, Knows, Before, Quiet
<1> QED
  BY <1>4, <1>5, <1>6

\* A request that a step of the pass leaves alone is as well known as before.
LEMMA UpcomingStays ==
  ASSUME RunnerType, HistoryKept, TrackPass, pc # "commit", TypeOK, TypeOK',
         NEW r \in Reqs, Upcoming(r),
         status'[r] = status[r], held'[r] = held[r], nsched'[r] = nsched[r],
         r \in finished' => r \in finished,
         r \in newReqs \cup resumedReqs => pc' \in {"waiting", "commit"}
  PROVE  Upcoming(r)'
<1>1. /\ newReqs' = newReqs \cup {o \in Reqs : Started(o) /\ status[o] # "preempted"}
      /\ resumedReqs' = resumedReqs \cup {o \in Reqs : Started(o) /\ status[o] = "preempted"}
      /\ newBlocks' = [o \in Reqs |-> BlocksAfter(o)]
  BY DEF TrackPass
<1>2. ~Started(r) /\ (r \in newReqs' <=> r \in newReqs)
      /\ (r \in resumedReqs' <=> r \in resumedReqs)
  BY <1>1 DEF Started
<1>3. newBlocks'[r] = newBlocks[r]
  <2>1. newBlocks[r] \in Int /\ held[r] \in Int /\ nsched[r] \in Int
    BY DEF RunnerType, TypeOK
  <2>2. newBlocks'[r] = IF nsched[r] = 0 THEN 0 ELSE newBlocks[r] + held[r] - held[r]
    BY <1>1, <1>2 DEF BlocksAfter
  <2>3. nsched[r] = 0 => newBlocks[r] = 0
    BY DEF Upcoming
  <2> QED
    BY <2>1, <2>2, <2>3
<1>4. Exact' = Exact
  BY DEF Exact
<1>5. Recalled(r) => Recalled(r)'
  <2> SUFFICES ASSUME Recalled(r) PROVE Recalled(r)'
    OBVIOUS
  <2>1. PICK w \in Int : /\ Knows(r, Len(queue), w)
                         /\ Exact /\ status[r] = "running" /\ r \notin resumedReqs
                              => w + newBlocks[r] = held[r]
    BY DEF Recalled
  <2>2. Knows(r, Len(queue), w)'
    BY <2>1 DEF HistoryKept
  <2> QED
    BY <1>2, <1>3, <1>4, <2>1, <2>2 DEF Recalled
<1>6. r \in newReqs' \cup resumedReqs' =>
        /\ pc' \in {"waiting", "commit"} /\ status'[r] = "running"
        /\ nsched'[r] > 0 /\ newBlocks'[r] = held'[r]
  BY <1>2, <1>3 DEF Upcoming
<1>7. (status'[r] = "running" /\ r \notin newReqs') \/ status'[r] = "preempted" => Recalled(r)'
  BY <1>2, <1>5 DEF Upcoming
<1>8. r \in resumedReqs' => r \notin Before(Len(queue))'
  BY <1>2 DEF Upcoming, HistoryKept
<1>9. nsched'[r] = 0 => newBlocks'[r] = 0
  BY <1>1 DEF BlocksAfter
<1> QED
  BY <1>6, <1>7, <1>8, <1>9 DEF Upcoming

\* Nothing is expected of a request that does not run and did not.
LEMMA UpcomingOut ==
  ASSUME TrackPass, pc # "commit", NEW r \in Reqs,
         r \notin newReqs \cup resumedReqs, status'[r] \notin {"running", "preempted"}
  PROVE  Upcoming(r)'
<1>1. /\ newReqs' = newReqs \cup {o \in Reqs : Started(o) /\ status[o] # "preempted"}
      /\ resumedReqs' = resumedReqs \cup {o \in Reqs : Started(o) /\ status[o] = "preempted"}
      /\ newBlocks' = [o \in Reqs |-> BlocksAfter(o)]
  BY DEF TrackPass
<1>2. r \notin newReqs' /\ r \notin resumedReqs'
  BY <1>1 DEF Started
<1>3. nsched'[r] = 0 => newBlocks'[r] = 0
  BY <1>1 DEF BlocksAfter
<1> QED
  BY <1>2, <1>3 DEF Upcoming

-----------------------------------------------------------------------------
(* What the engine tells the worker.                                        *)

\* The types, and what the engine leaves of the caches.
LEMMA HearsType ==
  ASSUME Inv, TypeOK', RunnerType, Paired, Hears
  PROVE  /\ RunnerType' /\ TrackPass /\ inBatch' = inBatch
         /\ pc = "output" => executed
         /\ executed' <=> pc = "output" /\ pc' = "output"
         /\ \A r \in Reqs : /\ cached'[r].known = cached[r].known
                            /\ cached'[r].blocks = cached[r].blocks
         /\ ~(pc = "output" /\ pc' = "output") => cached' = cached
<1>1. /\ TypeOK /\ TrackPass /\ inBatch' = inBatch /\ (pc = "output" => executed)
      /\ executed' = (pc = "output" /\ pc' = "output")
      /\ IF pc = "output" /\ pc' = "output" THEN Bookkeeping
                                            ELSE UNCHANGED <<cached, counts>>
  BY DEF Hears, Engine, Inv
<1>2. /\ \A r \in Reqs : /\ cached'[r].known = cached[r].known
                         /\ cached'[r].blocks = cached[r].blocks
      /\ cached' \in [Reqs -> States] /\ counts' \in [Reqs -> Int]
  <2>1. CASE ~(pc = "output" /\ pc' = "output")
    BY <1>1, <2>1 DEF RunnerType
  <2>2. CASE pc = "output" /\ pc' = "output"
    <3>1. PICK sampled : sampled = (todo \ todo') \cap Head(queue).emit
      OBVIOUS
    <3>2. /\ counts' = [r \in Reqs |-> IF r \in sampled THEN NumSampled(r) ELSE counts[r]]
          /\ cached' = [r \in Reqs |->
               IF r \in sampled
               THEN [cached[r] EXCEPT !.outs =
                       @ + IF AsyncScheduling THEN 1 ELSE NumSampled(r)]
               ELSE cached[r]]
      BY <1>1, <2>2, <3>1 DEF Bookkeeping
    <3>3. \A r \in Reqs : NumSampled(r) \in Int
      <4>1. out \in [Reqs -> Nat] /\ out' \in [Reqs -> Nat]
        BY <1>1 DEF TypeOK
      <4>2. \A r \in Reqs : out'[r] - out[r] \in Int
        BY <4>1
      <4> QED
        BY <4>2 DEF NumSampled
    <3>4. counts' \in [Reqs -> Int]
      BY <3>2, <3>3 DEF RunnerType
    <3>5. ASSUME NEW r \in Reqs
          PROVE  /\ cached'[r] \in States
                 /\ cached'[r].known = cached[r].known
                 /\ cached'[r].blocks = cached[r].blocks
      <4>1. cached[r] \in States
        BY DEF RunnerType
      <4>2. PICK d \in Int : d = IF AsyncScheduling THEN 1 ELSE NumSampled(r)
        BY <3>3
      <4>3. cached'[r] = IF r \in sampled THEN [cached[r] EXCEPT !.outs = @ + d] ELSE cached[r]
        BY <3>2, <4>2
      <4> QED
        BY <4>1, <4>2, <4>3 DEF States
    <3> QED
      BY <3>2, <3>4, <3>5
  <2> QED
    BY <2>1, <2>2
<1>3. newReqs' \subseteq Reqs /\ resumedReqs' \subseteq Reqs
  BY <1>1 DEF TrackPass, RunnerType
<1>4. newBlocks' \in [Reqs -> Int]
  <2>1. CASE pc = "commit"
    BY <1>1, <2>1 DEF TrackPass, Zero
  <2>2. CASE pc # "commit"
    <3>1. newBlocks' = [r \in Reqs |-> BlocksAfter(r)]
      BY <1>1, <2>2 DEF TrackPass
    <3>2. \A r \in Reqs : /\ newBlocks[r] \in Int /\ held[r] \in Int /\ held'[r] \in Int
      BY <1>1 DEF RunnerType, TypeOK
    <3>3. \A r \in Reqs : BlocksAfter(r) \in Int
      BY <3>2 DEF BlocksAfter
    <3> QED
      BY <3>1, <3>3
  <2> QED
    BY <2>1, <2>2
<1>5. sent' \in Seq(Outputs)
  <2>1. sent \in Seq(Outputs)
    BY DEF RunnerType
  <2>2. CASE pc = "commit"
    <3>1. [r \in Reqs |-> out[r] + placeholders[r]] \in [Reqs -> Int]
      <4>1. out \in [Reqs -> Nat] /\ placeholders \in [Reqs -> Int]
        BY <1>1 DEF TypeOK
      <4> QED
        BY <4>1
    <3>2. /\ newReqs \subseteq Reqs /\ resumedReqs \subseteq Reqs /\ newBlocks \in [Reqs -> Int]
          /\ computed \in [Reqs -> Int] /\ finished \subseteq Reqs /\ held \in [Reqs -> Nat]
      BY <1>1 DEF TypeOK, RunnerType
    <3>3. Output \in Outputs
      BY <3>1, <3>2 DEF Output, Outputs
    <3>4. sent' = Append(sent, Output)
      BY <1>1, <2>2 DEF TrackPass
    <3> QED
      BY <2>1, <3>3, <3>4
  <2>3. CASE pc # "commit"
    <3>1. sent' = sent \/ (pc = "output" /\ sent' = Tail(sent))
      BY <1>1, <2>3 DEF TrackPass
    <3>2. pc = "output" => sent # <<>>
      <4>1. queue \in Seq(Batches) /\ (pc = "output" => queue # <<>>)
        BY <1>1 DEF Inv, TypeOK, BatchQueueBounded
      <4> QED
        BY <2>1, <4>1 DEF Paired
    <3> QED
      BY <2>1, <3>1, <3>2
  <2> QED
    BY <2>2, <2>3
<1>6. executed' \in BOOLEAN /\ inBatch' \subseteq Reqs
  BY <1>1 DEF RunnerType
<1> QED
  BY <1>1, <1>2, <1>3, <1>4, <1>5, <1>6 DEF RunnerType

\* A step between two batches, or within one, tells the worker nothing.
LEMMA QuietStep ==
  ASSUME CoreInv, Inv', RunnerInv, Hears, pc # "commit", pc = "output" => pc' = "output",
         Len(queue') = Len(queue), \A i \in 1 .. Len(queue) : queue'[i].n = queue[i].n
  PROVE  /\ TypeOK /\ TypeOK' /\ RunnerType /\ RunnerType' /\ TrackPass
         /\ Instructed' /\ Prepared' /\ HistoryKept
         /\ Len(sent') = Len(queue') /\ (executed' => pc' = "output")
         /\ \A r \in Reqs : Upcoming(r)
         /\ Resumable /\ UNCHANGED status => Resumable'
<1>1. /\ Inv /\ TypeOK /\ TypeOK' /\ RunnerType /\ Paired /\ Instructed /\ Prepared
      /\ \A r \in Reqs : Upcoming(r)
  BY DEF CoreInv, Inv, RunnerInv
<1>2. /\ RunnerType' /\ TrackPass /\ inBatch' = inBatch /\ (pc = "output" => executed)
      /\ executed' <=> pc = "output" /\ pc' = "output"
      /\ \A r \in Reqs : /\ cached'[r].known = cached[r].known
                         /\ cached'[r].blocks = cached[r].blocks
  BY <1>1, HearsType
<1>3. executed' = executed
  BY <1>1, <1>2 DEF Paired, RunnerType
<1>4. sent' = sent
  BY <1>2 DEF TrackPass
<1>5. \A i \in 1 .. Len(queue) : Batch(i)' = Batch(i)
  BY DEF Batch, Scheduled
<1>6. Instructed' /\ Prepared' /\ HistoryKept
  BY <1>1, <1>2, <1>3, <1>4, <1>5, NothingTold
<1>7. Len(sent') = Len(queue') /\ (executed' => pc' = "output")
  BY <1>1, <1>2, <1>4 DEF Paired
<1>8. Resumable /\ UNCHANGED status => Resumable'
  BY <1>6 DEF Resumable, HistoryKept
<1> QED
  BY <1>1, <1>2, <1>6, <1>7, <1>8

\* Steps of the loops that leave the requests and their blocks alone.
LEMMA LoopRunner ==
  ASSUME CoreInv, Inv', RunnerInv, Hears,
         pc = "running" /\ pc' = "waiting" => Resumable,
         \/ Begins \/ PutsBack \/ PassesOver \/ Picks \/ LeavesRunning
         \/ \E r \in Reqs : Skips(r)
  PROVE  RunnerInv'
<1>1. /\ queue' = queue /\ UNCHANGED <<status, held, nsched, finished>>
      /\ pc \in {"idle", "waiting", "running"} /\ pc' \in {"waiting", "running", "alloc", "commit"}
      /\ pc = "waiting" => pc' = "waiting" \/ (pc' \in {"running", "commit"}
                             /\ (pc' = "running" => nsched = Zero))
  BY DEF Begins, PutsBack, PassesOver, Picks, LeavesRunning, Skips, reqVars, blockVars,
     queueVars, localVars
<1>2. /\ TypeOK /\ TypeOK' /\ RunnerType /\ RunnerType' /\ TrackPass
      /\ Instructed' /\ Prepared' /\ HistoryKept
      /\ Len(sent') = Len(queue') /\ (executed' => pc' = "output")
      /\ \A r \in Reqs : Upcoming(r)
      /\ Resumable => Resumable'
  BY <1>1, QuietStep
<1>3. ASSUME NEW r \in Reqs PROVE Upcoming(r)'
  <2>1. r \in newReqs \cup resumedReqs => pc \in {"waiting", "commit"} /\ nsched[r] > 0
    BY <1>2 DEF Upcoming
  <2>2. r \in newReqs \cup resumedReqs => pc' \in {"waiting", "commit"}
    BY <1>1, <2>1 DEF Zero
  <2> QED
    BY <1>1, <1>2, <2>2, UpcomingStays
<1>4. Paired'
  BY <1>1, <1>2 DEF Paired
<1>5. pc' \in {"idle", "output", "waiting"} => Resumable'
  BY <1>1, <1>2 DEF RunnerInv
<1> QED
  BY <1>2, <1>3, <1>4, <1>5 DEF RunnerInv

\* A running request gets more blocks.
LEMMA ScheduleRunner ==
  ASSUME CoreInv, Inv', RunnerInv, Hears, ScheduleRunning
  PROVE  RunnerInv'
<1>1. /\ queue' = queue /\ UNCHANGED <<status, finished>> /\ pc = "alloc" /\ pc' = "running"
      /\ nsched' = [nsched EXCEPT ![cur] = num]
      /\ held' = [held EXCEPT ![cur] = @ + NewBlocks(cur, num, NumSpecTokens)]
  BY DEF ScheduleRunning, queueVars, AllocateSlots
<1>2. /\ TypeOK /\ TypeOK' /\ RunnerType /\ RunnerType' /\ TrackPass
      /\ Instructed' /\ Prepared' /\ HistoryKept
      /\ Len(sent') = Len(queue') /\ (executed' => pc' = "output")
      /\ \A r \in Reqs : Upcoming(r)
  BY <1>1, QuietStep
<1>3. PICK c \in Reqs : c = cur /\ status[c] = "running" /\ (Exact => num > 0)
  <2>1. cur \in Reqs
    BY <1>1 DEF CoreInv, Inv, PassState
  <2>2. cur \in Elems(running)
    BY <1>1 DEF CoreInv, PassInv, Picked
  <2> QED
    BY <1>1, <2>1, <2>2 DEF CoreInv, QueueConsistency, Counted
<1>4. /\ held \in [Reqs -> Nat] /\ held' \in [Reqs -> Nat] /\ nsched \in [Reqs -> Int]
      /\ num \in Int /\ newBlocks \in [Reqs -> Int]
  BY <1>2 DEF TypeOK, RunnerType
<1>5. \A r \in Reqs : r \notin newReqs \cup resumedReqs
  BY <1>1, <1>2 DEF Upcoming
<1>6. ASSUME NEW r \in Reqs, r # c PROVE Upcoming(r)'
  <2>1. held'[r] = held[r] /\ nsched'[r] = nsched[r]
    BY <1>1, <1>3, <1>4, <1>6
  <2> QED
    BY <1>1, <1>2, <1>5, <2>1, UpcomingStays
<1>7. Upcoming(c)'
  <2>1. ~Started(c) /\ c \notin newReqs' /\ c \notin resumedReqs'
    BY <1>1, <1>2, <1>3, <1>5 DEF TrackPass, Started
  <2>2. /\ newBlocks'[c] = IF num = 0 THEN 0 ELSE newBlocks[c] + held'[c] - held[c]
    <3>1. nsched'[c] = num
      BY <1>1, <1>3, <1>4
    <3>2. newBlocks'[c] = BlocksAfter(c)
      BY <1>1, <1>2, <1>3 DEF TrackPass
    <3> QED
      BY <2>1, <3>1, <3>2 DEF BlocksAfter
  <2>3. PICK w \in Int : /\ c \notin finished /\ Knows(c, Len(queue), w)
                         /\ Exact => w + newBlocks[c] = held[c]
    BY <1>2, <1>3, <1>5 DEF Upcoming, Recalled
  <2>4. Exact => w + newBlocks'[c] = held'[c]
    BY <1>3, <1>4, <2>2, <2>3
  <2>5. Knows(c, Len(queue), w)' /\ Exact' = Exact
    BY <1>3, <2>3, <1>2 DEF HistoryKept, Exact
  <2>6. Recalled(c)'
    BY <1>1, <2>3, <2>4, <2>5 DEF Recalled
  <2>7. nsched'[c] = 0 => newBlocks'[c] = 0
    BY <1>1, <1>3, <1>4, <2>2
  <2> QED
    BY <2>1, <2>6, <2>7 DEF Upcoming
<1>8. Paired'
  BY <1>1, <1>2 DEF Paired
<1> QED
  BY <1>1, <1>2, <1>6, <1>7, <1>8 DEF RunnerInv

\* A preempted request is remembered, in the persistent batch or out of it.
LEMMA PreemptRunner ==
  ASSUME CoreInv, Inv', RunnerInv, Hears, NEW v \in Reqs, Preempt(v)
  PROVE  RunnerInv'
<1>1. /\ queue' = queue /\ UNCHANGED <<finished, todo>> /\ pc = "alloc"
      /\ pc' \in {"alloc", "commit"}
      /\ status' = [status EXCEPT ![v] = "preempted"]
      /\ held' = [held EXCEPT ![v] = 0]
      /\ nsched' = nsched \/ nsched' = [nsched EXCEPT ![v] = 0]
  BY DEF Preempt, FreeBlocks
<1>2. /\ TypeOK /\ TypeOK' /\ RunnerType /\ RunnerType' /\ TrackPass
      /\ Instructed' /\ Prepared' /\ HistoryKept
      /\ Len(sent') = Len(queue') /\ (executed' => pc' = "output")
      /\ \A r \in Reqs : Upcoming(r)
  BY <1>1, QuietStep
<1>3. status[v] = "running"
  BY DEF Preempt, IsVictim, CoreInv, QueueConsistency
<1>4. /\ status \in [Reqs -> Statuses] /\ held \in [Reqs -> Nat] /\ nsched \in [Reqs -> Int]
  BY <1>2 DEF TypeOK
<1>5. \A r \in Reqs : r \notin newReqs \cup resumedReqs
  BY <1>1, <1>2 DEF Upcoming
<1>6. ASSUME NEW r \in Reqs, r # v PROVE Upcoming(r)'
  <2>1. held'[r] = held[r] /\ nsched'[r] = nsched[r] /\ status'[r] = status[r]
    BY <1>1, <1>4, <1>6
  <2> QED
    BY <1>1, <1>2, <1>5, <2>1, UpcomingStays
<1>7. Upcoming(v)'
  <2>1. status'[v] = "preempted"
    BY <1>1, <1>4
  <2>2. v \notin newReqs' /\ v \notin resumedReqs'
    BY <1>1, <1>2, <1>5, <2>1 DEF TrackPass, Started
  <2>3. PICK w \in Int : v \notin finished /\ Knows(v, Len(queue), w)
    BY <1>2, <1>3, <1>5 DEF Upcoming, Recalled
  <2>4. Knows(v, Len(queue), w)'
    BY <1>2, <2>3 DEF HistoryKept
  <2>5. Recalled(v)'
    BY <1>1, <2>1, <2>3, <2>4 DEF Recalled
  <2>6. nsched'[v] = 0 => newBlocks'[v] = 0
    BY <1>1, <1>2 DEF TrackPass, BlocksAfter
  <2> QED
    BY <2>1, <2>2, <2>5, <2>6 DEF Upcoming
<1>8. Paired'
  BY <1>1, <1>2 DEF Paired
<1> QED
  BY <1>1, <1>2, <1>6, <1>7, <1>8 DEF RunnerInv

\* An admitted request is new, or resumed with all its blocks.
LEMMA AdmitRunner ==
  ASSUME CoreInv, Inv', RunnerInv, Hears, NEW r \in Reqs, NEW n \in Int, Admits(r, n)
  PROVE  RunnerInv'
<1>1. /\ queue' = queue /\ UNCHANGED <<finished, todo>> /\ pc = "waiting" /\ pc' = pc
      /\ status' = [status EXCEPT ![r] = "running"]
      /\ held' = [held EXCEPT ![r] = @ + NewBlocks(r, n, 0)]
      /\ nsched' = [nsched EXCEPT ![r] = n] /\ n > 0 /\ r \in Elems(waiting)
  BY DEF Admits, AllocateSlots
<1>2. /\ TypeOK /\ TypeOK' /\ RunnerType /\ RunnerType' /\ TrackPass
      /\ Instructed' /\ Prepared' /\ HistoryKept
      /\ Len(sent') = Len(queue') /\ (executed' => pc' = "output")
      /\ \A o \in Reqs : Upcoming(o)
  BY <1>1, QuietStep
<1>3. status[r] \in {"waiting", "waiting_fsm", "preempted"}
  BY <1>1 DEF CoreInv, QueueConsistency
<1>4. /\ status \in [Reqs -> Statuses] /\ held \in [Reqs -> Nat] /\ nsched \in [Reqs -> Int]
  BY <1>2 DEF TypeOK
<1>5. ASSUME NEW o \in Reqs, o # r PROVE Upcoming(o)'
  <2>1. held'[o] = held[o] /\ nsched'[o] = nsched[o] /\ status'[o] = status[o]
    BY <1>1, <1>4, <1>5
  <2> QED
    BY <1>1, <1>2, <2>1, UpcomingStays
<1>6. status'[r] = "running" /\ nsched'[r] = n /\ Started(r)
  BY <1>1, <1>3, <1>4 DEF Started
<1>7. newBlocks'[r] = held'[r]
  <2>1. newBlocks'[r] = BlocksAfter(r)
    BY <1>1, <1>2 DEF TrackPass
  <2> QED
    BY <1>1, <1>6, <2>1 DEF BlocksAfter
<1>8. r \notin newReqs /\ r \notin resumedReqs
  BY <1>2, <1>3 DEF Upcoming
<1>9. Upcoming(r)'
  <2>1. CASE status[r] = "preempted"
    <3>1. r \notin newReqs' /\ r \in resumedReqs'
      BY <1>1, <1>2, <1>6, <1>8, <2>1 DEF TrackPass
    <3>2. PICK w \in Int : r \notin finished /\ Knows(r, Len(queue), w)
      BY <1>2, <2>1 DEF Upcoming, Recalled
    <3>3. Knows(r, Len(queue), w)'
      BY <1>2, <3>2 DEF HistoryKept
    <3>4. Recalled(r)'
      BY <1>1, <3>1, <3>2, <3>3 DEF Recalled
    <3>5. r \notin Before(Len(queue))'
      <4>1. r \notin Before(Len(queue))
        BY <1>1, <2>1 DEF RunnerInv, Resumable
      <4> QED
        BY <1>2, <4>1 DEF HistoryKept
    <3> QED
      BY <1>1, <1>6, <1>7, <3>1, <3>4, <3>5 DEF Upcoming
  <2>2. CASE status[r] # "preempted"
    <3>1. r \in newReqs' /\ r \notin resumedReqs'
      BY <1>1, <1>2, <1>6, <1>8, <2>2 DEF TrackPass
    <3> QED
      BY <1>1, <1>6, <1>7, <3>1 DEF Upcoming
  <2> QED
    BY <2>1, <2>2
<1>10. Paired'
  BY <1>1, <1>2 DEF Paired
<1>11. Resumable'
  <2>1. \A o \in Reqs : status'[o] = "preempted" => status[o] = "preempted"
    BY <1>1, <1>4
  <2>2. Resumable
    BY <1>1 DEF RunnerInv
  <2> QED
    BY <1>2, <2>1, <2>2 DEF Resumable, HistoryKept
<1> QED
  BY <1>1, <1>2, <1>5, <1>9, <1>10, <1>11 DEF RunnerInv

\* The steps of schedule().
LEMMA PassRunner ==
  ASSUME CoreInv, Inv', RunnerInv, Hears, PassStep,
         pc = "running" /\ pc' = "waiting" => Resumable
  PROVE  RunnerInv'
<1>1. CASE Begins \/ PutsBack \/ PassesOver \/ Picks \/ LeavesRunning \/ \E r \in Reqs : Skips(r)
  BY <1>1, LoopRunner
<1>2. CASE ScheduleRunning
  BY <1>2, ScheduleRunner
<1>3. ASSUME NEW r \in Reqs, Preempt(r) PROVE RunnerInv'
  BY <1>3, PreemptRunner
<1>4. ASSUME NEW r \in Reqs, NEW n \in Int, Admits(r, n) PROVE RunnerInv'
  BY <1>4, AdmitRunner
<1> QED
  BY <1>1, <1>2, <1>3, <1>4 DEF PassStep

\* The new batch is sent to the worker.
LEMMA CommitRunner ==
  ASSUME CoreInv, Inv', RunnerInv, Hears, Commits
  PROVE  RunnerInv'
<1>1. /\ Inv /\ TypeOK /\ TypeOK' /\ RunnerType /\ Paired /\ Instructed
      /\ \A r \in Reqs : Upcoming(r)
  BY DEF CoreInv, Inv, RunnerInv
<1>2. /\ queue' = Append(queue, NewBatch) /\ nsched' = Zero /\ finished' = {}
      /\ UNCHANGED <<status, held>> /\ pc = "commit"
      /\ \/ pc' = "idle"
         \/ pc' = "output"
            /\ todo' = {r \in Scheduled(Head(Append(queue, NewBatch)).n) : Live(r)}
  BY DEF Commits, StartOutput, blockVars
<1>3. /\ RunnerType' /\ TrackPass /\ inBatch' = inBatch
      /\ executed = FALSE /\ executed' = FALSE /\ cached' = cached
  <2>1. executed \in BOOLEAN /\ executed' \in BOOLEAN
    BY <1>1, HearsType DEF RunnerType
  <2> QED
    BY <1>1, <1>2, <2>1, HearsType DEF Paired
<1>4. /\ newReqs' = {} /\ resumedReqs' = {} /\ newBlocks' = Zero
      /\ sent' = Append(sent, Output)
  BY <1>2, <1>3 DEF TrackPass
<1>5. PICK n \in Nat : n = Len(queue) /\ n = Len(sent) /\ Len(queue)' = n + 1
                       /\ Len(sent') = n + 1
  <2>1. queue \in Seq(Batches) /\ sent \in Seq(Outputs) /\ Len(sent) = Len(queue)
    BY <1>1 DEF TypeOK, RunnerType, Paired
  <2> QED
    BY <1>2, <1>4, <2>1
<1>6. /\ Done = 0 /\ Done' = 0 /\ Exact' = Exact
  BY <1>3 DEF Done, Exact
<1>7. /\ \A i \in 1 .. n : queue'[i] = queue[i] /\ sent'[i] = sent[i]
      /\ queue'[n + 1] = NewBatch /\ sent'[n + 1] = Output
  <2>1. queue \in Seq(Batches) /\ sent \in Seq(Outputs)
    BY <1>1 DEF TypeOK, RunnerType
  <2> QED
    BY <1>2, <1>4, <1>5, <2>1
<1>8. /\ \A i \in 1 .. n : Batch(i)' = Batch(i)
      /\ Batch(n + 1)' = Scheduled(nsched)
  BY <1>7 DEF Batch, Scheduled, NewBatch
<1>9. /\ sent'[n + 1].new = newReqs /\ sent'[n + 1].resumed = resumedReqs
      /\ sent'[n + 1].blocks = newBlocks /\ sent'[n + 1].held = held
      /\ sent'[n + 1].finished = finished
  BY <1>7 DEF Output
<1>10. \A r \in Scheduled(nsched) : r \in Reqs /\ status[r] = "running" /\ nsched[r] > 0
  <2>1. Scheduled(nsched) \subseteq Elems(running)
    BY <1>2 DEF CoreInv, PassInv, BudgetRespected, Scheduling
  <2> QED
    BY <2>1 DEF CoreInv, QueueConsistency, Scheduled
<1>11. ASSUME NEW r \in Reqs
       PROVE  \A i \in 0 .. n :
                /\ Before(i)' = Before(i)
                /\ \A v \in Int : Knows(r, i, v) => Knows(r, i, v)'
                /\ i > 0 /\ Told(i, r) => Told(i, r)'
  BY <1>1, <1>3, <1>5, <1>6, <1>7, <1>8, HistoryStays
<1>12. ASSUME NEW r \in Scheduled(nsched), NEW w \in Int, w = held[r]
       PROVE  Knows(r, n + 1, w)'
  <2>1. Quiet(r, n + 1 + 1, n + 1)'
    BY DEF Quiet
  <2>2. n + 1 \in Done' + 1 .. n + 1
    BY <1>6
  <2> QED
    BY <1>8, <1>9, <1>12, <2>1, <2>2 DEF Knows
<1>13. ASSUME NEW r \in Reqs, r \notin Scheduled(nsched), r \notin finished, NEW w \in Int,
              Knows(r, n, w)
       PROVE  Knows(r, n + 1, w)'
  <2>1. Knows(r, n, w)' /\ r \notin Batch(n + 1)' /\ r \notin sent'[n + 1].finished
    BY <1>8, <1>9, <1>11, <1>13
  <2>2. CASE (cached[r].known /\ (Exact => w = cached[r].blocks) /\ Quiet(r, Done + 1, n))'
    <3>1. Quiet(r, Done + 1, n + 1)'
      BY <1>6, <2>1, <2>2 DEF Quiet
    <3> QED
      BY <2>2, <3>1 DEF Knows
  <2>3. CASE (\E j \in Done + 1 .. n :
                /\ r \in Batch(j) /\ (Exact => w = sent[j].held[r])
                /\ Quiet(r, j + 1, n))'
    <3>1. PICK j \in 1 .. n : /\ r \in Batch(j)' /\ (Exact => w = sent'[j].held[r])
                              /\ Quiet(r, j + 1, n)'
      BY <1>6, <2>3
    <3>2. Quiet(r, j + 1, n + 1)'
      BY <2>1, <3>1 DEF Quiet
    <3>3. j \in Done' + 1 .. n + 1
      BY <1>6, <3>1
    <3> QED
      BY <1>6, <3>1, <3>2, <3>3 DEF Knows
  <2> QED
    BY <2>1, <2>2, <2>3 DEF Knows
<1>14. Instructed'
  <2>1. ASSUME NEW i \in 1 .. n
        PROVE  sent'[i].new \subseteq Batch(i)' /\ \A r \in Batch(i)' : Told(i, r)'
    <3>1. sent[i].new \subseteq Batch(i) /\ \A r \in Batch(i) : r \in Reqs /\ Told(i, r)
      BY <1>1, <1>5, <1>6, <2>1, RunnerNumbers DEF Instructed
    <3> QED
      BY <1>7, <1>8, <1>11, <2>1, <3>1
  <2>2. newReqs \subseteq Scheduled(nsched)
    BY <1>1 DEF Upcoming, Scheduled, RunnerType
  <2>3. ASSUME NEW r \in Scheduled(nsched) PROVE Told(n + 1, r)'
    <3>1. r \in Reqs /\ Upcoming(r) /\ status[r] = "running" /\ n + 1 - 1 = n
      BY <1>1, <1>5, <1>10
    <3>2. r \in newReqs \cup resumedReqs => newBlocks[r] = held[r]
      BY <3>1 DEF Upcoming
    <3>3. r \in resumedReqs => r \notin Before(n)'
      BY <1>5, <1>11, <3>1 DEF Upcoming
    <3>4. ASSUME r \notin newReqs
          PROVE  /\ r \notin finished
                 /\ \E w \in Int : /\ Knows(r, n, w)'
                                   /\ Exact /\ r \notin resumedReqs
                                        => w + newBlocks[r] = held[r]
      <4>1. Recalled(r)
        BY <3>1, <3>4 DEF Upcoming
      <4>2. PICK w \in Int : /\ r \notin finished /\ Knows(r, n, w)
                             /\ Exact /\ r \notin resumedReqs => w + newBlocks[r] = held[r]
        BY <1>5, <3>1, <4>1 DEF Recalled
      <4>3. Knows(r, n, w)'
        BY <1>5, <1>11, <3>1, <4>2
      <4> QED
        BY <4>2, <4>3
    <3> QED
      BY <1>6, <1>9, <3>1, <3>2, <3>3, <3>4 DEF Told
  <2>4. ASSUME NEW i \in Done' + 1 .. n + 1
        PROVE  sent'[i].new \subseteq Batch(i)' /\ \A r \in Batch(i)' : Told(i, r)'
    <3>1. CASE i \in 1 .. n
      BY <2>1, <3>1
    <3>2. CASE i = n + 1
      BY <1>8, <1>9, <2>2, <2>3, <3>2
    <3> QED
      BY <1>6, <2>4, <3>1, <3>2
  <2> QED
    BY <1>5, <2>4 DEF Instructed
<1>15. ASSUME NEW r \in Reqs PROVE Upcoming(r)'
  <2>1. r \notin newReqs' /\ r \notin resumedReqs' /\ newBlocks'[r] = 0
    BY <1>4 DEF Zero
  <2>2. ASSUME status[r] \in {"running", "preempted"} PROVE Recalled(r)'
    <3>1. held[r] \in Int
      BY <1>1 DEF TypeOK
    <3>2. \E w \in Int : Knows(r, n + 1, w)' /\ (Exact /\ status[r] = "running" => w = held[r])
      <4>1. CASE r \in Scheduled(nsched)
        <5>1. PICK w \in Int : w = held[r]
          BY <3>1
        <5>2. Knows(r, n + 1, w)'
          BY <1>12, <4>1, <5>1
        <5> QED
          BY <5>1, <5>2
      <4>2. CASE r \notin Scheduled(nsched)
        <5>1. r \notin newReqs /\ r \notin resumedReqs
          BY <1>1, <4>2 DEF Upcoming, Scheduled
        <5>2. PICK w \in Int : /\ r \notin finished /\ Knows(r, n, w)
                               /\ Exact /\ status[r] = "running" => w + newBlocks[r] = held[r]
          BY <1>1, <1>5, <2>2, <5>1 DEF Upcoming, Recalled
        <5>3. Exact => newBlocks[r] = 0
          <6>1. Exact => nsched[r] >= 0
            BY DEF CoreInv, Counted
          <6>2. nsched[r] \in Int /\ ~(nsched[r] > 0)
            BY <1>1, <4>2 DEF Scheduled, TypeOK
          <6>3. nsched[r] = 0 => newBlocks[r] = 0
            BY <1>1 DEF Upcoming
          <6> QED
            BY <6>1, <6>2, <6>3
        <5>4. Knows(r, n + 1, w)'
          BY <1>13, <4>2, <5>2
        <5> QED
          BY <3>1, <5>2, <5>3, <5>4
      <4> QED
        BY <4>1, <4>2
    <3>3. PICK w \in Int : Knows(r, n + 1, w)' /\ (Exact /\ status[r] = "running" => w = held[r])
      BY <3>2
    <3>4. Knows(r, Len(queue), w)'
      BY <1>5, <3>3 DEF Knows, Quiet
    <3>5. Exact /\ status[r] = "running" => w + newBlocks'[r] = held[r]
      BY <2>1, <3>3
    <3> QED
      BY <1>2, <1>6, <3>4, <3>5 DEF Recalled
  <2> QED
    BY <1>2, <2>1, <2>2 DEF Upcoming
<1>16. Resumable'
  <2>1. ASSUME NEW r \in Reqs, status'[r] = "preempted" PROVE r \notin Before(Len(queue))'
    <3>1. r \notin Batch(n + 1)'
      BY <1>2, <1>8, <1>10, <2>1
    <3>2. Before(n + 1)' = Batch(n + 1)'
      BY <1>5, <1>6 DEF Before
    <3> QED
      BY <1>5, <3>1, <3>2 DEF Before
  <2> QED
    BY <2>1 DEF Resumable
<1>17. Paired' /\ Prepared'
  <2>1. pc' = "output" => todo' \subseteq Batch(1)'
    <3>1. pc' = "output" => todo' \subseteq Scheduled(queue'[1].n)
      <4>1. queue' # <<>> /\ Head(Append(queue, NewBatch)) = queue'[1]
        BY <1>2, <1>5
      <4>2. pc' = "output" => todo' \subseteq Scheduled(Head(Append(queue, NewBatch)).n)
        BY <1>2
      <4> QED
        BY <4>1, <4>2
    <3> QED
      BY <3>1 DEF Batch, Scheduled
  <2> QED
    BY <1>3, <1>5, <2>1 DEF Paired, Prepared
<1> QED
  BY <1>3, <1>14, <1>15, <1>16, <1>17 DEF RunnerInv

\* Requests that end, or come, between two passes.
LEMMA BetweenRunner ==
  ASSUME CoreInv, Inv', RunnerInv, Hears,
         pc \in {"idle", "output"}, pc' \in {"idle", "output"}, pc = "output" => pc' = "output",
         Len(queue') = Len(queue), \A i \in 1 .. Len(queue) : queue'[i].n = queue[i].n,
         nsched' = nsched, pc' = "output" => todo' \subseteq Scheduled(queue'[1].n),
         \A r \in Reqs :
           \/ status'[r] = status[r] /\ held'[r] = held[r] /\ (r \in finished' => r \in finished)
           \/ status'[r] \notin {"running", "preempted"}
  PROVE  RunnerInv'
<1>1. /\ TypeOK /\ TypeOK' /\ RunnerType /\ RunnerType' /\ TrackPass
      /\ Instructed' /\ Prepared' /\ HistoryKept
      /\ Len(sent') = Len(queue') /\ (executed' => pc' = "output")
      /\ \A r \in Reqs : Upcoming(r)
  BY QuietStep
<1>2. \A r \in Reqs : r \notin newReqs \cup resumedReqs
  BY <1>1 DEF Upcoming
<1>3. ASSUME NEW r \in Reqs PROVE Upcoming(r)'
  <2>1. CASE status'[r] = status[r] /\ held'[r] = held[r] /\ (r \in finished' => r \in finished)
    BY <1>1, <1>2, <2>1, UpcomingStays
  <2>2. CASE status'[r] \notin {"running", "preempted"}
    BY <1>1, <1>2, <2>2, UpcomingOut
  <2> QED
    BY <2>1, <2>2
<1>4. Paired'
  BY <1>1 DEF Paired, Batch, Scheduled
<1>5. Resumable'
  <2>1. Resumable
    BY DEF RunnerInv
  <2> QED
    BY <1>1, <2>1 DEF Resumable, HistoryKept
<1> QED
  BY <1>1, <1>3, <1>4, <1>5 DEF RunnerInv

\* A request that finishes, and every other one.
LEMMA FinishKeeps ==
  ASSUME TypeOK, NEW r \in Reqs, Finish(r)
  PROVE  \A o \in Reqs :
           \/ status'[o] = status[o] /\ held'[o] = held[o] /\ (o \in finished' => o \in finished)
           \/ status'[o] \notin {"running", "preempted"}
<1>1. /\ status' = [status EXCEPT ![r] = "finished"] /\ held' = [held EXCEPT ![r] = 0]
      /\ finished' = finished \cup {r}
  BY DEF Finish, FreeBlocks
<1>2. status \in [Reqs -> Statuses] /\ held \in [Reqs -> Nat]
  BY DEF TypeOK
<1> QED
  BY <1>1, <1>2

\* The outputs of a batch, and the calls of clients.
LEMMA OutputRunner ==
  ASSUME CoreInv, Inv', RunnerInv, Hears, Drain \/ OutputStep \/ ClientStep
  PROVE  RunnerInv'
<1>1. /\ TypeOK /\ Paired /\ queue \in Seq(Batches)
      /\ pc = "output" => queue # <<>>
  BY DEF CoreInv, Inv, RunnerInv, TypeOK, BatchQueueBounded
<1>2. CASE Drain
  <2>1. /\ pc = "idle" /\ pc' = "output" /\ queue' = queue /\ queue # <<>>
        /\ UNCHANGED <<status, held, finished, nsched>>
        /\ todo' \subseteq Scheduled(Head(queue).n)
    BY <1>2 DEF Drain, StartOutput, reqVars, blockVars, queueVars, localVars
  <2>2. Head(queue) = queue'[1]
    BY <1>1, <2>1
  <2> QED
    BY <2>1, <2>2, BetweenRunner
<1>3. CASE OutputStep
  <2>1. PICK r \in todo :
          /\ pc = "output" /\ pc' = pc /\ nsched' = nsched /\ todo' = todo \ {r}
          /\ \/ \E accepted \in 0 .. NumSpecTokens,
                   kept \in 1 .. NumSpecTokens + 1, stopped \in BOOLEAN :
                  UpdateFromOutput(r, accepted, kept, stopped)
             \/ UNCHANGED <<reqVars, blockVars, queueVars, queue>>
    BY <1>3 DEF OutputStep, localVars
  <2>2. r \in Reqs
    BY <1>1 DEF TypeOK
  <2>3. CASE UNCHANGED <<reqVars, blockVars, queueVars, queue>>
    <3>1. queue' = queue /\ UNCHANGED <<status, held, finished>>
      BY <2>3 DEF reqVars, blockVars, queueVars
    <3>2. todo' \subseteq Scheduled(queue'[1].n)
      BY <1>1, <2>1, <3>1 DEF Paired, Batch
    <3> QED
      BY <2>1, <3>1, <3>2, BetweenRunner
  <2>4. ASSUME NEW accepted \in 0 .. NumSpecTokens, NEW kept \in 1 .. NumSpecTokens + 1,
               NEW stopped \in BOOLEAN, UpdateFromOutput(r, accepted, kept, stopped)
        PROVE  RunnerInv'
    <3>1. PICK rejected \in Int : queue' = [i \in DOMAIN queue |->
            IF i > 1 /\ r \in queue[i].emit
            THEN [queue[i] EXCEPT !.lost[r] = @ + rejected] ELSE queue[i]]
      <4>1. queue[1].s[r] \in Int /\ Head(queue) = queue[1]
        <5>1. 1 \in DOMAIN queue /\ Head(queue) = queue[1]
          BY <1>1, <2>1
        <5>2. queue[1] \in Batches
          BY <1>1, <5>1
        <5> QED
          BY <2>2, <5>1, <5>2 DEF Batches
      <4>2. Rejected(Head(queue), r, accepted) \in Int
        <5>1. NumSpecTokens \in Nat
          BY CoreAssumption
        <5> QED
          BY <2>4, <4>1, <5>1 DEF Rejected
      <4> QED
        BY <2>4, <4>2 DEF UpdateFromOutput
    <3>2. DOMAIN queue' = DOMAIN queue /\ \A i \in DOMAIN queue : queue'[i].n = queue[i].n
      BY <1>1, <2>2, <3>1, MovedQueue
    <3>3. /\ Len(queue') = Len(queue) /\ 1 \in 1 .. Len(queue)
          /\ \A i \in 1 .. Len(queue) : queue'[i].n = queue[i].n
      <4>1. queue' \in Seq(Batches)
        BY DEF Inv, TypeOK
      <4> QED
        BY <1>1, <2>1, <3>2, <4>1
    <3>4. todo' \subseteq Scheduled(queue'[1].n)
      BY <1>1, <2>1, <3>3 DEF Paired, Batch
    <3>5. \A o \in Reqs :
            \/ status'[o] = status[o] /\ held'[o] = held[o] /\ (o \in finished' => o \in finished)
            \/ status'[o] \notin {"running", "preempted"}
      <4>1. Finish(r) \/ UNCHANGED <<status, held, finished>>
        BY <2>4 DEF UpdateFromOutput, blockVars, queueVars
      <4> QED
        BY <1>1, <2>2, <4>1, FinishKeeps
    <3> QED
      BY <2>1, <3>3, <3>4, <3>5, BetweenRunner
  <2> QED
    BY <2>1, <2>3, <2>4
<1>4. CASE ClientStep
  <2>1. PICK r \in Reqs : AddRequest(r) \/ Abort(r)
    BY <1>4 DEF ClientStep
  <2>2. pc = "idle" /\ pc' = "idle" /\ UNCHANGED <<queue, nsched>>
    BY <2>1 DEF AddRequest, Abort, localVars
  <2>3. CASE AddRequest(r)
    <3>1. /\ UNCHANGED <<held, finished>>
          /\ \E s \in {"waiting", "waiting_fsm"} : status' = [status EXCEPT ![r] = s]
      BY <2>3 DEF AddRequest, blockVars
    <3>2. status \in [Reqs -> Statuses]
      BY <1>1 DEF TypeOK
    <3>3. \A o \in Reqs :
            \/ status'[o] = status[o] /\ held'[o] = held[o] /\ (o \in finished' => o \in finished)
            \/ status'[o] \notin {"running", "preempted"}
      BY <3>1, <3>2
    <3> QED
      BY <2>2, <3>3, BetweenRunner
  <2>4. CASE Abort(r)
    <3>1. Finish(r)
      BY <2>4 DEF Abort
    <3> QED
      BY <1>1, <2>2, <3>1, FinishKeeps, BetweenRunner
  <2> QED
    BY <2>1, <2>3, <2>4
<1> QED
  BY <1>2, <1>3, <1>4

\* The oldest batch leaves; the worker has executed it.
LEMMA PopRunner ==
  ASSUME CoreInv, Inv', RunnerInv, Hears, Pops
  PROVE  RunnerInv'
<1>1. /\ Inv /\ TypeOK /\ TypeOK' /\ RunnerType /\ Paired /\ Instructed
      /\ \A r \in Reqs : Upcoming(r)
      /\ pc = "output" /\ pc' = "idle" /\ Resumable /\ nsched = Zero
      /\ UNCHANGED <<status, held, finished, nsched>>
  BY DEF CoreInv, Inv, PassState, RunnerInv, Pops, reqVars, blockVars, queueVars, localVars
<1>2. /\ RunnerType' /\ TrackPass /\ inBatch' = inBatch /\ cached' = cached
      /\ executed = TRUE /\ executed' = FALSE
  <2>1. executed \in BOOLEAN /\ executed' \in BOOLEAN
    BY <1>1, HearsType DEF RunnerType
  <2> QED
    BY <1>1, <2>1, HearsType
<1>3. \A r \in Reqs : r \notin newReqs \cup resumedReqs
  BY <1>1 DEF Upcoming
<1>4. /\ \A r \in Reqs : r \notin newReqs' /\ r \notin resumedReqs'
      /\ newBlocks' = Zero /\ \A r \in Reqs : newBlocks[r] = 0
      /\ sent' = Tail(sent)
  <2>1. /\ newReqs' = newReqs \cup {o \in Reqs : Started(o) /\ status[o] # "preempted"}
        /\ resumedReqs' = resumedReqs \cup {o \in Reqs : Started(o) /\ status[o] = "preempted"}
        /\ newBlocks' = [o \in Reqs |-> BlocksAfter(o)] /\ sent' = Tail(sent)
    BY <1>1, <1>2 DEF TrackPass
  <2>2. \A r \in Reqs : ~Started(r)
    BY <1>1 DEF Started
  <2>3. \A r \in Reqs : BlocksAfter(r) = 0 /\ newBlocks[r] = 0
    BY <1>1 DEF BlocksAfter, Zero, Upcoming
  <2> QED
    BY <1>3, <2>1, <2>2, <2>3 DEF Zero
<1>5. PICK n \in Nat : /\ Len(queue) = n + 1 /\ Len(queue)' = n /\ Len(sent') = n
                       /\ Len(sent) = n + 1
  <2>1. /\ queue \in Seq(Batches) /\ sent \in Seq(Outputs) /\ Len(sent) = Len(queue)
        /\ queue # <<>> /\ Len(queue') = Len(queue) - 1
    BY <1>1 DEF Inv, TypeOK, RunnerType, Paired, BatchQueueBounded, Pops
  <2>2. Len(queue) - 1 \in Nat /\ Len(queue) = (Len(queue) - 1) + 1
    BY <2>1
  <2>3. Len(sent') = Len(sent) - 1
    BY <1>4, <2>1
  <2> QED
    BY <2>1, <2>2, <2>3
<1>6. \A i \in 1 .. n : Batch(i)' = Batch(i + 1) /\ sent'[i] = sent[i + 1]
  <2>1. \A i \in 1 .. n : queue'[i].n = queue[i + 1].n
    BY <1>5 DEF Pops
  <2>2. sent \in Seq(Outputs) /\ sent # <<>>
    BY <1>1, <1>5 DEF RunnerType
  <2>3. \A i \in 1 .. n : sent'[i] = sent[i + 1]
    BY <1>4, <1>5, <2>2
  <2> QED
    BY <2>1, <2>3 DEF Batch, Scheduled
<1>7. ASSUME NEW r \in Reqs
      PROVE  \A i \in 0 .. n :
               /\ Before(i)' = Before(i + 1)
               /\ \A v \in Int : Knows(r, i + 1, v) => Knows(r, i, v)'
               /\ i > 0 /\ Told(i + 1, r) => Told(i, r)'
  <2>1. \A i \in 1 .. Len(queue) - 1 : Batch(i)' = Batch(i + 1) /\ sent'[i] = sent[i + 1]
    BY <1>5, <1>6
  <2> QED
    BY <1>1, <1>2, <1>5, <2>1, HistoryMoves
<1>8. Done = 1 /\ Done' = 0 /\ Exact' = Exact
  BY <1>2 DEF Done, Exact
<1>9. Instructed'
  <2>1. ASSUME NEW i \in 1 .. n
        PROVE  sent'[i].new \subseteq Batch(i)' /\ \A r \in Batch(i)' : Told(i, r)'
    <3>1. i + 1 \in Done + 1 .. Len(queue) /\ i + 1 \in 1 .. Len(queue) /\ i > 0 /\ i \in 0 .. n
      BY <1>5, <1>8, <2>1
    <3>2. sent[i + 1].new \subseteq Batch(i + 1) /\ \A r \in Batch(i + 1) : r \in Reqs /\ Told(i + 1, r)
      BY <1>1, <3>1, RunnerNumbers DEF Instructed
    <3> QED
      BY <1>6, <1>7, <2>1, <3>1, <3>2
  <2> QED
    BY <1>5, <1>8, <2>1 DEF Instructed
<1>10. ASSUME NEW r \in Reqs PROVE Upcoming(r)'
  <2>1. ASSUME status[r] \in {"running", "preempted"} PROVE Recalled(r)'
    <3>1. PICK w \in Int : /\ r \notin finished /\ Knows(r, n + 1, w)
                           /\ Exact /\ status[r] = "running" => w + newBlocks[r] = held[r]
      BY <1>1, <1>3, <1>5, <2>1 DEF Upcoming, Recalled
    <3>2. Knows(r, n, w)'
      BY <1>7, <3>1
    <3>3. Knows(r, Len(queue), w)'
      BY <1>5, <3>2 DEF Knows, Quiet
    <3>4. Exact /\ status[r] = "running" => w + newBlocks'[r] = held[r]
      BY <1>4, <3>1 DEF Zero
    <3> QED
      BY <1>1, <1>8, <3>1, <3>3, <3>4 DEF Recalled
  <2> QED
    BY <1>1, <1>4, <2>1 DEF Upcoming, Zero
<1>11. Resumable'
  <2>1. ASSUME NEW r \in Reqs PROVE Before(n)' = Before(n + 1)
    BY <1>7
  <2>2. ASSUME NEW r \in Reqs, status'[r] = "preempted" PROVE r \notin Before(Len(queue))'
    BY <1>1, <1>5, <2>1, <2>2 DEF Resumable, Before
  <2> QED
    BY <2>2 DEF Resumable
<1>12. Paired' /\ Prepared'
  BY <1>1, <1>2, <1>5 DEF Paired, Prepared
<1> QED
  BY <1>2, <1>9, <1>10, <1>11, <1>12 DEF RunnerInv

-----------------------------------------------------------------------------
(* What the worker makes of it.                                             *)

\* The state of a request after an update: of its type, known if it was or
\* is new, and with the blocks the output names.
LEMMA UpdatedState ==
  ASSUME NEW o \in Outputs, NEW b \in Batches, RunnerType, UpdateStates(o, b),
         NEW r \in Reqs
  PROVE  /\ cached'[r] \in States
         /\ r \in o.new => cached'[r].known /\ cached'[r].blocks = o.blocks[r]
         /\ r \in Scheduled(b.n) \ (o.new \cup o.finished) =>
              /\ cached'[r].known = cached[r].known
              /\ cached'[r].blocks =
                   IF r \notin inBatch /\ r \in o.resumed THEN o.blocks[r]
                   ELSE cached[r].blocks + o.blocks[r]
         /\ r \notin Scheduled(b.n) \cup o.new \cup o.finished => cached'[r] = cached[r]
<1>1. /\ o.blocks[r] \in Int /\ o.computed[r] \in Int /\ o.outs[r] \in Int
      /\ b.s[r] \in Int /\ counts[r] \in Int /\ cached[r] \in States
  BY DEF Outputs, Batches, RunnerType
<1>2. /\ cached[r].known \in BOOLEAN /\ cached[r].computed \in Int /\ cached[r].outs \in Int
      /\ cached[r].blocks \in Int /\ cached[r].draftLen \in Int
  BY <1>1 DEF States
<1>3. cached'[r] =
       CASE Forgotten(o, r) -> Unknown
         [] ~Forgotten(o, r) /\ r \in o.new -> NewState(o, r)
         [] r \in Scheduled(b.n) \ (o.new \cup o.finished) ->
              IF r \in inBatch THEN KeptState(o, b.s, r) ELSE ReaddedState(o, r)
         [] OTHER -> cached[r]
  BY DEF UpdateStates
<1>4. CASE r \in o.finished \ o.new
  <2>1. cached'[r] = Unknown
    BY <1>3, <1>4 DEF Forgotten
  <2>2. Unknown \in States
    BY DEF Unknown, States
  <2> QED
    BY <1>4, <2>1, <2>2
<1>5. CASE r \in o.new
  <2>1. cached'[r] = NewState(o, r)
    BY <1>3, <1>5 DEF Forgotten
  <2>2. NewState(o, r) \in States
    BY <1>1 DEF NewState, States
  <2>3. NewState(o, r).known /\ NewState(o, r).blocks = o.blocks[r]
    BY DEF NewState
  <2> QED
    BY <1>5, <2>1, <2>2, <2>3
<1>6. CASE r \in Scheduled(b.n) \ (o.new \cup o.finished)
  <2>1. cached'[r] = IF r \in inBatch THEN KeptState(o, b.s, r) ELSE ReaddedState(o, r)
    BY <1>3, <1>6 DEF Forgotten
  <2>2. CASE r \in inBatch
    <3>1. PICK rejected \in Int, accepted \in Int :
            rejected = NumRejected(cached[r], counts[r])
            /\ accepted = NumAccepted(cached[r], counts[r])
      <4>1. NumRejected(cached[r], counts[r]) \in Int /\ NumAccepted(cached[r], counts[r]) \in Int
        BY <1>1, <1>2 DEF NumRejected, NumAccepted
      <4> QED
        BY <4>1
    <3>2. PICK outs \in Int : outs = MinOf(o.outs[r], cached[r].outs + accepted)
      BY <1>1, <1>2 DEF MinOf
    <3>3. PICK draft \in Int : draft = IF AsyncScheduling THEN b.s[r] ELSE cached[r].draftLen
      BY <1>1, <1>2
    <3>4. cached'[r] = [cached[r] EXCEPT !.computed = o.computed[r] - rejected, !.outs = outs,
                          !.blocks = cached[r].blocks + o.blocks[r], !.draftLen = draft]
      BY <2>1, <2>2, <3>1, <3>2, <3>3 DEF KeptState
    <3>5. /\ cached'[r] \in States /\ cached'[r].known = cached[r].known
          /\ cached'[r].blocks = cached[r].blocks + o.blocks[r]
      <4>1. PICK position \in Int, blocks \in Int :
              position = o.computed[r] - rejected /\ blocks = cached[r].blocks + o.blocks[r]
        BY <1>1, <1>2, <3>1
      <4>2. cached'[r] = [cached[r] EXCEPT !.computed = position, !.outs = outs,
                             !.blocks = blocks, !.draftLen = draft]
        BY <3>4, <4>1
      <4>3. PICK st \in States : st = cached[r]
        BY <1>1
      <4>4. cached'[r] = [known |-> st.known, computed |-> position, outs |-> outs,
                         blocks |-> blocks, draftLen |-> draft]
        BY <4>2, <4>3 DEF States
      <4>5. st.known \in BOOLEAN
        BY DEF States
      <4> QED
        BY <4>1, <4>3, <4>4, <4>5 DEF States
    <3> QED
      BY <1>6, <2>2, <3>5
  <2>3. CASE r \notin inBatch
    <3>1. PICK outs \in Int : outs = IF AsyncScheduling /\ o.outs[r] > 0
                                     THEN o.outs[r] ELSE MinOf(o.outs[r], cached[r].outs)
      BY <1>1, <1>2 DEF MinOf
    <3>2. PICK blocks \in Int : /\ blocks = BlocksReadded(o, r)
                                /\ blocks = IF r \in o.resumed THEN o.blocks[r]
                                            ELSE cached[r].blocks + o.blocks[r]
      BY <1>1, <1>2 DEF BlocksReadded
    <3>3. cached'[r] = [cached[r] EXCEPT !.computed = o.computed[r], !.outs = outs,
                          !.blocks = blocks, !.draftLen = 0]
      BY <2>1, <2>3, <3>1, <3>2 DEF ReaddedState
    <3>4. /\ cached'[r] \in States /\ cached'[r].known = cached[r].known
          /\ cached'[r].blocks = blocks
      <4>1. PICK st \in States : st = cached[r]
        BY <1>1
      <4>2. PICK position \in Int : position = o.computed[r]
        BY <1>1
      <4>3. cached'[r] = [known |-> st.known, computed |-> position, outs |-> outs,
                         blocks |-> blocks, draftLen |-> 0]
        BY <3>3, <4>1, <4>2 DEF States
      <4>4. st.known \in BOOLEAN
        BY DEF States
      <4> QED
        BY <4>1, <4>3, <4>4 DEF States
    <3> QED
      BY <1>6, <2>3, <3>2, <3>4
  <2> QED
    BY <2>2, <2>3
<1>7. CASE r \notin Scheduled(b.n) \cup o.new \cup o.finished
  BY <1>1, <1>3, <1>7 DEF Forgotten
<1> QED
  BY <1>4, <1>5, <1>6, <1>7

\* The worker executes the batch the engine waits for, and knows every
\* request of it.
LEMMA ExecuteRunner ==
  ASSUME CoreInv, RunnerInv, ExecuteModel
  PROVE  RunnerInv'
<1>1. /\ Inv /\ TypeOK /\ RunnerType /\ Paired /\ Instructed
      /\ pc = "output" /\ executed = FALSE /\ executed' = TRUE /\ counts' = Zero
      /\ UNCHANGED <<newReqs, resumedReqs, newBlocks, sent, queue, status, held,
                     finished, nsched, pc, todo>>
      /\ UpdateStates(Head(sent), Head(queue))
      /\ \A r \in Reqs : Upcoming(r)
      /\ Resumable
  BY DEF CoreInv, Inv, RunnerInv, RunnerType, ExecuteModel, passVars, vars, reqVars,
     blockVars, queueVars, localVars
<1>2. /\ queue # <<>> /\ Len(queue) >= 1 /\ Len(queue) \in Nat /\ Head(queue) = queue[1]
      /\ Head(sent) = sent[1] /\ queue[1] \in Batches /\ sent[1] \in Outputs
      /\ Len(sent) = Len(queue)
  <2>1. queue \in Seq(Batches) /\ queue # <<>> /\ sent \in Seq(Outputs) /\ Len(sent) = Len(queue)
    BY <1>1 DEF Inv, TypeOK, BatchQueueBounded, RunnerType, Paired
  <2> QED
    BY <2>1
<1>3. Done = 0 /\ Done' = 1 /\ Exact' = Exact
  BY <1>1 DEF Done, Exact
<1>4. inBatch' = Batch(1) /\ Batch(1) \subseteq Reqs
  <2>1. Batch(1) \subseteq Reqs
    BY <1>1, <1>2, RunnerNumbers
  <2> QED
    BY <1>1, <1>2, <2>1 DEF UpdateStates, Batch
<1>5. ASSUME NEW r \in Reqs
      PROVE  /\ cached'[r] \in States
             /\ r \in Batch(1) =>
                  cached'[r].known /\ (Exact => cached'[r].blocks = sent[1].held[r])
             /\ r \notin Batch(1) /\ r \notin sent[1].finished => cached'[r] = cached[r]
  <2>1. sent[1].new \subseteq Batch(1) /\ (r \in Batch(1) => Told(1, r))
    <3>1. 1 \in Done + 1 .. Len(queue)
      BY <1>2, <1>3
    <3> QED
      BY <1>1, <3>1 DEF Instructed
  <2>2. /\ cached'[r] \in States
        /\ r \in sent[1].new => cached'[r].known /\ cached'[r].blocks = sent[1].blocks[r]
        /\ r \in Batch(1) \ (sent[1].new \cup sent[1].finished) =>
             /\ cached'[r].known = cached[r].known
             /\ cached'[r].blocks =
                  IF r \notin inBatch /\ r \in sent[1].resumed THEN sent[1].blocks[r]
                  ELSE cached[r].blocks + sent[1].blocks[r]
        /\ r \notin Batch(1) \cup sent[1].new \cup sent[1].finished => cached'[r] = cached[r]
    BY <1>1, <1>2, UpdatedState DEF Batch
  <2>3. CASE r \in Batch(1) /\ r \in sent[1].new
    BY <2>1, <2>2, <2>3 DEF Told
  <2>4. CASE r \in Batch(1) /\ r \notin sent[1].new
    <3>1. /\ r \notin sent[1].finished
          /\ \E w \in Int : /\ Knows(r, 0, w)
                            /\ Exact /\ r \notin sent[1].resumed
                                 => w + sent[1].blocks[r] = sent[1].held[r]
          /\ r \in sent[1].resumed =>
               r \notin inBatch /\ (Exact => sent[1].blocks[r] = sent[1].held[r])
      <4>1. 1 - 1 = 0 /\ Before(0) = inBatch
        BY <1>3 DEF Before
      <4> QED
        BY <2>1, <2>4, <4>1 DEF Told
    <3>2. cached[r].known
          /\ (Exact /\ r \notin sent[1].resumed
                => cached[r].blocks + sent[1].blocks[r] = sent[1].held[r])
      <4>1. PICK w \in Int : /\ Knows(r, 0, w)
                             /\ Exact /\ r \notin sent[1].resumed
                                  => w + sent[1].blocks[r] = sent[1].held[r]
        BY <3>1
      <4>2. cached[r].known /\ (Exact => w = cached[r].blocks)
        BY <1>3, <4>1 DEF Knows
      <4> QED
        BY <4>1, <4>2
    <3> QED
      BY <2>2, <2>4, <3>1, <3>2
  <2>5. CASE r \notin Batch(1)
    BY <2>1, <2>2, <2>5
  <2> QED
    BY <2>3, <2>4, <2>5
<1>6. RunnerType'
  <2>1. cached' \in [Reqs -> States]
    <3>1. cached' = [r \in Reqs |-> cached'[r]]
      BY <1>1 DEF UpdateStates
    <3> QED
      BY <1>5, <3>1
  <2> QED
    BY <1>1, <1>4, <2>1 DEF RunnerType, Zero
<1>7. ASSUME NEW r \in Reqs
      PROVE  \A i \in 1 .. Len(queue) :
               /\ Before(i)' = Before(i)
               /\ \A v \in Int : Knows(r, i, v) => Knows(r, i, v)'
               /\ i > 1 /\ Told(i, r) => Told(i, r)'
  BY <1>1, <1>2, <1>4, <1>5, HistoryDone
<1>8. \A i \in 1 .. Len(queue) : Batch(i)' = Batch(i)
  BY <1>1 DEF Batch, Scheduled
<1>9. Instructed'
  <2>1. ASSUME NEW i \in 2 .. Len(queue)
        PROVE  sent[i].new \subseteq Batch(i)' /\ \A r \in Batch(i)' : Told(i, r)'
    <3>1. i \in Done + 1 .. Len(queue) /\ i \in 1 .. Len(queue) /\ i > 1
      BY <1>2, <1>3, <2>1
    <3>2. sent[i].new \subseteq Batch(i) /\ \A r \in Batch(i) : r \in Reqs /\ Told(i, r)
      BY <1>1, <3>1, RunnerNumbers DEF Instructed
    <3> QED
      BY <1>7, <1>8, <3>1, <3>2
  <2> QED
    BY <1>1, <1>3, <2>1 DEF Instructed
<1>10. PICK n \in 1 .. Len(queue) : n = Len(queue)
  BY <1>2
<1>11. ASSUME NEW r \in Reqs PROVE Before(Len(queue))' = Before(Len(queue))
  <2>1. Before(n)' = Before(n)
    BY <1>7
  <2> QED
    BY <1>1, <1>10, <2>1 DEF Before
<1>12. ASSUME NEW r \in Reqs PROVE Upcoming(r)'
  <2>1. ASSUME Recalled(r) PROVE Recalled(r)'
    <3>1. PICK w \in Int : /\ Knows(r, n, w)
                           /\ Exact /\ status[r] = "running" /\ r \notin resumedReqs
                                => w + newBlocks[r] = held[r]
      BY <1>10, <2>1 DEF Recalled
    <3>2. Knows(r, n, w)'
      BY <1>7, <3>1
    <3>3. Knows(r, Len(queue), w)'
      BY <1>1, <1>10, <3>2 DEF Knows, Quiet
    <3> QED
      BY <1>1, <1>3, <2>1, <3>1, <3>3 DEF Recalled
  <2> QED
    BY <1>1, <1>11, <2>1 DEF Upcoming
<1>13. Resumable'
  BY <1>1, <1>11 DEF Resumable
<1>14. Prepared'
  BY <1>1, <1>4, <1>5, <1>8, <1>2, <1>3 DEF Prepared
<1>15. Paired'
  BY <1>1, <1>2, <1>8 DEF Paired
<1> QED
  BY <1>1, <1>6, <1>9, <1>12, <1>13, <1>14, <1>15 DEF RunnerInv

\* Steps the worker does not hear of and that touch nothing it knows.
LEMMA SilentRunner ==
  ASSUME RunnerInv, CoreInv, UNCHANGED runnerVars,
         UNCHANGED <<status, held, nsched, finished, pc, todo, queue>>
  PROVE  RunnerInv'
<1>1. /\ UNCHANGED <<newReqs, resumedReqs, newBlocks, sent, executed, cached, inBatch, counts>>
  BY DEF runnerVars, passVars, workerVars
<1>2. Inv /\ RunnerType /\ Paired /\ Instructed /\ Prepared
  BY DEF RunnerInv, CoreInv
<1>3. \A i \in 1 .. Len(queue) : Batch(i)' = Batch(i)
  BY DEF Batch, Scheduled
<1>4. Instructed' /\ Prepared' /\ HistoryKept
  BY <1>1, <1>2, <1>3, NothingTold
<1>5. ASSUME NEW r \in Reqs PROVE Upcoming(r)'
  <2>1. Recalled(r) => Recalled(r)'
    <3> SUFFICES ASSUME Recalled(r) PROVE Recalled(r)'
      OBVIOUS
    <3>1. PICK w \in Int : /\ Knows(r, Len(queue), w)
                           /\ Exact /\ status[r] = "running" /\ r \notin resumedReqs
                                => w + newBlocks[r] = held[r]
      BY DEF Recalled
    <3>2. Knows(r, Len(queue), w)' /\ Exact' = Exact
      BY <1>4, <3>1 DEF HistoryKept, Exact
    <3> QED
      BY <1>1, <3>1, <3>2 DEF Recalled
  <2>2. Upcoming(r)
    BY DEF RunnerInv
  <2> QED
    BY <1>1, <1>4, <2>1, <2>2 DEF Upcoming, HistoryKept
<1>6. pc' \in {"idle", "output", "waiting"} => Resumable'
  BY <1>4 DEF RunnerInv, Resumable, HistoryKept
<1>7. RunnerType' /\ Paired'
  BY <1>1, <1>2 DEF RunnerType, Paired, Batch, Scheduled
<1> QED
  BY <1>4, <1>5, <1>6, <1>7 DEF RunnerInv

\* Every step of an engine and its worker.
LEMMA StepRunner ==
  ASSUME CoreInv, RunnerInv,
         \/ Hears
         \/ ExecuteModel
         \/ UNCHANGED <<runnerVars, status, held, nsched, finished, pc, todo, queue>>,
         pc = "running" /\ pc' = "waiting" => Resumable,
         CoreNext
  PROVE  RunnerInv'
<1>1. Inv'
  BY StepCore DEF CoreInv
<1>2. CASE Hears
  <2>1. PassStep \/ Commits \/ (Drain \/ OutputStep \/ ClientStep) \/ Pops
    BY <1>2 DEF Hears, Engine, Moves
  <2> QED
    BY <1>1, <1>2, <2>1, PassRunner, CommitRunner, OutputRunner, PopRunner
<1>3. CASE ExecuteModel
  BY <1>3, ExecuteRunner
<1>4. CASE UNCHANGED <<runnerVars, status, held, nsched, finished, pc, todo, queue>>
  BY <1>4, SilentRunner
<1> QED
  BY <1>2, <1>3, <1>4

\* The worker starts with empty caches.
LEMMA RunnerStart ==
  ASSUME Init, RunnerInit
  PROVE  RunnerInv
<1>1. RunnerType
  <2>1. Unknown \in States
    BY DEF Unknown, States
  <2>2. /\ cached = [r \in Reqs |-> Unknown] /\ newBlocks = [r \in Reqs |-> 0]
        /\ counts = [r \in Reqs |-> 0] /\ sent = <<>> /\ executed = FALSE
        /\ newReqs = {} /\ resumedReqs = {} /\ inBatch = {}
    BY DEF RunnerInit, Zero
  <2>3. cached \in [Reqs -> States]
    BY <2>1, <2>2
  <2>4. newBlocks \in [Reqs -> Int] /\ counts \in [Reqs -> Int]
    BY <2>2
  <2>5. sent \in Seq(Outputs)
    BY <2>2
  <2> QED
    BY <2>2, <2>3, <2>4, <2>5 DEF RunnerType
<1>2. /\ Len(sent) = 0 /\ Len(queue) = 0 /\ Done = 0 /\ pc = "idle"
      /\ \A r \in Reqs : status[r] = "none" /\ newBlocks[r] = 0
      /\ newReqs = {} /\ resumedReqs = {} /\ executed = FALSE
  BY DEF Init, RunnerInit, Done, Zero
<1> QED
  BY <1>1, <1>2 DEF RunnerInv, Paired, Instructed, Prepared, Upcoming, Resumable

\* What the invariant says of a batch that has been executed.
LEMMA RunnerFacts ==
  ASSUME CoreInv, RunnerInv
  PROVE  StateCached /\ (Exact => WorkerBlocks)
<1>1. Paired /\ Prepared /\ Inv /\ RunnerType
  BY DEF RunnerInv, CoreInv
<1>2. executed => Head(queue) = queue[1] /\ Head(sent) = sent[1]
  <2>1. queue \in Seq(Batches) /\ sent \in Seq(Outputs) /\ Len(sent) = Len(queue)
        /\ (executed => queue # <<>>)
    BY <1>1 DEF Inv, TypeOK, BatchQueueBounded, RunnerType, Paired
  <2> QED
    BY <2>1
<1>3. StateCached
  BY <1>1, <1>2 DEF StateCached, Prepared, Batch
<1>4. Exact => WorkerBlocks
  BY <1>1, <1>2 DEF WorkerBlocks, Executed, Prepared, Paired
<1> QED
  BY <1>3, <1>4

-----------------------------------------------------------------------------
(* Positions.  The scheduler sends optimistic counts; what the worker makes *)
(* of them is right because it knows how far every output it has not        *)
(* executed yet is ahead of the tokens a request really has.                *)

\* Every batch is async or consumed before the next one is made, and an output
\* finds the life of the request it was made for.
Unpipelined == (AsyncScheduling \/ BatchQueueSize = 1) /\ MaxSubmissions = 1

\* Without drafts in flight there is nothing to take back.
Plain == AsyncScheduling => NumSpecTokens = 0

\* What the next _update_states takes off a request's positions, and how many
\* tokens it adds to the ones noted.
Rejections(r) == NumRejected(cached[r], counts[r])
Accepted(r) == NumAccepted(cached[r], counts[r])

\* The first k batches and the persistent batch know nothing of r, which has
\* no tokens of its own.
Untouched(r, k) ==
  out[r] = 0 /\ r \notin inBatch /\ \A j \in 1 .. k : r \notin Batch(j)

\* No trace of an id that was never submitted, no finished id that lives, and
\* a request that is sent as a new one is new.
Traceless(r) ==
  /\ r \notin inBatch /\ r \notin finished /\ cached[r].outs = 0
  /\ \A i \in 1 .. Len(queue) : r \notin Batch(i) /\ r \notin sent[i].finished
Gone(r) == r \in finished \/ \E i \in 1 .. Len(queue) : r \in sent[i].finished
NewAreNew(r) ==
  /\ status[r] \in {"waiting", "waiting_fsm"} \/ r \in newReqs => Untouched(r, Len(queue))
  /\ \A i \in Done + 1 .. Len(queue) : r \in sent[i].new => Untouched(r, i - 1)

\* How far the output of batch i is ahead of the tokens of r: by all that the
\* batch before will sample, or by the drafts it rejected.
Behind(i, r) ==
  IF i = 2 /\ 1 \in InFlight(r) THEN Due(1, r)
  ELSE IF i = Done + 1 /\ r \in inBatch THEN Rejections(r) ELSE 0

\* A batch samples for r when it computes all its tokens, those in flight and
\* the drafts included.
Posted(i, r) ==
  IF r \in queue[i].emit
  THEN sent[i].computed[r] + queue[i].n[r] = Prompt[r] + sent[i].outs[r] + queue[i].s[r]
  ELSE /\ queue[i].s[r] = 0
       /\ sent[i].computed[r] + queue[i].n[r] < Prompt[r] + sent[i].outs[r]

Leads(i, r) == sent[i].outs[r] = out[r] + Behind(i, r)

\* The worker has noted every token of r, apart from the drafts it finds
\* accepted when r stays in the persistent batch.
Waits(r) ==
  /\ AsyncScheduling => r \in inBatch /\ (Done < Len(queue) => r \in Batch(Done + 1))
  /\ executed => r \notin todo
Noted(r) ==
  Waits(r) => Rejections(r) >= 0 /\ cached[r].outs + Accepted(r) = out[r]

\* A batch that is executed found r where r really is.
Settled(r) ==
  executed /\ r \in todo =>
    /\ cached[r].outs = out[r]
    /\ cached[r].computed = sent[1].computed[r] - (sent[1].outs[r] - out[r])

\* No live request of a batch is forgotten before the batch is executed, and
\* the worker knows the drafts of a request that stays.
Attended(r) == pc = "output" /\ ~executed /\ r \in Batch(1) => r \in todo
Aligned(r) ==
  executed /\ r \in Batch(1) /\ (Len(queue) = 2 => r \in Batch(2)) =>
    cached[r].draftLen = IF AsyncScheduling THEN queue[1].s[r] ELSE 0

Follows(r) ==
  /\ \A i \in 1 .. Len(queue) :
       r \in Batch(i) => Posted(i, r) /\ (i > Done => Leads(i, r))
  /\ Noted(r) /\ Settled(r) /\ Attended(r) /\ Aligned(r)

\* No pass schedules more than a request will have, no batch more drafts than
\* are proposed.
Within ==
  Scheduling => \A r \in Reqs : nsched[r] > 0 =>
    computed[r] + nsched[r] <= NumTokens(r) + placeholders[r] + sspec[r]
FewDrafts ==
  \A r \in Reqs :
    /\ sspec[r] <= NumSpecTokens
    /\ \A i \in 1 .. Len(queue) : queue[i].s[r] >= 0 /\ queue[i].s[r] <= NumSpecTokens

\* Of one request: what the steps of others leave alone.
Traced(r) ==
  /\ submissions[r] = 0 => Traceless(r)
  /\ Gone(r) => ~Live(r)
  /\ NewAreNew(r)
  /\ Live(r) => cached[r].outs >= 0
  /\ Plain => cached[r].draftLen = 0

PosInv ==
  /\ Within /\ FewDrafts
  /\ executed => inBatch = Batch(1)
  /\ \A r \in Reqs : Traced(r) /\ (Live(r) => Follows(r))

\* A request whose drafts the next batch continues was in the batch before,
\* and none is left with rejected drafts when the queue is empty.
Continued ==
  AsyncScheduling /\ pc = "output" /\ ~executed =>
    \A r \in Batch(1) :
      Live(r) /\ queue[1].s[r] > 0 /\ (Len(queue) = 2 => r \in Batch(2)) => r \in inBatch
Rested ==
  AsyncScheduling /\ queue = <<>> => \A r \in inBatch : Live(r) => Rejections(r) = 0

\* These are configurations of the theorems on counts and on sampled positions.
LEMMA UnpipelinedExact == Unpipelined => Exact /\ InOrder /\ MaxSubmissions = 1
BY CoreAssumption DEF Unpipelined, InOrder, Exact

\* What a pass schedules stays within what its requests will have.
LEMMA PassWithin ==
  ASSUME CoreInv, CoreInv', Exact, Within, FewDrafts, PassStep
  PROVE  Within' /\ FewDrafts'
<1>1. /\ Inv /\ QueueConsistency /\ PassInv /\ FlightInv /\ Counted /\ queue' = queue
      /\ pc' # "output" /\ pc # "output" /\ NumSpecTokens \in Nat
  BY CoreAssumption DEF CoreInv, PassStep, Begins, PutsBack, PassesOver, Picks, ScheduleRunning,
     LeavesRunning, Skips, Preempt, Admits
<1>2. CASE UNCHANGED <<computed, nsched, out, placeholders, sspec>>
  <2>1. \A r \in Reqs : NumTokens(r)' = NumTokens(r)
    BY <1>2 DEF NumTokens
  <2>2. CASE Scheduling
    BY <1>1, <1>2, <2>1, <2>2 DEF Within, FewDrafts
  <2>3. CASE ~Scheduling
    <3>1. nsched = Zero
      BY <1>1, <2>3 DEF Scheduling, Inv, PassState, TypeOK
    <3> QED
      BY <1>1, <1>2, <3>1 DEF Within, FewDrafts, Zero
  <2> QED
    BY <2>2, <2>3
<1>3. ASSUME NEW r \in Reqs, NEW n \in Int, Admits(r, n) PROVE Within' /\ FewDrafts'
  <2>1. /\ r \in Elems(waiting) /\ n <= NumTokens(r) - computed[r] /\ Scheduling
        /\ nsched' = [nsched EXCEPT ![r] = n]
        /\ UNCHANGED <<out, computed, placeholders, spec, sspec>>
    BY <1>3 DEF Admits, Scheduling
  <2>2. placeholders[r] >= 0
    <3>1. Live(r)
      BY <1>1, <2>1 DEF QueueConsistency
    <3> QED
      BY <1>1, <3>1, NothingOwed
  <2>3. \A o \in Reqs : NumTokens(o)' = NumTokens(o)
    BY <2>1 DEF NumTokens
  <2>4. computed[r] + n <= NumTokens(r) + placeholders[r] + sspec[r]
    BY <1>1, <2>1, <2>2, LevelType
  <2>5. nsched'[r] = n /\ \A o \in Reqs : o # r => nsched'[o] = nsched[o]
    BY <1>1, <2>1 DEF Inv, TypeOK
  <2> QED
    BY <1>1, <2>1, <2>3, <2>4, <2>5 DEF Within, FewDrafts
<1>4. CASE ScheduleRunning
  <2>1. PICK c \in Reqs : c = cur
    BY <1>1, <1>4 DEF ScheduleRunning, Inv, PassState
  <2>2. /\ pc = "alloc" /\ pc' = "running" /\ Scheduling
        /\ nsched' = [nsched EXCEPT ![c] = num]
        /\ UNCHANGED <<status, out, computed, placeholders>>
    BY <1>4, <2>1 DEF ScheduleRunning, Scheduling
  <2>3. num \in Int /\ 0 < num /\ num <= Remaining(c)
    BY <1>1, <2>1, <2>2 DEF Counted, Inv, TypeOK
  <2>4. PICK extra \in Int :
          /\ extra = num + computed[c] - NumTokens(c) - placeholders[c]
          /\ sspec' = [sspec EXCEPT ![c] =
               IF spec[c] > 0 /\ extra > 0 THEN MinOf(extra, spec[c]) ELSE 0]
    <3>1. num + computed[c] - NumTokens(c) - placeholders[c] \in Int
      BY <1>1, <2>3, LevelType
    <3> QED
      BY <1>4, <2>1, <3>1 DEF ScheduleRunning
  <2>5. /\ nsched'[c] = num
        /\ sspec'[c] = IF spec[c] > 0 /\ extra > 0 THEN MinOf(extra, spec[c]) ELSE 0
        /\ \A o \in Reqs : o # c => nsched'[o] = nsched[o] /\ sspec'[o] = sspec[o]
    BY <1>1, <2>2, <2>4 DEF Inv, TypeOK
  <2>6. extra <= spec[c] /\ spec[c] <= NumSpecTokens /\ spec[c] \in Nat
    BY <1>1, <2>3, <2>4, LevelType DEF Remaining, Counted
  <2>7. sspec'[c] = (IF extra > 0 THEN extra ELSE 0) /\ sspec'[c] <= NumSpecTokens
    BY <1>1, <2>4, <2>5, <2>6 DEF MinOf
  <2>8. computed[c] + num <= NumTokens(c) + placeholders[c] + sspec'[c]
    BY <1>1, <2>3, <2>4, <2>7, LevelType
  <2>9. \A o \in Reqs : NumTokens(o)' = NumTokens(o)
    BY <2>2 DEF NumTokens
  <2> QED
    BY <1>1, <2>2, <2>5, <2>7, <2>8, <2>9 DEF Within, FewDrafts
<1>5. ASSUME NEW v \in Reqs, Preempt(v) PROVE Within' /\ FewDrafts'
  <2>1. /\ Scheduling /\ UNCHANGED <<out, placeholders>>
        /\ computed' = [computed EXCEPT ![v] = 0]
        /\ running' = Without(running, v)
        /\ \/ nsched' = nsched /\ sspec' = sspec
           \/ nsched' = [nsched EXCEPT ![v] = 0] /\ sspec' = [sspec EXCEPT ![v] = 0]
        /\ pc' \in {"alloc", "commit"}
    BY <1>5 DEF Preempt, Scheduling
  <2>2. \A o \in Reqs : o # v => /\ computed'[o] = computed[o] /\ nsched'[o] = nsched[o]
                                 /\ sspec'[o] = sspec[o]
    <3>1. nsched \in [Reqs -> Int] /\ sspec \in [Reqs -> Int] /\ computed \in [Reqs -> Int]
      BY <1>1 DEF Inv, TypeOK
    <3> QED
      BY <2>1, <3>1
  <2>3. ~(nsched'[v] > 0)
    <3>1. Scheduled(nsched') \subseteq Elems(running')
      BY <2>1 DEF CoreInv, PassInv, BudgetRespected, Scheduling
    <3>2. v \notin Elems(running')
      <4>1. running \in Seq(Reqs) /\ NoRepeats(running)
        BY <1>1, PassFacts
      <4> QED
        BY <2>1, <4>1, WithoutElems
    <3> QED
      BY <3>1, <3>2 DEF Scheduled
  <2>4. sspec'[v] <= NumSpecTokens
    <3>1. sspec[v] <= NumSpecTokens /\ sspec \in [Reqs -> Int]
      BY <1>1 DEF FewDrafts, Inv, TypeOK
    <3> QED
      BY <1>1, <2>1, <3>1
  <2>5. \A o \in Reqs : NumTokens(o)' = NumTokens(o)
    BY <2>1 DEF NumTokens
  <2> QED
    BY <1>1, <2>1, <2>2, <2>3, <2>4, <2>5 DEF Within, FewDrafts
<1>6. Begins \/ PutsBack \/ PassesOver \/ Picks \/ LeavesRunning \/ (\E r \in Reqs : Skips(r))
        => UNCHANGED <<computed, nsched, out, placeholders, sspec>>
  BY DEF Begins, PutsBack, PassesOver, Picks, LeavesRunning, Skips, reqVars, localVars
<1> QED
  BY <1>2, <1>3, <1>4, <1>5, <1>6 DEF PassStep

\* The numbers positions are made of.
LEMMA PosNumbers ==
  ASSUME Inv, FlightInv, RunnerType, NEW r \in Reqs
  PROVE  /\ out[r] \in Nat /\ counts[r] \in Int /\ Prompt[r] \in Nat
         /\ cached[r].computed \in Int /\ cached[r].outs \in Int /\ cached[r].draftLen \in Int
         /\ Rejections(r) \in Int /\ Accepted(r) \in Int
         /\ Due(1, r) \in Nat /\ \A i : Behind(i, r) \in Int
<1>1. out[r] \in Nat /\ counts[r] \in Int /\ Prompt[r] \in Nat /\ cached[r] \in States
  BY CoreAssumption DEF Inv, TypeOK, RunnerType
<1>2. cached[r].computed \in Int /\ cached[r].outs \in Int /\ cached[r].draftLen \in Int
  BY <1>1 DEF States
<1>3. Rejections(r) \in Int /\ Accepted(r) \in Int
  BY <1>1, <1>2 DEF Rejections, Accepted, NumRejected, NumAccepted
<1>4. Due(1, r) \in Nat
  BY DueType DEF Inv, FlightInv
<1> QED
  BY <1>1, <1>2, <1>3, <1>4 DEF Behind

\* The batches stay what they are.
SameBatches ==
  /\ Len(queue') = Len(queue) /\ sent' = sent /\ inBatch' = inBatch /\ executed' = executed
  /\ \A i \in 1 .. Len(queue) : /\ queue'[i].n = queue[i].n /\ queue'[i].s = queue[i].s
                                /\ queue'[i].emit = queue[i].emit

\* They are then the same to every request.
LEMMA SameToAll ==
  ASSUME SameBatches, FewDrafts, \A r \in Reqs : sspec'[r] <= NumSpecTokens
  PROVE  /\ FewDrafts' /\ Done' = Done /\ \A i \in 1 .. Len(queue) : Batch(i)' = Batch(i)
         /\ \A i \in 1 .. Len(queue) : \A r : r \in Batch(i)' <=> r \in Batch(i)
<1>1. \A i \in 1 .. Len(queue) : Batch(i)' = Batch(i)
  BY DEF SameBatches, Batch, Scheduled
<1> QED
  BY <1>1 DEF SameBatches, FewDrafts, Done

\* A request the step does not concern is followed as before.
LEMMA FollowsKept ==
  ASSUME TypeOK, SameBatches, NEW r \in Reqs, Follows(r), Attended(r)',
         out'[r] = out[r], cached'[r] = cached[r], counts'[r] = counts[r],
         1 \in InFlight(r)' <=> 1 \in InFlight(r), executed => (r \in todo' <=> r \in todo),
         executed => queue # <<>>
  PROVE  Follows(r)'
<1>1. /\ Done' = Done /\ executed' = executed /\ inBatch' = inBatch /\ sent' = sent
      /\ Len(queue') = Len(queue) /\ Len(queue) \in Nat
      /\ \A i \in 1 .. Len(queue) : Batch(i)' = Batch(i)
  <2>1. \A i \in 1 .. Len(queue) : Batch(i)' = Batch(i)
    BY DEF SameBatches, Batch, Scheduled
  <2>2. Len(queue) \in Nat
    BY DEF TypeOK
  <2> QED
    BY <2>1, <2>2 DEF SameBatches, Done
<1>2. Rejections(r)' = Rejections(r) /\ Accepted(r)' = Accepted(r)
  BY DEF Rejections, Accepted
<1>3. 1 \in InFlight(r) => 1 \in 1 .. Len(queue)
  BY DEF InFlight, TypeOK
<1>4. Due(1, r)' = Due(1, r)
  BY <1>3 DEF Due, SameBatches
<1>5. \A i : Behind(i, r)' = Behind(i, r)
  BY <1>1, <1>2, <1>4 DEF Behind
<1>6. \A i \in 1 .. Len(queue) : (Posted(i, r)' <=> Posted(i, r)) /\ (Leads(i, r)' <=> Leads(i, r))
  BY <1>5 DEF Posted, Leads, SameBatches
<1>7. \A i \in 1 .. Len(queue)' : r \in Batch(i)' => Posted(i, r)' /\ (i > Done' => Leads(i, r)')
  BY <1>1, <1>6 DEF Follows
<1>8. Noted(r)'
  <2>1. Done < Len(queue) => Done + 1 \in 1 .. Len(queue)
    BY <1>1 DEF Done
  <2>2. Waits(r)' <=> Waits(r)
    BY <1>1, <2>1 DEF Waits
  <2> QED
    BY <1>2, <2>2 DEF Noted, Follows
<1>9. Settled(r)'
  BY <1>1 DEF Settled, Follows
<1>10. Aligned(r)'
  <2>1. executed => 1 \in 1 .. Len(queue)
    BY DEF TypeOK
  <2>2. Len(queue) = 2 => 2 \in 1 .. Len(queue)
    BY <1>1
  <2> QED
    BY <1>1, <2>1, <2>2 DEF Aligned, Follows, SameBatches
<1> QED
  BY <1>7, <1>8, <1>9, <1>10 DEF Follows

\* The traces of a request no step begins.
LEMMA TracedKept ==
  ASSUME TypeOK, SameBatches, NEW r \in Reqs, Traced(r), submissions'[r] = submissions[r],
         Live(r)' => Live(r),
         r \in finished' => r \in finished \/ (~Live(r)' /\ submissions[r] # 0),
         out[r] = 0 /\ r \notin inBatch => out'[r] = 0,
         status'[r] \in {"waiting", "waiting_fsm"} => status[r] \in {"waiting", "waiting_fsm"},
         r \in newReqs' => status[r] \in {"waiting", "waiting_fsm"} \/ r \in newReqs,
         cached'[r].draftLen = cached[r].draftLen,
         submissions[r] = 0 => cached'[r].outs = cached[r].outs,
         Live(r)' /\ cached[r].outs >= 0 => cached'[r].outs >= 0
  PROVE  Traced(r)'
<1>1. /\ Done' = Done /\ executed' = executed /\ inBatch' = inBatch /\ sent' = sent
      /\ Len(queue') = Len(queue) /\ Len(queue) \in Nat
      /\ \A i \in 1 .. Len(queue) : Batch(i)' = Batch(i)
  <2>1. \A i \in 1 .. Len(queue) : Batch(i)' = Batch(i)
    BY DEF SameBatches, Batch, Scheduled
  <2>2. Len(queue) \in Nat
    BY DEF TypeOK
  <2> QED
    BY <2>1, <2>2 DEF SameBatches, Done
<1>2. ASSUME NEW k \in Int, k <= Len(queue), Untouched(r, k) PROVE Untouched(r, k)'
  <2>1. \A j \in 1 .. k : j \in 1 .. Len(queue)
    BY <1>1, <1>2
  <2> QED
    BY <1>1, <1>2, <2>1 DEF Untouched
<1>3. NewAreNew(r)'
  <2>1. ASSUME status'[r] \in {"waiting", "waiting_fsm"} \/ r \in newReqs'
        PROVE  Untouched(r, Len(queue))'
    <3>1. Untouched(r, Len(queue))
      BY <2>1 DEF Traced, NewAreNew
    <3> QED
      BY <1>1, <1>2, <3>1 DEF Untouched
  <2>2. ASSUME NEW i \in Done + 1 .. Len(queue), r \in sent[i].new PROVE Untouched(r, i - 1)'
    <3>1. Untouched(r, i - 1)
      BY <2>2 DEF Traced, NewAreNew
    <3> QED
      BY <1>1, <1>2, <3>1
  <2> QED
    BY <1>1, <2>1, <2>2 DEF NewAreNew
<1>4. submissions'[r] = 0 => Traceless(r)'
  BY <1>1 DEF Traced, Traceless
<1>5. Gone(r)' => ~Live(r)'
  BY <1>1 DEF Traced, Gone
<1> QED
  BY <1>3, <1>4, <1>5 DEF Traced, Plain

\* A step outside the outputs leaves the worker alone.
LEMMA StillWorker ==
  ASSUME CoreInv, CoreInv', RunnerInv, Hears, pc \notin {"commit", "output"},
         Len(queue') = Len(queue),
         \A i \in 1 .. Len(queue) : /\ queue'[i].n = queue[i].n /\ queue'[i].s = queue[i].s
                                    /\ queue'[i].emit = queue[i].emit
  PROVE  /\ SameBatches /\ executed = FALSE /\ UNCHANGED <<executed, cached, counts, sent, inBatch>>
         /\ newReqs' = newReqs \cup {r \in Reqs : Started(r) /\ status[r] # "preempted"}
<1>1. Inv /\ TypeOK' /\ RunnerType /\ Paired
  BY DEF CoreInv, Inv, RunnerInv
<1>2. executed = FALSE /\ executed' = FALSE
  <2>1. executed' \in BOOLEAN /\ (executed' <=> FALSE)
    BY <1>1, HearsType DEF RunnerType
  <2> QED
    BY <1>1, <2>1 DEF Paired, RunnerType
<1>3. UNCHANGED <<cached, counts, inBatch>>
  BY DEF Hears, Engine
<1>4. /\ sent' = sent
      /\ newReqs' = newReqs \cup {r \in Reqs : Started(r) /\ status[r] # "preempted"}
  BY DEF Hears, Engine, TrackPass
<1> QED
  BY <1>2, <1>3, <1>4 DEF SameBatches

\* A step that changes none of the tokens and none of the batches.
LEMMA QuietPositions ==
  ASSUME CoreInv, CoreInv', RunnerInv, PosInv,
         UNCHANGED <<queue, sent, inBatch, executed, cached, counts, out, submissions, finished>>,
         Within', \A r \in Reqs : sspec'[r] <= NumSpecTokens,
         pc = "output" => pc' = "output" /\ todo' = todo,
         pc' = "output" /\ pc # "output" => todo' = {r \in Scheduled(Head(queue).n) : Live(r)},
         \A r \in Reqs : /\ Live(r)' <=> Live(r)
                         /\ Live(r) => InFlight(r)' = InFlight(r)
                         /\ status'[r] \in {"waiting", "waiting_fsm"}
                              => status[r] \in {"waiting", "waiting_fsm"}
                         /\ r \in newReqs' => status[r] \in {"waiting", "waiting_fsm"} \/ r \in newReqs
  PROVE  PosInv'
<1>1. /\ Inv /\ TypeOK /\ RunnerType /\ Paired /\ SameBatches /\ FewDrafts
      /\ executed => pc = "output" /\ queue # <<>>
      /\ \A r \in Reqs : Traced(r) /\ (Live(r) => Follows(r))
      /\ executed => inBatch = Batch(1)
  BY DEF CoreInv, Inv, RunnerInv, PosInv, SameBatches, Paired, BatchQueueBounded
<1>2. /\ FewDrafts' /\ \A i \in 1 .. Len(queue) : Batch(i)' = Batch(i)
  BY <1>1, SameToAll
<1>3. executed' => inBatch' = Batch(1)'
  <2>1. executed => 1 \in 1 .. Len(queue)
    BY <1>1 DEF TypeOK
  <2> QED
    BY <1>1, <1>2, <2>1
<1>4. ASSUME NEW r \in Reqs PROVE Traced(r)'
  BY <1>1, TracedKept
<1>5. ASSUME NEW r \in Reqs, Live(r)' PROVE Follows(r)'
  <2>1. Live(r) /\ Follows(r) /\ InFlight(r)' = InFlight(r)
    BY <1>1, <1>5
  <2>2. Attended(r)'
    <3>1. CASE pc = "output"
      <4>1. queue # <<>>
        BY <3>1, <1>1 DEF Inv, BatchQueueBounded
      <4>2. 1 \in 1 .. Len(queue)
        BY <4>1, <1>1 DEF TypeOK
      <4> QED
        BY <1>2, <2>1, <3>1, <4>2 DEF Follows, Attended
    <3>2. CASE pc' = "output" /\ pc # "output"
      <4>1. 1 \in 1 .. Len(queue) /\ Head(queue) = queue[1]
        <5>1. queue # <<>>
          BY <3>2 DEF CoreInv, Inv, BatchQueueBounded
        <5> QED
          BY <1>1, <5>1 DEF TypeOK
      <4> QED
        BY <1>2, <2>1, <3>2, <4>1 DEF Attended, Batch
    <3>3. CASE pc' # "output"
      BY <3>3 DEF Attended
    <3> QED
      BY <3>1, <3>2, <3>3
  <2>3. executed => (r \in todo' <=> r \in todo)
    BY <1>1
  <2> QED
    BY <1>1, <2>1, <2>2, <2>3, FollowsKept
<1> QED
  BY <1>2, <1>3, <1>4, <1>5 DEF PosInv

\* A step of a pass.
LEMMA PassPositions ==
  ASSUME CoreInv, CoreInv', RunnerInv, PosInv, Exact, Hears, PassStep
  PROVE  PosInv'
<1>1. /\ queue' = queue /\ UNCHANGED <<out, submissions, finished, todo>>
      /\ pc \notin {"commit", "output"} /\ pc' # "output"
  BY DEF PassStep, Begins, PutsBack, PassesOver, Picks, ScheduleRunning,
     LeavesRunning, Skips, Preempt, Admits, reqVars, queueVars
<1>2. \/ status' = status
      \/ \E r \in Reqs : \/ status' = [status EXCEPT ![r] = "running"] /\ r \in Elems(waiting)
                         \/ status' = [status EXCEPT ![r] = "preempted"] /\ r \in Elems(running)
  BY DEF PassStep, Begins, PutsBack, PassesOver, Picks, ScheduleRunning,
     LeavesRunning, Skips, Preempt, Admits, reqVars, IsVictim
<1>3. ASSUME NEW r \in Reqs
      PROVE  /\ Live(r)' <=> Live(r)
             /\ status'[r] \in {"waiting", "waiting_fsm"} => status[r] \in {"waiting", "waiting_fsm"}
  <2>1. /\ status \in [Reqs -> Statuses]
        /\ \A o \in Reqs : o \in Elems(waiting) \/ o \in Elems(running) => Live(o)
    BY DEF CoreInv, Inv, TypeOK, QueueConsistency
  <2> QED
    BY <1>2, <2>1
<1>4. /\ UNCHANGED <<executed, cached, counts, sent, inBatch>>
      /\ newReqs' = newReqs \cup {r \in Reqs : Started(r) /\ status[r] # "preempted"}
  BY <1>1, StillWorker
<1>5. ASSUME NEW r \in newReqs' PROVE status[r] \in {"waiting", "waiting_fsm"} \/ r \in newReqs
  <2>1. CASE r \in Reqs /\ Started(r) /\ status[r] # "preempted"
    <3>1. Live(r)
      BY <1>3, <2>1 DEF Started
    <3> QED
      BY <2>1, <3>1 DEF Started
  <2> QED
    BY <1>4, <1>5, <2>1
<1>6. \A r : InFlight(r)' = InFlight(r)
  BY <1>1 DEF InFlight
<1>7. Within' /\ FewDrafts'
  BY PassWithin DEF PosInv
<1> QED
  BY <1>1, <1>3, <1>4, <1>5, <1>6, <1>7, QuietPositions DEF FewDrafts

\* The engine waits for the oldest batch because there is no request left.
LEMMA DrainPositions ==
  ASSUME CoreInv, CoreInv', RunnerInv, PosInv, Hears, Drain
  PROVE  PosInv'
<1>1. /\ queue' = queue /\ UNCHANGED <<out, submissions, finished, status, sspec>>
      /\ pc = "idle" /\ pc' = "output" /\ todo' = {r \in Scheduled(Head(queue).n) : Live(r)}
  BY DEF Drain, StartOutput, reqVars, queueVars, localVars
<1>2. /\ UNCHANGED <<executed, cached, counts, sent, inBatch>>
      /\ newReqs' = newReqs \cup {r \in Reqs : Started(r) /\ status[r] # "preempted"}
  BY <1>1, StillWorker
<1>3. newReqs' = newReqs
  BY <1>1, <1>2 DEF Started
<1>4. \A r \in Reqs : Live(r) => InFlight(r)' = InFlight(r)
  BY DrainFlight DEF CoreInv, Inv
<1>5. Within' /\ \A r \in Reqs : sspec'[r] <= NumSpecTokens
  BY <1>1 DEF Within, Scheduling, PosInv, FewDrafts
<1> QED
  BY <1>1, <1>2, <1>3, <1>4, <1>5, QuietPositions

\* Steps the worker does not hear of.
LEMMA SilentPositions ==
  ASSUME CoreInv, CoreInv', RunnerInv, PosInv, UNCHANGED runnerVars,
         (\E r \in Reqs : GrammarReady(r)) \/ UNCHANGED vars
  PROVE  PosInv'
<1>1. /\ UNCHANGED <<queue, out, submissions, finished, status, sspec, pc, todo, computed,
                     placeholders, nsched>>
  BY DEF GrammarReady, vars, reqVars, queueVars, localVars
<1>2. UNCHANGED <<executed, cached, counts, sent, inBatch, newReqs>>
  BY DEF runnerVars, passVars, workerVars
<1>3. \A r : InFlight(r)' = InFlight(r) /\ NumTokens(r)' = NumTokens(r)
  BY <1>1 DEF InFlight, NumTokens
<1>4. Within' /\ \A r \in Reqs : sspec'[r] <= NumSpecTokens
  BY <1>1, <1>3 DEF Within, Scheduling, PosInv, FewDrafts
<1> QED
  BY <1>1, <1>2, <1>3, <1>4, QuietPositions

\* A client submits an id, which nobody has met, or aborts a request.
LEMMA ClientPositions ==
  ASSUME CoreInv, CoreInv', RunnerInv, PosInv, Unpipelined, Hears, ClientStep
  PROVE  PosInv'
<1>1. PICK q \in Reqs : AddRequest(q) \/ Abort(q)
  BY DEF ClientStep
<1>2. /\ queue' = queue /\ pc = "idle" /\ pc' = "idle" /\ sspec' = sspec /\ todo' = todo
      /\ queue \in Seq(Batches) /\ TypeOK /\ FlightInv /\ LifeInv
  BY <1>1 DEF AddRequest, Abort, localVars, CoreInv, Inv, TypeOK
<1>3. /\ SameBatches /\ executed = FALSE /\ UNCHANGED <<executed, cached, counts, sent, inBatch>>
      /\ newReqs' = newReqs \cup {r \in Reqs : Started(r) /\ status[r] # "preempted"}
  BY <1>2, StillWorker
<1>4. /\ FewDrafts' /\ \A i \in 1 .. Len(queue) : Batch(i)' = Batch(i)
  BY <1>2, <1>3, SameToAll DEF PosInv, FewDrafts
<1>5. \A o \in Reqs : /\ status'[o] # "running" \/ status[o] = "running"
                      /\ o # q => /\ status'[o] = status[o] /\ out'[o] = out[o]
                                  /\ submissions'[o] = submissions[o]
                                  /\ (o \in finished' <=> o \in finished)
  BY <1>1, <1>2 DEF AddRequest, Abort, Finish, TypeOK
<1>6. newReqs' = newReqs
  BY <1>3, <1>5 DEF Started
<1>7. ASSUME NEW o \in Reqs, o # q PROVE Traced(o)' /\ (Live(o)' => Follows(o)')
  <2>1. Traced(o) /\ (Live(o) => Follows(o)) /\ (Live(o)' <=> Live(o))
    BY <1>5, <1>7 DEF PosInv
  <2>2. InFlight(o)' = InFlight(o)
    BY <1>2, <1>5, <1>7 DEF InFlight
  <2>3. Attended(o)'
    BY <1>2 DEF Attended
  <2>4. Traced(o)'
    BY <1>2, <1>3, <1>5, <1>6, <1>7, <2>1, TracedKept
  <2> QED
    BY <1>2, <1>3, <1>5, <1>7, <2>1, <2>2, <2>3, <2>4, FollowsKept
<1>8. CASE AddRequest(q)
  <2>1. /\ submissions[q] = 0 /\ submissions'[q] = 1 /\ finished' = finished /\ out' = out
        /\ out[q] = 0
    <3>1. /\ submissions[q] < MaxSubmissions /\ ~Live(q) /\ UNCHANGED <<finished, out>>
          /\ submissions' = [submissions EXCEPT ![q] = @ + 1] /\ submissions[q] \in Nat
      BY <1>2, <1>8 DEF AddRequest, TypeOK
    <3> QED
      BY <1>2, <3>1 DEF Unpipelined, LifeInv, TypeOK
  <2>2. Traceless(q) /\ Traced(q) /\ cached[q].outs = 0
    BY <2>1 DEF PosInv, Traced, Traceless
  <2>3. \A i \in 1 .. Len(queue)' : q \notin Batch(i)'
    BY <1>2, <1>4, <2>2 DEF Traceless
  <2>4. Done' = Done /\ Done = 0
    BY <1>3 DEF Done
  <2>5. Untouched(q, Len(queue))' /\ \A k \in Int : k <= Len(queue) => Untouched(q, k)'
    BY <1>2, <1>3, <1>4, <2>1, <2>2, <2>3 DEF Untouched, Traceless
  <2>6. NewAreNew(q)'
    <3>1. \A i \in Done + 1 .. Len(queue) : i - 1 \in Int /\ i - 1 <= Len(queue)
      BY <1>2, <2>4
    <3> QED
      BY <1>2, <2>4, <2>5, <3>1 DEF NewAreNew, Untouched
  <2>7. ~Gone(q)'
    BY <1>2, <1>3, <2>1, <2>2 DEF Gone, Traceless
  <2>8. Traced(q)'
    BY <1>3, <2>1, <2>2, <2>6, <2>7 DEF Traced, Plain
  <2>9. Follows(q)'
    <3>1. AsyncScheduling => ~Waits(q)'
      BY <1>3, <2>2 DEF Waits, Traceless
    <3>2. ~AsyncScheduling => Noted(q)'
      <4>1. ~AsyncScheduling => cached[q].draftLen = 0
        BY <2>2 DEF Traced, Plain
      <4>2. ~AsyncScheduling => Rejections(q)' = 0 /\ Accepted(q)' = 0
        BY <1>3, <4>1 DEF Rejections, Accepted, NumRejected, NumAccepted
      <4> QED
        BY <2>1, <2>2, <1>3, <4>2 DEF Noted
    <3>3. Noted(q)'
      BY <3>1, <3>2 DEF Noted
    <3> QED
      BY <1>2, <1>3, <2>3, <3>3 DEF Follows, Settled, Attended, Aligned
  <2> QED
    BY <1>2, <1>3, <1>4, <1>7, <2>8, <2>9 DEF PosInv, Within, Scheduling
<1>9. CASE Abort(q)
  <2>1. /\ ~Live(q)' /\ submissions'[q] = submissions[q] /\ submissions[q] # 0
        /\ out'[q] = 0 /\ status'[q] = "finished"
    <3>1. submissions[q] >= 1
      BY <1>9 DEF Abort, CoreInv, FlightInv, Submitted
    <3> QED
      BY <1>2, <1>9, <3>1 DEF Abort, Finish, TypeOK
  <2>2. Traced(q)'
    BY <1>2, <1>3, <1>6, <2>1, TracedKept DEF PosInv
  <2> QED
    BY <1>2, <1>3, <1>4, <1>7, <2>1, <2>2 DEF PosInv, Within, Scheduling
<1> QED
  BY <1>1, <1>8, <1>9

\* In order there are at most two batches, one of which the engine waits for.
LEMMA AtMostTwo ==
  ASSUME Inv, Unpipelined
  PROVE  /\ queue \in Seq(Batches) /\ Len(queue) \in Nat /\ Len(queue) <= 2
         /\ pc # "output" => Len(queue) <= 1
         /\ ~AsyncScheduling => Len(queue) <= 1 /\ (pc # "output" => Len(queue) = 0)
         /\ pc = "output" => Len(queue) >= 1
<1>1. /\ queue \in Seq(Batches) /\ Len(queue) \in Nat /\ Len(queue) <= BatchQueueSize
      /\ pc # "output" => Len(queue) < BatchQueueSize
      /\ pc = "output" => queue # <<>>
  BY DEF Inv, TypeOK, BatchQueueBounded, PassState
<1>2. /\ BatchQueueSize \in Nat /\ BatchQueueSize <= 2
      /\ ~AsyncScheduling => BatchQueueSize = 1
  BY CoreAssumption DEF Unpipelined
<1>3. pc = "output" => Len(queue) >= 1
  BY <1>1
<1> QED
  BY <1>1, <1>2, <1>3

\* The oldest batch leaves; what the worker is behind moves up.
LEMMA PopPositions ==
  ASSUME CoreInv, CoreInv', RunnerInv, PosInv, Unpipelined, Hears, Pops
  PROVE  PosInv'
<1>1. /\ Inv /\ TypeOK /\ RunnerType /\ Paired /\ pc = "output" /\ pc' = "idle"
      /\ todo = {} /\ todo' = {} /\ executed => inBatch = Batch(1)
      /\ UNCHANGED <<status, out, submissions, finished, sspec>>
      /\ \A r \in Reqs : Traced(r) /\ (Live(r) => Follows(r))
  BY DEF CoreInv, Inv, RunnerInv, PosInv, Pops, queueVars, localVars
<1>2. /\ executed = TRUE /\ executed' = FALSE /\ UNCHANGED <<cached, counts, inBatch>>
      /\ sent' = Tail(sent) /\ newReqs' = newReqs
  <2>1. TypeOK' /\ Inv'
    BY DEF CoreInv, Inv
  <2>2. executed = TRUE /\ executed' = FALSE
    <3>1. executed' \in BOOLEAN /\ (executed' <=> FALSE) /\ executed
      BY <1>1, <2>1, HearsType DEF RunnerType
    <3> QED
      BY <1>1, <3>1 DEF RunnerType
  <2>3. UNCHANGED <<cached, counts, inBatch>> /\ TrackPass
    BY <1>1 DEF Hears, Engine
  <2>4. newReqs' = newReqs
    BY <1>1, <2>3 DEF TrackPass, Started
  <2> QED
    BY <1>1, <2>2, <2>3, <2>4 DEF TrackPass
<1>3. PICK n \in 0 .. 1 : Len(queue) = n + 1 /\ Len(queue)' = n /\ Len(sent) = n + 1
  <2>1. Len(queue) \in Nat /\ Len(queue) <= 2 /\ Len(queue) >= 1 /\ Len(sent) = Len(queue)
    BY <1>1, AtMostTwo DEF Paired
  <2>2. Len(queue') = Len(queue) - 1
    BY DEF Pops
  <2> QED
    BY <2>1, <2>2
<1>4. \A i \in 1 .. n : /\ queue'[i].n = queue[i + 1].n /\ queue'[i].s = queue[i + 1].s
                        /\ queue'[i].emit = queue[i + 1].emit /\ sent'[i] = sent[i + 1]
                        /\ Batch(i)' = Batch(i + 1)
  <2>1. \A i \in 1 .. n : /\ queue'[i].n = queue[i + 1].n /\ queue'[i].s = queue[i + 1].s
                          /\ queue'[i].emit = queue[i + 1].emit
    BY <1>3 DEF Pops
  <2>2. sent \in Seq(Outputs) /\ sent # <<>>
    BY <1>1, <1>3 DEF RunnerType
  <2>3. \A i \in 1 .. n : sent'[i] = sent[i + 1]
    BY <1>2, <1>3, <2>2
  <2>4. \A i \in 1 .. n : Batch(i)' = Batch(i + 1)
    BY <2>1 DEF Batch, Scheduled
  <2> QED
    BY <2>1, <2>3, <2>4
<1>5. Done = 1 /\ Done' = 0
  BY <1>2 DEF Done
<1>9. \A r \in Reqs : r \notin todo
  BY DEF Pops
<1>6. ASSUME NEW r \in Reqs PROVE Traced(r)'
  <2>1. Traced(r)
    BY <1>1
  <2>2. ASSUME NEW k \in 0 .. n, Untouched(r, k + 1) PROVE Untouched(r, k)'
    <3>1. \A j \in 1 .. k : j \in 1 .. n /\ j + 1 \in 1 .. k + 1
      BY <1>3
    <3> QED
      BY <1>1, <1>2, <1>4, <2>2, <3>1 DEF Untouched
  <2>3. NewAreNew(r)'
    <3>1. n \in 0 .. n /\ \A i \in 1 .. n : /\ i - 1 \in 0 .. n /\ i - 1 + 1 = i + 1 - 1
                                            /\ i + 1 \in Done + 1 .. Len(queue)
      BY <1>3, <1>5
    <3>2. status[r] \in {"waiting", "waiting_fsm"} \/ r \in newReqs => Untouched(r, n)'
      BY <1>3, <2>1, <2>2, <3>1 DEF Traced, NewAreNew
    <3>3. ASSUME NEW i \in 1 .. n, r \in sent'[i].new PROVE Untouched(r, i - 1)'
      <4>1. Untouched(r, i + 1 - 1)
        BY <1>4, <2>1, <3>1, <3>3 DEF Traced, NewAreNew
      <4>2. Untouched(r, (i - 1) + 1)
        BY <3>1, <4>1
      <4> QED
        BY <2>2, <3>1, <4>2
    <3>4. Untouched(r, Len(queue))' <=> Untouched(r, n)'
      BY <1>3 DEF Untouched
    <3> QED
      BY <1>1, <1>2, <1>3, <1>5, <3>2, <3>3, <3>4 DEF NewAreNew
  <2>4. \A i \in 1 .. n : i + 1 \in 1 .. Len(queue)
    BY <1>3
  <2>5. submissions[r] = 0 => Traceless(r)'
    BY <1>1, <1>2, <1>3, <1>4, <2>1, <2>4 DEF Traced, Traceless
  <2>6. Gone(r)' => Gone(r)
    BY <1>1, <1>3, <1>4, <2>4 DEF Gone
  <2> QED
    BY <1>1, <1>2, <2>1, <2>3, <2>5, <2>6 DEF Traced, Plain
<1>7. ASSUME NEW r \in Reqs, Live(r)' PROVE Follows(r)'
  <2>1. Live(r) /\ Follows(r)
    BY <1>1, <1>7
  <2>2. Rejections(r)' = Rejections(r) /\ Accepted(r)' = Accepted(r)
    BY <1>2 DEF Rejections, Accepted
  <2>3. 1 \notin InFlight(r)
    <3>1. 1 \in InFlight(r) => r \in todo
      BY <1>1 DEF InFlight
    <3>2. r \notin todo
      BY <1>9
    <3> QED
      BY <3>1, <3>2
  <2>4. ASSUME NEW i \in 1 .. n, r \in Batch(i)' PROVE Posted(i, r)' /\ Leads(i, r)'
    <3>1. i = 1 /\ n = 1 /\ i + 1 = 2 /\ 2 \in 1 .. Len(queue)
      BY <1>3, <2>4
    <3>2. Posted(2, r) /\ Leads(2, r)
      BY <1>4, <1>5, <2>1, <2>4, <3>1 DEF Follows
    <3>3. Behind(2, r) = IF r \in inBatch THEN Rejections(r) ELSE 0
      BY <1>5, <2>3 DEF Behind
    <3>4. Behind(i, r)' = IF r \in inBatch THEN Rejections(r) ELSE 0
      BY <1>2, <1>5, <2>2, <3>1 DEF Behind
    <3>5. /\ queue'[i].n = queue[2].n /\ queue'[i].s = queue[2].s /\ queue'[i].emit = queue[2].emit
          /\ sent'[i] = sent[2]
      BY <1>4, <3>1
    <3>6. Posted(i, r)'
      BY <3>2, <3>5 DEF Posted
    <3> QED
      BY <1>1, <3>2, <3>3, <3>4, <3>5, <3>6 DEF Leads
  <2>5. Noted(r)'
    <3>1. Waits(r)' => Waits(r)
      <4>1. CASE n = 0
        <5>1. ~(Done < Len(queue))
          BY <1>3, <1>5, <4>1
        <5>2. Waits(r)' => (AsyncScheduling => r \in inBatch)
          BY <1>2 DEF Waits
        <5> QED
          BY <1>9, <5>1, <5>2 DEF Waits
      <4>2. CASE n = 1
        <5>1. Batch(1)' = Batch(2)
          BY <1>4, <4>2
        <5>2. (Done + 1)' = 1 /\ Done + 1 = 2 /\ (Done < Len(queue))' /\ Done < Len(queue)
          BY <1>3, <1>5, <4>2
        <5>3. Waits(r)' => (AsyncScheduling => r \in inBatch /\ r \in Batch(1)')
          BY <1>2, <1>5, <5>2 DEF Waits
        <5> QED
          BY <1>5, <1>9, <5>1, <5>2, <5>3 DEF Waits
      <4> QED
        BY <1>3, <4>1, <4>2
    <3> QED
      BY <1>1, <1>2, <2>1, <2>2, <3>1 DEF Noted, Follows
  <2> QED
    BY <1>1, <1>2, <1>3, <1>5, <2>4, <2>5 DEF Follows, Settled, Attended, Aligned
<1>8. FewDrafts'
  <2>1. \A i \in 1 .. n : i + 1 \in 1 .. Len(queue)
    BY <1>3
  <2> QED
    BY <1>1, <1>3, <1>4, <2>1 DEF PosInv, FewDrafts
<1> QED
  BY <1>1, <1>2, <1>6, <1>7, <1>8 DEF PosInv, Within, Scheduling

\* The new batch: what it samples, and how far the counts it is sent with are
\* ahead of the tokens of its requests.
LEMMA CommitPositions ==
  ASSUME CoreInv, CoreInv', RunnerInv, PosInv, Unpipelined, Rested, Hears, Commits
  PROVE  PosInv'
<1>1. /\ Inv /\ TypeOK /\ TypeOK' /\ RunnerType /\ Paired /\ FlightInv
      /\ \A r \in Reqs : Traced(r) /\ (Live(r) => Follows(r))
  BY DEF CoreInv, Inv, RunnerInv, PosInv
<1>2. /\ queue' = Append(queue, NewBatch) /\ nsched' = Zero /\ finished' = {} /\ sspec' = Zero
      /\ UNCHANGED <<status, out, submissions>> /\ pc = "commit"
      /\ \/ pc' = "idle"
         \/ pc' = "output"
            /\ todo' = {r \in Scheduled(Head(Append(queue, NewBatch)).n) : Live(r)}
  BY DEF Commits, StartOutput
<1>3. /\ inBatch' = inBatch /\ executed = FALSE /\ executed' = FALSE /\ cached' = cached
      /\ counts' = counts /\ newReqs' = {} /\ sent' = Append(sent, Output)
  <2>1. executed \in BOOLEAN /\ executed' \in BOOLEAN
    BY <1>1, HearsType DEF RunnerType
  <2>2. executed = FALSE /\ executed' = FALSE
    BY <1>1, <1>2, <2>1, HearsType DEF Paired
  <2> QED
    BY <1>2, <2>2 DEF Hears, Engine, TrackPass
<1>4. PICK n \in 0 .. 1 : /\ n = Len(queue) /\ n = Len(sent) /\ Len(queue)' = n + 1
                          /\ Len(sent') = n + 1 /\ (n = 1 => AsyncScheduling)
  <2>1. queue \in Seq(Batches) /\ sent \in Seq(Outputs) /\ Len(sent) = Len(queue)
    BY <1>1 DEF TypeOK, RunnerType, Paired
  <2>2. Len(queue) \in 0 .. 1 /\ (Len(queue) = 1 => AsyncScheduling)
    <3>1. pc # "output"
      BY <1>2
    <3>2. Len(queue) \in Nat /\ Len(queue) <= 1 /\ (~AsyncScheduling => Len(queue) < 1)
      BY <1>1, <3>1, AtMostTwo
    <3>3. PICK m \in Nat : m = Len(queue)
      BY <3>2
    <3>4. m <= 1 /\ (~AsyncScheduling => m < 1)
      BY <3>2, <3>3
    <3>5. m = 1 => AsyncScheduling
      BY <3>4
    <3> QED
      BY <3>3, <3>4, <3>5
  <2> QED
    BY <1>2, <1>3, <2>1, <2>2
<1>5. Done = 0 /\ Done' = 0
  BY <1>3 DEF Done
<1>6. /\ \A i \in 1 .. n : queue'[i] = queue[i] /\ sent'[i] = sent[i]
      /\ queue'[n + 1] = NewBatch /\ sent'[n + 1] = Output
  <2>1. queue \in Seq(Batches) /\ sent \in Seq(Outputs)
    BY <1>1 DEF TypeOK, RunnerType
  <2> QED
    BY <1>2, <1>3, <1>4, <2>1
<1>7. /\ queue'[n + 1].n = nsched /\ queue'[n + 1].s = sspec /\ queue'[n + 1].emit = Emitting
      /\ sent'[n + 1].new = newReqs /\ sent'[n + 1].finished = finished
      /\ sent'[n + 1].computed = computed
      /\ \A r \in Reqs : sent'[n + 1].outs[r] = out[r] + placeholders[r]
  BY <1>6 DEF NewBatch, Output
<1>8. /\ \A i \in 1 .. n : Batch(i)' = Batch(i)
      /\ Batch(n + 1)' = Scheduled(nsched)
  BY <1>6, <1>7 DEF Batch, Scheduled
<1>9. \A r \in Scheduled(nsched) :
        /\ r \in Reqs /\ status[r] = "running" /\ Live(r) /\ nsched[r] > 0 /\ submissions[r] # 0
  <2>1. Scheduled(nsched) \subseteq Elems(running)
    BY <1>2 DEF CoreInv, PassInv, BudgetRespected, Scheduling
  <2>2. \A r \in Scheduled(nsched) : r \in Reqs /\ status[r] = "running" /\ nsched[r] > 0
    BY <2>1 DEF CoreInv, QueueConsistency, Scheduled
  <2>3. \A r \in Reqs : Live(r) => submissions[r] # 0
    <3>1. \A r \in Reqs : Live(r) => submissions[r] >= 1
      BY <1>1 DEF FlightInv, Submitted
    <3> QED
      BY <3>1
  <2> QED
    BY <2>2, <2>3
<1>10. ASSUME NEW r \in Reqs PROVE Traced(r)'
  <2>1. Traced(r)
    BY <1>1
  <2>2. submissions'[r] = 0 => Traceless(r)'
    <3>1. ASSUME submissions[r] = 0, NEW i \in 1 .. n + 1
          PROVE  r \notin Batch(i)' /\ r \notin sent'[i].finished
      <4>1. Traceless(r)
        BY <2>1, <3>1 DEF Traced
      <4>2. CASE i \in 1 .. n
        BY <1>4, <1>6, <1>8, <4>1, <4>2 DEF Traceless
      <4>3. CASE i = n + 1
        BY <1>7, <1>8, <1>9, <3>1, <4>1, <4>3 DEF Traceless
      <4> QED
        BY <3>1, <4>2, <4>3
    <3> QED
      BY <1>2, <1>3, <1>4, <2>1, <3>1 DEF Traced, Traceless
  <2>3. Gone(r)' => Gone(r)
    <3>1. ASSUME NEW i \in 1 .. n + 1, r \in sent'[i].finished PROVE Gone(r)
      <4>1. CASE i \in 1 .. n
        BY <1>4, <1>6, <3>1, <4>1 DEF Gone
      <4>2. CASE i = n + 1
        BY <1>7, <3>1, <4>2 DEF Gone
      <4> QED
        BY <3>1, <4>1, <4>2
    <3> QED
      BY <1>2, <1>4, <3>1 DEF Gone
  <2>4. ASSUME NEW k \in Int, k <= n, Untouched(r, k) PROVE Untouched(r, k)'
    <3>1. \A j \in 1 .. k : j \in 1 .. n
      BY <2>4
    <3> QED
      BY <1>2, <1>3, <1>8, <2>4, <3>1 DEF Untouched
  <2>5. status'[r] \in {"waiting", "waiting_fsm"} => Untouched(r, Len(queue))'
    <3>1. ASSUME status[r] \in {"waiting", "waiting_fsm"} PROVE Untouched(r, n)'
      <4>1. Untouched(r, n)
        BY <1>4, <2>1, <3>1 DEF Traced, NewAreNew
      <4> QED
        BY <2>4, <4>1
    <3>2. ASSUME status[r] \in {"waiting", "waiting_fsm"} PROVE r \notin Batch(n + 1)'
      BY <1>8, <1>9, <3>2
    <3>3. ASSUME status[r] \in {"waiting", "waiting_fsm"} PROVE Untouched(r, n + 1)'
      <4>1. \A j \in 1 .. n + 1 : j \in 1 .. n \/ j = n + 1
        OBVIOUS
      <4> QED
        BY <3>1, <3>2, <3>3, <4>1 DEF Untouched
    <3> QED
      BY <1>2, <1>4, <3>3 DEF Untouched
  <2>6. ASSUME NEW i \in 1 .. n + 1, r \in sent'[i].new PROVE Untouched(r, i - 1)'
    <3>1. CASE i \in 1 .. n
      <4>1. Untouched(r, i - 1) /\ i - 1 \in Int /\ i - 1 <= n
        BY <1>4, <1>5, <1>6, <2>1, <2>6, <3>1 DEF Traced, NewAreNew
      <4> QED
        BY <2>4, <4>1
    <3>2. CASE i = n + 1
      <4>1. r \in newReqs
        BY <1>7, <2>6, <3>2
      <4>2. Untouched(r, n) /\ i - 1 = n
        BY <1>4, <2>1, <3>2, <4>1 DEF Traced, NewAreNew
      <4> QED
        BY <2>4, <4>2
    <3> QED
      BY <2>6, <3>1, <3>2
  <2>7. NewAreNew(r)'
    BY <1>3, <1>4, <1>5, <2>5, <2>6 DEF NewAreNew
  <2> QED
    BY <1>2, <1>3, <2>1, <2>2, <2>3, <2>7 DEF Traced, Plain
<1>11. ASSUME NEW r \in Reqs, Live(r)' PROVE Follows(r)'
  <2>1. Live(r) /\ Follows(r) /\ Traced(r)
    BY <1>1, <1>2, <1>11
  <2>2. Rejections(r)' = Rejections(r) /\ Accepted(r)' = Accepted(r)
    BY <1>3 DEF Rejections, Accepted
  <2>3. ASSUME NEW i \in 1 .. n, r \in Batch(i)' PROVE Posted(i, r)' /\ Leads(i, r)'
    <3>1. i = 1 /\ i > Done /\ i \in 1 .. Len(queue)
      BY <1>4, <1>5, <2>3
    <3>2. Posted(i, r) /\ Leads(i, r)
      BY <1>8, <2>1, <2>3, <3>1 DEF Follows
    <3>3. Behind(i, r)' = Behind(i, r)
      BY <1>3, <1>5, <2>2, <3>1 DEF Behind
    <3> QED
      BY <1>2, <1>6, <3>2, <3>3 DEF Posted, Leads
  <2>4. ASSUME r \in Scheduled(nsched) PROVE Posted(n + 1, r)'
    <3>1. /\ status[r] = "running" /\ nsched[r] > 0 /\ Scheduling
          /\ NumTokens(r) = Prompt[r] + out[r]
      BY <1>2, <1>9, <2>4 DEF Scheduling, NumTokens
    <3>2. /\ computed[r] \in Int /\ nsched[r] \in Int /\ placeholders[r] \in Int
          /\ sspec[r] \in Nat /\ out[r] \in Nat /\ Prompt[r] \in Nat
      BY <1>1, LevelType, PosNumbers
    <3>3. /\ computed[r] + nsched[r] <= NumTokens(r) + placeholders[r] + sspec[r]
          /\ sspec[r] > 0 => computed[r] + nsched[r] = NumTokens(r) + placeholders[r] + sspec[r]
      <4>1. computed[r] + nsched[r] <= NumTokens(r) + placeholders[r] + sspec[r]
        BY <3>1 DEF PosInv, Within
      <4>2. Level(r)
        BY <3>1, UnpipelinedExact DEF CoreInv, Counted
      <4>3. sspec[r] > 0 => computed[r] + nsched[r] = NumTokens(r) + placeholders[r] + sspec[r]
        BY <4>2 DEF Level
      <4> QED
        BY <4>1, <4>3
    <3>4. r \in Emitting <=>
            computed[r] + nsched[r] = NumTokens(r) + placeholders[r] + sspec[r]
      BY <2>4 DEF Emitting
    <3>5. CASE r \in Emitting
      <4>1. computed[r] + nsched[r] = Prompt[r] + (out[r] + placeholders[r]) + sspec[r]
        BY <3>1, <3>2, <3>4, <3>5
      <4> QED
        BY <1>7, <3>5, <4>1 DEF Posted
    <3>6. CASE r \notin Emitting
      <4>1. sspec[r] = 0 /\ computed[r] + nsched[r] < Prompt[r] + (out[r] + placeholders[r])
        BY <3>1, <3>2, <3>3, <3>4, <3>6
      <4> QED
        BY <1>7, <3>6, <4>1 DEF Posted
    <3> QED
      BY <3>5, <3>6
  <2>5. placeholders[r] = Behind(n + 1, r)'
    <3>1. \A i \in InFlight(r) : i \in 1 .. n
      <4>1. queue \in Seq(Batches)
        BY <1>1 DEF TypeOK
      <4>2. DOMAIN queue = 1 .. Len(queue)
        BY <4>1
      <4> QED
        BY <1>4, <4>2 DEF InFlight
    <3>2. AsyncScheduling => placeholders[r] = Due(1, r) + Due(2, r)
      BY <1>1, <2>1 DEF Unpipelined, FlightInv, Awaited, Owed
    <3>3. Due(2, r) = 0 /\ Due(1, r) \in Nat
      BY <1>1, <3>1, DueType DEF FlightInv
    <3>4. CASE n = 1
      <4>1. placeholders[r] = Due(1, r)
        BY <1>4, <3>2, <3>3, <3>4
      <4>2. InFlight(r)' = InFlight(r) \cup (IF r \in Emitting THEN {n + 1} ELSE {})
        BY <1>4, <2>1, CommitsFlight DEF CoreInv
      <4>3. 1 \in InFlight(r)' <=> 1 \in InFlight(r)
        BY <3>4, <4>2
      <4>4. Due(1, r)' = Due(1, r)
        BY <1>6, <3>4, <4>3 DEF Due
      <4>5. n + 1 = 2 /\ n + 1 # Done' + 1
        BY <1>5, <3>4
      <4>6. 1 \notin InFlight(r) => Due(1, r) = 0
        BY DEF Due
      <4> QED
        BY <4>1, <4>3, <4>4, <4>5, <4>6 DEF Behind
    <3>5. CASE n = 0
      <4>1. placeholders[r] = 0
        <5>1. Due(1, r) = 0
          BY <3>1, <3>5 DEF Due
        <5>2. ~AsyncScheduling => placeholders[r] = 0
          BY <1>1 DEF FlightInv, Awaited
        <5> QED
          BY <3>2, <3>3, <5>1, <5>2
      <4>2. r \in inBatch => Rejections(r) = 0
        <5>1. queue = <<>>
          <6>1. queue \in Seq(Batches) /\ Len(queue) = 0
            BY <1>1, <1>4, <3>5 DEF TypeOK
          <6> QED
            BY <6>1
        <5>2. ~AsyncScheduling => cached[r].draftLen = 0
          BY <2>1 DEF Traced, Plain
        <5> QED
          BY <2>1, <5>1, <5>2 DEF Rested, Rejections, NumRejected
      <4>3. n + 1 = 1 /\ Done' + 1 = 1
        BY <1>5, <3>5
      <4>4. Behind(1, r)' = IF r \in inBatch THEN Rejections(r) ELSE 0
        BY <1>3, <2>2, <4>3 DEF Behind
      <4> QED
        BY <4>1, <4>2, <4>3, <4>4
    <3> QED
      BY <3>4, <3>5
  <2>6. Leads(n + 1, r)'
    BY <1>2, <1>7, <2>5 DEF Leads
  <2>7. Noted(r)'
    <3>1. Waits(r)' => Waits(r)
      <4>1. Waits(r)' => (AsyncScheduling => r \in inBatch /\ r \in Batch(1)')
        BY <1>3, <1>4, <1>5 DEF Waits
      <4>2. Done < Len(queue) => Batch(Done + 1) = Batch(1)'
        BY <1>4, <1>5, <1>8
      <4> QED
        BY <1>3, <4>1, <4>2 DEF Waits
    <3> QED
      BY <1>2, <1>3, <2>1, <2>2, <3>1 DEF Noted, Follows
  <2>8. Attended(r)'
    <3>1. queue' # <<>> /\ Head(Append(queue, NewBatch)) = queue'[1]
      BY <1>2, <1>4
    <3>2. pc' = "output" => \A q : q \in todo' <=> q \in Scheduled(queue'[1].n) /\ Live(q)
      BY <1>2, <3>1 DEF Scheduled
    <3> QED
      BY <2>1, <3>2 DEF Attended, Batch, Scheduled
  <2>9. \A i \in 1 .. n + 1 : r \in Batch(i)' => Posted(i, r)' /\ Leads(i, r)'
    <3>1. \A i \in 1 .. n + 1 : i \in 1 .. n \/ i = n + 1
      OBVIOUS
    <3> QED
      BY <1>8, <2>3, <2>4, <2>6, <3>1
  <2> QED
    BY <1>3, <1>4, <2>7, <2>8, <2>9 DEF Follows, Settled, Aligned
<1>12. FewDrafts'
  <2>1. \A r \in Reqs : sspec[r] >= 0 /\ sspec[r] <= NumSpecTokens /\ NumSpecTokens \in Nat
    BY <1>1, CoreAssumption DEF PosInv, FewDrafts, FlightInv, Submitted
  <2>2. \A i \in 1 .. n + 1 : i \in 1 .. n \/ i = n + 1
    OBVIOUS
  <2> QED
    BY <1>2, <1>4, <1>6, <1>7, <2>1, <2>2 DEF PosInv, FewDrafts, Zero
<1> QED
  BY <1>2, <1>3, <1>10, <1>11, <1>12 DEF PosInv, Within, Scheduling

\* The numbers of a request of the batch after an update.
LEMMA UpdatedNumbers ==
  ASSUME NEW o \in Outputs, NEW b \in Batches, RunnerType, UpdateStates(o, b),
         NEW r \in Reqs
  PROVE  /\ r \in o.new =>
              /\ cached'[r].computed = o.computed[r] /\ cached'[r].outs = 0
              /\ cached'[r].draftLen = 0
         /\ r \in Scheduled(b.n) \ (o.new \cup o.finished) /\ r \in inBatch =>
              /\ cached'[r].computed = o.computed[r] - Rejections(r)
              /\ cached'[r].outs = MinOf(o.outs[r], cached[r].outs + Accepted(r))
              /\ cached'[r].draftLen = IF AsyncScheduling THEN b.s[r] ELSE cached[r].draftLen
         /\ r \in Scheduled(b.n) \ (o.new \cup o.finished) /\ r \notin inBatch =>
              /\ cached'[r].computed = o.computed[r]
              /\ cached'[r].outs = IF AsyncScheduling /\ o.outs[r] > 0 THEN o.outs[r]
                                   ELSE MinOf(o.outs[r], cached[r].outs)
              /\ cached'[r].draftLen = 0
         /\ r \notin Scheduled(b.n) \cup o.new \cup o.finished => cached'[r] = cached[r]
         /\ \/ cached'[r].draftLen = 0 \/ cached'[r].draftLen = cached[r].draftLen
            \/ AsyncScheduling /\ cached'[r].draftLen = b.s[r]
<1>1. PICK st \in States : st = cached[r]
  BY DEF RunnerType
<1>2. cached'[r] =
       CASE Forgotten(o, r) -> Unknown
         [] ~Forgotten(o, r) /\ r \in o.new -> NewState(o, r)
         [] r \in Scheduled(b.n) \ (o.new \cup o.finished) ->
              IF r \in inBatch THEN KeptState(o, b.s, r) ELSE ReaddedState(o, r)
         [] OTHER -> cached[r]
  BY DEF UpdateStates
<1>3. CASE r \in o.finished \ o.new
  <2>1. cached'[r] = Unknown
    BY <1>2, <1>3 DEF Forgotten
  <2>2. cached'[r].draftLen = 0
    BY <2>1 DEF Unknown
  <2> QED
    BY <1>3, <2>2
<1>4. CASE r \in o.new
  <2>1. cached'[r] = NewState(o, r)
    BY <1>2, <1>4 DEF Forgotten
  <2>2. /\ cached'[r].computed = o.computed[r] /\ cached'[r].outs = 0
        /\ cached'[r].draftLen = 0
    BY <2>1 DEF NewState
  <2> QED
    BY <1>4, <2>2
<1>5. CASE r \in Scheduled(b.n) \ (o.new \cup o.finished)
  <2>1. cached'[r] = IF r \in inBatch THEN KeptState(o, b.s, r) ELSE ReaddedState(o, r)
    BY <1>2, <1>5 DEF Forgotten
  <2>2. CASE r \in inBatch
    <3>1. PICK position, outs, blocks, draft :
            /\ position = o.computed[r] - Rejections(r)
            /\ outs = MinOf(o.outs[r], st.outs + Accepted(r))
            /\ blocks = st.blocks + o.blocks[r]
            /\ draft = IF AsyncScheduling THEN b.s[r] ELSE st.draftLen
      OBVIOUS
    <3>2. cached'[r] = [st EXCEPT !.computed = position, !.outs = outs, !.blocks = blocks,
                                  !.draftLen = draft]
      BY <1>1, <2>1, <2>2, <3>1 DEF KeptState, Rejections, Accepted
    <3>3. /\ cached'[r].computed = position /\ cached'[r].outs = outs
          /\ cached'[r].draftLen = draft
      BY <3>2 DEF States
    <3> QED
      BY <1>1, <1>5, <2>2, <3>1, <3>3
  <2>3. CASE r \notin inBatch
    <3>1. PICK position, outs, blocks :
            /\ position = o.computed[r]
            /\ outs = IF AsyncScheduling /\ o.outs[r] > 0 THEN o.outs[r]
                      ELSE MinOf(o.outs[r], st.outs)
            /\ blocks = BlocksReadded(o, r)
      OBVIOUS
    <3>2. cached'[r] = [st EXCEPT !.computed = position, !.outs = outs, !.blocks = blocks,
                                  !.draftLen = 0]
      BY <1>1, <2>1, <2>3, <3>1 DEF ReaddedState
    <3>3. /\ cached'[r].computed = position /\ cached'[r].outs = outs
          /\ cached'[r].draftLen = 0
      BY <3>2 DEF States
    <3> QED
      BY <1>1, <1>5, <2>3, <3>1, <3>3
  <2> QED
    BY <2>2, <2>3
<1>6. CASE r \notin Scheduled(b.n) \cup o.new \cup o.finished
  BY <1>2, <1>6 DEF Forgotten
<1> QED
  BY <1>3, <1>4, <1>5, <1>6

\* The worker executes a batch: what it makes of the counts it was sent is
\* what the requests of the batch really have.
LEMMA ExecutePositions ==
  ASSUME CoreInv, CoreInv', RunnerInv, PosInv, Unpipelined, Continued, ExecuteModel
  PROVE  PosInv'
<1>1. /\ Inv /\ TypeOK /\ RunnerType /\ Paired /\ FlightInv /\ Instructed
      /\ pc = "output" /\ executed = FALSE /\ executed' = TRUE /\ counts' = Zero
      /\ UNCHANGED <<newReqs, sent, queue, status, out, submissions, finished, pc, todo,
                     sspec>>
      /\ UpdateStates(Head(sent), Head(queue))
      /\ \A r \in Reqs : Traced(r) /\ (Live(r) => Follows(r))
  BY DEF CoreInv, Inv, RunnerInv, RunnerType, PosInv, ExecuteModel, passVars, vars, reqVars,
     blockVars, queueVars, localVars
<1>2. /\ Head(queue) = queue[1] /\ Head(sent) = sent[1] /\ queue[1] \in Batches
      /\ sent[1] \in Outputs /\ Len(queue) \in 1 .. 2 /\ Len(sent) = Len(queue)
  <2>1. queue \in Seq(Batches) /\ queue # <<>> /\ sent \in Seq(Outputs) /\ Len(sent) = Len(queue)
    BY <1>1 DEF Inv, TypeOK, BatchQueueBounded, RunnerType, Paired
  <2>2. Len(queue) <= 2
    BY <1>1, AtMostTwo
  <2> QED
    BY <2>1, <2>2
<1>3. Done = 0 /\ Done' = 1
  BY <1>1 DEF Done
<1>4. /\ inBatch' = Batch(1) /\ \A i \in 1 .. Len(queue) : Batch(i)' = Batch(i)
      /\ sent[1].new \subseteq Batch(1)
  <2>1. inBatch' = Batch(1)
    BY <1>1, <1>2 DEF UpdateStates, Batch
  <2>2. \A i \in 1 .. Len(queue) : Batch(i)' = Batch(i)
    BY <1>1 DEF Batch, Scheduled
  <2>3. 1 \in Done + 1 .. Len(queue)
    BY <1>2, <1>3
  <2> QED
    BY <1>1, <2>1, <2>2, <2>3 DEF Instructed
<1>5. ASSUME NEW r \in Reqs
      PROVE  /\ r \in sent[1].new =>
                  /\ cached'[r].computed = sent[1].computed[r] /\ cached'[r].outs = 0
                  /\ cached'[r].draftLen = 0
             /\ r \in Batch(1) \ (sent[1].new \cup sent[1].finished) /\ r \in inBatch =>
                  /\ cached'[r].computed = sent[1].computed[r] - Rejections(r)
                  /\ cached'[r].outs = MinOf(sent[1].outs[r], cached[r].outs + Accepted(r))
                  /\ cached'[r].draftLen = IF AsyncScheduling THEN queue[1].s[r]
                                           ELSE cached[r].draftLen
             /\ r \in Batch(1) \ (sent[1].new \cup sent[1].finished) /\ r \notin inBatch =>
                  /\ cached'[r].computed = sent[1].computed[r]
                  /\ cached'[r].outs = IF AsyncScheduling /\ sent[1].outs[r] > 0
                                       THEN sent[1].outs[r]
                                       ELSE MinOf(sent[1].outs[r], cached[r].outs)
                  /\ cached'[r].draftLen = 0
             /\ r \notin Batch(1) \cup sent[1].new \cup sent[1].finished => cached'[r] = cached[r]
             /\ \/ cached'[r].draftLen = 0 \/ cached'[r].draftLen = cached[r].draftLen
                \/ AsyncScheduling /\ cached'[r].draftLen = queue[1].s[r]
  BY <1>1, <1>2, UpdatedNumbers DEF Batch
<1>6. ASSUME NEW r \in Reqs
      PROVE  /\ sent[1].outs[r] \in Int /\ sent[1].computed[r] \in Int
             /\ queue[1].s[r] \in Int /\ queue[1].s[r] >= 0 /\ queue[1].s[r] <= NumSpecTokens
             /\ out[r] \in Nat /\ cached[r].outs \in Int /\ cached[r].draftLen \in Int
             /\ Rejections(r) \in Int /\ Accepted(r) \in Int
  <2>1. 1 \in 1 .. Len(queue)
    BY <1>2
  <2>2. queue[1].s[r] >= 0 /\ queue[1].s[r] <= NumSpecTokens
    BY <2>1 DEF PosInv, FewDrafts
  <2> QED
    BY <1>1, <1>2, <2>2, PosNumbers DEF Batches, Outputs
<1>7. \A r \in Reqs : Plain => cached[r].draftLen = 0 /\ cached'[r].draftLen = 0
  <2>1. \A r \in Reqs : Plain => cached[r].draftLen = 0
    BY <1>1 DEF Traced
  <2>2. \A r \in Reqs : Plain /\ AsyncScheduling => queue[1].s[r] = 0
    BY <1>6 DEF Plain
  <2> QED
    BY <1>5, <2>1, <2>2
<1>8. ASSUME NEW r \in Reqs, ~AsyncScheduling
      PROVE  /\ cached[r].draftLen = 0 /\ cached'[r].draftLen = 0 /\ Rejections(r) = 0
             /\ Accepted(r) = 0 /\ Rejections(r)' = 0 /\ Accepted(r)' = 0
             /\ (Live(r) => cached[r].outs = out[r])
  <2>1. cached[r].draftLen = 0 /\ cached'[r].draftLen = 0
    BY <1>7, <1>8 DEF Plain
  <2>2. Rejections(r) = 0 /\ Accepted(r) = 0 /\ Rejections(r)' = 0 /\ Accepted(r)' = 0
    BY <2>1 DEF Rejections, Accepted, NumRejected, NumAccepted
  <2>3. Live(r) => Noted(r) /\ Waits(r)
    BY <1>1, <1>8 DEF Follows, Waits
  <2> QED
    BY <1>6, <2>1, <2>2, <2>3 DEF Noted
<1>9. ASSUME NEW r \in Reqs, Live(r), r \in Batch(1)
      PROVE  /\ r \in todo /\ Posted(1, r) /\ (r \in sent[1].new \/ r \notin sent[1].finished)
             /\ sent[1].outs[r] = out[r] + (IF r \in inBatch THEN Rejections(r) ELSE 0)
             /\ r \in sent[1].new => r \notin inBatch /\ out[r] = 0
             /\ AsyncScheduling /\ (Len(queue) = 2 => r \in Batch(2)) /\ r \notin inBatch
                  => queue[1].s[r] = 0
  <2>1. Follows(r) /\ Traced(r) /\ 1 \in 1 .. Len(queue) /\ 1 > Done /\ 1 = Done + 1
    BY <1>1, <1>2, <1>3, <1>9
  <2>2. r \in todo
    BY <1>1, <1>9, <2>1 DEF Follows, Attended
  <2>3. Posted(1, r) /\ Leads(1, r)
    BY <1>9, <2>1 DEF Follows
  <2>4. Behind(1, r) = IF r \in inBatch THEN Rejections(r) ELSE 0
    BY <2>1 DEF Behind
  <2>5. r \notin sent[1].finished
    BY <1>9, <2>1 DEF Traced, Gone
  <2>6. r \in sent[1].new => r \notin inBatch /\ out[r] = 0
    BY <1>3, <2>1 DEF Traced, NewAreNew, Untouched
  <2>7. AsyncScheduling /\ (Len(queue) = 2 => r \in Batch(2)) /\ r \notin inBatch
          => ~(queue[1].s[r] > 0)
    BY <1>1, <1>9 DEF Continued
  <2>8. AsyncScheduling /\ (Len(queue) = 2 => r \in Batch(2)) /\ r \notin inBatch
          => queue[1].s[r] = 0
    BY <1>6, <2>7
  <2> QED
    BY <2>2, <2>3, <2>4, <2>5, <2>6, <2>8 DEF Leads
<1>10. ASSUME NEW r \in Reqs, Live(r), r \in Batch(1)
       PROVE  /\ cached'[r].outs = out[r]
              /\ cached'[r].computed = sent[1].computed[r] - (sent[1].outs[r] - out[r])
              /\ cached'[r].draftLen =
                   IF AsyncScheduling /\ r \in inBatch THEN queue[1].s[r] ELSE 0
  <2>1. CASE r \in sent[1].new
    <3>1. /\ cached'[r].computed = sent[1].computed[r] /\ cached'[r].outs = 0
          /\ cached'[r].draftLen = 0 /\ out[r] = 0 /\ sent[1].outs[r] = out[r]
          /\ r \notin inBatch
      BY <1>5, <1>9, <1>10, <1>6, <2>1
    <3> QED
      BY <1>6, <3>1
  <2>2. CASE r \notin sent[1].new /\ r \in inBatch
    <3>1. /\ cached'[r].computed = sent[1].computed[r] - Rejections(r)
          /\ cached'[r].outs = MinOf(sent[1].outs[r], cached[r].outs + Accepted(r))
          /\ cached'[r].draftLen = IF AsyncScheduling THEN queue[1].s[r] ELSE cached[r].draftLen
          /\ sent[1].outs[r] = out[r] + Rejections(r)
      BY <1>5, <1>9, <1>10, <2>2
    <3>2. Waits(r)
      BY <1>1, <1>3, <1>10, <2>2 DEF Waits
    <3>3. Rejections(r) >= 0 /\ cached[r].outs + Accepted(r) = out[r]
      BY <1>1, <1>10, <3>2 DEF Follows, Noted
    <3>4. cached'[r].outs = out[r]
      BY <1>6, <3>1, <3>3 DEF MinOf
    <3>5. cached'[r].draftLen = IF AsyncScheduling THEN queue[1].s[r] ELSE 0
      BY <1>8, <3>1
    <3> QED
      BY <1>6, <2>2, <3>1, <3>4, <3>5
  <2>3. CASE r \notin sent[1].new /\ r \notin inBatch
    <3>1. /\ cached'[r].computed = sent[1].computed[r] /\ cached'[r].draftLen = 0
          /\ cached'[r].outs = IF AsyncScheduling /\ sent[1].outs[r] > 0 THEN sent[1].outs[r]
                               ELSE MinOf(sent[1].outs[r], cached[r].outs)
          /\ sent[1].outs[r] = out[r]
      BY <1>5, <1>6, <1>9, <1>10, <2>3
    <3>2. AsyncScheduling => cached[r].outs >= 0
      BY <1>1, <1>10 DEF Traced
    <3>3. cached'[r].outs = out[r]
      BY <1>6, <1>8, <1>10, <3>1, <3>2 DEF MinOf
    <3> QED
      BY <1>6, <2>3, <3>1, <3>3
  <2> QED
    BY <2>1, <2>2, <2>3
<1>11. ASSUME NEW r \in Reqs, Live(r), r \notin Batch(1) PROVE cached'[r] = cached[r]
  <2>1. r \notin sent[1].finished
    BY <1>1, <1>2, <1>11 DEF Traced, Gone
  <2> QED
    BY <1>4, <1>5, <1>11, <2>1
<1>12. ASSUME NEW r \in Reqs PROVE Traced(r)'
  <2>1. Traced(r)
    BY <1>1
  <2>2. 1 \in 1 .. Len(queue)
    BY <1>2
  <2>3. ASSUME NEW k \in Int, k >= 1, Untouched(r, k) PROVE Untouched(r, k)' \/ k > Len(queue)
    <3>1. 1 \in 1 .. k
      BY <2>3
    <3>2. k <= Len(queue) => \A j \in 1 .. k : j \in 1 .. Len(queue)
      BY <1>2, <2>3
    <3> QED
      BY <1>1, <1>2, <1>4, <2>3, <3>1, <3>2 DEF Untouched
  <2>4. submissions'[r] = 0 => Traceless(r)'
    <3>1. ASSUME submissions[r] = 0 PROVE Traceless(r) /\ cached'[r] = cached[r]
      <4>1. Traceless(r)
        BY <2>1, <3>1 DEF Traced
      <4>2. r \notin Batch(1) /\ r \notin sent[1].finished
        BY <2>2, <4>1 DEF Traceless
      <4> QED
        BY <1>4, <1>5, <4>1, <4>2
    <3> QED
      BY <1>1, <1>4, <2>2, <3>1 DEF Traceless
  <2>5. Gone(r)' => ~Live(r)'
    BY <1>1, <2>1 DEF Traced, Gone
  <2>6. status'[r] \in {"waiting", "waiting_fsm"} \/ r \in newReqs' => Untouched(r, Len(queue))'
    <3>1. ASSUME status[r] \in {"waiting", "waiting_fsm"} \/ r \in newReqs
          PROVE  Untouched(r, Len(queue))'
      <4>1. Untouched(r, Len(queue))
        BY <2>1, <3>1 DEF Traced, NewAreNew
      <4>2. PICK k \in Int : k = Len(queue) /\ k >= 1
        BY <1>2
      <4>3. Untouched(r, k)'
        BY <1>2, <2>3, <4>1, <4>2
      <4> QED
        BY <1>1, <4>2, <4>3 DEF Untouched
    <3> QED
      BY <1>1, <3>1
  <2>7. ASSUME NEW i \in 2 .. Len(queue), r \in sent[i].new PROVE Untouched(r, i - 1)'
    <3>1. i - 1 \in Int /\ i - 1 >= 1 /\ ~(i - 1 > Len(queue)) /\ i \in Done + 1 .. Len(queue)
      BY <1>2, <1>3
    <3>2. Untouched(r, i - 1)
      BY <2>1, <2>7, <3>1 DEF Traced, NewAreNew
    <3> QED
      BY <2>3, <3>1, <3>2
  <2>8. NewAreNew(r)'
    BY <1>1, <1>3, <2>6, <2>7 DEF NewAreNew
  <2>9. Live(r)' => cached'[r].outs >= 0
    <3>1. CASE r \in Batch(1)
      BY <1>1, <1>6, <1>10, <3>1
    <3>2. CASE r \notin Batch(1)
      BY <1>1, <1>11, <2>1, <3>2 DEF Traced
    <3> QED
      BY <3>1, <3>2
  <2> QED
    BY <1>7, <2>4, <2>5, <2>8, <2>9 DEF Traced, Plain
<1>13. ASSUME NEW r \in Reqs, Live(r)' PROVE Follows(r)'
  <2>1. Live(r) /\ Follows(r)
    BY <1>1, <1>13
  <2>2. \A i \in 1 .. Len(queue) : r \in Batch(i)' => Posted(i, r)'
    BY <1>1, <1>4, <2>1 DEF Follows, Posted
  <2>3. ASSUME Len(queue) = 2, r \in Batch(2) PROVE Leads(2, r)'
    <3>1. 2 \in 1 .. Len(queue) /\ 2 > Done /\ 2 # Done + 1 /\ 2 = Done' + 1
      BY <1>3, <2>3
    <3>2. Leads(2, r)
      BY <2>1, <2>3, <3>1 DEF Follows
    <3>3. InFlight(r)' = InFlight(r)
      BY <1>1 DEF InFlight
    <3>4. Due(1, r)' = Due(1, r)
      BY <1>1, <3>3 DEF Due
    <3>5. Behind(2, r) = IF 1 \in InFlight(r) THEN Due(1, r) ELSE 0
      BY <3>1 DEF Behind
    <3>6. Behind(2, r)' = IF 1 \in InFlight(r) THEN Due(1, r)
                          ELSE IF r \in Batch(1) THEN Rejections(r)' ELSE 0
      BY <1>4, <3>1, <3>3, <3>4 DEF Behind
    <3>7. ASSUME 1 \notin InFlight(r), r \in Batch(1) PROVE Rejections(r)' = 0
      <4>1. r \in todo /\ Posted(1, r)
        BY <1>9, <2>1, <3>7
      <4>2. r \notin queue[1].emit
        <5>1. ASSUME r \in queue[1].emit PROVE 1 \in InFlight(r)
          <6>1. 1 \in DOMAIN queue
            <7>1. queue \in Seq(Batches)
              BY <1>1 DEF TypeOK
            <7> QED
              BY <1>2, <7>1
          <6>2. queue[1].sub[r] >= 1 /\ queue[1].sub[r] <= submissions[r]
            BY <1>1, <5>1, <6>1 DEF FlightInv, Tagged
          <6>3. submissions[r] <= 1
            BY <1>1 DEF FlightInv, Submitted, Unpipelined
          <6>4. queue[1].sub[r] \in Int /\ submissions[r] \in Int
            BY <1>1, <1>2 DEF TypeOK, Batches
          <6>5. queue[1].sub[r] = submissions[r]
            BY <6>2, <6>3, <6>4
          <6> QED
            BY <4>1, <5>1, <6>1, <6>5 DEF InFlight
        <5> QED
          BY <3>7, <5>1
      <4>3. queue[1].s[r] = 0
        BY <4>1, <4>2 DEF Posted
      <4>4. cached'[r].draftLen = 0
        BY <1>10, <2>1, <3>7, <4>3
      <4> QED
        BY <4>4 DEF Rejections, NumRejected
    <3>8. Behind(2, r)' = Behind(2, r)
      BY <3>5, <3>6, <3>7
    <3> QED
      BY <1>1, <3>2, <3>8 DEF Leads
  <2>4. \A i \in 1 .. Len(queue) : r \in Batch(i)' /\ i > Done' => Leads(i, r)'
    <3>1. \A i \in 1 .. Len(queue) : i > Done' => i = 2 /\ Len(queue) = 2
      BY <1>2, <1>3
    <3> QED
      BY <1>4, <2>3, <3>1
  <2>5. Noted(r)'
    <3>1. CASE r \in Batch(1)
      <4>1. r \in todo'
        BY <1>1, <1>9, <2>1, <3>1
      <4>2. ~Waits(r)'
        BY <1>1, <4>1 DEF Waits
      <4> QED
        BY <4>2 DEF Noted
    <3>2. CASE r \notin Batch(1) /\ AsyncScheduling
      <4>1. ~Waits(r)'
        BY <1>4, <3>2 DEF Waits
      <4> QED
        BY <4>1 DEF Noted
    <3>3. CASE r \notin Batch(1) /\ ~AsyncScheduling
      <4>1. /\ Rejections(r)' = 0 /\ Accepted(r)' = 0 /\ cached[r].outs = out[r]
            /\ cached'[r] = cached[r]
        BY <1>8, <1>11, <2>1, <3>3
      <4> QED
        BY <1>1, <1>6, <4>1 DEF Noted
    <3> QED
      BY <3>1, <3>2, <3>3
  <2>6. Settled(r)'
    <3>1. r \in todo => r \in Batch(1)
      BY <1>1 DEF Paired
    <3>2. r \in todo => /\ cached'[r].outs = out[r]
                        /\ cached'[r].computed = sent[1].computed[r] - (sent[1].outs[r] - out[r])
      BY <1>10, <2>1, <3>1
    <3> QED
      BY <1>1, <3>2 DEF Settled
  <2>7. Aligned(r)'
    <3>1. ASSUME r \in Batch(1), Len(queue) = 2 => r \in Batch(2)
          PROVE  cached'[r].draftLen = IF AsyncScheduling THEN queue[1].s[r] ELSE 0
      BY <1>9, <1>10, <2>1, <3>1
    <3>2. r \in Batch(1)' <=> r \in Batch(1)
      BY <1>2, <1>4
    <3>3. Len(queue) = 2 => (r \in Batch(2)' <=> r \in Batch(2))
      BY <1>4
    <3> QED
      BY <1>1, <3>1, <3>2, <3>3 DEF Aligned
  <2>8. Attended(r)'
    BY <1>1 DEF Attended
  <2> QED
    BY <1>1, <2>2, <2>4, <2>5, <2>6, <2>7, <2>8 DEF Follows
<1>14. FewDrafts'
  BY <1>1 DEF PosInv, FewDrafts
<1>15. executed' => inBatch' = Batch(1)'
  <2>1. 1 \in 1 .. Len(queue)
    BY <1>2
  <2> QED
    BY <1>4, <2>1
<1> QED
  BY <1>1, <1>12, <1>13, <1>14, <1>15 DEF PosInv, Within, Scheduling

\* The output of a request is applied: what the worker is behind is then what
\* the batch rejected, which it has been told.
LEMMA OutputPositions ==
  ASSUME CoreInv, CoreInv', RunnerInv, PosInv, Unpipelined, Hears, OutputStep
  PROVE  PosInv'
<1>1. /\ Inv /\ TypeOK /\ TypeOK' /\ RunnerType /\ Paired /\ FlightInv /\ LifeInv
      /\ pc = "output" /\ pc' = "output" /\ todo \subseteq Reqs /\ todo # {}
      /\ UNCHANGED <<sspec, submissions>> /\ (executed => inBatch = Batch(1))
      /\ \A r \in Reqs : Traced(r) /\ (Live(r) => Follows(r))
  BY DEF CoreInv, Inv, TypeOK, RunnerInv, PosInv, OutputStep, UpdateFromOutput, Finish, localVars,
     reqVars
<1>2. /\ executed = TRUE /\ executed' = TRUE /\ UNCHANGED <<inBatch, sent, newReqs>>
      /\ Bookkeeping
  <2>1. executed = TRUE /\ executed' = TRUE
    <3>1. executed' \in BOOLEAN /\ executed' /\ executed
      BY <1>1, HearsType DEF RunnerType
    <3> QED
      BY <1>1, <3>1 DEF RunnerType
  <2>2. TrackPass /\ Bookkeeping /\ inBatch' = inBatch
    BY <1>1 DEF Hears, Engine
  <2>3. \A r \in Reqs : status'[r] # "running" \/ status[r] = "running"
    BY <1>1 DEF OutputStep, UpdateFromOutput, Finish, reqVars, TypeOK
  <2>4. newReqs' = newReqs /\ sent' = sent
    BY <1>1, <2>2, <2>3 DEF TrackPass, Started
  <2> QED
    BY <2>1, <2>2, <2>4
<1>3. /\ Len(queue) \in 1 .. 2 /\ Head(queue) = queue[1] /\ queue[1] \in Batches
      /\ Done = 1 /\ Done' = 1 /\ (Len(queue) = 2 => AsyncScheduling)
      /\ DOMAIN queue = 1 .. Len(queue)
  <2>1. queue \in Seq(Batches) /\ queue # <<>> /\ Len(queue) <= 2
        /\ (~AsyncScheduling => Len(queue) <= 1)
    BY <1>1, AtMostTwo
  <2>2. PICK m \in Nat : m = Len(queue)
    BY <2>1
  <2>3. m \in 1 .. 2 /\ (m = 2 => AsyncScheduling)
    BY <2>1, <2>2
  <2> QED
    BY <1>2, <2>1, <2>2, <2>3 DEF Done
<1>4. PICK q \in todo : q = CHOOSE r \in todo : TRUE
  <2>1. \E q \in todo : q = CHOOSE r \in todo : TRUE
    BY <1>1
  <2> QED
    BY <2>1
<1>5. /\ todo' = todo \ {q}
      /\ \/ \E accepted \in 0 .. NumSpecTokens, kept \in 1 .. NumSpecTokens + 1,
              stopped \in BOOLEAN : UpdateFromOutput(q, accepted, kept, stopped)
         \/ /\ q \notin Head(queue).emit
            /\ UNCHANGED <<reqVars, blockVars, queueVars, queue>>
  BY <1>4 DEF OutputStep
<1>6. /\ q \in Reqs /\ q \in Batch(1) /\ q \in inBatch /\ Live(q) /\ Follows(q) /\ Traced(q)
      /\ cached[q].outs = out[q]
  <2>1. q \in Reqs /\ q \in Batch(1) /\ q \in inBatch /\ Live(q)
    BY <1>1, <1>2 DEF Paired, LifeInv
  <2> QED
    BY <1>1, <1>2, <2>1 DEF Follows, Settled
<1>7. /\ Len(queue') = Len(queue)
      /\ \A i \in 1 .. Len(queue) : /\ queue'[i].n = queue[i].n /\ queue'[i].s = queue[i].s
                                    /\ queue'[i].emit = queue[i].emit
                                    /\ queue'[i].sub = queue[i].sub
  <2>1. CASE queue' = queue
    BY <2>1
  <2>2. ASSUME NEW accepted \in 0 .. NumSpecTokens, NEW kept \in 1 .. NumSpecTokens + 1,
               NEW stopped \in BOOLEAN, UpdateFromOutput(q, accepted, kept, stopped)
        PROVE  /\ Len(queue') = Len(queue)
               /\ \A i \in 1 .. Len(queue) :
                    /\ queue'[i].n = queue[i].n /\ queue'[i].s = queue[i].s
                    /\ queue'[i].emit = queue[i].emit /\ queue'[i].sub = queue[i].sub
    <3>1. PICK rejected \in Int : queue' = [i \in DOMAIN queue |->
            IF i > 1 /\ q \in queue[i].emit
            THEN [queue[i] EXCEPT !.lost[q] = @ + rejected] ELSE queue[i]]
      <4>1. queue[1].s[q] \in Int /\ NumSpecTokens \in Nat
        BY <1>3, <1>6, CoreAssumption DEF Batches
      <4>2. Rejected(Head(queue), q, accepted) \in Int
        BY <1>3, <4>1 DEF Rejected
      <4> QED
        BY <2>2, <4>2 DEF UpdateFromOutput
    <3>2. /\ DOMAIN queue' = DOMAIN queue
          /\ \A i \in DOMAIN queue :
               /\ queue'[i].n = queue[i].n /\ queue'[i].s = queue[i].s
               /\ queue'[i].emit = queue[i].emit /\ queue'[i].sub = queue[i].sub
      BY <1>1, <1>6, <3>1, MovedQueue
    <3>3. queue' \in Seq(Batches) /\ queue \in Seq(Batches)
      BY <1>1 DEF TypeOK
    <3> QED
      BY <3>2, <3>3
  <2> QED
    BY <1>5, <2>1, <2>2
<1>8. /\ SameBatches /\ FewDrafts' /\ \A i \in 1 .. Len(queue) : Batch(i)' = Batch(i)
  <2>1. SameBatches
    BY <1>2, <1>7 DEF SameBatches
  <2>2. \A r \in Reqs : sspec'[r] <= NumSpecTokens
    BY <1>1 DEF PosInv, FewDrafts
  <2> QED
    BY <2>1, <2>2, SameToAll DEF PosInv
<1>9. ASSUME NEW r \in Reqs, r # q
      PROVE  /\ cached'[r] = cached[r] /\ counts'[r] = counts[r] /\ out'[r] = out[r]
             /\ status'[r] = status[r] /\ (r \in finished' => r \in finished)
             /\ (1 \in InFlight(r)' <=> 1 \in InFlight(r)) /\ (r \in todo' <=> r \in todo)
  <2>1. /\ out'[r] = out[r] /\ status'[r] = status[r] /\ (r \in finished' => r \in finished)
    BY <1>1, <1>5, <1>6, <1>9 DEF UpdateFromOutput, Finish, reqVars, queueVars, TypeOK
  <2>2. r \in todo' <=> r \in todo
    BY <1>5, <1>9
  <2>3. cached'[r] = cached[r] /\ counts'[r] = counts[r]
    BY <1>2, <2>2 DEF Bookkeeping
  <2>4. 1 \in DOMAIN queue' /\ 1 \in DOMAIN queue /\ 1 \in 1 .. Len(queue)
    <3>1. queue' \in Seq(Batches)
      BY <1>1 DEF TypeOK
    <3>2. DOMAIN queue' = 1 .. Len(queue)
      BY <1>7, <3>1
    <3> QED
      BY <1>3, <3>2
  <2>5. 1 \in InFlight(r)' <=> 1 \in InFlight(r)
    BY <1>1, <1>7, <2>2, <2>4 DEF InFlight
  <2> QED
    BY <2>1, <2>2, <2>3, <2>5
<1>10. ASSUME NEW r \in Reqs, r # q PROVE Traced(r)' /\ (Live(r)' => Follows(r)')
  <2>1. Traced(r)'
    BY <1>1, <1>2, <1>8, <1>9, <1>10, TracedKept
  <2>2. Attended(r)'
    BY <1>2 DEF Attended
  <2>3. Live(r)' => Live(r)
    BY <1>9, <1>10
  <2>4. ASSUME Live(r)' PROVE Follows(r)'
    <3>1. Follows(r) /\ (executed => queue # <<>>)
      BY <1>1, <1>3, <2>3, <2>4
    <3> QED
      BY <1>1, <1>8, <1>9, <1>10, <2>2, <3>1, FollowsKept
  <2> QED
    BY <2>1, <2>4
<1>11. /\ queue[1].s[q] \in Int /\ queue[1].s[q] >= 0 /\ counts[q] \in Int
       /\ out[q] \in Nat /\ cached[q].draftLen \in Int /\ cached[q].outs \in Int
  <2>1. 1 \in 1 .. Len(queue)
    BY <1>3
  <2> QED
    BY <1>1, <1>3, <1>6, <2>1, PosNumbers DEF Batches, PosInv, FewDrafts
<1>12. submissions[q] # 0
  <2>1. submissions[q] >= 1
    BY <1>1, <1>6 DEF FlightInv, Submitted
  <2> QED
    BY <2>1
<1>13. 1 \in InFlight(q) <=> q \in queue[1].emit
  <2>1. ASSUME q \in queue[1].emit PROVE queue[1].sub[q] = submissions[q]
    <3>1. 1 \in DOMAIN queue
      BY <1>3
    <3>2. queue[1].sub[q] >= 1 /\ queue[1].sub[q] <= submissions[q]
      BY <1>1, <2>1, <3>1 DEF FlightInv, Tagged
    <3>3. submissions[q] <= 1
      BY <1>1, <1>6 DEF FlightInv, Submitted, Unpipelined
    <3>4. queue[1].sub[q] \in Int /\ submissions[q] \in Int
      <4>1. queue[1].sub[q] \in Int
        BY <1>3, <1>6 DEF Batches
      <4>2. submissions[q] \in Int
        BY <1>1, <1>6 DEF TypeOK
      <4> QED
        BY <4>1, <4>2
    <3> QED
      BY <3>2, <3>3, <3>4
  <2> QED
    BY <1>3, <1>4, <2>1 DEF InFlight
<1>14. 1 \notin InFlight(q)'
  BY <1>1, <1>5 DEF InFlight
<1>15. Len(queue) = 2 /\ q \in Batch(2) =>
         /\ sent[2].outs[q] = out[q] + (IF q \in queue[1].emit THEN 1 + queue[1].s[q]
                                        ELSE Rejections(q))
         /\ Behind(2, q)' = Rejections(q)'
  <2>1. ASSUME Len(queue) = 2, q \in Batch(2) PROVE Leads(2, q)
    <3>1. 2 \in 1 .. Len(queue) /\ 2 > Done
      BY <1>3, <2>1
    <3> QED
      BY <1>6, <2>1, <3>1 DEF Follows
  <2>2. Behind(2, q) = IF q \in queue[1].emit THEN 1 + queue[1].s[q] ELSE Rejections(q)
    <3>1. 2 = Done + 1
      BY <1>3
    <3> QED
      BY <1>6, <1>13, <3>1 DEF Behind, Due
  <2>3. Behind(2, q)' = Rejections(q)'
    <3>1. 2 = Done' + 1 /\ q \in inBatch'
      BY <1>2, <1>3, <1>6
    <3> QED
      BY <1>14, <3>1 DEF Behind
  <2> QED
    BY <2>1, <2>2, <2>3 DEF Leads
<1>16. ASSUME Live(q)', cached'[q].draftLen = cached[q].draftLen,
              Len(queue) = 2 /\ q \in Batch(2) =>
                sent[2].outs[q] = out'[q] + Rejections(q)',
              Waits(q)' => Rejections(q)' >= 0 /\ cached'[q].outs + Accepted(q)' = out'[q]
       PROVE  Follows(q)'
  <2>1. \A i \in 1 .. Len(queue) : Posted(i, q)' <=> Posted(i, q)
    BY <1>2, <1>7 DEF Posted
  <2>2. \A i \in 1 .. Len(queue) : q \in Batch(i)' => Posted(i, q)'
    BY <1>6, <1>8, <2>1 DEF Follows
  <2>3. \A i \in 1 .. Len(queue) : q \in Batch(i)' /\ i > Done' => Leads(i, q)'
    <3>1. ASSUME NEW i \in 1 .. Len(queue), q \in Batch(i)', i > Done' PROVE Leads(i, q)'
      <4>1. i = 2 /\ Len(queue) = 2
        BY <1>3, <3>1
      <4>2. q \in Batch(2)
        BY <1>8, <3>1, <4>1
      <4>3. Leads(2, q)'
        BY <1>2, <1>15, <1>16, <4>1, <4>2 DEF Leads
      <4> QED
        BY <4>1, <4>3
    <3> QED
      BY <3>1
  <2>4. Settled(q)' /\ Attended(q)'
    BY <1>2, <1>5 DEF Settled, Attended
  <2>5. Aligned(q)'
    <3>1. (q \in Batch(1)' <=> q \in Batch(1)) /\ queue'[1].s = queue[1].s
      BY <1>3, <1>7, <1>8
    <3>2. Len(queue) = 2 => (q \in Batch(2)' <=> q \in Batch(2))
      BY <1>8
    <3> QED
      BY <1>2, <1>6, <1>7, <1>16, <3>1, <3>2 DEF Follows, Aligned
  <2> QED
    BY <1>7, <1>16, <2>2, <2>3, <2>4, <2>5 DEF Follows, Noted
<1>17. Waits(q)' \/ (Len(queue) = 2 /\ q \in Batch(2))
         => cached[q].draftLen = IF AsyncScheduling THEN queue[1].s[q] ELSE 0
  <2>1. Waits(q)' /\ Len(queue) = 2 => q \in Batch(2)
    <3>1. Len(queue) = 2 => /\ (Done < Len(queue))' /\ Batch(Done + 1)' = Batch(2)
      <4>1. ASSUME Len(queue) = 2 PROVE (Done < Len(queue))' /\ Batch(2)' = Batch(2) /\ Done' + 1 = 2
        BY <1>3, <1>7, <1>8, <4>1
      <4> QED
        BY <4>1
    <3> QED
      BY <1>3, <3>1 DEF Waits
  <2>2. Aligned(q)
    BY <1>6 DEF Follows
  <2> QED
    BY <1>2, <1>6, <2>1, <2>2 DEF Aligned
<1>18. ASSUME Traced(q)', Live(q)' => Follows(q)' PROVE PosInv'
  <2>1. \A r \in Reqs : Traced(r)' /\ (Live(r)' => Follows(r)')
    BY <1>10, <1>18
  <2>2. inBatch' = Batch(1)'
    <3>1. inBatch = Batch(1) /\ inBatch' = inBatch
      BY <1>1, <1>2
    <3>2. Batch(1)' = Batch(1)
      BY <1>3, <1>8
    <3> QED
      BY <3>1, <3>2
  <2>3. Within'
    BY <1>1 DEF Within, Scheduling
  <2> QED
    BY <1>8, <2>1, <2>2, <2>3 DEF PosInv
<1>19. CASE q \notin Head(queue).emit /\ UNCHANGED <<reqVars, blockVars, queueVars, queue>>
  <2>1. /\ cached'[q] = cached[q] /\ counts'[q] = counts[q] /\ out' = out /\ status' = status
        /\ finished' = finished
    BY <1>2, <1>6, <1>19 DEF Bookkeeping, reqVars, queueVars
  <2>2. Traced(q)'
    BY <1>1, <1>2, <1>6, <1>8, <2>1, TracedKept
  <2>3. Rejections(q)' = Rejections(q) /\ Accepted(q)' = Accepted(q)
    BY <2>1 DEF Rejections, Accepted
  <2>4. queue[1].s[q] = 0
    <3>1. Posted(1, q)
      BY <1>3, <1>6 DEF Follows
    <3> QED
      BY <1>3, <1>19, <3>1 DEF Posted
  <2>5. Waits(q)' => Rejections(q)' >= 0 /\ cached'[q].outs + Accepted(q)' = out'[q]
    <3>1. Waits(q)' => cached[q].draftLen = 0
      BY <1>17, <2>4
    <3>2. Waits(q)' => Rejections(q) = 0 /\ Accepted(q) = 0
      BY <3>1 DEF Rejections, Accepted, NumRejected, NumAccepted
    <3> QED
      BY <1>6, <1>11, <2>1, <2>3, <3>2
  <2>6. Follows(q)'
    BY <1>3, <1>6, <1>15, <1>16, <1>19, <2>1, <2>3, <2>5
  <2> QED
    BY <1>18, <2>2, <2>6
<1>20. ASSUME NEW accepted \in 0 .. NumSpecTokens, NEW kept \in 1 .. NumSpecTokens + 1,
              NEW stopped \in BOOLEAN, UpdateFromOutput(q, accepted, kept, stopped)
       PROVE  PosInv'
  <2>1. /\ q \in queue[1].emit /\ accepted \in Nat /\ kept \in Nat /\ accepted <= queue[1].s[q]
    <3>1. NumSpecTokens \in Nat
      BY CoreAssumption
    <3> QED
      BY <1>3, <1>11, <1>20, <3>1 DEF UpdateFromOutput
  <2>2. q \in (todo \ todo') \cap Head(queue).emit
    BY <1>3, <1>4, <1>5, <2>1
  <2>3. CASE Finish(q)
    <3>1. status'[q] = "finished" /\ (\A r : r \in finished' => r \in finished \/ r = q)
          /\ out'[q] = 0
      BY <1>1, <1>6, <2>3 DEF Finish, TypeOK
    <3>2. cached'[q].draftLen = cached[q].draftLen
      <4>1. PICK st \in States : st = cached[q]
        BY <1>1, <1>6 DEF RunnerType
      <4>2. PICK d : cached'[q] = [st EXCEPT !.outs = d]
        BY <1>2, <1>6, <2>2, <4>1 DEF Bookkeeping
      <4> QED
        BY <4>1, <4>2 DEF States
    <3>3. Traced(q)'
      <4>1. ~Live(q)'
        BY <3>1
      <4> QED
        BY <1>1, <1>2, <1>6, <1>8, <1>12, <3>1, <3>2, <4>1, TracedKept
    <3> QED
      <4>1. ~Live(q)'
        BY <3>1
      <4> QED
        BY <1>18, <3>3, <4>1
  <2>4. CASE ~Finish(q)
    <3>1. /\ kept = accepted + 1 /\ out' = [out EXCEPT ![q] = out[q] + kept]
          /\ status' = status
      <4>1. /\ Inv /\ pc = "output" /\ q \in Reqs /\ accepted \in Nat /\ kept \in Nat
            /\ stopped \in BOOLEAN /\ UpdateFromOutput(q, accepted, kept, stopped) /\ ~Finish(q)
        BY <1>1, <1>6, <1>20, <2>1, <2>4
      <4> QED
        BY ONLY <4>1, GoesOn
    <3>2. out'[q] = out[q] + kept /\ Live(q)' /\ finished' = finished
      BY <1>1, <1>6, <1>20, <2>4, <3>1 DEF UpdateFromOutput, queueVars, TypeOK
    <3>3. /\ counts'[q] = kept /\ cached'[q].draftLen = cached[q].draftLen
          /\ cached'[q].outs = cached[q].outs + (IF AsyncScheduling THEN 1 ELSE kept)
      <4>1. PICK st \in States : st = cached[q]
        BY <1>1, <1>6 DEF RunnerType
      <4>2. NumSampled(q) = kept
        BY <1>11, <2>1, <3>2 DEF NumSampled
      <4>3. counts'[q] = kept
        BY <1>2, <1>6, <2>2, <4>2 DEF Bookkeeping
      <4>4. PICK d : d = st.outs + (IF AsyncScheduling THEN 1 ELSE kept)
        OBVIOUS
      <4>5. cached'[q] = [st EXCEPT !.outs = d]
        BY <1>2, <1>6, <2>2, <4>1, <4>2, <4>4 DEF Bookkeeping
      <4> QED
        BY <4>1, <4>3, <4>4, <4>5 DEF States
    <3>4. Traced(q)'
      <4>1. Live(q)' /\ cached[q].outs >= 0 => cached'[q].outs >= 0
        BY <1>11, <2>1, <3>3
      <4> QED
        BY <1>1, <1>2, <1>6, <1>8, <1>12, <3>1, <3>2, <3>3, <4>1, TracedKept
    <3>5. cached[q].draftLen = (IF AsyncScheduling THEN queue[1].s[q] ELSE 0) =>
            /\ Rejections(q)' = IF AsyncScheduling THEN queue[1].s[q] - accepted ELSE 0
            /\ Accepted(q)' = IF AsyncScheduling THEN accepted ELSE 0
      <4>1. ASSUME cached[q].draftLen = IF AsyncScheduling THEN queue[1].s[q] ELSE 0
            PROVE  /\ Rejections(q)' = IF AsyncScheduling THEN queue[1].s[q] - accepted ELSE 0
                   /\ Accepted(q)' = IF AsyncScheduling THEN accepted ELSE 0
        BY <1>11, <2>1, <3>1, <3>3, <4>1 DEF Rejections, Accepted, NumRejected, NumAccepted
      <4> QED
        BY <4>1
    <3>6. Len(queue) = 2 /\ q \in Batch(2) => sent[2].outs[q] = out'[q] + Rejections(q)'
      <4>1. ASSUME Len(queue) = 2, q \in Batch(2)
            PROVE  sent[2].outs[q] = out'[q] + Rejections(q)'
        <5>1. sent[2].outs[q] = out[q] + (1 + queue[1].s[q])
          BY <1>15, <2>1, <4>1
        <5>2. Rejections(q)' = queue[1].s[q] - accepted
          BY <1>3, <1>17, <3>5, <4>1
        <5> QED
          BY <1>11, <2>1, <3>1, <3>2, <5>1, <5>2
      <4> QED
        BY <4>1
    <3>7. Waits(q)' => Rejections(q)' >= 0 /\ cached'[q].outs + Accepted(q)' = out'[q]
      <4>1. ASSUME Waits(q)'
            PROVE  Rejections(q)' >= 0 /\ cached'[q].outs + Accepted(q)' = out'[q]
        <5>1. /\ Rejections(q)' = IF AsyncScheduling THEN queue[1].s[q] - accepted ELSE 0
              /\ Accepted(q)' = IF AsyncScheduling THEN accepted ELSE 0
          BY <1>17, <3>5, <4>1
        <5> QED
          BY <1>6, <1>11, <2>1, <3>1, <3>2, <3>3, <5>1
      <4> QED
        BY <4>1
    <3>8. Follows(q)'
      BY <1>16, <3>2, <3>3, <3>6, <3>7
    <3> QED
      BY <1>18, <3>4, <3>8
  <2> QED
    BY <2>3, <2>4
<1> QED
  BY <1>5, <1>19, <1>20

\* Every step of an engine and its worker, where no request is sent drafts
\* that its worker would have forgotten.
LEMMA StepPositions ==
  ASSUME CoreInv, RunnerInv, PosInv, Unpipelined, Continued, Rested, CoreNext,
         \/ Hears
         \/ ExecuteModel
         \/ UNCHANGED runnerVars /\ ((\E r \in Reqs : GrammarReady(r)) \/ UNCHANGED vars)
  PROVE  PosInv'
<1>1. CoreInv' /\ Exact
  BY StepCore, UnpipelinedExact
<1>2. CASE Hears
  <2>1. PassStep \/ Commits \/ Drain \/ OutputStep \/ ClientStep \/ Pops
    BY <1>2 DEF Hears, Engine, Moves
  <2> QED
    BY <1>1, <1>2, <2>1, PassPositions, CommitPositions, DrainPositions, OutputPositions,
       ClientPositions, PopPositions
<1>3. CASE ExecuteModel
  BY <1>1, <1>3, ExecutePositions
<1>4. CASE UNCHANGED runnerVars /\ ((\E r \in Reqs : GrammarReady(r)) \/ UNCHANGED vars)
  BY <1>1, <1>4, SilentPositions
<1> QED
  BY <1>2, <1>3, <1>4

\* Nothing is in flight at first, and nothing is known.
LEMMA PositionsStart ==
  ASSUME Init, RunnerInit
  PROVE  PosInv
<1>1. /\ Len(sent) = 0 /\ Len(queue) = 0 /\ Done = 0 /\ pc = "idle" /\ executed = FALSE
      /\ newReqs = {} /\ inBatch = {} /\ finished = {} /\ NumSpecTokens \in Nat
      /\ \A r \in Reqs : status[r] = "none" /\ out[r] = 0 /\ sspec[r] = 0 /\ cached[r] = Unknown
  BY CoreAssumption DEF Init, RunnerInit, Done, Zero
<1>2. Within /\ FewDrafts
  BY <1>1 DEF Within, FewDrafts, Scheduling
<1>3. ASSUME NEW r \in Reqs PROVE Traced(r) /\ ~Live(r)
  <2>1. cached[r].outs = 0 /\ cached[r].draftLen = 0
    BY <1>1 DEF Unknown
  <2>2. Traceless(r) /\ ~Gone(r) /\ NewAreNew(r)
    BY <1>1, <2>1 DEF Traceless, Gone, NewAreNew
  <2> QED
    BY <1>1, <2>1, <2>2 DEF Traced
<1> QED
  BY <1>1, <1>2, <1>3 DEF PosInv

\* What the invariant says of a batch that has been executed.
LEMMA PositionFacts ==
  ASSUME CoreInv, RunnerInv, PosInv
  PROVE  WorkerPositions /\ SamplesExpected
<1>1. ASSUME NEW r \in Reqs, Executed(r)
      PROVE  /\ r \in Head(queue).emit <=>
                  cached[r].computed + Head(queue).n[r] >= Prompt[r] + cached[r].outs
             /\ r \in Head(queue).emit =>
                  cached[r].computed + Head(queue).n[r] - Head(queue).s[r] = NumTokens(r)
  <2>1. /\ Inv /\ TypeOK /\ RunnerType /\ Paired /\ FlightInv /\ pc = "output" /\ executed
        /\ r \in todo /\ Live(r)
    BY <1>1 DEF CoreInv, Inv, RunnerInv, Executed, LifeInv
  <2>2. /\ Head(queue) = queue[1] /\ queue[1] \in Batches /\ sent[1] \in Outputs
        /\ 1 \in 1 .. Len(queue)
    <3>1. queue \in Seq(Batches) /\ queue # <<>> /\ sent \in Seq(Outputs)
          /\ Len(sent) = Len(queue)
      BY <2>1 DEF Inv, TypeOK, BatchQueueBounded, RunnerType, Paired
    <3> QED
      BY <3>1
  <2>3. Follows(r) /\ r \in Batch(1)
    BY <2>1 DEF PosInv, Paired
  <2>4. Posted(1, r)
    BY <2>2, <2>3 DEF Follows
  <2>5. /\ cached[r].outs = out[r]
        /\ cached[r].computed = sent[1].computed[r] - (sent[1].outs[r] - out[r])
    BY <2>1, <2>3 DEF Follows, Settled
  <2>6. /\ queue[1].n[r] \in Int /\ queue[1].s[r] \in Int /\ queue[1].s[r] >= 0
        /\ sent[1].computed[r] \in Int /\ sent[1].outs[r] \in Int
        /\ out[r] \in Nat /\ Prompt[r] \in Nat
    <3>1. queue[1].s[r] >= 0
      BY <2>2 DEF PosInv, FewDrafts
    <3> QED
      BY <2>1, <2>2, <3>1, PosNumbers DEF Batches, Outputs
  <2>7. PICK c, n, d, k, m : /\ c = sent[1].computed[r] /\ n = queue[1].n[r] /\ d = queue[1].s[r]
                            /\ k = sent[1].outs[r] /\ m = out[r]
    OBVIOUS
  <2>8. /\ c \in Int /\ n \in Int /\ d \in Int /\ d >= 0 /\ k \in Int /\ m \in Nat /\ Prompt[r] \in Nat
        /\ cached[r].outs = m /\ cached[r].computed = c - (k - m)
        /\ IF r \in queue[1].emit THEN c + n = Prompt[r] + k + d ELSE c + n < Prompt[r] + k
    BY <2>4, <2>5, <2>6, <2>7 DEF Posted
  <2>9. PICK p : p = cached[r].computed
    OBVIOUS
  <2>10. /\ p \in Int /\ (r \in queue[1].emit <=> p + n >= Prompt[r] + m)
         /\ r \in queue[1].emit => p + n - d = Prompt[r] + m
    <3>1. PICK q \in Nat : q = Prompt[r]
      BY <2>8
    <3>2. /\ c \in Int /\ n \in Int /\ d \in Int /\ d >= 0 /\ k \in Int /\ m \in Nat
          /\ p = c - (k - m)
          /\ IF r \in queue[1].emit THEN c + n = q + k + d ELSE c + n < q + k
      BY <2>8, <2>9, <3>1
    <3>3. p \in Int
      BY <3>2
    <3>4. r \in queue[1].emit => p + n = q + m + d
      BY <3>2
    <3>5. r \notin queue[1].emit => p + n < q + m
      BY <3>2
    <3> QED
      BY <3>1, <3>2, <3>3, <3>4, <3>5
  <2> QED
    BY <2>2, <2>7, <2>8, <2>9, <2>10 DEF NumTokens
<1> QED
  BY <1>1 DEF WorkerPositions, SamplesExpected

\* Without drafts there is nothing a worker could have forgotten.
LEMMA PlainContinues ==
  ASSUME CoreInv, RunnerInv, PosInv, Plain
  PROVE  Continued /\ Rested
<1>1. Inv /\ TypeOK /\ RunnerType /\ FlightInv
  BY DEF CoreInv, Inv, RunnerInv
<1>2. Rested
  <2>1. \A r \in Reqs : cached[r].draftLen = 0
    BY DEF PosInv, Traced
  <2>2. inBatch \subseteq Reqs
    BY <1>1 DEF RunnerType
  <2>3. \A r \in Reqs : Rejections(r) = 0
    BY <2>1 DEF Rejections, NumRejected
  <2> QED
    BY <2>2, <2>3 DEF Rested
<1>3. Continued
  <2>1. ASSUME AsyncScheduling, pc = "output", NEW r \in Batch(1) PROVE ~(queue[1].s[r] > 0)
    <3>1. r \in Reqs
      BY DEF Batch, Scheduled
    <3>2. queue # <<>> /\ queue \in Seq(Batches)
      BY <1>1, <2>1 DEF Inv, TypeOK, BatchQueueBounded
    <3>3. 1 \in 1 .. Len(queue) /\ queue[1] \in Batches
      BY <3>2
    <3>4. queue[1].s[r] <= NumSpecTokens /\ NumSpecTokens = 0 /\ queue[1].s[r] \in Int
      BY <2>1, <3>1, <3>3 DEF PosInv, FewDrafts, Plain, Batches
    <3> QED
      BY <3>4
  <2> QED
    BY <2>1 DEF Continued
<1> QED
  BY <1>2, <1>3
=============================================================================
