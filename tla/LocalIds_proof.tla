---------------------------- MODULE LocalIds_proof ----------------------------
(***************************************************************************)
(* For any set of requests and blocks and any number of states, batches    *)
(* larger than that number included: the tables of the local id mapper     *)
(* agree, and a lookup gives every row a state.  With a state for every    *)
(* running request and one for the padding, rows never share a state, and  *)
(* under the chunked scheduler a request always finds its own again.       *)
(***************************************************************************)
EXTENDS LocalIds, RequestQueue_proof, FiniteSetTheorems, TLAPS

-----------------------------------------------------------------------------
(* Sequences.                                                               *)

\* popleft and popitem(last=False): the head goes, the others stay.
LEMMA TailElems ==
  ASSUME NEW S, NEW s \in Seq(S), s # <<>>, NoRepeats(s)
  PROVE  /\ Head(s) \in S /\ Head(s) \in Elems(s)
         /\ Tail(s) \in Seq(S) /\ Len(Tail(s)) = Len(s) - 1
         /\ Elems(Tail(s)) = Elems(s) \ {Head(s)}
         /\ NoRepeats(Tail(s))
<1> DEFINE t == Tail(s)
<1>1. /\ Len(s) \in Nat /\ Len(s) > 0 /\ DOMAIN s = 1 .. Len(s)
      /\ Head(s) = s[1] /\ s[1] \in S
  OBVIOUS
<1>2. /\ t \in Seq(S) /\ Len(t) = Len(s) - 1 /\ DOMAIN t = 1 .. (Len(s) - 1)
      /\ \A j \in 1 .. (Len(s) - 1) : t[j] = s[j + 1]
  BY <1>1
<1>3. ASSUME NEW x \in Elems(t) PROVE x \in Elems(s) \ {Head(s)}
  <2>1. PICK j \in 1 .. (Len(s) - 1) : x = s[j + 1]
    BY <1>2 DEF Elems
  <2>2. j + 1 \in DOMAIN s /\ 1 \in DOMAIN s /\ j + 1 # 1
    BY <1>1
  <2> QED
    BY <1>1, <2>1, <2>2 DEF Elems, NoRepeats
<1>4. ASSUME NEW x \in Elems(s) \ {Head(s)} PROVE x \in Elems(t)
  <2>1. PICK j \in 1 .. Len(s) : x = s[j]
    BY <1>1 DEF Elems
  <2>2. j # 1 /\ j - 1 \in 1 .. (Len(s) - 1) /\ (j - 1) + 1 = j
    BY <1>1, <1>4, <2>1
  <2> QED
    BY <1>2, <2>1, <2>2 DEF Elems
<1>5. NoRepeats(t)
  <2> SUFFICES ASSUME NEW j \in DOMAIN t, NEW k \in DOMAIN t, t[j] = t[k]
               PROVE  j = k
    BY DEF NoRepeats
  <2>1. j + 1 \in DOMAIN s /\ k + 1 \in DOMAIN s /\ s[j + 1] = s[k + 1]
    BY <1>1, <1>2
  <2>2. j + 1 = k + 1
    BY <2>1 DEF NoRepeats
  <2> QED
    BY <1>2, <2>2
<1>6. Elems(t) = Elems(s) \ {Head(s)}
  BY <1>3, <1>4
<1>7. Head(s) \in Elems(s)
  BY <1>1 DEF Elems
<1> QED
  BY <1>1, <1>2, <1>5, <1>6, <1>7

-----------------------------------------------------------------------------
(* The inductive invariant.                                                 *)

\* A block still to be placed has no state.
MissesUnmapped == \A g \in misses : local[g] = NoId

\* Rows without a state are those of blocks still to be placed or just placed.
RowsFound ==
  /\ pc \in {"hits", "misses"} =>
       /\ Len(ids) <= Len(rows)
       /\ \A i \in 1 .. Len(ids) :
            ids[i] = NoId => rows[i].gid \in misses \/ newMap[rows[i].gid] # NoId
  /\ pc = "misses" => Len(ids) = Len(rows)

IInv == TypeOK /\ TablesAgree /\ MissesUnmapped /\ RowsFound

-----------------------------------------------------------------------------
(* Type correctness.                                                        *)

\* A scheduled batch is a sequence of rows.
LEMMA ScheduleType == TypeOK /\ ScheduleAny => TypeOK'
<1> SUFFICES ASSUME TypeOK, ScheduleAny PROVE TypeOK'
  OBVIOUS
<1>0. PICK new \in SUBSET waiting, old \in SUBSET Running :
        \E ends \in SUBSET (new \cup old), b \in [new -> Blocks],
           order \in Orders(new \cup old) : Schedule(new, old, ends, b, order)
  BY DEF ScheduleAny
<1>1. PICK ends \in SUBSET (new \cup old), b \in [new -> Blocks], order \in Orders(new \cup old) :
        Schedule(new, old, ends, b, order)
  BY <1>0
<1>2. new \subseteq Reqs /\ old \subseteq Reqs
  BY DEF TypeOK, Running
<1>3. IsFiniteSet(new \cup old)
  BY <1>2, LocalIdsAssumption, FS_Subset, new \cup old \subseteq Reqs
<1>4. Cardinality(new \cup old) \in Nat
  BY <1>3, FS_CardinalityType
<1>5. order \in [1 .. Cardinality(new \cup old) -> new \cup old]
  BY DEF Orders
<1>6. block' = [r \in Reqs |-> IF r \in new THEN b[r] ELSE block[r]]
  BY <1>1 DEF Schedule
<1>7. block' \in [Reqs -> Blocks \cup {NoId}]
  BY <1>6 DEF TypeOK
<1>8. \A r \in new \cup old : block'[r] \in Blocks
  BY <1>2, <1>6 DEF TypeOK, Running
<1> DEFINE batch == [i \in DOMAIN order |->
                       [gid |-> block'[order[i]], req |-> order[i], fresh |-> order[i] \in new]]
<1>9. batch \in Seq(Row)
  <2>1. DOMAIN order = 1 .. Cardinality(new \cup old)
    BY <1>5
  <2>2. \A i \in DOMAIN order : batch[i] \in Row
    <3> SUFFICES ASSUME NEW i \in DOMAIN order PROVE batch[i] \in Row
      OBVIOUS
    <3>1. order[i] \in new \cup old
      BY <1>5, <2>1
    <3>2. block'[order[i]] \in Gids /\ order[i] \in Reqs \cup {NoReq}
      BY <1>2, <1>8, <3>1 DEF Gids
    <3>3. (order[i] \in new) \in BOOLEAN
      OBVIOUS
    <3> QED
      BY <3>2, <3>3 DEF Row
  <2>3. batch \in [1 .. Cardinality(new \cup old) -> Row]
    BY <2>1, <2>2
  <2>4. \A n \in Nat : \A f \in [1 .. n -> Row] : f \in Seq(Row)
    OBVIOUS
  <2> HIDE DEF batch
  <2> QED
    BY <1>4, <2>3, <2>4
<1>10. PadRow \in Row
  BY DEF PadRow, Row, Gids
<1>11. Append(batch, PadRow) \in Seq(Row)
  BY <1>9, <1>10
<1>12. queue' = Append(queue, batch) \/ queue' = Append(queue, Append(batch, PadRow))
  BY <1>1 DEF Schedule
<1>13. queue' \in Seq(Seq(Row))
  <2>1. \A S : \A s \in Seq(S), x \in S : Append(s, x) \in Seq(S)
    OBVIOUS
  <2>2. queue \in Seq(Seq(Row))
    BY DEF TypeOK
  <2> HIDE DEF batch
  <2>3. Append(queue, batch) \in Seq(Seq(Row))
    BY <1>9, <2>1, <2>2
  <2>4. Append(queue, Append(batch, PadRow)) \in Seq(Seq(Row))
    BY <1>11, <2>1, <2>2
  <2> QED
    BY <1>12, <2>3, <2>4
<1>14. waiting' \subseteq Reqs /\ UNCHANGED <<mapper, lookup, state>>
  BY <1>1 DEF Schedule, TypeOK
<1>15. spent' \subseteq Reqs
  BY <1>1, <1>2 DEF Schedule, TypeOK
<1> QED
  BY <1>7, <1>13, <1>14, <1>15 DEF TypeOK, mapper, lookup

\* Taking the next batch, the three passes and the forward pass keep the types.
LEMMA LookupTypes ==
  IInv /\ (Begin \/ Lookup \/ EndLookup \/ Fill \/ Forward) => TypeOK'
<1> SUFFICES ASSUME IInv, Begin \/ Lookup \/ EndLookup \/ Fill \/ Forward
             PROVE  TypeOK'
  OBVIOUS
<1>0. TypeOK /\ RowsFound
  BY DEF IInv
<1>1. CASE Begin
  <2>1. Head(queue) \in Seq(Row) /\ Tail(queue) \in Seq(Seq(Row))
    BY <1>0, <1>1 DEF Begin, TypeOK
  <2> QED
    BY <1>0, <1>1, <2>1 DEF Begin, TypeOK, mapper
<1>2. CASE Lookup
  <2> DEFINE gid == rows[Len(ids) + 1].gid
  <2>1. rows \in Seq(Row) /\ ids \in Seq(Locals \cup {NoId}) /\ Len(ids) < Len(rows)
    BY <1>0, <1>2 DEF Lookup, TypeOK
  <2>2. Len(ids) + 1 \in 1 .. Len(rows)
    BY <2>1
  <2>3. rows[Len(ids) + 1] \in Row
    BY <2>1, <2>2
  <2>4. gid \in Gids
    BY <2>3 DEF Row
  <2>5. local[gid] \in Locals \cup {NoId}
    BY <1>0, <2>4 DEF TypeOK
  <2>6. Append(ids, local[gid]) \in Seq(Locals \cup {NoId})
    BY <2>1, <2>5
  <2>7. Touched(gid) \in Seq(Gids)
    <3>1. Without(lru, gid) \in Seq(Gids)
      BY <1>0, WithoutElems DEF TypeOK
    <3> QED
      BY <2>4, <3>1 DEF Touched
  <2>8. ids' = Append(ids, local[gid]) /\ (lru' = Touched(gid) \/ lru' = lru)
        /\ (misses' = misses \/ misses' = misses \cup {gid})
    BY <1>2 DEF Lookup
  <2>9. ids' \in Seq(Locals \cup {NoId}) /\ lru' \in Seq(Gids) /\ misses' \subseteq Gids
    BY <1>0, <2>4, <2>6, <2>7, <2>8 DEF TypeOK
  <2>10. pc' = "hits" /\ UNCHANGED <<sched, rows, newMap, local, owner, available, state>>
    BY <1>2 DEF Lookup
  <2> QED
    BY <1>0, <2>9, <2>10 DEF TypeOK, sched
<1>3. CASE EndLookup
  BY <1>0, <1>3 DEF EndLookup, TypeOK, sched, mapper
<1>4. CASE Fill
  <2>1. rows \in Seq(Row) /\ ids \in Seq(Locals \cup {NoId}) /\ Len(ids) = Len(rows)
    BY <1>0, <1>4 DEF Fill, TypeOK, RowsFound
  <2>2. ASSUME NEW i \in 1 .. Len(rows) PROVE Filled(i) \in Locals
    <3>1. ids[i] \in Locals \cup {NoId} /\ rows[i] \in Row
      BY <2>1
    <3>2. rows[i].gid \in Gids
      BY <3>1 DEF Row
    <3>3. CASE ids[i] # NoId
      BY <3>1, <3>3 DEF Filled
    <3>4. CASE ids[i] = NoId
      <4>1. newMap[rows[i].gid] # NoId
        BY <1>0, <1>4, <2>1, <3>4 DEF Fill, RowsFound
      <4>2. newMap[rows[i].gid] \in Locals \cup {NoId}
        BY <1>0, <3>2 DEF TypeOK
      <4> QED
        BY <3>4, <4>1, <4>2 DEF Filled
    <3> QED
      BY <3>3, <3>4
  <2>3. DOMAIN rows = 1 .. Len(rows) /\ Len(rows) \in Nat
    BY <2>1
  <2>4. ids' = [i \in 1 .. Len(rows) |-> Filled(i)]
    BY <1>4, <2>3 DEF Fill
  <2>5. ids' \in [1 .. Len(rows) -> Locals]
    BY <2>2, <2>4
  <2>6. ids' \in Seq(Locals) /\ Len(ids') = Len(rows)
    BY <2>3, <2>5
  <2>7. ids' \in Seq(Locals \cup {NoId})
    BY <2>3, <2>5
  <2>8. newMap' \in [Gids -> Locals \cup {NoId}]
    BY <1>4 DEF Fill
  <2>9. pc' = "forward" /\ UNCHANGED <<sched, rows, misses, mapper, state>>
    BY <1>4 DEF Fill
  <2> QED
    BY <1>0, <2>6, <2>7, <2>8, <2>9 DEF TypeOK, sched, mapper
<1>5. CASE Forward
  <2>0. \A i \in DOMAIN rows : rows[i] \in Row
    BY <1>0 DEF TypeOK
  <2>1. \A i \in DOMAIN rows : rows[i].req \in Reqs \cup {NoReq}
    BY <2>0 DEF Row
  <2>2. state' = [l \in Locals |-> IF \E i \in DOMAIN rows : ids[i] = l
                                   THEN rows[CHOOSE i \in DOMAIN rows : ids[i] = l].req
                                   ELSE state[l]]
    BY <1>5 DEF Forward
  <2>3. state' \in [Locals -> Reqs \cup {NoReq}]
    <3> SUFFICES ASSUME NEW l \in Locals
                 PROVE  (IF \E i \in DOMAIN rows : ids[i] = l
                         THEN rows[CHOOSE i \in DOMAIN rows : ids[i] = l].req
                         ELSE state[l]) \in Reqs \cup {NoReq}
      BY <2>2
    <3>1. CASE \E i \in DOMAIN rows : ids[i] = l
      BY <2>1, <3>1
    <3>2. CASE ~ \E i \in DOMAIN rows : ids[i] = l
      BY <1>0, <3>2 DEF TypeOK
    <3> QED
      BY <3>1, <3>2
  <2>4. pc' = "idle" /\ rows' = <<>> /\ ids' = <<>> /\ UNCHANGED <<sched, misses, newMap, mapper>>
    BY <1>5 DEF Forward
  <2> QED
    BY <1>0, <2>3, <2>4 DEF TypeOK, sched, mapper
<1> QED
  BY <1>1, <1>2, <1>3, <1>4, <1>5

-----------------------------------------------------------------------------
(* The tables.                                                              *)

\* A hit moves its block to the end of the order.
LEMMA TouchKeeps == IInv /\ Lookup => TablesAgree' /\ MissesUnmapped'
<1> SUFFICES ASSUME IInv, Lookup PROVE TablesAgree' /\ MissesUnmapped'
  OBVIOUS
<1>0. TypeOK /\ TablesAgree /\ MissesUnmapped
  BY DEF IInv
<1> DEFINE gid == rows[Len(ids) + 1].gid
<1>1. UNCHANGED <<local, owner, available>>
  BY DEF Lookup
<1>2. CASE local[gid] = NoId
  <2>1. lru' = lru /\ misses' = misses \cup {gid}
    BY <1>2 DEF Lookup
  <2> QED
    BY <1>0, <1>1, <1>2, <2>1 DEF TablesAgree, MissesUnmapped
<1>3. CASE local[gid] # NoId
  <2>1. lru' = Append(Without(lru, gid), gid) /\ misses' = misses
    BY <1>3 DEF Lookup, Touched
  <2>2. rows \in Seq(Row) /\ Len(ids) \in Nat /\ Len(ids) < Len(rows)
    BY <1>0 DEF Lookup, TypeOK
  <2>3. rows[Len(ids) + 1] \in Row
    BY <2>2
  <2>4. gid \in Gids
    BY <2>3 DEF Row
  <2> HIDE DEF gid
  <2>5. lru \in Seq(Gids) /\ NoRepeats(lru) /\ Elems(lru) = {g \in Gids : local[g] # NoId}
    BY <1>0 DEF TypeOK, TablesAgree
  <2>6. gid \in Elems(lru)
    BY <1>3, <2>4, <2>5
  <2>7. /\ Without(lru, gid) \in Seq(Gids) /\ NoRepeats(Without(lru, gid))
        /\ Elems(Without(lru, gid)) = Elems(lru) \ {gid}
        /\ Len(Without(lru, gid)) = Len(lru) - 1
    BY <2>5, <2>6, WithoutElems, WithoutLen
  <2>8. /\ NoRepeats(lru') /\ Elems(lru') = Elems(lru)
    <3> DEFINE w == Without(lru, gid)
    <3>1. gid \notin Elems(w)
      BY <2>7
    <3> HIDE DEF w
    <3>2. /\ NoRepeats(Append(w, gid))
          /\ Elems(Append(w, gid)) = Elems(w) \cup {gid}
      BY <2>4, <2>7, <3>1, AppendElems DEF w
    <3>3. Elems(w) \cup {gid} = Elems(lru)
      BY <2>6, <2>7 DEF w
    <3> QED
      BY <2>1, <3>2, <3>3 DEF w
  <2>9. Len(lru') = Len(lru)
    BY <2>1, <2>4, <2>5, <2>7
  <2>10. TablesAgree'
    BY <1>0, <1>1, <2>8, <2>9 DEF TablesAgree
  <2> QED
    BY <1>0, <1>1, <2>1, <2>10 DEF MissesUnmapped
<1> QED
  BY <1>2, <1>3

\* A free state is given to a block that has none.
LEMMA AssignKeeps ==
  ASSUME NEW gid \in Gids, IInv, Assign(gid)
  PROVE  TypeOK' /\ TablesAgree' /\ MissesUnmapped'
<1> DEFINE l == Head(available)
<1>0. TypeOK /\ TablesAgree /\ MissesUnmapped
  BY DEF IInv
<1>1. /\ gid \in misses /\ Len(lru) < BatchSize
      /\ local' = [local EXCEPT ![gid] = l] /\ owner' = [owner EXCEPT ![l] = gid]
      /\ available' = Tail(available) /\ lru' = Append(lru, gid)
      /\ newMap' = [newMap EXCEPT ![gid] = l] /\ misses' = misses \ {gid}
      /\ pc = "misses" /\ UNCHANGED <<sched, pc, rows, ids, state>>
  BY DEF Assign
<1>2. /\ lru \in Seq(Gids) /\ available \in Seq(Locals) /\ BatchSize \in Nat
      /\ local \in [Gids -> Locals \cup {NoId}] /\ owner \in [Locals -> Gids \cup {NoId}]
  BY <1>0, LocalIdsAssumption DEF TypeOK
<1>3. /\ NoRepeats(lru) /\ Elems(lru) = {g \in Gids : local[g] # NoId}
      /\ NoRepeats(available) /\ Elems(available) = {k \in Locals : owner[k] = NoId}
      /\ Len(lru) + Len(available) = BatchSize
  BY <1>0 DEF TablesAgree
<1>4. available # <<>>
  BY <1>1, <1>2, <1>3
<1>5. /\ l \in Locals /\ l \in Elems(available) /\ Tail(available) \in Seq(Locals)
      /\ Len(Tail(available)) = Len(available) - 1
      /\ Elems(Tail(available)) = Elems(available) \ {l} /\ NoRepeats(Tail(available))
  BY <1>2, <1>3, <1>4, TailElems
<1> HIDE DEF l
<1>6. owner[l] = NoId /\ local[gid] = NoId /\ l # NoId /\ gid # NoId
  BY <1>0, <1>1, <1>3, <1>5, LocalIdsAssumption DEF MissesUnmapped
<1>7. gid \notin Elems(lru)
  BY <1>3, <1>6
<1>8. /\ lru' \in Seq(Gids) /\ NoRepeats(lru') /\ Elems(lru') = Elems(lru) \cup {gid}
      /\ Len(lru') = Len(lru) + 1
  BY <1>1, <1>2, <1>3, <1>7, AppendElems
<1>9. Elems(lru') = {g \in Gids : local'[g] # NoId}
  BY <1>1, <1>2, <1>3, <1>6, <1>8
<1>10. Elems(available') = {k \in Locals : owner'[k] = NoId}
  BY <1>1, <1>2, <1>3, <1>5, <1>6
<1>11. \A g \in Gids : local'[g] # NoId => owner'[local'[g]] = g
  <2> SUFFICES ASSUME NEW g \in Gids, local'[g] # NoId PROVE owner'[local'[g]] = g
    OBVIOUS
  <2>1. CASE g = gid
    BY <1>1, <1>2, <1>5, <2>1
  <2>2. CASE g # gid
    <3>1. local'[g] = local[g] /\ local[g] \in Locals /\ owner[local[g]] = g
      BY <1>0, <1>1, <1>2, <2>2 DEF TablesAgree
    <3>2. local[g] # l
      BY <1>6, <3>1, LocalIdsAssumption
    <3> QED
      BY <1>1, <1>2, <3>1, <3>2
  <2> QED
    BY <2>1, <2>2
<1>12. \A k \in Locals : owner'[k] # NoId => local'[owner'[k]] = k
  <2> SUFFICES ASSUME NEW k \in Locals, owner'[k] # NoId PROVE local'[owner'[k]] = k
    OBVIOUS
  <2>1. CASE k = l
    BY <1>1, <1>2, <2>1
  <2>2. CASE k # l
    <3>1. owner'[k] = owner[k] /\ owner[k] \in Gids /\ local[owner[k]] = k
      BY <1>0, <1>1, <1>2, <2>2 DEF TablesAgree
    <3>2. k # NoId
      BY LocalIdsAssumption
    <3>3. owner[k] # gid
      BY <1>6, <3>1, <3>2
    <3> QED
      BY <1>1, <1>2, <3>1, <3>3
  <2> QED
    BY <2>1, <2>2
<1>13. Len(lru') + Len(available') = BatchSize
  <2>1. Len(lru) \in Nat /\ Len(available) \in Nat
    BY <1>2
  <2>2. Len(available') = Len(available) - 1
    BY <1>1, <1>5
  <2>3. Len(lru') = Len(lru) + 1
    BY <1>8
  <2>4. Len(lru) + Len(available) = BatchSize
    BY <1>3
  <2> QED
    BY <2>1, <2>2, <2>3, <2>4
<1>14. TablesAgree'
  BY <1>1, <1>5, <1>8, <1>9, <1>10, <1>11, <1>12, <1>13 DEF TablesAgree
<1>15. MissesUnmapped'
  BY <1>0, <1>1, <1>2 DEF MissesUnmapped, TypeOK
<1>16. /\ local' \in [Gids -> Locals \cup {NoId}] /\ newMap' \in [Gids -> Locals \cup {NoId}]
       /\ available' \in Seq(Locals) /\ misses' \subseteq Gids
  BY <1>0, <1>1, <1>2, <1>5 DEF TypeOK
<1>17. owner' \in [Locals -> Gids \cup {NoId}]
  BY <1>1, <1>2
<1>18. TypeOK'
  BY <1>0, <1>1, <1>8, <1>16, <1>17 DEF TypeOK, sched
<1> QED
  BY <1>14, <1>15, <1>18

\* When no state is free, the least recently used block gives up its own.
LEMMA EvictKeeps ==
  ASSUME NEW gid \in Gids, IInv, EvictAndAssign(gid)
  PROVE  TypeOK' /\ TablesAgree' /\ MissesUnmapped'
<1> DEFINE old == Head(lru)
           l == local[old]
<1>0. TypeOK /\ TablesAgree /\ MissesUnmapped
  BY DEF IInv
<1>2. /\ lru \in Seq(Gids) /\ available \in Seq(Locals) /\ BatchSize \in Nat \ {0}
      /\ local \in [Gids -> Locals \cup {NoId}] /\ owner \in [Locals -> Gids \cup {NoId}]
  BY <1>0, LocalIdsAssumption DEF TypeOK
<1>3. /\ NoRepeats(lru) /\ Elems(lru) = {g \in Gids : local[g] # NoId}
      /\ NoRepeats(available) /\ Elems(available) = {k \in Locals : owner[k] = NoId}
      /\ Len(lru) + Len(available) = BatchSize
  BY <1>0 DEF TablesAgree
<1>4. Len(lru) >= BatchSize /\ gid \in misses
  BY DEF EvictAndAssign
<1>5. Len(lru) \in Nat /\ Len(available) \in Nat
  BY <1>2
<1>6. Len(available) = 0 /\ Len(lru) = BatchSize /\ lru # <<>>
  BY <1>2, <1>3, <1>4, <1>5
<1>7. available = <<>>
  BY <1>2, <1>6
<1>8. /\ old \in Gids /\ old \in Elems(lru) /\ Tail(lru) \in Seq(Gids)
      /\ Len(Tail(lru)) = Len(lru) - 1
      /\ Elems(Tail(lru)) = Elems(lru) \ {old} /\ NoRepeats(Tail(lru))
  BY <1>2, <1>3, <1>6, TailElems
<1>9. l \in Locals /\ l # NoId
  BY <1>2, <1>3, <1>8
<1>10. Append(available, l) = <<l>> /\ Head(<<l>>) = l /\ Tail(<<l>>) = <<>>
  BY <1>7
<1>11. /\ local' = [[local EXCEPT ![old] = NoId] EXCEPT ![gid] = l]
       /\ owner' = [[owner EXCEPT ![l] = NoId] EXCEPT ![l] = gid]
       /\ available' = <<>>
       /\ newMap' = [newMap EXCEPT ![gid] = l]
  BY <1>10 DEF EvictAndAssign, Forgotten
<1>12. /\ lru' = Append(Tail(lru), gid) /\ misses' = misses \ {gid}
       /\ pc = "misses" /\ UNCHANGED <<sched, pc, rows, ids, state>>
  BY DEF EvictAndAssign
<1>13. local[gid] = NoId /\ gid \notin Elems(lru) /\ gid # old /\ gid # NoId
  BY <1>0, <1>3, <1>4, <1>8, LocalIdsAssumption DEF MissesUnmapped
<1>14. owner[l] = old
  BY <1>0, <1>8, <1>9 DEF TablesAgree
<1> HIDE DEF l, old
<1>15. owner' = [owner EXCEPT ![l] = gid]
  BY <1>2, <1>9, <1>11
<1>16. /\ lru' \in Seq(Gids) /\ NoRepeats(lru')
       /\ Elems(lru') = (Elems(lru) \ {old}) \cup {gid}
  <2> DEFINE w == Tail(lru)
  <2>1. gid \notin Elems(w)
    BY <1>8, <1>13
  <2>0. w \in Seq(Gids) /\ NoRepeats(w)
    BY <1>8
  <2> HIDE DEF w
  <2>2. /\ Append(w, gid) \in Seq(Gids) /\ NoRepeats(Append(w, gid))
        /\ Elems(Append(w, gid)) = Elems(w) \cup {gid}
    BY <2>0, <2>1, AppendElems
  <2> QED
    BY <1>8, <1>12, <2>2 DEF w
<1>17. Len(lru') = Len(lru)
  BY <1>5, <1>6, <1>8, <1>12
<1>18. Elems(lru') = {g \in Gids : local'[g] # NoId}
  BY <1>2, <1>3, <1>9, <1>11, <1>13, <1>16
<1>19. \A k \in Locals : owner'[k] # NoId
  BY <1>2, <1>3, <1>7, <1>13, <1>15 DEF Elems
<1>20. Elems(available') = {k \in Locals : owner'[k] = NoId} /\ NoRepeats(available')
  <2>1. DOMAIN available' = {}
    BY <1>11
  <2>2. Elems(available') = {} /\ NoRepeats(available')
    BY <2>1 DEF Elems, NoRepeats
  <2> QED
    BY <1>19, <2>2
<1>21. \A g \in Gids : local'[g] # NoId => owner'[local'[g]] = g
  <2> SUFFICES ASSUME NEW g \in Gids, local'[g] # NoId PROVE owner'[local'[g]] = g
    OBVIOUS
  <2>1. CASE g = gid
    BY <1>2, <1>9, <1>11, <1>15, <2>1
  <2>2. CASE g # gid
    <3>1. g # old /\ local'[g] = local[g]
      BY <1>2, <1>11, <2>2
    <3>2. local[g] \in Locals /\ owner[local[g]] = g
      BY <1>0, <1>2, <3>1 DEF TablesAgree
    <3>3. local[g] # l
      BY <1>14, <3>1, <3>2
    <3> QED
      BY <1>2, <1>15, <3>1, <3>2, <3>3
  <2> QED
    BY <2>1, <2>2
<1>22. \A k \in Locals : owner'[k] # NoId => local'[owner'[k]] = k
  <2> SUFFICES ASSUME NEW k \in Locals, owner'[k] # NoId PROVE local'[owner'[k]] = k
    OBVIOUS
  <2>1. CASE k = l
    <3>1. owner'[k] = gid
      BY <1>2, <1>9, <1>15, <2>1
    <3> QED
      BY <1>2, <1>11, <2>1, <3>1
  <2>2. CASE k # l
    <3>1. owner'[k] = owner[k] /\ owner[k] \in Gids /\ local[owner[k]] = k
      BY <1>0, <1>2, <1>15, <2>2 DEF TablesAgree
    <3>2. owner[k] # gid /\ owner[k] # old
      BY <1>13, <1>14, <2>2, <3>1, LocalIdsAssumption DEF l
    <3> QED
      BY <1>2, <1>11, <3>1, <3>2
  <2> QED
    BY <2>1, <2>2
<1>23. Len(lru') + Len(available') = BatchSize
  BY <1>2, <1>6, <1>11, <1>17
<1>24. TablesAgree'
  BY <1>16, <1>18, <1>20, <1>21, <1>22, <1>23 DEF TablesAgree
<1>25. MissesUnmapped'
  BY <1>0, <1>2, <1>11, <1>12 DEF MissesUnmapped, TypeOK
<1>26. /\ local' \in [Gids -> Locals \cup {NoId}] /\ newMap' \in [Gids -> Locals \cup {NoId}]
       /\ available' \in Seq(Locals) /\ misses' \subseteq Gids
  <2>1. local' \in [Gids -> Locals \cup {NoId}]
    BY <1>2, <1>9, <1>11
  <2>2. newMap' \in [Gids -> Locals \cup {NoId}]
    BY <1>0, <1>9, <1>11 DEF TypeOK
  <2>3. available' \in Seq(Locals) /\ misses' \subseteq Gids
    BY <1>0, <1>11, <1>12 DEF TypeOK
  <2> QED
    BY <2>1, <2>2, <2>3
<1>27. owner' \in [Locals -> Gids \cup {NoId}]
  BY <1>2, <1>15
<1>28. TypeOK'
  BY <1>0, <1>12, <1>16, <1>26, <1>27 DEF TypeOK, sched
<1> QED
  BY <1>24, <1>25, <1>28

-----------------------------------------------------------------------------
(* Every row is accounted for.                                              *)

\* Looking up and placing blocks loses no row.
LEMMA RowsFoundKept == IInv /\ [Next]_vars => RowsFound'
<1> SUFFICES ASSUME IInv, [Next]_vars PROVE RowsFound'
  OBVIOUS
<1>0. TypeOK /\ RowsFound
  BY DEF IInv
<1>1. CASE UNCHANGED lookup
  BY <1>0, <1>1 DEF lookup, RowsFound
<1>2. CASE Begin
  BY <1>0, <1>2 DEF Begin, RowsFound, TypeOK
<1>3. CASE Lookup
  <2> DEFINE n == Len(ids)
             gid == rows[n + 1].gid
  <2>1. /\ ids \in Seq(Locals \cup {NoId}) /\ rows \in Seq(Row) /\ n < Len(rows)
        /\ n \in Nat /\ Len(rows) \in Nat
    BY <1>0, <1>3 DEF Lookup, TypeOK
  <2>2. rows[n + 1] \in Row
    BY <2>1
  <2>3. gid \in Gids
    BY <2>2 DEF Row
  <2>4. local[gid] \in Locals \cup {NoId}
    BY <1>0, <2>3 DEF TypeOK
  <2>5. /\ pc = "hits" /\ pc' = "hits" /\ rows' = rows /\ newMap' = newMap
        /\ ids' = Append(ids, local[gid]) /\ misses \subseteq misses'
        /\ local[gid] = NoId => gid \in misses'
    BY <1>3 DEF Lookup
  <2>6. Len(ids') = n + 1 /\ ids'[n + 1] = local[gid] /\ \A i \in 1 .. n : ids'[i] = ids[i]
    BY <2>1, <2>4, <2>5
  <2>7. ASSUME NEW i \in 1 .. Len(ids'), ids'[i] = NoId
        PROVE  rows[i].gid \in misses' \/ newMap[rows[i].gid] # NoId
    <3>1. CASE i = n + 1
      BY <2>5, <2>6, <2>7, <3>1
    <3>2. CASE i # n + 1
      <4>1. i \in 1 .. n
        BY <2>1, <2>6, <3>2
      <4> QED
        BY <1>0, <2>5, <2>6, <2>7, <4>1 DEF RowsFound
    <3> QED
      BY <3>1, <3>2
  <2> QED
    BY <2>1, <2>5, <2>6, <2>7 DEF RowsFound
<1>4. CASE EndLookup
  BY <1>0, <1>4 DEF EndLookup, RowsFound
<1>5. CASE Fill
  BY <1>5 DEF Fill, RowsFound
<1>6. CASE Forward
  BY <1>6 DEF Forward, RowsFound
<1>7. ASSUME NEW gid \in Gids, Assign(gid) \/ EvictAndAssign(gid) PROVE RowsFound'
  <2>1. PICK l \in Locals : newMap' = [newMap EXCEPT ![gid] = l]
    <3>1. CASE Assign(gid)
      <4>2. newMap' = [newMap EXCEPT ![gid] = Head(available)]
        BY <3>1 DEF Assign
      <4>3. Len(lru) < BatchSize /\ Len(lru) + Len(available) = BatchSize
            /\ available \in Seq(Locals) /\ lru \in Seq(Gids) /\ BatchSize \in Nat
        BY <1>0, <3>1, LocalIdsAssumption DEF Assign, IInv, TablesAgree, TypeOK
      <4>4. available # <<>>
        BY <4>3
      <4>5. Head(available) \in Locals
        BY <4>3, <4>4
      <4> QED
        BY <4>2, <4>5
    <3>2. CASE EvictAndAssign(gid)
      <4>1. TypeOK' /\ TablesAgree'
        BY <3>2, EvictKeeps
      <4>2. PICK new : newMap' = [newMap EXCEPT ![gid] = new] /\ local'[gid] = new
        <5>1. local \in [Gids -> Locals \cup {NoId}]
          BY <1>0 DEF TypeOK
        <5> QED
          BY <3>2, <5>1 DEF EvictAndAssign, Forgotten
      <4>3. gid \in Elems(lru')
        <5>1. lru' = Append(Tail(lru), gid)
          BY <3>2 DEF EvictAndAssign
        <5>2. lru \in Seq(Gids) /\ lru # <<>>
          BY <1>0, <3>2, LocalIdsAssumption DEF EvictAndAssign, TypeOK
        <5>3. Tail(lru) \in Seq(Gids)
          BY <5>2
        <5> DEFINE w == Tail(lru)
        <5>5. w \in Seq(Gids)
          BY <5>3
        <5> HIDE DEF w
        <5>4. Elems(Append(w, gid)) = Elems(w) \cup {gid}
          BY <5>5, AppendElems
        <5> QED
          BY <5>1, <5>4 DEF w
      <4>4. local'[gid] \in Locals
        BY <4>1, <4>3 DEF TablesAgree, TypeOK
      <4> QED
        BY <4>2, <4>4
    <3> QED
      BY <1>7, <3>1, <3>2
  <2>2. /\ pc = "misses" /\ misses' = misses \ {gid} /\ UNCHANGED <<pc, rows, ids>>
    BY <1>7 DEF Assign, EvictAndAssign
  <2>3. l # NoId
    BY LocalIdsAssumption
  <2>4. newMap'[gid] # NoId /\ \A g \in Gids : newMap[g] # NoId => newMap'[g] # NoId
    BY <1>0, <2>1, <2>3 DEF TypeOK
  <2>5. ASSUME NEW i \in 1 .. Len(ids), ids[i] = NoId
        PROVE  rows[i].gid \in misses' \/ newMap'[rows[i].gid] # NoId
    <3>1. ids \in Seq(Locals \cup {NoId}) /\ rows \in Seq(Row) /\ Len(ids) = Len(rows)
      BY <1>0, <2>2 DEF TypeOK, RowsFound
    <3>2. rows[i] \in Row
      BY <3>1
    <3>3. rows[i].gid \in Gids
      BY <3>2 DEF Row
    <3>4. rows[i].gid \in misses \/ newMap[rows[i].gid] # NoId
      BY <1>0, <2>2, <2>5 DEF RowsFound
    <3> QED
      BY <2>2, <2>4, <3>3, <3>4
  <2> QED
    BY <1>0, <2>2, <2>5 DEF RowsFound
<1>8. CASE ScheduleAny
  <2>1. UNCHANGED lookup
    BY <1>8 DEF ScheduleAny, Schedule
  <2> QED
    BY <1>1, <2>1
<1>9. ASSUME NEW r \in Reqs, Leave(r) PROVE RowsFound'
  <2>1. UNCHANGED lookup
    BY <1>9 DEF Leave
  <2> QED
    BY <1>1, <2>1
<1>10. CASE UNCHANGED vars
  BY <1>1, <1>10 DEF vars
<1> QED
  BY <1>2, <1>3, <1>4, <1>5, <1>6, <1>7, <1>8, <1>9, <1>10 DEF Next

-----------------------------------------------------------------------------
(* The theorem.                                                             *)

\* Before the first batch nothing is mapped and every state is free.
LEMMA InitAgrees == Init => IInv
<1> SUFFICES ASSUME Init PROVE IInv
  OBVIOUS
<1>1. BatchSize \in Nat \ {0}
  BY LocalIdsAssumption
<1>2. /\ available = [i \in 1 .. BatchSize |-> i - 1] /\ lru = <<>>
      /\ local = [g \in Gids |-> NoId] /\ owner = [l \in Locals |-> NoId]
  BY DEF Init
<1>3. available \in Seq(Locals) /\ Len(available) = BatchSize
      /\ DOMAIN available = 1 .. BatchSize
  <2>1. \A i \in 1 .. BatchSize : i - 1 \in Locals
    BY <1>1 DEF Locals
  <2>2. available \in [1 .. BatchSize -> Locals]
    BY <1>2, <2>1
  <2> QED
    BY <1>1, <1>2, <2>2
<1>4. NoRepeats(available)
  BY <1>1, <1>2, <1>3 DEF NoRepeats
<1>5. \A l \in Locals : l \in Elems(available)
  <2> SUFFICES ASSUME NEW l \in Locals PROVE l \in Elems(available)
    OBVIOUS
  <2>1. l + 1 \in 1 .. BatchSize /\ (l + 1) - 1 = l
    BY <1>1 DEF Locals
  <2>2. available[l + 1] = l
    BY <1>2, <2>1
  <2> QED
    BY <1>3, <2>1, <2>2 DEF Elems
<1>6. Elems(available) \subseteq Locals
  BY <1>3, ElemsType
<1>7. Elems(available) = {l \in Locals : owner[l] = NoId}
  BY <1>2, <1>5, <1>6
<1>8. NoRepeats(lru) /\ Elems(lru) = {} /\ Len(lru) = 0
  BY <1>2 DEF NoRepeats, Elems
<1>9. Elems(lru) = {g \in Gids : local[g] # NoId}
  BY <1>2, <1>8
<1>10. Len(lru) + Len(available) = BatchSize
  BY <1>1, <1>3, <1>8
<1>11. TablesAgree
  BY <1>2, <1>4, <1>7, <1>8, <1>9, <1>10 DEF TablesAgree
<1>12. TypeOK
  BY <1>3 DEF Init, TypeOK
<1>13. MissesUnmapped /\ RowsFound
  BY DEF Init, MissesUnmapped, RowsFound
<1> QED
  BY <1>11, <1>12, <1>13 DEF IInv

\* Every step keeps the invariant.
LEMMA StepKeeps == IInv /\ [Next]_vars => IInv'
<1> SUFFICES ASSUME IInv, [Next]_vars PROVE IInv'
  OBVIOUS
<1>0. TypeOK /\ TablesAgree /\ MissesUnmapped
  BY DEF IInv
<1>1. RowsFound'
  BY RowsFoundKept
<1>2. CASE UNCHANGED mapper /\ (misses' = misses) /\ TypeOK'
  <2>1. TablesAgree' /\ MissesUnmapped'
    BY <1>0, <1>2 DEF mapper, TablesAgree, MissesUnmapped
  <2> QED
    BY <1>1, <1>2, <2>1 DEF IInv
<1>3. CASE ScheduleAny
  <2>1. UNCHANGED mapper /\ misses' = misses
    BY <1>3 DEF ScheduleAny, Schedule, lookup
  <2> QED
    BY <1>0, <1>2, <1>3, <2>1, ScheduleType
<1>4. ASSUME NEW r \in Reqs, Leave(r) PROVE IInv'
  <2>1. UNCHANGED mapper /\ misses' = misses /\ TypeOK'
    BY <1>0, <1>4 DEF Leave, TypeOK, mapper, lookup
  <2> QED
    BY <1>2, <2>1
<1>5. CASE Begin
  <2>1. UNCHANGED mapper /\ misses' = misses
    BY <1>5 DEF Begin
  <2> QED
    BY <1>2, <1>5, <2>1, LookupTypes
<1>6. CASE Lookup
  BY <1>1, <1>6, LookupTypes, TouchKeeps DEF IInv
<1>7. CASE EndLookup
  <2>1. UNCHANGED mapper /\ misses' = misses
    BY <1>7 DEF EndLookup
  <2> QED
    BY <1>2, <1>7, <2>1, LookupTypes
<1>8. CASE Fill
  <2>1. UNCHANGED mapper /\ misses' = misses
    BY <1>8 DEF Fill
  <2> QED
    BY <1>2, <1>8, <2>1, LookupTypes
<1>9. CASE Forward
  <2>1. UNCHANGED mapper /\ misses' = misses
    BY <1>9 DEF Forward
  <2> QED
    BY <1>2, <1>9, <2>1, LookupTypes
<1>10. ASSUME NEW gid \in Gids, Assign(gid) PROVE IInv'
  BY <1>1, <1>10, AssignKeeps DEF IInv
<1>11. ASSUME NEW gid \in Gids, EvictAndAssign(gid) PROVE IInv'
  BY <1>1, <1>11, EvictKeeps DEF IInv
<1>12. CASE UNCHANGED vars
  <2>1. UNCHANGED mapper /\ misses' = misses /\ TypeOK'
    BY <1>0, <1>12 DEF vars, sched, mapper, lookup, TypeOK
  <2> QED
    BY <1>2, <2>1
<1> QED
  BY <1>3, <1>4, <1>5, <1>6, <1>7, <1>8, <1>9, <1>10, <1>11, <1>12 DEF Next

\* Every reachable state has its types; in particular batch_get_local_ids leaves no
\* row without a state, in batches of any size.
THEOREM TypeCorrect == Spec => []TypeOK
<1>1. IInv => TypeOK
  BY DEF IInv
<1> QED
  BY <1>1, InitAgrees, StepKeeps, PTL DEF Spec

\* global_to_local, local_to_global, the order of use and available_local_ids agree
\* after every single change, for every number of states and every batch, larger ones
\* than the mapper holds included; popleft() and popitem() never meet an empty queue.
THEOREM TablesAgreeHolds == Spec => []TablesAgree
<1>1. IInv => TablesAgree
  BY DEF IInv
<1> QED
  BY <1>1, InitAgrees, StepKeeps, PTL DEF Spec

-----------------------------------------------------------------------------
(* The order of use.                                                        *)

\* After an element of A the sequence holds elements of S only.
LastOf(s, A, S) == \A i, j \in DOMAIN s : i < j /\ s[i] \in A => s[j] \in S

\* A new last element joins both sets.
LEMMA LastAppend ==
  ASSUME NEW T, NEW u \in Seq(T), NEW g \in T, g \notin Elems(u),
         NEW A, NEW S, NEW A2, NEW S2, LastOf(u, A, S),
         S \subseteq S2, g \in S2, A2 \subseteq A \cup {g}
  PROVE  LastOf(Append(u, g), A2, S2)
<1>1. PICK n \in Nat : n = Len(u) /\ DOMAIN u = 1 .. n
  OBVIOUS
<1>2. PICK t : t = Append(u, g)
  OBVIOUS
<1>3. /\ DOMAIN t = 1 .. n + 1 /\ t[n + 1] = g
      /\ \A i \in 1 .. n : t[i] = u[i] /\ u[i] # g
  BY <1>1, <1>2 DEF Elems
<1>4. ASSUME NEW i \in 1 .. n + 1, NEW j \in 1 .. n + 1, i < j, t[i] \in A2
      PROVE  t[j] \in S2
  <2>1. i \in 1 .. n
    BY <1>4
  <2>2. u[i] \in A
    BY <1>3, <1>4, <2>1
  <2>3. CASE j = n + 1
    BY <1>3, <2>3
  <2>4. CASE j \in 1 .. n
    <3>1. u[j] \in S
      BY <1>1, <1>4, <2>1, <2>2, <2>4 DEF LastOf
    <3> QED
      BY <1>3, <2>4, <3>1
  <2> QED
    BY <2>3, <2>4
<1> QED
  BY <1>2, <1>3, <1>4 DEF LastOf

\* Taking an element out keeps the order of the others.
LEMMA LastWithout ==
  ASSUME NEW T, NEW s \in Seq(T), NoRepeats(s), NEW g \in Elems(s),
         NEW A, NEW S, LastOf(s, A, S)
  PROVE  LastOf(Without(s, g), A, S)
<1>1. PICK p \in 1 .. Len(s) : s[p] = g
  BY DEF Elems
<1>2. PICK n \in Nat : n = Len(s) /\ DOMAIN s = 1 .. n
  OBVIOUS
<1>3. PICK t \in Seq(T) : t = Without(s, g)
  BY WithoutElems
<1>4. /\ Len(t) = n - 1 /\ DOMAIN t = 1 .. n - 1
      /\ \A j \in 1 .. n - 1 : t[j] = IF j < p THEN s[j] ELSE s[j + 1]
  <2>1. /\ Len(Without(s, s[p])) = Len(s) - 1
        /\ \A j \in 1 .. Len(s) - 1 :
             Without(s, s[p])[j] = IF j < p THEN s[j] ELSE s[j + 1]
    BY WithoutAt
  <2>2. t = Without(s, s[p]) /\ Len(s) = n
    BY <1>1, <1>2, <1>3
  <2>3. /\ Len(t) = n - 1
        /\ \A j \in 1 .. n - 1 : t[j] = IF j < p THEN s[j] ELSE s[j + 1]
    BY <2>1, <2>2
  <2>4. DOMAIN t = 1 .. Len(t)
    OBVIOUS
  <2> QED
    BY <2>3, <2>4
<1>5. ASSUME NEW i \in 1 .. n - 1, NEW j \in 1 .. n - 1, i < j, t[i] \in A
      PROVE  t[j] \in S
  <2> DEFINE a == IF i < p THEN i ELSE i + 1
  <2> DEFINE c == IF j < p THEN j ELSE j + 1
  <2>1. a \in 1 .. n /\ c \in 1 .. n /\ a < c
    BY <1>2, <1>5
  <2>2. t[i] = s[a] /\ t[j] = s[c]
    BY <1>4
  <2> QED
    BY <1>2, <1>5, <2>1, <2>2 DEF LastOf
<1> QED
  BY <1>3, <1>4, <1>5 DEF LastOf

\* Dropping the head does, too.
LEMMA LastTail ==
  ASSUME NEW T, NEW s \in Seq(T), s # <<>>, NEW A, NEW S, LastOf(s, A, S)
  PROVE  LastOf(Tail(s), A, S)
<1>1. PICK n \in Nat : n = Len(s) /\ DOMAIN s = 1 .. n /\ n > 0
  OBVIOUS
<1>2. PICK t : t = Tail(s)
  OBVIOUS
<1>3. DOMAIN t = 1 .. n - 1 /\ \A j \in 1 .. n - 1 : t[j] = s[j + 1]
  BY <1>1, <1>2
<1>4. ASSUME NEW i \in 1 .. n - 1, NEW j \in 1 .. n - 1, i < j, t[i] \in A
      PROVE  t[j] \in S
  <2>1. i + 1 \in 1 .. n /\ j + 1 \in 1 .. n /\ i + 1 < j + 1
    BY <1>1, <1>4
  <2> QED
    BY <1>1, <1>3, <1>4, <2>1 DEF LastOf
<1> QED
  BY <1>2, <1>3, <1>4 DEF LastOf

\* A sequence longer than S cannot begin with an element of A.
LEMMA HeadOutside ==
  ASSUME NEW T, NEW s \in Seq(T), s # <<>>, NoRepeats(s),
         NEW A, NEW S, A \subseteq S, LastOf(s, A, S),
         IsFiniteSet(S), Cardinality(S) < Len(s)
  PROVE  Head(s) \notin A
<1> SUFFICES ASSUME Head(s) \in A PROVE FALSE
  OBVIOUS
<1>1. PICK n \in Nat : n = Len(s) /\ DOMAIN s = 1 .. n /\ n > 0 /\ Head(s) = s[1]
  OBVIOUS
<1>2. \A j \in 1 .. n : s[j] \in S
  <2> SUFFICES ASSUME NEW j \in 1 .. n PROVE s[j] \in S
    OBVIOUS
  <2>1. CASE j = 1
    BY <1>1, <2>1
  <2>2. CASE j > 1
    BY <1>1, <2>2 DEF LastOf
  <2> QED
    BY <2>1, <2>2
<1>3. s \in [1 .. n -> S]
  BY <1>1, <1>2
<1>4. s \in Injection(1 .. n, S)
  BY <1>1, <1>3 DEF Injection, IsInjective, NoRepeats
<1>5. Cardinality(1 .. n) <= Cardinality(S)
  BY <1>4, FS_Injection
<1>6. Cardinality(1 .. n) = n
  <2>1. 1 \in Int /\ n \in Int
    OBVIOUS
  <2>2. Cardinality(1 .. n) = IF 1 > n THEN 0 ELSE n - 1 + 1
    BY <2>1, FS_Interval
  <2>3. n > 0
    BY <1>1
  <2> QED
    BY <2>2, <2>3
<1>7. Cardinality(S) \in Nat
  BY FS_CardinalityType
<1> QED
  BY <1>1, <1>5, <1>6, <1>7

-----------------------------------------------------------------------------
(* Rows of different blocks never share a state.                            *)

\* There is a state for every running request, and one more for the padding.
Roomy == MaxNumSeqs <= BatchSize /\ (PadsBatches => MaxNumSeqs < BatchSize)

\* The blocks of the current batch that pass 1 has come to.
Used == {rows[i].gid : i \in 1 .. Len(ids)}

\* No batch is larger than the mapper.
Small == Len(rows) <= BatchSize /\ \A k \in 1 .. Len(queue) : Len(queue[k]) <= BatchSize

\* Between two lookups nothing is left of unique_miss_set and new_mappings.
Clear ==
  pc \in {"idle", "forward"} => misses = {} /\ \A g \in Gids : newMap[g] = NoId

\* What a lookup has found or placed so far is still true: nothing of the
\* current batch was evicted since.
StillThere ==
  /\ \A i \in 1 .. Len(ids) : ids[i] # NoId => local[rows[i].gid] = ids[i]
  /\ \A g \in Gids : newMap[g] # NoId => local[g] = newMap[g] /\ g \in Used
  /\ misses \subseteq Used

\* The blocks of the current batch are the most recently used ones.
UsedLast == LastOf(lru, Used, Used)

RowsInv == /\ Small /\ Clear /\ (pc = "idle" => rows = <<>> /\ ids = <<>>)
           /\ StillThere /\ UsedLast

\* The rows of a batch are no more than the running requests and the padding.
LEMMA ScheduleSmall ==
  ASSUME Roomy, TypeOK, Small, ScheduleAny
  PROVE  Small'
<1>1. PICK new \in SUBSET waiting, old \in SUBSET Running :
        \E ends \in SUBSET (new \cup old), b \in [new -> Blocks],
           order \in Orders(new \cup old) : Schedule(new, old, ends, b, order)
  BY DEF ScheduleAny
<1>2. PICK ends \in SUBSET (new \cup old), b \in [new -> Blocks], order \in Orders(new \cup old) :
        Schedule(new, old, ends, b, order)
  BY <1>1
<1>3. PICK c \in Nat : c = Cardinality(new \cup old) /\ c <= MaxNumSeqs
  <2>1. Running \cup new \subseteq Reqs /\ new \cup old \subseteq Running \cup new
    BY DEF TypeOK, Running
  <2>2. IsFiniteSet(Running \cup new)
    BY <2>1, LocalIdsAssumption, FS_Subset
  <2>3. /\ IsFiniteSet(new \cup old)
        /\ Cardinality(new \cup old) <= Cardinality(Running \cup new)
    BY <2>1, <2>2, FS_Subset
  <2>4. Cardinality(new \cup old) \in Nat /\ Cardinality(Running \cup new) \in Nat
    BY <2>2, <2>3, FS_CardinalityType
  <2>5. Cardinality(Running \cup new) <= MaxNumSeqs
    BY <1>2 DEF Schedule
  <2> QED
    BY <2>3, <2>4, <2>5, LocalIdsAssumption
<1>4. DOMAIN order = 1 .. c
  BY <1>3 DEF Orders
<1> DEFINE batch == [i \in DOMAIN order |->
                       [gid |-> block'[order[i]], req |-> order[i], fresh |-> order[i] \in new]]
<1>5. /\ rows' = rows
      /\ \/ queue' = Append(queue, batch)
         \/ PadsBatches /\ queue' = Append(queue, Append(batch, PadRow))
  BY <1>2 DEF Schedule, lookup
<1>6. Len(batch) = c /\ Len(Append(batch, PadRow)) = c + 1
  BY <1>3, <1>4
<1> HIDE DEF batch
<1>7. PICK last : /\ queue' = Append(queue, last) /\ Len(last) <= BatchSize
  <2>1. c <= BatchSize /\ (PadsBatches => c + 1 <= BatchSize)
    BY <1>3, LocalIdsAssumption DEF Roomy
  <2>2. /\ Len(batch) <= BatchSize
        /\ PadsBatches => Len(Append(batch, PadRow)) <= BatchSize
    BY <1>6, <2>1
  <2> QED
    BY <1>5, <2>2, Zenon
<1>8. PICK n \in Nat : n = Len(queue)
  BY DEF TypeOK
<1>9. /\ Len(queue') = n + 1 /\ queue'[n + 1] = last
      /\ \A k \in 1 .. n : queue'[k] = queue[k]
  BY <1>7, <1>8 DEF TypeOK
<1> QED
  BY <1>5, <1>7, <1>8, <1>9 DEF Small

\* Taking the next batch starts with nothing used.
LEMMA BeginRows ==
  ASSUME IInv, RowsInv, Begin
  PROVE  RowsInv'
<1>1. /\ pc = "idle" /\ pc' = "hits" /\ ids' = <<>> /\ queue # <<>>
      /\ rows' = Head(queue) /\ queue' = Tail(queue)
      /\ UNCHANGED <<misses, newMap, lru, local>>
  BY DEF Begin, mapper
<1>2. queue \in Seq(Seq(Row))
  BY DEF IInv, TypeOK
<1>3. Small'
  <2>1. PICK n \in Nat : n = Len(queue) /\ n > 0
    BY <1>1, <1>2
  <2>2. /\ rows' = queue[1] /\ Len(queue') = n - 1
        /\ \A k \in 1 .. n - 1 : queue'[k] = queue[k + 1]
    BY <1>1, <1>2, <2>1
  <2>3. \A k \in 1 .. n - 1 : k + 1 \in 1 .. n
    BY <2>1
  <2> QED
    BY <2>1, <2>2, <2>3 DEF RowsInv, Small
<1>4. Used' = {} /\ Len(ids') = 0
  BY <1>1 DEF Used
<1>5. misses = {} /\ \A g \in Gids : newMap[g] = NoId
  BY <1>1 DEF RowsInv, Clear
<1> QED
  BY <1>1, <1>3, <1>4, <1>5 DEF RowsInv, Clear, StillThere, UsedLast, LastOf

\* Pass 1 moves the blocks it finds behind all others.
LEMMA LookupRows ==
  ASSUME IInv, RowsInv, Lookup
  PROVE  RowsInv'
<1>1. PICK n \in Nat : n = Len(ids) /\ n < Len(rows)
  BY DEF IInv, TypeOK, Lookup
<1>2. PICK gid \in Gids : gid = rows[n + 1].gid
  <2>1. rows[n + 1] \in Row
    BY <1>1 DEF IInv, TypeOK
  <2> QED
    BY <2>1 DEF Row
<1>3. /\ pc = "hits" /\ ids' = Append(ids, local[gid])
      /\ lru' = IF local[gid] # NoId THEN Touched(gid) ELSE lru
      /\ misses' = IF local[gid] # NoId THEN misses ELSE misses \cup {gid}
      /\ UNCHANGED <<queue, pc, rows, newMap, local>>
  BY <1>1, <1>2 DEF Lookup, sched
<1>4. /\ Len(ids') = n + 1 /\ ids'[n + 1] = local[gid]
      /\ \A i \in 1 .. n : ids'[i] = ids[i]
  BY <1>1, <1>3 DEF IInv, TypeOK
<1>5. Used' = Used \cup {gid}
  <2>1. \A x : x \in Used' <=> \E i \in 1 .. n + 1 : x = rows[i].gid
    BY <1>3, <1>4 DEF Used
  <2>2. \A x : x \in Used <=> \E i \in 1 .. n : x = rows[i].gid
    BY <1>1 DEF Used
  <2>3. \A i \in 1 .. n + 1 : i \in 1 .. n \/ i = n + 1
    OBVIOUS
  <2>4. n + 1 \in 1 .. n + 1 /\ \A i \in 1 .. n : i \in 1 .. n + 1
    OBVIOUS
  <2> QED
    BY <1>2, <2>1, <2>2, <2>3, <2>4
<1>6. StillThere'
  <2>1. \A i \in 1 .. n + 1 : ids'[i] # NoId => local[rows[i].gid] = ids'[i]
    BY <1>1, <1>2, <1>4 DEF RowsInv, StillThere
  <2> QED
    BY <1>3, <1>4, <1>5, <2>1 DEF RowsInv, StillThere
<1>7. UsedLast'
  <2>1. /\ lru \in Seq(Gids) /\ NoRepeats(lru) /\ LastOf(lru, Used, Used)
        /\ Elems(lru) = {g \in Gids : local[g] # NoId}
    BY DEF IInv, TypeOK, TablesAgree, RowsInv, UsedLast
  <2>2. CASE local[gid] # NoId
    <3>1. PICK w \in Seq(Gids) : w = Without(lru, gid) /\ gid \notin Elems(w)
      BY <2>1, WithoutElems
    <3>2. LastOf(w, Used, Used)
      BY <2>1, <2>2, <3>1, LastWithout
    <3>3. LastOf(Append(w, gid), Used \cup {gid}, Used \cup {gid})
      BY <3>1, <3>2, LastAppend
    <3> QED
      BY <1>3, <1>5, <2>2, <3>1, <3>3 DEF UsedLast, Touched
  <2>3. CASE local[gid] = NoId
    <3>1. \A i \in DOMAIN lru : lru[i] # gid
      BY <2>1, <2>3 DEF Elems
    <3> QED
      BY <1>3, <1>5, <2>1, <2>3, <3>1 DEF UsedLast, LastOf
  <2> QED
    BY <2>2, <2>3
<1> QED
  BY <1>3, <1>6, <1>7 DEF RowsInv, Small, Clear

\* Pass 2 evicts no block of the current batch: the batch is not larger than
\* the mapper, and one of its blocks is not in it yet.
LEMMA EvictedUnused ==
  ASSUME IInv, RowsInv, NEW gid \in Gids, EvictAndAssign(gid)
  PROVE  Head(lru) \notin Used
<1>1. /\ lru \in Seq(Gids) /\ NoRepeats(lru) /\ LastOf(lru, Used, Used)
      /\ Elems(lru) = {g \in Gids : local[g] # NoId}
      /\ Len(lru) >= BatchSize /\ BatchSize \in Nat \ {0} /\ Len(lru) \in Nat
      /\ gid \in misses /\ pc = "misses"
  BY LocalIdsAssumption DEF IInv, TypeOK, TablesAgree, RowsInv, UsedLast,
     EvictAndAssign
<1>2. lru # <<>>
  BY <1>1
<1>3. gid \notin Elems(lru) /\ gid \in Used
  BY <1>1 DEF IInv, MissesUnmapped, RowsInv, StillThere
<1> DEFINE S == Used \ {gid}
<1>4. IsFiniteSet(S) /\ Cardinality(S) < Len(lru)
  <2>1. PICK n \in Nat : n = Len(rows) /\ n = Len(ids) /\ n <= BatchSize
    BY <1>1 DEF IInv, TypeOK, RowsFound, RowsInv, Small
  <2> DEFINE f == [i \in 1 .. n |-> rows[i].gid]
  <2>2. f \in Surjection(1 .. n, Used)
    BY <2>1 DEF Surjection, Used
  <2>3. 1 \in Int /\ n \in Int
    OBVIOUS
  <2>4. IsFiniteSet(1 .. n) /\ Cardinality(1 .. n) = IF 1 > n THEN 0 ELSE n - 1 + 1
    BY <2>3, FS_Interval
  <2>5. IsFiniteSet(Used) /\ Cardinality(Used) <= Cardinality(1 .. n)
    BY <2>2, <2>4, FS_Surjection
  <2>6. IsFiniteSet(S) /\ Cardinality(S) = Cardinality(Used) - 1
    BY <1>3, <2>5, FS_RemoveElement
  <2>7. Cardinality(Used) \in Nat
    BY <2>5, FS_CardinalityType
  <2>8. Cardinality(1 .. n) = n
    BY <2>4
  <2> QED
    BY <1>1, <2>1, <2>5, <2>6, <2>7, <2>8
<1>5. LastOf(lru, S, S)
  BY <1>1, <1>3 DEF LastOf, Elems
<1>6. Head(lru) \notin S
  <2> HIDE DEF S
  <2> QED
    BY <1>1, <1>2, <1>4, <1>5, HeadOutside
<1>7. Head(lru) # gid
  BY <1>1, <1>2, <1>3, TailElems
<1> QED
  BY <1>6, <1>7

\* What placing a block does to the rest: it becomes the last in use, and
\* only the evicted block loses its state.
LEMMA PlaceEffect ==
  ASSUME IInv, NEW gid \in Gids, Assign(gid) \/ EvictAndAssign(gid)
  PROVE  \E l \in Locals, u \in Seq(Gids) :
           /\ l # NoId /\ local'[gid] = l
           /\ newMap' = [newMap EXCEPT ![gid] = l]
           /\ lru' = Append(u, gid) /\ gid \notin Elems(u)
           /\ \/ Assign(gid) /\ u = lru
              \/ EvictAndAssign(gid) /\ u = Tail(lru) /\ lru # <<>>
           /\ \A g \in Gids \ {gid} :
                local'[g] = local[g] \/ (EvictAndAssign(gid) /\ g = Head(lru))
<1>1. /\ lru \in Seq(Gids) /\ NoRepeats(lru) /\ available \in Seq(Locals)
      /\ local \in [Gids -> Locals \cup {NoId}] /\ newMap \in [Gids -> Locals \cup {NoId}]
      /\ Elems(lru) = {g \in Gids : local[g] # NoId}
      /\ Len(lru) + Len(available) = BatchSize /\ BatchSize \in Nat \ {0}
  BY LocalIdsAssumption DEF IInv, TypeOK, TablesAgree
<1>2. gid \notin Elems(lru)
  BY <1>1 DEF IInv, MissesUnmapped, Assign, EvictAndAssign
<1>3. CASE Assign(gid)
  <2>1. available # <<>>
    BY <1>1, <1>3 DEF Assign
  <2>2. PICK l \in Locals : l = Head(available)
    BY <1>1, <2>1
  <2>3. l # NoId
    BY LocalIdsAssumption
  <2>4. /\ local' = [local EXCEPT ![gid] = l] /\ newMap' = [newMap EXCEPT ![gid] = l]
        /\ lru' = Append(lru, gid)
    BY <1>3, <2>2 DEF Assign
  <2>5. local'[gid] = l /\ \A g \in Gids \ {gid} : local'[g] = local[g]
    BY <1>1, <2>4
  <2> QED
    BY <1>1, <1>2, <1>3, <2>3, <2>4, <2>5
<1>4. CASE EvictAndAssign(gid)
  <2>1. /\ lru # <<>> /\ Len(available) = 0
    BY <1>1, <1>4 DEF EvictAndAssign
  <2>2. PICK old \in Elems(lru) : old = Head(lru)
    BY <1>1, <2>1, TailElems
  <2>3. PICK l \in Locals : l = local[old]
    BY <1>1, <2>2
  <2>4. available = <<>>
    BY <1>1, <2>1
  <2>5. Head(Append(available, l)) = l
    BY <2>4
  <2>6. /\ local' = [[local EXCEPT ![old] = NoId] EXCEPT ![gid] = l]
        /\ newMap' = [newMap EXCEPT ![gid] = l] /\ lru' = Append(Tail(lru), gid)
    BY <1>4, <2>2, <2>3, <2>5 DEF EvictAndAssign, Forgotten
  <2>7. local'[gid] = l /\ \A g \in Gids \ {gid} : local'[g] = local[g] \/ g = Head(lru)
    BY <1>1, <2>2, <2>6
  <2>8. Tail(lru) \in Seq(Gids) /\ gid \notin Elems(Tail(lru))
    BY <1>1, <1>2, <2>1, TailElems
  <2>9. l # NoId
    BY LocalIdsAssumption
  <2> QED
    BY <1>4, <2>1, <2>6, <2>7, <2>8, <2>9
<1> QED
  BY <1>3, <1>4

\* Placing a block disturbs no other block of the batch.
LEMMA PlaceRows ==
  ASSUME IInv, RowsInv, NEW gid \in Gids, Assign(gid) \/ EvictAndAssign(gid)
  PROVE  RowsInv'
<1>1. /\ pc = "misses" /\ gid \in misses /\ misses' = misses \ {gid}
      /\ UNCHANGED <<queue, pc, rows, ids>>
  BY DEF Assign, EvictAndAssign, sched
<1>2. PICK l \in Locals, u \in Seq(Gids) :
        /\ l # NoId /\ local'[gid] = l
        /\ newMap' = [newMap EXCEPT ![gid] = l]
        /\ lru' = Append(u, gid) /\ gid \notin Elems(u)
        /\ \/ Assign(gid) /\ u = lru
           \/ EvictAndAssign(gid) /\ u = Tail(lru) /\ lru # <<>>
        /\ \A g \in Gids \ {gid} :
             local'[g] = local[g] \/ (EvictAndAssign(gid) /\ g = Head(lru))
  BY PlaceEffect
<1>3. Used' = Used /\ gid \in Used /\ local[gid] = NoId
  BY <1>1 DEF Used, RowsInv, StillThere, IInv, MissesUnmapped
<1>4. \A g \in Gids : g \in Used /\ g # gid => local'[g] = local[g]
  BY <1>2, EvictedUnused
<1>5. \A i \in 1 .. Len(ids) : rows[i].gid \in Gids /\ rows[i].gid \in Used
  <2>1. \A i \in 1 .. Len(ids) : rows[i] \in Row
    BY <1>1 DEF IInv, TypeOK, RowsFound
  <2> QED
    BY <2>1 DEF Row, Used
<1>6. StillThere'
  <2>1. ASSUME NEW i \in 1 .. Len(ids), ids[i] # NoId
        PROVE  local'[rows[i].gid] = ids[i]
    BY <1>3, <1>4, <1>5, <2>1 DEF RowsInv, StillThere
  <2>2. ASSUME NEW g \in Gids, newMap'[g] # NoId
        PROVE  local'[g] = newMap'[g] /\ g \in Used
    <3>1. newMap \in [Gids -> Locals \cup {NoId}]
      BY DEF IInv, TypeOK
    <3>2. CASE g = gid
      BY <1>2, <1>3, <3>1, <3>2
    <3>3. CASE g # gid
      <4>1. newMap'[g] = newMap[g]
        BY <1>2, <3>1, <3>3
      <4> QED
        BY <1>4, <2>2, <3>3, <4>1 DEF RowsInv, StillThere
    <3> QED
      BY <3>2, <3>3
  <2>3. misses' \subseteq Used
    BY <1>1 DEF RowsInv, StillThere
  <2> QED
    BY <1>1, <1>3, <2>1, <2>2, <2>3 DEF StillThere
<1>7. UsedLast'
  <2>1. lru \in Seq(Gids) /\ LastOf(lru, Used, Used)
    BY DEF IInv, TypeOK, RowsInv, UsedLast
  <2>2. LastOf(u, Used, Used)
    BY <1>2, <2>1, LastTail
  <2>3. LastOf(Append(u, gid), Used, Used)
    BY <1>2, <1>3, <2>2, LastAppend
  <2> QED
    BY <1>2, <1>3, <2>3 DEF UsedLast
<1> QED
  BY <1>1, <1>6, <1>7 DEF RowsInv, Small, Clear

\* Pass 3 gives a row that missed the state its block has by then.
LEMMA FillRows ==
  ASSUME IInv, RowsInv, Fill
  PROVE  RowsInv'
<1>1. /\ pc = "misses" /\ pc' = "forward" /\ misses = {} /\ misses' = {}
      /\ newMap' = [g \in Gids |-> NoId] /\ ids' = [i \in DOMAIN rows |-> Filled(i)]
      /\ UNCHANGED <<queue, rows, local, lru>>
  BY DEF Fill, sched, mapper
<1>2. PICK n \in Nat : n = Len(rows) /\ n = Len(ids) /\ DOMAIN rows = 1 .. n
  BY <1>1 DEF IInv, TypeOK, RowsFound
<1>3. Len(ids') = n /\ \A i \in 1 .. n : ids'[i] = Filled(i)
  BY <1>1, <1>2
<1>4. Used' = Used
  BY <1>1, <1>2, <1>3 DEF Used
<1>5. ASSUME NEW i \in 1 .. n, ids'[i] # NoId PROVE local[rows[i].gid] = ids'[i]
  <2>1. rows[i] \in Row
    BY <1>2 DEF IInv, TypeOK
  <2>2. rows[i].gid \in Gids
    BY <2>1 DEF Row
  <2>3. CASE ids[i] # NoId
    BY <1>2, <1>3, <2>3 DEF Filled, RowsInv, StillThere
  <2>4. CASE ids[i] = NoId
    BY <1>3, <1>5, <2>2, <2>4 DEF Filled, RowsInv, StillThere
  <2> QED
    BY <2>3, <2>4
<1>6. StillThere'
  BY <1>1, <1>3, <1>4, <1>5 DEF StillThere
<1>7. UsedLast'
  BY <1>1, <1>4 DEF RowsInv, UsedLast
<1> QED
  BY <1>1, <1>6, <1>7 DEF RowsInv, Small, Clear

\* Every step keeps the blocks of the current batch in the mapper.
LEMMA RowsKept ==
  ASSUME Roomy, IInv, RowsInv, [Next]_vars
  PROVE  RowsInv'
<1>1. ASSUME UNCHANGED <<lookup, mapper>>, Small' PROVE RowsInv'
  BY <1>1 DEF lookup, mapper, RowsInv, Clear, StillThere, UsedLast, Used
<1>2. CASE ScheduleAny
  <2>1. UNCHANGED <<lookup, mapper>>
    BY <1>2 DEF ScheduleAny, Schedule
  <2>2. Small'
    BY <1>2, ScheduleSmall DEF IInv, RowsInv
  <2> QED
    BY <1>1, <2>1, <2>2
<1>3. CASE UNCHANGED <<queue, lookup, mapper>>
  <2>1. Small'
    BY <1>3 DEF RowsInv, Small, lookup
  <2> QED
    BY <1>1, <1>3, <2>1
<1>4. ASSUME NEW r \in Reqs, Leave(r) PROVE RowsInv'
  BY <1>3, <1>4 DEF Leave
<1>5. CASE EndLookup
  <2>1. /\ pc' = "misses" /\ UNCHANGED <<queue, rows, ids, misses, newMap, local, lru>>
    BY <1>5 DEF EndLookup, sched, mapper
  <2>2. Used' = Used /\ Small' /\ StillThere'
    BY <2>1 DEF RowsInv, Small, StillThere, Used
  <2> QED
    BY <2>1, <2>2 DEF RowsInv, Clear, UsedLast
<1>6. CASE Forward
  <2>1. /\ pc = "forward" /\ pc' = "idle" /\ rows' = <<>> /\ ids' = <<>>
        /\ UNCHANGED <<queue, misses, newMap, local, lru>>
    BY <1>6 DEF Forward, sched, mapper
  <2>2. Used' = {} /\ Len(ids') = 0 /\ Len(rows') = 0
    BY <2>1 DEF Used
  <2>3. Small'
    BY <2>1, <2>2, LocalIdsAssumption DEF RowsInv, Small
  <2>4. misses = {} /\ \A g \in Gids : newMap[g] = NoId
    BY <2>1 DEF RowsInv, Clear
  <2> QED
    BY <2>1, <2>2, <2>3, <2>4 DEF RowsInv, Clear, StillThere, UsedLast, LastOf
<1>7. CASE UNCHANGED vars
  BY <1>3, <1>7 DEF vars, sched
<1> QED
  BY <1>2, <1>4, <1>5, <1>6, <1>7, BeginRows, LookupRows, FillRows, PlaceRows
     DEF Next

\* No batch, no use and nothing to place in the beginning.
LEMMA InitRows == Init => RowsInv
<1> SUFFICES ASSUME Init PROVE RowsInv
  OBVIOUS
<1>1. Len(rows) = 0 /\ Len(queue) = 0 /\ Len(ids) = 0
  BY DEF Init
<1>2. Used = {} /\ DOMAIN lru = {}
  BY <1>1 DEF Init, Used
<1> QED
  BY <1>1, <1>2, LocalIdsAssumption DEF Init, RowsInv, Small, Clear, StillThere,
     UsedLast, LastOf

\* By the forward pass every row has the state of its block.
LEMMA RowsPlaced ==
  ASSUME IInv, RowsInv, pc = "forward"
  PROVE  /\ DOMAIN ids = DOMAIN rows
         /\ \A i \in DOMAIN rows :
              /\ rows[i].gid \in Gids /\ ids[i] \in Locals
              /\ local[rows[i].gid] = ids[i] /\ owner[ids[i]] = rows[i].gid
<1>1. PICK n \in Nat : n = Len(rows) /\ n = Len(ids) /\ DOMAIN rows = 1 .. n
                       /\ DOMAIN ids = 1 .. n
  BY DEF IInv, TypeOK
<1>2. ASSUME NEW i \in 1 .. n
      PROVE  /\ rows[i].gid \in Gids /\ ids[i] \in Locals
             /\ local[rows[i].gid] = ids[i] /\ owner[ids[i]] = rows[i].gid
  <2>1. rows[i] \in Row /\ ids[i] \in Locals
    BY <1>1 DEF IInv, TypeOK
  <2>2. rows[i].gid \in Gids /\ ids[i] # NoId
    BY <2>1, LocalIdsAssumption DEF Row
  <2> QED
    BY <1>1, <2>1, <2>2 DEF RowsInv, StillThere, IInv, TablesAgree
<1> QED
  BY <1>1, <1>2

\* Rows of different blocks never share a state, for every number of requests,
\* blocks and states that leaves a state for the padding: the least recently used
\* block is never one of the batch (batch_get_local_ids).
THEOREM RowsApartHolds == Roomy => (Spec => []RowsApart)
<1> SUFFICES ASSUME Roomy PROVE Spec => []RowsApart
  OBVIOUS
<1>1. IInv /\ RowsInv => RowsApart
  BY RowsPlaced DEF RowsApart
<1>2. IInv /\ RowsInv /\ [Next]_vars => IInv' /\ RowsInv'
  BY StepKeeps, RowsKept
<1> QED
  BY <1>1, <1>2, InitAgrees, InitRows, PTL DEF Spec

-----------------------------------------------------------------------------
(* A request that goes on finds its own state.                              *)

\* A table f says which block a request had when a batch was scheduled, of those
\* that could have rows in it and in later ones.
Holders(f) == {r \in Reqs : f[r] # NoId}
BlocksOf(f) == {f[r] : r \in Holders(f)}

\* No two requests held the same block, and no more ran than may run.
Sound(f) ==
  /\ f \in [Reqs -> Blocks \cup {NoId}]
  /\ \A r, q \in Holders(f) : f[r] = f[q] => r = q
  /\ Cardinality(Holders(f)) <= MaxNumSeqs

\* The rows of a batch name the blocks their requests hold; the others pad.
Fits(batch, f) ==
  \A i \in DOMAIN batch :
    IF batch[i].req = NoReq THEN batch[i].gid = Pad /\ PadsBatches
                            ELSE f[batch[i].req] = batch[i].gid

\* A batch that admits requests.  It holds a row of every holder.
Admits(batch) == \E i \in DOMAIN batch : batch[i].fresh
Whole(batch, f) == \A r \in Holders(f) : \E i \in DOMAIN batch : batch[i].req = r

\* The requests a batch goes on with held their blocks before.
GoesOn(batch, f) ==
  \A i \in DOMAIN batch :
    batch[i].req # NoReq /\ ~batch[i].fresh => f[batch[i].req] = batch[i].gid

\* All holders have their states, and behind their blocks only the padding
\* was used.
Settled(f) ==
  /\ \A r \in Holders(f) : local[f[r]] # NoId /\ state[local[f[r]]] = r
  /\ LastOf(lru, BlocksOf(f), BlocksOf(f) \cup {Pad})

\* The worker has started its batch, which admits requests, or works with
\* those of the last batch that did.
AtWorker(f) ==
  /\ Fits(rows, f)
  /\ IF Admits(rows) THEN Whole(rows, f) ELSE Settled(f)

\* F[k] is the table after the first k batches of the queue; it changes with
\* a batch that admits requests, and ends with those that may have more rows.
History(F) ==
  /\ F \in [0 .. Len(queue) -> [Reqs -> Blocks \cup {NoId}]]
  /\ \A k \in 0 .. Len(queue) : Sound(F[k])
  /\ \A k \in 1 .. Len(queue) :
       /\ Fits(queue[k], F[k]) /\ GoesOn(queue[k], F[k - 1])
       /\ IF Admits(queue[k]) THEN Whole(queue[k], F[k]) ELSE F[k] = F[k - 1]
  /\ \A r \in Running \ spent : F[Len(queue)][r] = block[r]

\* Rows that go on with a request have its state, before and after the
\* lookup.
RowsOwn ==
  \A i \in DOMAIN rows :
    rows[i].req # NoReq /\ ~rows[i].fresh =>
      local[rows[i].gid] # NoId /\ state[local[rows[i].gid]] = rows[i].req

Owned == /\ \E F : History(F) /\ AtWorker(F[0])
         /\ RowsOwn

\* A row of the current batch pads or belongs to a holder.
LEMMA RowOf ==
  ASSUME IInv, NEW f, Sound(f), Fits(rows, f), NEW i \in DOMAIN rows
  PROVE  /\ rows[i].gid \in Gids
         /\ \/ rows[i].req = NoReq /\ rows[i].gid = Pad /\ PadsBatches
            \/ /\ rows[i].req \in Holders(f) /\ rows[i].gid \in Blocks
               /\ f[rows[i].req] = rows[i].gid /\ rows[i].req # NoReq
<1>1. rows[i] \in Row
  BY DEF IInv, TypeOK
<1>2. rows[i].gid \in Gids /\ rows[i].req \in Reqs \cup {NoReq}
  BY <1>1 DEF Row
<1> QED
  BY <1>2, LocalIdsAssumption DEF Fits, Sound, Holders, Gids

\* A hit of a batch without new requests leaves everything settled.
LEMMA LookupSettled ==
  ASSUME IInv, NEW f, Sound(f), Fits(rows, f), Settled(f), Lookup
  PROVE  Settled(f)'
<1>1. PICK n \in Nat : n = Len(ids) /\ n + 1 \in DOMAIN rows
  BY DEF IInv, TypeOK, Lookup
<1>2. PICK gid \in Gids : gid = rows[n + 1].gid /\ gid \in BlocksOf(f) \cup {Pad}
  BY <1>1, RowOf DEF BlocksOf
<1>3. /\ lru' = IF local[gid] # NoId THEN Touched(gid) ELSE lru
      /\ UNCHANGED <<local, state>>
  BY <1>1, <1>2 DEF Lookup
<1>4. /\ lru \in Seq(Gids) /\ NoRepeats(lru)
      /\ Elems(lru) = {g \in Gids : local[g] # NoId}
      /\ LastOf(lru, BlocksOf(f), BlocksOf(f) \cup {Pad})
  BY DEF IInv, TypeOK, TablesAgree, Settled
<1>5. CASE local[gid] # NoId
  <2>1. PICK w \in Seq(Gids) : w = Without(lru, gid) /\ gid \notin Elems(w)
    BY <1>4, WithoutElems
  <2>2. LastOf(w, BlocksOf(f), BlocksOf(f) \cup {Pad})
    BY <1>4, <1>5, <2>1, LastWithout
  <2>3. LastOf(Append(w, gid), BlocksOf(f), BlocksOf(f) \cup {Pad})
    BY <1>2, <2>1, <2>2, LastAppend
  <2> QED
    BY <1>3, <1>5, <2>1, <2>3 DEF Settled, Touched, BlocksOf, Holders
<1>6. CASE local[gid] = NoId
  BY <1>3, <1>6 DEF Settled, BlocksOf, Holders
<1> QED
  BY <1>5, <1>6

\* In a batch without new requests only the padding can miss, and it evicts
\* a block that no holder has.
LEMMA PlaceSettled ==
  ASSUME Roomy, IInv, RowsInv, NEW f, Sound(f), Fits(rows, f), Settled(f),
         NEW gid \in Gids, Assign(gid) \/ EvictAndAssign(gid)
  PROVE  Settled(f)'
<1>1. PICK l \in Locals, u \in Seq(Gids) :
        /\ l # NoId /\ local'[gid] = l
        /\ lru' = Append(u, gid) /\ gid \notin Elems(u)
        /\ \/ Assign(gid) /\ u = lru
           \/ EvictAndAssign(gid) /\ u = Tail(lru) /\ lru # <<>>
        /\ \A g \in Gids \ {gid} :
             local'[g] = local[g] \/ (EvictAndAssign(gid) /\ g = Head(lru))
  BY PlaceEffect
<1>2. /\ pc = "misses" /\ gid \in misses /\ state' = state
      /\ local[gid] = NoId /\ gid \in Used
  BY DEF Assign, EvictAndAssign, IInv, MissesUnmapped, RowsInv, StillThere
<1>3. PICK i \in DOMAIN rows : gid = rows[i].gid
  <2>1. DOMAIN rows = 1 .. Len(rows) /\ Len(ids) = Len(rows)
    BY <1>2 DEF IInv, TypeOK, RowsFound
  <2> QED
    BY <1>2, <2>1 DEF Used
<1>4. gid = Pad /\ PadsBatches
  BY <1>2, <1>3, RowOf DEF Settled
<1>5. /\ lru \in Seq(Gids) /\ NoRepeats(lru)
      /\ Elems(lru) = {g \in Gids : local[g] # NoId}
      /\ LastOf(lru, BlocksOf(f), BlocksOf(f) \cup {Pad})
  BY DEF IInv, TypeOK, TablesAgree, Settled
<1>6. BlocksOf(f) \subseteq Blocks /\ BlocksOf(f) \subseteq Gids
  BY DEF BlocksOf, Holders, Sound, Gids
<1>7. ASSUME EvictAndAssign(gid) PROVE Head(lru) \notin BlocksOf(f)
  <2>1. gid \notin Elems(lru)
    BY <1>2, <1>5
  <2>2. LastOf(lru, BlocksOf(f), BlocksOf(f))
    BY <1>4, <1>5, <2>1 DEF LastOf, Elems
  <2>3. IsFiniteSet(Holders(f)) /\ Cardinality(Holders(f)) \in Nat
    <3>1. Holders(f) \subseteq Reqs
      BY DEF Holders
    <3> QED
      BY <3>1, LocalIdsAssumption, FS_Subset, FS_CardinalityType
  <2> DEFINE h == [r \in Holders(f) |-> f[r]]
  <2>4. h \in Surjection(Holders(f), BlocksOf(f))
    BY DEF Surjection, BlocksOf
  <2>5. /\ IsFiniteSet(BlocksOf(f))
        /\ Cardinality(BlocksOf(f)) <= Cardinality(Holders(f))
    BY <2>3, <2>4, FS_Surjection
  <2>6. Cardinality(BlocksOf(f)) \in Nat
    BY <2>5, FS_CardinalityType
  <2>7. Len(lru) >= BatchSize /\ Len(lru) \in Nat
    BY <1>5, <1>7 DEF EvictAndAssign
  <2>8. Cardinality(BlocksOf(f)) < Len(lru) /\ lru # <<>>
    BY <1>4, <1>5, <2>3, <2>5, <2>6, <2>7, LocalIdsAssumption DEF Sound, Roomy
  <2> QED
    BY <1>5, <2>2, <2>5, <2>8, HeadOutside
<1>8. \A r \in Holders(f) : local'[f[r]] = local[f[r]]
  <2> SUFFICES ASSUME NEW r \in Holders(f) PROVE local'[f[r]] = local[f[r]]
    OBVIOUS
  <2>1. f[r] \in BlocksOf(f) /\ f[r] # gid /\ f[r] \in Gids
    BY <1>4, <1>6, LocalIdsAssumption DEF BlocksOf
  <2> QED
    BY <1>1, <1>7, <2>1
<1>9. LastOf(lru', BlocksOf(f), BlocksOf(f) \cup {Pad})
  <2>1. LastOf(u, BlocksOf(f), BlocksOf(f) \cup {Pad})
    BY <1>1, <1>5, LastTail
  <2>2. LastOf(Append(u, gid), BlocksOf(f), BlocksOf(f) \cup {Pad})
    BY <1>1, <1>4, <2>1, LastAppend
  <2> QED
    BY <1>1, <2>2
<1> QED
  BY <1>2, <1>8, <1>9 DEF Settled, BlocksOf, Holders

\* The forward pass settles every holder that has a row, and touches the
\* state of nobody else.
LEMMA ForwardSettled ==
  ASSUME IInv, RowsInv, NEW f, Sound(f), AtWorker(f), Forward
  PROVE  Settled(f)'
<1>1. /\ pc = "forward" /\ UNCHANGED <<local, lru>>
      /\ state' = [l \in Locals |-> IF \E i \in DOMAIN rows : ids[i] = l
                                    THEN rows[CHOOSE i \in DOMAIN rows : ids[i] = l].req
                                    ELSE state[l]]
  BY DEF Forward, mapper
<1>2. \A i \in DOMAIN rows :
        /\ rows[i].gid \in Gids /\ ids[i] \in Locals
        /\ local[rows[i].gid] = ids[i] /\ owner[ids[i]] = rows[i].gid
  BY <1>1, RowsPlaced
<1>3. \A i \in DOMAIN rows :
        \/ rows[i].req = NoReq /\ rows[i].gid = Pad /\ PadsBatches
        \/ /\ rows[i].req \in Holders(f) /\ rows[i].gid \in Blocks
           /\ f[rows[i].req] = rows[i].gid /\ rows[i].req # NoReq
  BY RowOf DEF AtWorker
<1>4. ASSUME NEW r \in Holders(f), NEW i \in DOMAIN rows, owner[ids[i]] = f[r]
      PROVE  rows[i].req = r
  <2>1. rows[i].gid = f[r] /\ f[r] \in Blocks
    BY <1>2, <1>4 DEF Sound, Holders
  <2> QED
    BY <1>3, <2>1, LocalIdsAssumption DEF Sound
<1>5. ASSUME NEW r \in Holders(f)
      PROVE  local[f[r]] # NoId /\ state'[local[f[r]]] = r
  <2>1. f[r] \in Gids
    BY DEF Holders, Sound, Gids
  <2>2. CASE \E i \in DOMAIN rows : rows[i].req = r
    <3>1. PICK i \in DOMAIN rows : rows[i].req = r
      BY <2>2
    <3>2. rows[i].gid = f[r]
      BY <1>3, <3>1, LocalIdsAssumption DEF Holders
    <3>3. ids[i] \in Locals /\ local[f[r]] = ids[i] /\ owner[ids[i]] = f[r]
      BY <1>2, <3>2
    <3>4. PICK k \in DOMAIN rows : /\ ids[k] = ids[i]
                                   /\ k = CHOOSE j \in DOMAIN rows : ids[j] = ids[i]
      OBVIOUS
    <3>5. state'[ids[i]] = rows[k].req
      BY <1>1, <3>3, <3>4
    <3>6. rows[k].req = r
      BY <1>4, <3>3, <3>4
    <3> QED
      BY <3>3, <3>5, <3>6, LocalIdsAssumption
  <2>3. CASE ~ \E i \in DOMAIN rows : rows[i].req = r
    <3>1. Settled(f)
      BY <2>3 DEF AtWorker, Whole
    <3>2. PICK l \in Locals : l = local[f[r]] /\ state[l] = r /\ local[f[r]] # NoId
      BY <2>1, <3>1 DEF Settled, IInv, TypeOK
    <3>3. owner[l] = f[r]
      BY <2>1, <3>2 DEF IInv, TablesAgree
    <3>4. ~ \E i \in DOMAIN rows : ids[i] = l
      BY <1>4, <2>3, <3>3
    <3> QED
      BY <1>1, <3>2, <3>4
  <2> QED
    BY <2>2, <2>3
<1>6. LastOf(lru, BlocksOf(f), BlocksOf(f) \cup {Pad})
  <2>1. CASE ~Admits(rows)
    BY <2>1 DEF AtWorker, Settled
  <2>2. CASE Admits(rows)
    <3>1. Used = {rows[i].gid : i \in DOMAIN rows}
      <4>1. DOMAIN rows = 1 .. Len(ids)
        BY <1>1 DEF IInv, TypeOK
      <4> QED
        BY <4>1 DEF Used
    <3>2. \A g \in Used : g \in BlocksOf(f) \cup {Pad}
      BY <1>3, <3>1 DEF BlocksOf
    <3>3. \A g \in BlocksOf(f) : g \in Used
      <4> SUFFICES ASSUME NEW r \in Holders(f) PROVE f[r] \in Used
        BY DEF BlocksOf
      <4>1. PICK i \in DOMAIN rows : rows[i].req = r
        BY <2>2 DEF AtWorker, Whole
      <4>2. rows[i].gid = f[r]
        BY <1>3, <4>1, LocalIdsAssumption DEF Holders
      <4> QED
        BY <3>1, <4>2
    <3> QED
      BY <3>2, <3>3 DEF RowsInv, UsedLast, LastOf
  <2> QED
    BY <2>1, <2>2
<1> QED
  BY <1>1, <1>5, <1>6 DEF Settled, BlocksOf, Holders

\* Taking a batch moves the history on by one entry.
LEMMA BeginOwned ==
  ASSUME IInv, RowsInv, Owned, Begin
  PROVE  Owned'
<1>1. PICK F : History(F) /\ AtWorker(F[0])
  BY DEF Owned
<1>2. /\ pc = "idle" /\ rows = <<>> /\ queue # <<>> /\ queue \in Seq(Seq(Row))
      /\ rows' = Head(queue) /\ queue' = Tail(queue)
      /\ UNCHANGED <<block, spent, lru, local, state>>
  BY DEF Begin, mapper, RowsInv, IInv, TypeOK
<1>3. PICK n \in Nat : n + 1 = Len(queue)
  <2>1. Len(queue) \in Nat /\ Len(queue) # 0
    BY <1>2
  <2>2. Len(queue) - 1 \in Nat /\ (Len(queue) - 1) + 1 = Len(queue)
    BY <2>1
  <2> QED
    BY <2>2
<1>4. /\ Len(queue') = n /\ rows' = queue[1]
      /\ \A k \in 1 .. n : queue'[k] = queue[k + 1]
  BY <1>2, <1>3
<1>5. PICK G \in [0 .. n -> [Reqs -> Blocks \cup {NoId}]] :
        \A k \in 0 .. n : G[k] = F[k + 1]
  <2> DEFINE g == [k \in 0 .. n |-> F[k + 1]]
  <2>1. /\ g \in [0 .. n -> [Reqs -> Blocks \cup {NoId}]]
        /\ \A k \in 0 .. n : g[k] = F[k + 1]
    BY <1>1, <1>3 DEF History
  <2> QED
    BY <2>1
<1>6. Settled(F[0]) /\ Sound(F[0])
  <2>1. 0 \in 0 .. Len(queue)
    BY <1>3
  <2> QED
    BY <1>1, <1>2, <2>1 DEF History, AtWorker, Admits
<1>7. /\ Fits(queue[1], F[1]) /\ GoesOn(queue[1], F[0])
      /\ IF Admits(queue[1]) THEN Whole(queue[1], F[1]) ELSE F[1] = F[0]
  <2>1. 1 \in 1 .. Len(queue) /\ 1 - 1 = 0
    BY <1>3
  <2> QED
    BY <1>1, <2>1 DEF History
<1>8. History(G)'
  <2>1. \A k \in 0 .. n : Sound(G[k])
    <3>1. \A k \in 0 .. n : k + 1 \in 0 .. Len(queue)
      BY <1>3
    <3>2. \A k \in 0 .. Len(queue) : Sound(F[k])
      BY <1>1 DEF History
    <3> QED
      BY <1>5, <3>1, <3>2
  <2>2. \A k \in 1 .. n :
          /\ Fits(queue'[k], G[k]) /\ GoesOn(queue'[k], G[k - 1])
          /\ IF Admits(queue'[k]) THEN Whole(queue'[k], G[k]) ELSE G[k] = G[k - 1]
    <3> SUFFICES ASSUME NEW k \in 1 .. n
                 PROVE  /\ Fits(queue'[k], G[k]) /\ GoesOn(queue'[k], G[k - 1])
                        /\ IF Admits(queue'[k]) THEN Whole(queue'[k], G[k])
                                                ELSE G[k] = G[k - 1]
      OBVIOUS
    <3>1. /\ k + 1 \in 1 .. Len(queue) /\ (k + 1) - 1 = k
          /\ k - 1 \in 0 .. n /\ (k - 1) + 1 = k /\ k \in 0 .. n
      BY <1>3
    <3>2. queue'[k] = queue[k + 1] /\ G[k] = F[k + 1] /\ G[k - 1] = F[k]
      BY <1>4, <1>5, <3>1
    <3>3. /\ Fits(queue[k + 1], F[k + 1]) /\ GoesOn(queue[k + 1], F[k])
          /\ IF Admits(queue[k + 1]) THEN Whole(queue[k + 1], F[k + 1])
                                     ELSE F[k + 1] = F[k]
      BY <1>1, <3>1 DEF History
    <3> QED
      BY <3>2, <3>3
  <2>3. \A r \in Running \ spent : G[n][r] = block[r]
    <3>1. G[n] = F[n + 1]
      BY <1>5
    <3> QED
      BY <1>1, <1>3, <3>1 DEF History
  <2> QED
    BY <1>2, <1>4, <1>5, <2>1, <2>2, <2>3
       DEF History, Running, Sound, Fits, GoesOn, Admits, Whole, Holders
<1>9. AtWorker(G[0])'
  <2>1. G[0] = F[1]
    BY <1>5
  <2>2. ~Admits(queue[1]) => Settled(F[1])'
    <3>1. PICK f : f = F[1]
      OBVIOUS
    <3>2. Settled(f) => Settled(f)'
      BY <1>2 DEF Settled, BlocksOf, Holders
    <3> QED
      BY <1>6, <1>7, <3>1, <3>2
  <2> QED
    BY <1>4, <1>7, <2>1, <2>2 DEF AtWorker, Fits, Admits, Whole, Holders,
       Settled, BlocksOf
<1>10. RowsOwn'
  <2> SUFFICES ASSUME NEW i \in DOMAIN queue[1],
                      queue[1][i].req # NoReq, ~queue[1][i].fresh
               PROVE  /\ local[queue[1][i].gid] # NoId
                      /\ state[local[queue[1][i].gid]] = queue[1][i].req
    BY <1>2, <1>4 DEF RowsOwn
  <2>1. queue[1] \in Seq(Row)
    BY <1>2, <1>3
  <2>2. queue[1][i] \in Row
    BY <2>1
  <2>3. queue[1][i].req \in Reqs /\ queue[1][i].gid \in Gids
    BY <2>2 DEF Row
  <2>4. F[0][queue[1][i].req] = queue[1][i].gid
    BY <1>7 DEF GoesOn
  <2>5. queue[1][i].req \in Holders(F[0])
    BY <2>3, <2>4, LocalIdsAssumption DEF Holders
  <2> QED
    BY <1>6, <2>4, <2>5 DEF Settled
<1> QED
  BY <1>8, <1>9, <1>10 DEF Owned

\* An order of a finite set has every element of it.
LEMMA OrderCovers ==
  ASSUME NEW S, IsFiniteSet(S), NEW order \in Orders(S)
  PROVE  /\ Cardinality(S) \in Nat /\ order \in [1 .. Cardinality(S) -> S]
         /\ \A r \in S : \E i \in 1 .. Cardinality(S) : order[i] = r
<1>1. PICK n \in Nat : n = Cardinality(S)
  BY FS_CardinalityType
<1>2. order \in [1 .. n -> S] /\ order \in Injection(1 .. n, S)
  BY <1>1 DEF Orders, Injection, IsInjective
<1>3. Cardinality(1 .. n) = n
  <2>1. 1 \in Int /\ n \in Int
    OBVIOUS
  <2>2. Cardinality(1 .. n) = IF 1 > n THEN 0 ELSE n - 1 + 1
    BY <2>1, FS_Interval
  <2> QED
    BY <2>2
<1>4. order \in Surjection(1 .. n, S)
  BY <1>1, <1>2, <1>3, FS_Injection
<1> QED
  BY <1>1, <1>2, <1>4 DEF Surjection

\* What a batch is made of: with the chunked scheduler all running requests that are
\* not scheduled to their end, when it admits some, and such requests only, when it
\* admits none.
LEMMA ScheduleEffect ==
  ASSUME IInv, ~Unchunked, ~PassesOver, ScheduleAny, NEW f, Sound(f),
         \A r \in Running \ spent : f[r] = block[r]
  PROVE  \E g, last :
           /\ Sound(g) /\ queue' = Append(queue, last)
           /\ Fits(last, g) /\ GoesOn(last, f)
           /\ IF Admits(last) THEN Whole(last, g) ELSE g = f
           /\ \A r \in (Running \ spent)' : g[r] = block'[r]
           /\ UNCHANGED <<lookup, mapper, state>>
<1>1. PICK new \in SUBSET waiting, old \in SUBSET Running :
        \E ends \in SUBSET (new \cup old), b \in [new -> Blocks],
           order \in Orders(new \cup old) : Schedule(new, old, ends, b, order)
  BY DEF ScheduleAny
<1>2. PICK ends \in SUBSET (new \cup old), b \in [new -> Blocks], order \in Orders(new \cup old) :
        Schedule(new, old, ends, b, order)
  BY <1>1
<1>3. /\ old \cap spent = {} /\ (new # {} => old = Running \ spent)
      /\ Cardinality(Running \cup new) <= MaxNumSeqs
      /\ \A r \in new : b[r] \notin {block[q] : q \in Running}
      /\ \A r, q \in new : b[r] = b[q] => r = q
      /\ block' = [r \in Reqs |-> IF r \in new THEN b[r] ELSE block[r]]
      /\ spent' = spent \cup ends /\ UNCHANGED <<lookup, mapper, state>>
  BY <1>2 DEF Schedule, BatchOf
<1>4. new \subseteq Reqs /\ Running \subseteq Reqs /\ block \in [Reqs -> Blocks \cup {NoId}]
  BY DEF IInv, TypeOK, Running
<1>5. PICK c \in Nat : /\ c = Cardinality(new \cup old)
                       /\ order \in [1 .. c -> new \cup old]
                       /\ \A r \in new \cup old : \E i \in 1 .. c : order[i] = r
  <2>1. new \cup old \subseteq Reqs
    BY <1>4
  <2>2. IsFiniteSet(new \cup old)
    BY <2>1, LocalIdsAssumption, FS_Subset
  <2>3. PICK S : S = new \cup old
    OBVIOUS
  <2>4. IsFiniteSet(S) /\ order \in Orders(S)
    BY <2>2, <2>3
  <2>5. Cardinality(S) \in Nat /\ order \in [1 .. Cardinality(S) -> S]
    BY <2>4, FS_CardinalityType DEF Orders
  <2>6. \A r \in S : \E i \in 1 .. Cardinality(S) : order[i] = r
    BY <2>4, OrderCovers
  <2> QED
    BY <2>3, <2>5, <2>6
<1>6. PICK batch : batch = [i \in 1 .. c |-> [gid |-> block'[order[i]], req |-> order[i],
                                               fresh |-> order[i] \in new]]
  OBVIOUS
<1>7. \/ queue' = Append(queue, batch)
      \/ PadsBatches /\ new = {} /\ queue' = Append(queue, Append(batch, PadRow))
  <2>1. DOMAIN order = 1 .. c
    BY <1>5
  <2> QED
    BY <1>2, <1>6, <2>1 DEF Schedule
<1>8. \A i \in 1 .. c :
        /\ order[i] \in new \cup old /\ order[i] \in Reqs /\ order[i] # NoReq
        /\ batch[i].gid = block'[order[i]] /\ batch[i].req = order[i]
        /\ batch[i].fresh <=> order[i] \in new
  BY <1>4, <1>5, <1>6, LocalIdsAssumption
<1>9. \A r \in old : r \in Running /\ f[r] = block[r] /\ f[r] # NoId
  BY <1>3 DEF Running
<1>10. CASE new # {}
  <2>1. PICK g : g = [r \in Reqs |-> IF r \in new \cup old THEN block'[r] ELSE NoId]
    OBVIOUS
  <2>2. queue' = Append(queue, batch) /\ DOMAIN batch = 1 .. c
    BY <1>6, <1>7, <1>10
  <2>0. \A r \in Reqs : g[r] = IF r \in new THEN b[r]
                              ELSE IF r \in old THEN block[r] ELSE NoId
    BY <1>3, <2>1
  <2>9. \A r \in new : b[r] # NoId /\ b[r] \in Blocks
    BY LocalIdsAssumption DEF Gids
  <2>10. Holders(g) = new \cup old
    BY <1>4, <1>9, <2>0, <2>9 DEF Holders, Running
  <2>3. Sound(g)
    <3>1. g \in [Reqs -> Blocks \cup {NoId}]
      BY <1>4, <2>0, <2>1, <2>9
    <3>2. \A r, q \in old : block[r] = block[q] => r = q
      BY <1>4, <1>9 DEF Sound, Holders
    <3>3. ASSUME NEW r \in Holders(g), NEW q \in Holders(g), g[r] = g[q]
          PROVE  r = q
      BY <1>3, <1>4, <1>9, <2>0, <2>10, <3>2, <3>3
    <3>4. Cardinality(Holders(g)) <= MaxNumSeqs
      <4>1. PICK A : A = Running \cup new
        OBVIOUS
      <4>2. IsFiniteSet(A) /\ Holders(g) \subseteq A
        BY <1>4, <2>10, <4>1, LocalIdsAssumption, FS_Subset
      <4>3. IsFiniteSet(Holders(g)) /\ Cardinality(Holders(g)) <= Cardinality(A)
        BY <4>2, FS_Subset
      <4>4. Cardinality(Holders(g)) \in Nat /\ Cardinality(A) \in Nat
        BY <4>2, <4>3, FS_CardinalityType
      <4> QED
        BY <1>3, <4>1, <4>3, <4>4, LocalIdsAssumption
    <3> QED
      BY <3>1, <3>3, <3>4 DEF Sound
  <2>4. Fits(batch, g)
    BY <1>8, <2>1, <2>2 DEF Fits
  <2>5. GoesOn(batch, f)
    BY <1>3, <1>8, <1>9, <2>2 DEF GoesOn
  <2>6. Admits(batch)
    <3>1. PICK r \in new : TRUE
      BY <1>10
    <3>2. PICK i \in 1 .. c : order[i] = r
      BY <1>5, <3>1
    <3> QED
      BY <1>8, <2>2, <3>2 DEF Admits
  <2>7. Whole(batch, g)
    <3>1. ASSUME NEW r \in Holders(g) PROVE \E i \in DOMAIN batch : batch[i].req = r
      <4>1. PICK i \in 1 .. c : order[i] = r
        BY <1>5, <2>10, <3>1
      <4> QED
        BY <1>8, <2>2, <4>1
    <3> QED
      BY <3>1 DEF Whole
  <2>8. \A r \in (Running \ spent)' : g[r] = block'[r]
    <3>1. \A r \in (Running \ spent)' : r \in new \cup old
      BY <1>3, <1>10 DEF Running
    <3> QED
      BY <1>4, <2>1, <3>1
  <2> QED
    BY <1>3, <2>2, <2>3, <2>4, <2>5, <2>6, <2>7, <2>8
<1>11. CASE new = {}
  <2>1. block' = block /\ (Running \ spent)' \subseteq Running \ spent
    <3>1. block' = block
      BY <1>3, <1>4, <1>11
    <3> QED
      BY <1>3, <3>1 DEF Running
  <2>2. PICK last : /\ queue' = Append(queue, last)
                    /\ \/ last = batch
                       \/ PadsBatches /\ last = Append(batch, PadRow)
    BY <1>7, Zenon
  <2>3. \A i \in DOMAIN last :
          \/ last[i] = PadRow /\ PadsBatches
          \/ /\ last[i].req \in old /\ last[i].req # NoReq /\ ~last[i].fresh
             /\ last[i].gid = f[last[i].req]
    <3>1. batch \in Seq({batch[i] : i \in 1 .. c}) /\ Len(batch) = c /\ DOMAIN batch = 1 .. c
      BY <1>6
    <3>2. ASSUME NEW i \in 1 .. c
          PROVE  /\ batch[i].req \in old /\ batch[i].req # NoReq /\ ~batch[i].fresh
                 /\ batch[i].gid = f[batch[i].req]
      BY <1>8, <1>9, <1>11, <2>1
    <3>3. CASE last = batch
      BY <3>1, <3>2, <3>3
    <3>4. CASE PadsBatches /\ last = Append(batch, PadRow)
      <4>1. DOMAIN last = 1 .. c + 1 /\ last[c + 1] = PadRow
            /\ \A i \in 1 .. c : last[i] = batch[i]
        BY <3>1, <3>4
      <4>2. ASSUME NEW i \in DOMAIN last PROVE i = c + 1 \/ i \in 1 .. c
        BY <4>1
      <4> QED
        BY <3>2, <3>4, <4>1, <4>2
    <3> QED
      BY <2>2, <3>3, <3>4
  <2>4. PadRow.req = NoReq /\ PadRow.gid = Pad /\ PadRow.fresh = FALSE
    BY DEF PadRow
  <2>5. Fits(last, f) /\ GoesOn(last, f) /\ ~Admits(last)
    BY <2>3, <2>4 DEF Fits, GoesOn, Admits
  <2> QED
    BY <1>3, <2>1, <2>2, <2>5
<1> QED
  BY <1>10, <1>11

\* A new batch adds its table to the history.
LEMMA ScheduleOwned ==
  ASSUME IInv, ~Unchunked, ~PassesOver, Owned, ScheduleAny
  PROVE  Owned'
<1>1. PICK F : History(F) /\ AtWorker(F[0])
  BY DEF Owned
<1>2. PICK n \in Nat : n = Len(queue)
  BY DEF IInv, TypeOK
<1>3. Sound(F[n]) /\ \A r \in Running \ spent : F[n][r] = block[r]
  BY <1>1, <1>2 DEF History
<1>4. PICK g, last :
        /\ Sound(g) /\ queue' = Append(queue, last)
        /\ Fits(last, g) /\ GoesOn(last, F[n])
        /\ IF Admits(last) THEN Whole(last, g) ELSE g = F[n]
        /\ \A r \in (Running \ spent)' : g[r] = block'[r]
        /\ UNCHANGED <<lookup, mapper, state>>
  BY <1>3, ScheduleEffect
<1>5. /\ Len(queue') = n + 1 /\ queue'[n + 1] = last
      /\ \A k \in 1 .. n : queue'[k] = queue[k]
  BY <1>2, <1>4 DEF IInv, TypeOK
<1>6. PICK G \in [0 .. n + 1 -> [Reqs -> Blocks \cup {NoId}]] :
        G[n + 1] = g /\ \A k \in 0 .. n : G[k] = F[k]
  <2> DEFINE h == [k \in 0 .. n + 1 |-> IF k <= n THEN F[k] ELSE g]
  <2>1. g \in [Reqs -> Blocks \cup {NoId}]
    BY <1>4 DEF Sound
  <2>2. F \in [0 .. n -> [Reqs -> Blocks \cup {NoId}]]
    BY <1>1, <1>2 DEF History
  <2>3. /\ h \in [0 .. n + 1 -> [Reqs -> Blocks \cup {NoId}]]
        /\ h[n + 1] = g /\ \A k \in 0 .. n : h[k] = F[k]
    BY <2>1, <2>2
  <2> QED
    BY <2>3
<1>7. \A k \in 0 .. n + 1 : Sound(G[k])
  <2>1. \A k \in 0 .. n + 1 : k \in 0 .. n \/ k = n + 1
    OBVIOUS
  <2> QED
    BY <1>1, <1>2, <1>4, <1>6, <2>1 DEF History
<1>8. \A k \in 1 .. n + 1 :
        /\ Fits(queue'[k], G[k]) /\ GoesOn(queue'[k], G[k - 1])
        /\ IF Admits(queue'[k]) THEN Whole(queue'[k], G[k]) ELSE G[k] = G[k - 1]
  <2> SUFFICES ASSUME NEW k \in 1 .. n + 1
               PROVE  /\ Fits(queue'[k], G[k]) /\ GoesOn(queue'[k], G[k - 1])
                      /\ IF Admits(queue'[k]) THEN Whole(queue'[k], G[k])
                                              ELSE G[k] = G[k - 1]
    OBVIOUS
  <2>1. CASE k = n + 1
    <3>1. G[k] = g /\ k - 1 = n /\ G[k - 1] = F[n] /\ queue'[k] = last
      BY <1>5, <1>6, <2>1
    <3> QED
      BY <1>4, <3>1
  <2>2. CASE k \in 1 .. n
    <3>1. k - 1 \in 0 .. n /\ k \in 0 .. n
      BY <2>2
    <3>2. G[k] = F[k] /\ G[k - 1] = F[k - 1] /\ queue'[k] = queue[k]
      BY <1>5, <1>6, <2>2, <3>1
    <3> QED
      BY <1>1, <1>2, <2>2, <3>2 DEF History
  <2> QED
    BY <2>1, <2>2
<1>9. History(G)'
  <2>1. \A r \in (Running \ spent)' : G[Len(queue')][r] = block'[r]
    BY <1>4, <1>5, <1>6
  <2>2. \A k \in 0 .. Len(queue') : Sound(G[k])
    BY <1>5, <1>7
  <2>3. \A k \in 1 .. Len(queue') :
          /\ Fits(queue'[k], G[k]) /\ GoesOn(queue'[k], G[k - 1])
          /\ IF Admits(queue'[k]) THEN Whole(queue'[k], G[k]) ELSE G[k] = G[k - 1]
    BY <1>5, <1>8
  <2>4. G \in [0 .. Len(queue') -> [Reqs -> Blocks \cup {NoId}]]
    BY <1>5, <1>6
  <2> QED
    BY <2>1, <2>2, <2>3, <2>4
       DEF History, Sound, Fits, GoesOn, Admits, Whole, Holders
<1>10. AtWorker(G[0])'
  <2>1. PICK f : f = F[0] /\ f = G[0]
    BY <1>6
  <2>2. AtWorker(f) => AtWorker(f)'
    BY <1>4 DEF AtWorker, Fits, Admits, Whole, Settled, Holders, BlocksOf,
       lookup, mapper
  <2> QED
    BY <1>1, <2>1, <2>2
<1>11. RowsOwn'
  BY <1>4 DEF Owned, RowsOwn, lookup, mapper
<1> QED
  BY <1>9, <1>10, <1>11 DEF Owned

\* A request that leaves, and a step of the worker on its batch, keep the
\* history.
LEMMA HistoryKept ==
  ASSUME IInv, NEW F, History(F), queue' = queue,
         UNCHANGED <<block, spent>> \/ \E r \in Reqs : Leave(r)
  PROVE  History(F)'
<1>1. block \in [Reqs -> Blocks \cup {NoId}]
  BY DEF IInv, TypeOK
<1>2. \A r \in (Running \ spent)' : F[Len(queue')][r] = block'[r]
  <2>1. CASE UNCHANGED <<block, spent>>
    BY <2>1 DEF History, Running
  <2>2. CASE \E r \in Reqs : Leave(r)
    <3>1. PICK q \in Reqs : block' = [block EXCEPT ![q] = NoId] /\ spent' = spent \ {q}
      BY <2>2 DEF Leave
    <3>2. \A r \in (Running \ spent)' : r \in Running \ spent /\ block'[r] = block[r]
      BY <1>1, <3>1 DEF Running
    <3> QED
      BY <3>2 DEF History
  <2> QED
    BY <2>1, <2>2
<1>3. /\ F \in [0 .. Len(queue') -> [Reqs -> Blocks \cup {NoId}]]
      /\ \A k \in 0 .. Len(queue') : Sound(F[k])
  BY DEF History
<1>4. \A k \in 1 .. Len(queue') :
        /\ Fits(queue'[k], F[k]) /\ GoesOn(queue'[k], F[k - 1])
        /\ IF Admits(queue'[k]) THEN Whole(queue'[k], F[k]) ELSE F[k] = F[k - 1]
  BY DEF History
<1> QED
  BY <1>2, <1>3, <1>4 DEF History, Sound, Fits, GoesOn, Admits, Whole, Holders

\* What settles is not undone by a step that leaves the mapper alone.
LEMMA AtWorkerKept ==
  ASSUME NEW f, AtWorker(f), UNCHANGED <<rows, lru, local, state>>
  PROVE  AtWorker(f)'
BY DEF AtWorker, Fits, Admits, Whole, Settled, Holders, BlocksOf

\* Every step keeps the history, and the states of the holders.
LEMMA OwnedKept ==
  ASSUME Roomy, ~Unchunked, ~PassesOver, IInv, RowsInv, Owned, [Next]_vars
  PROVE  Owned'
<1>1. PICK F : History(F) /\ AtWorker(F[0])
  BY DEF Owned
<1>2. PICK f : f = F[0] /\ Sound(f) /\ AtWorker(f)
  <2>1. 0 \in 0 .. Len(queue)
    BY DEF IInv, TypeOK
  <2> QED
    BY <1>1, <2>1 DEF History
<1>3. CASE ScheduleAny
  BY <1>3, ScheduleOwned
<1>4. CASE Begin
  BY <1>4, BeginOwned
<1>5. CASE Lookup
  <2>1. UNCHANGED <<queue, block, spent, rows, local, state>>
    BY <1>5 DEF Lookup, sched
  <2>2. History(F)'
    BY <1>1, <2>1, HistoryKept
  <2>3. AtWorker(f)'
    <3>1. Settled(f) => Settled(f)'
      BY <1>2, <1>5, LookupSettled DEF AtWorker
    <3> QED
      BY <1>2, <2>1, <3>1 DEF AtWorker, Fits, Admits, Whole, Holders
  <2>4. RowsOwn'
    BY <2>1 DEF Owned, RowsOwn
  <2> QED
    BY <1>2, <2>2, <2>3, <2>4 DEF Owned
<1>6. ASSUME NEW gid \in Gids, Assign(gid) \/ EvictAndAssign(gid) PROVE Owned'
  <2>1. /\ UNCHANGED <<queue, block, spent, rows, state>> /\ pc = "misses"
        /\ local[gid] = NoId
    BY <1>6 DEF Assign, EvictAndAssign, sched, IInv, MissesUnmapped
  <2>2. History(F)'
    BY <1>1, <2>1, HistoryKept
  <2>3. AtWorker(f)'
    <3>1. Settled(f) => Settled(f)'
      BY <1>2, <1>6, PlaceSettled DEF AtWorker
    <3> QED
      BY <1>2, <2>1, <3>1 DEF AtWorker, Fits, Admits, Whole, Holders
  <2>4. RowsOwn'
    <3> SUFFICES ASSUME NEW i \in DOMAIN rows,
                        rows[i].req # NoReq, ~rows[i].fresh
                 PROVE  local'[rows[i].gid] = local[rows[i].gid]
      BY <2>1 DEF Owned, RowsOwn
    <3>1. rows[i].gid \in Gids /\ rows[i].gid # gid
      BY <1>2, <2>1, RowOf DEF Owned, RowsOwn, AtWorker
    <3>2. rows[i].gid \in Used
      <4>1. DOMAIN rows = 1 .. Len(ids)
        BY <2>1 DEF IInv, TypeOK, RowsFound
      <4> QED
        BY <4>1 DEF Used
    <3>3. EvictAndAssign(gid) => rows[i].gid # Head(lru)
      BY <3>2, EvictedUnused
    <3>4. \A g \in Gids \ {gid} :
            local'[g] = local[g] \/ (EvictAndAssign(gid) /\ g = Head(lru))
      BY <1>6, PlaceEffect
    <3> QED
      BY <3>1, <3>3, <3>4
  <2> QED
    BY <1>2, <2>2, <2>3, <2>4 DEF Owned
<1>7. CASE Forward
  <2>1. /\ UNCHANGED <<queue, block, spent>> /\ rows' = <<>>
    BY <1>7 DEF Forward, sched
  <2>2. History(F)'
    BY <1>1, <2>1, HistoryKept
  <2>3. Settled(f)'
    BY <1>2, <1>7, ForwardSettled
  <2>4. AtWorker(f)' /\ RowsOwn'
    BY <2>1, <2>3 DEF AtWorker, Fits, Admits, RowsOwn
  <2> QED
    BY <1>2, <2>2, <2>4 DEF Owned
<1>8. CASE /\ UNCHANGED <<queue, rows, lru, local, state>>
           /\ UNCHANGED <<block, spent>> \/ \E r \in Reqs : Leave(r)
  <2>1. History(F)' /\ AtWorker(f)'
    BY <1>1, <1>2, <1>8, HistoryKept, AtWorkerKept
  <2>2. RowsOwn'
    BY <1>8 DEF Owned, RowsOwn
  <2> QED
    BY <1>2, <2>1, <2>2 DEF Owned
<1>9. \/ ScheduleAny \/ Begin \/ Lookup \/ Forward
      \/ \E gid \in Gids : Assign(gid) \/ EvictAndAssign(gid)
      \/ /\ UNCHANGED <<queue, rows, lru, local, state>>
         /\ UNCHANGED <<block, spent>> \/ \E r \in Reqs : Leave(r)
  BY DEF Next, Leave, EndLookup, Fill, vars, sched, mapper, lookup
<1> QED
  BY <1>3, <1>4, <1>5, <1>6, <1>7, <1>8, <1>9

\* Nobody holds a block in the beginning.
LEMMA InitOwned == Init => Owned
<1> SUFFICES ASSUME Init PROVE Owned
  OBVIOUS
<1>1. PICK f : f = [r \in Reqs |-> NoId]
  OBVIOUS
<1>2. Holders(f) = {} /\ Running = {}
  BY <1>1 DEF Holders, Running, Init
<1>3. Sound(f)
  BY <1>1, <1>2, FS_EmptySet, LocalIdsAssumption DEF Sound
<1>4. PICK F : F = [k \in 0 .. 0 |-> f]
  OBVIOUS
<1>5. Len(queue) = 0 /\ rows = <<>> /\ lru = <<>> /\ F[0] = f
  BY <1>4 DEF Init
<1>6. History(F)
  <2>1. F \in [0 .. 0 -> [Reqs -> Blocks \cup {NoId}]] /\ \A k \in 0 .. 0 : F[k] = f
    BY <1>1, <1>4
  <2> QED
    BY <1>2, <1>3, <1>5, <2>1 DEF History
<1>7. AtWorker(F[0])
  BY <1>2, <1>5 DEF AtWorker, Fits, Admits, Settled, LastOf, BlocksOf
<1>8. RowsOwn
  BY <1>5 DEF RowsOwn
<1> QED
  BY <1>6, <1>7, <1>8 DEF Owned

\* With the chunked scheduler a request always goes on from the state its last
\* row left, for every number of requests, blocks and states that leaves one for the
\* padding, and however far the scheduler runs ahead: a batch that admits somebody
\* holds all running requests but those scheduled up to the model's length, which
\* have no rows left, so whatever must be evicted is older than the others.  That is
\* only so where nobody is passed over for a while (scheduler.py:346-360).
THEOREM OwnStateHolds == Roomy /\ ~Unchunked /\ ~PassesOver => (Spec => []OwnState)
<1> SUFFICES ASSUME Roomy, ~Unchunked, ~PassesOver PROVE Spec => []OwnState
  OBVIOUS
<1>1. IInv /\ RowsInv /\ Owned => OwnState
  <2> SUFFICES ASSUME IInv, RowsInv, Owned, pc = "forward", NEW i \in DOMAIN rows,
                      rows[i].req # NoReq, ~rows[i].fresh
               PROVE  state[ids[i]] = rows[i].req
    BY DEF OwnState
  <2>1. local[rows[i].gid] = ids[i]
    BY RowsPlaced
  <2> QED
    BY <2>1 DEF Owned, RowsOwn
<1>2. IInv /\ RowsInv /\ Owned /\ [Next]_vars => IInv' /\ RowsInv' /\ Owned'
  BY StepKeeps, RowsKept, OwnedKept
<1> QED
  BY <1>1, <1>2, InitAgrees, InitRows, InitOwned, PTL DEF Spec

=============================================================================
