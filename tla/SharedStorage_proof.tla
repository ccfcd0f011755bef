-------------------------- MODULE SharedStorage_proof --------------------------
(***************************************************************************)
(* No file of the shared directory and no entry an engine counts on is     *)
(* ever wrong, for any number of engines, requests, layers and crashes.    *)
(*                                                                         *)
(* The invariant follows the work of a step: its operations are known by   *)
(* how many of them are left (Planned), and so is how many entries of a    *)
(* request each layer is sure to have right (Sure).                        *)
(***************************************************************************)
EXTENDS SharedStorage, SequenceTheorems, TLAPS

-----------------------------------------------------------------------------
(* Tokens and their prefixes.                                               *)

\* The i-th token of a request, whenever it is generated, and the entry of
\* the p-th.
Token(r, i) == IF i <= Len(Prompt[r]) THEN Prompt[r][i] ELSE NewToken
Entry(r, p) == [i \in 1 .. p |-> Token(r, i)]
Length(r) == Len(Prompt[r]) + output[r]

\* The tokens a request has are the first of its Tokens.
LEMMA TokensOf ==
  ASSUME NEW r \in Reqs, output[r] \in Nat
  PROVE  /\ Len(AllTokens(r)) = Length(r) /\ Length(r) \in Nat /\ Length(r) > 1
         /\ \A p \in 0 .. Length(r) : SubSeq(AllTokens(r), 1, p) = Entry(r, p)
<1> DEFINE s == Prompt[r]
           t == [i \in 1 .. output[r] |-> NewToken]
<1>1. s \in Seq(Nat \ {0}) /\ Len(s) \in Nat /\ Len(s) > 1
  BY StorageAssumption DEF StorageAssumption
<1>2. t \in Seq(Nat \ {0}) /\ Len(t) = output[r]
  <2>1. NewToken \in Nat \ {0}
    BY StorageAssumption DEF StorageAssumption
  <2>2. PICK k \in Nat : k = output[r]
    OBVIOUS
  <2>3. PICK T : T = Nat \ {0}
    OBVIOUS
  <2>4. [i \in 1 .. k |-> NewToken] \in Seq(T) /\ Len([i \in 1 .. k |-> NewToken]) = k
    BY <2>1, <2>3
  <2> QED
    BY <2>2, <2>3, <2>4
<1>3. /\ s \o t \in Seq(Nat \ {0}) /\ Len(s \o t) = Len(s) + output[r]
      /\ \A i \in 1 .. Len(s) + output[r] : (s \o t)[i] = Token(r, i)
  <2> HIDE DEF t
  <2>1. Len(s \o t) = Len(s) + Len(t) /\ s \o t \in Seq(Nat \ {0})
    BY <1>1, <1>2, ConcatProperties
  <2>2. \A i \in 1 .. Len(s) + Len(t) :
          (s \o t)[i] = IF i <= Len(s) THEN s[i] ELSE t[i - Len(s)]
    BY <1>1, <1>2
  <2>3. ASSUME NEW i \in 1 .. Len(s) + output[r] PROVE (s \o t)[i] = Token(r, i)
    <3>1. CASE i <= Len(s)
      BY <1>2, <2>2, <3>1 DEF Token
    <3>2. CASE ~(i <= Len(s))
      <4>1. i - Len(s) \in 1 .. output[r]
        BY <1>1, <1>2, <3>2
      <4>2. t[i - Len(s)] = NewToken
        BY <4>1 DEF t
      <4> QED
        BY <1>2, <2>2, <3>2, <4>2 DEF Token
    <3> QED
      BY <3>1, <3>2
  <2> QED
    BY <1>2, <2>1, <2>3
<1>4. AllTokens(r) = s \o t
  BY DEF AllTokens
<1> HIDE DEF t
<1>5. ASSUME NEW p \in 0 .. Length(r) PROVE SubSeq(AllTokens(r), 1, p) = Entry(r, p)
  <2>1. SubSeq(s \o t, 1, p) = [i \in 1 .. p |-> (s \o t)[i]]
    BY <1>1, <1>3 DEF Length
  <2>2. \A i \in 1 .. p : (s \o t)[i] = Token(r, i)
    BY <1>1, <1>3 DEF Length
  <2> QED
    BY <1>4, <2>1, <2>2 DEF Entry
<1>6. Len(AllTokens(r)) = Length(r)
  BY <1>3, <1>4 DEF Length
<1>7. Length(r) \in Nat /\ Length(r) > 1
  BY <1>1 DEF Length
<1> QED
  BY <1>5, <1>6, <1>7

\* So are those of its prompt.
LEMMA PromptOf ==
  ASSUME NEW r \in Reqs, NEW p \in 0 .. Len(Prompt[r])
  PROVE  SubSeq(Prompt[r], 1, p) = Entry(r, p)
<1>1. Prompt[r] \in Seq(Nat \ {0}) /\ Len(Prompt[r]) \in Nat
  BY StorageAssumption DEF StorageAssumption
<1>2. SubSeq(Prompt[r], 1, p) = [i \in 1 .. p |-> Prompt[r][i]]
  BY <1>1
<1>3. \A i \in 1 .. p : Prompt[r][i] = Token(r, i)
  BY <1>1 DEF Token
<1> QED
  BY <1>2, <1>3 DEF Entry

\* The prefixes of an entry are the entries before it.
LEMMA EntryPrefix ==
  ASSUME NEW r \in Reqs, NEW n \in Nat
  PROVE  /\ Entry(r, n) \in Seq(Nat \ {0}) /\ Len(Entry(r, n)) = n
         /\ \A p \in 0 .. n : SubSeq(Entry(r, n), 1, p) = Entry(r, p)
<1>1. \A i \in 1 .. n : Token(r, i) \in Nat \ {0}
  <2>1. Prompt[r] \in Seq(Nat \ {0}) /\ NewToken \in Nat \ {0}
    BY StorageAssumption DEF StorageAssumption
  <2> QED
    BY <2>1 DEF Token
<1>2. Entry(r, n) \in Seq(Nat \ {0}) /\ Len(Entry(r, n)) = n
  BY <1>1 DEF Entry
<1>3. ASSUME NEW p \in 0 .. n PROVE SubSeq(Entry(r, n), 1, p) = Entry(r, p)
  <2>1. SubSeq(Entry(r, n), 1, p) = [i \in 1 .. p |-> Entry(r, n)[i]]
    BY <1>2
  <2>2. \A i \in 1 .. p : Entry(r, n)[i] = Token(r, i)
    BY DEF Entry
  <2> QED
    BY <2>1, <2>2 DEF Entry
<1> QED
  BY <1>2, <1>3

-----------------------------------------------------------------------------
(* Blocks and slots.                                                        *)

\* Rounding to blocks.
LEMMA Rounding ==
  /\ \A n \in Nat \ {0} : Align(n) \in 0 .. n
  /\ \A n \in Nat \ {0} : \A m \in Nat : n <= m => Align(n) <= Align(m)
  /\ \A n \in Nat : NumBlocksFor(n) \in Nat
  /\ \A n \in Nat : \A p \in 1 .. n : (p - 1) \div BlockSize + 1 \in 1 .. NumBlocksFor(n)
  /\ \A n, m \in Nat : n <= m => NumBlocksFor(n) <= NumBlocksFor(m)
<1>1. BlockSize \in Nat \ {0}
  BY StorageAssumption DEF StorageAssumption
<1>2. ASSUME NEW n \in Nat \ {0} PROVE Align(n) \in 0 .. n
  BY <1>1 DEF Align
<1>3. ASSUME NEW n \in Nat \ {0}, NEW m \in Nat, n <= m PROVE Align(n) <= Align(m)
  <2>1. (n - 1) \div BlockSize <= (m - 1) \div BlockSize
    BY <1>1, <1>3
  <2>2. (n - 1) \div BlockSize \in Int /\ (m - 1) \div BlockSize \in Int
    BY <1>1, <1>3
  <2> QED
    BY <1>1, <2>1, <2>2 DEF Align
<1>4. ASSUME NEW n \in Nat PROVE NumBlocksFor(n) \in Nat
  BY <1>1 DEF NumBlocksFor
<1>5. ASSUME NEW n \in Nat, NEW p \in 1 .. n
      PROVE  (p - 1) \div BlockSize + 1 \in 1 .. NumBlocksFor(n)
  <2>1. (p - 1) \div BlockSize \in Nat
    BY <1>1
  <2>2. (p - 1 + BlockSize) \div BlockSize = (p - 1) \div BlockSize + 1
    BY <1>1
  <2>3. (p - 1 + BlockSize) \div BlockSize <= (n + BlockSize - 1) \div BlockSize
    BY <1>1
  <2> QED
    BY <1>1, <1>4, <2>1, <2>2, <2>3 DEF NumBlocksFor
<1>6. ASSUME NEW n \in Nat, NEW m \in Nat, n <= m PROVE NumBlocksFor(n) <= NumBlocksFor(m)
  BY <1>1, <1>6 DEF NumBlocksFor
<1> QED
  BY <1>2, <1>3, <1>4, <1>5, <1>6

Ids == 0 .. NumBlocks - 1

\* Which block and which place in it a token's slot is.
LEMMA SlotPlace ==
  ASSUME NEW bs \in Seq(Ids), NEW p \in Nat \ {0}, (p - 1) \div BlockSize + 1 <= Len(bs)
  PROVE  /\ (p - 1) \div BlockSize + 1 \in 1 .. Len(bs)
         /\ bs[(p - 1) \div BlockSize + 1] \in Ids
         /\ (p - 1) % BlockSize \in 0 .. BlockSize - 1
         /\ SlotOf(bs, p) \in Slots
<1>1. BlockSize \in Nat \ {0} /\ NumBlocks \in Nat
  BY StorageAssumption DEF StorageAssumption
<1>2. (p - 1) \div BlockSize + 1 \in 1 .. Len(bs)
  <2>1. (p - 1) \div BlockSize \in Nat
    BY <1>1
  <2> QED
    BY <2>1
<1>3. bs[(p - 1) \div BlockSize + 1] \in Ids
  BY <1>2
<1>4. (p - 1) % BlockSize \in 0 .. BlockSize - 1
  BY <1>1
<1>5. ASSUME NEW b \in Ids, NEW o \in 0 .. BlockSize - 1
      PROVE  b * BlockSize + o \in 0 .. (NumBlocks * BlockSize - 1)
  <2>1. b \in Nat /\ b <= NumBlocks - 1
    BY <1>1 DEF Ids
  <2>2. b * BlockSize <= (NumBlocks - 1) * BlockSize
    BY <1>1, <2>1
  <2> QED
    BY <1>1, <2>1, <2>2
<1> QED
  BY <1>2, <1>3, <1>4, <1>5 DEF SlotOf, Slots

\* Two tokens in one slot are at the same place of the same block.
LEMMA SlotsApart ==
  ASSUME NEW bs \in Seq(Ids), NEW p \in Nat \ {0}, (p - 1) \div BlockSize + 1 <= Len(bs),
         NEW cs \in Seq(Ids), NEW q \in Nat \ {0}, (q - 1) \div BlockSize + 1 <= Len(cs),
         SlotOf(bs, p) = SlotOf(cs, q)
  PROVE  /\ bs[(p - 1) \div BlockSize + 1] = cs[(q - 1) \div BlockSize + 1]
         /\ (p - 1) \div BlockSize = (q - 1) \div BlockSize => p = q
<1>1. BlockSize \in Nat \ {0}
  BY StorageAssumption DEF StorageAssumption
<1>2. \A b, c \in Nat : \A o, u \in 0 .. BlockSize - 1 :
        b * BlockSize + o = c * BlockSize + u => b = c /\ o = u
  BY <1>1
<1>3. /\ bs[(p - 1) \div BlockSize + 1] \in Ids /\ cs[(q - 1) \div BlockSize + 1] \in Ids
      /\ (p - 1) % BlockSize \in 0 .. BlockSize - 1 /\ (q - 1) % BlockSize \in 0 .. BlockSize - 1
  BY SlotPlace
<1>4. Ids \subseteq Nat
  BY DEF Ids
<1>5. /\ bs[(p - 1) \div BlockSize + 1] = cs[(q - 1) \div BlockSize + 1]
      /\ (p - 1) % BlockSize = (q - 1) % BlockSize
  <2>1. PICK b, c, o, u : /\ b = bs[(p - 1) \div BlockSize + 1]
                          /\ c = cs[(q - 1) \div BlockSize + 1]
                          /\ o = (p - 1) % BlockSize /\ u = (q - 1) % BlockSize
    OBVIOUS
  <2>2. b * BlockSize + o = c * BlockSize + u
    BY <2>1 DEF SlotOf
  <2>3. b \in Nat /\ c \in Nat /\ o \in 0 .. BlockSize - 1 /\ u \in 0 .. BlockSize - 1
    BY <1>3, <1>4, <2>1
  <2> QED
    BY <1>2, <2>1, <2>2, <2>3
<1>6. (p - 1) \div BlockSize = (q - 1) \div BlockSize => p = q
  <2>1. \A a, b \in Nat : a \div BlockSize = b \div BlockSize /\ a % BlockSize = b % BlockSize => a = b
    BY <1>1
  <2>2. p - 1 \in Nat /\ q - 1 \in Nat
    OBVIOUS
  <2>3. p - 1 = q - 1 => p = q
    OBVIOUS
  <2> QED
    BY <1>5, <2>1, <2>2, <2>3
<1> QED
  BY <1>5, <1>6

-----------------------------------------------------------------------------
(* The invariant.                                                           *)

Metas == [key : Seq(Nat \ {0}), slots : Seq(Slots)]
Ops == {Load(m, l) : m \in Metas, l \in Layers}
         \cup {Attend(l, ms) : l \in Layers, ms \in {<<>>} \cup {<<m>> : m \in Metas}}
Rows == [req : Reqs, from : Nat \ {0}, to : Nat]
Caches == [Layers -> [Slots -> Seq(Int)]]

StorageType ==
  /\ status \in [Reqs -> {"unsent", "waiting", "running", "preempted", "done"}]
  /\ output \in [Reqs -> 0 .. MaxOutput] /\ computed \in [Reqs -> Nat]
  /\ blocks \in [Reqs -> Seq(Ids)]
  /\ alive \subseteq Engines /\ todo \in [Engines -> Seq(Ops)]
  /\ row \in [Engines -> {<<>>} \cup {<<x>> : x \in Rows}]
  /\ kv \in [Engines -> Caches] /\ mishaps \in 0 .. MaxMishaps

\* The request an engine works for, if any.
WorksFor(e, r) == row[e] # <<>> /\ row[e][1].req = r

\* A request that is not done has a token to generate, and only a running one
\* has blocks: those of the tokens it counts as computed, which are all but
\* the last, or all while the engine works for it.
ProgressOf(r) ==
  /\ status[r] # "done" => output[r] < MaxOutput
  /\ IF status[r] = "running"
     THEN /\ Len(blocks[r]) = NumBlocksFor(computed[r])
          /\ computed[r] = IF WorksFor(EngineOf[r], r) THEN Length(r) ELSE Length(r) - 1
     ELSE blocks[r] = <<>>

Progress == \A r \in Reqs : ProgressOf(r)

\* No block of an engine has two owners.
Exclusive ==
  \A r, q \in Reqs : EngineOf[r] = EngineOf[q] =>
    \A i \in 1 .. Len(blocks[r]), j \in 1 .. Len(blocks[q]) :
      blocks[r][i] = blocks[q][j] => r = q /\ i = j

\* What is stored or loaded are the first tokens of a request, in its slots.
Describes(m, r) ==
  \E n \in 0 .. computed[r] : m = [key |-> Entry(r, n), slots |-> SlotMapping(blocks[r], n)]

\* The work of a step: the layers are loaded first, if at all, and attended to
\* then, the k-th operation from the end being always the same.
Planned(e, x) ==
  /\ Len(todo[e]) <= 2 * NumLayers
  /\ \A k \in 1 .. Len(todo[e]) : \E m \in Metas :
       /\ Describes(m, x.req)
       /\ todo[e][Len(todo[e]) + 1 - k] \in
            IF k <= NumLayers
            THEN {Attend(NumLayers + 1 - k, <<>>), Attend(NumLayers + 1 - k, <<m>>)}
            ELSE {Load(m, 2 * NumLayers + 1 - k)}
       /\ k > NumLayers => x.from <= Len(m.key) + 1

OnPlan(e) ==
  IF row[e] = <<>> THEN todo[e] = <<>>
  ELSE LET x == row[e][1] IN
       /\ EngineOf[x.req] = e /\ status[x.req] = "running"
       /\ x.to = computed[x.req] /\ x.from <= x.to
       /\ Planned(e, x)

Working == \A e \in Engines : OnPlan(e)

\* The tokens of a request whose entries are in a layer: all after the layer
\* was attended to, and after it was loaded those that need not be computed.
Sure(r, l) ==
  IF status[r] # "running" THEN 0
  ELSE LET e == EngineOf[r] IN
       IF ~WorksFor(e, r) \/ Len(todo[e]) <= NumLayers - l THEN computed[r]
       ELSE IF Len(todo[e]) <= 2 * NumLayers - l THEN row[e][1].from - 1
       ELSE 0

EntriesRight(r) ==
  \A l \in Layers : \A p \in 1 .. Sure(r, l) :
    kv[EngineOf[r]][l][SlotOf(blocks[r], p)] = Entry(r, p)

CacheRight == \A r \in Reqs : EntriesRight(r)

StorageInv == StorageType /\ Progress /\ Exclusive /\ Working /\ CacheRight /\ StoredIsRight

-----------------------------------------------------------------------------
(* Entries put into slots.                                                  *)

OwnSlots(slots, n) ==
  slots \in [1 .. n -> Slots] /\ \A i, j \in 1 .. n : slots[i] = slots[j] => i = j
Elsewhere(s, slots, n) == \A i \in 1 .. n : slots[i] # s

\* Entries put into slots of their own are found there, and nothing else is
\* overwritten.
LEMMA Injecting ==
  ASSUME NEW n \in Nat, NEW slots, OwnSlots(slots, n), NEW cache \in [Slots -> Seq(Int)],
         NEW entries, \A i \in 1 .. n : entries[i] \in Seq(Int)
  PROVE  /\ Injected(cache, slots, entries) \in [Slots -> Seq(Int)]
         /\ \A i \in 1 .. n : Injected(cache, slots, entries)[slots[i]] = entries[i]
         /\ \A s \in Slots :
              Elsewhere(s, slots, n) => Injected(cache, slots, entries)[s] = cache[s]
<1> DEFINE J == Injected(cache, slots, entries)
<1>0. slots \in [1 .. n -> Slots] /\ \A i, j \in 1 .. n : slots[i] = slots[j] => i = j
  BY DEF OwnSlots
<1>1. ASSUME NEW i \in 1 .. n PROVE J[slots[i]] = entries[i]
  <2>1. slots[i] \in Slots /\ DOMAIN slots = 1 .. n
    BY <1>0
  <2>2. J[slots[i]] = entries[CHOOSE j \in DOMAIN slots : slots[j] = slots[i]]
    BY <2>1 DEF Injected
  <2>3. (CHOOSE j \in DOMAIN slots : slots[j] = slots[i]) = i
    BY <1>0, <2>1
  <2> QED
    BY <2>2, <2>3
<1>2. ASSUME NEW s \in Slots, Elsewhere(s, slots, n) PROVE J[s] = cache[s]
  BY <1>0, <1>2 DEF Injected, Elsewhere
<1>3. ASSUME NEW s \in Slots PROVE J[s] \in Seq(Int)
  <2>1. CASE \E i \in 1 .. n : slots[i] = s
    BY <1>1, <2>1
  <2>2. CASE \A i \in 1 .. n : slots[i] # s
    BY <1>2, <2>2 DEF Elsewhere
  <2> QED
    BY <2>1, <2>2
<1>4. J = [s \in Slots |-> J[s]]
  BY DEF Injected
<1>5. J \in [Slots -> Seq(Int)]
  <2> HIDE DEF J
  <2> QED
    BY <1>3, <1>4
<1> QED
  BY <1>1, <1>2, <1>5

\* The slots of the tokens of two requests of an engine are different.
LEMMA SlotsOwned ==
  ASSUME StorageType, Exclusive, NEW r \in Reqs, NEW q \in Reqs, EngineOf[r] = EngineOf[q],
         NEW n \in Nat, Len(blocks[r]) = NumBlocksFor(n), NEW p \in 1 .. n,
         NEW m \in Nat, Len(blocks[q]) = NumBlocksFor(m), NEW j \in 1 .. m
  PROVE  /\ SlotOf(blocks[r], p) \in Slots
         /\ SlotOf(blocks[r], p) = SlotOf(blocks[q], j) => r = q /\ p = j
<1> DEFINE a == (p - 1) \div BlockSize
           b == (j - 1) \div BlockSize
<1>1. blocks[r] \in Seq(Ids) /\ blocks[q] \in Seq(Ids)
  BY DEF StorageType
<1>2. a + 1 \in 1 .. Len(blocks[r]) /\ b + 1 \in 1 .. Len(blocks[q])
  BY Rounding
<1>3. a + 1 <= Len(blocks[r]) /\ b + 1 <= Len(blocks[q]) /\ p \in Nat \ {0} /\ j \in Nat \ {0}
  BY <1>2
<1>4. SlotOf(blocks[r], p) \in Slots
  BY <1>1, <1>3, SlotPlace
<1>5. ASSUME SlotOf(blocks[r], p) = SlotOf(blocks[q], j) PROVE r = q /\ p = j
  <2>1. blocks[r][a + 1] = blocks[q][b + 1] /\ (a = b => p = j)
    BY <1>1, <1>3, <1>5, SlotsApart
  <2>2. r = q /\ a + 1 = b + 1
    BY <1>2, <2>1 DEF Exclusive
  <2>3. BlockSize \in Nat \ {0}
    BY StorageAssumption DEF StorageAssumption
  <2>4. a \in Int /\ b \in Int
    BY <2>3
  <2>5. a = b
    BY <2>2, <2>4
  <2> QED
    BY <2>1, <2>2, <2>5
<1> QED
  BY <1>4, <1>5

\* Those of one request.
LEMMA SlotsOfOne ==
  ASSUME StorageType, Progress, Exclusive, NEW r \in Reqs, status[r] = "running",
         NEW n \in 0 .. computed[r]
  PROVE  /\ SlotMapping(blocks[r], n) \in [1 .. n -> Slots]
         /\ \A i \in 1 .. n : SlotMapping(blocks[r], n)[i] = SlotOf(blocks[r], i)
         /\ \A i, j \in 1 .. computed[r] : SlotOf(blocks[r], i) = SlotOf(blocks[r], j) => i = j
         /\ \A i \in 1 .. computed[r] : SlotOf(blocks[r], i) \in Slots
<1>1. computed[r] \in Nat /\ Len(blocks[r]) = NumBlocksFor(computed[r])
  BY DEF StorageType, Progress, ProgressOf
<1>2. \A i, j \in 1 .. computed[r] :
        /\ SlotOf(blocks[r], i) \in Slots
        /\ SlotOf(blocks[r], i) = SlotOf(blocks[r], j) => i = j
  BY <1>1, SlotsOwned
<1>3. \A i \in 1 .. n : i \in 1 .. computed[r]
  BY <1>1
<1> QED
  BY <1>2, <1>3 DEF SlotMapping

\* Two requests of an engine that run share no slot.
LEMMA SlotsOfTwo ==
  ASSUME StorageType, Progress, Exclusive, NEW r \in Reqs, NEW q \in Reqs, r # q,
         EngineOf[r] = EngineOf[q], status[r] = "running", status[q] = "running"
  PROVE  \A i \in 1 .. computed[r], j \in 1 .. computed[q] :
           SlotOf(blocks[r], i) # SlotOf(blocks[q], j)
<1>1. /\ computed[r] \in Nat /\ Len(blocks[r]) = NumBlocksFor(computed[r])
      /\ computed[q] \in Nat /\ Len(blocks[q]) = NumBlocksFor(computed[q])
  BY DEF StorageType, Progress, ProgressOf
<1> QED
  BY <1>1, SlotsOwned

\* What is sure is computed.
LEMMA SureBounds ==
  ASSUME StorageType, Working, NEW r \in Reqs, NEW l \in Layers
  PROVE  /\ Sure(r, l) \in 0 .. computed[r]
         /\ status[r] # "running" => Sure(r, l) = 0
<1>1. computed[r] \in Nat
  BY DEF StorageType
<1>2. ASSUME WorksFor(EngineOf[r], r)
      PROVE  row[EngineOf[r]][1].from - 1 \in 0 .. computed[r]
  <2>1. EngineOf[r] \in Engines
    BY StorageAssumption DEF StorageAssumption
  <2>2. PICK x : x = row[EngineOf[r]][1]
    OBVIOUS
  <2>3. x.req = r /\ x.to = computed[r] /\ x.from <= x.to
    BY <1>2, <2>1, <2>2 DEF WorksFor, Working, OnPlan
  <2>4. x \in Rows
    BY <1>2, <2>1, <2>2 DEF WorksFor, StorageType
  <2>5. x.from \in Nat \ {0}
    BY <2>4 DEF Rows
  <2> QED
    BY <1>1, <2>2, <2>3, <2>5
<1> QED
  BY <1>1, <1>2 DEF Sure

-----------------------------------------------------------------------------
(* What a step leaves alone.                                                *)

\* The row an engine works on.
LEMMA RowOf ==
  ASSUME StorageType, NEW e \in Engines, row[e] # <<>>
  PROVE  /\ row[e] = <<row[e][1]>> /\ row[e][1] \in Rows /\ row[e][1].req \in Reqs
         /\ row[e][1].from \in Nat \ {0} /\ row[e][1].to \in Nat
         /\ WorksFor(e, row[e][1].req)
<1>1. row[e] = <<row[e][1]>> /\ row[e][1] \in Rows
  BY DEF StorageType
<1> QED
  BY <1>1 DEF Rows, WorksFor

\* An engine goes on with its work if its request is left alone.
LEMMA PlanKept ==
  ASSUME StorageType, NEW e \in Engines, OnPlan(e), todo'[e] = todo[e], row'[e] = row[e],
         \A r \in Reqs : WorksFor(e, r) => /\ status'[r] = status[r]
                                           /\ computed'[r] = computed[r]
                                           /\ blocks'[r] = blocks[r]
  PROVE  OnPlan(e)'
<1>1. CASE row[e] = <<>>
  BY <1>1 DEF OnPlan
<1>2. CASE row[e] # <<>>
  <2>1. PICK x : x = row[e][1]
    OBVIOUS
  <2>2. x \in Rows /\ x.req \in Reqs /\ WorksFor(e, x.req)
    BY <1>2, <2>1, RowOf
  <2>3. PICK r : r = x.req
    OBVIOUS
  <2>4. status'[r] = status[r] /\ computed'[r] = computed[r] /\ blocks'[r] = blocks[r]
    BY <2>2, <2>3
  <2>5. /\ EngineOf[r] = e /\ status[r] = "running" /\ x.to = computed[r] /\ x.from <= x.to
        /\ Planned(e, x)
    BY <1>2, <2>1, <2>3 DEF OnPlan
  <2>6. \A m : Describes(m, r) => Describes(m, r)'
    BY <2>4 DEF Describes
  <2>7. Planned(e, x)'
    BY <2>3, <2>5, <2>6 DEF Planned
  <2> QED
    BY <1>2, <2>1, <2>3, <2>4, <2>5, <2>7 DEF OnPlan
<1> QED
  BY <1>1, <1>2

\* So does a request whose engine goes on as before.
LEMMA RequestKept ==
  ASSUME StorageType, Progress, CacheRight, NEW r \in Reqs,
         status'[r] = status[r], output'[r] = output[r], computed'[r] = computed[r],
         blocks'[r] = blocks[r],
         status[r] = "running" => /\ row'[EngineOf[r]] = row[EngineOf[r]]
                                  /\ todo'[EngineOf[r]] = todo[EngineOf[r]]
                                  /\ kv'[EngineOf[r]] = kv[EngineOf[r]]
  PROVE  ProgressOf(r)' /\ EntriesRight(r)'
<1>1. WorksFor(EngineOf[r], r)' = WorksFor(EngineOf[r], r) \/ status[r] # "running"
  BY DEF WorksFor
<1>2. Length(r)' = Length(r)
  BY DEF Length
<1>3. \A l \in Layers : Sure(r, l)' = Sure(r, l)
  BY <1>1 DEF Sure, WorksFor
<1>4. ASSUME NEW l \in Layers, NEW p \in 1 .. Sure(r, l)'
      PROVE  kv'[EngineOf[r]][l][SlotOf(blocks'[r], p)] = Entry(r, p)
  <2>1. status[r] = "running"
    <3>1. status[r] # "running" => Sure(r, l) = 0
      BY DEF Sure
    <3> QED
      BY <1>3, <3>1
  <2>2. kv[EngineOf[r]][l][SlotOf(blocks[r], p)] = Entry(r, p)
    BY <1>3 DEF CacheRight, EntriesRight
  <2> QED
    BY <2>1, <2>2
<1> QED
  <2>1. ProgressOf(r)'
    BY <1>1, <1>2 DEF Progress, ProgressOf
  <2>2. EntriesRight(r)'
    BY <1>4 DEF EntriesRight
  <2> QED
    BY <2>1, <2>2

\* Giving blocks back gives none to two.
LEMMA ExclusiveKept ==
  ASSUME Exclusive, \A r \in Reqs : blocks'[r] = blocks[r] \/ blocks'[r] = <<>>
  PROVE  Exclusive'
<1> SUFFICES ASSUME NEW r \in Reqs, NEW q \in Reqs, EngineOf[r] = EngineOf[q],
                    NEW i \in 1 .. Len(blocks'[r]), NEW j \in 1 .. Len(blocks'[q]),
                    blocks'[r][i] = blocks'[q][j]
             PROVE  r = q /\ i = j
  BY DEF Exclusive
<1>1. blocks'[r] # <<>> /\ blocks'[q] # <<>>
  OBVIOUS
<1>2. blocks'[r] = blocks[r] /\ blocks'[q] = blocks[q]
  BY <1>1
<1> QED
  BY <1>2 DEF Exclusive

\* The files stay what they are.
LEMMA FilesKept == StoredIsRight /\ UNCHANGED files => StoredIsRight'
BY DEF StoredIsRight

-----------------------------------------------------------------------------
(* Steps of the scheduler.                                                  *)

\* A client sends a request: nothing is known of it yet.
LEMMA SubmitKeeps ==
  ASSUME StorageInv, NEW r \in Reqs, Submit(r)
  PROVE  StorageInv'
<1>1. StorageType /\ Progress /\ Exclusive /\ Working /\ CacheRight /\ StoredIsRight
  BY DEF StorageInv
<1>2. /\ status[r] = "unsent" /\ status' = [status EXCEPT ![r] = "waiting"]
      /\ UNCHANGED <<output, computed, blocks, alive, todo, row, kv, files, mishaps>>
  BY DEF Submit, worker, storage
<1>3. StorageType'
  BY <1>1, <1>2 DEF StorageType
<1>4. status'[r] = "waiting" /\ \A q \in Reqs \ {r} : status'[q] = status[q]
  BY <1>1, <1>2 DEF StorageType
<1>5. ASSUME NEW q \in Reqs PROVE ProgressOf(q)' /\ EntriesRight(q)'
  <2>1. CASE q # r
    BY <1>1, <1>2, <1>4, <2>1, RequestKept
  <2>2. CASE q = r
    <3>1. output'[r] < MaxOutput /\ blocks'[r] = <<>>
      BY <1>1, <1>2 DEF Progress, ProgressOf
    <3>2. ProgressOf(r)'
      BY <1>4, <3>1 DEF ProgressOf
    <3>3. \A l : Sure(r, l)' = 0
      BY <1>4 DEF Sure
    <3>4. EntriesRight(r)'
      BY <3>3 DEF EntriesRight
    <3> QED
      BY <2>2, <3>2, <3>4
  <2> QED
    BY <2>1, <2>2
<1>6. ASSUME NEW e \in Engines PROVE OnPlan(e)'
  <2>1. OnPlan(e)
    BY <1>1 DEF Working
  <2>2. ASSUME NEW q \in Reqs, WorksFor(e, q) PROVE q # r
    <3>1. row[e] # <<>> /\ row[e][1].req = q
      BY <2>2 DEF WorksFor
    <3>2. status[q] = "running"
      BY <2>1, <3>1 DEF OnPlan
    <3> QED
      BY <1>2, <3>2
  <2> QED
    BY <1>1, <1>2, <1>4, <2>1, <2>2, PlanKept
<1> QED
  BY <1>1, <1>2, <1>3, <1>5, <1>6, ExclusiveKept, FilesKept
  DEF StorageInv, Progress, Working, CacheRight

\* A preempted request gives its blocks back and is sure of nothing.
LEMMA PreemptKeeps ==
  ASSUME StorageInv, NEW r \in Reqs, Preempt(r)
  PROVE  StorageInv'
<1>1. StorageType /\ Progress /\ Exclusive /\ Working /\ CacheRight /\ StoredIsRight
  BY DEF StorageInv
<1>2. /\ row[EngineOf[r]] = <<>> /\ status[r] = "running" /\ mishaps < MaxMishaps
      /\ status' = [status EXCEPT ![r] = "preempted"]
      /\ computed' = [computed EXCEPT ![r] = 0] /\ blocks' = [blocks EXCEPT ![r] = <<>>]
      /\ mishaps' = mishaps + 1
      /\ UNCHANGED <<output, alive, todo, row, kv, files>>
  BY DEF Preempt, Idle, worker, storage
<1>3. StorageType'
  <2>1. mishaps' \in 0 .. MaxMishaps
    BY <1>1, <1>2, StorageAssumption DEF StorageType, StorageAssumption
  <2>2. blocks' \in [Reqs -> Seq(Ids)]
    BY <1>1, <1>2 DEF StorageType
  <2> QED
    BY <1>1, <1>2, <2>1, <2>2 DEF StorageType
<1>4. /\ status'[r] = "preempted" /\ blocks'[r] = <<>>
      /\ \A q \in Reqs \ {r} : /\ status'[q] = status[q] /\ computed'[q] = computed[q]
                               /\ blocks'[q] = blocks[q]
  BY <1>1, <1>2 DEF StorageType
<1>5. ASSUME NEW q \in Reqs PROVE ProgressOf(q)' /\ EntriesRight(q)'
  <2>1. CASE q # r
    BY <1>1, <1>2, <1>4, <2>1, RequestKept
  <2>2. CASE q = r
    <3>1. output'[r] < MaxOutput
      BY <1>1, <1>2 DEF Progress, ProgressOf
    <3>2. ProgressOf(r)'
      BY <1>4, <3>1 DEF ProgressOf
    <3>3. \A l : Sure(r, l)' = 0
      BY <1>4 DEF Sure
    <3>4. EntriesRight(r)'
      BY <3>3 DEF EntriesRight
    <3> QED
      BY <2>2, <3>2, <3>4
  <2> QED
    BY <2>1, <2>2
<1>6. ASSUME NEW e \in Engines PROVE OnPlan(e)'
  <2>1. OnPlan(e)
    BY <1>1 DEF Working
  <2>2. ASSUME NEW q \in Reqs, WorksFor(e, q) PROVE q # r
    <3>1. row[e] # <<>> /\ row[e][1].req = q
      BY <2>2 DEF WorksFor
    <3>2. EngineOf[q] = e
      BY <2>1, <3>1 DEF OnPlan
    <3> QED
      BY <1>2, <3>1, <3>2
  <2> QED
    BY <1>1, <1>2, <1>4, <2>1, <2>2, PlanKept
<1>7. Exclusive'
  BY <1>1, <1>4, ExclusiveKept
<1> QED
  BY <1>1, <1>2, <1>3, <1>5, <1>6, <1>7, FilesKept
  DEF StorageInv, Progress, Working, CacheRight

\* The output of a step: its request ends, or lacks the token it got.
LEMMA OutputKeeps ==
  ASSUME StorageInv, NEW e \in Engines, Output(e)
  PROVE  StorageInv'
<1>1. StorageType /\ Progress /\ Exclusive /\ Working /\ CacheRight /\ StoredIsRight
  BY DEF StorageInv
<1>2. PICK r : r = row[e][1].req
  OBVIOUS
<1>3. row[e] # <<>> /\ todo[e] = <<>>
  BY DEF Output
<1>4. /\ r \in Reqs /\ EngineOf[r] = e /\ status[r] = "running" /\ WorksFor(e, r)
      /\ computed[r] = Length(r) /\ output[r] < MaxOutput
      /\ Len(blocks[r]) = NumBlocksFor(computed[r])
  <2>1. r \in Reqs /\ WorksFor(e, r)
    BY <1>1, <1>2, <1>3, RowOf
  <2>2. EngineOf[r] = e /\ status[r] = "running"
    BY <1>1, <1>2, <1>3 DEF Working, OnPlan
  <2>3. ProgressOf(r)
    BY <1>1, <2>1 DEF Progress
  <2> QED
    BY <2>1, <2>2, <2>3 DEF ProgressOf
<1>5. PICK last \in BOOLEAN : last = (output[r] + 1 = MaxOutput)
  OBVIOUS
<1>6. /\ output' = [output EXCEPT ![r] = @ + 1]
      /\ status' = [status EXCEPT ![r] = IF last THEN "done" ELSE @]
      /\ blocks' = [blocks EXCEPT ![r] = IF last THEN <<>> ELSE @]
      /\ row' = [row EXCEPT ![e] = <<>>]
      /\ UNCHANGED <<computed, alive, todo, kv, files, mishaps>>
  BY <1>2, <1>5 DEF Output, storage
<1>7. /\ output'[r] = output[r] + 1
      /\ status'[r] = (IF last THEN "done" ELSE "running")
      /\ blocks'[r] = (IF last THEN <<>> ELSE blocks[r])
      /\ row'[e] = <<>>
      /\ \A q \in Reqs \ {r} : /\ status'[q] = status[q] /\ output'[q] = output[q]
                               /\ blocks'[q] = blocks[q]
      /\ \A f \in Engines \ {e} : row'[f] = row[f]
  BY <1>1, <1>4, <1>6 DEF StorageType
<1>8. output[r] \in Nat /\ MaxOutput \in Nat \ {0} /\ output[r] + 1 <= MaxOutput
  <2>1. output[r] \in 0 .. MaxOutput /\ MaxOutput \in Nat \ {0}
    BY <1>1, <1>4, StorageAssumption DEF StorageType, StorageAssumption
  <2> QED
    BY <1>4, <2>1
<1>9. StorageType'
  <2>1. output' \in [Reqs -> 0 .. MaxOutput]
    BY <1>1, <1>4, <1>6, <1>8 DEF StorageType
  <2>2. blocks' \in [Reqs -> Seq(Ids)]
    BY <1>1, <1>4, <1>6 DEF StorageType
  <2>3. status' \in [Reqs -> {"unsent", "waiting", "running", "preempted", "done"}]
    BY <1>1, <1>4, <1>6 DEF StorageType
  <2>4. row' \in [Engines -> {<<>>} \cup {<<x>> : x \in Rows}]
    BY <1>1, <1>6 DEF StorageType
  <2> QED
    BY <1>1, <1>6, <2>1, <2>2, <2>3, <2>4 DEF StorageType
<1>10. ASSUME NEW q \in Reqs, q # r PROVE ProgressOf(q)' /\ EntriesRight(q)'
  <2>1. CASE EngineOf[q] # e
    <3>1. EngineOf[q] \in Engines
      BY StorageAssumption DEF StorageAssumption
    <3> QED
      BY <1>1, <1>6, <1>7, <1>10, <2>1, <3>1, RequestKept
  <2>2. CASE EngineOf[q] = e
    <3>1. ~WorksFor(e, q) /\ ~WorksFor(e, q)'
      BY <1>2, <1>7, <1>10 DEF WorksFor
    <3>2. ProgressOf(q)'
      <4>1. ProgressOf(q)
        BY <1>1 DEF Progress
      <4>2. Length(q)' = Length(q)
        BY <1>7, <1>10 DEF Length
      <4> QED
        BY <1>6, <1>7, <1>10, <2>2, <3>1, <4>1, <4>2 DEF ProgressOf
    <3>3. \A l \in Layers : Sure(q, l)' = Sure(q, l)
      BY <1>6, <1>7, <1>10, <2>2, <3>1 DEF Sure
    <3>4. EntriesRight(q)'
      <4>1. EntriesRight(q)
        BY <1>1 DEF CacheRight
      <4> QED
        BY <1>6, <1>7, <1>10, <3>3, <4>1 DEF EntriesRight
    <3> QED
      BY <3>2, <3>4
  <2> QED
    BY <2>1, <2>2
<1>11. ProgressOf(r)' /\ EntriesRight(r)'
  <2>1. ~WorksFor(e, r)'
    BY <1>7 DEF WorksFor
  <2>2. ProgressOf(r)'
    <3>1. Length(r) \in Nat /\ Length(r)' = Length(r) + 1
      <4>1. Len(Prompt[r]) \in Nat
        BY <1>4, StorageAssumption DEF StorageAssumption
      <4> QED
        BY <1>7, <1>8, <4>1 DEF Length
    <3>2. status'[r] # "done" => output'[r] < MaxOutput
      <4>1. output[r] + 1 # MaxOutput => output[r] + 1 < MaxOutput
        BY <1>8
      <4>2. CASE output[r] + 1 = MaxOutput
        BY <1>5, <1>7, <4>2
      <4>3. CASE output[r] + 1 # MaxOutput
        BY <1>7, <4>1, <4>3
      <4> QED
        BY <4>2, <4>3
    <3>3. status'[r] # "running" => blocks'[r] = <<>>
      BY <1>7
    <3>4. status'[r] = "running" =>
            Len(blocks'[r]) = NumBlocksFor(computed'[r]) /\ computed'[r] = Length(r)' - 1
      BY <1>4, <1>6, <1>7, <3>1
    <3> QED
      BY <1>4, <2>1, <3>2, <3>3, <3>4 DEF ProgressOf
  <2>3. ASSUME NEW l \in Layers, NEW p \in 1 .. Sure(r, l)'
        PROVE  kv'[EngineOf[r]][l][SlotOf(blocks'[r], p)] = Entry(r, p)
    <3>1. status'[r] = "running" /\ ~last
      <4>1. status'[r] # "running" => Sure(r, l)' = 0
        BY DEF Sure
      <4> QED
        BY <1>7, <4>1
    <3>2. Sure(r, l)' = computed[r]
      BY <1>4, <1>6, <2>1, <3>1 DEF Sure
    <3>3. Sure(r, l) = computed[r]
      <4>1. NumLayers \in Nat /\ l \in 1 .. NumLayers
        BY StorageAssumption DEF StorageAssumption, Layers
      <4>2. Len(todo[e]) = 0
        BY <1>3
      <4> QED
        BY <1>4, <4>1, <4>2 DEF Sure
    <3>4. kv[EngineOf[r]][l][SlotOf(blocks[r], p)] = Entry(r, p)
      BY <1>1, <1>4, <3>2, <3>3 DEF CacheRight, EntriesRight
    <3> QED
      BY <1>6, <1>7, <3>1, <3>4
  <2> QED
    BY <2>2, <2>3 DEF EntriesRight
<1>12. ASSUME NEW f \in Engines PROVE OnPlan(f)'
  <2>1. CASE f = e
    BY <1>3, <1>6, <1>7, <2>1 DEF OnPlan
  <2>2. CASE f # e
    <3>1. OnPlan(f)
      BY <1>1 DEF Working
    <3>2. ASSUME NEW q \in Reqs, WorksFor(f, q) PROVE q # r
      <4>1. row[f] # <<>> /\ row[f][1].req = q
        BY <3>2 DEF WorksFor
      <4>2. EngineOf[q] = f
        BY <3>1, <4>1 DEF OnPlan
      <4> QED
        BY <1>4, <2>2, <4>2
    <3> QED
      BY <1>1, <1>6, <1>7, <2>2, <3>1, <3>2, PlanKept
  <2> QED
    BY <2>1, <2>2
<1>13. Exclusive'
  BY <1>1, <1>7, ExclusiveKept
<1> QED
  BY <1>1, <1>6, <1>9, <1>10, <1>11, <1>12, <1>13, FilesKept
  DEF StorageInv, Progress, Working, CacheRight

\* An engine starts again, with nothing to do.
LEMMA RestartKeeps ==
  ASSUME StorageInv, NEW e \in Engines, Restart(e)
  PROVE  StorageInv'
<1>1. StorageType /\ Progress /\ Exclusive /\ Working /\ CacheRight /\ StoredIsRight
  BY DEF StorageInv
<1>2. /\ alive' = alive \cup {e}
      /\ UNCHANGED <<status, output, computed, blocks, todo, row, kv, files, mishaps>>
  BY DEF Restart, sched, storage
<1>3. StorageType'
  BY <1>1, <1>2 DEF StorageType
<1>4. \A q \in Reqs : ProgressOf(q)' /\ EntriesRight(q)'
  BY <1>1, <1>2, RequestKept
<1>5. \A f \in Engines : OnPlan(f)'
  BY <1>1, <1>2, PlanKept DEF Working
<1>6. Exclusive'
  BY <1>1, <1>2, ExclusiveKept
<1> QED
  BY <1>1, <1>2, <1>3, <1>4, <1>5, <1>6, FilesKept
  DEF StorageInv, Progress, Working, CacheRight

\* An engine that ends leaves nothing behind but the files.
LEMMA EndedKeeps ==
  ASSUME StorageInv, NEW e \in Engines, Ended(e), UNCHANGED files, mishaps' \in 0 .. MaxMishaps
  PROVE  StorageInv'
<1>1. StorageType /\ Progress /\ Exclusive /\ Working /\ CacheRight /\ StoredIsRight
  BY DEF StorageInv
<1>2. /\ alive' = alive \ {e}
      /\ row' = [row EXCEPT ![e] = <<>>] /\ todo' = [todo EXCEPT ![e] = <<>>]
      /\ kv' = [kv EXCEPT ![e] = NoKvs]
  BY DEF Ended
<1> DEFINE lost == {r \in Reqs : EngineOf[r] = e /\ status[r] \notin {"unsent", "done"}}
<1>3. /\ status' = [r \in Reqs |-> IF r \in lost THEN "unsent" ELSE status[r]]
      /\ output' = [r \in Reqs |-> IF r \in lost THEN 0 ELSE output[r]]
      /\ computed' = [r \in Reqs |-> IF r \in lost THEN 0 ELSE computed[r]]
      /\ blocks' = [r \in Reqs |-> IF r \in lost THEN <<>> ELSE blocks[r]]
  BY DEF Ended
<1>4. row'[e] = <<>> /\ todo'[e] = <<>>
  BY <1>1, <1>2 DEF StorageType
<1>5. \A f \in Engines \ {e} : row'[f] = row[f] /\ todo'[f] = todo[f] /\ kv'[f] = kv[f]
  BY <1>1, <1>2 DEF StorageType
<1>6. MaxOutput \in Nat \ {0}
  BY StorageAssumption DEF StorageAssumption
<1>7. StorageType'
  <2>1. NoKvs \in Caches
    BY DEF NoKvs, NoKv, Caches
  <2>2. kv' \in [Engines -> Caches] /\ todo' \in [Engines -> Seq(Ops)]
    BY <1>1, <1>2, <2>1 DEF StorageType
  <2>3. row' \in [Engines -> {<<>>} \cup {<<x>> : x \in Rows}] /\ alive' \subseteq Engines
    BY <1>1, <1>2 DEF StorageType
  <2>4. status' \in [Reqs -> {"unsent", "waiting", "running", "preempted", "done"}]
    BY <1>1, <1>3 DEF StorageType
  <2>5. output' \in [Reqs -> 0 .. MaxOutput] /\ computed' \in [Reqs -> Nat]
    BY <1>1, <1>3, <1>6 DEF StorageType
  <2>6. blocks' \in [Reqs -> Seq(Ids)]
    BY <1>1, <1>3 DEF StorageType
  <2> QED
    BY <2>2, <2>3, <2>4, <2>5, <2>6 DEF StorageType
<1>8. ASSUME NEW q \in Reqs PROVE ProgressOf(q)' /\ EntriesRight(q)'
  <2>1. CASE q \in lost
    <3>1. status'[q] = "unsent" /\ output'[q] = 0 /\ blocks'[q] = <<>>
      BY <1>3, <2>1
    <3>2. \A l : Sure(q, l)' = 0
      BY <3>1 DEF Sure
    <3> QED
      BY <1>6, <3>1, <3>2 DEF ProgressOf, EntriesRight
  <2>2. CASE q \notin lost
    <3>1. /\ status'[q] = status[q] /\ output'[q] = output[q] /\ computed'[q] = computed[q]
          /\ blocks'[q] = blocks[q]
      BY <1>3, <2>2
    <3>2. status[q] = "running" => EngineOf[q] \in Engines \ {e}
      BY <2>2, StorageAssumption DEF StorageAssumption
    <3> QED
      BY <1>1, <1>5, <3>1, <3>2, RequestKept
  <2> QED
    BY <2>1, <2>2
<1>9. ASSUME NEW f \in Engines PROVE OnPlan(f)'
  <2>1. CASE f = e
    BY <1>4, <2>1 DEF OnPlan
  <2>2. CASE f # e
    <3>1. OnPlan(f)
      BY <1>1 DEF Working
    <3>2. ASSUME NEW q \in Reqs, WorksFor(f, q) PROVE q \notin lost
      <4>1. row[f] # <<>> /\ row[f][1].req = q
        BY <3>2 DEF WorksFor
      <4>2. EngineOf[q] = f
        BY <3>1, <4>1 DEF OnPlan
      <4> QED
        BY <2>2, <4>2
    <3>3. \A q \in Reqs : WorksFor(f, q) =>
            status'[q] = status[q] /\ computed'[q] = computed[q] /\ blocks'[q] = blocks[q]
      BY <1>3, <3>2
    <3> QED
      BY <1>1, <1>5, <2>2, <3>1, <3>3, PlanKept
  <2> QED
    BY <2>1, <2>2
<1>10. Exclusive'
  <2>1. \A q \in Reqs : blocks'[q] = blocks[q] \/ blocks'[q] = <<>>
    BY <1>3
  <2> QED
    BY <1>1, <2>1, ExclusiveKept
<1> QED
  BY <1>1, <1>7, <1>8, <1>9, <1>10, FilesKept
  DEF StorageInv, Progress, Working, CacheRight

\* An engine crashes.
LEMMA CrashKeeps ==
  ASSUME StorageInv, NEW e \in Engines, Crash(e)
  PROVE  StorageInv'
<1>1. Ended(e) /\ UNCHANGED files /\ mishaps' = mishaps + 1 /\ mishaps < MaxMishaps
  BY DEF Crash, storage
<1>2. mishaps \in 0 .. MaxMishaps /\ MaxMishaps \in Nat
  BY StorageAssumption DEF StorageInv, StorageType, StorageAssumption
<1>3. mishaps' \in 0 .. MaxMishaps
  BY <1>1, <1>2
<1> QED
  BY <1>1, <1>3, EndedKeeps

\* An engine ends because a file it wants to load is not there.
LEMMA LoadFailsKeeps ==
  ASSUME StorageInv, NEW e \in Engines, LoadFails(e)
  PROVE  StorageInv'
<1>1. Ended(e) /\ UNCHANGED files /\ UNCHANGED mishaps
  BY DEF LoadFails
<1>2. mishaps' \in 0 .. MaxMishaps
  BY <1>1 DEF StorageInv, StorageType
<1> QED
  BY <1>1, <1>2, EndedKeeps

-----------------------------------------------------------------------------
(* A new step.                                                              *)

\* Blocks that are given out are free and different.
LEMMA Allocated ==
  ASSUME StorageType, NEW e \in Engines, NEW k \in Nat, NEW bs \in Allocations(e, k)
  PROVE  /\ bs \in Seq(Ids) /\ Len(bs) = k
         /\ \A i, j \in 1 .. k : bs[i] = bs[j] => i = j
         /\ \A q \in Reqs : EngineOf[q] = e =>
              \A i \in 1 .. Len(blocks[q]), j \in 1 .. k : blocks[q][i] # bs[j]
<1>1. bs \in [1 .. k -> FreeBlocks(e)] /\ \A i, j \in 1 .. k : bs[i] = bs[j] => i = j
  BY DEF Allocations
<1>2. FreeBlocks(e) \subseteq Ids
  BY DEF FreeBlocks, Ids
<1>3. bs \in [1 .. k -> Ids]
  BY <1>1, <1>2
<1>4. bs \in Seq(Ids) /\ Len(bs) = k
  BY <1>3
<1>5. ASSUME NEW q \in Reqs, EngineOf[q] = e, NEW i \in 1 .. Len(blocks[q]), NEW j \in 1 .. k
      PROVE  blocks[q][i] # bs[j]
  <2>1. bs[j] \in FreeBlocks(e)
    BY <1>1
  <2>2. bs[j] \notin ToSet(blocks[q])
    BY <1>5, <2>1 DEF FreeBlocks
  <2>3. blocks[q] \in Seq(Ids)
    BY DEF StorageType
  <2>4. DOMAIN blocks[q] = 1 .. Len(blocks[q])
    BY <2>3
  <2> QED
    BY <2>2, <2>4 DEF ToSet
<1> QED
  BY <1>1, <1>4, <1>5

\* So they make the blocks of a request longer, and nobody else's.
LEMMA ExclusiveGrows ==
  ASSUME StorageType, Exclusive, NEW r \in Reqs, NEW k \in Nat,
         NEW bs \in Allocations(EngineOf[r], k), blocks'[r] = blocks[r] \o bs,
         \A q \in Reqs \ {r} : blocks'[q] = blocks[q]
  PROVE  /\ Exclusive' /\ blocks'[r] \in Seq(Ids) /\ Len(blocks'[r]) = Len(blocks[r]) + k
         /\ \A i \in 1 .. Len(blocks[r]) : blocks'[r][i] = blocks[r][i]
<1> DEFINE e == EngineOf[r]
           n == Len(blocks[r])
<1>1. e \in Engines
  BY StorageAssumption DEF StorageAssumption
<1>2. /\ bs \in Seq(Ids) /\ Len(bs) = k
      /\ \A i, j \in 1 .. k : bs[i] = bs[j] => i = j
      /\ \A q \in Reqs : EngineOf[q] = e =>
           \A i \in 1 .. Len(blocks[q]), j \in 1 .. k : blocks[q][i] # bs[j]
  BY <1>1, Allocated
<1>3. blocks[r] \in Seq(Ids) /\ n \in Nat
  BY DEF StorageType
<1>4. /\ blocks'[r] \in Seq(Ids) /\ Len(blocks'[r]) = n + k
      /\ \A i \in 1 .. n + k : blocks'[r][i] = IF i <= n THEN blocks[r][i] ELSE bs[i - n]
  <2>1. PICK s \in Seq(Ids) : s = blocks[r]
    BY <1>3
  <2>2. /\ s \o bs \in Seq(Ids) /\ Len(s \o bs) = Len(s) + Len(bs)
        /\ \A i \in 1 .. Len(s) + Len(bs) :
             (s \o bs)[i] = IF i <= Len(s) THEN s[i] ELSE bs[i - Len(s)]
    BY <1>2, ConcatProperties
  <2> QED
    BY <1>2, <2>1, <2>2
<1> HIDE DEF n
<1>5. ASSUME NEW q \in Reqs \ {r}, EngineOf[q] = e, NEW i \in 1 .. Len(blocks[q]),
             NEW j \in 1 .. n + k
      PROVE  blocks[q][i] # blocks'[r][j]
  <2>1. CASE j <= n
    BY <1>3, <1>4, <1>5, <2>1 DEF Exclusive, n
  <2>2. CASE ~(j <= n)
    <3>1. j - n \in 1 .. k
      BY <1>3, <2>2
    <3> QED
      BY <1>2, <1>4, <1>5, <2>2, <3>1
  <2> QED
    BY <2>1, <2>2
<1>6. ASSUME NEW i \in 1 .. n + k, NEW j \in 1 .. n + k, blocks'[r][i] = blocks'[r][j]
      PROVE  i = j
  <2>1. CASE i <= n /\ j <= n
    <3>1. i \in 1 .. n /\ j \in 1 .. n
      BY <1>3, <2>1
    <3>2. blocks[r][i] = blocks[r][j]
      BY <1>4, <1>6, <2>1
    <3> QED
      BY <3>1, <3>2 DEF Exclusive, n
  <2>2. CASE i <= n /\ ~(j <= n)
    <3>1. i \in 1 .. n /\ j - n \in 1 .. k
      BY <1>3, <2>2
    <3>2. blocks[r][i] = bs[j - n]
      BY <1>4, <1>6, <2>2
    <3> QED
      BY <1>2, <3>1, <3>2 DEF n
  <2>3. CASE ~(i <= n) /\ j <= n
    <3>1. i - n \in 1 .. k /\ j \in 1 .. n
      BY <1>3, <2>3
    <3>2. blocks[r][j] = bs[i - n]
      BY <1>4, <1>6, <2>3
    <3> QED
      BY <1>2, <3>1, <3>2 DEF n
  <2>4. CASE ~(i <= n) /\ ~(j <= n)
    <3>1. i - n \in 1 .. k /\ j - n \in 1 .. k
      BY <1>3, <2>4
    <3>2. bs[i - n] = bs[j - n]
      BY <1>4, <1>6, <2>4
    <3>3. i - n = j - n
      BY <1>2, <3>1, <3>2
    <3> QED
      BY <1>3, <3>3
  <2> QED
    BY <2>1, <2>2, <2>3, <2>4
<1>7. Exclusive'
  <2> SUFFICES ASSUME NEW p \in Reqs, NEW q \in Reqs, EngineOf[p] = EngineOf[q],
                      NEW i \in 1 .. Len(blocks'[p]), NEW j \in 1 .. Len(blocks'[q]),
                      blocks'[p][i] = blocks'[q][j]
               PROVE  p = q /\ i = j
    BY DEF Exclusive
  <2>1. CASE p = r /\ q = r
    BY <1>4, <1>6, <2>1
  <2>2. CASE p = r /\ q # r
    <3>1. q \in Reqs \ {r} /\ blocks'[q] = blocks[q] /\ EngineOf[q] = e
      BY <2>2
    <3>2. j \in 1 .. Len(blocks[q]) /\ i \in 1 .. n + k
      BY <1>4, <2>2, <3>1
    <3>3. blocks[q][j] = blocks'[r][i]
      BY <2>2, <3>1
    <3> QED
      BY <1>5, <3>1, <3>2, <3>3
  <2>3. CASE p # r /\ q = r
    <3>1. p \in Reqs \ {r} /\ blocks'[p] = blocks[p] /\ EngineOf[p] = e
      BY <2>3
    <3>2. i \in 1 .. Len(blocks[p]) /\ j \in 1 .. n + k
      BY <1>4, <2>3, <3>1
    <3>3. blocks[p][i] = blocks'[r][j]
      BY <2>3, <3>1
    <3> QED
      BY <1>5, <3>1, <3>2, <3>3
  <2>4. CASE p # r /\ q # r
    <3>1. blocks'[p] = blocks[p] /\ blocks'[q] = blocks[q]
      BY <2>4
    <3> QED
      BY <3>1 DEF Exclusive
  <2> QED
    BY <2>1, <2>2, <2>3, <2>4
<1> QED
  BY <1>3, <1>4, <1>7 DEF n

\* The description of tokens a request has.
Meta(r, bs, n) == [key |-> Entry(r, n), slots |-> SlotMapping(bs, n)]

\* It is one that can be stored or loaded.
LEMMA MetaType ==
  ASSUME NEW r \in Reqs, NEW m \in Nat, NEW n \in 0 .. m,
         NEW bs \in Seq(Ids), Len(bs) = NumBlocksFor(m)
  PROVE  Meta(r, bs, n) \in Metas /\ Len(Meta(r, bs, n).key) = n
<1>1. Entry(r, n) \in Seq(Nat \ {0}) /\ Len(Entry(r, n)) = n
  BY EntryPrefix
<1>2. ASSUME NEW i \in 1 .. n PROVE SlotOf(bs, i) \in Slots
  <2>1. (i - 1) \div BlockSize + 1 \in 1 .. NumBlocksFor(m) /\ i \in Nat \ {0}
    <3>1. i \in 1 .. m /\ i \in Nat \ {0}
      OBVIOUS
    <3>2. \A k \in Nat : \A p \in 1 .. k :
            (p - 1) \div BlockSize + 1 \in 1 .. NumBlocksFor(k)
      BY Rounding
    <3> QED
      BY <3>1, <3>2
  <2>2. (i - 1) \div BlockSize + 1 <= Len(bs)
    BY <2>1
  <2> QED
    BY <2>1, <2>2, SlotPlace
<1>3. SlotMapping(bs, n) \in [1 .. n -> Slots]
  BY <1>2 DEF SlotMapping
<1>4. SlotMapping(bs, n) \in Seq(Slots)
  BY <1>3
<1> QED
  BY <1>1, <1>4 DEF Meta, Metas

\* Loading and attending, layer by layer.
LoadsOf(ms) == IF ms = <<>> THEN <<>> ELSE [l \in Layers |-> Load(ms[1], l)]
AllLoads(ms) == FlattenSeq([i \in 1 .. Len(ms) |-> [l \in Layers |-> Load(ms[i], l)]])

\* What FlattenSeq makes of at most one description.
LEMMA LoadAll ==
  ASSUME NEW ms, NEW m, ms \in {<<>>, <<m>>}
  PROVE  AllLoads(ms) = LoadsOf(ms)
<1>1. CASE ms = <<>>
  BY <1>1 DEF FlattenSeq, AllLoads, LoadsOf
<1>2. CASE ms = <<m>>
  <2> DEFINE seqs == [i \in 1 .. Len(ms) |-> [l \in Layers |-> Load(ms[i], l)]]
             Flat(f) == f = [i \in 1 .. Len(seqs) |->
                               IF i = 1 THEN seqs[i] ELSE f[i - 1] \o seqs[i]]
  <2>1. Len(seqs) = 1 /\ seqs[1] = [l \in Layers |-> Load(m, l)]
    BY <1>2
  <2>2. Flat([i \in 1 .. 1 |-> seqs[1]])
    <3>1. \A i \in 1 .. 1 : i = 1
      OBVIOUS
    <3> HIDE DEF seqs
    <3> QED
      BY <2>1, <3>1
  <2>3. Flat(CHOOSE f : Flat(f))
    BY <2>2
  <2>4. (CHOOSE f : Flat(f))[1] = seqs[1]
    <3> HIDE DEF seqs
    <3>1. 1 \in 1 .. Len(seqs)
      BY <2>1
    <3> QED
      BY <2>3, <3>1
  <2>5. FlattenSeq(seqs) = (CHOOSE f : Flat(f))[Len(seqs)]
    <3> HIDE DEF seqs
    <3>1. Len(seqs) # 0
      BY <2>1
    <3> QED
      BY <3>1 DEF FlattenSeq
  <2>6. AllLoads(ms) = seqs[1]
    BY <2>1, <2>4, <2>5 DEF AllLoads
  <2>7. LoadsOf(ms) = seqs[1]
    BY <1>2 DEF LoadsOf
  <2> QED
    BY <2>6, <2>7
<1> QED
  BY <1>1, <1>2

\* A step begins: the engine has its plan, and either it loads what it does
\* not compute, or has it.
LEMMA StartKeeps ==
  ASSUME StorageInv, NEW r \in Reqs, NEW k \in Nat, NEW bs \in Allocations(EngineOf[r], k),
         NEW x \in Rows, x.req = r, x.from <= x.to, x.to = Length(r), NEW ops \in Seq(Ops),
         row[EngineOf[r]] = <<>>, status[r] # "done",
         Len(blocks[r]) + k = NumBlocksFor(Length(r)),
         row' = [row EXCEPT ![EngineOf[r]] = <<x>>],
         todo' = [todo EXCEPT ![EngineOf[r]] = ops],
         blocks' = [blocks EXCEPT ![r] = blocks[r] \o bs],
         computed' = [computed EXCEPT ![r] = Length(r)],
         status' = [status EXCEPT ![r] = "running"],
         UNCHANGED <<output, alive, kv, files, mishaps>>,
         Planned(EngineOf[r], x)',
         \/ Len(ops) = 2 * NumLayers
         \/ Len(ops) = NumLayers /\ x.from = 1
         \/ Len(ops) = NumLayers /\ status[r] = "running" /\ x.from = computed[r] + 1
  PROVE  StorageInv'
<1>1. StorageType /\ Progress /\ Exclusive /\ Working /\ CacheRight /\ StoredIsRight
  BY DEF StorageInv
<1>2. PICK e \in Engines : e = EngineOf[r]
  BY StorageAssumption DEF StorageAssumption
<1>3. /\ row'[e] = <<x>> /\ todo'[e] = ops /\ status'[r] = "running"
      /\ computed'[r] = Length(r) /\ blocks'[r] = blocks[r] \o bs
      /\ \A q \in Reqs \ {r} : /\ status'[q] = status[q] /\ computed'[q] = computed[q]
                               /\ blocks'[q] = blocks[q]
      /\ \A f \in Engines \ {e} : row'[f] = row[f] /\ todo'[f] = todo[f]
  BY <1>1, <1>2 DEF StorageType
<1>4. row'[e] # <<>> /\ row'[e][1] = x
  <2>1. <<x>> # <<>> /\ <<x>>[1] = x
    OBVIOUS
  <2> QED
    BY <1>3, <2>1
<1>5. output[r] \in Nat
  BY <1>1, StorageAssumption DEF StorageType, StorageAssumption
<1>6. Length(r) \in Nat /\ Length(r)' = Length(r)
  BY <1>5, TokensOf DEF Length
<1>7. /\ Exclusive' /\ blocks'[r] \in Seq(Ids) /\ Len(blocks'[r]) = NumBlocksFor(Length(r))
      /\ \A i \in 1 .. Len(blocks[r]) : blocks'[r][i] = blocks[r][i]
  BY <1>1, <1>3, ExclusiveGrows
<1>8. StorageType'
  <2>1. status' \in [Reqs -> {"unsent", "waiting", "running", "preempted", "done"}]
    BY <1>1 DEF StorageType
  <2>2. computed' \in [Reqs -> Nat]
    BY <1>1, <1>6 DEF StorageType
  <2>3. blocks' \in [Reqs -> Seq(Ids)]
    BY <1>1, <1>3, <1>7 DEF StorageType
  <2>4. todo' \in [Engines -> Seq(Ops)] /\ row' \in [Engines -> {<<>>} \cup {<<y>> : y \in Rows}]
    BY <1>1, <1>2 DEF StorageType
  <2> QED
    BY <1>1, <2>1, <2>2, <2>3, <2>4 DEF StorageType
<1>9. ASSUME NEW q \in Reqs, q # r PROVE ProgressOf(q)' /\ EntriesRight(q)'
  <2>1. CASE EngineOf[q] # e
    <3>1. EngineOf[q] \in Engines
      BY StorageAssumption DEF StorageAssumption
    <3> QED
      BY <1>1, <1>3, <1>9, <2>1, <3>1, RequestKept
  <2>2. CASE EngineOf[q] = e
    <3>1. ~WorksFor(e, q) /\ ~WorksFor(e, q)'
      BY <1>2, <1>3, <1>9 DEF WorksFor
    <3>2. ProgressOf(q)'
      <4>1. ProgressOf(q)
        BY <1>1 DEF Progress
      <4>2. Length(q)' = Length(q)
        BY DEF Length
      <4> QED
        BY <1>3, <1>9, <2>2, <3>1, <4>1, <4>2 DEF ProgressOf
    <3>3. \A l \in Layers : Sure(q, l)' = Sure(q, l)
      BY <1>3, <1>9, <2>2, <3>1 DEF Sure
    <3>4. EntriesRight(q)'
      <4>1. EntriesRight(q)
        BY <1>1 DEF CacheRight
      <4> QED
        BY <1>3, <1>9, <3>3, <4>1 DEF EntriesRight
    <3> QED
      BY <3>2, <3>4
  <2> QED
    BY <2>1, <2>2
<1>10. ProgressOf(r)'
  <2>1. WorksFor(e, r)'
    BY <1>4 DEF WorksFor
  <2>2. output'[r] < MaxOutput
    BY <1>1 DEF Progress, ProgressOf
  <2> QED
    BY <1>2, <1>3, <1>6, <1>7, <2>1, <2>2 DEF ProgressOf
<1>11. EntriesRight(r)'
  <2> SUFFICES ASSUME NEW l \in Layers, NEW p \in 1 .. Sure(r, l)'
               PROVE  kv'[EngineOf[r]][l][SlotOf(blocks'[r], p)] = Entry(r, p)
    BY DEF EntriesRight
  <2>1. NumLayers \in Nat \ {0} /\ l \in 1 .. NumLayers
    BY StorageAssumption DEF StorageAssumption, Layers
  <2>2. WorksFor(e, r)' /\ row'[e][1].from = x.from /\ x.from \in Nat \ {0}
    BY <1>4 DEF WorksFor, Rows
  <2>3. Sure(r, l)' = IF Len(ops) <= NumLayers - l THEN computed'[r]
                      ELSE IF Len(ops) <= 2 * NumLayers - l THEN x.from - 1 ELSE 0
    BY <1>2, <1>3, <2>2 DEF Sure
  <2>4. Len(ops) \in {NumLayers, 2 * NumLayers}
    OBVIOUS
  <2>5. Sure(r, l)' = IF Len(ops) = NumLayers THEN x.from - 1 ELSE 0
    BY <2>1, <2>3, <2>4
  <2>6. /\ Len(ops) = NumLayers /\ status[r] = "running" /\ x.from - 1 = computed[r]
        /\ computed[r] \in Nat /\ p \in 1 .. computed[r]
    <3>1. computed[r] \in Nat
      BY <1>1 DEF StorageType
    <3>2. Len(ops) = NumLayers /\ Sure(r, l)' = x.from - 1
      BY <2>5
    <3>3. x.from # 1
      BY <2>2, <3>2
    <3>4. Len(ops) # 2 * NumLayers
      BY <2>1, <3>2
    <3> QED
      BY <2>2, <3>1, <3>2, <3>3, <3>4
  <2>7. Sure(r, l) = computed[r]
    <3>1. ~WorksFor(e, r)
      BY <1>2 DEF WorksFor
    <3> QED
      BY <1>2, <2>6, <3>1 DEF Sure
  <2>8. kv[e][l][SlotOf(blocks[r], p)] = Entry(r, p)
    BY <1>1, <1>2, <2>6, <2>7 DEF CacheRight, EntriesRight
  <2>9. SlotOf(blocks'[r], p) = SlotOf(blocks[r], p)
    <3>1. Len(blocks[r]) = NumBlocksFor(computed[r])
      BY <1>1, <2>6 DEF Progress, ProgressOf
    <3>2. (p - 1) \div BlockSize + 1 \in 1 .. Len(blocks[r])
      BY <2>6, <3>1, Rounding
    <3> QED
      BY <1>7, <3>2 DEF SlotOf
  <2> QED
    BY <1>2, <2>8, <2>9
<1>12. ASSUME NEW f \in Engines PROVE OnPlan(f)'
  <2>1. CASE f = e
    <3>1. EngineOf[r] = e /\ status'[r] = "running" /\ x.to = computed'[r] /\ x.from <= x.to
      BY <1>2, <1>3
    <3>2. Planned(e, x)'
      BY <1>2
    <3> QED
      BY <1>4, <2>1, <3>1, <3>2 DEF OnPlan
  <2>2. CASE f # e
    <3>1. OnPlan(f)
      BY <1>1 DEF Working
    <3>2. ASSUME NEW q \in Reqs, WorksFor(f, q) PROVE q # r
      <4>1. row[f] # <<>> /\ row[f][1].req = q
        BY <3>2 DEF WorksFor
      <4>2. EngineOf[q] = f
        BY <3>1, <4>1 DEF OnPlan
      <4> QED
        BY <1>2, <2>2, <4>2
    <3> QED
      BY <1>1, <1>3, <2>2, <3>1, <3>2, PlanKept
  <2> QED
    BY <2>1, <2>2
<1> QED
  BY <1>1, <1>7, <1>8, <1>9, <1>10, <1>11, <1>12, FilesKept
  DEF StorageInv, Progress, Working, CacheRight

\* At most one description of the first tokens of r; a load of as many as need
\* not be computed; and a pass over the layers.
Described(ms, r, bs, size) == ms = <<>> \/ \E n \in 0 .. size : ms = <<Meta(r, bs, n)>>
Suffices(ms, x) == ms # <<>> => x.from <= Len(ms[1].key) + 1
Attends(st) == [l \in Layers |-> Attend(l, st)]

\* Loading what suffices and attending with what may be stored is a plan.
LEMMA PlanMade ==
  ASSUME NEW e \in Engines, NEW x \in Rows, NEW r \in Reqs, x.req = r,
         NEW size \in Nat, NEW bs \in Seq(Ids), Len(bs) = NumBlocksFor(size),
         NEW ms, Described(ms, r, bs, size), Suffices(ms, x),
         NEW st, Described(st, r, bs, size),
         todo'[e] = LoadsOf(ms) \o Attends(st), blocks'[r] = bs, computed'[r] = size
  PROVE  /\ todo'[e] \in Seq(Ops) /\ Planned(e, x)'
         /\ ms = <<>> => Len(todo'[e]) = NumLayers
         /\ ms # <<>> => Len(todo'[e]) = 2 * NumLayers
<1>1. PICK ops : ops = todo'[e]
  OBVIOUS
<1> DEFINE A == Attends(st)
           L == LoadsOf(ms)
<1>2. NumLayers \in Nat /\ Layers = 1 .. NumLayers
  BY StorageAssumption DEF StorageAssumption, Layers
<1>3. \A n \in 0 .. size : Meta(r, bs, n) \in Metas /\ Len(Meta(r, bs, n).key) = n
  BY MetaType
<1>4. PICK m \in Metas : /\ \E n \in 0 .. size : m = Meta(r, bs, n)
                         /\ ms # <<>> => ms[1] = m /\ x.from <= Len(m.key) + 1
  <2>1. CASE ms = <<>>
    <3>1. 0 \in 0 .. size
      OBVIOUS
    <3> QED
      BY <1>3, <2>1, <3>1
  <2>2. CASE ms # <<>>
    <3>1. PICK n \in 0 .. size : ms = <<Meta(r, bs, n)>>
      BY <2>2 DEF Described
    <3>2. ms[1] = Meta(r, bs, n)
      BY <3>1
    <3>3. x.from <= Len(ms[1].key) + 1
      BY <2>2 DEF Suffices
    <3> QED
      BY <1>3, <3>2, <3>3
  <2> QED
    BY <2>1, <2>2
<1>5. PICK w \in Metas : (\E n \in 0 .. size : w = Meta(r, bs, n)) /\ st \in {<<>>, <<w>>}
  <2>1. CASE st = <<>>
    <3>1. 0 \in 0 .. size
      OBVIOUS
    <3> QED
      BY <1>3, <2>1, <3>1
  <2>2. CASE st # <<>>
    BY <1>3, <2>2 DEF Described
  <2> QED
    BY <2>1, <2>2
<1>6. /\ A \in Seq(Ops) /\ Len(A) = NumLayers
      /\ \A l \in 1 .. NumLayers : A[l] = Attend(l, st)
  <2>1. \A l \in Layers : Attend(l, st) \in Ops
    BY <1>5 DEF Ops
  <2> QED
    BY <1>2, <2>1 DEF Attends
<1>7. /\ L \in Seq(Ops) /\ Len(L) = (IF ms = <<>> THEN 0 ELSE NumLayers)
      /\ ms # <<>> => \A l \in 1 .. NumLayers : L[l] = Load(m, l)
  <2>1. CASE ms = <<>>
    BY <2>1 DEF LoadsOf
  <2>2. CASE ms # <<>>
    <3>1. L = [l \in 1 .. NumLayers |-> Load(m, l)]
      BY <1>2, <1>4, <2>2 DEF LoadsOf
    <3>2. \A l \in 1 .. NumLayers : Load(m, l) \in Ops
      BY <1>2 DEF Ops
    <3> HIDE DEF L
    <3> QED
      BY <1>2, <2>2, <3>1, <3>2
  <2> QED
    BY <2>1, <2>2
<1> HIDE DEF A, L
<1>8. /\ ops \in Seq(Ops) /\ Len(ops) = Len(L) + NumLayers
      /\ \A i \in 1 .. Len(L) + NumLayers : ops[i] = IF i <= Len(L) THEN L[i] ELSE A[i - Len(L)]
  <2>1. ops = L \o A
    BY <1>1 DEF A, L
  <2>2. /\ L \o A \in Seq(Ops) /\ Len(L \o A) = Len(L) + Len(A)
        /\ \A i \in 1 .. Len(L) + Len(A) :
             (L \o A)[i] = IF i <= Len(L) THEN L[i] ELSE A[i - Len(L)]
    BY <1>6, <1>7, ConcatProperties
  <2> QED
    BY <1>6, <2>1, <2>2
<1>9. \A n \in 0 .. size : Describes(Meta(r, bs, n), r)'
  BY DEF Describes, Meta
<1>10. Len(ops) = IF ms = <<>> THEN NumLayers ELSE 2 * NumLayers
  BY <1>2, <1>7, <1>8
<1>11. ASSUME NEW k \in 1 .. Len(ops)
       PROVE  \E v \in Metas :
                /\ Describes(v, r)'
                /\ ops[Len(ops) + 1 - k] \in
                     IF k <= NumLayers
                     THEN {Attend(NumLayers + 1 - k, <<>>), Attend(NumLayers + 1 - k, <<v>>)}
                     ELSE {Load(v, 2 * NumLayers + 1 - k)}
                /\ k > NumLayers => x.from <= Len(v.key) + 1
  <2>1. /\ Len(L) \in Nat /\ k \in Nat /\ 1 <= k /\ k <= Len(ops)
        /\ Len(ops) = Len(L) + NumLayers
    BY <1>2, <1>7, <1>8
  <2>2. CASE k <= NumLayers
    <3>1. /\ Len(ops) + 1 - k \in 1 .. Len(L) + NumLayers /\ ~(Len(ops) + 1 - k <= Len(L))
          /\ Len(ops) + 1 - k - Len(L) = NumLayers + 1 - k
          /\ NumLayers + 1 - k \in 1 .. NumLayers
      BY <1>2, <1>8, <2>1, <2>2
    <3>2. ops[Len(ops) + 1 - k] = Attend(NumLayers + 1 - k, st)
      <4>1. PICK i, j : i = Len(ops) + 1 - k /\ j = NumLayers + 1 - k
        OBVIOUS
      <4>2. i \in 1 .. Len(L) + NumLayers /\ ~(i <= Len(L)) /\ i - Len(L) = j
        BY <1>2, <2>1, <2>2, <3>1, <4>1
      <4>3. ops[i] = A[j]
        BY <1>8, <4>2
      <4> QED
        BY <1>6, <3>1, <4>1, <4>3
    <3>3. Describes(w, r)'
      BY <1>5, <1>9
    <3>4. /\ ops[Len(ops) + 1 - k] \in
               {Attend(NumLayers + 1 - k, <<>>), Attend(NumLayers + 1 - k, <<w>>)}
          /\ ~(k > NumLayers)
      <4>1. ~(k > NumLayers)
        BY <1>2, <2>1, <2>2
      <4>2. CASE st = <<>>
        BY <3>2, <4>1, <4>2
      <4>3. CASE st = <<w>>
        BY <3>2, <4>1, <4>3
      <4> QED
        BY <1>5, <4>2, <4>3
    <3> QED
      BY <1>5, <2>2, <3>3, <3>4
  <2>3. CASE ~(k <= NumLayers)
    <3>1. ms # <<>> /\ Len(L) = NumLayers
      BY <1>2, <1>7, <1>10, <2>3
    <3>2. /\ Len(ops) + 1 - k \in 1 .. Len(L) + NumLayers /\ Len(ops) + 1 - k <= Len(L)
          /\ Len(ops) + 1 - k = 2 * NumLayers + 1 - k
          /\ 2 * NumLayers + 1 - k \in 1 .. NumLayers
      BY <1>2, <1>8, <2>1, <2>3, <3>1
    <3>3. ops[Len(ops) + 1 - k] = Load(m, 2 * NumLayers + 1 - k)
      BY <1>7, <1>8, <3>1, <3>2
    <3>4. Describes(m, r)'
      BY <1>4, <1>9
    <3> QED
      BY <1>4, <2>3, <3>1, <3>3, <3>4
  <2> QED
    BY <2>2, <2>3
<1>12. Len(ops) <= 2 * NumLayers
  BY <1>2, <1>10
<1>13. Planned(e, x)'
  BY <1>11, <1>12, <1>1 DEF Planned
<1> QED
  BY <1>8, <1>10, <1>13, <1>1

\* A running request is scheduled: nothing is loaded and nothing stored.
LEMMA DecodeKeeps ==
  ASSUME StorageInv, NEW r \in Reqs, DecodeAny(r)
  PROVE  StorageInv'
<1>1. StorageType /\ Progress /\ Working
  BY DEF StorageInv
<1>2. PICK e \in Engines : e = EngineOf[r]
  BY StorageAssumption DEF StorageAssumption
<1>3. PICK n : n = Len(AllTokens(r))
  OBVIOUS
<1>4. PICK k : k = NumBlocksFor(n) - Len(blocks[r])
  OBVIOUS
<1>5. PICK bs \in Allocations(e, k) : Decode(r, bs)
  BY <1>2, <1>3, <1>4 DEF DecodeAny
<1>6. PICK x : x = [req |-> r, from |-> computed[r] + 1, to |-> n]
  OBVIOUS
<1>7. PICK ops : ops = Attends(<<>>)
  OBVIOUS
<1>8. /\ row[e] = <<>> /\ status[r] = "running"
      /\ row' = [row EXCEPT ![e] = <<x>>] /\ todo' = [todo EXCEPT ![e] = ops]
      /\ blocks' = [blocks EXCEPT ![r] = @ \o bs] /\ computed' = [computed EXCEPT ![r] = n]
      /\ UNCHANGED <<status, output, alive, kv, files, mishaps>>
  BY <1>2, <1>3, <1>5, <1>6, <1>7 DEF Decode, Idle, storage, Attends
<1>9. output[r] \in Nat /\ computed[r] \in Nat /\ blocks[r] \in Seq(Ids)
  BY <1>1, StorageAssumption DEF StorageType, StorageAssumption
<1>10. n = Length(r) /\ n \in Nat
  BY <1>3, <1>9, TokensOf
<1>11. computed[r] = n - 1 /\ Len(blocks[r]) = NumBlocksFor(computed[r])
  <2>1. ~WorksFor(e, r)
    BY <1>8 DEF WorksFor
  <2> QED
    BY <1>1, <1>2, <1>8, <1>10, <2>1 DEF Progress, ProgressOf
<1>12. k \in Nat /\ Len(blocks[r]) + k = NumBlocksFor(n)
  <2>1. NumBlocksFor(computed[r]) \in Nat /\ NumBlocksFor(n) \in Nat
    BY <1>9, <1>10, Rounding
  <2>2. NumBlocksFor(computed[r]) <= NumBlocksFor(n)
    BY <1>9, <1>10, <1>11, Rounding
  <2> QED
    BY <1>4, <1>11, <2>1, <2>2
<1>13. x \in Rows /\ x.req = r /\ x.from = computed[r] + 1 /\ x.to = n /\ x.from <= x.to
  BY <1>6, <1>9, <1>10, <1>11 DEF Rows
<1>14. PICK all : all = blocks[r] \o bs
  OBVIOUS
<1>15. all \in Seq(Ids) /\ Len(all) = NumBlocksFor(n)
  <2>1. bs \in Seq(Ids) /\ Len(bs) = k
    BY <1>1, <1>5, <1>12, Allocated
  <2> QED
    BY <1>9, <1>12, <1>14, <2>1, ConcatProperties
<1>16. todo'[e] = ops /\ blocks'[r] = all /\ computed'[r] = n
  BY <1>1, <1>8, <1>14 DEF StorageType
<1>17. ops \in Seq(Ops) /\ Planned(e, x)' /\ Len(ops) = NumLayers
  <2>1. ops \in Seq(Ops)
    <3>1. \A l \in Layers : Attend(l, <<>>) \in Ops
      BY DEF Ops
    <3>2. NumLayers \in Nat /\ Layers = 1 .. NumLayers
      BY StorageAssumption DEF StorageAssumption, Layers
    <3> QED
      BY <1>7, <3>1, <3>2 DEF Attends
  <2>2. ops = <<>> \o ops
    BY <2>1
  <2>3. PICK ms : ms = <<>>
    OBVIOUS
  <2>4. ops = LoadsOf(ms) \o Attends(ms)
    BY <1>7, <2>2, <2>3 DEF LoadsOf
  <2>5. Len(ops) = NumLayers /\ Planned(e, x)'
    <3>1. Described(ms, r, all, n)
      BY <2>3 DEF Described
    <3>2. Suffices(ms, x)
      BY <2>3 DEF Suffices
    <3>3. /\ e \in Engines /\ x \in Rows /\ r \in Reqs /\ x.req = r /\ n \in Nat
          /\ all \in Seq(Ids) /\ Len(all) = NumBlocksFor(n)
          /\ todo'[e] = ops /\ blocks'[r] = all /\ computed'[r] = n
      BY <1>10, <1>13, <1>15, <1>16
    <3> QED
      BY <2>3, <2>4, <3>1, <3>2, <3>3, PlanMade
  <2> QED
    BY <2>1, <2>3, <2>5
<1>18. status' = [status EXCEPT ![r] = "running"]
  BY <1>1, <1>8 DEF StorageType
<1>19. blocks' = [blocks EXCEPT ![r] = blocks[r] \o bs]
  BY <1>8
<1>20. /\ row[EngineOf[r]] = <<>> /\ row' = [row EXCEPT ![EngineOf[r]] = <<x>>]
       /\ todo' = [todo EXCEPT ![EngineOf[r]] = ops] /\ Planned(EngineOf[r], x)'
       /\ bs \in Allocations(EngineOf[r], k)
  BY <1>2, <1>5, <1>8, <1>17
<1>21. /\ x.to = Length(r) /\ Len(blocks[r]) + k = NumBlocksFor(Length(r))
       /\ computed' = [computed EXCEPT ![r] = Length(r)]
  BY <1>8, <1>10, <1>12, <1>13
<1> QED
  BY <1>8, <1>12, <1>13, <1>17, <1>18, <1>19, <1>20, <1>21, StartKeeps

\* What a folder says of a prompt is never all of it.
LEMMA NumExternalBounds ==
  ASSUME NEW r \in Reqs, output[r] \in Nat
  PROVE  /\ NumExternal(r) \in Nat /\ NumExternal(r) < Length(r)
         /\ NumExternal(r) <= Align(Len(Prompt[r]) - 1)
<1>1. PICK n : n = Len(Prompt[r])
  OBVIOUS
<1>2. n \in Nat /\ n > 1 /\ n <= Length(r) /\ Length(r) \in Nat
  BY <1>1, StorageAssumption DEF StorageAssumption, Length
<1>3. n - 1 \in Nat \ {0}
  BY <1>2
<1>4. Align(n - 1) \in 0 .. n - 1
  BY <1>3, Rounding
<1>5. NumExternal(r) \in {0, Align(n - 1)}
  BY <1>1 DEF NumExternal, NumTokensToCheck
<1> QED
  BY <1>1, <1>2, <1>4, <1>5

\* What is loaded and stored for a request describes its tokens, and what is
\* loaded are all tokens that are not computed.
LEMMA AdmitPlan ==
  ASSUME StorageType, NEW r \in Reqs, NEW bs \in Seq(Ids), Len(bs) = NumBlocksFor(Length(r)),
         NEW x \in Rows, x.from = NumExternal(r) + 1
  PROVE  /\ NumExternal(r) \in Nat /\ NumExternal(r) < Length(r)
         /\ Described(Loads(r, bs), r, bs, Length(r)) /\ Suffices(Loads(r, bs), x)
         /\ Described(Stores(r, bs), r, bs, Length(r))
         /\ Loads(r, bs) = <<>> => NumExternal(r) = 0
<1>1. output[r] \in Nat
  BY StorageAssumption DEF StorageType, StorageAssumption
<1>2. Len(AllTokens(r)) = Length(r) /\ Length(r) \in Nat /\ Length(r) > 1
  BY <1>1, TokensOf
<1>3. PICK n : n = Len(Prompt[r])
  OBVIOUS
<1>4. n \in Nat /\ n > 1 /\ n <= Length(r)
  BY <1>1, <1>3, StorageAssumption DEF StorageAssumption, Length
<1>5. /\ Align(n) \in 0 .. n /\ Align(Length(r)) \in 0 .. Length(r)
      /\ Align(n - 1) \in 0 .. n - 1
      /\ Align(n - 1) <= Align(n) /\ Align(n - 1) <= Align(Length(r))
  <2>1. n - 1 \in Nat \ {0} /\ n \in Nat \ {0} /\ Length(r) \in Nat \ {0}
    BY <1>2, <1>4
  <2>2. n - 1 <= n /\ n - 1 <= Length(r)
    BY <1>2, <1>4
  <2> QED
    BY <2>1, <2>2, Rounding
<1>6. NumExternal(r) \in Nat /\ NumExternal(r) <= Align(n - 1) /\ NumExternal(r) < Length(r)
  BY <1>1, <1>3, NumExternalBounds
<1>7. MakeMeta(Prompt[r], bs) = Meta(r, bs, Align(n))
  BY <1>3, <1>5, PromptOf DEF MakeMeta, Meta
<1>8. MakeMeta(AllTokens(r), bs) = Meta(r, bs, Align(Length(r)))
  BY <1>1, <1>2, <1>5, TokensOf DEF MakeMeta, Meta
<1>9. /\ Meta(r, bs, Align(n)).key = Entry(r, Align(n))
       /\ Meta(r, bs, Align(Length(r))).key = Entry(r, Align(Length(r)))
       /\ Len(Entry(r, Align(n))) = Align(n)
       /\ Len(Entry(r, Align(Length(r)))) = Align(Length(r))
  <2>1. Align(n) \in Nat /\ Align(Length(r)) \in Nat
    BY <1>5
  <2> QED
    BY <2>1, EntryPrefix DEF Meta
<1>10. CASE NumExternal(r) <= 0
  <2>1. Loads(r, bs) = <<>>
    BY <1>10 DEF Loads
  <2>2. NumExternal(r) = 0
    BY <1>6, <1>10
  <2>3. Described(Loads(r, bs), r, bs, Length(r)) /\ Suffices(Loads(r, bs), x)
    BY <2>1 DEF Described, Suffices
  <2>4. Described(Stores(r, bs), r, bs, Length(r))
    <3>1. Stores(r, bs) \in {<<>>, <<Meta(r, bs, Align(n))>>}
      BY <1>7 DEF Stores
    <3>2. Align(n) \in 0 .. Length(r)
      BY <1>2, <1>4, <1>5
    <3> QED
      BY <3>1, <3>2 DEF Described
  <2> QED
    BY <1>6, <2>2, <2>3, <2>4
<1>11. CASE ~(NumExternal(r) <= 0)
  <2>1. PICK m \in {Align(n), Align(Length(r))} : Loads(r, bs) = <<Meta(r, bs, m)>>
    BY <1>7, <1>8, <1>11 DEF Loads
  <2>2. Loads(r, bs) # <<>> /\ Loads(r, bs)[1] = Meta(r, bs, m)
    BY <2>1
  <2>3. Len(Meta(r, bs, m).key) = m /\ m \in 0 .. Length(r) /\ NumExternal(r) <= m
    BY <1>2, <1>4, <1>5, <1>6, <1>9, <2>1
  <2>4. Described(Loads(r, bs), r, bs, Length(r)) /\ Suffices(Loads(r, bs), x)
    <3>1. x.from <= Len(Loads(r, bs)[1].key) + 1
      BY <1>6, <2>2, <2>3
    <3> QED
      BY <2>1, <2>3, <3>1 DEF Described, Suffices
  <2>5. Stores(r, bs) = <<>>
    BY <1>11 DEF Stores
  <2> QED
    BY <1>6, <2>2, <2>4, <2>5 DEF Described
<1> QED
  BY <1>10, <1>11

\* A request is admitted: what is found is loaded, what is not is stored.
LEMMA AdmitKeeps ==
  ASSUME StorageInv, NEW r \in Reqs, AdmitAny(r)
  PROVE  StorageInv'
<1>1. StorageType /\ Progress /\ Working
  BY DEF StorageInv
<1>2. PICK e \in Engines : e = EngineOf[r]
  BY StorageAssumption DEF StorageAssumption
<1>3. output[r] \in Nat /\ blocks[r] \in Seq(Ids)
  BY <1>1, StorageAssumption DEF StorageType, StorageAssumption
<1>4. PICK n \in Nat : n = Len(AllTokens(r)) /\ n = Length(r)
  BY <1>3, TokensOf
<1>5. PICK k \in Nat : k = NumBlocksFor(n)
  BY <1>4, Rounding
<1>6. PICK bs \in Allocations(e, k) : Admit(r, bs)
  BY <1>2, <1>4, <1>5 DEF AdmitAny
<1>7. PICK x : x = [req |-> r, from |-> NumExternal(r) + 1, to |-> n]
  OBVIOUS
<1>8. PICK ms, st : ms = Loads(r, bs) /\ st = Stores(r, bs)
  OBVIOUS
<1>9. PICK ops : ops = FlattenSeq([i \in 1 .. Len(ms) |-> [l \in Layers |-> Load(ms[i], l)]])
                         \o [l \in Layers |-> Attend(l, st)]
  OBVIOUS
<1>10. /\ row[e] = <<>> /\ status[r] \in {"waiting", "preempted"}
       /\ row' = [row EXCEPT ![e] = <<x>>] /\ todo' = [todo EXCEPT ![e] = ops]
       /\ blocks' = [blocks EXCEPT ![r] = bs] /\ computed' = [computed EXCEPT ![r] = n]
       /\ status' = [status EXCEPT ![r] = "running"]
       /\ UNCHANGED <<output, alive, kv, files, mishaps>>
  BY <1>2, <1>4, <1>6, <1>7, <1>8, <1>9 DEF Admit, Idle, storage
<1>11. blocks[r] = <<>>
  BY <1>1, <1>10 DEF Progress, ProgressOf
<1>12. bs \in Seq(Ids) /\ Len(bs) = k
  BY <1>1, <1>6, Allocated
<1>13. x \in Rows /\ x.req = r /\ x.from = NumExternal(r) + 1 /\ x.to = n /\ x.from <= x.to
  <2>1. NumExternal(r) \in Nat /\ NumExternal(r) < n
    BY <1>3, <1>4, NumExternalBounds
  <2> QED
    BY <1>4, <1>7, <2>1 DEF Rows
<1>14. /\ Described(ms, r, bs, n) /\ Suffices(ms, x) /\ Described(st, r, bs, n)
       /\ ms = <<>> => NumExternal(r) = 0
  BY <1>1, <1>4, <1>5, <1>8, <1>12, <1>13, AdmitPlan
<1>15. todo'[e] = ops /\ blocks'[r] = bs /\ computed'[r] = n
  BY <1>1, <1>10 DEF StorageType
<1>16. ops = LoadsOf(ms) \o Attends(st)
  <2>1. PICK m : ms \in {<<>>, <<m>>}
    BY <1>14 DEF Described
  <2>2. AllLoads(ms) = LoadsOf(ms)
    BY <2>1, LoadAll
  <2> QED
    BY <1>9, <2>2 DEF AllLoads, Attends
<1>17. /\ ops \in Seq(Ops) /\ Planned(e, x)'
       /\ ms = <<>> => Len(ops) = NumLayers
       /\ ms # <<>> => Len(ops) = 2 * NumLayers
  <2>1. /\ todo'[e] = LoadsOf(ms) \o Attends(st) /\ blocks'[r] = bs /\ computed'[r] = n
        /\ Len(bs) = NumBlocksFor(n)
    BY <1>5, <1>12, <1>15, <1>16
  <2>2. /\ x \in Rows /\ x.req = r /\ Described(ms, r, bs, n) /\ Suffices(ms, x)
        /\ Described(st, r, bs, n) /\ bs \in Seq(Ids) /\ n \in Nat
    BY <1>4, <1>12, <1>13, <1>14
  <2>3. ops \in Seq(Ops)
    BY <1>15, <2>1, <2>2, PlanMade
  <2>4. Planned(e, x)'
    BY <1>15, <2>1, <2>2, PlanMade
  <2>5. /\ ms = <<>> => Len(ops) = NumLayers
        /\ ms # <<>> => Len(ops) = 2 * NumLayers
    BY <1>15, <2>1, <2>2, PlanMade
  <2> QED
    BY <2>3, <2>4, <2>5
<1>18. blocks' = [blocks EXCEPT ![r] = blocks[r] \o bs] /\ Len(blocks[r]) + k = NumBlocksFor(n)
  <2>1. blocks[r] \o bs = bs /\ Len(blocks[r]) = 0
    BY <1>11, <1>12
  <2> QED
    BY <1>5, <1>10, <2>1
<1>19. /\ row[EngineOf[r]] = <<>> /\ row' = [row EXCEPT ![EngineOf[r]] = <<x>>]
       /\ todo' = [todo EXCEPT ![EngineOf[r]] = ops] /\ Planned(EngineOf[r], x)'
       /\ bs \in Allocations(EngineOf[r], k)
  BY <1>2, <1>6, <1>10, <1>17
<1>20. /\ x.to = Length(r) /\ Len(blocks[r]) + k = NumBlocksFor(Length(r))
       /\ computed' = [computed EXCEPT ![r] = Length(r)]
  BY <1>4, <1>10, <1>13, <1>18
<1>21. Len(ops) = 2 * NumLayers \/ (Len(ops) = NumLayers /\ x.from = 1)
  BY <1>13, <1>14, <1>17
<1>22. status[r] # "done"
  BY <1>10
<1> QED
  BY <1>10, <1>13, <1>17, <1>18, <1>19, <1>20, <1>21, <1>22, StartKeeps

-----------------------------------------------------------------------------
(* The work of a step.                                                      *)

\* What is left to do first, and for whom.
FirstLoads(e, m) ==
  Head(todo[e]).op = "load" =>
    /\ Len(todo[e]) > NumLayers /\ Head(todo[e]) = Load(m, 2 * NumLayers + 1 - Len(todo[e]))
    /\ row[e][1].from <= Len(m.key) + 1
FirstAttends(e, m) ==
  Head(todo[e]).op = "attend" =>
    /\ Len(todo[e]) <= NumLayers
    /\ \E st \in {<<>>, <<m>>} : Head(todo[e]) = Attend(NumLayers + 1 - Len(todo[e]), st)

\* It is the operation of the plan with that many left.
LEMMA NextOp ==
  ASSUME StorageType, Working, NEW e \in Engines, todo[e] # <<>>
  PROVE  /\ row[e] # <<>> /\ Len(todo[e]) \in 1 .. 2 * NumLayers
         /\ row[e][1].req \in Reqs /\ EngineOf[row[e][1].req] = e
         /\ status[row[e][1].req] = "running" /\ WorksFor(e, row[e][1].req)
         /\ row[e][1].to = computed[row[e][1].req] /\ row[e][1].from \in 1 .. row[e][1].to
         /\ \E m \in Metas : /\ Describes(m, row[e][1].req)
                             /\ FirstLoads(e, m) /\ FirstAttends(e, m)
<1>1. PICK x : x = row[e][1]
  OBVIOUS
<1>2. row[e] # <<>> /\ OnPlan(e)
  BY DEF Working, OnPlan
<1>3. /\ EngineOf[x.req] = e /\ status[x.req] = "running"
      /\ x.to = computed[x.req] /\ x.from <= x.to /\ Planned(e, x)
  BY <1>1, <1>2 DEF OnPlan
<1>4. x.req \in Reqs /\ x.from \in Nat \ {0} /\ x.to \in Nat /\ WorksFor(e, x.req)
  BY <1>1, <1>2, RowOf
<1>5. PICK L : L = Len(todo[e])
  OBVIOUS
<1>6. NumLayers \in Nat \ {0} /\ L \in Nat \ {0} /\ Head(todo[e]) = todo[e][1]
  <2>1. todo[e] \in Seq(Ops)
    BY DEF StorageType
  <2> QED
    BY <1>5, <2>1, StorageAssumption DEF StorageAssumption
<1>7. L <= 2 * NumLayers /\ L \in 1 .. Len(todo[e]) /\ L + 1 - L = 1
  BY <1>3, <1>5, <1>6 DEF Planned
<1>8. PICK m \in Metas :
        /\ Describes(m, x.req)
        /\ todo[e][1] \in IF L <= NumLayers
                          THEN {Attend(NumLayers + 1 - L, <<>>), Attend(NumLayers + 1 - L, <<m>>)}
                          ELSE {Load(m, 2 * NumLayers + 1 - L)}
        /\ L > NumLayers => x.from <= Len(m.key) + 1
  BY <1>3, <1>5, <1>7 DEF Planned
<1>9. FirstLoads(e, m) /\ FirstAttends(e, m)
  <2>1. CASE L <= NumLayers
    <3>1. PICK st \in {<<>>, <<m>>} : todo[e][1] = Attend(NumLayers + 1 - L, st)
      BY <1>8, <2>1
    <3>2. todo[e][1].op = "attend"
      BY <3>1 DEF Attend
    <3>3. FirstLoads(e, m)
      BY <1>6, <3>2 DEF FirstLoads
    <3>4. FirstAttends(e, m)
      BY <1>5, <1>6, <2>1, <3>1 DEF FirstAttends
    <3> QED
      BY <3>3, <3>4
  <2>2. CASE ~(L <= NumLayers)
    <3>1. todo[e][1] = Load(m, 2 * NumLayers + 1 - L) /\ L > NumLayers
      BY <1>6, <1>8, <2>2
    <3>2. todo[e][1].op = "load"
      BY <3>1 DEF Load
    <3>3. FirstLoads(e, m)
      BY <1>1, <1>5, <1>6, <1>8, <3>1 DEF FirstLoads
    <3>4. FirstAttends(e, m)
      BY <1>6, <3>2 DEF FirstAttends
    <3> QED
      BY <3>3, <3>4
  <2> QED
    BY <2>1, <2>2
<1>10. x.from \in 1 .. x.to /\ Len(todo[e]) \in 1 .. 2 * NumLayers
  BY <1>3, <1>4, <1>5, <1>6, <1>7
<1>11. \E w \in Metas : Describes(w, x.req) /\ FirstLoads(e, w) /\ FirstAttends(e, w)
  BY <1>8, <1>9
<1> QED
  BY <1>1, <1>2, <1>3, <1>4, <1>10, <1>11

\* What remains to be done is planned as before.
LEMMA PlanGoesOn ==
  ASSUME StorageType, Working, NEW e \in Engines, todo[e] # <<>>,
         todo' = [todo EXCEPT ![e] = Tail(@)], UNCHANGED <<status, computed, blocks, row>>
  PROVE  /\ Working' /\ todo' \in [Engines -> Seq(Ops)]
         /\ Len(todo'[e]) = Len(todo[e]) - 1
         /\ \A f \in Engines \ {e} : todo'[f] = todo[f]
<1>1. /\ todo'[e] = Tail(todo[e]) /\ \A f \in Engines \ {e} : todo'[f] = todo[f]
      /\ todo[e] \in Seq(Ops)
  BY DEF StorageType
<1>2. PICK s \in Seq(Ops) : s = todo[e]
  BY <1>1
<1>3. /\ Tail(s) \in Seq(Ops) /\ Len(Tail(s)) = Len(s) - 1 /\ Len(s) \in Nat
      /\ \A i \in 1 .. Len(s) - 1 : Tail(s)[i] = s[i + 1]
  BY <1>2
<1>4. todo' \in [Engines -> Seq(Ops)]
  BY <1>1, <1>2, <1>3 DEF StorageType
<1>5. ASSUME NEW f \in Engines PROVE OnPlan(f)'
  <2>1. OnPlan(f)
    BY DEF Working
  <2>2. CASE f # e
    BY <1>1, <2>1, <2>2, PlanKept
  <2>3. CASE f = e
    <3>1. row[e] # <<>>
      BY <2>1, <2>3 DEF OnPlan
    <3>2. PICK x : x = row[e][1]
      OBVIOUS
    <3>3. /\ EngineOf[x.req] = e /\ status[x.req] = "running" /\ x.to = computed[x.req]
          /\ x.from <= x.to /\ Planned(e, x)
      BY <2>1, <2>3, <3>1, <3>2 DEF OnPlan
    <3>4. PICK L \in Nat : L = Len(s)
      BY <1>3
    <3>5. ASSUME NEW k \in 1 .. L - 1 PROVE Tail(s)[L - 1 + 1 - k] = s[L + 1 - k]
      <4>1. PICK i : i = L - k
        OBVIOUS
      <4>2. i \in 1 .. L - 1 /\ L - 1 + 1 - k = i /\ L + 1 - k = i + 1
        BY <3>4, <4>1
      <4> QED
        BY <1>3, <3>4, <4>2
    <3>6. \A m : Describes(m, x.req) => Describes(m, x.req)'
      BY DEF Describes
    <3>7. L <= 2 * NumLayers /\ NumLayers \in Nat
      BY <1>2, <3>3, <3>4, StorageAssumption DEF Planned, StorageAssumption
    <3>8. ASSUME NEW k \in 1 .. L - 1
          PROVE  \E m \in Metas :
                   /\ Describes(m, x.req)'
                   /\ Tail(s)[L - 1 + 1 - k] \in
                        IF k <= NumLayers
                        THEN {Attend(NumLayers + 1 - k, <<>>), Attend(NumLayers + 1 - k, <<m>>)}
                        ELSE {Load(m, 2 * NumLayers + 1 - k)}
                   /\ k > NumLayers => x.from <= Len(m.key) + 1
      <4>1. k \in 1 .. Len(todo[e])
        BY <1>2, <3>4
      <4>2. PICK m \in Metas :
              /\ Describes(m, x.req)
              /\ todo[e][Len(todo[e]) + 1 - k] \in
                   IF k <= NumLayers
                   THEN {Attend(NumLayers + 1 - k, <<>>), Attend(NumLayers + 1 - k, <<m>>)}
                   ELSE {Load(m, 2 * NumLayers + 1 - k)}
              /\ k > NumLayers => x.from <= Len(m.key) + 1
        BY <3>3, <4>1 DEF Planned
      <4>3. Tail(s)[L - 1 + 1 - k] = todo[e][Len(todo[e]) + 1 - k]
        BY <1>2, <3>4, <3>5
      <4>4. Describes(m, x.req)'
        BY <3>6, <4>2
      <4> QED
        BY <4>2, <4>3, <4>4
    <3>9. Planned(e, x)'
      <4>1. todo'[e] = Tail(s) /\ Len(todo'[e]) = L - 1
        BY <1>1, <1>2, <1>3, <3>4
      <4>2. L - 1 <= 2 * NumLayers
        BY <3>7
      <4> QED
        BY <3>8, <4>1, <4>2 DEF Planned
    <3> QED
      BY <2>3, <3>1, <3>2, <3>3, <3>9 DEF OnPlan
  <2> QED
    BY <2>2, <2>3
<1> QED
  BY <1>1, <1>2, <1>3, <1>4, <1>5 DEF Working


OnlyLayer(e, l) ==
  /\ kv' \in [Engines -> Caches]
  /\ \A f \in Engines \ {e} : kv'[f] = kv[f]
  /\ \A k \in Layers \ {l} : kv'[e][k] = kv[e][k]

\* One layer of an engine is written, in slots of its request only: what the
\* other requests have there stays.
LEMMA LayerWritten ==
  ASSUME StorageType, Progress, Exclusive, Working, CacheRight,
         NEW e \in Engines, todo[e] # <<>>, NEW r \in Reqs, WorksFor(e, r),
         NEW l \in Layers, OnlyLayer(e, l), todo' = [todo EXCEPT ![e] = Tail(@)],
         UNCHANGED <<status, output, computed, blocks, alive, row, mishaps>>,
         \A s \in Slots : (\A i \in 1 .. computed[r] : SlotOf(blocks[r], i) # s) =>
           kv'[e][l][s] = kv[e][l][s],
         \A p \in 1 .. Sure(r, l)' : kv'[e][l][SlotOf(blocks[r], p)] = Entry(r, p),
         \A k \in Layers \ {l} : Sure(r, k)' = Sure(r, k)
  PROVE  StorageType' /\ Progress' /\ Exclusive' /\ Working' /\ CacheRight'
<1>1. /\ \A k \in Layers \ {l} : kv'[e][k] = kv[e][k]
      /\ \A f \in Engines \ {e} : kv'[f] = kv[f]
      /\ kv' \in [Engines -> Caches]
  BY DEF OnlyLayer
<1>2. /\ Working' /\ todo' \in [Engines -> Seq(Ops)]
      /\ \A f \in Engines \ {e} : todo'[f] = todo[f]
  BY PlanGoesOn
<1>3. StorageType'
  BY <1>1, <1>2 DEF StorageType
<1>4. Exclusive'
  BY ExclusiveKept
<1>5. row[e][1].req = r /\ EngineOf[r] = e /\ status[r] = "running"
  <2>1. row[e] # <<>> /\ row[e][1].req = r
    BY DEF WorksFor
  <2> QED
    BY <2>1 DEF Working, OnPlan
<1>6. ASSUME NEW q \in Reqs PROVE ProgressOf(q)' /\ EntriesRight(q)'
  <2>1. CASE EngineOf[q] # e
    <3>1. EngineOf[q] \in Engines
      BY StorageAssumption DEF StorageAssumption
    <3> QED
      BY <1>1, <1>2, <2>1, <3>1, RequestKept
  <2>2. ASSUME EngineOf[q] = e PROVE ProgressOf(q)'
    <3>1. WorksFor(e, q)' = WorksFor(e, q) /\ Length(q)' = Length(q)
      BY DEF WorksFor, Length
    <3>2. ProgressOf(q)
      BY DEF Progress
    <3> QED
      BY <2>2, <3>1, <3>2 DEF ProgressOf
  <2>3. CASE q = r
    <3>1. ASSUME NEW k \in Layers, NEW p \in 1 .. Sure(r, k)'
          PROVE  kv'[e][k][SlotOf(blocks'[r], p)] = Entry(r, p)
      <4>1. CASE k = l
        BY <1>1, <4>1
      <4>2. CASE k # l
        <5>1. Sure(r, k)' = Sure(r, k) /\ kv'[e][k] = kv[e][k]
          BY <1>1, <4>2
        <5>2. kv[e][k][SlotOf(blocks[r], p)] = Entry(r, p)
          BY <1>5, <5>1 DEF CacheRight, EntriesRight
        <5> QED
          BY <5>1, <5>2
      <4> QED
        BY <4>1, <4>2
    <3>2. EntriesRight(r)'
      BY <1>5, <3>1 DEF EntriesRight
    <3> QED
      BY <1>5, <2>2, <2>3, <3>2
  <2>4. CASE q # r /\ EngineOf[q] = e
    <3>1. ~WorksFor(e, q)
      BY <1>5, <2>4 DEF WorksFor
    <3>2. \A k \in Layers : Sure(q, k)' = Sure(q, k)
      BY <2>4, <3>1 DEF Sure, WorksFor
    <3>3. ASSUME NEW k \in Layers, NEW p \in 1 .. Sure(q, k)'
          PROVE  kv'[e][k][SlotOf(blocks'[q], p)] = Entry(q, p)
      <4>1. kv[e][k][SlotOf(blocks[q], p)] = Entry(q, p)
        BY <2>4, <3>2 DEF CacheRight, EntriesRight
      <4>2. status[q] = "running" /\ p \in 1 .. computed[q]
        BY <2>4, <3>1, <3>2 DEF Sure
      <4>3. SlotOf(blocks[q], p) \in Slots
        BY <4>2, SlotsOfOne DEF StorageType
      <4>4. \A i \in 1 .. computed[r] : SlotOf(blocks[r], i) # SlotOf(blocks[q], p)
        BY <1>5, <2>4, <4>2, SlotsOfTwo
      <4>5. k = l => kv'[e][l][SlotOf(blocks[q], p)] = kv[e][l][SlotOf(blocks[q], p)]
        BY <4>3, <4>4
      <4>6. kv'[e][k][SlotOf(blocks[q], p)] = kv[e][k][SlotOf(blocks[q], p)]
        BY <1>1, <4>5
      <4> QED
        BY <4>1, <4>6
    <3>4. EntriesRight(q)'
      BY <2>4, <3>3 DEF EntriesRight
    <3> QED
      BY <2>2, <2>4, <3>4
  <2> QED
    BY <2>1, <2>3, <2>4
<1> QED
  BY <1>2, <1>3, <1>4, <1>6 DEF Progress, CacheRight


\* Entries of tokens are entries.
LEMMA EntryType ==
  ASSUME NEW r \in Reqs, NEW p \in Nat
  PROVE  Entry(r, p) \in Seq(Int)
<1>1. Entry(r, p) \in Seq(Nat \ {0})
  BY EntryPrefix
<1> QED
  BY <1>1

\* A file is loaded: at least the tokens that are not computed are right then.
LEMMA LoadFileKeeps ==
  ASSUME StorageInv, NEW e \in Engines, LoadFile(e)
  PROVE  StorageInv'
<1>1. StorageType /\ Progress /\ Exclusive /\ Working /\ CacheRight /\ StoredIsRight
  BY DEF StorageInv
<1>2. todo[e] # <<>> /\ Head(todo[e]).op = "load"
  BY DEF LoadFile
<1>3. PICK r, x, L : r = row[e][1].req /\ x = row[e][1] /\ L = Len(todo[e])
  OBVIOUS
<1>4. /\ r \in Reqs /\ EngineOf[r] = e /\ status[r] = "running" /\ WorksFor(e, r)
      /\ L \in 1 .. 2 * NumLayers /\ x.to = computed[r] /\ x.from \in 1 .. x.to
  BY <1>1, <1>2, <1>3, NextOp
<1>5. PICK m \in Metas : Describes(m, r) /\ FirstLoads(e, m)
  BY <1>1, <1>2, <1>3, NextOp
<1>6. PICK l : l = 2 * NumLayers + 1 - L
  OBVIOUS
<1>7. L > NumLayers /\ Head(todo[e]) = Load(m, l) /\ x.from <= Len(m.key) + 1
  BY <1>2, <1>3, <1>5, <1>6 DEF FirstLoads
<1>8. NumLayers \in Nat \ {0} /\ l \in Layers /\ computed[r] \in Nat /\ x.to \in Nat
  <2>1. NumLayers \in Nat \ {0}
    BY StorageAssumption DEF StorageAssumption
  <2>2. l \in Layers
    BY <1>4, <1>6, <1>7, <2>1 DEF Layers
  <2>3. computed[r] \in Nat
    BY <1>1, <1>4 DEF StorageType
  <2> QED
    BY <1>4, <2>1, <2>2, <2>3
<1>9. PICK n \in 0 .. computed[r] : m.key = Entry(r, n) /\ m.slots = SlotMapping(blocks[r], n)
  BY <1>5 DEF Describes
<1>10. n \in Nat /\ n <= computed[r]
  BY <1>8, <1>9
<1>11. /\ Len(m.key) = n /\ \A p \in 1 .. n : SubSeq(m.key, 1, p) = Entry(r, p)
  <2>1. /\ Len(Entry(r, n)) = n
        /\ \A p \in 0 .. n : SubSeq(Entry(r, n), 1, p) = Entry(r, p)
    BY <1>4, <1>10, EntryPrefix
  <2> QED
    BY <1>9, <2>1
<1>12. PICK f : f = File(m.key, l)
  OBVIOUS
<1>13. /\ f \in DOMAIN files
       /\ kv' = [kv EXCEPT ![e][l] = Injected(@, m.slots, files[f])]
       /\ todo' = [todo EXCEPT ![e] = Tail(@)]
       /\ UNCHANGED <<status, output, computed, blocks, alive, row, files, mishaps>>
  <2>1. Head(todo[e]).meta = m /\ Head(todo[e]).layer = l
    BY <1>7 DEF Load
  <2>2. /\ f \in DOMAIN files /\ kv' = [kv EXCEPT ![e][l] = Injected(@, m.slots, files[f])]
        /\ todo' = [todo EXCEPT ![e] = Tail(@)]
    BY <1>12, <2>1 DEF LoadFile
  <2> QED
    BY <2>2 DEF LoadFile, sched
<1>14. \A i \in 1 .. n : files[f][i] = Entry(r, i) /\ files[f][i] \in Seq(Int)
  <2>1. files[f] = [p \in 1 .. Len(m.key) |-> SubSeq(m.key, 1, p)]
    <3>1. f.key = m.key
      BY <1>12 DEF File
    <3> QED
      BY <1>1, <1>13, <3>1 DEF StoredIsRight
  <2>2. \A i \in 1 .. n : files[f][i] = Entry(r, i)
    BY <1>11, <2>1
  <2>3. \A i \in 1 .. n : Entry(r, i) \in Seq(Int)
    BY <1>4, EntryType
  <2> QED
    BY <2>2, <2>3
<1>15. PICK old, slots, entries :
         old = kv[e][l] /\ slots = SlotMapping(blocks[r], n) /\ entries = files[f]
  OBVIOUS
<1>16. /\ old \in [Slots -> Seq(Int)] /\ slots \in [1 .. n -> Slots]
       /\ \A i \in 1 .. n : slots[i] = SlotOf(blocks[r], i)
       /\ \A i, j \in 1 .. n : slots[i] = slots[j] => i = j
  <2>1. old \in [Slots -> Seq(Int)]
    BY <1>1, <1>8, <1>15 DEF StorageType, Caches
  <2>2. /\ slots \in [1 .. n -> Slots]
        /\ \A i \in 1 .. n : slots[i] = SlotOf(blocks[r], i)
        /\ \A i, j \in 1 .. computed[r] : SlotOf(blocks[r], i) = SlotOf(blocks[r], j) => i = j
    BY <1>1, <1>4, <1>9, <1>15, SlotsOfOne
  <2>3. \A i \in 1 .. n : i \in 1 .. computed[r]
    BY <1>8, <1>10
  <2> QED
    BY <2>1, <2>2, <2>3
<1>17. PICK cache : cache = Injected(old, slots, entries)
  OBVIOUS
<1>18. /\ cache \in [Slots -> Seq(Int)]
       /\ \A i \in 1 .. n : cache[slots[i]] = entries[i]
       /\ \A s \in Slots : Elsewhere(s, slots, n) => cache[s] = old[s]
  <2>1. \A i \in 1 .. n : entries[i] \in Seq(Int)
    BY <1>14, <1>15
  <2>2. OwnSlots(slots, n)
    BY <1>16 DEF OwnSlots
  <2>3. n \in Nat /\ old \in [Slots -> Seq(Int)]
    BY <1>10, <1>16
  <2>4. Injected(old, slots, entries) \in [Slots -> Seq(Int)]
    BY <2>1, <2>2, <2>3, Injecting
  <2>5. \A i \in 1 .. n : Injected(old, slots, entries)[slots[i]] = entries[i]
    BY <2>1, <2>2, <2>3, Injecting
  <2>6. \A s \in Slots : Elsewhere(s, slots, n) =>
          Injected(old, slots, entries)[s] = old[s]
    BY <2>1, <2>2, <2>3, Injecting
  <2> QED
    BY <1>17, <2>4, <2>5, <2>6
<1>19. kv'[e][l] = cache /\ OnlyLayer(e, l)
  <2>1. kv' = [kv EXCEPT ![e][l] = cache]
    BY <1>9, <1>13, <1>15, <1>17
  <2> QED
    BY <1>1, <1>8, <1>18, <2>1 DEF OnlyLayer, StorageType, Caches
<1>20. ASSUME NEW s \in Slots, \A i \in 1 .. computed[r] : SlotOf(blocks[r], i) # s
       PROVE  kv'[e][l][s] = kv[e][l][s]
  <2>1. \A i \in 1 .. n : i \in 1 .. computed[r]
    BY <1>8, <1>10
  <2>2. \A i \in 1 .. n : slots[i] # s
    BY <1>16, <1>20, <2>1
  <2> QED
    BY <1>15, <1>18, <1>19, <2>2 DEF Elsewhere
<1>21. ASSUME NEW p \in 1 .. n PROVE kv'[e][l][SlotOf(blocks[r], p)] = Entry(r, p)
  <2>1. cache[slots[p]] = entries[p] /\ slots[p] = SlotOf(blocks[r], p)
    BY <1>16, <1>18
  <2>2. entries[p] = Entry(r, p)
    BY <1>14, <1>15
  <2> QED
    BY <1>19, <2>1, <2>2
<1>22. Len(todo'[e]) = L - 1
  BY <1>1, <1>2, <1>3, <1>13, PlanGoesOn
<1>23. /\ \A k \in Layers : Sure(r, k) = IF L <= 2 * NumLayers - k THEN x.from - 1 ELSE 0
       /\ \A k \in Layers : Sure(r, k)' = IF L - 1 <= 2 * NumLayers - k THEN x.from - 1 ELSE 0
  <2>1. ASSUME NEW k \in Layers PROVE ~(L <= NumLayers - k) /\ ~(L - 1 <= NumLayers - k)
    BY <1>4, <1>7, <1>8 DEF Layers
  <2>2. WorksFor(e, r)'
    BY <1>4, <1>13 DEF WorksFor
  <2> QED
    BY <1>3, <1>4, <1>13, <1>22, <2>1, <2>2 DEF Sure
<1>24. \A k \in Layers \ {l} : Sure(r, k)' = Sure(r, k)
  <2>1. \A k \in Layers \ {l} : L - 1 <= 2 * NumLayers - k <=> L <= 2 * NumLayers - k
    BY <1>4, <1>6, <1>8 DEF Layers
  <2> QED
    BY <1>23, <2>1
<1>25. \A p \in 1 .. Sure(r, l)' : kv'[e][l][SlotOf(blocks[r], p)] = Entry(r, p)
  <2>1. Sure(r, l)' = x.from - 1
    <3>1. L - 1 <= 2 * NumLayers - l
      BY <1>4, <1>6, <1>8
    <3> QED
      BY <1>8, <1>23, <3>1
  <2>2. x.from - 1 <= n /\ x.from \in Nat
    BY <1>4, <1>7, <1>8, <1>10, <1>11
  <2>3. \A p \in 1 .. x.from - 1 : p \in 1 .. n
    BY <1>10, <2>2
  <2> QED
    BY <1>21, <2>1, <2>3
<1>26. StorageType' /\ Progress' /\ Exclusive' /\ Working' /\ CacheRight'
  BY <1>1, <1>2, <1>4, <1>8, <1>13, <1>19, <1>20, <1>24, <1>25, LayerWritten
<1> QED
  BY <1>1, <1>13, <1>26, FilesKept DEF StorageInv


\* Attending to a layer makes its entries right up to the last that is computed.
LEMMA Attended ==
  ASSUME StorageType, Progress, Exclusive, CacheRight, NEW e \in Engines, NEW r \in Reqs,
         EngineOf[r] = e, status[r] = "running", WorksFor(e, r), NEW x \in Rows,
         x.to = computed[r], x.from \in 1 .. x.to, NEW l \in Layers, Sure(r, l) = x.from - 1
  PROVE  /\ Computed(r, x, kv[e][l]) \in [Slots -> Seq(Int)]
         /\ \A p \in 1 .. computed[r] :
              Computed(r, x, kv[e][l])[SlotOf(blocks[r], p)] = Entry(r, p)
         /\ \A s \in Slots : (\A i \in 1 .. computed[r] : SlotOf(blocks[r], i) # s) =>
              Computed(r, x, kv[e][l])[s] = kv[e][l][s]
<1>1. PICK a, b, n : a = x.from /\ b = x.to /\ n = b - a + 1
  OBVIOUS
<1>2. a \in Nat \ {0} /\ b \in Nat /\ a <= b /\ n \in Nat \ {0} /\ b = computed[r]
  BY <1>1 DEF Rows
<1>3. b = Length(r) /\ output[r] \in Nat
  <2>1. ProgressOf(r)
    BY DEF Progress
  <2>2. output[r] \in 0 .. MaxOutput /\ MaxOutput \in Nat
    BY StorageAssumption DEF StorageType, StorageAssumption
  <2> QED
    BY <1>2, <2>1, <2>2 DEF ProgressOf
<1>4. \A p \in 0 .. b : SubSeq(AllTokens(r), 1, p) = Entry(r, p)
  BY <1>3, TokensOf
<1>5. PICK old, slot : old = kv[e][l] /\ slot = SlotMapping(blocks[r], b)
  OBVIOUS
<1>6. /\ slot \in [1 .. b -> Slots] /\ \A i \in 1 .. b : slot[i] = SlotOf(blocks[r], i)
      /\ \A i, j \in 1 .. b : SlotOf(blocks[r], i) = SlotOf(blocks[r], j) => i = j
      /\ slot = [i \in 1 .. b |-> SlotOf(blocks[r], i)]
  <2>1. b \in 0 .. computed[r]
    BY <1>2
  <2>2. /\ slot \in [1 .. b -> Slots] /\ \A i \in 1 .. b : slot[i] = SlotOf(blocks[r], i)
        /\ \A i, j \in 1 .. b : SlotOf(blocks[r], i) = SlotOf(blocks[r], j) => i = j
    BY <1>2, <1>5, <2>1, SlotsOfOne
  <2> QED
    BY <1>5, <2>2 DEF SlotMapping
<1>7. PICK slots, entries :
        /\ slots = SubSeq(slot, a, b)
        /\ entries = [i \in 1 .. n |-> SubSeq(AllTokens(r), 1, a + i - 1)]
  OBVIOUS
<1>8. \A i \in 1 .. n : a + i - 1 \in 1 .. b
  BY <1>1, <1>2
<1>9. slots = [i \in 1 .. n |-> slot[a + i - 1]]
  <2>1. slot \in Seq(Slots) /\ Len(slot) = b
    BY <1>2, <1>6
  <2>2. SubSeq(slot, a, b) = [i \in 1 .. 1 + b - a |-> slot[i + a - 1]]
    BY <1>2, <2>1
  <2>3. 1 + b - a = n
    BY <1>1, <1>2
  <2>4. \A i \in 1 .. n : i + a - 1 = a + i - 1
    BY <1>2
  <2> QED
    BY <1>7, <2>2, <2>3, <2>4
<1>10. OwnSlots(slots, n) /\ \A i \in 1 .. n : slots[i] = SlotOf(blocks[r], a + i - 1)
  <2>1. \A i \in 1 .. n : slots[i] = SlotOf(blocks[r], a + i - 1) /\ slots[i] \in Slots
    BY <1>6, <1>8, <1>9
  <2>2. ASSUME NEW i \in 1 .. n, NEW j \in 1 .. n, slots[i] = slots[j] PROVE i = j
    <3>1. a + i - 1 = a + j - 1
      BY <1>6, <1>8, <2>1, <2>2
    <3> QED
      BY <1>2, <3>1
  <2>3. slots \in [1 .. n -> Slots]
    BY <1>9, <2>1
  <2> QED
    BY <2>1, <2>2, <2>3 DEF OwnSlots
<1>11. \A i \in 1 .. n : entries[i] = Entry(r, a + i - 1) /\ entries[i] \in Seq(Int)
  <2>1. ASSUME NEW i \in 1 .. n PROVE entries[i] = Entry(r, a + i - 1)
    <3>1. PICK p : p = a + i - 1
      OBVIOUS
    <3>2. p \in 0 .. b
      BY <1>2, <1>8, <3>1
    <3> QED
      BY <1>4, <1>7, <3>1, <3>2
  <2>2. ASSUME NEW i \in 1 .. n PROVE Entry(r, a + i - 1) \in Seq(Int)
    <3>1. a + i - 1 \in Nat
      BY <1>2, <1>8
    <3> QED
      BY <3>1, EntryType
  <2> QED
    BY <2>1, <2>2
<1>12. old \in [Slots -> Seq(Int)]
  BY <1>5 DEF StorageType, Caches
<1>13. \A p \in 1 .. a - 1 : old[slot[p]] = SubSeq(AllTokens(r), 1, p)
  <2>1. ASSUME NEW p \in 1 .. a - 1 PROVE old[slot[p]] = SubSeq(AllTokens(r), 1, p)
    <3>1. p \in 1 .. b /\ p \in 0 .. b
      BY <1>2
    <3>2. old[SlotOf(blocks[r], p)] = Entry(r, p)
      BY <1>1, <1>5 DEF CacheRight, EntriesRight
    <3>3. SubSeq(AllTokens(r), 1, p) = Entry(r, p)
      BY <1>4, <3>1
    <3>4. slot[p] = SlotOf(blocks[r], p)
      BY <1>6, <3>1
    <3> QED
      BY <3>2, <3>3, <3>4
  <2> QED
    BY <2>1
<1>14. PICK cache : cache = Injected(old, slots, entries)
  OBVIOUS
<1>15. Computed(r, x, kv[e][l]) = cache
  <2>1. Computed(r, x, old) =
          Injected(old, SubSeq(slot, a, b),
                   [i \in 1 .. n |-> IF \A p \in 1 .. a - 1 :
                                          old[slot[p]] = SubSeq(AllTokens(r), 1, p)
                                     THEN SubSeq(AllTokens(r), 1, a + i - 1) ELSE Bad])
    BY <1>1, <1>6 DEF Computed
  <2> QED
    BY <1>5, <1>7, <1>13, <1>14, <2>1
<1>16. /\ cache \in [Slots -> Seq(Int)]
       /\ \A i \in 1 .. n : cache[slots[i]] = entries[i]
       /\ \A s \in Slots : Elsewhere(s, slots, n) => cache[s] = old[s]
  <2>1. \A i \in 1 .. n : entries[i] \in Seq(Int)
    BY <1>11
  <2>2. OwnSlots(slots, n) /\ n \in Nat
    BY <1>2, <1>10
  <2>3. Injected(old, slots, entries) \in [Slots -> Seq(Int)]
    BY <1>12, <2>1, <2>2, Injecting
  <2>4. \A i \in 1 .. n : Injected(old, slots, entries)[slots[i]] = entries[i]
    BY <1>12, <2>1, <2>2, Injecting
  <2>5. \A s \in Slots : Elsewhere(s, slots, n) =>
          Injected(old, slots, entries)[s] = old[s]
    BY <1>12, <2>1, <2>2, Injecting
  <2> QED
    BY <1>14, <2>3, <2>4, <2>5
<1>17. ASSUME NEW s \in Slots, \A i \in 1 .. computed[r] : SlotOf(blocks[r], i) # s
       PROVE  cache[s] = old[s]
  <2>1. \A i \in 1 .. n : slots[i] # s
    BY <1>2, <1>8, <1>10, <1>17
  <2> QED
    BY <1>16, <2>1 DEF Elsewhere
<1>18. ASSUME NEW p \in 1 .. computed[r] PROVE cache[SlotOf(blocks[r], p)] = Entry(r, p)
  <2>1. CASE p < a
    <3>1. p \in 1 .. a - 1 /\ p \in 1 .. b /\ p \in 0 .. b
      BY <1>2, <2>1
    <3>2. old[SlotOf(blocks[r], p)] = Entry(r, p)
      BY <1>4, <1>6, <1>13, <3>1
    <3>3. SlotOf(blocks[r], p) \in Slots
      BY <1>6, <3>1
    <3>4. ASSUME NEW i \in 1 .. n PROVE slots[i] # SlotOf(blocks[r], p)
      <4>1. a + i - 1 \in 1 .. b /\ a + i - 1 # p
        BY <1>2, <1>8, <2>1
      <4> QED
        BY <1>6, <1>10, <3>1, <4>1
    <3> QED
      BY <1>16, <3>2, <3>3, <3>4 DEF Elsewhere
  <2>2. CASE ~(p < a)
    <3>1. PICK i : i = p + 1 - a
      OBVIOUS
    <3>2. i \in 1 .. n /\ a + i - 1 = p
      BY <1>1, <1>2, <2>2, <3>1
    <3>3. slots[i] = SlotOf(blocks[r], p) /\ entries[i] = Entry(r, p)
      BY <1>10, <1>11, <3>2
    <3> QED
      BY <1>16, <3>2, <3>3
  <2> QED
    BY <2>1, <2>2
<1> QED
  BY <1>5, <1>15, <1>16, <1>17, <1>18


\* The files once what is described in saved is stored.
FilesWith(saved, l, cache) ==
  LET new == {File(m.key, l) : m \in saved} IN
  [f \in DOMAIN files \cup new |->
     IF f \in new
     THEN LET m == CHOOSE m \in saved : m.key = f.key
          IN [i \in DOMAIN m.slots |-> cache[m.slots[i]]]
     ELSE files[f]]

\* A layer is attended to, and its entries of the prompt may be stored.
LEMMA AttendLayerKeeps ==
  ASSUME StorageInv, NEW e \in Engines, AttendLayer(e)
  PROVE  StorageInv'
<1>1. StorageType /\ Progress /\ Exclusive /\ Working /\ CacheRight /\ StoredIsRight
  BY DEF StorageInv
<1>2. todo[e] # <<>> /\ Head(todo[e]).op = "attend"
  BY DEF AttendLayer
<1>3. PICK r, x, L : r = row[e][1].req /\ x = row[e][1] /\ L = Len(todo[e])
  OBVIOUS
<1>4. /\ r \in Reqs /\ EngineOf[r] = e /\ status[r] = "running" /\ WorksFor(e, r)
      /\ L \in 1 .. 2 * NumLayers /\ x.to = computed[r] /\ x.from \in 1 .. x.to
      /\ x \in Rows
  BY <1>1, <1>2, <1>3, NextOp, RowOf
<1>5. PICK m \in Metas : Describes(m, r) /\ FirstAttends(e, m)
  BY <1>1, <1>2, <1>3, NextOp
<1>6. PICK l : l = NumLayers + 1 - L
  OBVIOUS
<1>7. /\ L <= NumLayers
      /\ \E st \in {<<>>, <<m>>} : Head(todo[e]) = Attend(l, st)
  BY <1>2, <1>3, <1>5, <1>6 DEF FirstAttends
<1>8. NumLayers \in Nat \ {0} /\ l \in Layers /\ computed[r] \in Nat /\ x.to \in Nat
  <2>1. NumLayers \in Nat \ {0}
    BY StorageAssumption DEF StorageAssumption
  <2>2. l \in Layers
    BY <1>4, <1>6, <1>7, <2>1 DEF Layers
  <2>3. computed[r] \in Nat
    BY <1>1, <1>4 DEF StorageType
  <2> QED
    BY <1>4, <2>1, <2>2, <2>3
<1>9. PICK n \in 0 .. computed[r] : m.key = Entry(r, n) /\ m.slots = SlotMapping(blocks[r], n)
  BY <1>5 DEF Describes
<1>10. n \in Nat /\ n <= computed[r]
  BY <1>8, <1>9
<1>11. PICK cache : cache = Computed(r, x, kv[e][l])
  OBVIOUS
<1>12. PICK saved \in SUBSET {m} :
         /\ kv' = [kv EXCEPT ![e][l] = cache]
         /\ files' = FilesWith(saved, l, cache)
  <2>1. PICK st \in {<<>>, <<m>>} : Head(todo[e]) = Attend(l, st)
    BY <1>7
  <2>2. Head(todo[e]).layer = l /\ Head(todo[e]).stores = st
    BY <2>1 DEF Attend
  <2>3. {st[i] : i \in DOMAIN st} \in SUBSET {m}
    OBVIOUS
  <2>4. kv' = [kv EXCEPT ![e][l] = cache]
    BY <1>3, <1>11, <2>2 DEF AttendLayer
  <2>5. files' = FilesWith({st[i] : i \in DOMAIN st}, l, cache)
    <3>1. LET op == Head(todo[e]) IN
          files' = FilesWith({op.stores[i] : i \in DOMAIN op.stores}, op.layer,
                             Computed(row[e][1].req, row[e][1], kv[e][op.layer]))
      BY DEF AttendLayer, FilesWith
    <3> QED
      BY <1>3, <1>11, <2>2, <3>1
  <2> QED
    BY <2>3, <2>4, <2>5
<1>13. /\ todo' = [todo EXCEPT ![e] = Tail(@)]
       /\ UNCHANGED <<status, output, computed, blocks, alive, row, mishaps>>
  BY DEF AttendLayer, sched
<1>14. Len(todo'[e]) = L - 1
  BY <1>1, <1>2, <1>3, <1>13, PlanGoesOn
<1>15. /\ \A k \in Layers : Sure(r, k) = IF L <= NumLayers - k THEN computed[r] ELSE x.from - 1
       /\ \A k \in Layers :
            Sure(r, k)' = IF L - 1 <= NumLayers - k THEN computed[r] ELSE x.from - 1
  <2>1. ASSUME NEW k \in Layers PROVE L <= 2 * NumLayers - k /\ L - 1 <= 2 * NumLayers - k
    BY <1>4, <1>7, <1>8 DEF Layers
  <2>2. WorksFor(e, r)'
    BY <1>4, <1>13 DEF WorksFor
  <2> QED
    BY <1>3, <1>4, <1>13, <1>14, <2>1, <2>2 DEF Sure
<1>16. Sure(r, l) = x.from - 1 /\ Sure(r, l)' = computed[r]
  <2>1. ~(L <= NumLayers - l) /\ L - 1 <= NumLayers - l
    BY <1>4, <1>6, <1>8
  <2> QED
    BY <1>8, <1>15, <2>1
<1>17. \A k \in Layers \ {l} : Sure(r, k)' = Sure(r, k)
  <2>1. \A k \in Layers \ {l} : L - 1 <= NumLayers - k <=> L <= NumLayers - k
    BY <1>4, <1>6, <1>8 DEF Layers
  <2> QED
    BY <1>15, <2>1
<1>18. /\ cache \in [Slots -> Seq(Int)]
       /\ \A p \in 1 .. computed[r] : cache[SlotOf(blocks[r], p)] = Entry(r, p)
       /\ \A s \in Slots : (\A i \in 1 .. computed[r] : SlotOf(blocks[r], i) # s) =>
            cache[s] = kv[e][l][s]
  <2>1. /\ Computed(r, x, kv[e][l]) \in [Slots -> Seq(Int)]
        /\ \A p \in 1 .. computed[r] :
             Computed(r, x, kv[e][l])[SlotOf(blocks[r], p)] = Entry(r, p)
        /\ \A s \in Slots : (\A i \in 1 .. computed[r] : SlotOf(blocks[r], i) # s) =>
             Computed(r, x, kv[e][l])[s] = kv[e][l][s]
    BY <1>1, <1>4, <1>8, <1>16, Attended
  <2> QED
    BY <1>11, <2>1
<1>19. kv'[e][l] = cache /\ OnlyLayer(e, l)
  BY <1>1, <1>8, <1>12, <1>18 DEF OnlyLayer, StorageType, Caches
<1>20. StorageType' /\ Progress' /\ Exclusive' /\ Working' /\ CacheRight'
  <2>1. \A s \in Slots : (\A i \in 1 .. computed[r] : SlotOf(blocks[r], i) # s) =>
          kv'[e][l][s] = kv[e][l][s]
    BY <1>18, <1>19
  <2>2. \A p \in 1 .. Sure(r, l)' : kv'[e][l][SlotOf(blocks[r], p)] = Entry(r, p)
    BY <1>16, <1>18, <1>19
  <2> QED
    BY <1>1, <1>2, <1>4, <1>8, <1>13, <1>17, <1>19, <2>1, <2>2, LayerWritten
<1>21. StoredIsRight'
  <2> DEFINE new == {File(w.key, l) : w \in saved}
  <2>1. SUFFICES ASSUME NEW f \in DOMAIN files'
                 PROVE  files'[f] = [p \in 1 .. Len(f.key) |-> SubSeq(f.key, 1, p)]
    BY DEF StoredIsRight
  <2>2. CASE f \in new
    <3>1. saved = {m} /\ f = File(m.key, l)
      BY <1>12, <2>2
    <3>2. f.key = m.key
      BY <3>1 DEF File
    <3>3. (CHOOSE w \in saved : w.key = f.key) = m
      BY <3>1, <3>2
    <3>4. files'[f] = [i \in DOMAIN m.slots |-> cache[m.slots[i]]]
      BY <1>12, <2>2, <3>3 DEF FilesWith
    <3>5. /\ DOMAIN m.slots = 1 .. n
          /\ \A i \in 1 .. n : m.slots[i] = SlotOf(blocks[r], i)
      BY <1>9 DEF SlotMapping
    <3>6. Len(f.key) = n /\ \A p \in 1 .. n : SubSeq(f.key, 1, p) = Entry(r, p)
      <4>1. /\ Len(Entry(r, n)) = n
            /\ \A p \in 0 .. n : SubSeq(Entry(r, n), 1, p) = Entry(r, p)
        BY <1>4, <1>10, EntryPrefix
      <4> QED
        BY <1>9, <3>2, <4>1
    <3>7. ASSUME NEW i \in 1 .. n PROVE cache[m.slots[i]] = SubSeq(f.key, 1, i)
      <4>1. i \in 1 .. computed[r]
        BY <1>8, <1>10
      <4>2. cache[SlotOf(blocks[r], i)] = Entry(r, i)
        BY <1>18, <4>1
      <4> QED
        BY <3>5, <3>6, <4>2
    <3> QED
      BY <3>4, <3>5, <3>6, <3>7
  <2>3. CASE f \notin new
    <3>1. f \in DOMAIN files /\ files'[f] = files[f]
      BY <1>12, <2>3 DEF FilesWith
    <3> QED
      BY <1>1, <3>1 DEF StoredIsRight
  <2> QED
    BY <2>2, <2>3
<1> QED
  BY <1>20, <1>21 DEF StorageInv

-----------------------------------------------------------------------------
(* The theorems.                                                            *)

\* Nothing is stored, computed or counted at first.
LEMMA StorageStart == Init => StorageInv
<1> SUFFICES ASSUME Init
             PROVE  StorageInv
  OBVIOUS
<1>1. MaxOutput \in Nat \ {0} /\ MaxMishaps \in Nat
  BY StorageAssumption DEF StorageAssumption
<1>2. StorageType
  <2>1. NoKvs \in Caches
    BY DEF NoKvs, NoKv, Caches
  <2>2. kv \in [Engines -> Caches]
    BY <2>1 DEF Init
  <2>3. blocks \in [Reqs -> Seq(Ids)] /\ todo \in [Engines -> Seq(Ops)]
    BY DEF Init
  <2> QED
    BY <1>1, <2>2, <2>3 DEF Init, StorageType
<1>3. ASSUME NEW r \in Reqs PROVE status[r] = "unsent" /\ output[r] = 0 /\ blocks[r] = <<>>
  BY DEF Init
<1>4. Progress
  BY <1>1, <1>3 DEF Progress, ProgressOf
<1>5. Exclusive
  BY <1>3 DEF Exclusive
<1>6. Working
  BY DEF Init, Working, OnPlan
<1>7. CacheRight
  <2>1. \A r \in Reqs, l \in Layers : Sure(r, l) = 0
    BY <1>3 DEF Sure
  <2> QED
    BY <2>1 DEF CacheRight, EntriesRight
<1>8. StoredIsRight
  BY DEF Init, StoredIsRight
<1> QED
  BY <1>2, <1>4, <1>5, <1>6, <1>7, <1>8 DEF StorageInv

\* No step of an engine, a client or a crash disturbs it.
LEMMA StorageStep == StorageInv /\ [Next]_vars => StorageInv'
<1> SUFFICES ASSUME StorageInv, [Next]_vars
             PROVE  StorageInv'
  OBVIOUS
<1>1. ASSUME NEW r \in Reqs, Submit(r) PROVE StorageInv'
  BY <1>1, SubmitKeeps
<1>2. ASSUME NEW r \in Reqs, AdmitAny(r) PROVE StorageInv'
  BY <1>2, AdmitKeeps
<1>3. ASSUME NEW r \in Reqs, DecodeAny(r) PROVE StorageInv'
  BY <1>3, DecodeKeeps
<1>4. ASSUME NEW r \in Reqs, Preempt(r) PROVE StorageInv'
  BY <1>4, PreemptKeeps
<1>5. ASSUME NEW e \in Engines, Output(e) PROVE StorageInv'
  BY <1>5, OutputKeeps
<1>6. ASSUME NEW e \in Engines, LoadFile(e) PROVE StorageInv'
  BY <1>6, LoadFileKeeps
<1>7. ASSUME NEW e \in Engines, LoadFails(e) PROVE StorageInv'
  BY <1>7, LoadFailsKeeps
<1>8. ASSUME NEW e \in Engines, AttendLayer(e) PROVE StorageInv'
  BY <1>8, AttendLayerKeeps
<1>9. ASSUME NEW e \in Engines, Crash(e) PROVE StorageInv'
  BY <1>9, CrashKeeps
<1>10. ASSUME NEW e \in Engines, Restart(e) PROVE StorageInv'
  BY <1>10, RestartKeeps
<1>11. CASE UNCHANGED vars
  <2>1. UNCHANGED <<status, output, computed, blocks, alive, todo, row, kv, files, mishaps>>
    BY <1>11 DEF vars, sched, worker, storage
  <2>2. StorageType /\ Progress /\ Exclusive /\ Working /\ CacheRight /\ StoredIsRight
    BY DEF StorageInv
  <2>3. StorageType' /\ Exclusive' /\ StoredIsRight'
    BY <2>1, <2>2 DEF StorageType, Exclusive, StoredIsRight
  <2>4. \A r \in Reqs : ProgressOf(r)' /\ EntriesRight(r)'
    BY <2>1, <2>2, RequestKept
  <2>5. \A e \in Engines : OnPlan(e)'
    BY <2>1, <2>2, PlanKept DEF Working
  <2> QED
    BY <2>3, <2>4, <2>5 DEF StorageInv, Progress, CacheRight, Working
<1> QED
  BY <1>1, <1>2, <1>3, <1>4, <1>5, <1>6, <1>7, <1>8, <1>9, <1>10, <1>11 DEF Next

\* The invariant holds for every number of engines, requests, layers, blocks,
\* crashes and preemptions.
THEOREM StorageInvHolds == Spec => []StorageInv
<1>1. Init => StorageInv
  BY StorageStart
<1>2. StorageInv /\ [Next]_vars => StorageInv'
  BY StorageStep
<1> QED
  BY <1>1, <1>2, PTL DEF Spec

\* The types of the variables, and that every scheduled row has a token to compute.
THEOREM TypeCorrect == Spec => []TypeOK
<1>1. StorageInv => TypeOK
  <2> SUFFICES ASSUME StorageInv
               PROVE  TypeOK
    OBVIOUS
  <2>1. StorageType /\ Working
    BY DEF StorageInv
  <2>2. ASSUME NEW e \in Engines, NEW i \in DOMAIN row[e]
        PROVE  row[e][i].from \in 1 .. row[e][i].to
    <3>1. row[e] # <<>> /\ i = 1
      BY <2>1 DEF StorageType
    <3>2. PICK x : x = row[e][1]
      OBVIOUS
    <3>3. x.from \in Nat \ {0} /\ x.to \in Nat
      BY <2>1, <3>1, <3>2, RowOf
    <3>4. x.from <= x.to
      BY <2>1, <3>1, <3>2 DEF Working, OnPlan
    <3> QED
      BY <3>1, <3>2, <3>3, <3>4
  <2> QED
    BY <2>1, <2>2 DEF StorageType, TypeOK
<1> QED
  BY <1>1, StorageInvHolds, PTL

\* A file of the shared directory holds the entries of the tokens its folder is
\* named after, whatever order engines write, read and crash in.
THEOREM StoredIsRightHolds == Spec => []StoredIsRight
<1>1. StorageInv => StoredIsRight
  BY DEF StorageInv
<1> QED
  BY <1>1, StorageInvHolds, PTL

\* After the forward pass of a step, every token an engine counts as computed has
\* its entry in every layer: loaded or computed, also after a preemption.
THEOREM ComputedIsRightHolds == Spec => []ComputedIsRight
<1>1. StorageInv => ComputedIsRight
  <2> SUFFICES ASSUME StorageInv, NEW r \in Reqs, status[r] = "running",
                      todo[EngineOf[r]] = <<>>, NEW l \in Layers, NEW p \in 1 .. computed[r]
               PROVE  kv[EngineOf[r]][l][SlotOf(blocks[r], p)] = SubSeq(AllTokens(r), 1, p)
    BY DEF ComputedIsRight
  <2>1. StorageType /\ Progress /\ CacheRight
    BY DEF StorageInv
  <2>2. Sure(r, l) = computed[r]
    <3>1. Len(todo[EngineOf[r]]) <= NumLayers - l
      BY StorageAssumption DEF StorageAssumption, Layers
    <3> QED
      BY <3>1 DEF Sure
  <2>3. kv[EngineOf[r]][l][SlotOf(blocks[r], p)] = Entry(r, p)
    BY <2>1, <2>2 DEF CacheRight, EntriesRight
  <2>4. output[r] \in Nat /\ computed[r] \in Nat
    BY <2>1, StorageAssumption DEF StorageType, StorageAssumption
  <2>5. p \in 0 .. Length(r)
    <3>1. ProgressOf(r)
      BY <2>1 DEF Progress
    <3>2. Length(r) \in Nat
      BY <2>4, TokensOf
    <3>3. computed[r] <= Length(r)
      BY <2>4, <3>1, <3>2 DEF ProgressOf
    <3> QED
      BY <2>4, <3>2, <3>3
  <2> QED
    BY <2>3, <2>4, <2>5, TokensOf
<1> QED
  BY <1>1, StorageInvHolds, PTL
=============================================================================
