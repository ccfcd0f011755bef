------------------------------- MODULE SpecDecode -------------------------------
(***************************************************************************)
(* Speculative decoding in one worker: execute_model flattens the rows of  *)
(* a batch, writes the KV cache and computes logits; sample_tokens runs    *)
(* the rejection sampler on them, the drafter (MluEagleProposer.propose    *)
(* with the padded batch) on what was kept, and the bookkeeping.  Both     *)
(* models write KV entries for tokens that are rejected afterwards, and    *)
(* rely on overwriting them before they are read.                          *)
(*                                                                         *)
(* Positions count from 0, flat indices and batch rows from 1.  A KV entry *)
(* is represented by the token it was computed from; the target model is a *)
(* function of the tokens it attends to, the draft model proposes any of   *)
(* Proposals.  The scheduler is reduced to what it may hand over: any      *)
(* non-empty set of requests, each with any number of its tokens that the  *)
(* budget may leave, drafts last.                                          *)
(***************************************************************************)
EXTENDS Integers, Sequences, FiniteSets, SequencesExt

CONSTANTS
  NumReqs,             \* requests 1..NumReqs, in the order of their batch index
  Prompt,              \* Prompt[r]: sequence of tokens
  GreedyReqs,          \* requests with temperature 0
  Tokens,              \* the vocabulary
  Target(_),           \* the target model's argmax after a sequence of tokens
  NumSpecTokens,       \* num_speculative_tokens
  Proposals,           \* what the draft model may propose: sequences of NumSpecTokens tokens
  MaxModelLen,
  BlockSize,
  BlockTable           \* BlockTable[r]: the block ids of request r

Reqs == 1..NumReqs
Slots == UNION {{b * BlockSize + i : b \in ToSet(BlockTable[r]), i \in 0..(BlockSize - 1)} : r \in Reqs}
NoToken == -1          \* PLACEHOLDER_TOKEN_ID; also an entry never written

ASSUME SpecAssumption ==
  /\ NumSpecTokens \in Nat \ {0} /\ BlockSize \in Nat \ {0} /\ MaxModelLen \in Nat
  /\ \A p \in Proposals : p \in Seq(Tokens) /\ Len(p) = NumSpecTokens
  /\ GreedyReqs \subseteq Reqs /\ NoToken \notin Tokens
  /\ \A r \in Reqs : /\ Prompt[r] \in Seq(Tokens)
                     /\ Len(Prompt[r]) \in 1..(MaxModelLen - 1)
                     /\ Len(BlockTable[r]) * BlockSize >= MaxModelLen
  /\ \A r, q \in Reqs : r # q => ToSet(BlockTable[r]) \cap ToSet(BlockTable[q]) = {}

VARIABLES
  pc,          \* "execute", "sample" or "propose"
  tokens,      \* tokens[r]: token_ids_cpu up to num_tokens_no_spec
  computed,    \* computed[r]: num_computed_tokens
  drafts,      \* drafts[r]: spec_token_ids
  kv, dkv,     \* KV caches of the target and of the draft model, by slot
  rows,        \* the batch: rows[j] = [req, n, nd], n tokens of which nd are drafts
  ids,         \* input_ids of the batch, flat
  logits,      \* the target model's argmax after each flat token
  sampled      \* sampled_token_ids, one sequence per row

vars == <<pc, tokens, computed, drafts, kv, dkv, rows, ids, logits, sampled>>

(***************************************************************************)
(* Flat indices.                                                           *)
(***************************************************************************)
\* query_start_loc: flat tokens in the first j rows.
QueryStart(b, j) == FoldLeft(LAMBDA a, x : a + x.n, 0, SubSeq(b, 1, j))
NumFlat(b) == QueryStart(b, Len(b))
\* req_indices: the row of flat index i.
RowAt(b, i) == CHOOSE j \in 1..Len(b) : QueryStart(b, j - 1) < i /\ i <= QueryStart(b, j)
\* positions_np
Position(b, i) == LET j == RowAt(b, i) IN computed[b[j].req] + i - QueryStart(b, j - 1) - 1

SlotOf(r, p) == BlockTable[r][p \div BlockSize + 1] * BlockSize + (p % BlockSize)
\* compute_slot_mapping
SlotAt(b, i) == SlotOf(b[RowAt(b, i)].req, Position(b, i))

\* A cache after writes <<slot, token>>.
Stored(cache, writes) ==
  [s \in Slots |-> IF \E w \in writes : w[1] = s
                   THEN (CHOOSE w \in writes : w[1] = s)[2] ELSE cache[s]]

\* A cache after the flat tokens t of batch b were written to their slots.
Written(cache, b, t) == Stored(cache, {<<SlotAt(b, i), t[i]>> : i \in 1..NumFlat(b)})

(***************************************************************************)
(* execute_model.                                                          *)
(***************************************************************************)
Unfinished(r) == Len(tokens[r]) < MaxModelLen
Max2(a, b) == IF a > b THEN a ELSE b
Min2(a, b) == IF a < b THEN a ELSE b

\* num_new_tokens of a running request before the token budget cuts it: up to the
\* model length.
MostTokens(r) == Min2(Len(tokens[r]) + Len(drafts[r]), MaxModelLen) - computed[r]
RowOf(r, n) == [req |-> r, n |-> n, nd |-> Max2(0, computed[r] + n - Len(tokens[r]))]

\* Requests with drafts that were not scheduled, or only in part, lose the rest.
DraftsOf(row) == SubSeq(drafts[row.req], 1, row.nd)

InputId(b, i) ==
  LET row == b[RowAt(b, i)] IN (tokens[row.req] \o DraftsOf(row))[Position(b, i) + 1]

\* What the target model attends to at flat index i: the request's slots up to it.
Context(b, cache, i) ==
  LET r == b[RowAt(b, i)].req IN [p \in 1..(Position(b, i) + 1) |-> cache[SlotOf(r, p - 1)]]

InOrder(S) == SetToSortSeq(S, <)

Execute(S, n) ==
  /\ pc = "execute"
  /\ rows' = [j \in 1..Cardinality(S) |-> LET r == InOrder(S)[j] IN RowOf(r, n[r])]
  /\ ids' = [i \in 1..NumFlat(rows') |-> InputId(rows', i)]
  /\ kv' = Written(kv, rows', ids')
  /\ logits' = [i \in 1..NumFlat(rows') |-> Target(Context(rows', kv', i))]
  /\ drafts' = [r \in Reqs |-> IF \E j \in DOMAIN rows' : rows'[j].req = r
                               THEN SubSeq(drafts[r], 1, RowOf(r, n[r]).nd) ELSE drafts[r]]
  /\ pc' = "sample"
  /\ UNCHANGED <<tokens, computed, dkv, sampled>>

(***************************************************************************)
(* The rejection sampler, on flat arrays of draft tokens and of the target *)
(* model's choices at their positions.                                     *)
(***************************************************************************)
\* cu_num_draft_tokens: draft tokens in the first j rows.
CuDrafts(j) == FoldLeft(LAMBDA a, x : a + x.nd, 0, SubSeq(rows, 1, j))
DraftIds == FlattenSeq([j \in 1..Len(rows) |-> DraftsOf(rows[j])])
\* target_logits_indices and bonus_logits_indices of SpecDecodeMetadata
TargetArgmax ==
  FlattenSeq([j \in 1..Len(rows) |->
    SubSeq(logits, QueryStart(rows, j) - rows[j].nd, QueryStart(rows, j) - 1)])
Bonus(j) == logits[QueryStart(rows, j)]

MaxSpecLen == Max({rows[j].nd : j \in DOMAIN rows})
PadRow(s) == s \o [k \in 1..(MaxSpecLen + 1 - Len(s)) |-> NoToken]

\* Mutant: the target's tokens without looking at the drafts.
GreedyRowUnchecked(j) ==
  SubSeq(TargetArgmax, CuDrafts(j - 1) + 1, CuDrafts(j)) \o <<Bonus(j)>>

\* rejection_greedy_sample_kernel: the target's tokens up to the first that differs
\* from its draft, and the bonus token when none does.
GreedyRow(j) ==
  LET start == CuDrafts(j - 1)
      differs == {k \in 1..rows[j].nd : DraftIds[start + k] # TargetArgmax[start + k]}
  IN IF differs = {} THEN SubSeq(TargetArgmax, start + 1, start + rows[j].nd) \o <<Bonus(j)>>
     ELSE SubSeq(TargetArgmax, start + 1, start + Min(differs))

\* rejection_random_sample_kernel: accepts some drafts, then a recovered token, or all
\* of them and the bonus token, which was sampled before.
RandomRows(j) ==
  LET start == CuDrafts(j - 1)
      kept(k) == SubSeq(DraftIds, start + 1, start + k)
  IN {kept(k) \o <<t>> : k \in 0..(rows[j].nd - 1), t \in Tokens}
       \cup {kept(rows[j].nd) \o <<t>> : t \in Tokens}

RowChoices(j) == IF rows[j].req \in GreedyReqs THEN {GreedyRow(j)} ELSE RandomRows(j)

Sample ==
  /\ pc = "sample"
  /\ sampled' \in {[j \in 1..Len(rows) |-> PadRow(f[j])] :
                     f \in {g \in [1..Len(rows) -> UNION {RowChoices(j) : j \in DOMAIN rows}] :
                              \A j \in DOMAIN rows : g[j] \in RowChoices(j)}}
  /\ pc' = "propose"
  /\ UNCHANGED <<tokens, computed, drafts, kv, dkv, rows, ids, logits>>

(***************************************************************************)
(* The drafter and the bookkeeping.                                        *)
(***************************************************************************)
\* seq_lens < num_tokens: the prompt goes on, nothing is sampled for this row.
Discarded(j) == computed[rows[j].req] + rows[j].n < Len(tokens[rows[j].req])

Valid(j) == IF Discarded(j) THEN <<>> ELSE SelectSeq(sampled[j], LAMBDA t : t # NoToken)

\* prepare_next_token_ids_padded: the last valid token, or the next one of the prompt.
NextTokenId(j) ==
  IF Valid(j) # <<>> THEN Last(Valid(j))
  ELSE tokens[rows[j].req][computed[rows[j].req] + rows[j].n + 1]

\* Mutant: the token sampled after the drafts is taken for an accepted draft.
NumRejectedOneLess(j) == Max2(0, rows[j].nd - Len(Valid(j)))

\* prepare_inputs_padded
NumRejected(j) == IF rows[j].nd > 0 THEN rows[j].nd + 1 - Len(Valid(j)) ELSE 0
TokenIndexToSample(j) == QueryStart(rows, j) - NumRejected(j)

\* Input of the drafter's first pass: the ids shifted by one, with the next token in
\* the last kept place of each row.  The last place of the buffer keeps an old id.
ShiftedIds ==
  [i \in 1..Len(ids) |->
     CASE \E j \in DOMAIN rows : TokenIndexToSample(j) = i
            -> NextTokenId(CHOOSE j \in DOMAIN rows : TokenIndexToSample(j) = i)
       [] OTHER -> IF i < Len(ids) THEN ids[i + 1] ELSE NoToken]

\* Mutant: the slot of position 0, to which the position is clamped, is not masked.
PassSlotUnmasked(j, k) ==
  LET p == Position(rows, TokenIndexToSample(j)) + k
  IN SlotOf(rows[j].req, IF p >= MaxModelLen THEN 0 ELSE p)

\* The further passes: pass k writes draft token k of row j one position on, unless
\* that is past the model length, where the slot is PADDING_SLOT_ID.
PassPosition(j, k) == Position(rows, TokenIndexToSample(j)) + k
PassSlot(j, k) ==
  IF PassPosition(j, k) >= MaxModelLen THEN -1 ELSE SlotOf(rows[j].req, PassPosition(j, k))

WrittenByPasses(cache, d) ==
  Stored(cache, {<<PassSlot(j, k), d[j][k]>> : j \in DOMAIN rows, k \in 1..(NumSpecTokens - 1)})

\* What _bookkeeping_sync stores: cut at the model length.
Kept(j) == SubSeq(Valid(j), 1, Min2(Len(Valid(j)), MaxModelLen - Len(tokens[rows[j].req])))

RowsOf(r) == {j \in DOMAIN rows : rows[j].req = r}

Propose(d) ==
  /\ pc = "propose"
  /\ dkv' = WrittenByPasses(Written(dkv, rows, ShiftedIds), d)
  /\ drafts' = [r \in Reqs |-> IF RowsOf(r) = {} THEN drafts[r]
                               ELSE d[CHOOSE j \in RowsOf(r) : TRUE]]
  /\ tokens' = [r \in Reqs |-> IF RowsOf(r) = {} THEN tokens[r]
                               ELSE tokens[r] \o Kept(CHOOSE j \in RowsOf(r) : TRUE)]
  /\ computed' = [r \in Reqs |->
                    IF RowsOf(r) = {} THEN computed[r]
                    ELSE LET j == CHOOSE j \in RowsOf(r) : TRUE
                         IN computed[r] + rows[j].n - NumRejected(j)]
  /\ pc' = "execute"
  /\ rows' = <<>> /\ ids' = <<>> /\ logits' = <<>> /\ sampled' = <<>>
  /\ UNCHANGED kv

Init ==
  /\ pc = "execute"
  /\ tokens = Prompt
  /\ computed = [r \in Reqs |-> 0]
  /\ drafts = [r \in Reqs |-> <<>>]
  /\ kv = [s \in Slots |-> NoToken] /\ dkv = [s \in Slots |-> NoToken]
  /\ rows = <<>> /\ ids = <<>> /\ logits = <<>> /\ sampled = <<>>

Finished == pc = "execute" /\ (\A r \in Reqs : ~Unfinished(r)) /\ UNCHANGED vars

Schedule ==
  \E S \in SUBSET {r \in Reqs : Unfinished(r)} \ {{}} :
    \E n \in [S -> 1..MaxModelLen] : (\A r \in S : n[r] <= MostTokens(r)) /\ Execute(S, n)

ProposeAny == \E d \in [DOMAIN rows -> Proposals] : Propose(d)

Next == Schedule \/ Sample \/ ProposeAny \/ Finished

Spec == Init /\ [][Next]_vars

--------------------------------------------------------------------------------
\* Types of the variables.
TypeOK ==
  /\ pc \in {"execute", "sample", "propose"}
  /\ computed \in [Reqs -> 0..MaxModelLen]
  /\ \A r \in Reqs : /\ tokens[r] \in Seq(Tokens) /\ Len(tokens[r]) <= MaxModelLen
                     /\ drafts[r] \in Seq(Tokens) /\ Len(drafts[r]) <= NumSpecTokens

\* Speculation changes nothing: every token of a greedy request is the one the target
\* model gives after the tokens before it, whatever was drafted, accepted, rejected or
\* left stale in the cache on the way (rejection_sample, prepare_inputs_padded,
\* _update_states).
Lossless ==
  \A r \in GreedyReqs : \A i \in Len(Prompt[r])..(Len(tokens[r]) - 1) :
    tokens[r][i + 1] = Target(SubSeq(tokens[r], 1, i))

\* Between steps the target model's cache holds, for every computed position of every
\* request, the token that stands there: entries of rejected drafts are only left
\* where the next step writes before it reads, and no row writes into another
\* request's blocks.
KvFresh ==
  pc = "execute" =>
    \A r \in Reqs : \A p \in 0..(computed[r] - 1) : kv[SlotOf(r, p)] = tokens[r][p + 1]

\* The drafter's cache is one token ahead of the target's: position p was computed
\* from the token at p + 1.  The shift by one, the place of the next token after
\* rejections, the next prompt token of an unfinished prompt and the masked slots of
\* the drafts past the model length, which are computed at position 0, all have to be
\* right for that.
DrafterAligned ==
  pc = "execute" =>
    \A r \in Reqs : \A p \in 0..(computed[r] - 1) :
      p + 2 <= Len(tokens[r]) => dkv[SlotOf(r, p)] = tokens[r][p + 2]

================================================================================
