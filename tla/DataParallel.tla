------------------------------ MODULE DataParallel ------------------------------
(***************************************************************************)
(* One step of the data-parallel MoE runner (DPMLUModelRunner) on all      *)
(* workers: which collectives a worker calls, in which order, on which     *)
(* group and with how many rows.  Every engine picks its own batch, or a   *)
(* dummy batch when it has nothing to run; the only thing the workers      *)
(* learn about each other is what get_runtime_infos_per_dp_group gathers,  *)
(* and every later call is decided locally from that.  A collective        *)
(* completes when all members of its group call it; when the calls do not  *)
(* agree, the members wait for each other for ever.                        *)
(*                                                                         *)
(* A worker is the pair (data-parallel rank, tensor-parallel rank) folded  *)
(* into its rank in the world group.  Lists are indexed from 1, ranks from *)
(* 0.  A decoder layer neither reads nor changes anything that another     *)
(* layer depends on but its rows, so one layer stands for all of them.     *)
(***************************************************************************)
EXTENDS Integers, Sequences, FiniteSets, SequencesExt

CONSTANTS
  DpSize, TpSize,      \* data_parallel_size, tensor_parallel_size
  LogitsTpSize,        \* get_logits_tp_world_size()
  NumSpecTokens,       \* num_speculative_tokens of the eagle/mtp drafter, or 0
  CaptureSizes,        \* cudagraph_batch_sizes
  UseGraph,            \* use_cuda_graph
  UseRsAg,             \* prefill_dispatch_use_RS_AG
  UseMcc,              \* is_dpsk_mcc_enabled
  Batches,             \* the batches a scheduler may hand to a runner
  MaxSteps             \* bound: steps each engine runs

Workers == 0..(DpSize * TpSize - 1)
DpRanks == 0..(DpSize - 1)
DpRank(r) == r \div TpSize
TpRank(r) == r % TpSize
LogitsRank(r) == r % LogitsTpSize
Sum(list) == FoldLeft(LAMBDA a, b : a + b, 0, list)
Largest(list) == Max(ToSet(list))
AllEqual(list) == \A i \in 1..Len(list) : list[i] = list[1]

ASSUME DpAssumption ==
  /\ DpSize \in Nat \ {0} /\ TpSize \in Nat \ {0} /\ MaxSteps \in Nat
  /\ LogitsTpSize \in Nat \ {0} /\ (DpSize * TpSize) % LogitsTpSize = 0
  /\ NumSpecTokens \in Nat
  /\ CaptureSizes \subseteq Nat /\ (UseGraph => CaptureSizes # {})
  \* asserted by _get_dp_graph_info
  /\ \A c \in CaptureSizes : c % (1 + NumSpecTokens) = 0
  /\ \A b \in Batches : b.lens # <<>> /\ ~b.dummy

VARIABLES
  steps,     \* steps[d]: steps engine d has started
  batch,     \* batch[d]: the batch of its current step
  drafts,    \* drafts[r]: rounds of the drafter's loop the worker has yet to gather for
  meta,      \* meta[r]: the MLUDPMetadata the worker gathered last
  prog       \* prog[r]: collectives the worker calls up to its next gather

vars == <<steps, batch, drafts, meta, prog>>

(***************************************************************************)
(* What a batch is for this worker.                                        *)
(***************************************************************************)
\* execute_dummy_batch runs moe_dp_execute_dummy_batch(1)
DummyBatch == [lens |-> <<1>>, computed |-> 0, drafts |-> FALSE, dummy |-> TRUE]

NumTokens(b) == Sum(b.lens)
DecodeQueryLen == 1 + NumSpecTokens

InferMode(b) ==
  CASE Largest(b.lens) <= DecodeQueryLen -> "DECODE_ONLY"
    [] Largest(b.lens) > DecodeQueryLen /\ b.computed = 0 -> "PREFILL_ONLY"
    [] OTHER -> "CHUNKED"

\* Mutant: the dummy batch reports itself as what it is.
MainInfoDummyDecode(b) ==
  [tokens |-> NumTokens(b),
   reqs |-> IF InferMode(b) = "PREFILL_ONLY" \/ b.dummy THEN Len(b.lens)
                                                        ELSE Len(b.lens) * DecodeQueryLen,
   prefill |-> InferMode(b) # "DECODE_ONLY"]

\* Mutant: the batch size is multiplied in every mode.
MainInfoExpanded(b) ==
  [tokens |-> NumTokens(b),
   reqs |-> IF b.dummy THEN Len(b.lens) ELSE Len(b.lens) * DecodeQueryLen,
   prefill |-> b.dummy \/ InferMode(b) # "DECODE_ONLY"]

\* What the runner reports to the other data-parallel ranks.
MainInfo(b) ==
  IF b.dummy
  THEN [tokens |-> NumTokens(b), reqs |-> Len(b.lens), prefill |-> TRUE]
  ELSE [tokens |-> NumTokens(b),
        reqs |-> IF InferMode(b) = "PREFILL_ONLY" THEN Len(b.lens)
                                                  ELSE Len(b.lens) * DecodeQueryLen,
        prefill |-> InferMode(b) # "DECODE_ONLY"]

\* What the drafter reports in each further round: one token per request.
DraftInfo(b) ==
  [tokens |-> Len(b.lens), reqs |-> Len(b.lens),
   prefill |-> ~b.dummy /\ InferMode(b) # "DECODE_ONLY"]

\* Rows of hidden_states[logits_indices]: every token of a request with drafts,
\* the last token of the others, all rows of a dummy batch.
LogitsRows(b) == IF b.drafts \/ b.dummy THEN NumTokens(b) ELSE Len(b.lens)

(***************************************************************************)
(* MLUDPMetadata.                                                          *)
(***************************************************************************)
NoMeta == [tokens |-> <<>>, reqs |-> <<>>, prefill |-> <<>>, rs |-> FALSE, padTo |-> -1]

PadUp(n) == ((n + TpSize - 1) \div TpSize) * TpSize

MakeOot(tokens, reqs, prefill) ==
  LET rs == AllEqual(tokens) /\ \A i \in 1..DpSize : tokens[i] # 0 /\ tokens[i] % TpSize = 0
      pad == ~rs /\ UseRsAg /\ \A i \in 1..DpSize : prefill[i]
  IN [tokens |-> tokens, reqs |-> reqs, prefill |-> prefill, rs |-> rs,
      padTo |-> IF pad THEN PadUp(Largest(tokens)) ELSE -1]

\* get_dp_metadata while a graph of n tokens is captured.
CaptureMeta(n) ==
  MakeOot([i \in 1..DpSize |-> n], [i \in 1..DpSize |-> n], [i \in 1..DpSize |-> FALSE])

TokenOffset(m, r) == Sum(SubSeq(m.tokens, 1, DpRank(r)))

\* enable_emb_logits_custom_parallel
CustomLogits == LogitsTpSize # TpSize

\* get_deepseek_layer_split_list: the entries of r's logits group.
LogitsSplit(list, r) ==
  [i \in 1..LogitsTpSize |->
     list[((r \div LogitsTpSize) * LogitsTpSize + i - 1) \div TpSize + 1]]

(***************************************************************************)
(* Collectives.  rows is what the call hands over, own what the metadata   *)
(* says this worker holds, before padding.                                 *)
(***************************************************************************)
NoInfo == [tokens |-> 0, reqs |-> 0, prefill |-> FALSE]
Call(grp, kind, rows) == [grp |-> grp, kind |-> kind, rows |-> rows, held |-> rows,
                          own |-> rows, info |-> NoInfo]
Gather(grp, kind, info) == [Call(grp, kind, 1) EXCEPT !.info = info]

Members(grp, r) ==
  {q \in Workers : CASE grp = "tp"     -> DpRank(q) = DpRank(r)
                     [] grp = "dp"     -> TpRank(q) = TpRank(r)
                     [] grp = "logits" -> q \div LogitsTpSize = r \div LogitsTpSize
                     [] grp = "world"  -> TRUE}

\* tensor_model_parallel_all_gather_dp: pads to the longest entry of the list.
AllGatherDp(grp, list, rank, n) ==
  [Call(grp, "all_gather", IF AllEqual(list) THEN n ELSE n + Largest(list) - list[rank + 1])
     EXCEPT !.held = n, !.own = list[rank + 1]]

GatheredRows(list, n) == IF AllEqual(list) THEN n * Len(list) ELSE Sum(list)

Embedding(m, r, n) ==
  LET list == LogitsSplit(m.tokens, r)
  IN IF CustomLogits
     THEN <<AllGatherDp("logits", list, LogitsRank(r), n),
            Call("logits", "all_reduce", GatheredRows(list, n))>>
     ELSE <<Call("tp", "all_reduce", n)>>

EmbeddedRows(m, r, n) == IF CustomLogits THEN m.tokens[DpRank(r) + 1] ELSE n

\* _dp_forward_layer_rs_ag
LayerRsAg(h) ==
  LET part == h \div TpSize
  IN <<Call("tp", "reduce_scatter", h), Call("world", "all_gather", part),
       Call("world", "reduce_scatter", part * DpSize * TpSize), Call("tp", "all_gather", part)>>

\* Mutant: no F.pad before the reduce-scatter.
LayerCommonUnpadded(m, r, h) ==
  LET list == m.tokens
  IN IF m.padTo # -1
     THEN <<Call("tp", "reduce_scatter", h), Call("world", "all_gather", h \div TpSize),
            Call("world", "all_reduce", Sum(list))>>
     ELSE <<Call("tp", "all_reduce", h),
            AllGatherDp("dp", list, DpRank(r), h),
            Call("world", "all_reduce", GatheredRows(list, h))>>

\* process_post_attention_communication, then the reduction after the mlp
LayerCommon(m, r, h) ==
  LET part == m.padTo \div TpSize
      list == m.tokens
  IN IF m.padTo # -1
     THEN <<Call("tp", "reduce_scatter", h + m.padTo - list[DpRank(r) + 1]),
            AllGatherDp("world", [q \in 1..(DpSize * TpSize) |-> part], r, part),
            Call("world", "all_reduce", Sum(list))>>
     ELSE <<Call("tp", "all_reduce", h),
            AllGatherDp("dp", list, DpRank(r), h),
            Call("world", "all_reduce", GatheredRows(list, h))>>

\* dp_model_forward with n input rows
Forward(m, r, n) ==
  LET h == EmbeddedRows(m, r, n)
  IN Embedding(m, r, n) \o (IF m.rs THEN LayerRsAg(h) ELSE LayerCommon(m, r, h))

\* DPLogitsProcessor; list is dp_params.logits_batch_split_list
ComputeLogits(list, r, rows) ==
  IF CustomLogits
  THEN <<AllGatherDp("logits", list, LogitsRank(r), rows),
         Call("logits", "all_gather_vocab", GatheredRows(list, rows))>>
  ELSE <<Call("tp", "all_gather_vocab", rows)>>

(***************************************************************************)
(* Graphs.                                                                 *)
(***************************************************************************)
PadForCudagraph(n) == Min({c \in CaptureSizes : c >= n})

\* _get_dp_graph_info
CanUseGraph(m) ==
  UseGraph /\ \A i \in 1..DpSize : ~m.prefill[i] /\ m.tokens[i] <= Max(CaptureSizes)

\* The dispatcher has keys for uniform decode batches only.
UniformDecode(b) ==
  Largest(b.lens) = DecodeQueryLen /\ NumTokens(b) = Len(b.lens) * DecodeQueryLen

ReplaysGraph(b, m) == ~b.dummy /\ CanUseGraph(m) /\ UniformDecode(b)

\* The inputs are padded as soon as the group agreed on a graph.
InputRows(b, m) ==
  IF ~b.dummy /\ CanUseGraph(m) THEN PadForCudagraph(Largest(m.tokens)) ELSE NumTokens(b)

Replay(m, r) ==
  LET size == PadForCudagraph(Largest(m.tokens)) IN Forward(CaptureMeta(size), r, size)

MainForward(b, m, r) ==
  IF ReplaysGraph(b, m) THEN Replay(m, r) ELSE Forward(m, r, InputRows(b, m))

\* The drafter takes the graph on what the group agreed on alone.
DraftForward(b, m, r) ==
  IF ~b.dummy /\ CanUseGraph(m) THEN Replay(m, r) ELSE Forward(m, r, NumTokens(b))

(***************************************************************************)
(* The parts of a step between two gathers.                                *)
(***************************************************************************)
DraftBatchSize(b) == Len(b.lens)

\* Mutant: the dummy batch runs the drafter once.
NextRoundNotDummy(b, left) ==
  IF left > 0 /\ ~b.dummy THEN <<Gather("dp", "meta", DraftInfo(b))>> ELSE <<>>

\* Next round of the drafter's loop: `for token_index in range(K - 1)`.
NextRound(b, left) == IF left > 0 THEN <<Gather("dp", "meta", DraftInfo(b))>> ELSE <<>>

\* The seq_lens exchange of get_runtime_infos_per_dp_group.
SeqLens(m) ==
  IF UseMcc /\ \A i \in 1..DpSize : m.prefill[i] THEN <<Call("dp", "all_gather_v", 1)>> ELSE <<>>

MainPart(b, m, r) ==
  SeqLens(m) \o MainForward(b, m, r)
    \o ComputeLogits(LogitsSplit(m.reqs, r), r, LogitsRows(b))
    \o (IF NumSpecTokens = 0 THEN <<>>
        ELSE DraftForward(b, m, r)
               \o (IF CustomLogits
                   THEN <<Gather("logits", "sizes",
                                 [NoInfo EXCEPT !.reqs = DraftBatchSize(b)])>>
                   ELSE ComputeLogits(<<>>, r, DraftBatchSize(b))
                          \o NextRound(b, NumSpecTokens - 1)))

\* After get_logits_batch_sizes.
SizesPart(b, sizes, r) ==
  ComputeLogits(sizes, r, DraftBatchSize(b)) \o NextRound(b, NumSpecTokens - 1)

DraftPart(b, m, r, left) ==
  SeqLens(m) \o Forward(m, r, DraftBatchSize(b))
    \o ComputeLogits(LogitsSplit(m.reqs, r), r, DraftBatchSize(b)) \o NextRound(b, left)

(***************************************************************************)
(* Actions.                                                                *)
(***************************************************************************)
Init ==
  /\ steps = [d \in DpRanks |-> 0]
  /\ batch = [d \in DpRanks |-> DummyBatch]
  /\ drafts = [r \in Workers |-> 0]
  /\ meta = [r \in Workers |-> NoMeta]
  /\ prog = [r \in Workers |-> <<>>]

WorkersOf(d) == {r \in Workers : DpRank(r) = d}
Idle(d) == \A r \in WorkersOf(d) : prog[r] = <<>>

\* execute_model on every worker of engine d; the scheduler's batch, or the dummy one.
Start(d, b) ==
  /\ Idle(d) /\ steps[d] < MaxSteps
  /\ steps' = [steps EXCEPT ![d] = @ + 1]
  /\ batch' = [batch EXCEPT ![d] = b]
  /\ prog' = [r \in Workers |->
                IF r \in WorkersOf(d) THEN <<Gather("dp", "meta", MainInfo(b))>> ELSE prog[r]]
  /\ drafts' = [r \in Workers |-> IF r \in WorkersOf(d) THEN NumSpecTokens ELSE drafts[r]]
  /\ UNCHANGED meta

\* All members of r's group for its next call have arrived.
Arrived(r) ==
  /\ prog[r] # <<>>
  /\ \A q \in Members(Head(prog[r]).grp, r) :
       prog[q] # <<>> /\ Head(prog[q]).grp = Head(prog[r]).grp

Agree(r) ==
  \A q \in Members(Head(prog[r]).grp, r) :
    Head(prog[q]).kind = Head(prog[r]).kind /\ Head(prog[q]).rows = Head(prog[r]).rows

\* What the members handed over, in the order of their ranks in the group.
MemberAt(grp, r, i) ==
  IF grp = "dp" THEN (i - 1) * TpSize + TpRank(r)
                ELSE (r \div LogitsTpSize) * LogitsTpSize + i - 1
Gathered(r) == LET grp == Head(prog[r]).grp
               IN [i \in 1..Cardinality(Members(grp, r)) |-> Head(prog[MemberAt(grp, r, i)]).info]

\* A collective that moves rows only.
Exchange(r) ==
  /\ Arrived(r) /\ Agree(r) /\ Head(prog[r]).kind \notin {"meta", "sizes"}
  /\ prog' = [q \in Workers |->
                IF q \in Members(Head(prog[r]).grp, r) THEN Tail(prog[q]) ELSE prog[q]]
  /\ UNCHANGED <<steps, batch, drafts, meta>>

MetadataOf(got) ==
  MakeOot([i \in 1..DpSize |-> got[i].tokens], [i \in 1..DpSize |-> got[i].reqs],
          [i \in 1..DpSize |-> got[i].prefill])

\* _get_data_parallel_metadata, by the runner or by the drafter's loop.
GatherMeta(r) ==
  /\ Arrived(r) /\ Agree(r) /\ Head(prog[r]).kind = "meta"
  /\ meta' = [q \in Workers |-> IF q \in Members("dp", r) THEN MetadataOf(Gathered(r)) ELSE meta[q]]
  /\ drafts' = [q \in Workers |->
                  IF q \in Members("dp", r) /\ drafts[q] > 0 THEN drafts[q] - 1 ELSE drafts[q]]
  /\ prog' = [q \in Workers |->
                CASE q \notin Members("dp", r) -> prog[q]
                  [] q \in Members("dp", r) /\ drafts[q] = NumSpecTokens
                       -> MainPart(batch[DpRank(q)], meta'[q], q)
                  [] OTHER -> DraftPart(batch[DpRank(q)], meta'[q], q, drafts'[q])]
  /\ UNCHANGED <<steps, batch>>

\* get_logits_batch_sizes
GatherSizes(r) ==
  /\ Arrived(r) /\ Agree(r) /\ Head(prog[r]).kind = "sizes"
  /\ LET got == Gathered(r)
         sizes == [i \in 1..LogitsTpSize |-> got[i].reqs]
     IN prog' = [q \in Workers |->
                   IF q \in Members("logits", r) THEN SizesPart(batch[DpRank(q)], sizes, q)
                   ELSE prog[q]]
  /\ UNCHANGED <<steps, batch, drafts, meta>>

\* A run ends when every engine has taken MaxSteps steps.
StartAny(d) == \E b \in Batches \cup {DummyBatch} : Start(d, b)

Next ==
  \/ \E d \in DpRanks : StartAny(d)
  \/ \E r \in Workers : Exchange(r) \/ GatherMeta(r) \/ GatherSizes(r)

\* Some worker or engine that can go on does.  Nothing is assumed of which one: the
\* groups keep the ranks together.
Spec == Init /\ [][Next]_vars /\ WF_vars(Next)

(***************************************************************************)
(* Where the rows of a layer go.  Row <<i, j>> is the j-th row of member i *)
(* (from 1); Filler is a row of padding.                                   *)
(***************************************************************************)
Filler == <<0, 0>>
Rows(i, n) == [j \in 1..n |-> <<i, j>>]
PadRows(s, n) == s \o [j \in 1..(n - Len(s)) |-> Filler]
Chunk(s, parts, k) ==
  LET n == Len(s) \div parts IN SubSeq(s, k * n + 1, (k + 1) * n)

\* Mutant: the offset advances by the rows kept.
RemovePaddingsPacked(s, width, list) ==
  FlattenSeq([i \in 1..Len(list) |->
    SubSeq(s, Sum(SubSeq(list, 1, i - 1)) + 1, Sum(SubSeq(list, 1, i)))])

\* remove_paddings_after_all_gather
RemovePaddings(s, width, list) ==
  FlattenSeq([i \in 1..Len(list) |-> SubSeq(s, (i - 1) * width + 1, (i - 1) * width + list[i])])

\* What tensor_model_parallel_all_gather_dp returns for members with list[i] rows.
GatherRows(list) ==
  IF AllEqual(list) THEN FlattenSeq([i \in 1..Len(list) |-> Rows(i, list[i])])
  ELSE LET most == Largest(list)
       IN RemovePaddings(FlattenSeq([i \in 1..Len(list) |-> PadRows(Rows(i, list[i]), most)]),
                         most, list)

\* The slice that embedding and logits take out of the gathered rows.
OwnSlice(list, rank) ==
  LET offset == Sum(SubSeq(list, 1, rank))
  IN SubSeq(GatherRows(list), offset + 1, offset + list[rank + 1])

\* Attention output of r, padded, scattered over its tensor-parallel group and
\* gathered from the world.
ScatterGather(m, width) ==
  FlattenSeq([q \in 1..(DpSize * TpSize) |->
    Chunk(PadRows(Rows(DpRank(q - 1) + 1, m.tokens[DpRank(q - 1) + 1]), width),
          TpSize, TpRank(q - 1))])

MlpRows(m) ==
  CASE m.rs -> ScatterGather(m, m.tokens[1])
    [] ~m.rs /\ m.padTo # -1 -> RemovePaddings(ScatterGather(m, m.padTo), m.padTo, m.tokens)
    [] OTHER -> GatherRows(m.tokens)

LayerRows(m, r) ==
  IF m.rs
  THEN FlattenSeq([t \in 1..TpSize |->
         Chunk(MlpRows(m), DpSize * TpSize, DpRank(r) * TpSize + t - 1)])
  ELSE SubSeq(MlpRows(m), TokenOffset(m, r) + 1, TokenOffset(m, r) + m.tokens[DpRank(r) + 1])

--------------------------------------------------------------------------------
(***************************************************************************)
(* Properties.                                                             *)
(***************************************************************************)
\* Types of the variables; a padded token count can be scattered.
TypeOK ==
  /\ steps \in [DpRanks -> 0..MaxSteps]
  /\ batch \in [DpRanks -> Batches \cup {DummyBatch}]
  /\ drafts \in [Workers -> 0..NumSpecTokens]
  /\ DOMAIN meta = Workers /\ DOMAIN prog = Workers
  /\ \A r \in Workers : meta[r].padTo = -1 \/ meta[r].padTo % TpSize = 0

\* A batch that MLUInferMode.build does not take for a prefill, although its rows are
\* not all full decode rows: prompts of at most 1 + K tokens, or decode rows whose
\* drafts a grammar has cut.  _prepare_inputs reports 1 + K logits rows per request of
\* it, and compute_logits has fewer.
Irregular(b) ==
  /\ ~b.dummy /\ InferMode(b) # "PREFILL_ONLY"
  /\ ~(b.drafts /\ UniformDecode(b))

\* Whenever all members of a group have arrived at a collective of that group, they
\* call the same operation with the same number of rows: the choices between graph
\* replay and eager run, reduce-scatter and all-reduce, padded and exact lists, and
\* the rounds of a dummy rank's drafter, made on each rank by itself, never disagree.
\* They can when one of them runs an irregular batch: it neither replays the graph the
\* group agreed on nor has the logits rows it reported.
CollectivesMatch ==
  \A r \in Workers : Arrived(r) =>
    \/ Agree(r)
    \/ \E q \in Members(Head(prog[r]).grp, r) : Irregular(batch[DpRank(q)])

\* Members that meet in a collective are in the same step and in the same round of
\* the drafter: a rank that left out a round (moe_dp_execute_dummy_batch against
\* execute_model and propose) would meet the others' gather one step early, with
\* shapes that match.
SameRound ==
  \A r \in Workers : Arrived(r) =>
    \A q \in Members(Head(prog[r]).grp, r) :
      steps[DpRank(q)] = steps[DpRank(r)] /\ drafts[q] = drafts[r]

\* The row counts in the gathered lists are those the workers hand over: token
\* counts for the layers and the embedding, batch sizes for the logits, in the main
\* model and in every round of the drafter.  tensor_model_parallel_all_gather_dp
\* pads and cuts by the list and never looks at the tensor.  Only an irregular batch
\* breaks a list: where the group agreed on a graph it runs eagerly on padded inputs,
\* and otherwise it is wrong in one call, the logits of the main model, which are
\* fewer than reported.
ListsAreTrue ==
  \A r \in Workers :
    LET b == batch[DpRank(r)]
        untrue == {i \in 1..Len(prog[r]) : prog[r][i].held # prog[r][i].own}
    IN  /\ untrue # {} => Irregular(b)
        /\ untrue # {} /\ ~CanUseGraph(meta[r]) =>
             /\ Cardinality(untrue) = 1
             /\ \A i \in untrue : /\ prog[r][i].grp = "logits"
                                  /\ prog[r][i].held = LogitsRows(b)
                                  /\ prog[r][i].held < prog[r][i].own

\* Every row of every rank enters the mlp exactly once, no padding does, and each
\* rank gets its own rows back, on all three communication paths of dp_layer_forward;
\* the same for the slices of the embedding and of the logits.
RowsComeBack ==
  \A r \in Workers : meta[r] # NoMeta =>
    LET m == meta[r]
        list == LogitsSplit(m.reqs, r)
    IN /\ MlpRows(m) = FlattenSeq([i \in 1..DpSize |-> Rows(i, m.tokens[i])])
       /\ LayerRows(m, r) = Rows(DpRank(r) + 1, m.tokens[DpRank(r) + 1])
       /\ OwnSlice(list, LogitsRank(r)) = Rows(LogitsRank(r) + 1, list[LogitsRank(r) + 1])

\* No rank waits for ever: every step that was started is finished, whatever the
\* other ranks run in theirs, unless some rank is given an irregular batch.
EveryStepFinishes ==
  \A d \in DpRanks :
    ~Idle(d) ~> Idle(d) \/ \E e \in DpRanks : Irregular(batch[e])

\* A step replays its graph on all data-parallel ranks or on none; the dummy batch
\* reports itself as prefill for that reason.
GraphOnAllOrNone ==
  \A r, q \in Workers :
    (steps[DpRank(r)] = steps[DpRank(q)]
     /\ drafts[r] = NumSpecTokens - 1 /\ drafts[q] = NumSpecTokens - 1)
    => (ReplaysGraph(batch[DpRank(r)], meta[r]) <=> ReplaysGraph(batch[DpRank(q)], meta[q]))
================================================================================
