------------------------------ MODULE MCSpecDecode ------------------------------
(* Two requests with interleaved blocks, one greedy and one random.               *)
(* Four drafts: the least with which a request that goes on has a draft past the  *)
(* model length.  The greedy one goes on with 1, 1, 1, ...                        *)
EXTENDS SpecDecode

Prompts == <<<<1, 0, 1>>, <<0>>>>
Drafts == {<<0, 0, 0, 0>>, <<1, 1, 1, 1>>, <<1, 1, 0, 1>>, <<0, 1, 1, 0>>}
Blocks == <<<<3, 0, 4>>, <<1, 5, 2>>>>
Parity(s) == FoldLeft(LAMBDA a, b : (a + 2 * b + 1) % 3, 0, s) % 2
================================================================================
