---------------------------- MODULE MCSharedStorage ----------------------------
(* Requests of a prefill engine p and a decode engine d, blocks of two tokens.    *)
EXTENDS SharedStorage

\* Prompts of one another's length and one more, sent in any order.
RaceEngines == <<"p", "d", "p">>
RacePrompts == <<<<1, 2, 3>>, <<1, 2, 3, 4>>, <<1, 2, 3, 4, 5>>>>
NoOrder == [r \in Reqs |-> {}]

\* The intended use: the decode engine gets the prompt and one generated token, after
\* the prefill engine is done with the prompt.
HandOverEngines == <<"p", "d">>
HandOverPrompts == <<<<1, 2, 3, 4>>, <<1, 2, 3, 4, 9>>>>
InOrder == <<{}, {1}>>
================================================================================
