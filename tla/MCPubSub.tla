------------------------------- MODULE MCPubSub -------------------------------
(* The whole library, for model checking.                                  *)
EXTENDS PubSub, TLC

(* For safety runs: the callers are interchangeable, and so are the data.  *)
Interchangeable == Permutations(Callers) \cup Permutations(Data)

==============================================================================
