--------------------------- MODULE MCEmbeddingRun ---------------------------
(* Embedding runs over a few chunks, with the configurations of a site.    *)
EXTENDS EmbeddingRun

Both == <<"sqlite", "lance">>

(* The pool with a write buffer, and the sequential branch without one.    *)
DualSettings == {[stores |-> Both, workers |-> 3, buffer |-> 3],
                 [stores |-> Both, workers |-> 1, buffer |-> 0]}

(* A site that changes its write mode from one run to the next.            *)
MigrationSettings == {[stores |-> stores, workers |-> 2, buffer |-> 1] : stores \in {<<"sqlite">>, Both}}
=============================================================================
