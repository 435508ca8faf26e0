----------------------------- MODULE MCIngestion -----------------------------
(* Two documents with their symbols, occurrences and relations.            *)
EXTENDS Ingestion

MCStream == <<"document", "occurrence", "symbol", "relation",
              "document", "occurrence", "occurrence", "relation">>
=============================================================================
