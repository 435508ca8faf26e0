----------------------------- MODULE MCServing -----------------------------
(* What is asked of the processes that serve an index, and of the          *)
(* operators that answer: errors to be told, settings to arrive.           *)
EXTENDS Integers, Sequences

LOCAL INSTANCE TLC

LOCAL Request(via, op, fault) == [via |-> via, op |-> op, fault |-> fault]

(* Calls that reach the store: one for each gate and each list of tables.  *)
(* The graph and the hybrid search are not among the MCP tools.            *)
MCCalls ==
  {Request("rest", op, "none") : op \in {"semantic", "hybrid", "find_symbol", "callees_of", "intent", "explore"}} \cup
  {Request("mcp", op, "none") : op \in {"semantic", "find_symbol", "callees_of"}}

MCSecond == {r \in MCCalls : r.op = "find_symbol"}

(* Calls that a check of the arguments ends, or nearly.                    *)
MCFaulty ==
  {Request("mcp", op, fault) : op \in {"semantic", "find_symbol", "def_of", "calls"}, fault \in {"unknown", "blank"}} \cup
  {Request("rest", op, fault) : op \in {"structure", "refs_of", "find_symbol"}, fault \in {"unknown", "malformed", "path"}} \cup
  {Request("rest", op, "none") : op \in {"health", "stats", "jobs", "job", "submit"}} \cup
  {Request("rest", "submit", "token"), Request("mcp", "structure", "none"), Request("rest", "other edge", "none"),
   Request("rest", "belongs_to", "none")}

MCAsked == MCCalls \cup MCFaulty

MCFailures == {[class |-> "provider", text |-> {"timed out"}], [class |-> "provider", text |-> {"401"}]}

-----------------------------------------------------------------------------
(* Documents with a few keys of two sections, some of the wrong type; "-"  *)
(* is a key that is not there, "null" and 0 are what JSON has by that name.*)
LOCAL Value(v) == CASE v = "null" -> [none |-> "null"] [] v = "zero" -> [none |-> "0"] [] OTHER -> [leaf |-> v]
LOCAL Says(k, v) == IF v = "-" THEN <<>> ELSE k :> Value(v)
LOCAL Holds(k, v) == k :> [dict |-> v]

(* Arguments of the class; two settings for one argument; a map for        *)
(* another class, without and with blanks; no objects, or objects where a  *)
(* text should be.                                                         *)
LOCAL Llamas ==
  {<<>>, Says("llama", "null"), Says("llama", "no"), Holds("llama", Says("kwargs", "no")),
   Holds("llama", Says("kwargs", "") @@ Says("common_arg_map", "zero")),
   Holds("llama", Holds("kwargs", Holds("more", <<>>)) @@ Holds("common_arg_map", Holds("model", <<>>))),
   Holds("llama", Holds("kwargs", Says("model_name", "own") @@ Says("output_dimension", "zero") @@ Says("voyage_api_key", "null"))),
   Holds("llama", Holds("common_arg_map", Says("api_base", "model_name"))),
   Holds("llama", Says("class_path", "OpenAIEmbedding") @@
                  Holds("common_arg_map", Says("model", "model") @@ Says("api_key", "api_key"))),
   Holds("llama", Holds("common_arg_map", Says("model", "model") @@ Says("dim", "null")))}

LOCAL Vectors ==
  {Holds("vector", Says("backend", b) @@ Says("write_mode", w) @@ Says("lancedb", l)) :
     b \in {"-", "sqlite", "null"}, w \in {"-", "sqlite_only", "lancedb_only", "both"}, l \in {"-", "no"}}

LOCAL Keys == {Says("api_key", k) @@ Says("api_base", b) : k \in {"-", "k", "null"}, b \in {"-", "b", "zero"}} \cup
              {Holds("api_key", <<>>)}
LOCAL Dims == {Says("dim", n) : n \in {"-", "", "0", "512", "wide", "zero", "null"}}

MCNumerals == {"0", "256", "512"}

MCDocuments ==
  {<<>>, Says("embedding", ""), Says("vector", "no")} \cup
  {Holds("embedding", Says("provider", p) @@ Says("model", m) @@ k @@ l) :
     p \in {"-", "http", "voyage", "local", "openai"}, m \in {"-", "", "m", "null"}, k \in Keys, l \in Llamas} \cup
  {Holds("embedding", n @@ l) : n \in Dims, l \in Llamas} \cup
  {Holds("embedding", Says("provider", p) @@ Says("model", m)) @@ v :
     p \in {"-", "voyage", "local"}, m \in {"-", "", "zero"}, v \in Vectors}
=============================================================================
