------------------------------ MODULE Serving ------------------------------
(***************************************************************************)
(* Two processes that serve one index while builds may rewrite it: the     *)
(* REST server (service_api.py), whose threads share a store opened at its *)
(* start, and the MCP tools (mcp_tools_registry.py and                     *)
(* agent_mcp_handlers.py), whose store is opened by the first call and     *)
(* used by one handler at a time.                                          *)
(*                                                                         *)
(* A store keeps the index_info it first sees.  Every call is checked,     *)
(* admitted by what the store knows, reads the database as it is           *)
(* committed at each of its SELECTs, and names the source mode.  disk is   *)
(* the database the builds write; of its rows only their snapshot counts.  *)
(***************************************************************************)
EXTENDS BuildPipeline, Sequences, FiniteSets, ToolErrors

CONSTANTS
  Clients,    \* each calls once
  Asked,      \* [via, op, fault]
  Failures    \* what the embedding provider may raise, see ToolErrors

VARIABLES
  served,     \* per process: has it a database, is its store open, and its _index_info_cache
  holder,     \* the client whose handler holds the lock of the MCP runtime
  calls       \* per client

servingVars == <<served, holder, calls>>

Texts == {"semantic", "hybrid"}
SymbolOps == {"def_of", "refs_of", "callers_of", "callees_of"}
EdgeTypes == {"calls", "field_refs", "belongs_to", "extends", "implements"}
GraphOps == EdgeTypes \cup {"other edge", "intent", "explore"}
AdminOps == {"health", "stats", "jobs", "job", "submit"}
Ops == Texts \cup SymbolOps \cup GraphOps \cup AdminOps \cup {"structure", "find_symbol"}
Faults == {"none", "unknown", "blank", "malformed", "path", "token"}

ASSUME AskedAssumption == Asked \subseteq [via : {"rest", "mcp"}, op : Ops, fault : Faults]

NoCall == [at |-> "idle", request |-> [via |-> "rest", op |-> "semantic", fault |-> "none"], info |-> None,
           knew |-> TRUE, left |-> <<>>, from |-> {}, code |-> "", mode |-> ""]

ServingInit ==
  /\ served \in [{"rest", "mcp"} -> [given : BOOLEAN, open : {FALSE}, info : {None}]]
  /\ served["rest"].given
  /\ holder = None /\ calls = [c \in Clients |-> NoCall]

-----------------------------------------------------------------------------
(* The capability gate of the store *)

Structural == {"find_entity", "def", "ref", "call", "hierarchy"}

CapabilitiesOf(info) ==
  IF info = None THEN {}
  ELSE {"keyword", "hybrid", "semantic"} \cup (IF info.mode = "document" THEN {} ELSE Structural)

ModeOf(info) == IF info = None THEN "unknown" ELSE info.mode

(* Faulty: index_info is read again each time.                             *)
KnownAnew(s) == disk.info

(* _index_info_cache, or the row in the database.                          *)
Known(s) == IF served[s].info # None THEN served[s].info ELSE disk.info

(* Reading the mode or the capabilities keeps what was found.              *)
Keep(s) == served' = [served EXCEPT ![s].info = Known(s)]

(* Faulty: the callees are not gated.                                      *)
NeedsForCallers(op) ==
  CASE op \in {"structure", "find_symbol"} -> {"find_entity"}
    [] op = "def_of" -> {"def"}
    [] op = "refs_of" -> {"ref"}
    [] op \in {"callers_of", "calls", "field_refs", "explore"} -> {"call"}
    [] op \in {"belongs_to", "extends", "implements"} -> {"hierarchy"}
    [] op = "other edge" -> {"graph_edge"}
    [] OTHER -> {}

(* The capabilities an operation requires; no index has graph_edge.        *)
Needs(op) ==
  CASE op \in {"structure", "find_symbol"} -> {"find_entity"}
    [] op = "def_of" -> {"def"}
    [] op = "refs_of" -> {"ref"}
    [] op \in {"callers_of", "callees_of", "calls", "field_refs", "explore"} -> {"call"}
    [] op \in {"belongs_to", "extends", "implements"} -> {"hierarchy"}
    [] op = "other edge" -> {"graph_edge"}
    [] OTHER -> {}

(* The intents are refused by the mode alone.                              *)
Allows(info, op) ==
  /\ Needs(op) \subseteq CapabilitiesOf(info)
  /\ ~(op = "intent" /\ ModeOf(info) = "document")

-----------------------------------------------------------------------------
(* Checks of the arguments, and the answers of the front ends *)

(* What the handlers of the MCP tools find wrong before taking the lock.   *)
SemanticQueryFault(r) == IF r.fault # "none" \/ r.op = "structure" THEN "INPUT_VALIDATION" ELSE "none"

FindSymbolFault(r) == IF r.fault # "none" THEN "INPUT_VALIDATION" ELSE "none"

SymbolGraphFault(r) ==
  CASE r.fault = "unknown" -> "UNSUPPORTED_OPERATION"
    [] r.fault = "blank" -> "INPUT_VALIDATION"
    [] OTHER -> "none"

CodeGraphExploreFault(r) == IF r.fault = "unknown" THEN "UNSUPPORTED_OPERATION" ELSE "none"

ToolFault(r) ==
  CASE r.op \in Texts \cup {"structure"} -> SemanticQueryFault(r)
    [] r.op = "find_symbol" -> FindSymbolFault(r)
    [] r.op \in SymbolOps -> SymbolGraphFault(r)
    [] OTHER -> CodeGraphExploreFault(r)

(* What do_POST finds wrong before the store is asked: find_entity checks  *)
(* its type and name only behind the gate.                                 *)
RestFault(r) ==
  CASE r.fault = "malformed" -> "bad_request"
    [] r.fault = "path" -> "not_found"
    [] r.op \in Texts \cup SymbolOps \cup {"structure"} /\ r.fault # "none" -> "bad_request"
    [] OTHER -> "none"

(* What do_GET may answer, and the submission of a build.                  *)
GetAnswers(r) ==
  CASE r.op \in {"health", "stats"} -> {"ok"}
    [] r.fault = "token" -> {"forbidden"}
    [] r.op = "jobs" -> {"ok"}
    [] OTHER -> {"ok", "not_found"}

SubmitAnswers(r) ==
  IF r.fault = "token" THEN {"forbidden"}
  ELSE {"ok", "bad_request", "job_conflict", "queue_full", "internal_error"}

(* An exception in a handler: REST calls all but two kinds a bad request.  *)
ErrorAnswer(via, x) ==
  IF via = "mcp" THEN ToolError(x).code
  ELSE CASE x.class = "capability" -> "unsupported_capability"
         [] x.class = "reindex" -> "index_contract_error"
         [] OTHER -> "bad_request"

Refusal(via) == ErrorAnswer(via, Exception("capability", {}))

-----------------------------------------------------------------------------
(* Steps of a call *)

Go(c, step) == calls' = [calls EXCEPT ![c] = step]

(* The answer leaves the handler, and with it the lock.                    *)
Answer(c, code, mode) ==
  /\ Go(c, [calls[c] EXCEPT !.at = "answered", !.code = code, !.mode = mode, !.left = <<>>, !.info = None])
  /\ holder' = IF holder = c THEN None ELSE holder

(* run_server opens its store.                                             *)
StartRest ==
  /\ ~served["rest"].open
  /\ served' = [served EXCEPT !["rest"].open = TRUE, !["rest"].info = disk.info]
  /\ UNCHANGED <<holder, calls>>

(* What a call may be answered before the store is asked.                  *)
AtOnce(r) ==
  CASE r.via = "mcp" /\ ~served["mcp"].given -> {"CONFIG_INVALID"}
    [] r.via = "mcp" /\ ToolFault(r) # "none" -> {ToolFault(r)}
    [] r.op \in AdminOps -> IF r.op = "submit" THEN SubmitAnswers(r) ELSE GetAnswers(r)
    [] r.via = "rest" /\ RestFault(r) # "none" -> {RestFault(r)}
    [] OTHER -> {}

(* A call arrives: get_mcp_runtime opens the store of the MCP process      *)
(* first, if HYBRID_DB names one; then the arguments are checked.          *)
Ask(c, r) ==
  /\ calls[c].at = "idle"
  /\ r.via = "rest" => served["rest"].open
  /\ served' = IF r.via = "mcp" /\ served["mcp"].given /\ ~served["mcp"].open
               THEN [served EXCEPT !["mcp"].open = TRUE, !["mcp"].info = disk.info] ELSE served
  /\ \/ \E code \in AtOnce(r) : Go(c, [NoCall EXCEPT !.at = "answered", !.request = r, !.code = code])
     \/ /\ AtOnce(r) = {}
        /\ Go(c, [NoCall EXCEPT !.at = IF r.via = "mcp" THEN "lock" ELSE "store", !.request = r])
  /\ UNCHANGED holder

(* The tables a call reads, in order: explore takes its seeds from chunks, *)
(* and a hybrid search leaves out the symbols where it may not ask.        *)
Reads(op, allowed) ==
  CASE op = "semantic" -> <<"chunks">>
    [] op = "hybrid" -> IF allowed THEN <<"symbols", "chunks">> ELSE <<"chunks">>
    [] op \in {"structure", "find_symbol", "def_of", "refs_of"} -> <<"symbols">>
    [] op \in {"callers_of", "callees_of"} -> <<"graph", "symbols">>
    [] op = "explore" -> <<"chunks", "graph">>
    [] op = "intent" -> <<>>
    [] OTHER -> <<"graph">>

(* with self._lock; the threads of the REST server take none.              *)
Lock(c) ==
  /\ calls[c].at = "lock" /\ holder = None /\ holder' = c
  /\ Go(c, [calls[c] EXCEPT !.at = "store"])
  /\ UNCHANGED served

(* A semantic search passes no gate.                                       *)
Ungated(c) ==
  /\ calls[c].at = "store" /\ calls[c].request.op = "semantic"
  /\ Go(c, [calls[c] EXCEPT !.at = "read", !.left = Reads("semantic", TRUE)])
  /\ UNCHANGED <<served, holder>>

(* require_capability asks the store twice, for its capabilities, which    *)
(* is all that a hybrid search does, ...                                   *)
AskCapabilities(c) ==
  LET r == calls[c].request info == Known(r.via) IN
  /\ calls[c].at = "store" /\ r.op # "semantic" /\ Keep(r.via)
  /\ Go(c, IF r.op = "hybrid"
           THEN [calls[c] EXCEPT !.at = "read", !.left = Reads(r.op, Allows(info, "structure"))]
           ELSE [calls[c] EXCEPT !.at = "mode", !.info = info, !.knew = info # None])
  /\ UNCHANGED holder

(* ... and for its mode, which a refusal names.  The REST search for a     *)
(* symbol looks at its arguments only now.                                 *)
AskMode(c) ==
  LET r == calls[c].request
      allowed == Allows(calls[c].info, r.op)
      bad == r.op = "find_symbol" /\ r.fault = "unknown" IN
  /\ calls[c].at = "mode" /\ Keep(r.via)
  /\ \/ ~allowed /\ Answer(c, Refusal(r.via), ModeOf(Known(r.via)))
     \/ allowed /\ bad /\ Answer(c, "bad_request", "")
     \/ /\ allowed /\ ~bad /\ UNCHANGED holder
        /\ Go(c, [calls[c] EXCEPT !.at = "read", !.info = None, !.left = Reads(r.op, TRUE)])

HasRows(table) ==
  IF table = "symbols" THEN \E row \in disk.rows : row.table = "symbols" ELSE disk[table] # {}

(* A SELECT sees the database as it is committed.                          *)
Read(c) ==
  /\ calls[c].at = "read" /\ calls[c].left # <<>>
  /\ Go(c, [calls[c] EXCEPT
       !.left = Tail(@),
       !.from = IF HasRows(Head(calls[c].left)) THEN @ \cup {disk.info.snapshot} ELSE @])
  /\ UNCHANGED <<served, holder>>

(* The provider gives no vector for the query, and queries do not fail     *)
(* open.                                                                   *)
ProviderFails(c) ==
  /\ calls[c].at = "read" /\ calls[c].left # <<>> /\ Head(calls[c].left) = "chunks"
  /\ \E x \in Failures : Answer(c, ErrorAnswer(calls[c].request.via, x), "")
  /\ UNCHANGED served

(* find_symbol gives up the lock before it names the mode.                 *)
LeaveEarly(c) ==
  /\ calls[c].at = "read" /\ calls[c].left = <<>>
  /\ holder = c /\ calls[c].request.op = "find_symbol" /\ holder' = None
  /\ UNCHANGED <<served, calls>>

(* _annotate_source_mode and the fields of the answer.                     *)
Stamp(c) ==
  LET s == calls[c].request.via IN
  /\ calls[c].at = "read" /\ calls[c].left = <<>>
  /\ ~(holder = c /\ calls[c].request.op = "find_symbol")
  /\ Keep(s) /\ Answer(c, "ok", ModeOf(Known(s)))

ServingNext ==
  \/ StartRest
  \/ \E c \in Clients :
       \/ \E r \in Asked : Ask(c, r)
       \/ Lock(c) \/ Ungated(c) \/ AskCapabilities(c) \/ AskMode(c)
       \/ Read(c) \/ ProviderFails(c) \/ LeaveEarly(c) \/ Stamp(c)

(* Builds go on under the calls.                                           *)
ServedInit == Init /\ ServingInit

ServedNext ==
  \/ ServingNext /\ UNCHANGED vars
  \/ Next /\ UNCHANGED servingVars

ServedSpec == ServedInit /\ [][ServedNext]_<<vars, servingVars>>

-----------------------------------------------------------------------------
(* Properties *)

Answered == {c \in Clients : calls[c].at = "answered" /\ calls[c].mode # ""}

(* An answer explains itself, although builds commit between its gate, its *)
(* SELECTs and its last line: rows of symbols or of the graph come from an *)
(* index whose mode has them, a refusal names a mode that lacks them       *)
(* unless the store met the index only in the middle of the gate, and all  *)
(* rows are of the snapshot that the store knows.                          *)
AnswersExplainThemselves ==
  \A c \in Answered :
    LET call == calls[c] op == call.request.op IN
    /\ call.code = "ok" /\ op \notin Texts \cup {"intent"} => call.mode \in {"scip", "syntax"}
    /\ call.code = Refusal(call.request.via) /\ op # "other edge" =>
         \/ call.mode = "document"
         \/ ~call.knew /\ op # "intent"
    /\ call.from # {} /\ call.code = "ok" => call.from = {served[call.request.via].info.snapshot}

=============================================================================
