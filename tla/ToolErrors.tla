----------------------------- MODULE ToolErrors -----------------------------
(***************************************************************************)
(* What becomes of an error: a failed call of the embedding provider is    *)
(* classified once by its exception (embedding.py), which decides whether  *)
(* the pipeline tries again, and a second time by its text when it reaches *)
(* a client of the MCP tools (mcp_errors.py).                              *)
(*                                                                         *)
(* The text of an exception is the set of the phrases in it that some rule *)
(* looks for.  A status stands for its group: "503" for 502, 503 and 504,  *)
(* "500" for the other 5xx, "401" for the other refusals.                  *)
(***************************************************************************)
EXTENDS Integers

RatePhrases == {"429", "rate limit"}
GatewayPhrases == {"503", "service unavailable"}
TimeoutPhrases == {"timed out"}

Phrases == RatePhrases \cup GatewayPhrases \cup TimeoutPhrases \cup
  {"deadline exceeded", "connection refused", "connection aborted", "name resolution"}

Statuses == {"429", "503", "500", "401"}

(* What a provider call raises: HTTPError with a status and a body,        *)
(* URLError, whose reason may be a timeout, TimeoutError, or an exception  *)
(* of a client library, with a status or without.                          *)
Raised ==
  [class : {"http"}, status : Statuses, text : SUBSET Phrases] \cup
  [class : {"url timeout", "timeout"}, status : {"none"}, text : {{"timed out"}}] \cup
  [class : {"url"}, status : {"none"}, text : SUBSET Phrases] \cup
  [class : {"library"}, status : Statuses \cup {"none"}, text : SUBSET Phrases]

ProviderError(category, status, text) == [category |-> category, status |-> status, text |-> text]

(* _build_http_provider_error: the text is the status and the body.        *)
HttpError(status, body) ==
  ProviderError(CASE status = "429" -> "rate_limit"
                  [] status \in {"500", "503"} -> "server_error"
                  [] OTHER -> "http_error",
                status, {status} \cup body)

(* Without a class or a status the text decides.                           *)
ByText(text) ==
  CASE text \cap RatePhrases # {} -> "rate_limit"
    [] text \cap (TimeoutPhrases \cup {"deadline exceeded"}) # {} -> "timeout"
    [] text \cap {"connection refused", "connection aborted"} # {} -> "network"
    [] OTHER -> "unknown"

(* Faulty: the text is looked at before the status.                        *)
ClassifiedByText(e) ==
  CASE e.class \in {"url timeout", "timeout"} -> ProviderError("timeout", "none", e.text)
    [] e.class = "url" -> ProviderError("network", "none", e.text)
    [] OTHER -> ProviderError(ByText(e.text), e.status, e.text)

(* _classify_embedding_exception: the body of a library's error is lost.   *)
Classified(e) ==
  CASE e.class = "http" -> HttpError(e.status, e.text)
    [] e.class \in {"url timeout", "timeout"} -> ProviderError("timeout", "none", e.text)
    [] e.class = "url" -> ProviderError("network", "none", e.text)
    [] e.status # "none" -> HttpError(e.status, {})
    [] OTHER -> ProviderError(ByText(e.text), "none", e.text)

(* _is_retryable_error, with the configured retryable_status_codes.        *)
TriedAgain(error, codes) ==
  \/ error.status \in codes
  \/ error.category \in {"rate_limit", "timeout", "network", "server_error"}

-----------------------------------------------------------------------------
(* Exceptions that reach a tool *)

Exception(class, text) == [class |-> class, text |-> text]

Told(code, retryable) == [code |-> code, retryable |-> retryable]

(* Faulty: the words of the text come before the class of the exception.   *)
ToolErrorByWords(x) ==
  CASE x.text \cap TimeoutPhrases # {} -> Told("TIMEOUT", TRUE)
    [] x.class = "capability" -> Told("UNSUPPORTED_CAPABILITY", FALSE)
    [] x.class = "reindex" -> Told("CONFIG_INVALID", FALSE)
    [] x.text \cap RatePhrases # {} -> Told("RATE_LIMITED", TRUE)
    [] x.text \cap GatewayPhrases # {} -> Told("UPSTREAM_ERROR", TRUE)
    [] OTHER -> Told("INTERNAL_ERROR", FALSE)

(* exception_to_mcp_error.                                                 *)
ToolError(x) ==
  CASE x.class = "capability" -> Told("UNSUPPORTED_CAPABILITY", FALSE)
    [] x.class = "reindex" -> Told("CONFIG_INVALID", FALSE)
    [] x.class = "timeout" \/ x.text \cap TimeoutPhrases # {} -> Told("TIMEOUT", TRUE)
    [] x.class = "connection" \/ x.text \cap {"connection refused", "name resolution"} # {} -> Told("UPSTREAM_ERROR", TRUE)
    [] x.text \cap RatePhrases # {} -> Told("RATE_LIMITED", TRUE)
    [] x.text \cap GatewayPhrases # {} -> Told("UPSTREAM_ERROR", TRUE)
    [] OTHER -> Told("INTERNAL_ERROR", FALSE)

-----------------------------------------------------------------------------
(* Properties *)

(* The two classifications agree where a client's loop depends on it: no   *)
(* text makes a refused capability or an outdated index worth a retry; a   *)
(* limit, a gateway error and a timeout are always told to be worth one;   *)
(* and an HTTP error with a plain body is not, unless the pipeline itself  *)
(* tried again.  (Status 500, a broken connection and a passed deadline    *)
(* are tried again by the pipeline and told as INTERNAL_ERROR.)            *)
RetryAdviceIsSoundFor(e) ==
  LET error == Classified(e) told == ToolError(Exception("provider", error.text)) IN
  /\ \A class \in {"capability", "reindex"} : ~ToolError(Exception(class, e.text)).retryable
  /\ error.status \in {"429", "503"} \/ e.class \in {"timeout", "url timeout"} => told.retryable
  /\ e.class = "http" /\ e.text = {} /\ told.retryable => TriedAgain(error, {})
=============================================================================
