-------------------------- MODULE MCBuildPipeline --------------------------
(* Two snapshots and three builds of one database; what a client sees of   *)
(* one build; the syntax fallback at work on a source tree; and the        *)
(* registry of built indexes with the gateway that serves them; errors to  *)
(* be told and settings to arrive.  A behaviour is of one scene: they      *)
(* share no state.                                                         *)
EXTENDS Serving, Gateway, SyntaxIndexer, JobProgress, Configuration, MCSyntaxProjects, MCServing

CONSTANTS s1, s2, Scenes

-----------------------------------------------------------------------------
(* Three repositories, two of which have the same slug.                    *)

AB == <<"a", "b">>
MCSlugOrder == <<AB, <<"c">>>>
MCRepos == {[words |-> AB, separators |-> <<"/">>], [words |-> AB, separators |-> <<"_">>],
            [words |-> <<"c">>, separators |-> <<>>]}

(* Three commands of two processes; or two, with two starts of the gateway *)
(* and one database that comes or goes; or nothing, for the other scenes.  *)
NoBudget == [commands |-> 0, starts |-> 0, changes |-> 0]
MCBudgets == {NoBudget, [commands |-> 3, starts |-> 0, changes |-> 0], [commands |-> 2, starts |-> 2, changes |-> 1]}

(* Chunks are fetched by three and embedded by two: a page makes a batch   *)
(* of two and one of one, and more of them come than were announced.       *)

(* Three files in the order of their names.                                *)
MCFiles == <<"f", "g", "h">>

VARIABLES scene, lookup

MCLookups == {[what |-> "error", raised |-> e] : e \in Raised}

NoServing == served = <<>> /\ holder = None /\ calls = [c \in Clients |-> NoCall]

NoSyntax ==
  /\ tree = <<>> /\ pass = "none" /\ todo = {} /\ seen = <<>> /\ declared = <<>> /\ pending = {}
  /\ symbols = {} /\ occurrences = {} /\ relations = {} /\ index = NoRows /\ edits = 0 /\ still = TRUE

NoProgress == record = [status |-> "none", percent |-> 0] /\ script = <<>>

MCInit ==
  /\ scene \in Scenes /\ Init
  /\ GatewayInit /\ (scene = "gateway" <=> left # NoBudget)
  /\ IF scene = "progress" THEN ProgressInit ELSE NoProgress
  /\ IF scene = "syntax" THEN SyntaxInit ELSE NoSyntax
  /\ IF scene = "serving" THEN ServingInit ELSE NoServing
  /\ IF scene = "errors" THEN lookup \in MCLookups ELSE lookup = [what |-> "none"]
  /\ ConfigInit

(* Two clients of one process call it, the second one of MCSecond, with    *)
(* faulty arguments only if there is no build; two builds, one of a syntax *)
(* and one of a document index, run under them to their end.               *)
ServeOrBuild ==
  /\ ServedNext
  /\ \A c \in {x \in Clients : calls[x].at = "idle" /\ calls'[x].at # "idle"} :
       /\ calls'[c].request \in MCFaulty => builds = 0
       /\ c = "d" => calls'[c].request \in MCSecond /\ calls["c"].at # "idle"
                     /\ calls'[c].request.via = calls["c"].request.via
  /\ builds' # builds =>
       /\ builds < 2
       /\ request' \in [snapshot : {s1}, backend : {"tree-sitter-java", "document"}, fallback : {"off"}]
       /\ builds = 1 => request'.backend # request.backend
       /\ \A c \in Clients : calls[c].request \notin MCFaulty
  /\ pc' \notin {"raised", "dead"}

MCNext ==
  \/ scene = "builds" /\ Next /\ UNCHANGED <<gatewayVars, progressVars, syntaxVars, servingVars>>
  \/ scene = "progress" /\ ProgressNext /\ UNCHANGED <<vars, gatewayVars, syntaxVars, servingVars>>
  \/ scene = "gateway" /\ GatewayNext /\ UNCHANGED <<vars, progressVars, syntaxVars, servingVars>>
  \/ scene = "syntax" /\ SyntaxNext /\ UNCHANGED <<vars, gatewayVars, progressVars, servingVars>>
  \/ scene = "serving" /\ ServeOrBuild /\ UNCHANGED <<gatewayVars, progressVars, syntaxVars>>

MCSpec ==
  /\ MCInit
  /\ [][/\ \/ MCNext /\ UNCHANGED configured
           \/ scene = "settings" /\ Configure /\ UNCHANGED <<vars, gatewayVars, progressVars, syntaxVars, servingVars>>
        /\ UNCHANGED <<scene, lookup>>]_<<vars, scene, lookup, gatewayVars, progressVars, syntaxVars, servingVars, configured>>

(* See ToolErrors.                                                         *)
RetryAdviceIsSound == lookup.what = "error" => RetryAdviceIsSoundFor(lookup.raised)
=============================================================================
