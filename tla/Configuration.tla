--------------------------- MODULE Configuration ---------------------------
(***************************************************************************)
(* From a configuration document to an embedding pipeline (config.py,      *)
(* runtime_factory.py): the document is merged into the defaults, section  *)
(* by section and key by key, and the pipeline is built from what results: *)
(* an embedder with the arguments of its class, a vector store to search   *)
(* and those to write.                                                     *)
(*                                                                         *)
(* A value is [dict |-> function of values], [leaf |-> text], null or 0.   *)
(* Texts are without blanks around them and in lower case where the code   *)
(* makes them so; numbers other than 0 are their texts; lists are left     *)
(* out, and of the defaults what no branch reads.                          *)
(***************************************************************************)
EXTENDS Integers, Sequences

CONSTANTS Documents,  \* what is sent as config, or read from the file
          Numerals    \* the texts that int() takes

VARIABLE configured  \* the document, with the pipeline made of it

Leaf(text) == [leaf |-> text]
Dict(entries) == [dict |-> entries]
Null == [none |-> "null"]
Zero == [none |-> "0"]
IsDict(v) == "dict" \in DOMAIN v
IsNone(v) == v \in {Leaf(""), Null, Zero}
IsName(v) == "leaf" \in DOMAIN v /\ ~IsNone(v)
Key(v, k) == IF k \in DOMAIN v.dict THEN v.dict[k] ELSE Null

Defaults ==
  [embedding |-> Dict(
     [provider |-> Leaf("llamaindex"), model |-> Leaf("voyage-code-3"), dim |-> Leaf("256"),
      api_base |-> Leaf(""), api_key |-> Leaf(""),
      llama |-> Dict(
        [class_path |-> Leaf("VoyageEmbedding"),
         kwargs |-> Dict([model_name |-> Leaf(""), voyage_api_key |-> Leaf(""), output_dimension |-> Leaf("")]),
         common_arg_map |-> Dict([model |-> Leaf("model_name"), api_key |-> Leaf("voyage_api_key"),
                                  dim |-> Leaf("output_dimension"), api_base |-> Leaf("")])])]),
   vector |-> Dict([backend |-> Leaf("lancedb"), write_mode |-> Leaf("dual"), lancedb |-> Dict([uri |-> Leaf("")])])]

(* _deep_merge, which calls itself where both sides are objects.  In the   *)
(* defaults a section has objects with objects, and these have none: the   *)
(* fourth call is the last.                                                *)
Both(base, override) == {k \in DOMAIN base \cap DOMAIN override : IsDict(base[k]) /\ IsDict(override[k])}

Merge(base, override, inner) ==
  [k \in DOMAIN base \cup DOMAIN override |->
     IF k \in DOMAIN inner THEN Dict(inner[k])
     ELSE IF k \in DOMAIN override THEN override[k] ELSE base[k]]

MergeArguments(base, override) ==
  Merge(base, override, [k \in Both(base, override) |-> override[k].dict])
MergeLlama(base, override) ==
  Merge(base, override, [k \in Both(base, override) |-> MergeArguments(base[k].dict, override[k].dict)])
MergeSection(base, override) ==
  Merge(base, override, [k \in Both(base, override) |-> MergeLlama(base[k].dict, override[k].dict)])
DeepMerge(base, override) ==
  Merge(base, override, [k \in Both(base, override) |-> MergeSection(base[k].dict, override[k].dict)])

MergeWithDefaults(document) == DeepMerge(Defaults, document)

-----------------------------------------------------------------------------
(* make_vector_stores: an unknown backend searches SQLite.                 *)
WritesOf == [sqlite_only |-> {"sqlite"}, lancedb_only |-> {"lancedb"}, dual |-> {"sqlite", "lancedb"}]

VectorStoresFail(vector) == \/ Key(vector, "write_mode") \notin {Leaf(mode) : mode \in DOMAIN WritesOf}
                            \/ ~IsDict(Key(vector, "lancedb")) /\ ~IsNone(Key(vector, "lancedb"))

SearchStore(vector) == IF Key(vector, "backend") = Leaf("lancedb") THEN "lancedb" ELSE "sqlite"

-----------------------------------------------------------------------------
(* str(): what is no text gets the text it is shown by, null among them;   *)
(* one text stands for those of all objects.  int(), which gives 0 for "0" *)
(* and raises for what is no number.                                       *)
TextOf(v) == CASE v = Null -> Leaf("None") [] v = Zero -> Leaf("0") [] IsDict(v) -> Leaf("{}") [] OTHER -> v
IsNumber(v) == v = Zero \/ v \in {Leaf(numeral) : numeral \in Numerals}
NumberOf(v) == IF v = Leaf("0") THEN Zero ELSE v

(* The settings that arguments of a LlamaIndex class are taken from, in    *)
(* the order of common_arg_map, but for timeout and batch size.            *)
Common == <<"model", "api_key", "dim", "api_base">>

(* embedding_runtime_dict_from_app_config, for these.                      *)
Runtime(e) == [model |-> TextOf(Key(e, "model")), api_key |-> TextOf(Key(e, "api_key")),
               dim |-> NumberOf(Key(e, "dim")), api_base |-> TextOf(Key(e, "api_base"))]

(* Those of them that the map names an argument for and that say something.*)
Mapped(argMap, settings) ==
  {i \in DOMAIN Common : IsName(Key(argMap, Common[i])) /\ ~IsNone(settings[Common[i]])}

Offers(argument, argMap, settings) == {i \in Mapped(argMap, settings) : Key(argMap, Common[i]).leaf = argument}

(* The first of them that is for this argument.                            *)
Offered(argument, argMap, settings) ==
  LET offers == Offers(argument, argMap, settings)
  IN IF offers = {} THEN Null
     ELSE settings[Common[CHOOSE i \in offers : \A j \in offers : i <= j]]

Arguments(kwargs, argMap, settings) ==
  DOMAIN kwargs.dict \cup {Key(argMap, Common[i]).leaf : i \in Mapped(argMap, settings)}

(* Faulty: the common settings overrule the arguments of the class.        *)
ResolveLlamaInitKwargsOverruling(kwargs, argMap, settings) ==
  [a \in Arguments(kwargs, argMap, settings) |->
     IF Offers(a, argMap, settings) # {} THEN Offered(a, argMap, settings) ELSE Key(kwargs, a)]

(* resolve_llama_init_kwargs                                               *)
ResolveLlamaInitKwargs(kwargs, argMap, settings) ==
  [a \in Arguments(kwargs, argMap, settings) |->
     IF ~IsNone(Key(kwargs, a)) THEN Key(kwargs, a) ELSE Offered(a, argMap, settings)]

Object(v) == IF IsNone(v) THEN Dict(<<>>) ELSE v

EmbedderOf == [http |-> "HttpEmbeddingClient", voyage |-> "VoyageEmbeddingClient",
               local |-> "LocalSentenceTransformerEmbedder", llamaindex |-> "LlamaIndexEmbedder"]

(* A provider that is not known gets the deterministic embedder.           *)
Embedder(provider) ==
  IF provider \in {Leaf(name) : name \in DOMAIN EmbedderOf} THEN EmbedderOf[provider.leaf] ELSE "DeterministicEmbedder"

(* What each provider cannot do without, looked for after str().           *)
EmbedderFails(e) ==
  LET llama == Object(Key(e, "llama"))
      provider(name) == Key(e, "provider") = Leaf(name)
      without(k) == TextOf(Key(e, k)) = Leaf("")
  IN \/ provider("http") /\ (without("model") \/ without("api_base"))
     \/ provider("voyage") /\ (without("model") \/ without("api_key"))
     \/ provider("local") /\ without("model")
     \/ /\ provider("llamaindex")
        /\ ~IsDict(llama) \/ \E k \in {"kwargs", "common_arg_map"} : ~IsDict(Object(Key(llama, k)))

(* A section that is not an object raises where it is first read, and so   *)
(* does a dimension that is no number.                                     *)
Fails(cfg) == \/ \E section \in {"embedding", "vector"} : ~IsDict(cfg[section])
              \/ ~IsNumber(Key(cfg.embedding, "dim"))
              \/ VectorStoresFail(cfg.vector)
              \/ EmbedderFails(cfg.embedding)

(* make_embedding_pipeline                                                 *)
Pipeline(cfg) ==
  LET e == cfg.embedding
      llama == Object(Key(e, "llama"))
      embedder == Embedder(Key(e, "provider"))
  IN [search |-> SearchStore(cfg.vector), writes |-> WritesOf[Key(cfg.vector, "write_mode").leaf],
      embedder |-> embedder,
      args |-> IF embedder = "LlamaIndexEmbedder"
               THEN ResolveLlamaInitKwargs(Object(Key(llama, "kwargs")), Object(Key(llama, "common_arg_map")), Runtime(e))
               ELSE <<>>]

ConfigInit == configured = <<>>

(* make_embedding_pipeline_from_app_config: a pipeline, or an exception.   *)
Configure ==
  /\ configured = <<>>
  /\ \E d \in Documents :
       LET cfg == MergeWithDefaults(d)
       IN configured' = IF Fails(cfg) THEN [document |-> d, raised |-> TRUE]
                        ELSE [document |-> d, raised |-> FALSE, pipeline |-> Pipeline(cfg)]

ConfigSpec == ConfigInit /\ [][Configure]_configured

-----------------------------------------------------------------------------
(* Properties *)

(* A place in the document and in the defaults, with what each says there: *)
(* {} or a value.  Below what the document puts in the place of an object  *)
(* the defaults say nothing.                                               *)
Said(values, k) == {v.dict[k] : v \in {w \in values : IsDict(w) /\ k \in DOMAIN w.dict}}

Top(document) == [said |-> {Dict(document)}, default |-> {Dict(Defaults)}]

Below(place, k) ==
  [said |-> Said(place.said, k),
   default |-> IF \A v \in place.said : IsDict(v) THEN Said(place.default, k) ELSE {}]

(* What is in force at a place that has no default object.                 *)
InForce(place) == IF place.said # {} THEN place.said ELSE place.default

Vector(d) == Below(Top(d), "vector")
Embedding(d) == Below(Top(d), "embedding")
Llama(d) == Below(Embedding(d), "llama")
Kwargs(d) == Below(Llama(d), "kwargs")
ArgMap(d) == Below(Llama(d), "common_arg_map")

Selects(d, k, text) == InForce(Below(Vector(d), k)) = {Leaf(text)}

(* What is in force of an argument itself, of a common setting and of the  *)
(* argument it is mapped to; and the settings for an argument.             *)
OwnArgument(d, a) == {v \in InForce(Below(Kwargs(d), a)) : ~IsNone(v)}
Setting(d, i) == {v \in InForce(Below(Embedding(d), Common[i])) : ~IsNone(v)}
MappedTo(d, i) == {v \in InForce(Below(ArgMap(d), Common[i])) : IsName(v)}
SettingsFor(d, a) == {i \in DOMAIN Common : Setting(d, i) # {} /\ \E v \in MappedTo(d, i) : v.leaf = a}

(* The settings that do not arrive as they stand: null, 0 and objects      *)
(* become texts that pass for settings, and the dimension "0" is none.     *)
Changed(d) ==
  {i \in DOMAIN Common : \E v \in InForce(Below(Embedding(d), Common[i])) :
     IF Common[i] = "dim" THEN v = Leaf("0") ELSE v \in {Null, Zero} \/ IsDict(v)}

(* The search looks into a store that runs fill, unless the document asks  *)
(* for two different ones.                                                 *)
SearchArrives(d, p) ==
  p.search \notin p.writes <=> \/ Selects(d, "backend", "lancedb") /\ Selects(d, "write_mode", "sqlite_only")
                               \/ ~Selects(d, "backend", "lancedb") /\ Selects(d, "write_mode", "lancedb_only")

(* An embedding class gets, for every argument, what the document says of  *)
(* the argument itself, or else a setting that the document, or the        *)
(* defaults where it is silent, maps to it, and nothing if there is none;  *)
(* and all that is said or mapped arrives.  What a changed setting is      *)
(* mapped to is left open.                                                 *)
ArgumentsArrive(d, args) ==
  /\ \A a \in DOMAIN args :
       IF OwnArgument(d, a) # {} THEN args[a] \in OwnArgument(d, a)
       ELSE \/ \E i \in Changed(d) : \E v \in MappedTo(d, i) : v.leaf = a
            \/ SettingsFor(d, a) = {} /\ IsNone(args[a])
            \/ \E i \in SettingsFor(d, a) : args[a] \in Setting(d, i)
  /\ \A v \in Kwargs(d).said : IsDict(v) => DOMAIN v.dict \subseteq DOMAIN args
  /\ \A i \in DOMAIN Common \ Changed(d) : \A v \in MappedTo(d, i) : Setting(d, i) # {} => v.leaf \in DOMAIN args

(* A pipeline has what its document and, where that is silent, the         *)
(* defaults ask for, but for a model, key or address that is null, 0 or an *)
(* object.  So a map for another class still hands over the defaults' own  *)
(* arguments, unless the document blanks them one by one.                  *)
SettingsArrive ==
  configured # <<>> /\ ~configured.raised =>
    LET d == configured.document
        p == configured.pipeline
    IN SearchArrives(d, p) /\ (p.embedder = "LlamaIndexEmbedder" => ArgumentsArrive(d, p.args))
=============================================================================
