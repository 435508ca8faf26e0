---------------------------- MODULE SyntaxIndexer ----------------------------
(***************************************************************************)
(* The syntax fallback (fallback_indexer.py, SyntaxFallbackIndexer): when  *)
(* no SCIP index can be built, the Java files are parsed twice.  The first *)
(* pass collects the declarations, the names they refer to are resolved    *)
(* against all of them, the second pass reads the files again and resolves *)
(* what the bodies call and use.  Other programs may edit, delete and add  *)
(* files all the while.                                                    *)
(*                                                                         *)
(* A name is a sequence of identifiers: <<"p", "A">> is p.A.  A text is    *)
(* its package (<<>> or a name), its imports and its declarations in the   *)
(* order of the text, each with the names of the types around it.  Generics*)
(* and brackets are stripped: of List<A>[] a text keeps <<"List">>.  Texts *)
(* have no classes inside of bodies and no initialisers, and a body has no *)
(* name that is a variable in one block and something else in another.     *)
(* Rows are sets: copies of a row and confidences are not told apart.      *)
(***************************************************************************)
EXTENDS Integers, Sequences, FiniteSets, SequencesExt

CONSTANTS JavaFiles,  \* the paths of the Java files, sorted
          Projects,   \* what a run may find: a text or Absent for each file, and a bound on edits
          Rewrites    \* texts, or Absent, that an edit may leave behind

VARIABLES tree,       \* the working tree
          pass,       \* collect, scan, store, done
          todo,       \* places in JavaFiles that the present pass has before it
          seen,       \* file -> the text the first pass read
          declared,   \* declarations in the order they were met
          pending,                           \* names to resolve after the first pass
          symbols, occurrences, relations,   \* rows to write
          index,      \* the rows of the database
          edits,      \* how many edits may still come
          still       \* nobody edited the tree so far

rowVars == <<symbols, occurrences, relations>>
syntaxVars == <<tree, pass, todo, seen, declared, pending, rowVars, index, edits, still>>

Absent == [pkg |-> <<>>, imports |-> <<>>, decls |-> <<>>, absent |-> TRUE]

TypeKinds == {"class", "interface", "enum", "record", "annotation"}
Callable == {"method", "constructor"}

(* What Java has besides: components in the head of a record, constants of *)
(* an interface or annotation, elements of an annotation, and constructors *)
(* without a list of parameters.                                           *)
Variables == {"field", "component", "constant"}
Routines == Callable \cup {"element", "compact"}

-----------------------------------------------------------------------------
Names == Seq(STRING)

(* A declaration that is inside of something is inside of a type, and only *)
(* types are inside of nothing; every type that a text names has a name.   *)
IsDeclaration(d) ==
  /\ d.name \in STRING /\ d.in \in Names /\ d.is \in TypeKinds \cup Routines \cup Variables
  /\ d.notes \in Seq(ToSet(d.notes))
  /\ d.is \in TypeKinds =>
       /\ d.clauses \in Seq(ToSet(d.clauses))
       /\ \A c \in ToSet(d.clauses) : c.relation \in {"extends", "implements"} /\ ToSet(c.refs) \subseteq Names \ {<<>>}
  /\ d.is \notin TypeKinds => d.in # <<>>
  /\ d.is \in Variables => d.type \in Names \ {<<>>}
  /\ d.is \in Callable =>
       /\ d.locals \in Seq(ToSet(d.locals)) /\ \A l \in ToSet(d.locals) : l.type \in Names \ {<<>>}
       /\ \A u \in ToSet(d.uses) : u.path \in Names /\ (u.is = "new" => u.path # <<>>)

Nested(text) ==
  /\ text.pkg \in Names
  /\ text.imports \in Seq(ToSet(text.imports)) /\ \A i \in ToSet(text.imports) : i.target \in Names \ {<<>>}
  /\ text.decls \in Seq(ToSet(text.decls))
  /\ \A d \in ToSet(text.decls) : IsDeclaration(d) /\ (d.in # <<>> =>
       \E o \in ToSet(text.decls) : o.is \in TypeKinds /\ Append(o.in, o.name) = d.in)

ASSUME TextsAssumption ==
  /\ \A text \in Rewrites : Nested(text)
  /\ \A p \in Projects : ToSet(JavaFiles) \subseteq DOMAIN p.files /\ \A f \in DOMAIN p.files : Nested(p.files[f])

(* No path is listed twice.                                                *)
ASSUME FilesAssumption == \A i, j \in DOMAIN JavaFiles : JavaFiles[i] = JavaFiles[j] => i = j

-----------------------------------------------------------------------------
(* Look-ups by a property that some places of a sequence have: dictionaries*)
(* keep the last entry, lists with more than one entry say nothing.        *)

LatestIn(s, places) == {s[i] : i \in {k \in places : \A j \in places : j <= k}}

OnlyIn(s, places) == {s[i] : i \in {k \in places : places = {k}}}

Either(found, otherwise) == IF found # {} THEN found ELSE otherwise

Listing == {i \in DOMAIN JavaFiles : tree[JavaFiles[i]] # Absent}

Types == {i \in DOMAIN declared : declared[i].visited /\ declared[i].decl.is \in TypeKinds}

ByName(q) == LatestIn(declared, {i \in Types : declared[i].qname = q})

Imported(imports, short) ==
  LatestIn(imports, {i \in DOMAIN imports : ~ imports[i].star /\ Last(imports[i].target) = short})

ImportedType(imports, short) == UNION {ByName(i.target) : i \in Imported(imports, short)}

Mates(pkg, short) == OnlyIn(declared, {i \in Types : declared[i].pkg = pkg /\ declared[i].name = short})

(* Faulty: what is near comes before what is imported.                     *)
ResolveNearest(ref, pkg, imports) ==
  Either(ByName(ref), Either(Mates(pkg, Last(ref)), ImportedType(imports, Last(ref))))

(* The first of five ways to read a name that gives one type.              *)
Resolve(ref, pkg, imports) ==
  LET short == Last(ref)
      stars == {i \in DOMAIN imports : imports[i].star /\ ByName(Append(imports[i].target, short)) # {}}
      onDemand == UNION {ByName(Append(i.target, short)) : i \in OnlyIn(imports, stars)}
      alike == OnlyIn(declared, {i \in Types : declared[i].name = short})
  IN Either(ByName(ref), Either(ImportedType(imports, short),
       Either(Mates(pkg, short), Either(onDemand, alike))))

Method(owner, name, arity, is) ==
  OnlyIn(declared, {i \in DOMAIN declared : LET d == declared[i].decl IN
    declared[i].visited /\ d.is \in Callable /\ d.is = is /\ declared[i].owner = owner /\ declared[i].name = name /\ d.arity = arity})

Fields == {i \in DOMAIN declared : declared[i].visited /\ declared[i].decl.is = "field"}

Field(owner, name) == OnlyIn(declared, {i \in Fields : declared[i].owner = owner /\ declared[i].name = name})

-----------------------------------------------------------------------------
(* The first pass.                                                         *)

Around(text, d) == text.pkg \o d.in

(* A constructor has the name of its class, whatever the tree says.        *)
Name(d) == IF d.is = "constructor" THEN Last(d.in) ELSE d.name

QName(text, d) == Append(Around(text, d), Name(d))

SymbolId(f, text, d) ==
  IF d.is \in TypeKinds THEN <<"type", f, QName(text, d), d.is>>
  ELSE IF d.is \in Callable THEN <<d.is, f, QName(text, d), d.arity>>
  ELSE <<"field", f, QName(text, d)>>

PackageId(text) == IF text.pkg = <<>> THEN <<>> ELSE <<"pkg", text.pkg>>

OwnerOf(text, d) == CHOOSE o \in ToSet(text.decls) : o.is \in TypeKinds /\ Append(o.in, o.name) = d.in

Enclosing(f, text, d) ==
  IF d.in = <<>> THEN PackageId(text) ELSE SymbolId(f, text, OwnerOf(text, d))

ImportId(f, i) == <<"import", f, i.target, i.star>>

(* visit takes the children of a type's body that are of the kinds it      *)
(* knows.  What an enum declares after its constants is not among these:   *)
(* it lies one node deeper.                                                *)
Visited(text, d) ==
  /\ d.is \in TypeKinds \cup Callable \cup {"field"}
  /\ \A o \in ToSet(text.decls) : o.is = "enum" => ~ IsPrefix(Append(o.in, o.name), d.in)

VisitedIn(text) == {k \in DOMAIN text.decls : Visited(text, text.decls[k])}

SymbolsOf(f, text) ==
  {[id |-> PackageId(text), within |-> <<>>] : p \in {text.pkg} \ {<<>>}}
  \cup {[id |-> ImportId(f, i), within |-> PackageId(text)] : i \in ToSet(text.imports)}
  \cup {[id |-> SymbolId(f, text, text.decls[k]), within |-> Enclosing(f, text, text.decls[k])] : k \in VisitedIn(text)}

(* A place is a declaration (0: the head of the file), a part of it, which *)
(* of these parts and which identifier in it.                              *)
Row(f, id, at, role) == [doc |-> f, symbol |-> id, at |-> at, role |-> role]

DefinitionsOf(f, text) ==
  {Row(f, PackageId(text), <<0, "package", 0, 0>>, "definition") : p \in {text.pkg} \ {<<>>}}
  \cup {Row(f, ImportId(f, text.imports[k]), <<0, "import", k, 0>>, "definition") : k \in DOMAIN text.imports}
  \cup {Row(f, SymbolId(f, text, text.decls[k]), <<k, "name", 0, 0>>, "definition") : k \in VisitedIn(text)}

(* What known_types, known_methods and known_fields get, as one list.  What*)
(* is not visited is in it only for the properties to speak of.            *)
DeclaredIn(f, text) ==
  [k \in DOMAIN text.decls |-> LET d == text.decls[k] IN
     [id |-> SymbolId(f, text, d), owner |-> Around(text, d), qname |-> QName(text, d), name |-> Name(d),
      pkg |-> text.pkg, decl |-> d, visited |-> Visited(text, d)]]

(* Superclasses and interfaces, the type of a field, annotations, and the  *)
(* owner; all names of a clause stand at the place of the clause.          *)
Clauses(d) ==
  (IF d.is \in TypeKinds THEN d.clauses ELSE IF d.is = "field" THEN <<[relation |-> "field_type", refs |-> <<d.type>>]>> ELSE <<>>)
  \o [k \in DOMAIN d.notes |-> [relation |-> "annotated_with", refs |-> <<d.notes[k]>>]]

PendingOf(f, text) ==
  LET ask(d, relation, ref, at) ==
        [from |-> SymbolId(f, text, d), relation |-> relation, ref |-> ref, file |-> f,
         pkg |-> text.pkg, imports |-> text.imports, at |-> at]
  IN {ask(text.decls[k], "belongs_to", Around(text, text.decls[k]), <<>>) : k \in {k \in VisitedIn(text) : text.decls[k].in # <<>>}}
     \cup UNION {UNION {LET d == text.decls[k]
                             c == Clauses(d)[n]
                         IN {ask(d, c.relation, ref, <<k, "clause", n, 0>>) : ref \in ToSet(c.refs)} :
                           n \in DOMAIN Clauses(text.decls[k])} : k \in VisitedIn(text)}

(* The passes take the files in their order.                               *)
Takes(i) == (\A j \in todo : i <= j) /\ todo' = todo \ {i}

Collect ==
  /\ pass = "collect"
  /\ \E i \in todo : Takes(i) /\
       LET f == JavaFiles[i]
           text == tree[f]
           read == text # Absent
       IN /\ seen' = IF read THEN [g \in DOMAIN seen \cup {f} |-> IF g = f THEN text ELSE seen[g]] ELSE seen
          /\ declared' = declared \o DeclaredIn(f, text)
          /\ pending' = pending \cup PendingOf(f, text)
          /\ symbols' = symbols \cup SymbolsOf(f, text)
          /\ occurrences' = occurrences \cup DefinitionsOf(f, text)
  /\ UNCHANGED <<tree, pass, relations, index, edits, still>>

-----------------------------------------------------------------------------
(* Between the passes: names become relations and references.  What is not *)
(* an annotation of this repository gets a symbol of its own.              *)

GuessedName(ref, pkg, imports) ==
  LET short == Last(ref)
      direct == {i.target : i \in Imported(imports, short)}
      stars == {i \in DOMAIN imports : imports[i].star}
      guesses == Either(direct, Either(IF Len(ref) > 1 THEN {ref} ELSE {},
                   {Append(i.target, short) : i \in OnlyIn(imports, stars)}))
  IN IF guesses = {} THEN Append(pkg, short) ELSE CHOOSE q \in guesses : TRUE

Targets(p) ==
  LET found == Resolve(p.ref, p.pkg, p.imports)
      annotation == {t \in found : t.decl.is = "annotation"}
  IN IF p.relation # "annotated_with" THEN {t.id : t \in found}
     ELSE IF annotation # {} THEN {t.id : t \in annotation}
     ELSE {<<"ann", GuessedName(p.ref, p.pkg, p.imports)>>}

Relate ==
  /\ pass = "collect" /\ todo = {}
  /\ pass' = "scan" /\ todo' = Listing
  /\ relations' = relations \cup UNION {{<<p.from, t, p.relation>> : t \in Targets(p)} : p \in pending}
  /\ occurrences' = occurrences
       \cup UNION {{Row(p.file, t, p.at, "reference") : t \in Targets(p)} : p \in {p \in pending : p.at # <<>>}}
  /\ symbols' = symbols \cup
       UNION {{[id |-> t, within |-> <<>>] : t \in {t \in Targets(p) : t[1] = "ann"}} : p \in pending}
  /\ UNCHANGED <<tree, seen, declared, pending, index, edits, still>>

-----------------------------------------------------------------------------
(* The second pass: calls, constructions and fields in the bodies.         *)

(* collect_locals takes the parameters, caught exceptions and variables of *)
(* a body, and no "other" ones: those of a for-each, of a resource, of a   *)
(* pattern and of a lambda without types.  It has them by the name that is *)
(* found first, which in "A... a" is A, and knows the types of two kinds.  *)
Typed == {"formal_parameter", "local_variable_declaration"}
Collected == Typed \cup {"catch_formal_parameter", "spread_parameter"}

LocalNames(d) == {d.locals[k].found : k \in {k \in DOMAIN d.locals : d.locals[k].is \in Collected}}

LocalType(d, name, pkg, imports) ==
  UNION {Resolve(l.type, pkg, imports) :
           l \in LatestIn(d.locals, {k \in DOMAIN d.locals :
                   /\ d.locals[k].is \in Typed /\ d.locals[k].found = name
                   /\ Resolve(d.locals[k].type, pkg, imports) # {}})}

IsLocal(d, path) == Len(path) = 1 /\ path[1] \in LocalNames(d)

(* Faulty: a field hides the local variable of its name.                   *)
ReceiverFieldFirst(own, u, d, pkg, imports) ==
  LET field == IF u.path = <<>> THEN {} ELSE Field(own, Last(u.path))
  IN IF field # {} THEN {t.qname : t \in UNION {Resolve(x.decl.type, x.pkg, imports) : x \in field}}
     ELSE IF u.path \in {<<>>, <<"this">>} THEN {own}
     ELSE {t.qname : t \in Resolve(u.path, pkg, imports)}

(* The type whose method is called; where nothing is known of the receiver *)
(* the class around the call stays.                                        *)
Receiver(own, u, d, pkg, imports) ==
  LET orOwn(found) == IF found = {} THEN {own} ELSE {t.qname : t \in found}
      field == Field(own, Last(u.path))
  IN IF u.path \in {<<>>, <<"this">>} THEN {own}
     ELSE IF IsLocal(d, u.path) THEN {t.qname : t \in LocalType(d, u.path[1], pkg, imports)}
     ELSE IF field # {} THEN orOwn(UNION {Resolve(x.decl.type, x.pkg, imports) : x \in field})
     ELSE orOwn(Resolve(u.path, pkg, imports))

(* Identifiers that may be fields of the class: all that are no locals,    *)
(* and what follows this.                                                  *)
FieldPlaces(d, path) ==
  {j \in DOMAIN path : path[j] # "this" /\ (path[j] \notin LocalNames(d) \/ (j = 2 /\ path[1] = "this"))}

(* What a use in a body refers to: [relation, id of the target, identifier].*)
Hits(own, u, d, pkg, imports) ==
  LET fieldAt(name, j) == {[relation |-> "field_refs", to |-> x.id, token |-> j] : x \in Field(own, name)}
      tokens == UNION {fieldAt(u.path[j], j) : j \in FieldPlaces(d, u.path)}
      through == IF u.path \in {<<>>, <<"this">>} \/ IsLocal(d, u.path) THEN {} ELSE fieldAt(Last(u.path), 1)
      called == UNION {Method(o, u.name, u.args, "method") : o \in Receiver(own, u, d, pkg, imports)}
      built == UNION {Method(t.qname, t.name, u.args, "constructor") : t \in Resolve(u.path, pkg, imports)}
      calls(ms) == {[relation |-> "calls", to |-> m.id, token |-> 0] : m \in ms}
  IN IF u.is = "call" THEN calls(called) \cup through \cup tokens
     ELSE IF u.is = "new" THEN calls(built)
     ELSE tokens

(* Faulty: a body is of the method that stands there now, whether it was   *)
(* collected or not.                                                       *)
ScannedAnew(f, text, d) == {[id |-> SymbolId(f, text, d)]}

(* A body is scanned when every type around it was found in the first pass *)
(* and its method is the only one of its name and arity there.             *)
Scanned(f, text, d) ==
  IF \A n \in DOMAIN d.in : ByName(text.pkg \o SubSeq(d.in, 1, n)) # {}
  THEN Method(Around(text, d), Name(d), d.arity, d.is) ELSE {}

ScanHits(f) ==
  LET text == tree[f]
      imports == IF f \in DOMAIN seen THEN seen[f].imports ELSE <<>>
      inBody(k, d) ==
        UNION {{[from |-> m.id, hit |-> h, at |-> <<k, "use", n, h.token>>] :
                  m \in Scanned(f, text, d), h \in Hits(Around(text, d), d.uses[n], d, text.pkg, imports)} :
                 n \in DOMAIN d.uses}
  IN UNION {inBody(k, text.decls[k]) : k \in {k \in DOMAIN text.decls : text.decls[k].is \in Callable}}

Scan ==
  /\ pass = "scan"
  /\ \E i \in todo : Takes(i) /\
       LET f == JavaFiles[i] IN
         /\ relations' = relations \cup {<<x.from, x.hit.to, x.hit.relation>> : x \in ScanHits(f)}
         /\ occurrences' = occurrences \cup {Row(f, x.hit.to, x.at, "reference") : x \in ScanHits(f)}
  /\ UNCHANGED <<tree, pass, seen, declared, pending, symbols, index, edits, still>>

-----------------------------------------------------------------------------
(* The old rows are deleted and committed, then the new ones are written.  *)

NoRows == [documents |-> {}, symbols |-> {}, occurrences |-> {}, relations |-> {}]

ClearRows ==
  /\ pass = "scan" /\ todo = {} /\ pass' = "store" /\ index' = NoRows
  /\ UNCHANGED <<tree, todo, seen, declared, pending, rowVars, edits, still>>

Store ==
  /\ pass = "store" /\ pass' = "done"
  /\ index' = [documents |-> DOMAIN seen, symbols |-> symbols, occurrences |-> occurrences, relations |-> relations]
  /\ UNCHANGED <<tree, todo, seen, declared, pending, rowVars, edits, still>>

(* Someone works in the tree while it is indexed.                          *)
Edit ==
  /\ edits > 0 /\ edits' = edits - 1 /\ still' = FALSE /\ pass \in {"collect", "scan"}
  /\ \E f \in ToSet(JavaFiles), text \in Rewrites : tree[f] # text /\ tree' = [tree EXCEPT ![f] = text]
  /\ UNCHANGED <<pass, todo, seen, declared, pending, rowVars, index>>

SyntaxInit ==
  /\ \E p \in Projects : tree = p.files /\ edits = p.edits
  /\ still = TRUE /\ pass = "collect" /\ todo = Listing /\ seen = <<>>
  /\ declared = <<>> /\ pending = {}
  /\ symbols = {} /\ occurrences = {} /\ relations = {} /\ index = NoRows

SyntaxNext == Collect \/ Relate \/ Scan \/ ClearRows \/ Store \/ Edit

SyntaxSpec == SyntaxInit /\ [][SyntaxNext]_syntaxVars

-----------------------------------------------------------------------------
(* What Java says of a name in a type: the innermost type around it that   *)
(* has a member of the name, then the import of one type, the package, and *)
(* the imports of whole packages if one of them has it.                    *)

TypesMet == {declared[i] : i \in Types}
TypesNamed(q) == {t \in TypesMet : t.qname = q}

JavaSimple(n, pkg, in, imports) ==
  LET depths == {k \in DOMAIN in : TypesNamed(pkg \o SubSeq(in, 1, k) \o <<n>>) # {}}
      inner == CHOOSE k \in depths : \A j \in depths : j <= k
      single == {i.target : i \in {i \in ToSet(imports) : ~ i.star /\ Last(i.target) = n}}
      stars == {i.target : i \in {i \in ToSet(imports) : i.star /\ TypesNamed(Append(i.target, n)) # {}}}
  IN IF depths # {} THEN TypesNamed(pkg \o SubSeq(in, 1, inner) \o <<n>>)
     ELSE IF single # {} THEN UNION {TypesNamed(q) : q \in single}
     ELSE IF TypesNamed(Append(pkg, n)) # {} THEN TypesNamed(Append(pkg, n))
     ELSE IF \E q \in stars : stars = {q} THEN UNION {TypesNamed(Append(q, n)) : q \in stars} ELSE {}

JavaType(ref, pkg, in, imports) ==
  IF Len(ref) = 1 THEN JavaSimple(ref[1], pkg, in, imports)
  ELSE IF TypesNamed(ref) # {} THEN TypesNamed(ref)
  ELSE UNION {TypesNamed(t.qname \o Tail(ref)) : t \in JavaSimple(ref[1], pkg, in, imports)}

Shared(n) == \E t, u \in TypesMet : t # u /\ t.name = n /\ u.name = n

(* Projects without the shapes that the resolver does not look at: types   *)
(* outside of packages, two files with one class, member types that share  *)
(* their name, foreign classes imported by a name that several have, a     *)
(* package imported twice, types inside of an enum; and without what Java  *)
(* does not compile: a package named like a type, two fields of one name   *)
(* in a class, two types of one name imported into a file.                 *)
PlainImports(imports) ==
  /\ \A i \in ToSet(imports) : ~ i.star /\ TypesNamed(i.target) = {} => ~ Shared(Last(i.target))
  /\ \A i, j \in {i \in DOMAIN imports : imports[i].star} : imports[i].target = imports[j].target => i = j
  /\ \A i, j \in {i \in ToSet(imports) : ~ i.star /\ TypesNamed(i.target) # {}} :
       Last(i.target) = Last(j.target) => i.target = j.target

PlainProject ==
  /\ \A i \in DOMAIN declared : declared[i].decl.is \in TypeKinds => declared[i].visited
  /\ \A t \in TypesMet : t.pkg # <<>>
  /\ \A i, j \in Types : declared[i].qname = declared[j].qname => i = j
  /\ \A t \in TypesMet : Len(t.qname) > Len(t.pkg) + 1 => ~ Shared(t.name)
  /\ \A t, u \in TypesMet : ~ IsPrefix(t.qname, u.pkg)
  /\ \A i, j \in Fields : declared[i].qname = declared[j].qname => i = j
  /\ \A f \in DOMAIN seen : PlainImports(seen[f].imports)

(* Types around the head of a declaration: its own body is inside of it.   *)
Scope(d) == IF d.is \in TypeKinds THEN Append(d.in, d.name) ELSE d.in

(* A relation to a type goes where Java's scoping rules go whenever they   *)
(* lead into this repository, and for a simple name that several types     *)
(* share it goes nowhere else; a member belongs to the type that encloses  *)
(* it.  Members that are not visited have no rows that could be wrong.     *)
NamesMeanWhatJavaSays ==
  pass = "done" /\ PlainProject =>
    \A f \in DOMAIN seen : LET text == seen[f] IN \A d \in {d \in ToSet(text.decls) : Visited(text, d)} :
      LET from == SymbolId(f, text, d)
          ends(relation) == {r[2] : r \in {r \in index.relations : r[1] = from /\ r[3] = relation}}
          meant(ref) == {t.id : t \in JavaType(ref, text.pkg, Scope(d), text.imports)}
          stated(relation) ==
            UNION {ToSet(Clauses(d)[n].refs) : n \in {n \in DOMAIN Clauses(d) : Clauses(d)[n].relation = relation}}
          settled(ref) == meant(ref) # {} \/ (Len(ref) = 1 /\ Shared(Last(ref)))
      IN /\ d.in # <<>> => ends("belongs_to") = {Enclosing(f, text, d)}
         /\ \A relation \in {"extends", "implements", "field_type"} :
              (\A ref \in stated(relation) : settled(ref))
                => ends(relation) = UNION {meant(ref) : ref \in stated(relation)}

(* All that Java takes for variables: of the class, and of the body.       *)
OwnFields(text, d, name) ==
  {declared[i] : i \in {i \in DOMAIN declared :
     declared[i].decl.is \in Variables /\ declared[i].owner = Around(text, d) /\ declared[i].name = name}}

LocalsNamed(d, name) == {l \in ToSet(d.locals) : l.name = name}

ReadAs(u, d, text) ==
  IF u.is = "new" THEN "type"
  ELSE IF u.path \in {<<>>, <<"this">>} THEN "own"
  ELSE IF Len(u.path) = 1 /\ LocalsNamed(d, u.path[1]) # {} THEN "local"
  ELSE IF OwnFields(text, d, Last(u.path)) # {} /\ u.path \in {<<Last(u.path)>>, <<"this", Last(u.path)>>} THEN "field"
  ELSE "type"

JavaReceiver(u, d, text) ==
  LET meant(ref) == JavaType(ref, text.pkg, d.in, text.imports)
      read == ReadAs(u, d, text)
  IN IF read = "own" THEN TypesNamed(Around(text, d))
     ELSE IF read = "local" THEN UNION {meant(l.type) : l \in LocalsNamed(d, Last(u.path))}
     ELSE IF read = "field" THEN UNION {meant(x.decl.type) : x \in OwnFields(text, d, Last(u.path))}
     ELSE meant(u.path)

(* The shapes of a call or construction that the scan does not look at.    *)

(* A local variable is one that it collects, under its name, with a type   *)
(* that Java finds or that has no namesake here; and no other has the name.*)
LocalIsSeen(l, name, d, text) ==
  /\ l.is \in Typed /\ l.name = name /\ l.found = name
  /\ \/ JavaType(l.type, text.pkg, d.in, text.imports) # {}
     \/ \A t \in TypesMet : t.name # Last(l.type)

LocalsAreSeen(u, d, text) ==
  Len(u.path) = 1 => \A l \in ToSet(d.locals) : u.path[1] \in {l.name, l.found} => LocalIsSeen(l, u.path[1], d, text)

(* A field is visited, and is meant where the last name is a field's.      *)
FieldsAreSeen(u, d, text) ==
  /\ OwnFields(text, d, Last(u.path)) # {} => u.path \in {<<Last(u.path)>>, <<"this", Last(u.path)>>}
  /\ \A x \in OwnFields(text, d, Last(u.path)) : x.visited

(* What is read as a type begins with the name of no variable; and without *)
(* a receiver the class has a method of the name, or is inside of none.    *)
NothingObscures(u, d, text) ==
  /\ ReadAs(u, d, text) = "type" =>
       /\ LocalsNamed(d, u.path[1]) = {}
       /\ \A i \in DOMAIN declared : declared[i].decl.is \in Variables => declared[i].name # u.path[1]
  /\ u.path = <<>> /\ Len(d.in) > 1 =>
       \E i \in DOMAIN declared : declared[i].owner = Around(text, d) /\ declared[i].name = u.name

(* The scan can follow a receiver of one type with all its functions       *)
(* visited, where nothing obscures a name.                                 *)
Followed(u, d, text) ==
  /\ \E t \in TypesMet : /\ JavaReceiver(u, d, text) = {t}
                         /\ \A i \in DOMAIN declared :
                              declared[i].decl.is \in Routines /\ declared[i].owner = t.qname => declared[i].visited
  /\ u.is = "call" => NothingObscures(u, d, text)
  /\ u.is = "call" /\ u.path # <<>> => LocalsAreSeen(u, d, text) /\ FieldsAreSeen(u, d, text)

(* The method or constructor that is alone with its name and arity.        *)
JavaMethod(owner, name, arity, is) ==
  OnlyIn(declared, {i \in DOMAIN declared : LET d == declared[i].decl IN
    d.is \in Callable /\ d.is = is /\ declared[i].owner = owner /\ declared[i].name = name /\ d.arity = arity})

(* The call edges of a method are the methods and constructors of the      *)
(* types its receivers have in Java - locals before fields before types -  *)
(* that are alone with their name and arity, provided that every receiver  *)
(* has one type of this repository that the scan can follow: a call on the *)
(* variable of a for-each, say, or on an enum can go wrong.                *)
CallsReachTheReceiver ==
  pass = "done" /\ still /\ PlainProject =>
    \A f \in DOMAIN seen : LET text == seen[f] IN
      \A d \in {d \in ToSet(text.decls) : d.is \in Callable /\ Visited(text, d)} :
      LET uses == {u \in ToSet(d.uses) : u.is \in {"call", "new"}}
          meant(u) == UNION {IF u.is = "new" THEN JavaMethod(t.qname, t.name, u.args, "constructor")
                             ELSE JavaMethod(t.qname, u.name, u.args, "method") : t \in JavaReceiver(u, d, text)}
          ends == {r[2] : r \in {r \in index.relations : r[1] = SymbolId(f, text, d) /\ r[3] = "calls"}}
      IN /\ Method(Around(text, d), Name(d), d.arity, d.is) # {}
         /\ \A u \in uses : Followed(u, d, text)
         => ends = {m.id : m \in UNION {meant(u) : u \in uses}}

(* Whatever is edited between the passes, every relation, reference and    *)
(* enclosing symbol that is stored names a symbol that is stored with it.  *)
EndsAreSymbols ==
  LET ids == {s.id : s \in index.symbols}
  IN /\ \A r \in index.relations : r[1] \in ids /\ r[2] \in ids
     /\ \A o \in index.occurrences : o.symbol \in ids
     /\ \A s \in index.symbols : s.within \in ids \cup {<<>>}
=============================================================================
