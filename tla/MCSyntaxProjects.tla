-------------------------- MODULE MCSyntaxProjects --------------------------
(* Small Java projects: a class C that refers to a class A, and one or two *)
(* files that declare classes of that name, or of another.                 *)
EXTENDS Naturals, Sequences

LOCAL Class(is, in, name, clauses, notes) == [is |-> is, in |-> in, name |-> name, clauses |-> clauses, notes |-> notes]
LOCAL Function(is, in, name, arity, locals, uses) ==
  [is |-> is, in |-> in, name |-> name, arity |-> arity, locals |-> locals, uses |-> uses, notes |-> <<>>]
LOCAL Variable(in, name, type) == [is |-> "field", in |-> in, name |-> name, type |-> type, notes |-> <<>>]
LOCAL Text(pkg, imports, decls) == [pkg |-> pkg, imports |-> imports, decls |-> decls]
LOCAL One(target) == [target |-> target, star |-> FALSE]
LOCAL All(target) == [target |-> target, star |-> TRUE]
LOCAL Use(is, path, name, args) == [is |-> is, path |-> path, name |-> name, args |-> args]

Gone == [pkg |-> <<>>, imports |-> <<>>, decls |-> <<>>, absent |-> TRUE]

-----------------------------------------------------------------------------
(* The class C of package p.                                               *)

LOCAL Imports == {<<>>, <<One(<<"q", "A">>)>>, <<All(<<"q">>)>>, <<All(<<"q">>), All(<<"r">>)>>, <<One(<<"x", "A">>)>>}

(* No locals, a local variable that hides the field a, one of a class that *)
(* is not here, two of one name, the variable of a for-each that hides the *)
(* field, a caught exception, and A... b.                                  *)
LOCAL Local(is, name, found, type) == [is |-> is, name |-> name, found |-> found, type |-> type]
LOCAL Locals ==
  {<<>>, <<Local("local_variable_declaration", "a", "a", <<"C">>)>>, <<Local("formal_parameter", "a", "a", <<"int">>)>>,
   <<Local("formal_parameter", "b", "b", <<"A">>), Local("local_variable_declaration", "b", "b", <<"int">>)>>,
   <<Local("other", "a", "a", <<"C">>), Local("catch_formal_parameter", "b", "b", <<"A">>)>>,
   <<Local("spread_parameter", "b", "A", <<"A">>)>>}

LOCAL Uses ==
  {<<Use("call", <<"a">>, "m", 0), Use("new", <<"A">>, "", 0)>>,
   <<Use("call", <<>>, "n", 1), Use("call", <<"b">>, "m", 0)>>,
   <<Use("call", <<"this", "a">>, "m", 0), Use("call", <<"A">>, "n", 1), Use("name", <<"this", "a">>, "", 0)>>,
   <<Use("call", <<"?">>, "n", 1), Use("name", <<"c", "a">>, "", 0)>>}

LOCAL Subject(imports, ref, type, locals, uses) ==
  Text(<<"p">>, imports,
       <<Class("class", <<>>, "C", <<[relation |-> "extends", refs |-> <<ref>>]>>, <<<<"A">>>>), Variable(<<"C">>, "a", type),
         Function("method", <<"C">>, "m", 0, locals, uses), Function("method", <<"C">>, "n", 1, <<>>, <<>>)>>)

LOCAL Heads ==
  {Subject(i, ref, ref, <<>>, <<>>) : i \in Imports, ref \in {<<"A">>, <<"q", "A">>, <<"B", "A">>}}

LOCAL Bodies ==
  {Subject(i, <<"Object">>, type, locals, uses) :
     i \in {<<>>, <<One(<<"q", "A">>)>>}, type \in {<<"A">>, <<"int">>}, locals \in Locals, uses \in Uses}

-----------------------------------------------------------------------------
(* Files that declare A: with two methods and a constructor, with two      *)
(* methods m, inside of a class B, as an annotation, an enum or an         *)
(* interface.                                                              *)

LOCAL Members(in) ==
  <<Function("method", in, "m", 0, <<>>, <<>>), Function("method", in, "n", 1, <<>>, <<>>),
    Function("constructor", in, "", 0, <<>>, <<>>)>>

LOCAL Plain(pkg, name) == Text(pkg, <<>>, <<Class("class", <<>>, name, <<>>, <<>>)>> \o Members(<<name>>))

LOCAL Overloaded(pkg) ==
  Text(pkg, <<>>, <<Class("class", <<>>, "A", <<>>, <<>>)>> \o Members(<<"A">>) \o Members(<<"A">>))

LOCAL Inner(pkg) ==
  Text(pkg, <<>>, <<Class("class", <<>>, "B", <<>>, <<>>), Class("class", <<"B">>, "A", <<>>, <<>>)>> \o Members(<<"B", "A">>))

(* An enum, which has methods or a class after its constants, and an       *)
(* interface with a constant.                                              *)
LOCAL Enum(pkg) == Text(pkg, <<>>, <<Class("enum", <<>>, "A", <<>>, <<>>), Variable(<<"A">>, "a", <<"A">>)>> \o Members(<<"A">>))

LOCAL InEnum(pkg) == Text(pkg, <<>>, <<Class("enum", <<>>, "B", <<>>, <<>>), Class("class", <<"B">>, "A", <<>>, <<>>)>>)

LOCAL Constants(pkg) ==
  Text(pkg, <<>>, <<Class("interface", <<>>, "A", <<>>, <<>>), [Variable(<<"A">>, "a", <<"C">>) EXCEPT !.is = "constant"],
                    Function("method", <<"A">>, "m", 0, <<>>, <<Use("call", <<"a">>, "m", 0)>>)>>)

LOCAL Note(pkg) == Text(pkg, <<>>, <<Class("annotation", <<>>, "A", <<>>, <<>>)>>)

LOCAL Second ==
  {Plain(<<"p">>, "A"), Plain(<<"q">>, "A"), Plain(<<>>, "A"), Inner(<<"q">>), Overloaded(<<"p">>), Note(<<"q">>),
   Enum(<<"p">>), InEnum(<<"p">>), Constants(<<"p">>)}

LOCAL Third ==
  {Gone, Plain(<<"q">>, "A"), Plain(<<"r">>, "A"), Plain(<<"q">>, "B")}

MCProjects ==
  {[files |-> [f |-> c, g |-> a, h |-> b], edits |-> 0] : c \in Heads \cup Bodies, a \in Second, b \in Third}
  \cup {[files |-> [f |-> c, g |-> a, h |-> Gone], edits |-> 2] :
          c \in {Subject(<<>>, <<"A">>, <<"A">>, <<>>, uses) : uses \in Uses}, a \in {Plain(<<"p">>, "A")}}

(* The class is renamed, or gone, or has a method more.                    *)
MCRewrites ==
  {Gone, Plain(<<"p">>, "B"),
   Text(<<"p">>, <<>>, <<Class("class", <<>>, "C", <<>>, <<>>), Function("method", <<"C">>, "k", 0, <<>>, <<Use("call", <<>>, "n", 1)>>),
                         Function("method", <<"C">>, "n", 1, <<>>, <<>>)>>)}
=============================================================================
