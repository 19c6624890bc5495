------------------------------ MODULE ScalaMC -------------------------------
(* The two Scala programs, for one run: they share nothing, and a behaviour is
   one of a graph or one of a program in my_lang.                            *)
EXTENDS AdjacencyGraph, MyLang, FiniteSetsExt

NoGraph == colored = FALSE /\ mutual = FALSE /\ nodes = <<>>
           /\ connects = MaxConnects /\ remade = {} /\ halfway = {}
NoProgram == prog = <<>> /\ result = None

Init == (GraphInit /\ NoProgram) \/ (LangInit /\ NoGraph)

Next ==
  \/ prog = <<>> /\ GraphNext /\ UNCHANGED langVars
  \/ prog # <<>> /\ evaluate /\ UNCHANGED graphVars

-----------------------------------------------------------------------------
(* Doubles: zero, one, and one that is not a number. *)

MCtoDouble(n) == IF n = 0 THEN 0 ELSE 1
MCtoInt(r) == r % 2
MCDoubleArithmetic(op, a, b) ==
  CASE 2 \in {a, b} \/ (op = "/" /\ b = 0) -> 2
    [] op = "+" -> IF a + b = 0 THEN 0 ELSE 1
    [] op = "-" -> IF a = b THEN 0 ELSE 1
    [] OTHER -> a * b
MCDoubleCompare(op, a, b) == IF 2 \in {a, b} THEN op = "!=" ELSE IntCompare(op, a, b)

Ident(name) == [var |-> name]
Block(list, e) == [assignments |-> list, expr |-> e]
Let(name, e) == [name |-> name, e |-> e]
Bin(left, op, right) == [left |-> left, op |-> op, right |-> right]
Apply(f, args) == [call |-> f, args |-> args]
If(c, s, t) == [condition |-> c, thenBlock |-> Block(<<>>, s), elseBlock |-> Block(<<>>, t)]
Def(name, args, body) == [name |-> name, is |-> "function", args |-> args, body |-> body]
Struct(name, args) == [name |-> name, is |-> "struct", args |-> args]

Constants == {[int |-> -1], [int |-> 3], [real |-> 0], [real |-> 1], [lit |-> <<"a">>]}
Atoms == {Ident(x) : x \in {"x", "y"}} \cup Constants

Simple ==
  Atoms
  \cup {Bin(a, op, b) : a \in Atoms, b \in {Ident("x"), [int |-> 3], [real |-> 0]},
                         op \in {"+", "/", "<", "==", "||"}}
  \cup {Apply(f, <<a>>) : f \in {"f", "P", "g", "double2int", "int2double"}, a \in Atoms}
  \cup {[left |-> Ident("x"), field |-> name] : name \in {"p", "q"}}

(* Some that use the others, to be evaluated where x and y are known. *)
Nested ==
  {If(c, Ident("x"), e) : c \in Atoms, e \in {Ident("x"), Apply("f", <<Ident("x")>>)}}
  \cup {Apply("f", <<Apply("f", <<a>>)>>) : a \in Atoms}
  \cup {Bin(Apply("f", <<a>>), "-", Ident("x")) : a \in Atoms}
  \cup {Apply("P", <<a, Ident("x")>>) : a \in Atoms}
  \cup {Bin(Ident("x"), "*", Ident("x")), Bin(Ident("x"), ">=", Ident("y"))}
  \cup {[condition |-> Ident("y"), thenBlock |-> Block(<<Let("x", a)>>, Ident("x")),
          elseBlock |-> Block(<<>>, Ident("x"))] : a \in Atoms}

(* f: with a name of its caller's; with an assignment to its argument; calling
   itself, to an end or not.                                                 *)
FunctionBodies ==
  {Block(<<>>, Bin(Ident("a"), "+", Ident("x"))),
   Block(<<Let("x", Ident("a")), Let("a", Bin(Ident("x"), "+", [int |-> 3]))>>,
        Bin(Ident("a"), "/", Ident("x"))),
   Block(<<>>, If(Ident("a"), Apply("f", <<Bin(Ident("a"), "-", [int |-> 1])>>), Ident("a")))}

Lists ==
  {<<Struct("P", <<"p">>), Def("f", <<"a">>, f)>> : f \in FunctionBodies}
  \cup {<<Def("f", <<>>, Block(<<>>, [int |-> 1])), Struct("P", <<"p", "p">>),
          Def("f", <<"a">>, Block(<<>>, Ident("a"))), Def("double2int", <<>>, Block(<<>>, [int |-> 1]))>>}

Mains ==
  {Block(<<Let("x", e)>>, d) : e \in Simple, d \in Nested}
  \cup {Block(<<Let("x", a), Let(y, b)>>, e) :
          a, b \in Constants, y \in {"x", "y"}, e \in Simple \cup Nested}

MCPrograms ==
  {list \o <<Def("main", <<>>, m)>> : list \in Lists, m \in Mains}
  \cup {list \o <<Def("main", <<"a">>, Block(<<>>, Ident("a")))>> : list \in Lists}
  \cup Lists

=============================================================================
