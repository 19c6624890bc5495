------------------------------- MODULE MyLang -------------------------------
(***************************************************************************)
(* scala/my_lang/src/my_lang.scala from the syntax tree on: a program is a *)
(* list of functions and structs, and running it is calling main.          *)
(*                                                                         *)
(* A value or an expression is a record whose fields tell its class; values *)
(* are expressions. What Scala throws is a value [error |-> ...] here that *)
(* every evaluation hands on. Strings are sequences of letters, doubles the JVM's. *)
(***************************************************************************)
EXTENDS Integers, SequencesExt, TLC

CONSTANTS
  Programs,        \* what the parser may return
  IntMax,          \* the largest Int
  DoubleArithmetic(_, _, _), DoubleCompare(_, _, _),
  toInt(_), toDouble(_),
  MaxDepth,        \* bound: the stack, in calls
  None

VARIABLES prog, result

langVars == <<prog, result>>

LangInit == prog \in Programs /\ result = None

-----------------------------------------------------------------------------
(* Values. *)

Is(class, v) == class \in DOMAIN v
Throw(exception) == [error |-> exception]
Boolean(b) == [int |-> IF b THEN 1 ELSE 0]

(* The first exception of what is evaluated in this order, or else r. *)
Unless(values, r) ==
  LET failed == SelectSeq(values, LAMBDA v : Is("error", v))
  IN  IF failed = <<>> THEN r ELSE Head(failed)

Zero == toDouble(0)
True(v) == IF Is("int", v) THEN v.int # 0 ELSE v.real # Zero

Field(v, name) ==
  IF Is("struct", v) /\ name \in DOMAIN v.struct THEN v.struct[name] ELSE Throw("WrongField")

-----------------------------------------------------------------------------
(* BinaryExpression: one match on the classes, one on the operator. *)

Arithmetics == {"+", "-", "*", "/"}
Comparisons == {"<", ">", "<=", ">=", "==", "!="}
Operators ==
  [int |-> Arithmetics \cup Comparisons \cup {"&&", "||"},
   real |-> Arithmetics \cup Comparisons, lit |-> {"+"}, struct |-> {}]

Wrap(n) == ((n + IntMax + 1) % (2 * IntMax + 2)) - IntMax - 1

(* The JVM's division rounds towards zero. *)
Quotient(a, b) ==
  LET abs(n) == IF n < 0 THEN -n ELSE n
      q == abs(a) \div abs(b)
  IN  IF (a < 0) = (b < 0) THEN q ELSE -q

IntArithmetic(op, a, b) ==
  CASE op = "+" -> [int |-> Wrap(a + b)]
    [] op = "-" -> [int |-> Wrap(a - b)]
    [] op = "*" -> [int |-> Wrap(a * b)]
    [] op = "/" -> IF b = 0 THEN Throw("ArithmeticException") ELSE [int |-> Wrap(Quotient(a, b))]

IntCompare(op, a, b) ==
  CASE op = "<" -> a < b    [] op = "<=" -> a <= b   [] op = "==" -> a = b
    [] op = ">" -> a > b    [] op = ">=" -> a >= b   [] op = "!=" -> a # b

Logic(op, a, b) == IF op = "&&" THEN a # 0 /\ b # 0 ELSE a # 0 \/ b # 0

RealTruth(op, a, b) ==    \* mutant: a comparison keeps its operands' class
  [real |-> IF op \in Arithmetics THEN DoubleArithmetic(op, a, b)
            ELSE toDouble(Boolean(DoubleCompare(op, a, b)).int)]
DoubleOp(op, a, b) ==
  IF op \in Arithmetics THEN [real |-> DoubleArithmetic(op, a, b)]
  ELSE Boolean(DoubleCompare(op, a, b))

IntOp(op, a, b) ==
  CASE op \in Arithmetics -> IntArithmetic(op, a, b)
    [] op \in Comparisons -> Boolean(IntCompare(op, a, b))
    [] OTHER -> Boolean(Logic(op, a, b))

Binary(left, op, right) ==
  CASE ~\E class \in DOMAIN Operators :
          Is(class, left) /\ Is(class, right) /\ op \in Operators[class]
                         -> Throw("MatchError")
    [] Is("lit", left)  -> [lit |-> left.lit \o right.lit]
    [] Is("real", left) -> DoubleOp(op, left.real, right.real)
    [] Is("int", left)  -> IntOp(op, left.int, right.int)

-----------------------------------------------------------------------------
(* Scopes. A context has variables, functions, and the stack that is left. *)

OuterWins(vars, name, v) == vars @@ (name :> v)    \* mutant: no shadowing
Assigned(vars, name, v) == (name :> v) @@ vars

(* args zip argValues: the last one of equal names counts. *)
Bindings(args, values) ==
  FoldLeftDomain(LAMBDA vars, i : Assigned(vars, args[i], values[i]), <<>>, args)

RECURSIVE Eval(_, _)

Convert(f, v) ==
  IF f = "double2int"
  THEN IF Is("real", v) THEN [int |-> toInt(v.real)] ELSE Throw("WrongType")
  ELSE IF Is("int", v) THEN [real |-> toDouble(v.int)] ELSE Throw("WrongType")

UserFunc(f, values, context) ==
  IF context.stack = 0 THEN Throw("StackOverflowError")
  ELSE Eval(f.body, [context EXCEPT !.vars = Bindings(f.args, values), !.stack = @ - 1])

(* FuncBase.call. *)
Call(f, values, context) ==
  CASE Len(values) # Len(f.args) -> Throw("WrongArgsNum")
    [] f.is = "conversion" -> Convert(f.name, values[1])
    [] f.is = "struct" -> [struct |-> Bindings(f.args, values)]
    [] f.is = "function" -> UserFunc(f, values, context)

VariableExpression(e, context) ==
  IF e.var \in DOMAIN context.vars THEN context.vars[e.var] ELSE Throw("VarNotFound")

FieldExpr(e, context) ==
  LET left == Eval(e.left, context) IN Unless(<<left>>, Field(left, e.field))

(* Both operands are evaluated, whatever the operator. *)
BinaryExpression(e, context) ==
  LET left == Eval(e.left, context)
      right == Eval(e.right, context)
  IN  Unless(<<left, right>>, Binary(left, e.op, right))

CondExpr(e, context) ==
  LET c == Eval(e.condition, context)
  IN  Unless(<<c>>, IF ~Is("int", c) /\ ~Is("real", c) THEN Throw("WrongType")
                    ELSE Eval(IF True(c) THEN e.thenBlock ELSE e.elseBlock, context))

(* Assignments one by one, each in the scope that those before it have made. *)
Body(e, context) ==
  IF e.assignments = <<>> THEN Eval(e.expr, context)
  ELSE LET first == Head(e.assignments)
           v == Eval(first.e, context)
       IN  Unless(<<v>>, Eval([e EXCEPT !.assignments = Tail(@)],
                              [context EXCEPT !.vars = Assigned(@, first.name, v)]))

(* All the arguments are evaluated before the function is looked for. *)
CallExpr(e, context) ==
  LET values == [i \in DOMAIN e.args |-> Eval(e.args[i], context)]
  IN  Unless(values, IF e.call \in DOMAIN context.funcs
                     THEN Call(context.funcs[e.call], values, context)
                     ELSE Throw("NoSuchElementException"))

(* Expr.eval. *)
Eval(e, context) ==
  CASE Is("var", e) -> VariableExpression(e, context)
    [] Is("field", e) -> FieldExpr(e, context)
    [] Is("op", e) -> BinaryExpression(e, context)
    [] Is("condition", e) -> CondExpr(e, context)
    [] Is("assignments", e) -> Body(e, context)
    [] Is("call", e) -> CallExpr(e, context)
    [] OTHER -> e

-----------------------------------------------------------------------------
(* Prog. *)

(* list2map: of equal names the last one counts; and the conversions replace
   whatever the program calls so.                                           *)
Conversion(name) == [name |-> name, is |-> "conversion", args |-> <<"value">>]
Funcs(list) ==
  LET defined == FoldLeft(LAMBDA funcs, f : (f.name :> f) @@ funcs, <<>>, list)
  IN  [c \in {"double2int", "int2double"} |-> Conversion(c)] @@ defined

Context(list, vars) == [vars |-> vars, funcs |-> Funcs(list), stack |-> MaxDepth]

run(list) == Eval([call |-> "main", args |-> <<>>], Context(list, <<>>))

evaluate ==
  /\ result = None
  /\ result' = run(prog)
  /\ UNCHANGED prog

-----------------------------------------------------------------------------
(* Types: what Eval would do with the classes of the values alone. "never" is
   the type of what only ends by exhausting the stack.                       *)

Untyped == [is |-> "none"]
Never == [is |-> "never"]

RECURSIVE TypeOfValue(_)
TypeOfValue(v) ==
  IF Is("struct", v)
  THEN [is |-> "struct", fields |-> [name \in DOMAIN v.struct |-> TypeOfValue(v.struct[name])]]
  ELSE [is |-> CHOOSE class \in {"int", "real", "lit"} : Is(class, v)]

Known(types, t) ==
  CASE \E i \in DOMAIN types : types[i] = Untyped -> Untyped
    [] \E i \in DOMAIN types : types[i] = Never -> Never
    [] OTHER -> t

TypeOfBinary(left, op, right) ==
  CASE left # right \/ op \notin Operators[left.is] -> Untyped
    [] op \in Arithmetics -> left
    [] OTHER -> [is |-> "int"]

Either(s, t) ==
  CASE s = t \/ t = Never -> s
    [] s = Never -> t
    [] OTHER -> Untyped

RECURSIVE TypeOf(_, _)

TypeOfCall(f, types, context) ==
  CASE Len(types) # Len(f.args) -> Untyped
    [] f.is = "conversion" ->
         CASE f.name = "double2int" /\ types[1].is = "real" -> [is |-> "int"]
           [] f.name = "int2double" /\ types[1].is = "int" -> [is |-> "real"]
           [] OTHER -> Untyped
    [] f.is = "struct" -> [is |-> "struct", fields |-> Bindings(f.args, types)]
    [] f.is = "function" ->
         IF context.stack = 0 THEN Never
         ELSE TypeOf(f.body, [context EXCEPT !.vars = Bindings(f.args, types), !.stack = @ - 1])

TypeOf(e, context) ==
  CASE Is("var", e) ->
         IF e.var \in DOMAIN context.vars THEN context.vars[e.var] ELSE Untyped
    [] Is("op", e) ->
         LET left == TypeOf(e.left, context)
             right == TypeOf(e.right, context)
         IN  Known(<<left, right>>, TypeOfBinary(left, e.op, right))
    [] Is("field", e) ->
         LET left == TypeOf(e.left, context)
         IN  Known(<<left>>, IF left.is = "struct" /\ e.field \in DOMAIN left.fields
                             THEN left.fields[e.field] ELSE Untyped)
    [] Is("condition", e) ->
         LET c == TypeOf(e.condition, context)
         IN  Known(<<c>>, IF c.is \in {"int", "real"}
                          THEN Either(TypeOf(e.thenBlock, context), TypeOf(e.elseBlock, context))
                          ELSE Untyped)
    [] Is("assignments", e) ->
         IF e.assignments = <<>> THEN TypeOf(e.expr, context)
         ELSE LET first == Head(e.assignments)
                  t == TypeOf(first.e, context)
              IN  Known(<<t>>, TypeOf([e EXCEPT !.assignments = Tail(@)],
                                      [context EXCEPT !.vars = (first.name :> t) @@ @]))
    [] Is("call", e) ->
         LET types == [i \in DOMAIN e.args |-> TypeOf(e.args[i], context)]
         IN  Known(types, IF e.call \in DOMAIN context.funcs
                          THEN TypeOfCall(context.funcs[e.call], types, context)
                          ELSE Untyped)
    [] OTHER -> TypeOfValue(e)

(* Scopes without scopes: the assignments are replaced by their values. *)
RECURSIVE Subst(_, _)
Subst(e, vars) ==
  CASE Is("var", e) -> IF e.var \in DOMAIN vars THEN vars[e.var] ELSE e
    [] Is("op", e) -> [e EXCEPT !.left = Subst(@, vars), !.right = Subst(@, vars)]
    [] Is("field", e) -> [e EXCEPT !.left = Subst(@, vars)]
    [] Is("condition", e) ->
         [e EXCEPT !.condition = Subst(@, vars), !.thenBlock = Subst(@, vars),
                   !.elseBlock = Subst(@, vars)]
    [] Is("assignments", e) ->
         IF e.assignments = <<>> THEN [e EXCEPT !.expr = Subst(@, vars)]
         ELSE LET first == Head(e.assignments)
                  rest == Subst([e EXCEPT !.assignments = Tail(@)],
                                [name \in DOMAIN vars \ {first.name} |-> vars[name]])
              IN  [rest EXCEPT !.assignments = <<[first EXCEPT !.e = Subst(@, vars)]>> \o @]
    [] Is("call", e) -> [e EXCEPT !.args = [i \in DOMAIN @ |-> Subst(@[i], vars)]]
    [] OTHER -> e

RECURSIVE EvalBySubst(_, _)
EvalBySubst(body, context) ==
  IF body.assignments = <<>> THEN Eval(body.expr, context)
  ELSE LET first == Head(body.assignments)
           v == Eval(first.e, context)
       IN  Unless(<<v>>, EvalBySubst(Subst([body EXCEPT !.assignments = Tail(@)], first.name :> v),
                                     context))

-----------------------------------------------------------------------------
(* Properties. *)

(* A program whose every operation, field, call and variable fits its types
   returns a value of its type, or divides by zero, or exhausts the stack: no
   MatchError, WrongType, WrongField, ... out of the interpreter.            *)
TypedProgramsRun ==
  LET t == TypeOf([call |-> "main", args |-> <<>>], Context(prog, <<>>))
  IN  result # None /\ t # Untyped =>
        IF Is("error", result)
        THEN result.error \in {"ArithmeticException", "StackOverflowError"}
        ELSE TypeOfValue(result) = t

(* Scopes are lexical: a name means the last assignment before it in its own
   function, and no function sees its caller's. So main returns the same when its
   assignments are carried out by replacing names in the text, without scopes. *)
ScopesAreLexical ==
  \A main \in {Funcs(prog)[name] : name \in DOMAIN Funcs(prog) \cap {"main"}} :
    result # None /\ main.is = "function" /\ main.args = <<>> =>
      result = EvalBySubst(main.body, [Context(prog, <<>>) EXCEPT !.stack = MaxDepth - 1])

=============================================================================
