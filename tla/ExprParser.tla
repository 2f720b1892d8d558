---------------------------- MODULE ExprParser ----------------------------
(***************************************************************************)
(* utils::ExprParser (src/utils/exprparser.cpp): a recursive descent       *)
(* parser that computes the value of an expression while it reads it, and  *)
(* that in detect mode (Parse) only checks the syntax, a call of a user's  *)
(* function then having the value UNSURE.                                  *)
(*                                                                         *)
(* A program is a sequence of lexemes without blanks.  A double is a       *)
(* rational <<numerator, denominator>>: at the sizes of the trees below no *)
(* rounded value is compared.  Names that are not functions (the symbol    *)
(* table, assignments) and strings do not occur in the programs.           *)
(***************************************************************************)
EXTENDS Integers, Sequences, FiniteSets

CONSTANTS ExLeaf,      \* the literals of the programs, natural numbers
          ExGarbage,   \* doubles that may be found in fresh memory
          ExMaxCalls   \* bound on the calls of Parse and Evaluate

VARIABLES exTree,    \* the expression that the caller writes down as a program
          exGarbage, \* the d_value_ of the UNSURE values
          exDetect,  \* detect_
          exCalls,   \* calls made so far
          exLast,    \* the last call: its name, its tree, detect_ at its start, its result
          exThrew    \* some call of Parse has thrown

exVars == <<exTree, exGarbage, exDetect, exCalls, exLast, exThrew>>

-----------------------------------------------------------------------------
(***************************************************************************)
(* ExprValue.  All fields are kept: operator= changes the type and one of  *)
(* them only, and the functions of one argument read d_value_ whatever the *)
(* type is.                                                                *)
(***************************************************************************)
Int64(n) == [t |-> "INTEGER64", i |-> n, d |-> <<0, 1>>, b |-> FALSE]
Double(q) == [t |-> "NUMBER", i |-> 0, d |-> q, b |-> FALSE]
Thrown == [Int64(0) EXCEPT !.t = "thrown"]

\* ExprValue(UNSURE) leaves d_value_ as it finds it.
Unsure == [t |-> "UNSURE", i |-> 0, d |-> exGarbage, b |-> FALSE]

SetBool(v, b) == [v EXCEPT !.t = "BOOL", !.b = b]
SetDouble(v, q) == [v EXCEPT !.t = "NUMBER", !.d = q]

QLess(p, q) == p[1] * q[2] < q[1] * p[2]
QEqual(p, q) == p[1] * q[2] = q[1] * p[2]

\* The number a value stands for in mixed arithmetic.
Numeric(v) == v.t \in {"INTEGER64", "NUMBER"}
AsDouble(v) == IF v.t = "INTEGER64" THEN <<v.i, 1>> ELSE v.d

\* operator bool
Truth(v) == CASE v.t = "BOOL" -> v.b
              [] v.t = "NUMBER" -> v.d[1] # 0
              [] v.t = "INTEGER64" -> v.i # 0

\* operator== ... operator!=: the answer is a BOOL, or UNSURE.
Compare(op, v, w) ==
    LET p == AsDouble(v)  q == AsDouble(w)
        holds == CASE op = "<" -> QLess(p, q)
                   [] op = ">" -> QLess(q, p)
                   [] op = "<=" -> ~QLess(q, p)
                   [] op = ">=" -> ~QLess(p, q)
                   [] op = "==" -> QEqual(p, q)
                   [] op = "!=" -> ~QEqual(p, q)
    IN  CASE "UNSURE" \in {v.t, w.t} -> Unsure
          [] Numeric(v) /\ Numeric(w) -> SetBool(Int64(0), holds)
          [] OTHER -> Thrown

\* Mutant: integers are divided as integers.
IntQuotient_Truncated(m, n) ==
    LET abs(k) == IF k < 0 THEN -k ELSE k
        q == abs(m) \div abs(n)
    IN  <<IF (m < 0) = (n < 0) THEN q ELSE -q, 1>>

\* operator/= of two integers: the quotient is a double.
IntQuotient(m, n) == IF n > 0 THEN <<m, n>> ELSE <<-m, -n>>

QOp(op, p, q) ==
    CASE op = "+" -> <<p[1] * q[2] + q[1] * p[2], p[2] * q[2]>>
      [] op = "-" -> <<p[1] * q[2] - q[1] * p[2], p[2] * q[2]>>
      [] op = "*" -> <<p[1] * q[1], p[2] * q[2]>>
      [] op = "/" -> IntQuotient(p[1] * q[2], p[2] * q[1])

IntOp(op, m, n) ==
    CASE op = "+" -> m + n
      [] op = "-" -> m - n
      [] op = "*" -> m * n

\* left op= right: with an UNSURE operand left keeps its value, since the
\* caller drops the value that the operator returns.
Update(op, left, right) ==
    CASE "UNSURE" \in {left.t, right.t} -> left
      [] ~(Numeric(left) /\ Numeric(right)) -> Thrown
      [] left.t = "INTEGER64" /\ right.t = "INTEGER64" ->
            IF op = "/" THEN SetDouble(left, IntQuotient(left.i, right.i))
                        ELSE [left EXCEPT !.i = IntOp(op, left.i, right.i)]
      [] OTHER -> SetDouble(left, QOp(op, AsDouble(left), AsDouble(right)))

\* Unary minus is ExprValue(0) - v: operator- gives up the difference of an
\* integer and a double and returns its left operand.
Negate(v) ==
    CASE v.t = "UNSURE" -> Unsure
      [] v.t = "INTEGER64" -> Int64(-v.i)
      [] v.t = "NUMBER" -> Int64(0)
      [] OTHER -> Thrown

\* The tests of the code against 0.0, used as conditions.
ZeroTest(op, v) == Compare(op, v, Double(<<0, 1>>))

Not(v) ==
    LET z == ZeroTest("==", v)
    IN  IF z.t # "BOOL" THEN Thrown ELSE Double(<<IF z.b THEN 1 ELSE 0, 1>>)

Divide(left, d) ==
    IF d.t # "UNSURE" /\ (ZeroTest("==", d) = Thrown \/ Truth(ZeroTest("==", d)))
    THEN Thrown
    ELSE Update("/", left, d)

\* left < d and so on in Comparison: the BOOL becomes 1.0 or 0.0.
Comparison(op, left, d) ==
    LET c == Compare(op, left, d)
    IN  IF c.t = "BOOL" THEN SetDouble(c, <<IF c.b THEN 1 ELSE 0, 1>>) ELSE c

\* (left != 0.0) && (d != 0.0): d has been computed, but it is only tested
\* when left does not decide.
Logic(op, left, d) ==
    LET l == ZeroTest("!=", left)
        r == ZeroTest("!=", d)
    IN  CASE left.t = "UNSURE" -> left
          [] l = Thrown -> Thrown
          [] l.b = (op = "||") -> SetBool(left, l.b)
          [] r.t # "BOOL" -> Thrown
          [] OTHER -> SetBool(left, r.b)

\* What a level of the grammar does with its two operands.
Apply(op, left, d) ==
    CASE Thrown \in {left, d} -> Thrown
      [] op = "/" -> Divide(left, d)
      [] op \in {"+", "-", "*"} -> Update(op, left, d)
      [] op \in {"<", ">", "<=", ">=", "==", "!="} -> Comparison(op, left, d)
      [] op \in {"&&", "||"} -> Logic(op, left, d)
      [] op = "," -> d

\* The functions: abs is a function of one argument, which gets d_value_; min
\* and if are built in; user is one a program registers, here the identity.
Call(f, args, detect) ==
    LET v == args[1]
    IN  CASE \E k \in DOMAIN args : args[k] = Thrown -> Thrown
          [] f = "abs" -> Double(IF v.d[1] < 0 THEN <<-v.d[1], v.d[2]>> ELSE v.d)
          [] f = "user" -> IF detect THEN Unsure ELSE v
          [] f = "min" -> LET c == Compare("<", v, args[2])
                          IN  CASE c.t # "BOOL" -> Thrown
                                [] c.b -> v
                                [] OTHER -> args[2]
          [] f = "if" -> LET c == ZeroTest("!=", v)
                         IN  CASE c.t # "BOOL" -> Thrown
                               [] c.b -> args[2]
                               [] OTHER -> args[3]

Arity == [abs |-> 1, user |-> 1, min |-> 2, if |-> 3]

-----------------------------------------------------------------------------
(***************************************************************************)
(* The parser.  Its state is what has been computed, the current token and *)
(* the place of the next lexeme.                                           *)
(***************************************************************************)
Number(n) == [k |-> "number", n |-> n]
Mark(s) == [k |-> s, n |-> 0]
End == Mark("end")

Parsed(v, tok, at) == [v |-> v, tok |-> tok, at |-> at]
Throw == Parsed(Thrown, End, 1)

\* GetToken: where an operand may start, a sign before a digit belongs to the
\* number.
Signed(p, at) == /\ at < Len(p)
                 /\ p[at].k \in {"+", "-"}
                 /\ p[at + 1].k = "number"

GetToken(p, s, ignoreSign) ==
    CASE s.at > Len(p) -> [s EXCEPT !.tok = End]
      [] s.at <= Len(p) /\ ~ignoreSign /\ Signed(p, s.at) ->
            [s EXCEPT !.tok = Number(IF p[s.at].k = "-" THEN -p[s.at + 1].n ELSE p[s.at + 1].n),
                      !.at = s.at + 2]
      [] OTHER -> [s EXCEPT !.tok = p[s.at], !.at = s.at + 1]

\* The operators of Term, AddSubtract, Comparison, Expression and CommaList.
Level == <<{"*", "/"}, {"+", "-"}, {"<", ">", "<=", ">=", "==", "!="}, {"&&", "||"}, {","}>>
ExpressionLevel == 4
CommaListLevel == 5

\* Mutant: operators of one level group to the right.
RightLevel_Same(n) == n

\* The level that reads the right operand of an operator of level n.
RightLevel(n) == n - 1

\* One value for v, or the exception.
With(s, v) == IF v = Thrown THEN Throw ELSE [s EXCEPT !.v = v]

RECURSIVE ReadLevel(_, _, _, _), Loop(_, _, _, _), ReadArgs(_, _, _, _, _), Primary(_, _, _)

\* Arguments k .. n of a function, each an Expression; v is the sequence of
\* the values.  CheckToken wants a comma between them and ) at the end.
ReadArgs(p, s, k, n, detect) ==
    LET a == ReadLevel(p, [s EXCEPT !.v = Unsure], ExpressionLevel, detect)
        r == [a EXCEPT !.v = Append(s.v, a.v)]
    IN  CASE a.v = Thrown \/ a.tok # Mark(IF k < n THEN "," ELSE ")") ->
                [Throw EXCEPT !.v = <<Thrown>>]
          [] k < n -> ReadArgs(p, r, k + 1, n, detect)
          [] OTHER -> GetToken(p, r, TRUE)

Primary(p, s, detect) ==
    LET g == GetToken(p, s, FALSE)
        f == GetToken(p, g, TRUE)
    IN  CASE g.tok.k = "number" -> [f EXCEPT !.v = Int64(g.tok.n)]
          [] g.tok.k \in DOMAIN Arity ->
                IF f.tok # Mark("(") THEN Throw
                ELSE LET r == ReadArgs(p, [f EXCEPT !.v = <<>>], 1, Arity[g.tok.k], detect)
                     IN  With(r, Call(g.tok.k, r.v, detect))
          [] g.tok.k \in {"-", "!"} ->
                LET r == Primary(p, g, detect)
                IN  CASE r.v = Thrown -> Throw
                      [] g.tok.k = "-" -> With(r, Negate(r.v))
                      [] OTHER -> With(r, Not(r.v))
          [] g.tok.k = "(" ->
                LET r == ReadLevel(p, g, CommaListLevel, detect)
                IN  IF r.v = Thrown \/ r.tok # Mark(")") THEN Throw ELSE GetToken(p, r, TRUE)
          [] OTHER -> Throw

ReadLevel(p, s, n, detect) ==
    IF n = 0 THEN Primary(p, s, detect)
             ELSE Loop(p, ReadLevel(p, s, n - 1, detect), n, detect)

\* The while loop of a level: operators of the same level group to the left.
Loop(p, s, n, detect) ==
    IF s.tok.k \notin Level[n] THEN s
    ELSE LET r == ReadLevel(p, s, RightLevel(n), detect)
         IN  IF r.v = Thrown THEN Throw
             ELSE Loop(p, With(r, Apply(s.tok.k, s.v, r.v)), n, detect)

\* Evaluate: the whole program must have been read.
Value(p, detect) ==
    LET r == ReadLevel(p, Parsed(Unsure, Mark("none"), 1), CommaListLevel, detect)
    IN  IF r.tok # End THEN Thrown ELSE r.v

-----------------------------------------------------------------------------
(***************************************************************************)
(* Expressions as trees, and the way to write them down.                   *)
(***************************************************************************)
Leaf(n) == [op |-> "number", n |-> n, args |-> <<>>]
Node(op, args) == [op |-> op, n |-> 0, args |-> args]

Binary == {"+", "-", "*", "/", "<", "==", "&&", "||", ","}

Leaves == {Leaf(n) : n \in ExLeaf}
Trees(S, T) ==
    {Node(op, <<a, b>>) : op \in Binary \cup {"min"}, a \in S, b \in T}
        \cup {Node(op, <<a>>) : op \in {"neg", "!", "abs", "user"}, a \in S}
Small == Leaves \cup Trees(Leaves, Leaves)
ExTrees ==
    Trees(Small, Leaves) \cup Trees(Leaves, Small)
        \cup {Node("if", <<a, b, c>>) : a \in Small, b \in Leaves, c \in Leaves}

LevelOf(t) ==
    IF \E n \in DOMAIN Level : t.op \in Level[n]
    THEN CHOOSE n \in DOMAIN Level : t.op \in Level[n] ELSE 0

RECURSIVE Written(_, _), WrittenArgs(_, _)

WrittenArgs(args, k) ==
    Written(args[k], ExpressionLevel)
        \o (IF k < Len(args) THEN <<Mark(",")>> \o WrittenArgs(args, k + 1) ELSE <<>>)

\* Tree t as an operand of level n: with parentheses only where the grammar
\* needs them.
Written(t, n) ==
    CASE LevelOf(t) > n -> <<Mark("(")>> \o Written(t, CommaListLevel) \o <<Mark(")")>>
      [] t.op = "number" -> <<Number(t.n)>>
      [] LevelOf(t) > 0 -> Written(t.args[1], LevelOf(t)) \o <<Mark(t.op)>>
                              \o Written(t.args[2], LevelOf(t) - 1)
      [] t.op = "neg" -> <<Mark("-")>> \o Written(t.args[1], 0)
      [] t.op = "!" -> <<Mark("!")>> \o Written(t.args[1], 0)
      [] t.op \in DOMAIN Arity -> <<Mark(t.op), Mark("(")>> \o WrittenArgs(t.args, 1) \o <<Mark(")")>>

Program(t) == Written(t, CommaListLevel)

-----------------------------------------------------------------------------
\* A second expression for the parser that was used before.
Probe == Node("user", <<Leaf(1)>>)

ExInit ==
    /\ exTree \in ExTrees
    /\ exGarbage \in ExGarbage
    /\ exDetect = FALSE
    /\ exCalls = 0
    /\ exLast = [call |-> "none", tree |-> exTree, detect |-> FALSE, v |-> Unsure]
    /\ exThrew = FALSE

Called(name, t, detect, v) ==
    /\ exCalls < ExMaxCalls
    /\ exCalls' = exCalls + 1
    /\ exLast' = [call |-> name, tree |-> t, detect |-> detect, v |-> v]
    /\ UNCHANGED <<exTree, exGarbage>>

Evaluate(t) ==
    /\ Called("Evaluate", t, exDetect, Value(Program(t), exDetect))
    /\ UNCHANGED <<exDetect, exThrew>>

\* detect_ after Parse: an exception leaves it set.
DetectAfter(v) == v = Thrown

Parse(t) ==
    LET v == Value(Program(t), TRUE)
    IN  /\ Called("Parse", t, TRUE, v)
        /\ exDetect' = DetectAfter(v)
        /\ exThrew' = (exThrew \/ v = Thrown)

ExNext == \E t \in {exTree, Probe} : Evaluate(t) \/ Parse(t)

ExSpec == ExInit /\ [][ExNext]_exVars

-----------------------------------------------------------------------------
(***************************************************************************)
(* Properties.                                                             *)
(***************************************************************************)
\* ExTypeOK: every variable has its type.
ExTypeOK ==
    /\ exTree \in ExTrees
    /\ exGarbage \in ExGarbage
    /\ exDetect \in BOOLEAN /\ exThrew \in BOOLEAN
    /\ exCalls \in 0 .. ExMaxCalls
    /\ exLast.v.t \in {"INTEGER64", "NUMBER", "BOOL", "UNSURE", "thrown"}

RECURSIVE TreeValue(_, _)

TreeValue(t, detect) ==
    LET v == [k \in DOMAIN t.args |-> TreeValue(t.args[k], detect)]
    IN  CASE t.op = "number" -> Int64(t.n)
          [] t.op \in Binary -> Apply(t.op, v[1], v[2])
          [] t.op = "neg" -> IF v[1] = Thrown THEN Thrown ELSE Negate(v[1])
          [] t.op = "!" -> IF v[1] = Thrown THEN Thrown ELSE Not(v[1])
          [] OTHER -> Call(t.op, v, detect)

\* ExParses: what Evaluate and Parse compute while they read a program is the
\* value of the tree that the program was written from: the precedence, the
\* grouping to the left, the signs and the parentheses are understood.
ExParses ==
    exLast.call # "none" => exLast.v = TreeValue(exLast.tree, exLast.detect)

\* What an expression means: a rational number (1 and 0 for true and false),
\* or nothing where it divides by zero.
Nothing == <<0, 0>>
RECURSIVE Meaning(_)

Meaning(t) ==
    LET q == [k \in DOMAIN t.args |-> Meaning(t.args[k])]
        Bit(c) == <<IF c THEN 1 ELSE 0, 1>>
        True(r) == r[1] # 0
    IN  CASE \E k \in DOMAIN q : q[k] = Nothing -> Nothing
          [] t.op = "number" -> <<t.n, 1>>
          [] t.op \in {"+", "-"} ->
                <<q[1][1] * q[2][2] + (IF t.op = "+" THEN 1 ELSE -1) * q[2][1] * q[1][2],
                  q[1][2] * q[2][2]>>
          [] t.op = "*" -> <<q[1][1] * q[2][1], q[1][2] * q[2][2]>>
          [] t.op = "/" -> CASE q[2][1] = 0 -> Nothing
                             [] q[2][1] > 0 -> <<q[1][1] * q[2][2], q[1][2] * q[2][1]>>
                             [] OTHER -> <<-q[1][1] * q[2][2], -q[1][2] * q[2][1]>>
          [] t.op = "<" -> Bit(q[1][1] * q[2][2] < q[2][1] * q[1][2])
          [] t.op = "==" -> Bit(q[1][1] * q[2][2] = q[2][1] * q[1][2])
          [] t.op = "&&" -> Bit(True(q[1]) /\ True(q[2]))
          [] t.op = "||" -> Bit(True(q[1]) \/ True(q[2]))
          [] t.op = "," -> q[2]
          [] t.op = "neg" -> <<-q[1][1], q[1][2]>>
          [] t.op = "!" -> Bit(~True(q[1]))
          [] t.op = "abs" -> IF q[1][1] < 0 THEN <<-q[1][1], q[1][2]>> ELSE q[1]
          [] t.op = "user" -> q[1]
          [] t.op = "min" -> IF q[1][1] * q[2][2] < q[2][1] * q[1][2] THEN q[1] ELSE q[2]
          [] t.op = "if" -> IF True(q[1]) THEN q[2] ELSE q[3]

RECURSIVE Odd(_)

\* The three places where the code departs from that: a BOOL, the result of
\* && and ||, is refused as an operand; minus a double is 0; a function of one
\* argument does not see an integer.
Odd(t) ==
    \/ \E k \in DOMAIN t.args : Odd(t.args[k])
    \/ /\ t.args # <<>>
       /\ LET kinds == {TreeValue(t.args[k], FALSE).t : k \in DOMAIN t.args}
          IN  \/ t.op \notin {",", "user"} /\ "BOOL" \in kinds
              \/ t.op = "neg" /\ "NUMBER" \in kinds
              \/ t.op = "abs" /\ "INTEGER64" \in kinds

\* ExMeaning: apart from these places, a program that divides by zero throws
\* and every other one has the value that the header comment of
\* exprparser.cpp describes, whatever types the operands are converted to.
\* Only a parser whose Parse has thrown before, which leaves detect_ set, may
\* answer with UNSURE, the value of the syntax check, instead.
ExMeaning ==
    exLast.call = "Evaluate" /\ ~(exThrew /\ exLast.detect) /\ ~Odd(exLast.tree) =>
        LET q == Meaning(exLast.tree)
            v == exLast.v
        IN  IF q = Nothing THEN v = Thrown
            ELSE CASE v.t = "BOOL" -> QEqual(q, <<IF v.b THEN 1 ELSE 0, 1>>)
                   [] Numeric(v) -> QEqual(q, AsDouble(v))
                   [] OTHER -> FALSE

=============================================================================
