------------------------------ MODULE Numbers ------------------------------
(***************************************************************************)
(* Where a number is computed.  An operation of a callback may be done     *)
(* while the callback is traced (num.py, native.py, math_impls.py), when   *)
(* the optimizer finds its operands constant (fold_op of kernels.pyx), or  *)
(* at run time (interpret.py, the reference for what the runtime does).    *)
(* An operation goes through the three, each operand known to the first,   *)
(* to the second, or to the third only.                                    *)
(*                                                                         *)
(* Floating point is scaled down: a finite number is a whole number of     *)
(* units, One of them make 1, and "bits" significant bits of it are kept.  *)
(* The runtime may keep fewer bits than the compiler (32 of 64).  Whole    *)
(* numbers of Python are exact and have no minus zero.                     *)
(*                                                                         *)
(* Left out: the payload of NaN; sin, exp and the like, of which one of    *)
(* each behaviour at the edges of its domain stands for all; powers with   *)
(* a fraction as exponent, where only the sign of the base matters; the    *)
(* easings that use them.                                                  *)
(***************************************************************************)
EXTENDS Integers, FiniteSets, FiniteSetsExt, SequencesExt

CONSTANTS
  One,        \* units that make 1, a power of two
  Bits,       \* significant bits of the compiler's numbers
  RunBits,    \* and of the runtime's
  Top,        \* the largest exponent
  Operations  \* what is computed: sets of [op, args, known, later, same]: args the
              \* operands, known those the front end knows, later those only the
              \* optimizer does; same if both are one variable

VARIABLES
  asked,   \* the operation
  plain,   \* what the runtime would give for it
  when,    \* how far it came: asked, traced, optimized, ran
  node,    \* what is left to be done
  outcome  \* what came out

computing == <<asked, plain, when, node, outcome>>

-----------------------------------------------------------------------------
(* Numbers.                                                                 *)

Fin(n) == [k |-> "num", n |-> n]
MinusZero == [k |-> "-0", n |-> 0]
NaN == [k |-> "nan", n |-> 0]
Inf(s) == [k |-> "inf", n |-> s]
Num(i) == Fin(i * One)
Bool(b) == IF b THEN Num(1) ELSE Num(0)

IsNaN(x) == x.k = "nan"
IsInf(x) == x.k = "inf"
Finite(x) == x.k \in {"num", "-0"}
IsZero(x) == Finite(x) /\ x.n = 0
Signed(x) == x.k = "-0" \/ x.n < 0
Magnitude(n) == IF n < 0 THEN -n ELSE n
SignOf(n) == IF n < 0 THEN -1 ELSE 1
Zero(minus) == IF minus THEN MinusZero ELSE Fin(0)

\* The whole number nearest to p / q, the even one of two.
NearestEven(p, q) ==
  LET low == p \div q
      rest == p - low * q
  IN  IF 2 * rest < q \/ (2 * rest = q /\ low % 2 = 0) THEN low ELSE low + 1

\* p / q units with so many significant bits.
Rounded(p, q, minus, bits) ==
  LET fits == {e \in 0..Top : Magnitude(NearestEven(p, q * 2^e)) <= 2^bits}
      e == Min(fits)
      m == NearestEven(p, q * 2^e)
  IN  IF fits = {} THEN Inf(SignOf(p))
      ELSE IF m = 0 THEN Zero(minus)
      ELSE IF e = Top /\ Magnitude(m) = 2^bits THEN Inf(SignOf(p)) ELSE Fin(m * 2^e)

InFormat(x, bits) == IF x.k # "num" THEN x ELSE Rounded(x.n, 1, FALSE, bits)

Rank(x) == IF IsInf(x) THEN x.n * 2^(Bits + Top + 1) ELSE x.n
Eq(x, y) == ~ IsNaN(x) /\ ~ IsNaN(y) /\ Rank(x) = Rank(y)
Lt(x, y) == ~ IsNaN(x) /\ ~ IsNaN(y) /\ Rank(x) < Rank(y)
Le(x, y) == Lt(x, y) \/ Eq(x, y)

Minus(x) == CASE x.k = "num" /\ x.n = 0 -> MinusZero [] x.k = "-0" -> Fin(0) [] OTHER -> [x EXCEPT !.n = -@]
Absolute(x) == IF Signed(x) THEN Minus(x) ELSE x
CopySign(x, y) == IF Signed(y) THEN Minus(Absolute(x)) ELSE Absolute(x)

Sum(x, y, b) ==
  CASE IsNaN(x) \/ IsNaN(y) -> NaN
    [] IsInf(x) -> IF IsInf(y) /\ y.n # x.n THEN NaN ELSE x
    [] IsInf(y) -> y
    [] OTHER -> Rounded(x.n + y.n, 1, Signed(x) /\ Signed(y), b)
Difference(x, y, b) == Sum(x, Minus(y), b)
Opposed(x, y) == Signed(x) # Signed(y)
Product(x, y, b) ==
  CASE IsNaN(x) \/ IsNaN(y) \/ (IsInf(x) /\ IsZero(y)) \/ (IsZero(x) /\ IsInf(y)) -> NaN
    [] IsInf(x) \/ IsInf(y) -> Inf(IF Opposed(x, y) THEN -1 ELSE 1)
    [] OTHER -> Rounded(x.n * y.n, One, Opposed(x, y), b)
\* Nothing divides by zero: everyone looks first.
Quotient(x, y, b) ==
  CASE IsNaN(x) \/ IsNaN(y) \/ (IsInf(x) /\ IsInf(y)) -> NaN
    [] IsInf(x) -> Inf(IF Opposed(x, y) THEN -1 ELSE 1)
    [] IsInf(y) -> Zero(Opposed(x, y))
    [] OTHER -> Rounded(x.n * One * SignOf(y.n), Magnitude(y.n), Opposed(x, y), b)

\* fmod of C: the remainder has the sign of x.
Fmod(x, y) ==
  CASE IsNaN(x) \/ IsNaN(y) \/ IsInf(x) \/ IsZero(y) -> NaN
    [] IsInf(y) \/ IsZero(x) -> x
    [] OTHER -> LET r == Magnitude(x.n) % Magnitude(y.n)
                IN  IF r = 0 THEN Zero(Signed(x)) ELSE Fin(SignOf(x.n) * r)

FloorOf(n) == n \div One
IsWhole(x) == Finite(x) /\ x.n % One = 0
IsOddWhole(x) == IsWhole(x) /\ FloorOf(x.n) % 2 = 1

-----------------------------------------------------------------------------
(* Python's operations on floats.  An outcome may be an error.              *)

Real(x) == [tag |-> "real", v |-> x]
Raised == [tag |-> "raised", v |-> Fin(0)]

\* min and max return the first argument unless the second is beyond it.
PyMin(x, y) == IF Lt(y, x) THEN y ELSE x
PyMax(x, y) == IF Lt(x, y) THEN y ELSE x

\* a % b, that has the sign of b.
PyMod(x, y, b) ==
  CASE IsNaN(x) \/ IsNaN(y) \/ IsInf(x) -> NaN
    [] IsInf(y) -> IF IsZero(x) THEN Zero(Signed(y)) ELSE IF Opposed(x, y) THEN y ELSE x
    [] OTHER -> LET s == SignOf(y.n)
                    r == (s * x.n) % Magnitude(y.n)
                IN  IF r = 0 THEN Zero(Signed(y)) ELSE Rounded(s * r, 1, FALSE, b)

\* x to the k-th, k a whole number other than 0, x finite and not 0.
WholePower(x, k, b) ==
  LET minus == Signed(x) /\ k % 2 = 1
  IN  IF k > 0 THEN Rounded(x.n^k, One^(k - 1), minus, b)
      ELSE Rounded(One^(1 - k) * SignOf(x.n^(-k)), Magnitude(x.n^(-k)), minus, b)

\* x to the y-th for a fraction y: any function will do.
FractionPower(x, y) == x

\* a ** b of floats: errors for 0 to the -1 and for what is too large; the
\* root of a negative number is complex.
PyPower(x, y, b) ==
  CASE IsZero(y) -> Real(Num(1))
    [] ~ IsZero(y) /\ Eq(x, Num(1)) -> Real(Num(1))
    [] ~ IsZero(y) /\ ~ Eq(x, Num(1)) /\ (IsNaN(x) \/ IsNaN(y)) -> Real(NaN)
    [] IsInf(y) /\ Eq(x, Num(-1)) -> Real(Num(1))
    [] IsInf(y) /\ ~ IsNaN(x) /\ Rank(Absolute(x)) # One ->
         Real(IF Signed(y) = Lt(Absolute(x), Num(1)) THEN Inf(1) ELSE Fin(0))
    [] IsInf(x) /\ Finite(y) /\ ~ IsZero(y) ->
         LET flips == Signed(x) /\ IsOddWhole(y)
         IN  Real(IF Signed(y) THEN Zero(flips) ELSE Inf(IF flips THEN -1 ELSE 1))
    [] IsZero(x) /\ Finite(y) /\ ~ IsZero(y) ->
         IF Signed(y) THEN Raised ELSE Real(Zero(Signed(x) /\ IsOddWhole(y)))
    [] OTHER ->
         IF ~ IsWhole(y) THEN (IF Signed(x) THEN Raised ELSE Real(FractionPower(x, y)))
         ELSE LET r == WholePower(x, FloorOf(y.n), b) IN IF IsInf(r) THEN Raised ELSE Real(r)

\* What C returns for functions of one number; the module math of Python
\* turns what has no value, and what is infinite, into errors.
Libm(f, x) ==
  CASE IsNaN(x) -> NaN
    [] f = "Log" /\ ~ IsNaN(x) -> IF Lt(x, Fin(0)) THEN NaN ELSE IF IsZero(x) THEN Inf(-1) ELSE x
    [] f = "Arcsin" /\ ~ IsNaN(x) -> IF Lt(Num(1), Absolute(x)) THEN NaN ELSE x
    [] f = "Sin" /\ ~ IsNaN(x) -> IF IsInf(x) THEN NaN ELSE x
    [] f = "Sinh" /\ ~ IsNaN(x) -> IF Lt(Num(2), Absolute(x)) THEN Inf(SignOf(x.n)) ELSE x
Functions == {"Log", "Arcsin", "Sin", "Sinh"}
PyMath(f, x) ==
  LET outside == CASE f = "Log" -> Le(x, Fin(0)) [] f = "Arcsin" -> Lt(Num(1), Absolute(x))
                   [] f = "Sin" -> IsInf(x) [] f = "Sinh" -> Finite(x) /\ Lt(Num(2), Absolute(x))
  IN  IF outside THEN Raised ELSE Real(Libm(f, x))

-----------------------------------------------------------------------------
(* The interpreter: op of the numbers a, with b bits.                       *)

Comparisons == {"Equal", "NotEqual", "Less", "LessOr", "Greater", "GreaterOr"}
Holds(op, x, y) ==
  CASE op = "Equal" -> Eq(x, y) [] op = "NotEqual" -> ~ Eq(x, y) [] op = "Less" -> Lt(x, y) [] op = "LessOr" -> Le(x, y)
    [] op = "Greater" -> Lt(y, x) [] op = "GreaterOr" -> Le(y, x)

\* floor, ceil, trunc and round give a whole number, but not of infinity.
Roundings == {"Floor", "Ceil", "Trunc", "Round"}
Whole(op, x) ==
  CASE op = "Floor" -> FloorOf(x.n) [] op = "Ceil" -> - FloorOf(-x.n) [] op = "Round" -> NearestEven(x.n, One)
    [] op = "Trunc" -> SignOf(x.n) * FloorOf(Magnitude(x.n))
PyRounding(op, x) == IF Finite(x) THEN Real(Num(Whole(op, x))) ELSE Raised

\* The first operand with the given truth, or the last one.
FirstThat(wanted, a) ==
  IF a = <<>> THEN Fin(0)
  ELSE a[Min({i \in DOMAIN a : ~ IsZero(a[i]) = wanted} \cup {Len(a)})]

Clamped01(x) == PyMax(Fin(0), PyMin(Num(1), x))
Judged(diff, windows) ==
  LET hit == {i \in 1..3 : Le(windows[2 * i - 1], diff) /\ Le(diff, windows[2 * i])}
  IN  IF hit = {} THEN Fin(0) ELSE Num(Min(hit))

\* Keys and values of a switch alternate after the test.
Selects == {"If", "Switch", "SwitchWithDefault", "SwitchInteger", "SwitchIntegerWithDefault"}
Keys(a, last) == {i \in 2..last : i % 2 = 0}
Matching(a, last) == {i \in Keys(a, last) : Eq(a[1], a[i])}
Selected(op, a) ==
  LET matching == Matching(a, IF op = "Switch" THEN Len(a) ELSE Len(a) - 1)
      arms == IF op = "SwitchInteger" THEN Len(a) - 1 ELSE Len(a) - 2
      inside == IsWhole(a[1]) /\ Le(Fin(0), a[1]) /\ Lt(a[1], Num(arms))
      otherwise == IF op \in {"Switch", "SwitchInteger"} THEN Fin(0) ELSE Last(a)
  IN  CASE op = "If" -> IF IsZero(a[1]) THEN a[3] ELSE a[2]
        [] op \in {"Switch", "SwitchWithDefault"} -> IF matching = {} THEN otherwise ELSE a[Min(matching) + 1]
        [] OTHER -> IF inside THEN a[FloorOf(a[1].n) + 2] ELSE otherwise

\* x + (y - x) * s, and where value lies between lo and hi.
Between(x, y, s, b) == Sum(x, Product(Difference(y, x, b), s, b), b)
Along(lo, hi, value, b) == Quotient(Difference(value, lo, b), Difference(hi, lo, b), b)

Interpret(op, a, b) ==
  CASE op = "Not" -> Real(Bool(IsZero(a[1])))
    [] op = "Negate" -> Real(Minus(a[1]))
    [] op = "Abs" -> Real(Absolute(a[1]))
    [] op = "Sign" -> Real(IF IsNaN(a[1]) \/ IsZero(a[1]) THEN a[1] ELSE Num(SignOf(a[1].n)))
    [] op \in Roundings -> PyRounding(op, a[1])
    [] op = "Frac" -> LET r == PyMod(a[1], Num(1), b) IN Real(IF Le(Fin(0), r) THEN r ELSE Sum(r, Num(1), b))
    [] op \in Functions -> PyMath(op, a[1])
    [] op \in Comparisons -> Real(Bool(Holds(op, a[1], a[2])))
    [] op = "And" -> Real(FirstThat(FALSE, a))
    [] op = "Or" -> Real(FirstThat(TRUE, a))
    [] op \in Selects -> Real(Selected(op, a))
    [] op = "Add" -> Real(Sum(a[1], a[2], b))
    [] op = "Subtract" -> Real(Difference(a[1], a[2], b))
    [] op = "Multiply" -> Real(Product(a[1], a[2], b))
    [] op = "Divide" -> IF IsZero(a[2]) THEN Raised ELSE Real(Quotient(a[1], a[2], b))
    [] op = "Mod" -> IF IsZero(a[2]) THEN Raised ELSE Real(PyMod(a[1], a[2], b))
    [] op = "Rem" -> IF IsZero(a[2]) THEN Raised ELSE Real(CopySign(PyMod(Absolute(a[1]), Absolute(a[2]), b), a[1]))
    [] op = "Power" -> PyPower(a[1], a[2], b)
    [] op = "Max" -> Real(PyMax(a[1], a[2]))
    [] op = "Min" -> Real(PyMin(a[1], a[2]))
    [] op = "Clamp" -> Real(PyMax(a[2], PyMin(a[3], a[1])))
    [] op = "Lerp" -> Real(Between(a[1], a[2], a[3], b))
    [] op = "LerpClamped" -> Real(Between(a[1], a[2], Clamped01(a[3]), b))
    [] op \in {"Unlerp", "UnlerpClamped"} ->
         LET t == Along(a[1], a[2], a[3], b)
         IN  IF IsZero(Difference(a[2], a[1], b)) THEN Raised ELSE Real(IF op = "Unlerp" THEN t ELSE Clamped01(t))
    [] op = "Remap" ->
         IF IsZero(Difference(a[2], a[1], b)) THEN Raised
         ELSE Real(Sum(a[3], Quotient(Product(Difference(a[4], a[3], b), Difference(a[5], a[1], b), b), Difference(a[2], a[1], b), b), b))
    [] op = "RemapClamped" ->
         IF IsZero(Difference(a[2], a[1], b)) THEN Raised
         ELSE Real(Sum(a[3], Product(Difference(a[4], a[3], b), Clamped01(Along(a[1], a[2], a[5], b)), b), b))
    [] op = "Judge" -> Real(Judged(Difference(a[1], a[2], b), SubSeq(a, 3, 8)))
    [] op = "JudgeSimple" ->
         Real(Judged(Difference(a[1], a[2], b), <<Minus(a[3]), a[3], Minus(a[4]), a[4], Minus(a[5]), a[5]>>))

-----------------------------------------------------------------------------
(* The optimizer: fold_op, in C, of constants.                              *)

Unfolded == [tag |-> "unfolded", v |-> Fin(0)]
Guarded(test, x) == IF test THEN Real(x) ELSE Unfolded

\* fmod that is given the sign of the divisor.
ModOfC(x, y) ==
  LET m == Fmod(x, y)
  IN  IF Finite(m) /\ m.n = 0 THEN CopySign(Fin(0), y)
      ELSE IF Lt(y, Fin(0)) # Lt(m, Fin(0)) THEN Sum(m, y, Bits) ELSE m

\* round of C takes a half away from zero; it is mended.
RoundOfC(p, q) == SignOf(p) * ((2 * Magnitude(p) + q) \div (2 * q))
\* Mutant: it is not.
MutantMended(n) == RoundOfC(n, One)
Mended(n) ==
  LET r == RoundOfC(n, One) IN IF 2 * Magnitude(n - r * One) = One THEN 2 * RoundOfC(n, 2 * One) ELSE r

\* The rules of CPython for what is infinite or has no value.
MathOfC(r, x) == Guarded(~ (IsNaN(r) /\ ~ IsNaN(x)) /\ ~ (IsInf(r) /\ Finite(x)), r)

FoldPower(x, y) ==
  LET odd == IsOddWhole(y)
      size == Absolute(x)
      power == IF IsWhole(y) THEN WholePower(size, FloorOf(y.n), Bits) ELSE FractionPower(size, y)
  IN  CASE IsZero(y) -> Real(Num(1))
        [] ~ IsZero(y) /\ IsNaN(x) -> Real(x)
        [] ~ IsZero(y) /\ ~ IsNaN(x) /\ IsNaN(y) -> Real(IF Eq(x, Num(1)) THEN Num(1) ELSE y)
        [] ~ IsNaN(x) /\ IsInf(y) ->
             Real(IF Eq(size, Num(1)) THEN Num(1) ELSE IF Lt(Fin(0), y) = Lt(Num(1), size) THEN Inf(1) ELSE Fin(0))
        [] IsInf(x) /\ Finite(y) /\ ~ IsZero(y) ->
             Real(IF Lt(Fin(0), y) THEN (IF odd THEN x ELSE size) ELSE IF odd THEN CopySign(Fin(0), x) ELSE Fin(0))
        [] IsZero(x) /\ Finite(y) /\ ~ IsZero(y) ->
             IF Lt(y, Fin(0)) THEN Unfolded ELSE Real(IF odd THEN x ELSE Fin(0))
        [] OTHER -> IF Lt(x, Fin(0)) /\ ~ IsWhole(y) THEN Unfolded
                    ELSE Guarded(~ IsInf(power), IF Lt(x, Fin(0)) /\ odd THEN Minus(power) ELSE power)

\* Whether the runtime keeps all of x.
\* Mutant: 64 bits are the same as 32.
MutantExact(x) == TRUE
Exact(x) == IsNaN(x) \/ Eq(x, InFormat(x, RunBits))

\* A select is folded if no number that decides loses bits at run time.
FoldSelect(op, a) ==
  LET last == IF op = "Switch" THEN Len(a) ELSE Len(a) - 1
      tried == IF Matching(a, last) = {} THEN Keys(a, last)
               ELSE {i \in Keys(a, last) : i <= Min(Matching(a, last))}
      decide == {1} \cup (IF op \in {"Switch", "SwitchWithDefault"} THEN tried ELSE {})
  IN  Guarded(\A i \in decide : Exact(a[i]), Selected(op, a))

FoldClamp01(x) == LET m == IF Lt(x, Num(1)) THEN x ELSE Num(1) IN IF Lt(Fin(0), m) THEN m ELSE Fin(0)

FoldUnary(op, x) ==
  CASE op = "Not" -> Real(Bool(Eq(x, Fin(0))))
    [] op = "Negate" -> Real(Minus(x))
    [] op = "Abs" -> Real(Absolute(x))
    [] op = "Sign" -> Real(IF IsNaN(x) THEN x ELSE IF Lt(Fin(0), x) THEN Num(1) ELSE IF Lt(x, Fin(0)) THEN Num(-1) ELSE x)
    [] op = "Round" -> IF Finite(x) THEN Real(Num(Mended(x.n))) ELSE Unfolded
    [] op \in Roundings \ {"Round"} -> IF Finite(x) THEN Real(Num(Whole(op, x))) ELSE Unfolded
    [] op = "Frac" -> LET r == ModOfC(x, Num(1)) IN Real(IF Le(Fin(0), r) THEN r ELSE Sum(r, Num(1), Bits))
    [] op \in Functions -> MathOfC(Libm(op, x), x)

FoldComparison(op, x, y) == Real(Bool(Holds(op, x, y)))
FoldBinary(op, x, y) ==
  CASE op = "Add" -> Real(Sum(x, y, Bits))
    [] op = "Subtract" -> Real(Difference(x, y, Bits))
    [] op = "Multiply" -> Real(Product(x, y, Bits))
    [] op = "Divide" -> IF IsZero(y) THEN Unfolded ELSE Real(Quotient(x, y, Bits))
    [] op = "Mod" -> IF IsZero(y) THEN Unfolded ELSE Real(ModOfC(x, y))
    [] op = "Rem" -> IF IsZero(y) THEN Unfolded ELSE Real(CopySign(Fmod(Absolute(x), Absolute(y)), x))
    [] op = "Power" -> FoldPower(x, y)
    [] op = "Max" -> Real(IF Lt(x, y) THEN y ELSE x)
    [] op = "Min" -> Real(IF Lt(y, x) THEN y ELSE x)

FoldMany(op, a) ==
  LET width == Difference(a[2], a[1], Bits)
      part == Quotient(Difference(Last(a), a[1], Bits), width, Bits)
  IN  CASE op = "Clamp" -> Real(PyMax(a[2], PyMin(a[3], a[1])))
        [] op = "Lerp" -> Real(Sum(a[1], Product(width, a[3], Bits), Bits))
        [] op = "LerpClamped" -> Real(Sum(a[1], Product(width, FoldClamp01(a[3]), Bits), Bits))
        [] op \in {"Unlerp", "UnlerpClamped", "Remap", "RemapClamped"} /\ IsZero(width) -> Unfolded
        [] op = "Unlerp" /\ ~ IsZero(width) -> Real(part)
        [] op = "UnlerpClamped" /\ ~ IsZero(width) -> Real(FoldClamp01(part))
        [] op = "Remap" /\ ~ IsZero(width) ->
             Real(Sum(a[3], Quotient(Product(Difference(a[4], a[3], Bits), Difference(a[5], a[1], Bits), Bits), width, Bits), Bits))
        [] op = "RemapClamped" /\ ~ IsZero(width) ->
             Real(Sum(a[3], Product(Difference(a[4], a[3], Bits), FoldClamp01(part), Bits), Bits))
        [] op = "Judge" -> Real(Judged(Difference(a[1], a[2], Bits), SubSeq(a, 3, 8)))
        [] op = "JudgeSimple" ->
             Real(Judged(Difference(a[1], a[2], Bits), <<Minus(a[3]), a[3], Minus(a[4]), a[4], Minus(a[5]), a[5]>>))

Unary == {"Not", "Negate", "Abs", "Sign", "Frac"} \cup Roundings \cup Functions
Binary == {"Add", "Subtract", "Multiply", "Divide", "Mod", "Rem", "Power", "Max", "Min"}

FoldOp(op, a) ==
  CASE op \in Unary -> FoldUnary(op, a[1])
    [] op \in Comparisons -> FoldComparison(op, a[1], a[2])
    [] op \in Binary -> FoldBinary(op, a[1], a[2])
    [] op = "And" -> Real(FirstThat(FALSE, a))
    [] op = "Or" -> Real(FirstThat(TRUE, a))
    [] op \in Selects -> FoldSelect(op, a)
    [] OTHER -> FoldMany(op, a)

-----------------------------------------------------------------------------
(* The front end.  What is left of an operation is a node: a constant, an   *)
(* operand, or an operation on nodes; or the callback does not compile.     *)

Leaf(k, v, i) == [k |-> k, v |-> v, i |-> i, op |-> "", args |-> <<>>]
Const(v) == Leaf("const", v, 0)
Arg(i) == Leaf("arg", Fin(0), i)
Stopped == Leaf("stopped", Fin(0), 0)
Call(op, args) == [k |-> "call", v |-> Fin(0), i |-> 0, op |-> op, args |-> args]
Emitted(op, n) == Call(op, [i \in 1..n |-> Arg(i)])

\* A constant as Python sees it: whole numbers are int, minus zero is 0.
AsPy(x) == IF IsZero(x) THEN Fin(0) ELSE x

\* Num of a whole number p / q: a float may be too small for it.
NumOfInt(p, q) == LET r == Rounded(p, q, FALSE, Bits) IN IF IsInf(r) THEN Stopped ELSE Const(r)

\* + - * of ints are exact.
FrontSum(x, y) == IF IsWhole(x) /\ IsWhole(y) THEN NumOfInt(x.n + y.n, 1) ELSE Const(Sum(x, y, Bits))
FrontDifference(x, y) == IF IsWhole(x) /\ IsWhole(y) THEN NumOfInt(x.n - y.n, 1) ELSE Const(Difference(x, y, Bits))
FrontProduct(x, y) == IF IsWhole(x) /\ IsWhole(y) THEN NumOfInt(x.n * y.n, One) ELSE Const(Product(x, y, Bits))

FrontPower(x, y) ==
  LET k == FloorOf(y.n)
      float == PyPower(x, y, Bits)
  IN  IF IsWhole(x) /\ IsWhole(y) /\ k > 0 THEN NumOfInt(x.n^k, One^(k - 1))
      ELSE IF float.tag = "raised" THEN Emitted("Power", 2) ELSE Const(float.v)

Floored(n) == Call("Floor", <<n>>)
\* a // b, rounded down once; a zero of floats has the sign of the quotient.
FloorQuotient(x, y) ==
  LET whole == One * ((SignOf(y.n) * x.n) \div Magnitude(y.n))
      minus == Opposed(x, y) /\ ~ (IsWhole(x) /\ IsWhole(y))
  IN  CASE ~ Finite(x) \/ IsNaN(y) -> NaN
        [] Finite(x) /\ Finite(y) -> Rounded(whole, 1, minus, Bits)
        [] Finite(x) /\ IsInf(y) -> IF IsZero(x) \/ ~ Opposed(x, y) THEN Zero(Opposed(x, y)) ELSE Num(-1)

\* Two constants; nothing is divided by zero.
FrontFolds(op, x, y) ==
  CASE op \in Comparisons -> Const(Bool(Holds(op, x, y)))
    [] op = "And" -> Const(IF IsZero(x) THEN x ELSE y)
    [] op = "Or" -> Const(IF IsZero(x) THEN y ELSE x)
    [] op = "Add" -> FrontSum(x, y)
    [] op = "Subtract" -> FrontDifference(x, y)
    [] op = "Multiply" -> FrontProduct(x, y)
    [] op = "Divide" -> IF IsZero(y) THEN Emitted(op, 2) ELSE Const(Quotient(x, y, Bits))
    [] op = "FloorDivide" -> IF IsZero(y) THEN Floored(Emitted("Divide", 2)) ELSE Const(FloorQuotient(x, y))
    [] op = "Mod" -> IF IsZero(y) THEN Emitted(op, 2) 
                     ELSE Const(IF IsWhole(x) /\ IsWhole(y) THEN AsPy(PyMod(x, y, Bits)) ELSE PyMod(x, y, Bits))
    [] op = "Power" -> FrontPower(x, y)

\* Mutant: 0 - b is b.
MutantZeroMinus(b) == Arg(b)
ZeroMinus(b) == Call("Negate", <<Arg(b)>>)

\* One constant: x is the one on the left, or y on the right.
FrontLeft(op, x) ==
  CASE op = "Add" /\ IsZero(x) -> Arg(2)
    [] op = "Subtract" /\ IsZero(x) -> ZeroMinus(2)
    [] op = "Multiply" /\ IsZero(x) -> Const(Fin(0))
    [] op = "Multiply" /\ Eq(x, Num(1)) -> Arg(2)
    [] op = "And" -> IF IsZero(x) THEN Const(x) ELSE Arg(2)
    [] op = "Or" -> IF IsZero(x) THEN Arg(2) ELSE Const(x)
    [] op = "FloorDivide" -> Floored(Emitted("Divide", 2))
    [] OTHER -> Emitted(op, 2)
FrontRight(op, y) ==
  CASE op \in {"Add", "Subtract"} /\ IsZero(y) -> Arg(1)
    [] op = "Multiply" /\ IsZero(y) -> Const(Fin(0))
    [] op \in {"Multiply", "Divide", "Power"} /\ Eq(y, Num(1)) -> Arg(1)
    [] op = "Divide" /\ Eq(y, Num(-1)) -> Call("Negate", <<Arg(1)>>)
    [] op = "Power" /\ IsZero(y) -> Const(Num(1))
    [] op = "FloorDivide" -> Floored(IF Eq(y, Num(1)) THEN Arg(1)
                                     ELSE IF Eq(y, Num(-1)) THEN Call("Negate", <<Arg(1)>>) ELSE Emitted("Divide", 2))
    [] OTHER -> Emitted(op, 2)

\* None: only that both are the same variable may be known.
FrontNeither(op, same) ==
  CASE same /\ op \in Comparisons -> Const(Bool(op \in {"Equal", "LessOr", "GreaterOr"}))
    [] op = "FloorDivide" -> Floored(Emitted("Divide", 2))
    [] OTHER -> Emitted(op, 2)

NumBinary == Comparisons \cup {"Add", "Subtract", "Multiply", "Divide", "FloorDivide", "Mod", "Power", "And", "Or"}
NumUnary == {"Not", "Negate", "Abs"}
BinOp(op, a, known, same) ==
  CASE known = {1, 2} -> FrontFolds(op, AsPy(a[1]), AsPy(a[2]))
    [] known = {1} -> FrontLeft(op, AsPy(a[1]))
    [] known = {2} -> FrontRight(op, AsPy(a[2]))
    [] OTHER -> FrontNeither(op, same)
UnaryOp(op, x, known) ==
  IF known = {} THEN Emitted(op, 1)
  ELSE Const(CASE op = "Not" -> Bool(IsZero(x)) [] op = "Negate" -> AsPy(Minus(x)) [] op = "Abs" -> Absolute(AsPy(x)))

\* A native function runs in Python if all it needs is known; what Python
\* raises ends the compilation.
Native == Roundings \cup Functions \cup {"Frac", "Rem", "Max", "Min", "Clamp"}
PyNative(op, a) ==
  CASE op \in Roundings -> PyRounding(op, a[1])
    [] op \in Functions -> PyMath(op, a[1])
    [] op = "Frac" -> Real(PyMod(a[1], Num(1), Bits))
    [] op = "Rem" -> IF IsZero(a[2]) THEN Raised ELSE Real(CopySign(PyMod(Absolute(a[1]), Absolute(a[2]), Bits), a[1]))
    [] op = "Max" -> Real(IF Lt(a[2], a[1]) THEN a[1] ELSE a[2])
    [] op = "Min" -> Real(IF Lt(a[1], a[2]) THEN a[1] ELSE a[2])
    [] op = "Clamp" -> Real(PyMax(a[2], PyMin(a[3], a[1])))
NativeFunction(op, a, known) ==
  LET r == PyNative(op, [i \in DOMAIN a |-> AsPy(a[i])])
  IN  IF known # DOMAIN a THEN Emitted(op, Len(a)) ELSE IF r.tag = "raised" THEN Stopped ELSE Const(r.v)

\* Whether a value is one of the cases, that follow it.
SwitchMembership(a, known) ==
  LET cases == SetToSortSeq({AsPy(a[i]) : i \in 2..Len(a)}, Lt)
  IN  CASE 1 \in known -> Const(Bool(\E i \in DOMAIN cases : Eq(a[1], cases[i])))
        [] 1 \notin known /\ cases = <<>> -> Const(Fin(0))
        [] OTHER -> Call("SwitchWithDefault",
                         <<Arg(1)>> \o FlattenSeq([i \in DOMAIN cases |-> <<Const(cases[i]), Const(Num(1))>>]) \o <<Const(Fin(0))>>)

Traced(p) ==
  CASE p.op \in NumBinary /\ Len(p.args) = 2 -> BinOp(p.op, p.args, p.known, p.same)
    [] p.op \in NumUnary -> UnaryOp(p.op, p.args[1], p.known)
    [] p.op \in Native -> NativeFunction(p.op, p.args, p.known)
    [] p.op = "In" -> SwitchMembership(p.args, p.known)
    [] OTHER -> Emitted(p.op, Len(p.args))

-----------------------------------------------------------------------------
(* The three in turn.                                                       *)

\* The operation done by the runtime alone.
Alone(op, a) ==
  CASE op = "FloorDivide" ->
         IF IsZero(a[2]) THEN Raised ELSE PyRounding("Floor", Quotient(a[1], a[2], Bits))
    [] op = "In" -> Real(Bool(\E i \in 2..Len(a) : Eq(a[1], a[i])))
    [] OTHER -> Interpret(op, a, Bits)

Init ==
  /\ \E alike \in Operations : asked \in alike
  /\ plain = Alone(asked.op, asked.args)
  /\ when = "asked" /\ node = Arg(1) /\ outcome = Raised

Trace ==
  /\ when = "asked"
  /\ node' = Traced(asked) /\ when' = "traced"
  /\ UNCHANGED <<asked, plain, outcome>>

\* An operand the optimizer sees: a constant of the front end is one for it.
Constant(n) == IF n.k = "arg" /\ n.i \in asked.known \cup asked.later THEN Const(asked.args[n.i]) ELSE n
\* One operand decides, whatever the other one is; And and Or give a number
\* only if that is 0 or 1.
Absorbing(op, args) ==
  LET Known(i) == args[i].k = "const"
      IsBool(i) == Known(i) /\ (IsZero(args[i].v) \/ Eq(args[i].v, Num(1)))
      zero == \E i \in 1..2 : Known(i) /\ IsZero(args[i].v) /\ (IF op = "Multiply" THEN ~ Known(3 - i) ELSE IsBool(3 - i))
      one == \E i \in 1..2 : Known(i) /\ Eq(args[i].v, Num(1)) /\ IsBool(3 - i)
  IN  CASE Len(args) = 2 /\ op \in {"Multiply", "And"} /\ zero -> {Num(0)}
        [] Len(args) = 2 /\ op = "Or" /\ one -> {Num(1)}
        [] OTHER -> {}
Folded(n) ==
  LET args == [i \in DOMAIN n.args |-> Constant(n.args[i])]
      r == FoldOp(n.op, [i \in DOMAIN args |-> args[i].v])
  IN  IF n.k # "call" THEN n
      ELSE IF Absorbing(n.op, args) # {} THEN Const(CHOOSE v \in Absorbing(n.op, args) : TRUE)
      ELSE IF (\A i \in DOMAIN args : args[i].k = "const") /\ r.tag = "real" THEN Const(r.v) ELSE n

\* The operation inside of another one comes first.
Nested == node.k = "call" /\ node.args[1].k = "call"
Inner == IF Nested THEN node.args[1] ELSE node

\* sccp: an operation whose operands were folded is folded next.
Optimize ==
  /\ when = "traced"
  /\ \E n \in {Folded(Inner)} :
       /\ node' = IF Nested THEN [node EXCEPT !.args[1] = n] ELSE n
       /\ when' = IF Nested /\ n.k = "const" THEN "traced" ELSE "optimized"
  /\ UNCHANGED <<asked, plain, outcome>>

\* The value of a node at run time, where each operand has one.
Operand(n) == IF n.k = "arg" THEN asked.args[n.i] ELSE n.v
Valued(n) ==
  IF n.k = "call" THEN Interpret(n.op, [i \in DOMAIN n.args |-> Operand(n.args[i])], Bits) ELSE Real(Operand(n))

Run ==
  /\ when = "optimized" /\ node.k # "stopped"
  /\ \E r \in {Valued(Inner)} :
       IF Nested /\ r.tag = "real" THEN node' = [node EXCEPT !.args[1] = Const(r.v)] /\ UNCHANGED <<when, outcome>>
       ELSE outcome' = r /\ when' = "ran" /\ UNCHANGED node
  /\ UNCHANGED <<asked, plain>>

Next == Trace \/ Optimize \/ Run
Spec == Init /\ [][Next]_computing

-----------------------------------------------------------------------------
(* Properties                                                               *)

\* Every variable has its type.
TypeOK ==
  /\ asked.known \cup asked.later \subseteq DOMAIN asked.args /\ when \in {"asked", "traced", "optimized", "ran"}
  /\ node.k \in {"const", "arg", "call", "stopped"} /\ node.i \in 0..8
  /\ {outcome.tag, plain.tag} \subseteq {"real", "raised"}

AllFinite == \A i \in DOMAIN asked.args : Finite(asked.args[i])

\* An operation on finite numbers gives the same number, or fails alike,
\* whoever does it; only a zero may lose its sign, and a // b of constants is
\* rounded once, not twice (see FloorsAlike).
SameNumber ==
  when = "ran" /\ AllFinite /\ ~ (asked.op = "FloorDivide" /\ asked.known = {1, 2}) =>
    /\ outcome.tag = plain.tag
    /\ outcome.tag = "real" => outcome.v = plain.v \/ (IsZero(outcome.v) /\ IsZero(plain.v))

\* Only what would give no finite number at run time stops the compiler.
StopsForAReason ==
  node.k = "stopped" => plain.tag = "raised" \/ ~ Finite(plain.v)

\* The optimizer does the whole operation.
OptimizerAlone == asked.known = {} /\ asked.later = DOMAIN asked.args /\ when = "optimized" /\ asked.op \notin {"FloorDivide", "In"}

\* What the interpreter gives a value, infinite or not, the optimizer folds to
\* that value with its sign, and nothing else; selects have a further guard,
\* and the 0 of And is a plain one.
FoldIsTheOracle ==
  OptimizerAlone =>
    /\ node.k = "const" => plain = Real(node.v) \/ (asked.op = "And" /\ IsZero(node.v) /\ plain = Real(MinusZero))
    /\ node.k = "call" => plain.tag = "raised" \/ asked.op \in Selects

\* The arm of a select that the optimizer takes is the one that the runtime
\* would take, although it keeps fewer bits.
SelectsAgreeInBothWidths ==
  OptimizerAlone /\ asked.op \in Selects /\ node.k = "const" =>
    LET rough == [i \in DOMAIN asked.args |-> InFormat(asked.args[i], RunBits)]
    IN  IsNaN(node.v) \/ Eq(InFormat(node.v, RunBits), Selected(asked.op, rough))

\* a // b of constants is what Divide and Floor give.  It is not: the
\* quotient may round up to the next whole number, as 1 / 0.1 does.
FloorsAlike ==
  when = "ran" /\ AllFinite /\ asked.op = "FloorDivide" => outcome = plain

\* A power that is too large is left to the runtime (num.py, __pow__).  A
\* power of ints is not: it is too large for the float it becomes.
PowersCompile == asked.op = "Power" => node.k # "stopped"
=============================================================================
