----------------------------- MODULE Arithmetic -----------------------------
(***************************************************************************)
(* The math skill: evaluate walks the expression's tree, operands first    *)
(* and from left to right, so that its recursion is a stack of values.     *)
(* Integers are exact and kept within MaxBits; of any other number only    *)
(* that it is one is kept.  The walk runs in a thread that nothing can     *)
(* stop, so the cap is all that bounds its work.                           *)
(***************************************************************************)
EXTENDS ToolCall, SequencesExt

CONSTANTS
    MaxBits,    \* MAX_INT_BITS
    MaxDepth    \* how many values wait at once; the expression's length bounds it

ASSUME ArithmeticAssumption == MaxBits \in Nat \ {0} /\ MaxDepth \in Nat

VARIABLES
    stack,   \* the values of the operands walked so far
    widest   \* history: the bits of the widest integer that was computed

mathVars == <<stack, widest>>

ArithmeticInit == stack = <<>> /\ widest = 0

Number(n) == [exact |-> TRUE, n |-> n]
Inexact == [exact |-> FALSE, n |-> 0]

(* base ** exponent, for an exponent that is not negative. *)
ExactPower(base, exponent) ==
    LET power[n \in 0..exponent] == IF n = 0 THEN 1 ELSE base * power[n - 1]
    IN  power[exponent]

Magnitude(n) == IF n < 0 THEN -n ELSE n

BitsOf[n \in Nat] == IF n = 0 THEN 0 ELSE 1 + BitsOf[n \div 2]

BitLength(n) == BitsOf[Magnitude(n)]

Fits(n) == BitLength(n) <= MaxBits

(* Mutant: what evaluate raises is not caught. *)
EvaluationRaises(c) == Ends(c, "raised") /\ UNCHANGED stack

(* Raising: whatever it is, its text is the result. *)
EvaluationEnds(c) == Ends(c, "result") /\ UNCHANGED stack

(* The number v takes the place of the top k values, if it is not too wide. *)
Computes(c, k, v) ==
    /\ widest' = IF v.exact /\ BitLength(v.n) > widest THEN BitLength(v.n) ELSE widest
    /\ IF v.exact /\ ~Fits(v.n) THEN EvaluationEnds(c)
       ELSE /\ stack' = Append(SubSeq(stack, 1, Len(stack) - k), v)
            /\ UNCHANGED callVars

ExpressionSent(c) ==
    /\ at[c] = "idle"
    /\ Awaits(c, "evaluate")
    /\ UNCHANGED mathVars

Constant(c) ==
    /\ at[c] = "evaluate" /\ Len(stack) < MaxDepth
    /\ \E n \in 0..ExactPower(2, MaxBits) : Computes(c, 0, Number(n))
       \/ Computes(c, 0, Inexact)

Top == stack[Len(stack)]
Below == stack[Len(stack) - 1]

FloorDiv(a, b) == IF b > 0 THEN a \div b ELSE (-a) \div (-b)

(* Signs, and abs and sign among the functions; other functions of one     *)
(* number are inexact.                                                     *)
Unary(c) ==
    /\ at[c] = "evaluate" /\ Len(stack) >= 1
    /\ \/ Top.exact /\ \E n \in {Top.n, -Top.n, Magnitude(Top.n)} : Computes(c, 1, Number(n))
       \/ Top.exact /\ Computes(c, 1, Number(IF Top.n > 0 THEN 1 ELSE IF Top.n < 0 THEN -1 ELSE 0))
       \/ Computes(c, 1, Inexact)

(* The exact results of a binary operator or function. *)
Exact2(a, b) ==
    {a + b, a - b, a * b, a, b}
    \cup (IF b = 0 THEN {} ELSE {FloorDiv(a, b), a - b * FloorDiv(a, b)})

(* What is inexact makes the result so, except of maximum and minimum. *)
Binary(c) ==
    /\ at[c] = "evaluate" /\ Len(stack) >= 2
    /\ \/ /\ Top.exact /\ Below.exact
          /\ \E n \in Exact2(Below.n, Top.n) : Computes(c, 2, Number(n))
       \/ Top.exact # Below.exact /\ \E v \in {Top, Below} : Computes(c, 2, v)
       \/ Computes(c, 2, Inexact)

(* Mutant: the bits of the base are not reduced by one. *)
RefusesEarly(base, exponent) ==
    exponent > 0 /\ Magnitude(base) > 1 /\ BitLength(base) * exponent > MaxBits

(* The power is refused before it is computed. *)
Refuses(base, exponent) ==
    /\ exponent > 0 /\ Magnitude(base) > 1
    /\ (BitLength(base) - 1) * exponent > MaxBits

(* A negative exponent gives a float. *)
Power(c) ==
    /\ at[c] = "evaluate" /\ Len(stack) >= 2
    /\ IF ~Top.exact \/ ~Below.exact \/ Top.n < 0 THEN Computes(c, 2, Inexact)
       ELSE IF Refuses(Below.n, Top.n) THEN EvaluationEnds(c) /\ UNCHANGED widest
       ELSE Computes(c, 2, Number(ExactPower(Below.n, Top.n)))

(* A name or a form that is not allowed, a syntax error, a division by     *)
(* zero, a function out of its domain.                                     *)
Fails(c) ==
    /\ at[c] = "evaluate"
    /\ EvaluationEnds(c) /\ UNCHANGED widest

(* The one value that is left is the expression's. *)
Evaluates(c) ==
    /\ at[c] = "evaluate" /\ Len(stack) = 1
    /\ Ends(c, "result")
    /\ UNCHANGED mathVars

ArithmeticStep(c) ==
    \/ ExpressionSent(c) \/ Constant(c) \/ Unary(c) \/ Binary(c) \/ Power(c)
    \/ Fails(c) \/ Evaluates(c)

---------------------------------------------------------------------------
(* Properties *)

(* No value that is kept is wider than the cap, no integer wider than      *)
(* twice the cap is ever computed, whatever the operators and their order, *)
(* and a power is only refused if it is too wide (skill.py:88, "Refuse an  *)
(* integer power whose result would exceed the cap before computing it").  *)
IntegersStaySmall ==
    /\ widest <= 2 * MaxBits
    /\ \A i \in DOMAIN stack : stack[i].exact => Fits(stack[i].n)
    /\ Len(stack) >= 2 /\ Top.exact /\ Below.exact /\ Refuses(Below.n, Top.n)
         => ~Fits(ExactPower(Below.n, Top.n))
=============================================================================
