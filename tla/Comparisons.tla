----------------------------- MODULE Comparisons -----------------------------
(***************************************************************************)
(* The comparison functions eq, ne, lt, le, gt and ge that templates and   *)
(* conditions call: template_override.go, which unlike text/template       *)
(* compares numbers of different kinds, and anything with nil.             *)
(*                                                                         *)
(* A value has a kind and what its kind compares: numbers in halves or     *)
(* whole, strings in their order, the rest by their identities. What float *)
(* an integer becomes is given by Rounded: the integer itself up to Exact, *)
(* and one of the ever fewer floats beyond. There is one NaN.              *)
(***************************************************************************)
EXTENDS Integers, Sequences, FiniteSetsExt

CONSTANTS
    Half,       \* signed integers go from -Half to Half - 1, unsigned ones to 2 * Half - 1
    Exact,      \* every integer up to this one is a float
    Rounded,    \* the float that each integer becomes
    NaN,
    MaxOthers   \* bound on the arguments of eq after the first one

\* Rounding keeps the order, and a float is left as it is: with 64 bits Half is 2^63,
\* Exact is 2^53, and the largest unsigned integer becomes 2^64.
ASSUME ConstantsAssumption ==
    /\ Half \in Nat \ {0}
    /\ Exact \in 2 .. Half
    /\ NaN \notin Int
    /\ MaxOthers \in Nat \ {0}
    /\ Rounded \in [-Half .. 2 * Half -> -Half .. 2 * Half]
    /\ \A n \in -Exact .. Exact : Rounded[n] = n
    /\ \A n \in -Half .. 2 * Half : Rounded[Rounded[n]] = Rounded[n]
    /\ \A m, n \in -Half .. 2 * Half : m <= n => Rounded[m] <= Rounded[n]

Of(kind, values) == [kind : {kind}, value : values]

\* float64(n), in halves.
ToFloat(n) == 2 * Rounded[n]

Ints == Of("int", -Half .. Half - 1)
Uints == Of("uint", 0 .. 2 * Half - 1)
\* Floats hold halves, too, up to Exact of them.
Floats ==
    Of("float", {ToFloat(n) : n \in -Half .. 2 * Half}
                    \cup {f \in -Exact .. Exact : f % 2 = 1} \cup {NaN})
Numbers == Ints \cup Uints \cup Floats
Strings == Of("string", 1..2)
\* Pointers and functions have no kind that can be compared.
Values ==
    Numbers \cup Strings \cup Of("bool", 0..1) \cup Of("complex", 1..2)
        \cup Of("object", 1..2) \cup Of("nil", {0}) \cup Of("pointer", {0})

Truth(condition) == IF condition THEN "true" ELSE "false"
-----------------------------------------------------------------------------
(* Two numbers, converted as the code does.                                *)

Unsigned(n) == n % (2 * Half)

\* Converts the numbers x and y of different kinds, one of which is a float.
FloatOf(x) == IF x.kind = "float" THEN x.value ELSE ToFloat(x.value)

FloatsEqual(f, g) == f # NaN /\ g # NaN /\ f = g
FloatLess(f, g) == f # NaN /\ g # NaN /\ f < g

NumbersEqual(x, y) ==
    CASE x.kind = "int" /\ y.kind = "uint" -> x.value >= 0 /\ Unsigned(x.value) = y.value
      [] x.kind = "uint" /\ y.kind = "int" -> y.value >= 0 /\ x.value = Unsigned(y.value)
      [] x.kind = y.kind /\ x.kind # "float" -> x.value = y.value
      [] OTHER -> FloatsEqual(FloatOf(x), FloatOf(y))

\* Variant: for an unsigned x, the sign of y is not looked at.
NumberLess_Unsigned(x, y) ==
    CASE x.kind = "int" /\ y.kind = "uint" -> x.value < 0 \/ Unsigned(x.value) < y.value
      [] x.kind = "uint" /\ y.kind = "int" -> x.value < Unsigned(y.value)
      [] x.kind = y.kind /\ x.kind # "float" -> x.value < y.value
      [] OTHER -> FloatLess(FloatOf(x), FloatOf(y))

NumberLess(x, y) ==
    CASE x.kind = "int" /\ y.kind = "uint" -> x.value < 0 \/ Unsigned(x.value) < y.value
      [] x.kind = "uint" /\ y.kind = "int" -> y.value >= 0 /\ x.value < Unsigned(y.value)
      [] x.kind = y.kind /\ x.kind # "float" -> x.value < y.value
      [] OTHER -> FloatLess(FloatOf(x), FloatOf(y))
-----------------------------------------------------------------------------
(* The functions. Each yields "true", "false" or "error".                  *)

\* What tplEq makes of one of its arguments y: "false" lets it go on to the next
\* one, "stop" ends it with false.
EqStep(x, y) ==
    IF y.kind = "pointer" THEN "error"
    ELSE IF {x, y} \subseteq Numbers THEN Truth(NumbersEqual(x, y))
    ELSE IF x = y THEN "true"
    ELSE IF x.kind = y.kind /\ x.kind # "object" THEN "false"
    ELSE "stop"

Eq(x, ys) ==
    LET decided == {i \in DOMAIN ys : EqStep(x, ys[i]) # "false"} IN
    IF x.kind = "pointer" \/ ys = <<>> THEN "error"
    ELSE IF decided = {} \/ EqStep(x, ys[Min(decided)]) = "stop" THEN "false"
    ELSE EqStep(x, ys[Min(decided)])

Negation(truth) == IF truth = "error" THEN truth ELSE Truth(truth = "false")

Ne(x, y) == Negation(Eq(x, <<y>>))

\* ltReflect, of kinds that are neither nil nor objects.
LtReflect(x, y) ==
    CASE {x, y} \subseteq Numbers -> Truth(NumberLess(x, y))
      [] x.kind = "string" /\ y.kind = "string" -> Truth(x.value < y.value)
      [] OTHER -> "error"

Unordered == {"nil", "object"}

\* tplLT and tplGT look at x before y.
Ordering(x, y, ordered) ==
    IF x.kind \in Unordered \/ (x.kind # "pointer" /\ y.kind \in Unordered) THEN "false"
    ELSE IF "pointer" \in {x.kind, y.kind} THEN "error"
    ELSE ordered

Lt(x, y) == Ordering(x, y, LtReflect(x, y))

Le(x, y) == IF Lt(x, y) # "false" THEN Lt(x, y) ELSE Eq(x, <<y>>)

\* Variant: greater is taken for not less.
Gt_NotLess(x, y) == Ordering(x, y, Negation(LtReflect(x, y)))

\* Variant: the check of the kinds of tplLT was copied, but for one argument only.
Gt_OneKind(x, y) == Ordering(x, x, CASE LtReflect(x, y) = "error" -> "error"
                     [] LtReflect(x, y) = "true" -> "false"
                     [] OTHER -> Negation(Eq(x, <<y>>)))

Gt(x, y) ==
    Ordering(x, y, CASE LtReflect(x, y) = "error" -> "error"
                     [] LtReflect(x, y) = "true" -> "false"
                     [] OTHER -> Negation(Eq(x, <<y>>)))

Ge(x, y) == IF Gt(x, y) # "false" THEN Gt(x, y) ELSE Eq(x, <<y>>)
-----------------------------------------------------------------------------
(* A template calls a function with a value and one or more others.        *)

VARIABLES
    first,      \* the first argument
    others,     \* the others
    results     \* the result of each function, once it has been called

vars == <<first, others, results>>

NotCalled == [f \in {"eq", "ne", "lt", "le", "gt", "ge"} |-> "none"]

Init ==
    /\ first \in Values
    /\ others \in UNION {[1..n -> Values] : n \in 1..MaxOthers}
    /\ results = NotCalled

\* A condition that calls each of the functions that take that many arguments.
Call ==
    /\ results = NotCalled
    /\ results' = [results EXCEPT
            !["eq"] = Eq(first, others),
            !["ne"] = IF Len(others) = 1 THEN Ne(first, others[1]) ELSE @,
            !["lt"] = IF Len(others) = 1 THEN Lt(first, others[1]) ELSE @,
            !["le"] = IF Len(others) = 1 THEN Le(first, others[1]) ELSE @,
            !["gt"] = IF Len(others) = 1 THEN Gt(first, others[1]) ELSE @,
            !["ge"] = IF Len(others) = 1 THEN Ge(first, others[1]) ELSE @]
    /\ UNCHANGED <<first, others>>

Next == Call

Spec == Init /\ [][Next]_vars
-----------------------------------------------------------------------------
(* Properties.                                                             *)

\* The functions have been called with two values.
CalledWithTwo == results # NotCalled /\ Len(others) = 1

ValueOf(x) == IF x.kind = "float" THEN x.value ELSE 2 * x.value

\* Numbers of any kind are compared as the numbers they are: neither the sign nor
\* the width of an integer matters. Where floats have no place for an integer,
\* two that are near may be equal, but none changes its place.
NumbersCompareByValue ==
    (CalledWithTwo /\ {first, others[1]} \subseteq Numbers \ Of("float", {NaN})) =>
        LET x == ValueOf(first) y == ValueOf(others[1]) IN
        /\ x < y => results["le"] = "true" /\ results["gt"] = "false"
        /\ x = y => results["ge"] = "true" /\ results["lt"] = "false"
        /\ x > y => results["ge"] = "true" /\ results["lt"] = "false"
        /\ (\/ first.kind = others[1].kind
            \/ "float" \notin {first.kind, others[1].kind}
            \/ {x, y} \subseteq -2 * Exact .. 2 * Exact)
            => /\ results["eq"] = Truth(x = y)
               /\ results["lt"] = Truth(x < y)
               /\ results["gt"] = Truth(x > y)

\* Of two numbers or strings exactly one is less or both are equal, the other
\* functions agree with that, and so does a call with the arguments swapped.
OrderIsTotal ==
    (/\ CalledWithTwo
     /\ \/ {first, others[1]} \subseteq Numbers \ Of("float", {NaN})
        \/ {first, others[1]} \subseteq Strings) =>
        LET y == others[1] IN
        /\ Cardinality({f \in {"lt", "eq", "gt"} : results[f] = "true"}) = 1
        /\ results["le"] = Negation(results["gt"])
        /\ results["ge"] = Negation(results["lt"])
        /\ results["ne"] = Negation(results["eq"])
        /\ Gt(y, first) = results["lt"]
        /\ Ge(y, first) = results["le"]
        /\ Eq(y, <<first>>) = results["eq"]

\* An order is an error for a function and its opposite, or for neither: gt and ge are
\* made of the checks of kinds that lt and le have, and of eq, which has its own.
OppositesFailTogether ==
    CalledWithTwo =>
        /\ results["lt"] = "error" <=> results["gt"] = "error"
        /\ results["le"] = "error" <=> results["ge"] = "error"
-----------------------------------------------------------------------------
(* What a comment says and the code does not do.                           *)

\* template_override.go: eq "evaluates the comparison a == b || a == c || ...".
EqIsAnyEqual ==
    (results # NotCalled /\ results["eq"] # "error") =>
        (results["eq"] = "true" <=>
            \E i \in DOMAIN others : Eq(first, <<others[i]>>) = "true")
=============================================================================
