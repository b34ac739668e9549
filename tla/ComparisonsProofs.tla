------------------------- MODULE ComparisonsProofs --------------------------
(***************************************************************************)
(* What the comparison functions of Comparisons guarantee for integers of  *)
(* every width and floats of every precision.                              *)
(***************************************************************************)
EXTENDS Comparisons, FiniteSetTheorems, TLAPS

-----------------------------------------------------------------------------
(* The invariant: the results are those of the functions.                  *)

CalledInv ==
    /\ first \in Values
    /\ others \in UNION {[1..n -> Values] : n \in 1..MaxOthers}
    /\ results # NotCalled =>
        /\ results["eq"] = Eq(first, others)
        /\ Len(others) = 1 =>
            /\ results["ne"] = Ne(first, others[1])
            /\ results["lt"] = Lt(first, others[1])
            /\ results["le"] = Le(first, others[1])
            /\ results["gt"] = Gt(first, others[1])
            /\ results["ge"] = Ge(first, others[1])

\* Nothing has been called at first.
LEMMA InitInv == Init => CalledInv
BY DEF Init, CalledInv

\* A call keeps the arguments and yields what the functions yield.
LEMMA CallStep == CalledInv /\ [Next]_vars => CalledInv'
<1> SUFFICES ASSUME CalledInv, [Next]_vars PROVE CalledInv'
  OBVIOUS
<1>1. CASE Call
  <2>1. DOMAIN results = {"eq", "ne", "lt", "le", "gt", "ge"}
    BY <1>1 DEF Call, NotCalled
  <2> QED BY <1>1, <2>1 DEF Call, CalledInv
<1>2. CASE UNCHANGED vars
  BY <1>2 DEF vars, CalledInv
<1> QED BY <1>1, <1>2 DEF Next

\* CalledInv holds in every reachable state.
THEOREM Invariance == Spec => []CalledInv
BY InitInv, CallStep, PTL DEF Spec

-----------------------------------------------------------------------------
(* Numbers.                                                                *)

\* The numbers that can be ordered.
Proper == Numbers \ Of("float", {NaN})

IsFloat(f) ==
    \/ \E n \in -Half .. 2 * Half : f = 2 * Rounded[n]
    \/ f \in -Exact .. Exact /\ f % 2 = 1

\* What two numbers are compared as: floats, if one of them is a float.
Compared(x, y) == IF y.kind = "float" THEN FloatOf(x) ELSE ValueOf(x)

\* An integer that is not negative keeps its value when it is made unsigned.
LEMMA UnsignedKeeps ==
    ASSUME NEW n \in 0 .. 2 * Half - 1
    PROVE  Unsigned(n) = n
BY ConstantsAssumption DEF Unsigned

\* A number is an integer of one of the kinds or a float.
LEMMA NumberIs ==
    ASSUME NEW x \in Proper
    PROVE  \/ x.kind = "int" /\ x.value \in -Half .. Half - 1
           \/ x.kind = "uint" /\ x.value \in 0 .. 2 * Half - 1
           \/ x.kind = "float" /\ x.value # NaN /\ IsFloat(x.value)
BY DEF Proper, Numbers, Ints, Uints, Floats, Of, IsFloat, ToFloat

\* An integer becomes a float that lies on the same side of every float.
LEMMA RoundingKeepsSides ==
    ASSUME NEW n \in -Half .. 2 * Half, NEW f, IsFloat(f)
    PROVE  /\ f \in Int
           /\ Rounded[n] \in Int
           /\ 2 * n < f => 2 * Rounded[n] <= f
           /\ 2 * n > f => 2 * Rounded[n] >= f
           /\ 2 * n = f => 2 * Rounded[n] = f
<1>0. Half \in Int /\ Exact \in Int /\ 2 <= Exact /\ Exact <= Half
  BY ConstantsAssumption
<1>1. \A m \in -Half .. 2 * Half : Rounded[m] \in Int /\ Rounded[m] \in -Half .. 2 * Half
  BY <1>0, ConstantsAssumption
<1>2. CASE \E m \in -Half .. 2 * Half : f = 2 * Rounded[m]
  <2>1. PICK m \in -Half .. 2 * Half : f = 2 * Rounded[m]
    BY <1>2
  <2> DEFINE r == Rounded[m]
  <2>2. r \in -Half .. 2 * Half /\ Rounded[r] = r
    BY <1>0, ConstantsAssumption
  <2>3. /\ n <= r => Rounded[n] <= Rounded[r]
        /\ r <= n => Rounded[r] <= Rounded[n]
    BY <2>2, ConstantsAssumption
  <2> QED BY <1>0, <1>1, <2>1, <2>2, <2>3
<1>3. CASE f \in -Exact .. Exact /\ f % 2 = 1
  <2>1. CASE n \in -Exact .. Exact
    BY <1>0, <1>3, <2>1, ConstantsAssumption
  <2>2. CASE n > Exact
    <3>1. Rounded[Exact] = Exact /\ Rounded[Exact] <= Rounded[n]
      BY <1>0, <2>2, ConstantsAssumption
    <3> QED BY <1>0, <1>1, <1>3, <2>2, <3>1
  <2>3. CASE n < -Exact
    <3>1. Rounded[-Exact] = -Exact /\ Rounded[n] <= Rounded[-Exact]
      BY <1>0, <2>3, ConstantsAssumption
    <3> QED BY <1>0, <1>1, <1>3, <2>3, <3>1
  <2> QED BY <1>0, <2>1, <2>2, <2>3
<1> QED BY <1>2, <1>3 DEF IsFloat

\* Numbers are compared in the order of the integers.
LEMMA ComparedAs ==
    ASSUME NEW x \in Proper, NEW y \in Proper
    PROVE  /\ Compared(x, y) \in Int
           /\ NumberLess(x, y) <=> Compared(x, y) < Compared(y, x)
           /\ NumbersEqual(x, y) <=> Compared(x, y) = Compared(y, x)
<1>0. Half \in Int /\ Half > 0 /\ NaN \notin Int
  BY ConstantsAssumption
<1>1. \A n \in -Half .. 2 * Half : Rounded[n] \in Int
  BY <1>0, ConstantsAssumption
<1>2. \A z \in Proper : z.kind = "float" => z.value \in Int /\ z.value # NaN
  BY <1>0, <1>1, NumberIs DEF IsFloat
<1>3. \A z \in Proper : z.kind # "float" =>
        /\ z.kind \in {"int", "uint"}
        /\ z.value \in Int
        /\ 2 * Rounded[z.value] \in Int
        /\ z.kind = "uint" => z.value >= 0
        /\ z.kind = "uint" \/ z.value >= 0 => Unsigned(z.value) = z.value
  BY <1>0, <1>1, NumberIs, UnsignedKeeps
<1>4. CASE x.kind # "float" /\ y.kind # "float"
  <2>1. Compared(x, y) = 2 * x.value /\ Compared(y, x) = 2 * y.value
    BY <1>4 DEF Compared, ValueOf
  <2>2. /\ x.kind \in {"int", "uint"} /\ y.kind \in {"int", "uint"}
        /\ x.value \in Int /\ y.value \in Int
        /\ x.kind = "uint" \/ x.value >= 0 => Unsigned(x.value) = x.value
        /\ y.kind = "uint" \/ y.value >= 0 => Unsigned(y.value) = y.value
        /\ x.kind = "uint" => x.value >= 0
        /\ y.kind = "uint" => y.value >= 0
    BY <1>3, <1>4
  <2>3. NumberLess(x, y) <=> x.value < y.value
    BY <2>2 DEF NumberLess
  <2>4. NumbersEqual(x, y) <=> x.value = y.value
    BY <2>2 DEF NumbersEqual
  <2> QED BY <2>1, <2>2, <2>3, <2>4
<1>5. CASE x.kind = "float" \/ y.kind = "float"
  <2>1. /\ NumberLess(x, y) <=> FloatLess(FloatOf(x), FloatOf(y))
        /\ NumbersEqual(x, y) <=> FloatsEqual(FloatOf(x), FloatOf(y))
    BY <1>5 DEF NumberLess, NumbersEqual
  <2>2. Compared(x, y) = FloatOf(x) /\ Compared(y, x) = FloatOf(y)
    BY <1>5 DEF Compared, FloatOf, ValueOf
  <2>3. FloatOf(x) \in Int /\ FloatOf(y) \in Int
    BY <1>2, <1>3 DEF FloatOf, ToFloat
  <2> QED BY <1>0, <2>1, <2>2, <2>3 DEF FloatLess, FloatsEqual
<1> QED BY <1>4, <1>5

\* Their order as they are compared is that of their values, or they have become equal.
LEMMA ComparedByValue ==
    ASSUME NEW x \in Proper, NEW y \in Proper
    PROVE  /\ ValueOf(x) \in Int
           /\ ValueOf(x) < ValueOf(y) => Compared(x, y) <= Compared(y, x)
           /\ ValueOf(x) = ValueOf(y) => Compared(x, y) = Compared(y, x)
           /\ (\/ x.kind = y.kind
               \/ "float" \notin {x.kind, y.kind}
               \/ {ValueOf(x), ValueOf(y)} \subseteq -2 * Exact .. 2 * Exact)
              => Compared(x, y) = ValueOf(x) /\ Compared(y, x) = ValueOf(y)
<1>0. Half \in Int /\ Half > 0 /\ Exact \in Int /\ 2 <= Exact /\ Exact <= Half
  BY ConstantsAssumption
<1>1. \A z \in Proper : z.kind # "float" =>
        /\ z.value \in -Half .. 2 * Half
        /\ z.value \in -Exact .. Exact => Rounded[z.value] = z.value
  BY <1>0, NumberIs, ConstantsAssumption
<1>2. \A z \in Proper : z.kind = "float" => IsFloat(z.value)
  BY NumberIs
<1>3. CASE (x.kind = "float") = (y.kind = "float")
  <2>1. Compared(x, y) = ValueOf(x) /\ Compared(y, x) = ValueOf(y)
    BY <1>3 DEF Compared, FloatOf, ValueOf
  <2>2. ValueOf(x) \in Int /\ ValueOf(y) \in Int
    <3>1. 0 \in -Half .. 2 * Half
      BY <1>0
    <3>2. \A z \in Proper : z.kind = "float" => z.value \in Int
      BY <1>2, <3>1, RoundingKeepsSides
    <3>3. x.value \in Int /\ y.value \in Int
      BY <1>0, <1>1, <3>2
    <3> QED BY <3>3 DEF ValueOf
  <2> QED BY <2>1, <2>2
<1>4. CASE x.kind = "float" /\ y.kind # "float"
  <2>1. /\ Compared(x, y) = x.value /\ Compared(y, x) = 2 * Rounded[y.value]
        /\ ValueOf(x) = x.value /\ ValueOf(y) = 2 * y.value
    BY <1>4 DEF Compared, FloatOf, ValueOf, ToFloat
  <2>2. y.value \in -Half .. 2 * Half /\ IsFloat(x.value)
    BY <1>1, <1>2, <1>4
  <2>3. 2 * y.value \in -2 * Exact .. 2 * Exact => Rounded[y.value] = y.value
    BY <1>0, <1>1, <1>4
  <2> QED BY <1>0, <1>4, <2>1, <2>2, <2>3, RoundingKeepsSides
<1>5. CASE x.kind # "float" /\ y.kind = "float"
  <2>1. /\ Compared(y, x) = y.value /\ Compared(x, y) = 2 * Rounded[x.value]
        /\ ValueOf(y) = y.value /\ ValueOf(x) = 2 * x.value
    BY <1>5 DEF Compared, FloatOf, ValueOf, ToFloat
  <2>2. x.value \in -Half .. 2 * Half /\ IsFloat(y.value)
    BY <1>1, <1>2, <1>5
  <2>3. 2 * x.value \in -2 * Exact .. 2 * Exact => Rounded[x.value] = x.value
    BY <1>0, <1>1, <1>5
  <2> QED BY <1>0, <1>5, <2>1, <2>2, <2>3, RoundingKeepsSides
<1> QED BY <1>3, <1>4, <1>5

\* The order of numbers does not depend on their kinds: lt has no cycles, although
\* integers that become one float are equal to it and not to each other.
THEOREM LessIsTransitive ==
    ASSUME NEW x \in Numbers, NEW y \in Numbers, NEW z \in Numbers,
           NumberLess(x, y), NumberLess(y, z)
    PROVE  NumberLess(x, z)
<1>1. x \in Proper /\ y \in Proper /\ z \in Proper
  <2>1. \A n \in Numbers \ Proper : n.kind = "float" /\ n.value = NaN
    BY DEF Proper, Of
  <2>2. \A m, n \in Numbers : NumberLess(m, n) => m \in Proper /\ n \in Proper
    BY <2>1 DEF NumberLess, FloatLess, FloatOf
  <2> QED BY <2>2
<1>2. /\ Compared(x, y) < Compared(y, x) /\ Compared(y, z) < Compared(z, y)
      /\ NumberLess(x, z) <=> Compared(x, z) < Compared(z, x)
  BY <1>1, ComparedAs
<1>3. \A n \in Proper :
        /\ ValueOf(n) \in Int
        /\ n.kind = "float" => FloatOf(n) = ValueOf(n)
        /\ n.kind # "float" => FloatOf(n) \in Int
  <2>1. \A n \in Proper : ValueOf(n) \in Int
    BY ComparedByValue
  <2>2. \A n \in Proper : n.kind # "float" => FloatOf(n) \in Int
    BY ConstantsAssumption, NumberIs DEF FloatOf, ToFloat
  <2> QED BY <2>1, <2>2 DEF ValueOf, FloatOf
<1>4. \A m, n \in Proper :
        m.kind # "float" /\ n.kind # "float" /\ ValueOf(m) <= ValueOf(n)
          => FloatOf(m) <= FloatOf(n)
  <2> SUFFICES ASSUME NEW m \in Proper, NEW n \in Proper,
                      m.kind # "float", n.kind # "float", ValueOf(m) <= ValueOf(n)
               PROVE  FloatOf(m) <= FloatOf(n)
    OBVIOUS
  <2>1. Half \in Int /\ Half > 0
    BY ConstantsAssumption
  <2>2. m.value \in -Half .. 2 * Half /\ n.value \in -Half .. 2 * Half
    BY <2>1, NumberIs
  <2>3. m.value <= n.value
    BY <2>1, <2>2 DEF ValueOf
  <2>4. /\ Rounded[m.value] \in Int /\ Rounded[n.value] \in Int
        /\ Rounded[m.value] <= Rounded[n.value]
    BY <2>1, <2>2, <2>3, ConstantsAssumption
  <2> QED BY <2>4 DEF FloatOf, ToFloat
<1>5. /\ ValueOf(x) \in Int /\ ValueOf(y) \in Int /\ ValueOf(z) \in Int
      /\ FloatOf(x) \in Int /\ FloatOf(y) \in Int /\ FloatOf(z) \in Int
  <2>1. \A n \in Proper : FloatOf(n) \in Int
    BY <1>3
  <2> QED BY <1>1, <1>3, <2>1
<1>6. /\ Compared(x, z) = IF z.kind = "float" THEN FloatOf(x) ELSE ValueOf(x)
      /\ Compared(z, x) = IF x.kind = "float" THEN FloatOf(z) ELSE ValueOf(z)
  BY DEF Compared
<1>7. CASE y.kind = "float"
  <2>1. FloatOf(x) < FloatOf(z)
    <3>1. FloatOf(x) < ValueOf(y) /\ ValueOf(y) < FloatOf(z)
      <4>1. Compared(x, y) = FloatOf(x) /\ Compared(z, y) = FloatOf(z)
        BY <1>7 DEF Compared
      <4>2. Compared(y, x) = ValueOf(y) /\ Compared(y, z) = ValueOf(y)
        BY <1>1, <1>3, <1>7 DEF Compared
      <4> QED BY <1>2, <4>1, <4>2
    <3> QED BY <1>5, <3>1
  <2>2. CASE x.kind # "float" /\ z.kind # "float"
    <3>1. ~(ValueOf(z) <= ValueOf(x))
      BY <1>1, <1>4, <1>5, <2>1, <2>2
    <3> QED BY <1>2, <1>5, <1>6, <2>2, <3>1
  <2>3. CASE x.kind = "float" \/ z.kind = "float"
    <3>1. Compared(x, z) = FloatOf(x) /\ Compared(z, x) = FloatOf(z)
      BY <1>1, <1>3, <1>6, <2>3
    <3> QED BY <1>2, <2>1, <3>1
  <2> QED BY <2>2, <2>3
<1>8. CASE y.kind # "float"
  <2>1. /\ ValueOf(x) < IF x.kind = "float" THEN FloatOf(y) ELSE ValueOf(y)
        /\ (IF z.kind = "float" THEN FloatOf(y) ELSE ValueOf(y)) < ValueOf(z)
    BY <1>2, <1>8 DEF Compared
  <2>2. CASE x.kind # "float" /\ z.kind # "float"
    BY <1>2, <1>5, <1>6, <2>1, <2>2
  <2>3. CASE x.kind = "float" /\ z.kind # "float"
    <3>1. FloatOf(y) <= FloatOf(z)
      <4>1. ValueOf(y) <= ValueOf(z)
        BY <1>5, <2>1, <2>3
      <4> QED BY <1>1, <1>4, <1>8, <2>3, <4>1
    <3> QED BY <1>2, <1>5, <1>6, <2>1, <2>3, <3>1
  <2>4. CASE x.kind # "float" /\ z.kind = "float"
    <3>1. FloatOf(x) <= FloatOf(y)
      <4>1. ValueOf(x) <= ValueOf(y)
        BY <1>5, <2>1, <2>4
      <4> QED BY <1>1, <1>4, <1>8, <2>4, <4>1
    <3> QED BY <1>2, <1>5, <1>6, <2>1, <2>4, <3>1
  <2>5. CASE x.kind = "float" /\ z.kind = "float"
    <3>1. FloatOf(x) = ValueOf(x) /\ FloatOf(z) = ValueOf(z)
      BY <1>1, <1>3, <2>5
    <3> QED BY <1>2, <1>5, <1>6, <2>1, <2>5, <3>1
  <2> QED BY <2>2, <2>3, <2>4, <2>5
<1> QED BY <1>7, <1>8

-----------------------------------------------------------------------------
(* The functions.                                                          *)

\* Two values that can be ordered, and their order.
Pair(x, y) == {x, y} \subseteq Proper \/ {x, y} \subseteq Strings

Less(x, y) == IF x \in Proper THEN NumberLess(x, y) ELSE x.value < y.value

Same(x, y) == IF x \in Proper THEN NumbersEqual(x, y) ELSE x.value = y.value

\* Only numbers, and nothing else, are in Numbers, and so on.
LEMMA KindsOf ==
    /\ \A x \in Numbers : x.kind \in {"int", "uint", "float"}
    /\ \A x \in Strings : x.kind = "string" /\ x.value \in Int
    /\ \A x, y \in Strings : x.value = y.value => x = y
BY DEF Numbers, Ints, Uints, Floats, Strings, Of

\* Exactly one of two values is less, or both are the same.
LEMMA Trichotomy ==
    ASSUME NEW x, NEW y, Pair(x, y)
    PROVE  /\ Pair(y, x)
           /\ Less(x, y) => ~Same(x, y) /\ ~Less(y, x)
           /\ Same(x, y) => ~Less(y, x)
           /\ Less(x, y) \/ Same(x, y) \/ Less(y, x)
           /\ Same(x, y) <=> Same(y, x)
<1>1. CASE {x, y} \subseteq Proper
  <2>1. /\ Compared(x, y) \in Int /\ Compared(y, x) \in Int
        /\ Less(x, y) <=> Compared(x, y) < Compared(y, x)
        /\ Less(y, x) <=> Compared(y, x) < Compared(x, y)
        /\ Same(x, y) <=> Compared(x, y) = Compared(y, x)
        /\ Same(y, x) <=> Compared(y, x) = Compared(x, y)
    BY <1>1, ComparedAs DEF Less, Same
  <2> QED BY <1>1, <2>1 DEF Pair
<1>2. CASE {x, y} \subseteq Strings
  <2>1. x \notin Proper /\ y \notin Proper /\ x.value \in Int /\ y.value \in Int
    BY <1>2, KindsOf DEF Proper
  <2> QED BY <1>2, <2>1 DEF Pair, Less, Same
<1> QED BY <1>1, <1>2 DEF Pair

\* eq of one argument takes its only step.
LEMMA EqOfOne ==
    ASSUME NEW x, NEW y
    PROVE  /\ EqStep(x, y) \in {"true", "false", "stop", "error"}
           /\ Eq(x, <<y>>) = IF x.kind = "pointer" THEN "error"
                             ELSE IF EqStep(x, y) = "stop" THEN "false"
                             ELSE EqStep(x, y)
<1>1. EqStep(x, y) \in {"true", "false", "stop", "error"}
  BY DEF EqStep, Truth
<1>2. DOMAIN <<y>> = {1} /\ <<y>>[1] = y /\ <<y>> # <<>>
  OBVIOUS
<1> DEFINE decided == {i \in DOMAIN <<y>> : EqStep(x, <<y>>[i]) # "false"}
<1>3. CASE EqStep(x, y) = "false"
  <2>1. decided = {}
    BY <1>2, <1>3
  <2> QED BY <1>1, <1>2, <1>3, <2>1 DEF Eq
<1>4. CASE EqStep(x, y) # "false"
  <2>1. decided = {1}
    BY <1>2, <1>4
  <2>2. Min(decided) = 1
    BY <2>1 DEF Min
  <2> QED BY <1>1, <1>2, <2>1, <2>2 DEF Eq
<1> QED BY <1>1, <1>3, <1>4

\* What eq says of two values that can be ordered.
LEMMA EqOfPair ==
    ASSUME NEW x, NEW y, Pair(x, y)
    PROVE  Eq(x, <<y>>) = Truth(Same(x, y))
<1>1. x.kind # "pointer" /\ y.kind # "pointer"
  BY KindsOf DEF Pair, Proper
<1>2. EqStep(x, y) = Truth(Same(x, y))
  <2>1. CASE {x, y} \subseteq Proper
    BY <1>1, <2>1 DEF EqStep, Same, Proper
  <2>2. CASE {x, y} \subseteq Strings
    <3>1. /\ x \notin Numbers /\ x \notin Proper
          /\ x.kind = y.kind /\ x.kind # "object"
          /\ x.value = y.value <=> x = y
      BY <2>2, KindsOf DEF Proper
    <3> QED BY <1>1, <3>1 DEF EqStep, Same, Truth
  <2> QED BY <2>1, <2>2 DEF Pair
<1> QED BY <1>1, <1>2, EqOfOne DEF Truth

\* What the others say of them.
LEMMA OrderOfPair ==
    ASSUME NEW x, NEW y, Pair(x, y)
    PROVE  /\ Ne(x, y) = Truth(~Same(x, y))
           /\ Lt(x, y) = Truth(Less(x, y))
           /\ Le(x, y) = Truth(Less(x, y) \/ Same(x, y))
           /\ Gt(x, y) = Truth(~Less(x, y) /\ ~Same(x, y))
           /\ Ge(x, y) = Truth(~Less(x, y))
<1>1. Eq(x, <<y>>) = Truth(Same(x, y))
  BY EqOfPair
<1>2. x.kind \notin {"nil", "object", "pointer"} /\ y.kind \notin {"nil", "object", "pointer"}
  BY KindsOf DEF Pair, Proper
<1>3. LtReflect(x, y) = Truth(Less(x, y))
  <2>1. CASE {x, y} \subseteq Proper
    <3>1. ~(x.kind = "string" /\ y.kind = "string")
      BY <2>1, KindsOf DEF Proper
    <3> QED BY <2>1, <3>1 DEF LtReflect, Less, Proper
  <2>2. CASE {x, y} \subseteq Strings
    <3>1. x \notin Numbers /\ x \notin Proper /\ x.kind = "string" /\ y.kind = "string"
      BY <2>2, KindsOf DEF Proper
    <3> QED BY <3>1 DEF LtReflect, Less
  <2> QED BY <2>1, <2>2 DEF Pair
<1>4. \A ordered : Ordering(x, y, ordered) = ordered
  BY <1>2 DEF Ordering, Unordered
<1>5. Ne(x, y) = Truth(~Same(x, y))
  BY <1>1 DEF Ne, Negation, Truth
<1>6. Lt(x, y) = Truth(Less(x, y))
  BY <1>3, <1>4 DEF Lt
<1>7. Gt(x, y) = Truth(~Less(x, y) /\ ~Same(x, y))
  BY <1>1, <1>3, <1>4 DEF Gt, Negation, Truth
<1>8. Le(x, y) = Truth(Less(x, y) \/ Same(x, y))
  BY <1>1, <1>6 DEF Le, Truth
<1>9. Ge(x, y) = Truth(~Less(x, y))
  <2>1. Less(x, y) => ~Same(x, y)
    BY Trichotomy
  <2> QED BY <1>1, <1>7, <2>1 DEF Ge, Truth
<1> QED BY <1>5, <1>6, <1>7, <1>8, <1>9

\* eq fails for values without a kind, and only for those.
LEMMA EqFails ==
    ASSUME NEW x, NEW y
    PROVE  Eq(x, <<y>>) = "error" <=> "pointer" \in {x.kind, y.kind}
<1>1. EqStep(x, y) = "error" <=> y.kind = "pointer"
  BY DEF EqStep, Truth
<1> QED BY <1>1, EqOfOne

\* Kinds that have an order can also be compared for equality.
LEMMA OrderedHaveKinds ==
    ASSUME NEW x, NEW y, LtReflect(x, y) # "error"
    PROVE  "pointer" \notin {x.kind, y.kind}
BY KindsOf DEF LtReflect

\* The functions and their opposites fail for the same values.
LEMMA OppositesFail ==
    ASSUME NEW x, NEW y
    PROVE  /\ Lt(x, y) = "error" <=> Gt(x, y) = "error"
           /\ Le(x, y) = "error" <=> Ge(x, y) = "error"
<1>1. LtReflect(x, y) \in {"true", "false", "error"}
  BY DEF LtReflect, Truth
<1>2. Eq(x, <<y>>) \in {"true", "false", "error"}
  BY EqOfOne
<1>3. Eq(x, <<y>>) = "error" <=> "pointer" \in {x.kind, y.kind}
  BY EqFails
<1>4. LtReflect(x, y) # "error" => "pointer" \notin {x.kind, y.kind}
  BY OrderedHaveKinds
<1>5. Lt(x, y) = "error" <=> Gt(x, y) = "error"
  BY <1>1, <1>2, <1>3, <1>4 DEF Lt, Gt, Ordering, Negation, Truth
<1>6. Le(x, y) = "error" <=> Ge(x, y) = "error"
  <2>1. CASE "pointer" \in {x.kind, y.kind}
    <3>1. Lt(x, y) \in {"false", "error"} /\ Gt(x, y) \in {"false", "error"}
      BY <2>1 DEF Lt, Gt, Ordering
    <3> QED BY <1>3, <2>1, <3>1 DEF Le, Ge
  <2>2. CASE "pointer" \notin {x.kind, y.kind}
    BY <1>3, <1>5, <2>2 DEF Le, Ge
  <2> QED BY <2>1, <2>2
<1> QED BY <1>5, <1>6

-----------------------------------------------------------------------------
(* The theorems.                                                           *)

\* A call with two values.
LEMMA CallOfTwo ==
    ASSUME CalledInv, CalledWithTwo
    PROVE  /\ first \in Values /\ others[1] \in Values
           /\ others = <<others[1]>>
           /\ results["eq"] = Eq(first, <<others[1]>>)
           /\ results["ne"] = Ne(first, others[1])
           /\ results["lt"] = Lt(first, others[1])
           /\ results["le"] = Le(first, others[1])
           /\ results["gt"] = Gt(first, others[1])
           /\ results["ge"] = Ge(first, others[1])
<1>1. PICK n \in 1..MaxOthers : others \in [1..n -> Values]
  BY DEF CalledInv
<1>2. n \in Nat /\ n = 1
  <2>1. n \in Nat /\ others \in Seq(Values) /\ Len(others) = n
    BY <1>1, ConstantsAssumption
  <2> QED BY <2>1 DEF CalledWithTwo
<1>3. others[1] \in Values /\ others = <<others[1]>>
  BY <1>1, <1>2
<1> QED BY <1>3 DEF CalledInv, CalledWithTwo

\* Numbers are compared as the numbers they are, whatever their kinds, widths and
\* precision.
THEOREM NumbersByValue == Spec => []NumbersCompareByValue
<1>1. CalledInv => NumbersCompareByValue
  <2> SUFFICES ASSUME CalledInv, CalledWithTwo,
                      {first, others[1]} \subseteq Numbers \ Of("float", {NaN})
               PROVE  NumbersCompareByValue
    BY DEF NumbersCompareByValue
  <2> DEFINE x == first
             y == others[1]
             a == Compared(x, y)
             b == Compared(y, x)
  <2>1. x \in Proper /\ y \in Proper /\ Pair(x, y)
    BY DEF Proper, Pair
  <2>2. /\ a \in Int /\ b \in Int
        /\ Less(x, y) <=> a < b
        /\ Same(x, y) <=> a = b
    BY <2>1, ComparedAs DEF Less, Same
  <2>3. /\ ValueOf(x) \in Int /\ ValueOf(y) \in Int
        /\ ValueOf(x) < ValueOf(y) => a <= b
        /\ ValueOf(x) = ValueOf(y) => a = b
        /\ ValueOf(y) < ValueOf(x) => b <= a
    BY <2>1, ComparedByValue
  <2>4. (\/ x.kind = y.kind
         \/ "float" \notin {x.kind, y.kind}
         \/ {ValueOf(x), ValueOf(y)} \subseteq -2 * Exact .. 2 * Exact)
        => a = ValueOf(x) /\ b = ValueOf(y)
    BY <2>1, ComparedByValue
  <2>5. /\ results["eq"] = Truth(a = b)
        /\ results["lt"] = Truth(a < b)
        /\ results["le"] = Truth(a <= b)
        /\ results["gt"] = Truth(b < a)
        /\ results["ge"] = Truth(b <= a)
    BY <2>1, <2>2, CallOfTwo, EqOfPair, OrderOfPair DEF Truth
  <2> HIDE DEF a, b
  <2> QED BY <2>2, <2>3, <2>4, <2>5 DEF NumbersCompareByValue, Truth
<1> QED BY <1>1, Invariance, PTL

\* Of two numbers or strings exactly one is less, or both are equal, for every function
\* and with the arguments swapped.
THEOREM OrderTotal == Spec => []OrderIsTotal
<1>1. CalledInv => OrderIsTotal
  <2> SUFFICES ASSUME CalledInv, CalledWithTwo,
                      \/ {first, others[1]} \subseteq Numbers \ Of("float", {NaN})
                      \/ {first, others[1]} \subseteq Strings
               PROVE  OrderIsTotal
    BY DEF OrderIsTotal
  <2> DEFINE x == first
             y == others[1]
             holding == {f \in {"lt", "eq", "gt"} : results[f] = "true"}
  <2>1. Pair(x, y)
    BY DEF Proper, Pair
  <2>2. /\ Less(x, y) => ~Same(x, y) /\ ~Less(y, x)
        /\ Same(x, y) => ~Less(y, x)
        /\ Less(x, y) \/ Same(x, y) \/ Less(y, x)
        /\ Same(x, y) <=> Same(y, x)
        /\ Pair(y, x)
    BY <2>1, Trichotomy
  <2>3. /\ results["eq"] = Truth(Same(x, y))
        /\ results["ne"] = Truth(~Same(x, y))
        /\ results["lt"] = Truth(Less(x, y))
        /\ results["le"] = Truth(Less(x, y) \/ Same(x, y))
        /\ results["gt"] = Truth(~Less(x, y) /\ ~Same(x, y))
        /\ results["ge"] = Truth(~Less(x, y))
    BY <2>1, CallOfTwo, EqOfPair, OrderOfPair
  <2>4. /\ Gt(y, x) = Truth(~Less(y, x) /\ ~Same(y, x))
        /\ Ge(y, x) = Truth(~Less(y, x))
        /\ Eq(y, <<x>>) = Truth(Same(y, x))
    BY <2>2, EqOfPair, OrderOfPair
  <2>5. Cardinality(holding) = 1
    <3>1. holding = {"lt"} \/ holding = {"eq"} \/ holding = {"gt"}
      BY <2>2, <2>3 DEF Truth
    <3> QED BY <3>1, FS_Singleton
  <2>6. /\ results["le"] = Negation(results["gt"])
        /\ results["ge"] = Negation(results["lt"])
        /\ results["ne"] = Negation(results["eq"])
    BY <2>2, <2>3 DEF Negation, Truth
  <2>7. /\ Gt(y, x) = results["lt"]
        /\ Ge(y, x) = results["le"]
        /\ Eq(y, <<x>>) = results["eq"]
    BY <2>2, <2>3, <2>4 DEF Truth
  <2> QED BY <2>5, <2>6, <2>7 DEF OrderIsTotal
<1> QED BY <1>1, Invariance, PTL

\* An order fails exactly when its opposite does.
THEOREM OppositesFailAlike == Spec => []OppositesFailTogether
<1>1. CalledInv => OppositesFailTogether
  BY CallOfTwo, OppositesFail DEF OppositesFailTogether
<1> QED BY <1>1, Invariance, PTL
=============================================================================
