---------------------------- MODULE MCComparisons ----------------------------
(***************************************************************************)
(* Integers of four bits, and floats of three bits and an exponent: every  *)
(* integer up to Exact, every second one up to 2 * Exact, then every       *)
(* fourth. An integer becomes the nearest float, or of two that are as     *)
(* near the one whose last bit is zero.                                    *)
(***************************************************************************)
EXTENDS Comparisons

Nearest(n, gap) ==
    LET below == n \div gap
        rest == 2 * (n % gap)
    IN IF rest < gap \/ (rest = gap /\ below % 2 = 0) THEN gap * below ELSE gap * (below + 1)

MCRounded ==
    [n \in -Half .. 2 * Half |->
        CASE n \in -Exact .. Exact -> n
          [] n \notin -Exact .. Exact /\ n \in -2 * Exact .. 2 * Exact -> Nearest(n, 2)
          [] OTHER -> Nearest(n, 4)]
=============================================================================
