------------------------------- MODULE Totals -------------------------------
(***************************************************************************)
(* The sum of a function with natural-number values, written without       *)
(* recursion: f[x] counts tokens, Units(f) is the set of those tokens, one *)
(* pair per unit, and Total(f) counts them.  Written this way, what an     *)
(* update of f does to its total follows from the theorems on the          *)
(* cardinality of finite sets, so invariants about totals can be proved    *)
(* for any set of owners.                                                  *)
(***************************************************************************)
EXTENDS Naturals, FiniteSets

UnitsOf(x, n) == {x} \X (1 .. n)

Units(f) == UNION {UnitsOf(x, f[x]) : x \in DOMAIN f}

Total(f) == Cardinality(Units(f))
=============================================================================
