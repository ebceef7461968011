------------------------------- MODULE CoinSums -------------------------------
(***************************************************************************)
(* The total of a function with natural values, as the number of its       *)
(* coins: index i contributes the coins <<i, 1>>, ..., <<i, f[i]>>.  On a  *)
(* finite domain this is the usual sum (MCDoneBondRegistry compares it     *)
(* with SumFunction of the community modules).  Counting coins instead of  *)
(* folding lets the totals be reasoned about with the facts on the         *)
(* cardinality of finite sets, without an induction over the domain.       *)
(***************************************************************************)
EXTENDS Integers, FiniteSets

Coins(f) == UNION {{i} \X (1..f[i]) : i \in DOMAIN f}

Total(f) == Cardinality(Coins(f))
===============================================================================
