---------------------------- MODULE CreditPools ----------------------------
(***************************************************************************)
(* What the ecocredit core promises about credits, with no rows, strings, *)
(* supply aggregates or entries (spec.md sections 3 and 8).                *)
(*                                                                         *)
(* Every holder has three disjoint pools of each batch: tradable, retired  *)
(* and escrowed; baskets hold a fixed amount of each batch, and a batch    *)
(* has a cancelled pool.  One step is one accepted operation of one        *)
(* signer h (a Send, Retire or Cancel of any number of entries):           *)
(*   - the credits of each batch are conserved across all pools;           *)
(*   - only h's tradable credits can decrease;                             *)
(*   - retired and cancelled credits never decrease (they are terminal);   *)
(*   - escrowed credits are untouched (they are in custody elsewhere);     *)
(*   - no pool is negative.                                                *)
(***************************************************************************)
EXTENDS Integers, FiniteSetsExt

CONSTANTS
    Holder,     \* accounts
    Batch,      \* credit batches
    Basket      \* Basket[b]: credits of batch b held by baskets

VARIABLES
    pools,      \* pools[<<h, b>>]: [tradable, retired, escrowed] of h in b
    cancelled   \* cancelled[b]: credits of b cancelled so far

vars == <<pools, cancelled>>

Key == Holder \X Batch

Pool == [tradable : Nat, retired : Nat, escrowed : Nat]

\* All credits of batch b, wherever they are.
Total(p, c, b) ==
    MapThenSumSet(LAMBDA h : p[<<h, b>>].tradable + p[<<h, b>>].retired
                             + p[<<h, b>>].escrowed, Holder)
    + Basket[b] + c[b]

Init ==
    /\ pools \in [Key -> Pool]
    /\ cancelled \in [Batch -> Nat]

\* One accepted operation signed by h.
Settle(h) ==
    /\ pools' \in [Key -> Pool]
    /\ cancelled' \in [Batch -> Nat]
    /\ \A k \in Key :
           /\ k[1] # h => pools'[k].tradable >= pools[k].tradable
           /\ pools'[k].retired >= pools[k].retired
           /\ pools'[k].escrowed = pools[k].escrowed
    /\ \A b \in Batch :
           /\ cancelled'[b] >= cancelled[b]
           /\ Total(pools', cancelled', b) = Total(pools, cancelled, b)

Next == \E h \in Holder : Settle(h)

Spec == Init /\ [][Next]_vars
=============================================================================
