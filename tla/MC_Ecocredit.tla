--------------------------- MODULE MC_Ecocredit ---------------------------
(***************************************************************************)
(* Model-checking instance of Ecocredit: two holders, two batches of       *)
(* different precision, literals that exercise every parse outcome.        *)
(***************************************************************************)
EXTENDS Ecocredit

CONSTANTS a1, a2, b1, b2, unknown

MCAddr == {a1, a2}
MCBatch == {b1, b2}

\* b1 is of a credit type of precision 0, b2 of precision 1.
MCPrecision == (b1 :> 0) @@ (b2 :> 1)

\* Half a credit of b2 is held by a basket.
MCBasket == (b1 :> 0) @@ (b2 :> 5)

\* "0", "0.5", "1", "1.0" and "-1" (amounts in tenths).
MCAmounts == {Literal(0, 0), Literal(5, 1), Literal(10, 0), Literal(10, 1), Literal(-10, 0)}

\* Send messages between two different accounts.
DistinctPairs == {p \in MCAddr \X MCAddr : p[1] # p[2]}
AllPairs == MCAddr \X MCAddr

\* Rows as issuance or a genesis import leave them: every amount written,
\* as "2", "1.5" or "0".
Str(v) == Literal(v, IF v % 10 = 0 THEN 0 ELSE 1)
Bal(t, r, e) == [tradable |-> Str(t), retired |-> Str(r), escrowed |-> Str(e)]
Sup(t, r, c) == [tradable |-> Str(t), retired |-> Str(r), cancelled |-> Str(c)]

\* a1 was issued two credits of each batch; a2 holds half a retired b2
\* credit and half a b2 credit is in a basket.  a2 has no b1 row yet.
IssuedStore ==
    [supply  |-> (b1 :> Sup(20, 0, 0)) @@ (b2 :> Sup(15, 5, 0)),
     balance |-> (<<a1, b1>> :> Bal(20, 0, 0)) @@ (<<a1, b2>> :> Bal(10, 0, 0))
                 @@ (<<a2, b2>> :> Bal(0, 5, 0))]

\* As IssuedStore, with one b1 credit of a2 escrowed (a sell order).
EscrowStore ==
    [supply  |-> (b1 :> Sup(30, 0, 0)) @@ (b2 :> Sup(15, 5, 0)),
     balance |-> IssuedStore.balance @@ (<<a2, b1>> :> Bal(0, 0, 10))]

MCIssued == {IssuedStore}
MCEscrow == {EscrowStore}
=============================================================================
