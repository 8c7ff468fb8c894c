------------------------ MODULE MC_GenesisValidator ------------------------
(***************************************************************************)
(* Genesis documents for GenesisValidator: two credit types of precision   *)
(* 0 and 1, one class, project and batch of each, one holder with a row    *)
(* per batch, an optional basket balance; variants with a class of an      *)
(* unknown credit type and a batch of an unknown project or of key 0.      *)
(***************************************************************************)
EXTENDS GenesisValidator, TLC

CONSTANTS a1

L0 == Literal(0, 0)
L5 == Literal(5, 1)
L10 == Literal(10, 0)

CreditTypes == ("C" :> 0) @@ ("BIO" :> 1)
Projects == (1 :> 1) @@ (2 :> 2)
Batch(d, p) == [denom |-> d, projectKey |-> p]

ClassVariants == {(1 :> "C") @@ (2 :> "BIO"), (1 :> "C") @@ (2 :> "BIO") @@ (3 :> "X")}
\* Batch 3 names project key 9, which no project has, or project key 0,
\* which Batch.Validate refuses during the import.
BatchVariants == {(1 :> Batch("C01", 1)) @@ (2 :> Batch("BIO01", 2)),
                  (1 :> Batch("C01", 1)) @@ (2 :> Batch("BIO01", 2)) @@ (3 :> Batch("C02", 9)),
                  (1 :> Batch("C01", 1)) @@ (2 :> Batch("BIO01", 2)) @@ (3 :> Batch("C03", 0))}

SupplyOpts == [tradable : {L0, L5, L10}, retired : {L0, L10}]
RowOpts == [tradable : {L0, L5, L10}, retired : {L0, L10}, escrowed : {L0, L10}]

NoBasket == [d \in {} |-> L0]

Tables(Keys, Opts) == UNION {[K -> Opts] : K \in SUBSET Keys}

AllDocs ==
    [creditTypes : {CreditTypes}, classes : ClassVariants, projects : {Projects},
     batches : BatchVariants, supplies : Tables({1, 2}, SupplyOpts),
     balances : Tables({<<a1, 1>>, <<a1, 2>>}, RowOpts),
     basket : {NoBasket, "BIO01" :> L5}]

RowBatches(g) == {k[2] : k \in DOMAIN g.balances}
BasketBatches(g) == {bk \in DOMAIN g.batches : g.batches[bk].denom \in DOMAIN g.basket}

\* Supply and balance tables name the same batches, and every basket
\* balance is of a batch some holder has a row of.
AlignedDocs ==
    {g \in AllDocs : /\ DOMAIN g.supplies = RowBatches(g)
                     /\ BasketBatches(g) \subseteq RowBatches(g)}

\* An aligned document without basket balances plus a supply row of
\* batch key 4, which no batch has: the supply loop parses it at the
\* default precision 0 and validateSupply never looks at it.
UnknownBatchSupplyDocs ==
    {[g EXCEPT !.supplies = (4 :> s) @@ @] :
        g \in {h \in AlignedDocs : h.basket = NoBasket},
        s \in [tradable : {L5, L10}, retired : {L0}]}

\* Every batch with balance rows has a supply row, and some batch has a
\* supply row and no balance row; nothing is in a basket.  The supply row
\* may be of a batch key the batch table does not have.
SupplyOnlyDocs ==
    {g \in AllDocs : /\ RowBatches(g) \subseteq DOMAIN g.supplies
                     /\ DOMAIN g.supplies \ RowBatches(g) # {}
                     /\ g.basket = NoBasket}
    \cup UnknownBatchSupplyDocs

\* The basket holds credits of a batch no holder has a row of.
BasketOnlyDocs ==
    {g \in AllDocs : BasketBatches(g) \ RowBatches(g) # {}}
=============================================================================
