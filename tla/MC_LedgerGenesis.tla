------------------------- MODULE MC_LedgerGenesis -------------------------
(***************************************************************************)
(* The ledger handlers started from every genesis state ValidateGenesis    *)
(* accepts: one batch "C01" of precision 0, two holders, supply and rows   *)
(* of up to two credits.  The audit compares only tradable + retired, so   *)
(* it accepts documents whose supply splits its credits between tradable   *)
(* and retired differently from the holders.                               *)
(***************************************************************************)
EXTENDS Ecocredit, TLC

CONSTANTS a1, a2, unknown

GV == INSTANCE GenesisValidator WITH Docs <- {}, genesis <- {}, result <- {}

L(v) == Literal(v, 0)

GenesisDocs ==
    [creditTypes : {"C" :> 0}, classes : {1 :> "C"}, projects : {1 :> 1},
     batches : {1 :> [denom |-> "C01", projectKey |-> 1]},
     supplies : UNION {[K -> [tradable : {L(0), L(10), L(20)}, retired : {L(0), L(10)},
                              cancelled : {L(0)}]]
                         : K \in {{}, {1}}},
     balances : UNION {[K -> [tradable : {L(0), L(10), L(20)}, retired : {L(0), L(10)},
                              escrowed : {L(0)}]]
                         : K \in SUBSET {<<a1, 1>>, <<a2, 1>>}},
     basket : {[d \in {} |-> L(0)]}]

\* The store ImportJSON leaves behind for an accepted document with one
\* supply row: the rows as they are, amounts still strings.
ToStore(g) ==
    [supply  |-> [d \in {"C01"} |-> g.supplies[1]],
     balance |-> [k \in {<<r[1], "C01">> : r \in DOMAIN g.balances} |->
                    g.balances[<<k[1], 1>>]]]

AcceptedStores ==
    {ToStore(g) : g \in {d \in GenesisDocs : /\ 1 \in DOMAIN d.supplies
                                             /\ GV!ValidateGenesis(d) = NoErr}}

\* Documents whose amounts may also be "": the audit skips an empty
\* amount and counts it as zero.  Only documents whose supply row splits
\* its credits between tradable and retired exactly as the holders do are
\* kept, so that the stores satisfy SupplyMatchesBalances.
E == EmptyString

EmptyAmountDocs ==
    [creditTypes : {"C" :> 0}, classes : {1 :> "C"}, projects : {1 :> 1},
     batches : {1 :> [denom |-> "C01", projectKey |-> 1]},
     supplies : [{1} -> [tradable : {L(0), L(10), E}, retired : {L(0), L(10), E},
                         cancelled : {L(0), E}]],
     balances : UNION {[K -> [tradable : {L(0), L(10), E}, retired : {L(0), L(10), E},
                              escrowed : {L(0), E}]]
                         : K \in (SUBSET {<<a1, 1>>, <<a2, 1>>}) \ {{}}},
     basket : {[d \in {} |-> L(0)]}]

SplitAsHolders(g) ==
    /\ g.supplies[1].tradable.val =
           MapThenSumSet(LAMBDA k : g.balances[k].tradable.val + g.balances[k].escrowed.val,
                         DOMAIN g.balances)
    /\ g.supplies[1].retired.val =
           MapThenSumSet(LAMBDA k : g.balances[k].retired.val, DOMAIN g.balances)

AcceptedEmptyStores ==
    {ToStore(g) : g \in {d \in EmptyAmountDocs : /\ SplitAsHolders(d)
                                                 /\ GV!ValidateGenesis(d) = NoErr}}

LGAddr == {a1, a2}
LGBatch == {"C01"}
LGPrecision == [d \in LGBatch |-> 0]
LGBasket == [d \in LGBatch |-> 0]
LGPairs == {p \in LGAddr \X LGAddr : p[1] # p[2]}
LGAmounts == {Literal(0, 0), Literal(10, 0)}
=============================================================================
