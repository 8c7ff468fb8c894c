-------------------------- MODULE GenesisValidator --------------------------
(***************************************************************************)
(* ValidateGenesis, calculateSupply and validateSupply of                  *)
(* x/ecocredit/core/genesis.go: the audit of an imported genesis state.    *)
(*                                                                         *)
(* A genesis document g holds the ORM tables the audit reads, as           *)
(* functions keyed by their primary keys (so no two rows share a key):     *)
(*   g.creditTypes : abbreviation -> precision                             *)
(*   g.classes     : class key -> credit type abbreviation                 *)
(*   g.projects    : project key -> class key                              *)
(*   g.batches     : batch key -> [denom, projectKey]                      *)
(*   g.supplies    : batch key -> [tradable, retired]        (literals)    *)
(*   g.balances    : <<address, batch key>> -> [tradable, retired,         *)
(*                                              escrowed]    (literals)    *)
(*   g.basket      : batch denom -> balance held by baskets  (literal)     *)
(* ImportJSON hands every row to validateMsg (RecordValidation); the rows *)
(* of a document are well-formed in every field but the keys they refer   *)
(* by.  Params.Validate is not part of the sources at hand.               *)
(* The audit is one step: result goes from "pending" to the error it       *)
(* returns, or to NoErr.                                                   *)
(***************************************************************************)
EXTENDS Integers, FiniteSets, FiniteSetsExt, Decimal

CONSTANT Docs           \* the genesis documents that may be imported

RV == INSTANCE RecordValidation
        WITH Records <- {}, rec <- "none", verdict <- "none",
             MaxMetadataLength <- 256, MaxNoteLength <- 512

VARIABLES genesis, result

vars == <<genesis, result>>

\* A Go map read with a missing key yields the zero value.
Lookup(f, k, zero) == IF k \in DOMAIN f THEN f[k] ELSE zero

\* projectKeyToClassKey followed by ClassTable().Get: key 0 is no class.
ClassOfBatch(g, bk) == Lookup(g.projects, g.batches[bk].projectKey, 0)

\* batchIdToPrecision, read with a default of 0 as the supply loop does.
BatchPrecision(g, bk) ==
    IF bk \in DOMAIN g.batches
    THEN Lookup(g.creditTypes, g.classes[ClassOfBatch(g, bk)], 0)
    ELSE 0

\* The batch key of a denom, when some batch has it.
DenomKeys(g, d) == {bk \in DOMAIN g.batches : g.batches[bk].denom = d}

ParseErr(lit, p) == NewNonNegativeFixedDecFromString(lit, p).err

\* A supply or balance amount: "" is not parsed and stays zero.
AmountErr(lit, p) == IF lit.empty THEN NoErr ELSE ParseErr(lit, p)

RowsOf(g, bk) == {k \in DOMAIN g.balances : k[2] = bk}

RowTotal(g, k) == g.balances[k].tradable.val + g.balances[k].retired.val
                  + g.balances[k].escrowed.val

\* batchIdToSupply: tradable + retired of each supply row.
DeclaredSupply(g) ==
    [bk \in DOMAIN g.supplies |-> g.supplies[bk].tradable.val + g.supplies[bk].retired.val]

\* batchIdToCalSupply after calculateSupply and the basket loop: the
\* batches with balance rows, each with the sum of its rows and of the
\* basket balances of its denom.
CalculatedSupply(g) ==
    LET keys == {k[2] : k \in DOMAIN g.balances}
    IN [bk \in keys |->
          MapThenSumSet(LAMBDA k : RowTotal(g, k), RowsOf(g, bk))
          + MapThenSumSet(LAMBDA d : g.basket[d].val,
                          {d \in DOMAIN g.basket : bk \in DenomKeys(g, d)})]

\* validateSupply: the two fast paths, then every calculated entry must
\* have an equal declared one.
ValidateSupply(cal, sup) ==
    CASE DOMAIN cal = {} /\ DOMAIN sup # {}       -> "SupplyWithoutBalances"
      [] DOMAIN sup = {} /\ DOMAIN cal # {}       -> "BalancesWithoutSupply"
      [] \E bk \in DOMAIN cal : bk \notin DOMAIN sup \/ sup[bk] # cal[bk]
                                                  -> "SupplyMismatch"
      [] OTHER                                    -> NoErr

\* The Class, Project and Batch rows ImportJSON passes to validateMsg.
ImportedRows(g) ==
    {[kind |-> "Class", metadataLen |-> 0, adminValid |-> TRUE, idLen |-> 3,
      idValid |-> TRUE, abbrevLen |-> IF g.classes[c] = "" THEN 0 ELSE 1]
        : c \in DOMAIN g.classes}
    \cup {[kind |-> "Project", adminValid |-> TRUE, classKey |-> g.projects[p],
           jurisdictionValid |-> TRUE, metadataLen |-> 0, idValid |-> TRUE]
            : p \in DOMAIN g.projects}
    \cup {[kind |-> "Batch", denomValid |-> TRUE, projectKey |-> g.batches[b].projectKey,
           startDate |-> 0, endDate |-> 1, issuerValid |-> TRUE]
            : b \in DOMAIN g.batches}

\* ormdb.ImportJSON with the JSONValidator hook: the error of a row that
\* validateMsg rejects (every such error is InvalidRequest here).
ImportErr(g) ==
    LET errs == {RV!ValidateRecord(r) : r \in ImportedRows(g)} \ {NoErr}
    IN IF errs = {} THEN NoErr ELSE CHOOSE e \in errs : TRUE

ValidateGenesis(g) ==
    LET bErr(k) == {AmountErr(g.balances[k][f], BatchPrecision(g, k[2])) :
                      f \in {"tradable", "retired", "escrowed"}} \ {NoErr}
        sErr(bk) == {AmountErr(g.supplies[bk][f], BatchPrecision(g, bk)) :
                      f \in {"tradable", "retired"}} \ {NoErr}
    IN CASE ImportErr(g) # NoErr -> ImportErr(g)
         [] \E c \in DOMAIN g.classes : g.classes[c] \notin DOMAIN g.creditTypes
                -> "NotFound"
         [] \E bk \in DOMAIN g.batches : ClassOfBatch(g, bk) \notin DOMAIN g.classes
                -> "NotFound"
         [] \E bk \in DOMAIN g.supplies : sErr(bk) # {}
                -> "InvalidAmount"
         [] \E k \in DOMAIN g.balances : k[2] \notin DOMAIN g.batches
                -> "InvalidType"
         [] \E k \in DOMAIN g.balances : bErr(k) # {}
                -> "InvalidAmount"
         [] \E d \in DOMAIN g.basket :
                \/ DenomKeys(g, d) = {}
                \/ NewNonNegativeDecFromString(g.basket[d]).err # NoErr
                \/ \A bk \in DenomKeys(g, d) : RowsOf(g, bk) = {}
                -> "UnknownBasketBatch"
         [] OTHER -> ValidateSupply(CalculatedSupply(g), DeclaredSupply(g))

Init ==
    /\ genesis \in Docs
    /\ result = "pending"

Validate ==
    /\ result = "pending"
    /\ result' = ValidateGenesis(genesis)
    /\ UNCHANGED genesis

Next == Validate

Spec == Init /\ [][Next]_vars

-----------------------------------------------------------------------------
(* The audit of spec.md section 4.5, stated directly: every reference     *)
(* resolves, every amount parses at its batch's precision, and for every   *)
(* batch key, declared supply (zero when there is no supply row) equals    *)
(* the holders' and baskets' credits (zero when there are none); a         *)
(* document with supply rows and no balance rows, or the converse, fails. *)
(* It uses none of the operators above but the amount parser.             *)

\* Steps 3-4: the precision a batch reaches through its project, class and
\* credit type (defined only where the chain resolves).
SpecResolves(g, bk) ==
    /\ g.batches[bk].projectKey \in DOMAIN g.projects
    /\ g.projects[g.batches[bk].projectKey] \in DOMAIN g.classes

SpecPrecision(g, bk) ==
    g.creditTypes[g.classes[g.projects[g.batches[bk].projectKey]]]

\* Step 7: the batches a basket balance's denom names.
SpecBatchesOf(g, d) == {bk \in DOMAIN g.batches : g.batches[bk].denom = d}

\* Step 5: declared supply, zero for a batch key without a supply row.
SpecDeclared(g, bk) ==
    IF bk \in DOMAIN g.supplies
    THEN g.supplies[bk].tradable.val + g.supplies[bk].retired.val ELSE 0

\* Steps 6-7: calculated supply, zero for a batch key without rows.
SpecCalculated(g, bk) ==
    MapThenSumSet(LAMBDA k : MapThenSumSet(LAMBDA f : g.balances[k][f].val,
                                           {"tradable", "retired", "escrowed"}),
                  {k \in DOMAIN g.balances : k[2] = bk})
    + MapThenSumSet(LAMBDA d : g.basket[d].val,
                    {d \in DOMAIN g.basket : bk \in SpecBatchesOf(g, d)})

SpecValid(g) ==
    /\ \A c \in DOMAIN g.classes : g.classes[c] \in DOMAIN g.creditTypes
    /\ \A bk \in DOMAIN g.batches : SpecResolves(g, bk)
    /\ \A k \in DOMAIN g.balances : k[2] \in DOMAIN g.batches
    /\ \A d \in DOMAIN g.basket : SpecBatchesOf(g, d) # {} /\ g.basket[d].val >= 0
    /\ \A bk \in DOMAIN g.supplies \cap DOMAIN g.batches, f \in {"tradable", "retired"} :
           ParseErr(g.supplies[bk][f], SpecPrecision(g, bk)) = NoErr
    /\ \A k \in DOMAIN g.balances, f \in {"tradable", "retired", "escrowed"} :
           ParseErr(g.balances[k][f], SpecPrecision(g, k[2])) = NoErr
    /\ (DOMAIN g.supplies = {}) = (DOMAIN g.balances = {})
    /\ \A bk \in DOMAIN g.supplies \cup DOMAIN g.batches :
           SpecDeclared(g, bk) = SpecCalculated(g, bk)

\* ValidateGenesis accepts exactly the documents the audit of spec.md 4.5
\* accepts: it neither lets an inconsistent supply through nor rejects a
\* consistent one.
ValidatorMatchesSpec ==
    result # "pending" => ((result = NoErr) <=> SpecValid(genesis))
=============================================================================
