----------------------------- MODULE Ecocredit -----------------------------
(***************************************************************************)
(* The balance-mutating handlers of the ecocredit core keeper:             *)
(*   Send   (x/ecocredit/server/core/send.go)                              *)
(*   Retire (retire.go, the first file of src/unnamed/part_001)            *)
(*   Cancel (x/ecocredit/server/core/cancel.go)                            *)
(* over the two ORM tables they change: BatchSupply (one row per batch)   *)
(* and BatchBalance (one row per holder and batch, absent until the first  *)
(* Save).  Each handler walks the credits of its message in order; every   *)
(* entry reads the rows the entries before it wrote.  When an entry fails  *)
(* the handler returns the error and the SDK discards the message's        *)
(* writes, so a message is one step that happens only when every entry     *)
(* succeeds; a failing message is a stuttering step.                       *)
(*                                                                         *)
(* retiredLog and cancelledLog are the sums of the amounts of the          *)
(* EventRetire and EventCancel events emitted so far, per owner and batch, *)
(* starting from the retired and cancelled amounts of the genesis state.   *)
(***************************************************************************)
EXTENDS Integers, Sequences, SequencesExt, FiniteSets, FiniteSetsExt, TLC, Decimal

CONSTANTS
    Addr,           \* account addresses
    Batch,          \* denoms of the credit batches in the store
    UnknownDenom,   \* a denom no batch has
    Precision,      \* Precision[b]: precision of the credit type of batch b
    Basket,         \* Basket[b]: credits of batch b held by baskets
    Amounts,        \* decimal literals a message may carry
    MaxCredits,     \* most credits entries in one message
    SendPairs,      \* <<sender, recipient>> pairs of the Send messages submitted
    InitStores      \* the stores the ledger may start from (imported genesis)

ASSUME UnknownDenom \notin Batch /\ MaxCredits >= 1

VARIABLES supply, balance, retiredLog, cancelledLog

vars == <<supply, balance, retiredLog, cancelledLog>>

Denom == Batch \cup {UnknownDenom}
Key == Addr \X Batch

\* Amounts are stored as decimal strings (Decimal literals).
Lit == [val : Int, frac : Int, empty : BOOLEAN]
SupplyRec == [tradable : Lit, retired : Lit, cancelled : Lit]
BalanceRec == [tradable : Lit, retired : Lit, escrowed : Lit]

\* (mutation) a struct literal that leaves out RetiredAmount as well.
NewBalanceNoRetired(t, r) == [tradable |-> t, retired |-> EmptyString, escrowed |-> EmptyString]

\* A row of BatchBalance written without an EscrowedAmount field.
NewBalance(t, r) == [tradable |-> t, retired |-> r, escrowed |-> EmptyString]

\* (mutation) a Save that keeps a row already stored under the key.
SaveRowKeepStored(table, key, row) == table @@ (key :> row)

\* BatchBalanceTable().Save: inserts the row or replaces the stored one.
SaveRow(table, key, row) == (key :> row) @@ table

\* BatchBalanceTable().Update: replaces the stored row.
UpdateRow(table, key, row) == [table EXCEPT ![key] = row]

\* (mutation) retirement that adds to the retired supply only.
RetireSupplyNoDebit(sup, t, r, amt) == [sup EXCEPT !.retired = DecString(r + amt)]

\* The supply row after retiring amt credits from parsed tradable t and
\* retired r: tradable to retired, the cancelled string copied unparsed.
RetireSupply(sup, t, r, amt) ==
    [sup EXCEPT !.tradable = DecString(DecSub(t, amt)), !.retired = DecString(r + amt)]

\* (mutation) cancellation that never records the cancelled amount.
CancelSupplyNoRecord(sup, t, c, amt) == [sup EXCEPT !.tradable = DecString(t - amt)]

\* The supply row after cancelling amt credits from parsed tradable t and
\* cancelled c; the retired string is copied unparsed.
CancelSupply(sup, t, c, amt) ==
    [sup EXCEPT !.tradable = DecString(t - amt), !.cancelled = DecString(c + amt)]

\* EmitTypedEvent(&EventRetire{Owner, BatchDenom, Amount}).
EmitRetire(log, owner, b, amt) == [log EXCEPT ![<<owner, b>>] = @ + amt]

Store == [supply |-> supply, balance |-> balance,
          retiredLog |-> retiredLog, cancelledLog |-> cancelledLog]

Commit(st) ==
    /\ supply' = st.supply
    /\ balance' = st.balance
    /\ retiredLog' = st.retiredLog
    /\ cancelledLog' = st.cancelledLog

Result(e, st) == [err |-> e, st |-> st]

(***************************************************************************)
(* sendEcocredits: one credits entry of a MsgSend.  A recipient without a *)
(* row starts from TradableAmount "0", RetiredAmount "0".                  *)
(***************************************************************************)
SendEntry(st, from, to, credit) ==
    LET b       == credit.batchDenom
        sup     == st.supply[b]
        fromBal == st.balance[<<from, b>>]
        toBal   == IF <<to, b>> \in DOMAIN st.balance
                   THEN st.balance[<<to, b>>] ELSE NewBalance(Literal(0, 0), Literal(0, 0))
        decs    == GetNonNegativeFixedDecs(Precision[b],
                     << toBal.tradable, toBal.retired, fromBal.tradable, fromBal.retired,
                        credit.tradableAmount, credit.retiredAmount,
                        sup.tradable, sup.retired >>)
        v       == decs.vals
        sendT   == credit.tradableAmount.val
        sendR   == credit.retiredAmount.val
        fromT   == IF sendT # 0 THEN v[3] - sendT ELSE v[3]
        err     == CASE b \notin Batch                   -> "NotFound"
                     [] <<from, b>> \notin DOMAIN st.balance -> "InsufficientCredits"
                     [] decs.err # NoErr                 -> decs.err
                     [] sendT # 0 /\ SafeSubBalance(v[3], sendT).err # NoErr
                                                         -> "InsufficientBalance"
                     [] sendR # 0 /\ SafeSubBalance(fromT, sendR).err # NoErr
                                                         -> "InsufficientBalance"
                     [] OTHER                            -> NoErr
        \* the "to" row is saved first, then the "from" row is updated
        toRow   == NewBalance(DecString(v[1] + sendT), DecString(v[2] + sendR))
        fromRow == NewBalance(DecString(fromT - sendR), DecString(v[4]))
        didRetire == sendR # 0
    IN IF err # NoErr THEN Result(err, st)
       ELSE Result(NoErr,
              [st EXCEPT !.balance = UpdateRow(SaveRow(@, <<to, b>>, toRow), <<from, b>>, fromRow),
                         !.supply  = IF didRetire
                                     THEN [@ EXCEPT ![b] = RetireSupply(sup, v[7], v[8], sendR)]
                                     ELSE @,
                         !.retiredLog = IF didRetire THEN EmitRetire(@, to, b, sendR) ELSE @])

(***************************************************************************)
(* Retire: one credits entry of a MsgRetire.                               *)
(***************************************************************************)
RetireEntry(st, owner, credit) ==
    LET b       == credit.batchDenom
        p       == Precision[b]
        userBal == st.balance[<<owner, b>>]
        sup     == st.supply[b]
        amt     == credit.amount.val
        decs    == GetNonNegativeFixedDecs(p, <<credit.amount, userBal.tradable>>)
        supDecs == GetNonNegativeFixedDecs(p, <<sup.retired, sup.tradable>>)
        retDec  == NewNonNegativeFixedDecFromString(userBal.retired, p)
        err     == CASE b \notin Batch                          -> "NotFound"
                     [] <<owner, b>> \notin DOMAIN st.balance   -> "NotFound"
                     [] decs.err # NoErr                        -> decs.err
                     [] SafeSubBalance(decs.vals[2], amt).err # NoErr
                                                                -> "InsufficientBalance"
                     [] retDec.err # NoErr                      -> retDec.err
                     [] supDecs.err # NoErr                     -> supDecs.err
                     [] SafeSubBalance(supDecs.vals[2], amt).err # NoErr
                                                                -> "InsufficientBalance"
                     [] OTHER                                   -> NoErr
    IN IF err # NoErr THEN Result(err, st)
       ELSE Result(NoErr,
              [st EXCEPT
                 !.balance = UpdateRow(@, <<owner, b>>,
                                NewBalance(DecString(decs.vals[2] - amt), DecString(retDec.val + amt))),
                 !.supply = [@ EXCEPT ![b] = RetireSupply(sup, supDecs.vals[2], supDecs.vals[1], amt)],
                 !.retiredLog = EmitRetire(@, owner, b, amt)])

(***************************************************************************)
(* Cancel: one credits entry of a MsgCancel.  The retired amount of the    *)
(* owner's row and of the supply row are written back unparsed.            *)
(***************************************************************************)
CancelEntry(st, owner, credit) ==
    LET b       == credit.batchDenom
        userBal == st.balance[<<owner, b>>]
        sup     == st.supply[b]
        amt     == credit.amount.val
        decs    == GetNonNegativeFixedDecs(Precision[b],
                     <<credit.amount, sup.tradable, userBal.tradable, sup.cancelled>>)
        v       == decs.vals
        err     == CASE b \notin Batch                          -> "NotFound"
                     [] <<owner, b>> \notin DOMAIN st.balance   -> "NotFound"
                     [] decs.err # NoErr                        -> decs.err
                     [] SafeSubBalance(v[3], amt).err # NoErr   -> "InsufficientBalance"
                     [] SafeSubBalance(v[2], amt).err # NoErr   -> "InsufficientBalance"
                     [] OTHER                                   -> NoErr
    IN IF err # NoErr THEN Result(err, st)
       ELSE Result(NoErr,
              [st EXCEPT
                 !.balance = UpdateRow(@, <<owner, b>>,
                                NewBalance(DecString(v[3] - amt), userBal.retired)),
                 !.supply = [@ EXCEPT ![b] = CancelSupply(sup, v[2], v[4], amt)],
                 !.cancelledLog = [@ EXCEPT ![b] = @ + amt]])

SendCredits == [batchDenom : Denom, tradableAmount : Amounts, retiredAmount : Amounts]
Credits == [batchDenom : Denom, amount : Amounts]

Messages(S) == BoundedSeq(S, MaxCredits) \ {<<>>}

Send(sender, recipient, credits) ==
    \* the handler's loop: entries in order, stopping at the first error
    LET r == FoldLeft(LAMBDA acc, c : IF acc.err # NoErr THEN acc ELSE SendEntry(acc.st, sender, recipient, c),
                      Result(NoErr, Store), credits)
    IN /\ r.err = NoErr
       /\ Commit(r.st)

Retire(owner, credits) ==
    \* the handler's loop: entries in order, stopping at the first error
    LET r == FoldLeft(LAMBDA acc, c : IF acc.err # NoErr THEN acc ELSE RetireEntry(acc.st, owner, c),
                      Result(NoErr, Store), credits)
    IN /\ r.err = NoErr
       /\ Commit(r.st)

Cancel(owner, credits) ==
    \* the handler's loop: entries in order, stopping at the first error
    LET r == FoldLeft(LAMBDA acc, c : IF acc.err # NoErr THEN acc ELSE CancelEntry(acc.st, owner, c),
                      Result(NoErr, Store), credits)
    IN /\ r.err = NoErr
       /\ Commit(r.st)

Init ==
    \E st \in InitStores :
        /\ supply = st.supply
        /\ balance = st.balance
        /\ retiredLog = [k \in Key |-> IF k \in DOMAIN st.balance
                                       THEN st.balance[k].retired.val ELSE 0]
        /\ cancelledLog = [b \in Batch |-> st.supply[b].cancelled.val]

Next ==
    \/ \E pair \in SendPairs, credits \in Messages(SendCredits) :
           Send(pair[1], pair[2], credits)
    \/ \E owner \in Addr, credits \in Messages(Credits) : Retire(owner, credits)
    \/ \E owner \in Addr, credits \in Messages(Credits) : Cancel(owner, credits)

Spec == Init /\ [][Next]_vars

-----------------------------------------------------------------------------
(* Properties *)

\* The amount of a row field, with "" read as zero as the genesis audit
\* reads it.
Held(a, b, field) ==
    IF <<a, b>> \in DOMAIN balance THEN balance[<<a, b>>][field].val ELSE 0

\* The rows have their fields, and every TradableAmount and RetiredAmount a
\* handler writes is a decimal string: only EscrowedAmount, which no
\* handler sets, may be "".
TypeOK ==
    /\ supply \in [Batch -> SupplyRec]
    /\ DOMAIN balance \subseteq Key
    /\ \A k \in DOMAIN balance :
           /\ balance[k] \in BalanceRec
           /\ ~balance[k].tradable.empty /\ ~balance[k].retired.empty
    /\ retiredLog \in [Key -> Int]
    /\ cancelledLog \in [Batch -> Int]

\* Double-entry bookkeeping kept by every successful Send, Retire and
\* Cancel: for each batch the tradable supply equals the tradable and
\* escrowed credits of all holders plus the basket-held credits, and the
\* retired supply equals the holders' retired credits.
SupplyMatchesBalances ==
    \A b \in Batch :
        /\ supply[b].tradable.val =
               MapThenSumSet(LAMBDA a : Held(a, b, "tradable") + Held(a, b, "escrowed"), Addr)
               + Basket[b]
        /\ supply[b].retired.val = MapThenSumSet(LAMBDA a : Held(a, b, "retired"), Addr)

\* No handler ever stores a negative amount in a balance or supply row
\* (Send subtracts the retired amount from the supply with an unchecked
\* Dec.Sub).
NonNegativeAmounts ==
    /\ \A b \in Batch : \A f \in {"tradable", "retired", "cancelled"} : supply[b][f].val >= 0
    /\ \A k \in DOMAIN balance : \A f \in {"tradable", "retired", "escrowed"} :
           balance[k][f].val >= 0

\* The amounts of the Retire events emitted for an owner and batch add up to
\* the growth of the owner's retired balance, and the Cancel events of a
\* batch to the growth of its cancelled supply: every event a handler emits
\* is reflected in the rows it writes.
EventsMatchBalances ==
    /\ \A a \in Addr, b \in Batch : retiredLog[<<a, b>>] = Held(a, b, "retired")
    /\ \A b \in Batch : cancelledLog[b] = supply[b].cancelled.val

\* Whatever a holder holds as tradable credits, it can retire or cancel:
\* a Retire and a Cancel entry of its whole tradable amount, as the row
\* shows it, both succeed.
\* Every string the two handlers parse (the holder's tradable and retired
\* amounts, the supply's tradable, retired and cancelled amounts) is
\* readable at the batch's precision, and the supply's tradable amount
\* covers the holder's.
CreditsUsable ==
    \A k \in DOMAIN balance :
        LET credit == [batchDenom |-> k[2], amount |-> balance[k].tradable]
        IN balance[k].tradable.val > 0 =>
               /\ RetireEntry(Store, k[1], credit).err = NoErr
               /\ CancelEntry(Store, k[1], credit).err = NoErr

-----------------------------------------------------------------------------
(* Refinement: the handlers implement CreditPools.  A holder's pools are   *)
(* the amounts of their balance row (all zero while there is none), and a *)
(* batch's cancelled pool is the cancelled amount of its supply row.      *)

Pools == [k \in Key |-> [tradable |-> Held(k[1], k[2], "tradable"),
                         retired |-> Held(k[1], k[2], "retired"),
                         escrowed |-> Held(k[1], k[2], "escrowed")]]

CP == INSTANCE CreditPools
        WITH Holder <- Addr, pools <- Pools,
             cancelled <- [b \in Batch |-> supply[b].cancelled.val]

\* Every accepted Send, Retire and Cancel is an operation of its signer
\* that CreditPools allows: the credits of each batch are conserved, only
\* the signer's tradable credits decrease, retired and cancelled credits
\* never decrease and escrowed credits are left alone.
ImplementsCreditPools == CP!Spec
=============================================================================
