----------------------------- MODULE BasketCLI -----------------------------
(***************************************************************************)
(* The basket transaction commands of x/ecocredit/client/basket/tx.go:     *)
(* create-basket, put-in-basket and take-from-basket.  Each run of a       *)
(* command reads its arguments and flags, builds a message, runs the       *)
(* message's ValidateBasic and broadcasts it.                              *)
(*                                                                         *)
(* Strings are abstracted to what the command does with them: a class id  *)
(* flag entry is an id and whether it carries surrounding spaces (the      *)
(* command trims them); a date or fee flag is absent, or a value that does *)
(* or does not parse.  The checks the command calls that are not part of   *)
(* this package (GetClientTxContext's key lookup, regentypes.ParseDate's   *)
(* format, parseBasketCredits' file read, ValidateBasic) are choices over  *)
(* their outcomes.                                                         *)
(***************************************************************************)
EXTENDS Integers

CONSTANTS
    Names,          \* basket names given as the argument
    CreditTypes,    \* --credit-type-abbreviation values
    ClassIds,       \* class ids named in --allowed-classes
    Windows,        \* --start-date-window values (a uint64)
    Dates,          \* unix seconds of the --minimum-start-date values that parse
    Fees,           \* coins of the --basket-fee values that parse
    Unset,          \* a flag that was not given
    Malformed       \* a flag value that does not parse

VARIABLES
    input,          \* the command and arguments of the last run
    built,          \* the message it built, or Unset
    out             \* NoErr when it was broadcast, else the error returned

vars == <<input, built, out>>

NoErr == "none"

\* An --allowed-classes entry, e.g. " C01": an id and surrounding spaces.
ClassEntry == [id : ClassIds, padded : BOOLEAN]

\* strings.TrimSpace of an entry.
TrimSpace(e) == [e EXCEPT !.padded = FALSE]

\* A --minimum-start-date or --basket-fee value: absent (""), a string
\* that does not parse, or one that parses to the given value.
FlagValue(S) == {Unset, Malformed} \cup S

CreateFlags ==
    [name : Names, disableAutoRetire : BOOLEAN, creditType : CreditTypes \cup {Unset},
     allowedClasses : {<<>>} \cup [1..1 -> ClassEntry] \cup {Unset},
     minStartDate : FlagValue(Dates), startDateWindow : Windows,
     fee : FlagValue(Fees)]

\* time.Duration(n) is n nanoseconds; types.DurationProto splits it into
\* whole seconds and the remaining nanoseconds.
DurationProto(nanos) == [seconds |-> nanos \div 1000000000,
                         nanos |-> nanos % 1000000000]

NoCriteria == [kind |-> "none"]

\* The date criterion of the message: at most one of the two flags.
DateCriteria(f) ==
    CASE f.minStartDate # Unset /\ f.startDateWindow # 0 -> [kind |-> "both"]
      [] f.minStartDate # Unset -> [kind |-> "min", minStartDate |-> f.minStartDate]
      [] f.startDateWindow # 0 ->
             [kind |-> "window", window |-> DurationProto(f.startDateWindow)]
      [] OTHER -> NoCriteria

\* A run's end: the message built and the error returned; a message that
\* passes ValidateBasic is broadcast.
Finish(msg) ==
    /\ built' = msg
    /\ \E valid \in BOOLEAN : out' = IF valid THEN NoErr ELSE "ValidateBasic"

Fail(e) == built' = Unset /\ out' = e

\* TxCreateBasketCmd.  Cobra refuses the run before RunE when a required
\* flag is missing.
CreateBasket(f) ==
    LET crit == DateCriteria(f)
    IN /\ input' = [cmd |-> "create-basket", flags |-> f]
       /\ \E keyFound \in BOOLEAN :
          CASE f.creditType = Unset \/ f.allowedClasses = Unset -> Fail("RequiredFlag")
            [] ~keyFound                                     -> Fail("ClientCtx")
            [] crit.kind = "both"                            -> Fail("BothDateFlags")
            [] f.minStartDate = Malformed                    -> Fail("ParseDate")
            [] f.fee = Malformed                             -> Fail("ParseCoins")
            [] OTHER ->
                 Finish([type |-> "MsgCreate", name |-> f.name,
                         disableAutoRetire |-> f.disableAutoRetire,
                         creditType |-> f.creditType,
                         allowedClasses |-> [i \in DOMAIN f.allowedClasses |->
                                               TrimSpace(f.allowedClasses[i])],
                         dateCriteria |-> crit,
                         fee |-> IF f.fee = Unset THEN {} ELSE f.fee])

\* TxPutInBasketCmd: the credits file is read by parseBasketCredits.
PutInBasket(denom) ==
    /\ input' = [cmd |-> "put-in-basket", flags |-> denom]
    /\ \E keyFound, parsed \in BOOLEAN :
          CASE ~keyFound -> Fail("ClientCtx")
            [] ~parsed   -> Fail("InvalidRequest")
            [] OTHER     -> Finish([type |-> "MsgPut", basketDenom |-> denom])

\* TxTakeFromBasketCmd: the amount argument is passed on unparsed, and the
\* jurisdiction whether or not --retire-on-take is set.
TakeFromBasket(denom, retireOnTake) ==
    /\ input' = [cmd |-> "take-from-basket", flags |-> denom]
    /\ \E keyFound \in BOOLEAN :
          CASE ~keyFound -> Fail("ClientCtx")
            [] OTHER     -> Finish([type |-> "MsgTake", basketDenom |-> denom,
                                    retireOnTake |-> retireOnTake])

Init ==
    /\ input = Unset
    /\ built = Unset
    /\ out = NoErr

Next ==
    \/ \E f \in CreateFlags : CreateBasket(f)
    \/ \E d \in Names : PutInBasket(d)
    \/ \E d \in Names, r \in BOOLEAN : TakeFromBasket(d, r)

Spec == Init /\ [][Next]_vars

-----------------------------------------------------------------------------
Created == input # Unset /\ input.cmd = "create-basket" /\ built # Unset

\* The --start-date-window flag is documented as a number of seconds
\* ("the duration of time (in seconds)", "e.g. 1325404800"): the message
\* carries a window of that many seconds.
WindowInSeconds ==
    Created /\ built.dateCriteria.kind = "window" =>
        built.dateCriteria.window = [seconds |-> input.flags.startDateWindow, nanos |-> 0]
=============================================================================
