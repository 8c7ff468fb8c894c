------------------------------ MODULE Decimal ------------------------------
(***************************************************************************)
(* The fixed-point decimal engine of regen-ledger (package types/math and  *)
(* the helper utils.GetNonNegativeFixedDecs).  Neither is part of the      *)
(* sources at hand, so these operators follow spec.md section 4.1.         *)
(*                                                                         *)
(* A decimal is an integer number of tenths: credit types in the models    *)
(* have precision 0 or 1, so a tenth is the smallest amount any batch can  *)
(* hold.  A decimal string is a literal [val, frac, empty]: its value in  *)
(* tenths and the number of digits written after its decimal point ("1.0" *)
(* has val 10 and frac 1); EmptyString is "", which no parser accepts.     *)
(* A string a handler writes is the output of Dec.String(), which writes   *)
(* no trailing zero: DecString(v).                                         *)
(***************************************************************************)
EXTENDS Integers

NoErr == "none"

\* Digits after the point in the canonical form of v tenths.
FracDigits(v) == IF v % 10 = 0 THEN 0 ELSE 1

Literal(v, f) == [val |-> v, frac |-> f, empty |-> FALSE]

\* The empty string; read as zero where a caller skips it.
EmptyString == [val |-> 0, frac |-> 0, empty |-> TRUE]

\* (mutation) Dec.String() that always writes one decimal place.
DecStringOnePlace(v) == Literal(v, 1)

\* Dec.String() of a value.
DecString(v) == Literal(v, FracDigits(v))

Ok(v) == [err |-> NoErr, val |-> v]
Fail(e) == [err |-> e, val |-> 0]

\* math.NewNonNegativeFixedDecFromString: a negative value is rejected
\* before the number of decimal places is compared with the precision.
NewNonNegativeFixedDecFromString(lit, precision) ==
    IF lit.empty THEN Fail("InvalidAmount")
    ELSE IF lit.val < 0 THEN Fail("InvalidAmount")
    ELSE IF lit.frac > precision THEN Fail("PrecisionExceeded")
    ELSE Ok(lit.val)

\* math.NewNonNegativeDecFromString: no precision bound.
NewNonNegativeDecFromString(lit) ==
    IF lit.empty THEN Fail("InvalidAmount")
    ELSE IF lit.val < 0 THEN Fail("InvalidAmount") ELSE Ok(lit.val)

\* utils.GetNonNegativeFixedDecs: parses every literal of the sequence at
\* one precision and returns the first error, in argument order.
GetNonNegativeFixedDecs(precision, lits) ==
    LET parsed == [i \in DOMAIN lits |->
                     NewNonNegativeFixedDecFromString(lits[i], precision)]
        bad    == {i \in DOMAIN lits : parsed[i].err # NoErr}
        first  == CHOOSE i \in bad : \A j \in bad : i <= j
    IN IF bad = {} THEN [err |-> NoErr, vals |-> [i \in DOMAIN lits |-> parsed[i].val]]
       ELSE [err |-> parsed[first].err, vals |-> <<>>]

\* (mutation) a balance subtraction without the sign check.
SafeSubUnchecked(x, y) == Ok(x - y)

\* math.SafeSubBalance: x - y, refused when the result would be negative.
SafeSubBalance(x, y) ==
    IF x - y < 0 THEN Fail("InsufficientBalance") ELSE Ok(x - y)

\* Dec.Sub: exact subtraction with no sign check.
DecSub(x, y) == x - y
=============================================================================
