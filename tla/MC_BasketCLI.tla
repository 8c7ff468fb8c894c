---------------------------- MODULE MC_BasketCLI ----------------------------
(***************************************************************************)
(* One basket name, credit type and class; a window of one day as a user  *)
(* following the flag's help would write it (86400); one start date and  *)
(* one fee that parse.                                                     *)
(***************************************************************************)
EXTENDS BasketCLI

MCWindows == {0, 86400}

\* 2012-01-01 in unix seconds.
MCDates == {1325376000}

MCFees == {20}
=============================================================================
