------------------------------ MODULE KeyValues ------------------------------
(***************************************************************************)
(* What a ZHT table holds, and what get answers for a key that is not      *)
(* there (NULL, novoht.cpp; Empty or an empty value, the client).          *)
(***************************************************************************)
CONSTANTS Keys, Values, NoValue
=============================================================================
