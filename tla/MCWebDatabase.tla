--------------------------- MODULE MCWebDatabase ---------------------------
(***************************************************************************)
(* WebDatabase with two databases: two transactions of the first, which    *)
(* run one after the other, and one of the second.                         *)
(***************************************************************************)
EXTENDS WebDatabase

CONSTANTS d1, d2, t1, t2, t3

MCDatabaseOf == [t \in Transactions |-> IF t = t2 THEN d2 ELSE d1]
=============================================================================
