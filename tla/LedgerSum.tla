------------------------------ MODULE LedgerSum ------------------------------
(***************************************************************************)
(* The total of a ledger's rows.  A ledger of at most n rows is a function *)
(* on 1..n whose value is the signed amount of the row, 0 where there is   *)
(* none.  The sum is a recursive function, so that LedgerSumProofs can say *)
(* what one changed row does to it.                                        *)
(***************************************************************************)
EXTENDS Integers

Total(rows, n) ==
    LET upTo[k \in 0..n] == IF k = 0 THEN 0 ELSE upTo[k - 1] + rows[k]
    IN  upTo[n]

\* The lowest unused row: a set with its number, empty when the bound is hit.
FreeRow(rows, n) ==
    {k \in 1..n : rows[k] = 0 /\ \A j \in 1..(k - 1) : rows[j] # 0}
=============================================================================
