----------------------------- MODULE MCSaleEntry -----------------------------
(***************************************************************************)
(* Model checking of SaleEntry.  Forms, users and numbers are alike, so    *)
(* the first request has the first of each.                                *)
(***************************************************************************)
EXTENDS SaleEntry

CONSTANTS r1, r2, f1, f2, u1, u2, p1, p2

FirstIsFirst ==
    {a \in [Request -> Ask] : a[r1].form = f1 /\ a[r1].user = u1 /\ a[r1].phone = p1}
=============================================================================
