---------------------------- MODULE MCInvoiceLots ----------------------------
(* Documents for TLC: two invoices and a credit note.                        *)
EXTENDS InvoiceLots, TLC

CONSTANTS i1, i2, c1

Totals == i1 :> 2 @@ i2 :> 1 @@ c1 :> -2
=============================================================================
