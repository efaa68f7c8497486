---------------------------- MODULE MCInvoicing ----------------------------
(***************************************************************************)
(* An order with a ticket, an invoice and two cancellations, whose credit  *)
(* notes compete for AFIP's numbers, and a second order of the same store  *)
(* whose two tickets compete for the store's.                              *)
(***************************************************************************)
EXTENDS Invoicing, TLC

CONSTANTS o1, o2, t1, t2, t3, f1, c1, c2

MCOrders == {o1, o2}
MCTickets == {t1, t2, t3}
MCFiscals == {f1}
MCCancels == {c1, c2}
MCOrderOf == [c \in {t1, t2, t3, f1, c1, c2} |-> IF c \in {t2, t3} THEN o2 ELSE o1]
=============================================================================
