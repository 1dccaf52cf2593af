---------------------------- MODULE MCInvoiceRun ----------------------------
(* Instances of InvoiceRun for TLC.                                        *)
EXTENDS InvoiceRun
=============================================================================
