----------------------------- MODULE MCIsrStub -----------------------------
(* IsrStub with two devices on the master and one on the slave.             *)
EXTENDS IsrStub
=============================================================================
