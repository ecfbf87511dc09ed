------------------------------ MODULE MCRxPath ------------------------------
(* RxPath for TLC: one datagram in four fragments, so that two of them can   *)
(* lie on either side of a third and a hole be left; three in two, so that   *)
(* datagrams compete for entries and for pbufs.                              *)
EXTENDS RxPath

SomeParts == <<4, 2, 2, 2>>
=============================================================================
