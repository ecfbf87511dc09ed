----------------------------- MODULE MCMainLoop -----------------------------
(* MainLoop for TLC: the first interval is a whole number of ticks, as 250   *)
(* and 500 ms are; the modulus is not, as 2^32 is not one of 10 ms.          *)
EXTENDS MainLoop

SomeIntervals == <<6, 9>>
=============================================================================
