---------------------------- MODULE MCSmplFifo ----------------------------
(* smplfifo with a memory of four words (LGFLEN = 2): every pointer value, *)
(* the full and the empty FIFO, and any number of wraps.                   *)
EXTENDS SmplFifo
=============================================================================
