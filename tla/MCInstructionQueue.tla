------------------------- MODULE MCInstructionQueue -------------------------
(* Groups of at most two copies, short latencies, rings of four entries.   *)
(* Up to MaxMixed groups come in any order and around a reset; two more    *)
(* of the last one's type take a ring past its last slot, and in some of   *)
(* the behaviours the tail is stuck there and groups are lost.             *)
EXTENDS InstructionQueue
=============================================================================
