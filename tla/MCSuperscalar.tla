--------------------------- MODULE MCSuperscalar ---------------------------
(* Every program of up to four instructions, one to eight iterations, widths *)
(* below, at and above the latencies; the queue is long enough for most    *)
(* and too short for the longest.                                          *)
EXTENDS Superscalar
MCLATENCY == [type \in Types |-> IF type = "memory" THEN 2 ELSE 3]
MCSetups == [SUPERSCALAR_WIDTH: {1, 2, 4}, LOOP_ITER: 1..6 \cup {8},
             program: UNION {[1..n -> Instructions] : n \in 1..4}]
=============================================================================
