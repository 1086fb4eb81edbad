----------------------------- MODULE MCDmaLink -----------------------------
(***************************************************************************)
(* Instances of DmaLink: tiles of two bytes and FIFOs of one to three      *)
(* entries, so that a program of a few copies fills them.                  *)
(***************************************************************************)
EXTENDS DmaLink

Group(kind, addr, d_addr, copy_count) ==
    [kind |-> kind, addr |-> addr, d_addr |-> d_addr, copy_count |-> copy_count]
End == Group("end", 0, 0, 1)
Program(start, code, groups) ==
    [start |-> start, ro_data_addr |-> 1, code |-> code, groups |-> groups]

(* Reads and writes that overlap in the FIFOs; the second is uploaded to   *)
(* address 0, where the receiver's first address is one before the memory. *)
MixedPrograms ==
    { Program(6, <<259>>, <<Group("read", 0, 1, 2), Group("write", 2, 1, 2),
                            Group("read", 2, 1, 1), Group("write", 0, 1, 1), End>>),
      Program(0, <<7, 512>>, <<Group("write", 2, 1, 3), Group("read", 1, 2, 2),
                               Group("read", 0, 0, 1), End>>) }

(* More writes than their queue holds, then more reads than the L3 cache;  *)
(* the queue holds fewer groups than both together.                        *)
ReadsBehindWrites ==
    { Program(0, <<7>>, <<Group("write", 0, 1, 4), Group("write", 0, 1, 4),
                          Group("read", 0, 1, 2), Group("read", 2, 1, 2), End>>) }

Addresses == 0 .. 4
=============================================================================
