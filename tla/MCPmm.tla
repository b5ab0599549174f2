------------------------------- MODULE MCPmm -------------------------------
(* Pages of two bytes in 32 bytes of address space.  The kernel is page 2, *)
(* the bitmap page 3.                                                      *)
EXTENDS Pmm

Region(addr, size, avail) == [addr |-> addr, size |-> size, avail |-> avail]

(* Regions that begin and end inside pages, with a hole in between; a map  *)
(* up to the end of the address space; one with a region that crosses it;  *)
(* and none at all.                                                        *)
MCMaps == {
  [mmap |-> TRUE, lower |-> 4, upper |-> 6,
   regions |-> {Region(0, 5, TRUE), Region(5, 4, FALSE), Region(9, 10, TRUE)}],
  [mmap |-> TRUE, lower |-> 4, upper |-> 6,
   regions |-> {Region(0, 3, TRUE), Region(4, 28, TRUE)}],
  [mmap |-> TRUE, lower |-> 4, upper |-> 6,
   regions |-> {Region(0, 3, TRUE), Region(12, 30, TRUE)}],
  [mmap |-> FALSE, lower |-> 4, upper |-> 6, regions |-> {}]}

(* Memory above the 32-bit address space.                                  *)
MCHighMaps == {
  [mmap |-> TRUE, lower |-> 4, upper |-> 6,
   regions |-> {Region(0, 3, TRUE), Region(4, 4, FALSE), Region(8, 8, TRUE), Region(32, 8, TRUE)}]}

MCUsers == {1, 2}
=============================================================================
