-------------------------------- MODULE Word --------------------------------
(***************************************************************************)
(* The machine's integers (include/types.hpp): a MemCell is one byte and a *)
(* MemAddr two, stored in RAM high byte first.  A cell has CellRange       *)
(* values, 256 in the code.                                                *)
(***************************************************************************)
EXTENDS Integers

CONSTANT CellRange

\* FREE and OWNED are different cells.
ASSUME CellRangeAssumption == CellRange \in Nat /\ CellRange > 1

MemCell == 0 .. (CellRange - 1)
AddrRange == CellRange * CellRange
MemAddr == 0 .. (AddrRange - 1)

\* static_cast to MemCell and to MemAddr, of any integer.
Cell(n) == n % CellRange
Addr(n) == n % AddrRange

LowUnmasked(v) == v

\* (v >> 8) & 0xFF, v & 0xFF and (high << 8) | low.
High(v) == (v \div CellRange) % CellRange
Low(v) == v % CellRange
Join(high, low) == high * CellRange + low
=============================================================================
