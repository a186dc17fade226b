-------------------------- MODULE BrainfuckLanguage --------------------------
(***************************************************************************)
(* What a Brainfuck program means on the tape this machine gives it: the   *)
(* eight commands, a pointer of one cell's range, and a tape as long that  *)
(* wraps around.  Its first two cells are the header of the program, and   *)
(* the pointer starts after them.                                          *)
(***************************************************************************)
EXTENDS Word, Sequences, FiniteSets

CONSTANT Header   \* the bytes of the entry point

VARIABLES chars, at, pointer, cells
language == <<chars, at, pointer, cells>>

FirstCells == [c \in MemCell |-> IF c < 2 THEN Header[c + 1] ELSE 0]

-----------------------------------------------------------------------------
(* Brackets of a text.                                                        *)

Count(text, c, i, j) == Cardinality({k \in i .. j : text[k] = c})
Even(text, i, j) == Count(text, "[", i, j) = Count(text, "]", i, j)

Balanced(text) ==
    /\ Even(text, 1, Len(text))
    /\ \A j \in 1 .. Len(text) : Count(text, "[", 1, j) >= Count(text, "]", 1, j)

\* The bracket that closes the one at i, and the one that the one at j closes.
Closing(text, i) ==
    CHOOSE j \in i .. Len(text) :
        Even(text, i, j) /\ \A k \in i .. (j - 1) : ~ Even(text, i, k)
Opening(text, j) ==
    CHOOSE i \in 1 .. j :
        Even(text, i, j) /\ \A k \in (i + 1) .. j : ~ Even(text, k, j)

-----------------------------------------------------------------------------
this == IF at =< Len(chars) THEN chars[at] ELSE "end"

AtIO == this \in {".", ",", "end"}

Go(i) == at' = i /\ UNCHANGED chars

Move(c, n) ==
    /\ this = c
    /\ pointer' = Cell(pointer + n)
    /\ Go(at + 1)
    /\ UNCHANGED cells

Change(c, n) ==
    /\ this = c
    /\ cells' = [cells EXCEPT ![pointer] = Cell(@ + n)]
    /\ Go(at + 1)
    /\ UNCHANGED pointer

Loop ==
    /\ this = "["
    /\ Go(IF cells[pointer] = 0 THEN Closing(chars, at) + 1 ELSE at + 1)
    /\ UNCHANGED <<pointer, cells>>

Repeat ==
    /\ this = "]"
    /\ Go(IF cells[pointer] # 0 THEN Opening(chars, at) + 1 ELSE at + 1)
    /\ UNCHANGED <<pointer, cells>>

Remark ==
    /\ this = "#"
    /\ Go(at + 1)
    /\ UNCHANGED <<pointer, cells>>

Command ==
    \/ Move(">", 1) \/ Move("<", -1) \/ Change("+", 1) \/ Change("-", -1)
    \/ Loop \/ Repeat \/ Remark

Write ==
    /\ this = "."
    /\ Go(at + 1)
    /\ UNCHANGED <<pointer, cells>>

Read(v) ==
    /\ this = ","
    /\ cells' = [cells EXCEPT ![pointer] = v]
    /\ Go(at + 1)
    /\ UNCHANGED pointer
=============================================================================
