----------------------------- MODULE Brainfvck -----------------------------
(***************************************************************************)
(* The Brainfuck compiler (src/Brainfvck.cpp): one pass that writes lines  *)
(* of assembly, one that folds runs into a single ADD or SUB, and one that *)
(* replaces loops that clear a cell or multiply.  It keeps no state, so    *)
(* each pass is a function of the lines before it.                         *)
(***************************************************************************)
EXTENDS Integers, InstructionSet, SequencesExt

RegA == Plain("register", 1)
RegB == Plain("register", 2)
RegC == Plain("register", 3)
AtA == InBrackets("register", 1)
Number(n) == Plain("number", n)

start_par(id) == 2 * id + 1
close_par(id) == 2 * id + 2

Mov(dst, src) == Instruction(MOV, <<dst, src>>)
Add(dst, src) == Instruction(ADD, <<dst, src>>)
Sub(dst, src) == Instruction(SUB, <<dst, src>>)
Mul(dst, src) == Instruction(MUL, <<dst, src>>)
Test == Instruction(CMP, <<AtA, Number(0)>>)
Je(l) == Instruction(JE, <<Plain("name", l)>>)
Jne(l) == Instruction(JNE, <<Plain("name", l)>>)

\* What is added to dst, as an ADD, a SUB or nothing.
AddOrSub(dst, n) ==
    CASE n > 0 -> <<Add(dst, Number(n))>>
      [] n < 0 -> <<Sub(dst, Number(-n))>>
      [] n = 0 -> <<>>

-----------------------------------------------------------------------------
(* compile's loop over the characters.                                        *)

\* compile's variables before the first character.
Preamble ==
    [code_tmp |-> <<Skip(<<Number(30000)>>), Label(start), Mov(RegA, Number(2))>>,
     par_stack |-> <<>>, number_of_par |-> 0, thrown |-> FALSE]

Written(s, lines) == [s EXCEPT !.code_tmp = @ \o lines]

OpenPar(s) ==
    LET id == s.number_of_par
    IN  [Written(s, <<Label(start_par(id)), Test, Je(close_par(id))>>)
            EXCEPT !.par_stack = Append(@, id), !.number_of_par = id + 1]

ClosePar(s) ==
    LET id == Last(s.par_stack)
    IN  [Written(s, <<Label(close_par(id)), Test, Jne(start_par(id))>>)
            EXCEPT !.par_stack = Front(@)]

Translated(s, c) ==
    CASE s.thrown -> s
      [] ~ s.thrown /\ c = ">" -> Written(s, <<Add(RegA, Number(1))>>)
      [] ~ s.thrown /\ c = "<" -> Written(s, <<Sub(RegA, Number(1))>>)
      [] ~ s.thrown /\ c = "+" -> Written(s, <<Add(AtA, Number(1))>>)
      [] ~ s.thrown /\ c = "-" -> Written(s, <<Sub(AtA, Number(1))>>)
      [] ~ s.thrown /\ c = "." -> Written(s, <<Instruction(PRINT, <<AtA>>)>>)
      [] ~ s.thrown /\ c = "," -> Written(s, <<Instruction(INPUT, <<AtA>>)>>)
      [] ~ s.thrown /\ c = "[" -> OpenPar(s)
      [] ~ s.thrown /\ c = "]" ->
            IF s.par_stack = <<>> THEN [s EXCEPT !.thrown = TRUE] ELSE ClosePar(s)
      [] OTHER -> s

-----------------------------------------------------------------------------
(* apply_optimizations.                                                       *)

Accumulator == [code |-> <<>>, math |-> FALSE, ptr |-> FALSE, value |-> 0]

IsStep(l, place) ==
    l.kind = "instruction" /\ l.what \in {ADD, SUB} /\ l.args[1] = place

\* The sign of a step that adds or subtracts one.
Sign(l) == IF l.what = ADD THEN 1 ELSE -1

\* A run that cancels out leaves the accumulator as it is.
flush(o) ==
    IF o.value = 0 THEN o
    ELSE [Accumulator EXCEPT !.code =
             o.code \o AddOrSub(IF o.math THEN AtA ELSE RegA, o.value)]

Folded(o, l) ==
    CASE IsStep(l, AtA) /\ ~ o.ptr -> [o EXCEPT !.math = TRUE, !.value = @ + Sign(l)]
      [] IsStep(l, RegA) /\ ~ o.math -> [o EXCEPT !.ptr = TRUE, !.value = @ + Sign(l)]
      [] OTHER -> [flush(o) EXCEPT !.code = Append(@, l)]

\* The accumulator after each line.
Folding(lines) ==
    LET after[k \in 0 .. Len(lines)] ==
            IF k = 0 THEN Accumulator ELSE Folded(after[k - 1], lines[k])
    IN  after

apply_optimizations(lines) == flush(Folding(lines)[Len(lines)]).code

-----------------------------------------------------------------------------
(* apply_loop_optimizations.                                                  *)

IsStartPar(l) == l.kind = "label" /\ l.what % 2 = 1

\* The line of the close label of the loop that starts at line i.
close_idx(lines, i) == SelectInSeq(lines, LAMBDA l : l = Label(lines[i].what + 1))

\* Whether try_parse_loop finds a loop at line i.
IsLoop(lines, i) ==
    /\ IsStartPar(lines[i])
    /\ i + 6 =< Len(lines)
    /\ lines[i + 1] = Test
    /\ lines[i + 2] = Je(lines[i].what + 1)
    /\ LET c == close_idx(lines, i)
       IN  /\ c > i + 2
           /\ c + 2 =< Len(lines)
           /\ lines[c + 1] = Test
           /\ lines[c + 2] = Jne(lines[i].what)

Body(lines, i) == SubSeq(lines, i + 3, close_idx(lines, i) - 1)

IsClearBySome(body) == Len(body) = 1 /\ IsStep(body[1], AtA)
IsClear(body) == body = <<Sub(AtA, Number(1))>>

\* try_analyze_mult_body: where the pointer is, and what was added at each offset.
Analyzed(a, l) ==
    LET n == Sign(l) * l.args[2].value
    IN  IF l.args[1] = RegA
        THEN [a EXCEPT !.ptr = @ + n]
        ELSE [a EXCEPT !.mods =
                [o \in DOMAIN @ \cup {a.ptr} |->
                    (IF o \in DOMAIN a.mods THEN a.mods[o] ELSE 0)
                        + (IF o = a.ptr THEN n ELSE 0)]]

\* The same after each line of the body, and after the last.
Analyzing(body) ==
    LET after[k \in 0 .. Len(body)] ==
            IF k = 0 THEN [ptr |-> 0, mods |-> <<>>] ELSE Analyzed(after[k - 1], body[k])
    IN  after
Analysis(body) == Analyzing(body)[Len(body)]

MultipliesAnywhere(body) ==
    /\ Len(body) >= 2
    /\ body[1] = Sub(AtA, Number(1))
    /\ \A k \in 1 .. Len(body) : IsStep(body[k], RegA) \/ IsStep(body[k], AtA)
    /\ LET a == Analysis(body)
       IN  0 \in DOMAIN a.mods /\ a.mods[0] = -1 /\ DOMAIN a.mods # {0}
\* Whether a loop with this body is replaced by multiplications.
Multiplies(body) ==
    /\ Len(body) >= 2
    /\ body[1] = Sub(AtA, Number(1))
    /\ \A k \in 1 .. Len(body) : IsStep(body[k], RegA) \/ IsStep(body[k], AtA)
    /\ LET a == Analysis(body)
       IN  a.ptr = 0 /\ 0 \in DOMAIN a.mods /\ a.mods[0] = -1 /\ DOMAIN a.mods # {0}

\* How one cell gets its multiple of B.
Multiple(value, last) ==
    CASE value = 1 -> <<Add(AtA, RegB)>>
      [] value = -1 -> <<Sub(AtA, RegB)>>
      [] value \notin {1, -1} /\ last -> <<Mul(RegB, Number(value)), Add(AtA, RegB)>>
      [] OTHER -> <<Mov(RegC, RegB), Mul(RegC, Number(value)), Add(AtA, RegC)>>

\* What is written for each cell, from the lowest offset on, and where the pointer
\* is then.
Emitted(mods, lowest, highest) ==
    LET after[o \in (lowest - 1) .. highest] ==
            IF o = lowest - 1
            THEN [out |-> <<Mov(RegB, AtA), Mov(AtA, Number(0))>>, cur |-> 0]
            ELSE IF o \in DOMAIN mods
            THEN [out |-> after[o - 1].out \o AddOrSub(RegA, o - after[o - 1].cur)
                              \o Multiple(mods[o], o = highest),
                  cur |-> o]
            ELSE after[o - 1]
    IN  after

emit_mul_replacement(mods) ==
    LET highest == Max(DOMAIN mods)
        all == Emitted(mods, Min(DOMAIN mods), highest)[highest]
    IN  all.out \o AddOrSub(RegA, - all.cur)

\* One pass of the loop over the lines: i is the line, next the one to go on with.
Replaced(lines, r, i) ==
    LET body == Body(lines, i)
        mods == Analysis(body).mods
        others == [o \in DOMAIN mods \ {0} |-> mods[o]]
        beyond == close_idx(lines, i) + 3
    IN  CASE i < r.next -> r
          [] i >= r.next /\ IsLoop(lines, i) /\ IsClear(body) ->
                [out |-> Append(r.out, Mov(AtA, Number(0))), next |-> beyond]
          [] i >= r.next /\ IsLoop(lines, i) /\ Multiplies(body) ->
                [out |-> r.out \o emit_mul_replacement(others), next |-> beyond]
          [] OTHER -> [out |-> Append(r.out, lines[i]), next |-> i + 1]

Replacing(lines) ==
    LET after[i \in 0 .. Len(lines)] ==
            IF i = 0 THEN [out |-> <<>>, next |-> 1] ELSE Replaced(lines, after[i - 1], i)
    IN  after

apply_loop_optimizations(lines) == Replacing(lines)[Len(lines)].out

-----------------------------------------------------------------------------
\* compile's variables after each character.
Translation(chars) ==
    LET after[k \in 0 .. Len(chars)] ==
            IF k = 0 THEN Preamble ELSE Translated(after[k - 1], chars[k])
    IN  after

\* All lines before the optimizations.
Lines(chars) == Append(Translation(chars)[Len(chars)].code_tmp, Instruction(HALT, <<>>))

CompiledUnclosed(chars) ==
    IF Translation(chars)[Len(chars)].thrown THEN <<>>
    ELSE apply_loop_optimizations(apply_optimizations(Lines(chars)))
\* compile: the lines it hands to the assembler, none if it throws.
compile(chars) ==
    LET s == Translation(chars)[Len(chars)]
    IN  IF s.thrown \/ s.par_stack # <<>> THEN <<>>
        ELSE apply_loop_optimizations(apply_optimizations(Lines(chars)))
=============================================================================
