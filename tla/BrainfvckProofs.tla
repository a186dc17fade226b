--------------------------- MODULE BrainfvckProofs ---------------------------
(***************************************************************************)
(* Theorems about BrainfvckRun: what compile makes of a program does what  *)
(* the program does, for every program and range of a cell.                *)
(*                                                                         *)
(* Each pass is a recursive function; first it is shown to have values.    *)
(* Then come the places: where the lines of a character are, where folding *)
(* and replacing loops put them, and that every jump keeps its label.      *)
(* The machine and the language are then functions of their states, and    *)
(* three simulations, one for each pass, lead from a program to its code;  *)
(* the invariant, Paired, is that both have come from states which the     *)
(* three relate.                                                           *)
(***************************************************************************)
EXTENDS BrainfvckRun, CommonProofs, SequenceTheorems, FiniteSetTheorems

-----------------------------------------------------------------------------
(* Lines and the states of the passes.                                        *)

Chars == {"+", "-", "<", ">", "[", "]", ".", ",", "#"}

Argument == [shape : {"register", "number", "name"}, bracketed : BOOLEAN, value : Int]
Assembly == [kind : {"label", "skip", "instruction"}, what : Nat, args : Seq(Argument)]

\* What the lines that compile writes are made of.
LEMMA ArgumentTypes ==
    /\ RegA \in Argument /\ RegB \in Argument /\ RegC \in Argument /\ AtA \in Argument
    /\ \A n \in Int : Number(n) \in Argument /\ Plain("name", n) \in Argument
BY DEF Argument, Number, Plain, InBrackets, RegA, RegB, RegC, AtA

\* Labels, skips and instructions are lines.
LEMMA LineTypes ==
    /\ \A n \in Nat : Label(n) \in Assembly
    /\ \A d \in Argument : Skip(<<d>>) \in Assembly
    /\ \A n \in Nat : /\ Instruction(n, <<>>) \in Assembly
                      /\ \A d \in Argument : Instruction(n, <<d>>) \in Assembly
                      /\ \A d, e \in Argument : Instruction(n, <<d, e>>) \in Assembly
BY DEF Assembly, Label, Skip, Instruction

\* So is every line that compile writes.
LEMMA InstructionTypes ==
    /\ \A d, e \in Argument :
          /\ Mov(d, e) \in Assembly /\ Add(d, e) \in Assembly
          /\ Sub(d, e) \in Assembly /\ Mul(d, e) \in Assembly
    /\ \A n \in Nat : Je(n) \in Assembly /\ Jne(n) \in Assembly
    /\ Test \in Assembly
    /\ Instruction(PRINT, <<AtA>>) \in Assembly /\ Instruction(INPUT, <<AtA>>) \in Assembly
    /\ Instruction(HALT, <<>>) \in Assembly
<1>1. /\ MOV \in Nat /\ ADD \in Nat /\ SUB \in Nat /\ MUL \in Nat /\ JE \in Nat
      /\ JNE \in Nat /\ CMP \in Nat /\ PRINT \in Nat /\ INPUT \in Nat /\ HALT \in Nat
  BY DEF MOV, ADD, SUB, MUL, JE, JNE, CMP, PRINT, INPUT, HALT
<1>2. 0 \in Int /\ Nat \subseteq Int
  OBVIOUS
<1>. QED
  BY <1>1, <1>2, ArgumentTypes, LineTypes, Zenon DEF Mov, Add, Sub, Mul, Je, Jne, Test

Translating == [code_tmp : Seq(Assembly), par_stack : Seq(Nat),
                number_of_par : Nat, thrown : BOOLEAN]

\* compile starts with lines, no bracket open and nothing thrown.
LEMMA PreambleType == Preamble \in Translating
<1>1. /\ Skip(<<Number(30000)>>) \in Assembly /\ Label(start) \in Assembly
      /\ Mov(RegA, Number(2)) \in Assembly
  BY ArgumentTypes, LineTypes, InstructionTypes DEF start
<1>2. <<Skip(<<Number(30000)>>), Label(start), Mov(RegA, Number(2))>> \in Seq(Assembly)
  BY <1>1
<1>. QED
  BY <1>2 DEF Preamble, Translating

\* Writing lines changes the lines only.
LEMMA WrittenType ==
    ASSUME NEW s \in Translating, NEW lines \in Seq(Assembly)
    PROVE  /\ Written(s, lines) \in Translating
           /\ Written(s, lines).code_tmp = s.code_tmp \o lines
           /\ Written(s, lines).par_stack = s.par_stack
           /\ Written(s, lines).number_of_par = s.number_of_par
           /\ Written(s, lines).thrown = s.thrown
<1>1. s.code_tmp \o lines \in Seq(Assembly)
  BY ConcatProperties DEF Translating
<1>. QED
  BY <1>1, Zenon DEF Written, Translating

\* The lines of a character that is not a bracket.
LinesOf(c) ==
    CASE c = ">" -> <<Add(RegA, Number(1))>>
      [] c = "<" -> <<Sub(RegA, Number(1))>>
      [] c = "+" -> <<Add(AtA, Number(1))>>
      [] c = "-" -> <<Sub(AtA, Number(1))>>
      [] c = "." -> <<Instruction(PRINT, <<AtA>>)>>
      [] c = "," -> <<Instruction(INPUT, <<AtA>>)>>
      [] OTHER -> <<>>

Opened(id) == <<Label(start_par(id)), Test, Je(close_par(id))>>
Closed(id) == <<Label(close_par(id)), Test, Jne(start_par(id))>>

\* What compile writes for a character is lines.
LEMMA BlockTypes ==
    /\ \A c \in Chars : LinesOf(c) \in Seq(Assembly)
    /\ \A id \in Nat : Opened(id) \in Seq(Assembly) /\ Closed(id) \in Seq(Assembly)
<1>1. ASSUME NEW c \in Chars PROVE LinesOf(c) \in Seq(Assembly)
  <2>1. 1 \in Int
    OBVIOUS
  <2>2. /\ Add(RegA, Number(1)) \in Assembly /\ Sub(RegA, Number(1)) \in Assembly
        /\ Add(AtA, Number(1)) \in Assembly /\ Sub(AtA, Number(1)) \in Assembly
    BY <2>1, ArgumentTypes, InstructionTypes, Zenon
  <2>3. \A l \in Assembly : <<l>> \in Seq(Assembly)
    OBVIOUS
  <2>. QED
    BY <2>2, <2>3, InstructionTypes, EmptySeq DEF LinesOf, Chars
<1>2. ASSUME NEW id \in Nat PROVE Opened(id) \in Seq(Assembly) /\ Closed(id) \in Seq(Assembly)
  <2>1. start_par(id) \in Nat /\ close_par(id) \in Nat
    BY DEF start_par, close_par
  <2>2. Label(start_par(id)) \in Assembly /\ Label(close_par(id)) \in Assembly
    BY <2>1, LineTypes
  <2>3. Je(close_par(id)) \in Assembly /\ Jne(start_par(id)) \in Assembly /\ Test \in Assembly
    BY <2>1, InstructionTypes
  <2>. QED
    BY <2>2, <2>3 DEF Opened, Closed
<1>. QED
  BY <1>1, <1>2

\* What one character does to compile's variables.
LEMMA CharacterWrites ==
    ASSUME NEW s \in Translating, NEW c \in Chars, ~ s.thrown
    PROVE  /\ c \notin {"[", "]"} => Translated(s, c) = Written(s, LinesOf(c))
           /\ c = "[" => Translated(s, c) =
                 [code_tmp |-> s.code_tmp \o Opened(s.number_of_par),
                  par_stack |-> Append(s.par_stack, s.number_of_par),
                  number_of_par |-> s.number_of_par + 1, thrown |-> FALSE]
           /\ c = "]" /\ s.par_stack = <<>> => Translated(s, c) = [s EXCEPT !.thrown = TRUE]
           /\ c = "]" /\ s.par_stack # <<>> => Translated(s, c) =
                 [code_tmp |-> s.code_tmp \o Closed(Last(s.par_stack)),
                  par_stack |-> Front(s.par_stack),
                  number_of_par |-> s.number_of_par, thrown |-> FALSE]
<1>1. CASE c = "["
  <2>1. Translated(s, c) = OpenPar(s)
    BY <1>1 DEF Translated
  <2>2. Written(s, Opened(s.number_of_par)) \in Translating
    BY BlockTypes, WrittenType, Zenon DEF Translating
  <2>. QED
    BY <1>1, <2>1, Zenon DEF OpenPar, Written, Opened, Translating
<1>2. CASE c = "]"
  <2>1. s.par_stack = <<>> => Translated(s, c) = [s EXCEPT !.thrown = TRUE]
    BY <1>2 DEF Translated
  <2>2. s.par_stack # <<>> => Translated(s, c) = ClosePar(s)
    BY <1>2 DEF Translated
  <2>. QED
    BY <1>2, <2>1, <2>2, Zenon DEF ClosePar, Written, Closed, Translating
<1>3. CASE c \notin {"[", "]"}
  <2>1. CASE c = "#"
    <3>1. Translated(s, c) = s /\ LinesOf(c) = <<>>
      BY <2>1 DEF Translated, LinesOf
    <3>2. s.code_tmp \o <<>> = s.code_tmp
      BY ConcatEmptySeq DEF Translating
    <3>. QED
      BY <1>3, <3>1, <3>2 DEF Written, Translating
  <2>2. CASE c # "#"
    BY <1>3, <2>2 DEF Translated, LinesOf, Chars
  <2>. QED
    BY <2>1, <2>2, Zenon
<1>. QED
  BY <1>1, <1>2, <1>3, Zenon

\* A character leaves compile with variables of their types.
LEMMA TranslatedType ==
    ASSUME NEW s \in Translating, NEW c \in Chars
    PROVE  Translated(s, c) \in Translating
<1>1. CASE s.thrown
  BY <1>1 DEF Translated
<1>2. CASE ~ s.thrown
  <2>1. CASE c \notin {"[", "]"}
    <3>1. Translated(s, c) = Written(s, LinesOf(c))
      BY <1>2, <2>1, CharacterWrites, Zenon
    <3>. QED
      BY <3>1, BlockTypes, WrittenType
  <2>2. CASE c = "["
    <3>1. s.code_tmp \o Opened(s.number_of_par) \in Seq(Assembly)
      BY BlockTypes, ConcatProperties DEF Translating
    <3>2. Append(s.par_stack, s.number_of_par) \in Seq(Nat)
      BY DEF Translating
    <3>3. Translated(s, c) = [code_tmp |-> s.code_tmp \o Opened(s.number_of_par),
                              par_stack |-> Append(s.par_stack, s.number_of_par),
                              number_of_par |-> s.number_of_par + 1, thrown |-> FALSE]
      BY <1>2, <2>2, CharacterWrites, Zenon
    <3>. QED
      BY <3>1, <3>2, <3>3 DEF Translating
  <2>3. CASE c = "]" /\ s.par_stack = <<>>
    <3>1. Translated(s, c) = [s EXCEPT !.thrown = TRUE]
      BY <1>2, <2>3, CharacterWrites, Zenon
    <3>. QED
      BY <3>1, Zenon DEF Translating
  <2>4. CASE c = "]" /\ s.par_stack # <<>>
    <3>1. Last(s.par_stack) \in Nat /\ Front(s.par_stack) \in Seq(Nat)
      BY <2>4, SubSeqProperties DEF Last, Front, Translating
    <3>2. s.code_tmp \o Closed(Last(s.par_stack)) \in Seq(Assembly)
      BY <3>1, BlockTypes, ConcatProperties DEF Translating
    <3>3. Translated(s, c) = [code_tmp |-> s.code_tmp \o Closed(Last(s.par_stack)),
                              par_stack |-> Front(s.par_stack),
                              number_of_par |-> s.number_of_par, thrown |-> FALSE]
      BY <1>2, <2>4, CharacterWrites, Zenon
    <3>. QED
      BY <3>1, <3>2, <3>3 DEF Translating
  <2>. QED
    BY <2>1, <2>2, <2>3, <2>4
<1>. QED
  BY <1>1, <1>2

\* The recursive definition of compile's variables after each character has a
\* solution.
LEMMA TranslationRuns ==
    ASSUME NEW text \in Seq(Chars)
    PROVE  /\ Translation(text) \in [0 .. Len(text) -> Translating]
           /\ Translation(text)[0] = Preamble
           /\ \A k \in 1 .. Len(text) :
                 Translation(text)[k] = Translated(Translation(text)[k - 1], text[k])
<1>. DEFINE n == Len(text)
            step == [ks \in ((0 + 1) .. n) \X Translating |-> Translated(ks[2], text[ks[1]])]
            Solves(f) == f = [k \in 0 .. Len(text) |->
                                IF k = 0 THEN Preamble ELSE Translated(f[k - 1], text[k])]
<1>1. n \in Int /\ 0 \in Int /\ 0 =< n
  OBVIOUS
<1>2. step \in [((0 + 1) .. n) \X Translating -> Translating]
  <2>1. ASSUME NEW ks \in ((0 + 1) .. n) \X Translating
        PROVE  Translated(ks[2], text[ks[1]]) \in Translating
    <3>1. text[ks[1]] \in Chars
      BY <2>1
    <3>. QED
      BY <2>1, <3>1, TranslatedType
  <2>. QED
    BY <2>1
<1>3. PICK f : IsRun(f, Translating, Preamble, 0, n, step)
  <2>. HIDE DEF step, n
  <2>. QED
    BY <1>1, <1>2, PreambleType, StepsHaveRun, Zenon
<1>4. /\ f \in [0 .. n -> Translating] /\ f[0] = Preamble
      /\ \A k \in 1 .. n : f[k - 1] \in Translating /\ f[k] = Translated(f[k - 1], text[k])
  BY <1>3 DEF IsRun
<1>. HIDE DEF step
<1>5. Solves(f)
  BY <1>4
<1>. DEFINE g == CHOOSE h : Solves(h)
<1>6. Solves(g)
  <2>. HIDE DEF Solves
  <2>. QED
    BY <1>5
<1>7. Translation(text) = g
  BY Zenon DEF Translation
<1>. HIDE DEF g
<1>8. \A k \in (0 + 1) .. n : g[k - 1] \in Translating => g[k] = step[<<k, g[k - 1]>>]
  BY <1>6 DEF step
<1>9. g = [k \in 0 .. n |-> g[k]] /\ g[0] = Preamble
  BY <1>6
<1>10. IsRun(g, Translating, Preamble, 0, n, step)
  <2>. HIDE DEF n, Solves
  <2>. QED
    BY <1>1, <1>3, <1>8, <1>9, RunIsUnique, Zenon
<1>. QED
  BY <1>7, <1>10 DEF IsRun, step

-----------------------------------------------------------------------------
(* Brackets.                                                                  *)

\* How often a character occurs is a number, and is counted from left to right.
LEMMA OccurrencesFinite ==
    ASSUME NEW text, NEW c, NEW i \in Int, NEW j \in Int
    PROVE  IsFiniteSet({k \in i .. j : text[k] = c})
<1>1. IsFiniteSet(i .. j)
  BY FS_Interval
<1>2. {k \in i .. j : text[k] = c} \subseteq i .. j
  OBVIOUS
<1>. QED
  BY <1>1, <1>2, FS_Subset

\* A count is a number.
LEMMA CountTypes ==
    ASSUME NEW text, NEW c, NEW i \in Int, NEW j \in Int
    PROVE  Count(text, c, i, j) \in Nat
BY OccurrencesFinite, FS_CardinalityType, Zenon DEF Count

\* What is counted in two parts is counted in all.
LEMMA CountSplits ==
    ASSUME NEW text, NEW c, NEW i \in Int, NEW j \in Int, NEW k \in Int,
           i =< j + 1, j =< k
    PROVE  Count(text, c, i, k) = Count(text, c, i, j) + Count(text, c, j + 1, k)
<1>. DEFINE left == {m \in i .. j : text[m] = c}
            right == {m \in (j + 1) .. k : text[m] = c}
            all == {m \in i .. k : text[m] = c}
<1>1. IsFiniteSet(left) /\ IsFiniteSet(right)
  <2>1. IsFiniteSet(left)
    BY OccurrencesFinite, Zenon
  <2>2. j + 1 \in Int
    OBVIOUS
  <2>3. IsFiniteSet(right)
    BY <2>2, OccurrencesFinite, ZenonT(30)
  <2>. QED
    BY <2>1, <2>3
<1>2. all = left \cup right /\ left \cap right = {}
  OBVIOUS
<1>3. Cardinality(left \cup right) =
          Cardinality(left) + Cardinality(right) - Cardinality(left \cap right)
  <2>. HIDE DEF left, right
  <2>. QED
    BY <1>1, FS_Union
<1>4. Cardinality(left \cap right) = 0
  BY <1>2, FS_EmptySet
<1>5. Cardinality(left) \in Nat /\ Cardinality(right) \in Nat
  BY <1>1, FS_CardinalityType
<1>. HIDE DEF left, right, all
<1>6. Cardinality(all) = Cardinality(left) + Cardinality(right)
  BY <1>2, <1>3, <1>4, <1>5
<1>. QED
  BY <1>6 DEF Count, left, right, all

\* One character counts once, none not at all.
LEMMA CountOne ==
    ASSUME NEW text, NEW c, NEW i \in Int
    PROVE  /\ Count(text, c, i, i) = IF text[i] = c THEN 1 ELSE 0
           /\ Count(text, c, i, i - 1) = 0
<1>1. {k \in i .. i : text[k] = c} = IF text[i] = c THEN {i} ELSE {}
  OBVIOUS
<1>2. {k \in i .. (i - 1) : text[k] = c} = {}
  OBVIOUS
<1>. QED
  BY <1>1, <1>2, FS_EmptySet, FS_Singleton, Zenon DEF Count

\* How many brackets are open after the character at k.
depth(text, k) == Count(text, "[", 1, k) - Count(text, "]", 1, k)

\* The depth of brackets, character by character.
LEMMA DepthSteps ==
    ASSUME NEW text
    PROVE  /\ \A k \in Int : depth(text, k) \in Int
           /\ depth(text, 0) = 0
           /\ \A k \in Nat \ {0} :
                 depth(text, k) = CASE text[k] = "[" -> depth(text, k - 1) + 1
                                    [] text[k] = "]" -> depth(text, k - 1) - 1
                                    [] OTHER -> depth(text, k - 1)
<1>1. \A k \in Int : depth(text, k) \in Int
  BY CountTypes DEF depth
<1>2. depth(text, 0) = 0
  <2>1. \A c : Count(text, c, 1, 1 - 1) = 0
    BY CountOne
  <2>. QED
    BY <2>1 DEF depth
<1>3. ASSUME NEW k \in Nat \ {0}
      PROVE  depth(text, k) = CASE text[k] = "[" -> depth(text, k - 1) + 1
                                [] text[k] = "]" -> depth(text, k - 1) - 1
                                [] OTHER -> depth(text, k - 1)
  <2>1. ASSUME NEW c
        PROVE  /\ Count(text, c, 1, k) =
                     Count(text, c, 1, k - 1) + IF text[k] = c THEN 1 ELSE 0
               /\ Count(text, c, 1, k - 1) \in Nat
    <3>1. Count(text, c, 1, k) = Count(text, c, 1, k - 1) + Count(text, c, (k - 1) + 1, k)
      BY CountSplits
    <3>2. (k - 1) + 1 = k
      OBVIOUS
    <3>. QED
      BY <3>1, <3>2, CountOne, CountTypes
  <2>. QED
    BY <2>1 DEF depth
<1>. QED
  BY <1>1, <1>2, <1>3

\* As many open as close between two characters when the depth is the same.
LEMMA EvenIsDepth ==
    ASSUME NEW text, NEW i \in Nat \ {0}, NEW j \in Nat, i =< j
    PROVE  Even(text, i, j) <=> depth(text, j) = depth(text, i - 1)
<1>1. ASSUME NEW c
      PROVE  /\ Count(text, c, 1, j) = Count(text, c, 1, i - 1) + Count(text, c, i, j)
             /\ Count(text, c, 1, i - 1) \in Nat /\ Count(text, c, i, j) \in Nat
  <2>1. Count(text, c, 1, j) = Count(text, c, 1, i - 1) + Count(text, c, (i - 1) + 1, j)
    BY CountSplits
  <2>2. (i - 1) + 1 = i
    OBVIOUS
  <2>. QED
    BY <2>1, <2>2, CountTypes
<1>2. /\ Count(text, "[", 1, j) = Count(text, "[", 1, i - 1) + Count(text, "[", i, j)
      /\ Count(text, "]", 1, j) = Count(text, "]", 1, i - 1) + Count(text, "]", i, j)
      /\ Count(text, "[", 1, i - 1) \in Nat /\ Count(text, "[", i, j) \in Nat
      /\ Count(text, "]", 1, i - 1) \in Nat /\ Count(text, "]", i, j) \in Nat
  BY <1>1
<1>. QED
  BY <1>2 DEF Even, depth

\* Brackets match when the depth ends at 0 and never is below it.
LEMMA BalancedIsDepth ==
    ASSUME NEW text \in Seq(Chars)
    PROVE  Balanced(text) <=> /\ depth(text, Len(text)) = 0
                              /\ \A j \in 1 .. Len(text) : depth(text, j) >= 0
<1>1. \A j \in 1 .. Len(text) : Count(text, "[", 1, j) \in Nat /\ Count(text, "]", 1, j) \in Nat
  BY CountTypes
<1>2. Len(text) = 0 => depth(text, Len(text)) = 0 /\ Even(text, 1, Len(text))
  <2>1. \A c : Count(text, c, 1, 1 - 1) = 0
    BY CountOne
  <2>. QED
    BY <2>1 DEF depth, Even
<1>3. Len(text) # 0 => (Even(text, 1, Len(text)) <=> depth(text, Len(text)) = 0)
  <2>1. Len(text) \in Nat
    OBVIOUS
  <2>2. depth(text, 1 - 1) = 0
    BY DepthSteps
  <2>. QED
    BY <2>1, <2>2, EvenIsDepth
<1>. QED
  BY <1>1, <1>2, <1>3 DEF Balanced, depth

\* compile throws as soon as more brackets are closed than were open; until then its
\* stack holds one number for each open bracket.
LEMMA StackIsDepth ==
    ASSUME NEW text \in Seq(Chars), NEW k \in 0 .. Len(text)
    PROVE  LET s == Translation(text)[k]
           IN  /\ s.thrown <=> \E j \in 1 .. k : depth(text, j) < 0
               /\ ~ s.thrown => Len(s.par_stack) = depth(text, k)
<1>. DEFINE T == Translation(text)
            Right(m) == /\ T[m].thrown <=> \E j \in 1 .. m : depth(text, j) < 0
                        /\ ~ T[m].thrown => Len(T[m].par_stack) = depth(text, m)
            right == {m \in 0 .. Len(text) : Right(m)}
<1>1. Len(text) \in Int /\ 0 \in Int
  OBVIOUS
<1>2. Right(0)
  <2>1. T[0].thrown = FALSE /\ T[0].par_stack = <<>>
    BY TranslationRuns DEF Preamble
  <2>2. Len(<<>>) = 0
    OBVIOUS
  <2>. QED
    BY <2>1, <2>2, DepthSteps
<1>3. ASSUME NEW m \in 1 .. Len(text), Right(m - 1) PROVE Right(m)
  <2>1. /\ T[m - 1] \in Translating /\ text[m] \in Chars /\ m \in Nat \ {0}
        /\ T[m] = Translated(T[m - 1], text[m])
    <3>1. m - 1 \in 0 .. Len(text) /\ m \in Nat \ {0} /\ text[m] \in Chars
      BY <1>3
    <3>. HIDE DEF Right
    <3>. QED
      BY <1>3, <3>1, TranslationRuns, Zenon
  <2>2. /\ depth(text, m - 1) \in Int /\ depth(text, m) \in Int
        /\ depth(text, m) = CASE text[m] = "[" -> depth(text, m - 1) + 1
                               [] text[m] = "]" -> depth(text, m - 1) - 1
                               [] OTHER -> depth(text, m - 1)
    BY <2>1, DepthSteps
  <2>3. (\E j \in 1 .. m : depth(text, j) < 0) <=>
            (\E j \in 1 .. (m - 1) : depth(text, j) < 0) \/ depth(text, m) < 0
    OBVIOUS
  <2>. HIDE DEF T
  <2>4. CASE T[m - 1].thrown
    <3>1. T[m] = T[m - 1]
      BY <2>1, <2>4 DEF Translated
    <3>. QED
      BY <1>3, <2>3, <2>4, <3>1
  <2>5. CASE ~ T[m - 1].thrown
    <3>1. T[m - 1].par_stack \in Seq(Nat) /\ Len(T[m - 1].par_stack) = depth(text, m - 1)
      BY <1>3, <2>1, <2>5 DEF Translating
    <3>2. CASE text[m] = "["
      <4>1. /\ T[m].thrown = FALSE
            /\ T[m].par_stack = Append(T[m - 1].par_stack, T[m - 1].number_of_par)
        <5>1. T[m] = [code_tmp |-> T[m - 1].code_tmp \o Opened(T[m - 1].number_of_par),
                      par_stack |-> Append(T[m - 1].par_stack, T[m - 1].number_of_par),
                      number_of_par |-> T[m - 1].number_of_par + 1, thrown |-> FALSE]
          BY <2>1, <2>5, <3>2, CharacterWrites, Zenon
        <5>. QED
          BY <5>1
      <4>2. Len(T[m].par_stack) = Len(T[m - 1].par_stack) + 1
        BY <3>1, <4>1
      <4>. QED
        BY <1>3, <2>2, <2>3, <2>5, <3>1, <3>2, <4>1, <4>2
    <3>3. CASE text[m] = "]" /\ T[m - 1].par_stack = <<>>
      <4>1. T[m] = [T[m - 1] EXCEPT !.thrown = TRUE]
        BY <2>1, <2>5, <3>3, CharacterWrites, Zenon
      <4>2. T[m].thrown
        BY <2>1, <4>1 DEF Translating
      <4>3. depth(text, m) < 0
        BY <2>2, <3>1, <3>3
      <4>. QED
        BY <2>3, <4>2, <4>3
    <3>4. CASE text[m] = "]" /\ T[m - 1].par_stack # <<>>
      <4>1. T[m].thrown = FALSE /\ T[m].par_stack = Front(T[m - 1].par_stack)
        <5>1. T[m] = [code_tmp |-> T[m - 1].code_tmp \o Closed(Last(T[m - 1].par_stack)),
                      par_stack |-> Front(T[m - 1].par_stack),
                      number_of_par |-> T[m - 1].number_of_par, thrown |-> FALSE]
          BY <2>1, <2>5, <3>4, CharacterWrites, Zenon
        <5>. QED
          BY <5>1
      <4>2. /\ Len(T[m - 1].par_stack) >= 1
            /\ Len(T[m].par_stack) = Len(T[m - 1].par_stack) - 1
        BY <3>1, <3>4, <4>1, SMTT(30) DEF Front
      <4>. QED
        BY <1>3, <2>2, <2>3, <2>5, <3>1, <3>4, <4>1, <4>2
    <3>5. CASE text[m] \notin {"[", "]"}
      <4>1. T[m] = Written(T[m - 1], LinesOf(text[m]))
        BY <2>1, <2>5, <3>5, CharacterWrites, Zenon
      <4>2. T[m].thrown = FALSE /\ T[m].par_stack = T[m - 1].par_stack
        <5>1. LinesOf(text[m]) \in Seq(Assembly)
          BY <2>1, BlockTypes, Zenon
        <5>. QED
          BY <2>1, <2>5, <4>1, <5>1, WrittenType
      <4>. QED
        BY <1>3, <2>2, <2>3, <2>5, <3>1, <3>5, <4>2
    <3>. QED
      BY <3>2, <3>3, <3>4, <3>5
  <2>. QED
    BY <2>4, <2>5
<1>4. \A m \in 0 .. Len(text) : m \in right
  <2>1. 0 \in right
    BY <1>2
  <2>2. \A m \in (0 + 1) .. Len(text) : m - 1 \in right => m \in right
    BY <1>3
  <2>. HIDE DEF right
  <2>. QED
    BY <1>1, <2>1, <2>2, UpTo, Zenon
<1>. QED
  BY <1>4

\* compile throws on exactly the programs whose brackets do not match.
LEMMA ThrowsUnbalanced ==
    ASSUME NEW text \in Seq(Chars)
    PROVE  LET s == Translation(text)[Len(text)]
           IN  s.thrown \/ s.par_stack # <<>> <=> ~ Balanced(text)
<1>. DEFINE s == Translation(text)[Len(text)]
<1>1. Len(text) \in 0 .. Len(text) /\ s \in Translating
  BY TranslationRuns
<1>2. /\ s.thrown <=> \E j \in 1 .. Len(text) : depth(text, j) < 0
      /\ ~ s.thrown => Len(s.par_stack) = depth(text, Len(text))
  BY <1>1, StackIsDepth
<1>3. s.par_stack = <<>> <=> Len(s.par_stack) = 0
  BY <1>1 DEF Translating
<1>4. \A j \in 1 .. Len(text) : depth(text, j) \in Int
  BY DepthSteps
<1>. QED
  BY <1>2, <1>3, <1>4, BalancedIsDepth

-----------------------------------------------------------------------------
(* The shape of the lines.                                                    *)

PrintLine == Instruction(PRINT, <<AtA>>)
InputLine == Instruction(INPUT, <<AtA>>)
HaltLine == Instruction(HALT, <<>>)

\* What tells the lines apart.
LEMMA Fields ==
    /\ \A x : Label(x).kind = "label" /\ Label(x).what = x
    /\ \A x : Skip(x).kind = "skip"
    /\ \A d, e : /\ Mov(d, e).kind = "instruction" /\ Mov(d, e).what = 18
                 /\ Add(d, e).kind = "instruction" /\ Add(d, e).what = 50
                 /\ Sub(d, e).kind = "instruction" /\ Sub(d, e).what = 82
                 /\ Mul(d, e).kind = "instruction" /\ Mul(d, e).what = 114
    /\ \A x : /\ Je(x).kind = "instruction" /\ Je(x).what = 65
              /\ Jne(x).kind = "instruction" /\ Jne(x).what = 81
    /\ Test.kind = "instruction" /\ Test.what = 178
    /\ PrintLine.kind = "instruction" /\ PrintLine.what = 1
    /\ InputLine.kind = "instruction" /\ InputLine.what = 33
    /\ HaltLine.kind = "instruction" /\ HaltLine.what = 255
BY DEF Label, Skip, Instruction, Mov, Add, Sub, Mul, Je, Jne, Test, PrintLine, InputLine, HaltLine,
       MOV, ADD, SUB, MUL, JE, JNE, CMP, PRINT, INPUT, HALT

\* The operands of the lines.
LEMMA ArgumentFields ==
    /\ \A d, e : /\ Mov(d, e).args[1] = d /\ Mov(d, e).args[2] = e
                 /\ Add(d, e).args[1] = d /\ Add(d, e).args[2] = e
                 /\ Sub(d, e).args[1] = d /\ Sub(d, e).args[2] = e
                 /\ Mul(d, e).args[1] = d /\ Mul(d, e).args[2] = e
    /\ \A x : Je(x).args[1].value = x /\ Jne(x).args[1].value = x
    /\ Test.args[1] = AtA /\ Test.args[2] = Number(0)
    /\ PrintLine.args[1] = AtA /\ InputLine.args[1] = AtA
BY DEF Instruction, Mov, Add, Sub, Mul, Je, Jne, Test, PrintLine, InputLine, Plain

Places == {RegA, AtA}
\* The pointer is not the cell it points at.
LEMMA PlacesDiffer == RegA # AtA
BY DEF RegA, AtA, Plain, InBrackets

\* A step by n, up or down, of the pointer or of the cell.
StepBy(l, n) == \E p \in Places : l = Add(p, Number(n)) \/ l = Sub(p, Number(n))

PlainLine(l) ==
    l \in {Skip(<<Number(30000)>>), Label(start), Mov(RegA, Number(2)), PrintLine, InputLine, Test}

BracketLine(l) ==
    \E id \in Nat : \/ l = Label(start_par(id)) \/ l = Label(close_par(id))
                    \/ l = Je(close_par(id)) \/ l = Jne(start_par(id))

\* Labels, jumps and the others are different lines.
LEMMA LinesDiffer ==
    /\ \A i, j \in Nat :
          /\ Label(start_par(i)) # Label(close_par(j))
          /\ Label(start_par(i)) # Label(start) /\ Label(close_par(i)) # Label(start)
          /\ Label(start_par(i)) = Label(start_par(j)) => i = j
          /\ Label(close_par(i)) = Label(close_par(j)) => i = j
          /\ Je(close_par(i)) = Je(close_par(j)) => i = j
          /\ Jne(start_par(i)) = Jne(start_par(j)) => i = j
    /\ \A x, y : /\ Label(x) # Je(y) /\ Label(x) # Jne(y) /\ Je(x) # Jne(y)
                 /\ Label(x) # Test /\ Je(x) # Test /\ Jne(x) # Test
                 /\ Label(x) # HaltLine /\ Je(x) # HaltLine /\ Jne(x) # HaltLine
<1>1. \A i, j \in Nat : Je(close_par(i)) = Je(close_par(j)) => i = j
  BY ArgumentFields DEF close_par
<1>2. \A i, j \in Nat : Jne(start_par(i)) = Jne(start_par(j)) => i = j
  BY ArgumentFields DEF start_par
<1>. QED
  BY <1>1, <1>2, Fields DEF start_par, close_par, start

\* A line that is neither a label nor a jump changes none of the blocks.
LEMMA OtherLine ==
    ASSUME NEW l, (PlainLine(l) /\ l # Label(start)) \/ (\E n : StepBy(l, n)) \/ l = HaltLine
    PROVE  l.kind # "label" /\ \A x : l # Label(x) /\ l # Je(x) /\ l # Jne(x)
BY Fields DEF PlainLine, StepBy

-----------------------------------------------------------------------------
(* The lines of each character of a program whose brackets match.             *)

Program(text) == text \in Seq(Chars) /\ Balanced(text)

\* The number of the bracket at k, if there is one there.
parOf(text, k) ==
    LET s == Translation(text)[k - 1]
    IN  IF text[k] = "[" THEN s.number_of_par ELSE Last(s.par_stack)

Block(text, k) ==
    CASE text[k] = "[" -> Opened(parOf(text, k))
      [] text[k] = "]" -> Closed(parOf(text, k))
      [] OTHER -> LinesOf(text[k])

\* compile's variables before and after each character.
LEMMA BlockWritten ==
    ASSUME NEW text, Program(text), NEW k \in 1 .. Len(text)
    PROVE  LET s == Translation(text)[k - 1]
               t == Translation(text)[k]
           IN  /\ s \in Translating /\ t \in Translating
               /\ Len(s.par_stack) = depth(text, k - 1) /\ Len(t.par_stack) = depth(text, k)
               /\ text[k] \in Chars
               /\ Block(text, k) \in Seq(Assembly)
               /\ t.code_tmp = s.code_tmp \o Block(text, k)
               /\ text[k] = "[" => /\ t.par_stack = Append(s.par_stack, parOf(text, k))
                                   /\ parOf(text, k) = s.number_of_par
                                   /\ t.number_of_par = s.number_of_par + 1
               /\ text[k] = "]" => /\ s.par_stack # <<>> /\ t.par_stack = Front(s.par_stack)
                                   /\ parOf(text, k) = Last(s.par_stack)
                                   /\ parOf(text, k) \in Nat
                                   /\ t.number_of_par = s.number_of_par
               /\ text[k] \notin {"[", "]"} => /\ t.par_stack = s.par_stack
                                              /\ t.number_of_par = s.number_of_par
<1>. DEFINE s == Translation(text)[k - 1]
            t == Translation(text)[k]
            c == text[k]
<1>1. text \in Seq(Chars) /\ k \in 0 .. Len(text) /\ k - 1 \in 0 .. Len(text) /\ c \in Chars
  BY DEF Program
<1>2. s \in Translating /\ t \in Translating /\ t = Translated(s, c)
  BY <1>1, TranslationRuns, Zenon
<1>3. /\ ~ s.thrown /\ ~ t.thrown
      /\ Len(s.par_stack) = depth(text, k - 1) /\ Len(t.par_stack) = depth(text, k)
  <2>1. \A j \in 1 .. Len(text) : ~ (depth(text, j) < 0)
    <3>1. \A j \in 1 .. Len(text) : depth(text, j) \in Int
      BY DepthSteps
    <3>. QED
      BY <1>1, <3>1, BalancedIsDepth DEF Program
  <2>2. \A j \in 1 .. k : ~ (depth(text, j) < 0)
    BY <2>1
  <2>3. \A j \in 1 .. (k - 1) : ~ (depth(text, j) < 0)
    BY <2>2
  <2>4. ~ t.thrown /\ Len(t.par_stack) = depth(text, k)
    BY <1>1, <2>2, StackIsDepth
  <2>5. ~ s.thrown /\ Len(s.par_stack) = depth(text, k - 1)
    BY <1>1, <2>3, StackIsDepth
  <2>. QED
    BY <2>4, <2>5
<1>. HIDE DEF s, t
<1>4. CASE c = "["
  <2>1. parOf(text, k) = s.number_of_par /\ Block(text, k) = Opened(s.number_of_par)
    BY <1>4 DEF parOf, Block, s
  <2>2. Opened(s.number_of_par) \in Seq(Assembly)
    BY <1>2, BlockTypes DEF Translating
  <2>3. t = [code_tmp |-> s.code_tmp \o Opened(s.number_of_par),
             par_stack |-> Append(s.par_stack, s.number_of_par),
             number_of_par |-> s.number_of_par + 1, thrown |-> FALSE]
    BY <1>1, <1>2, <1>3, <1>4, CharacterWrites, Zenon
  <2>4. /\ t.code_tmp = s.code_tmp \o Opened(s.number_of_par)
        /\ t.par_stack = Append(s.par_stack, s.number_of_par)
        /\ t.number_of_par = s.number_of_par + 1
    BY <2>3, Zenon
  <2>. QED
    BY <1>1, <1>2, <1>3, <1>4, <2>1, <2>2, <2>4, Zenon DEF s, t
<1>5. CASE c = "]"
  <2>1. s.par_stack # <<>>
    <3>1. s.par_stack = <<>> => t = [s EXCEPT !.thrown = TRUE]
      BY <1>1, <1>2, <1>3, <1>5, CharacterWrites, Zenon
    <3>. QED
      BY <1>2, <1>3, <3>1 DEF Translating
  <2>2. parOf(text, k) = Last(s.par_stack) /\ Block(text, k) = Closed(Last(s.par_stack))
    BY <1>5 DEF parOf, Block, s
  <2>3. Last(s.par_stack) \in Nat
    BY <1>2, <2>1, SubSeqProperties DEF Last, Translating
  <2>4. Closed(Last(s.par_stack)) \in Seq(Assembly)
    BY <2>3, BlockTypes
  <2>5. t = [code_tmp |-> s.code_tmp \o Closed(Last(s.par_stack)),
             par_stack |-> Front(s.par_stack),
             number_of_par |-> s.number_of_par, thrown |-> FALSE]
    BY <1>1, <1>2, <1>3, <1>5, <2>1, CharacterWrites, Zenon
  <2>6. /\ t.code_tmp = s.code_tmp \o Closed(Last(s.par_stack))
        /\ t.par_stack = Front(s.par_stack) /\ t.number_of_par = s.number_of_par
    BY <2>5, Zenon
  <2>. QED
    BY <1>1, <1>2, <1>3, <1>5, <2>1, <2>2, <2>3, <2>4, <2>6, Zenon DEF s, t
<1>6. CASE c \notin {"[", "]"}
  <2>1. Block(text, k) = LinesOf(c) /\ LinesOf(c) \in Seq(Assembly)
    BY <1>1, <1>6, BlockTypes, Zenon DEF Block
  <2>2. t = Written(s, LinesOf(c))
    BY <1>1, <1>2, <1>3, <1>6, CharacterWrites, Zenon
  <2>3. /\ t.code_tmp = s.code_tmp \o LinesOf(c) /\ t.par_stack = s.par_stack
        /\ t.number_of_par = s.number_of_par
    BY <1>2, <2>1, <2>2, WrittenType, ZenonT(30)
  <2>. QED
    BY <1>1, <1>2, <1>3, <1>6, <2>1, <2>3 DEF s, t
<1>. QED
  BY <1>4, <1>5, <1>6

\* Where the lines of the character at k begin.
tpos(text, k) == Len(Translation(text)[k - 1].code_tmp) + 1

codeAfter(text) == [k \in 0 .. Len(text) |-> Translation(text)[k].code_tmp]

\* The lines only grow from character to character.
LEMMA WrittenGrows ==
    ASSUME NEW text, Program(text)
    PROVE  Growing(codeAfter(text), Assembly, 0, Len(text))
<1>1. Len(text) \in Nat /\ text \in Seq(Chars)
  BY DEF Program
<1>2. codeAfter(text) \in [0 .. Len(text) -> Seq(Assembly)]
  <2>1. \A k \in 0 .. Len(text) : Translation(text)[k].code_tmp \in Seq(Assembly)
    BY <1>1, TranslationRuns, Zenon DEF Translating
  <2>. QED
    BY <2>1 DEF codeAfter
<1>3. ASSUME NEW k \in (0 + 1) .. Len(text)
      PROVE  \E t \in Seq(Assembly) : codeAfter(text)[k] = codeAfter(text)[k - 1] \o t
  <2>1. k \in 1 .. Len(text) /\ k - 1 \in 0 .. Len(text) /\ k \in 0 .. Len(text)
    BY <1>1
  <2>2. /\ Block(text, k) \in Seq(Assembly)
        /\ Translation(text)[k].code_tmp = Translation(text)[k - 1].code_tmp \o Block(text, k)
    BY <2>1, BlockWritten
  <2>3. codeAfter(text)[k] = codeAfter(text)[k - 1] \o Block(text, k)
    BY <2>1, <2>2 DEF codeAfter
  <2>. QED
    BY <2>2, <2>3, Zenon
<1>. QED
  BY <1>2, <1>3, Zenon DEF Growing

\* The lines of a character are together, after those of the characters before it.
LEMMA Positions ==
    ASSUME NEW text, Program(text)
    PROVE  LET lines == Lines(text)
               n == Len(text)
           IN  /\ lines \in Seq(Assembly) /\ Len(lines) = tpos(text, n + 1)
               /\ lines[Len(lines)] = HaltLine
               /\ tpos(text, 1) = 4
               /\ lines[1] = Skip(<<Number(30000)>>) /\ lines[2] = Label(start)
               /\ lines[3] = Mov(RegA, Number(2))
               /\ \A i, j \in 1 .. (n + 1) :
                     i =< j => tpos(text, i) \in Nat /\ tpos(text, i) =< tpos(text, j)
               /\ \A k \in 1 .. n :
                     /\ tpos(text, k + 1) = tpos(text, k) + Len(Block(text, k))
                     /\ \A m \in 1 .. Len(Block(text, k)) :
                           lines[tpos(text, k) + m - 1] = Block(text, k)[m]
<1>. DEFINE n == Len(text)
            written == codeAfter(text)
            lines == Lines(text)
<1>. SUFFICES /\ lines \in Seq(Assembly) /\ Len(lines) = tpos(text, n + 1)
              /\ lines[Len(lines)] = HaltLine
              /\ tpos(text, 1) = 4
              /\ lines[1] = Skip(<<Number(30000)>>) /\ lines[2] = Label(start)
              /\ lines[3] = Mov(RegA, Number(2))
              /\ \A i, j \in 1 .. (n + 1) :
                    i =< j => tpos(text, i) \in Nat /\ tpos(text, i) =< tpos(text, j)
              /\ \A k \in 1 .. n :
                    /\ tpos(text, k + 1) = tpos(text, k) + Len(Block(text, k))
                    /\ \A m \in 1 .. Len(Block(text, k)) :
                          lines[tpos(text, k) + m - 1] = Block(text, k)[m]
  OBVIOUS
<1>1. n \in Nat /\ Growing(written, Assembly, 0, n) /\ text \in Seq(Chars)
  BY WrittenGrows DEF Program
<1>2. \A k \in 0 .. n : written[k] \in Seq(Assembly) /\ Len(written[k]) \in Nat
  BY <1>1, LenProperties, Zenon DEF Growing
<1>3. lines = Append(written[n], HaltLine)
  BY <1>1 DEF Lines, codeAfter, HaltLine
<1>4. \A k \in 1 .. (n + 1) : tpos(text, k) = Len(written[k - 1]) + 1
  BY <1>1 DEF tpos, codeAfter
<1>5. ASSUME NEW i \in 0 .. n, NEW j \in i .. n
      PROVE  /\ Len(written[i]) =< Len(written[j])
             /\ \A q \in 1 .. Len(written[i]) : written[j][q] = written[i][q]
  BY <1>1, <1>5, GrowingKeeps
<1>6. /\ lines \in Seq(Assembly) /\ Len(lines) = Len(written[n]) + 1 /\ lines[Len(lines)] = HaltLine
      /\ \A q \in 1 .. Len(written[n]) : lines[q] = written[n][q]
  <2>1. HaltLine \in Assembly
    BY InstructionTypes DEF HaltLine
  <2>2. n \in 0 .. n
    BY <1>1
  <2>3. written[n] \in Seq(Assembly)
    BY <1>2, <2>2
  <2>. HIDE DEF written, lines, n
  <2>. QED
    BY <1>3, <2>1, <2>3, AppendProperties
<1>7. /\ tpos(text, 1) = 4
      /\ lines[1] = Skip(<<Number(30000)>>) /\ lines[2] = Label(start)
      /\ lines[3] = Mov(RegA, Number(2))
  <2>1. written[0] = <<Skip(<<Number(30000)>>), Label(start), Mov(RegA, Number(2))>>
    BY <1>1, TranslationRuns DEF codeAfter, Preamble
  <2>2. 0 \in 0 .. n /\ n \in 0 .. n
    BY <1>1
  <2>3. Len(written[0]) = 3 /\ written[0][1] = Skip(<<Number(30000)>>) /\ written[0][2] = Label(start)
        /\ written[0][3] = Mov(RegA, Number(2))
    BY <2>1
  <2>4. tpos(text, 1) = 4
    <3>. HIDE DEF written, lines
    <3>1. 1 \in 1 .. (n + 1) /\ 1 - 1 = 0
      BY <1>1
    <3>2. tpos(text, 1) = Len(written[0]) + 1
      BY <1>4, <3>1
    <3>. QED
      BY <2>3, <3>2
  <2>. HIDE DEF written, lines
  <2>5. \A q \in 1 .. 3 : lines[q] = written[0][q]
    BY <1>2, <1>5, <1>6, <2>2, <2>3, SMTT(30)
  <2>. QED
    BY <2>3, <2>4, <2>5
<1>8. \A i, j \in 1 .. (n + 1) :
          i =< j => tpos(text, i) \in Nat /\ tpos(text, i) =< tpos(text, j)
  <2>1. ASSUME NEW i \in 1 .. (n + 1), NEW j \in 1 .. (n + 1), i =< j
        PROVE  tpos(text, i) \in Nat /\ tpos(text, i) =< tpos(text, j)
    <3>1. i - 1 \in 0 .. n /\ j - 1 \in (i - 1) .. n /\ j - 1 \in 0 .. n
      BY <1>1, <2>1
    <3>. HIDE DEF written
    <3>2. Len(written[i - 1]) =< Len(written[j - 1]) /\ Len(written[i - 1]) \in Nat /\ Len(written[j - 1]) \in Nat
      BY <1>2, <1>5, <3>1
    <3>. QED
      BY <1>4, <2>1, <3>2
  <2>. QED
    BY <2>1
<1>9. ASSUME NEW k \in 1 .. n
      PROVE  /\ tpos(text, k + 1) = tpos(text, k) + Len(Block(text, k))
             /\ \A m \in 1 .. Len(Block(text, k)) :
                   lines[tpos(text, k) + m - 1] = Block(text, k)[m]
  <2>1. k - 1 \in 0 .. n /\ k \in 0 .. n /\ n \in k .. n /\ k + 1 \in 1 .. (n + 1)
        /\ k \in 1 .. (n + 1) /\ (k + 1) - 1 = k
    BY <1>1
  <2>2. /\ Block(text, k) \in Seq(Assembly)
        /\ written[k] = written[k - 1] \o Block(text, k)
    BY <2>1, BlockWritten DEF codeAfter
  <2>. HIDE DEF written, lines, n
  <2>. DEFINE b == Block(text, k)
              c == written[k - 1]
  <2>3. c \in Seq(Assembly) /\ Len(c) \in Nat /\ Len(b) \in Nat
    BY <1>2, <2>1, <2>2, LenProperties
  <2>. HIDE DEF b, c
  <2>4. /\ Len(written[k]) = Len(c) + Len(b)
        /\ \A m \in 1 .. Len(b) : written[k][Len(c) + m] = b[m]
    <3>1. written[k] = c \o b /\ b \in Seq(Assembly)
      BY <2>2 DEF b, c
    <3>2. Len(c \o b) = Len(c) + Len(b)
      BY <2>3, <3>1, ConcatProperties
    <3>3. ASSUME NEW m \in 1 .. Len(b) PROVE (c \o b)[Len(c) + m] = b[m]
      <4>1. Len(c) + m \in 1 .. (Len(c) + Len(b)) /\ ~ (Len(c) + m =< Len(c))
            /\ (Len(c) + m) - Len(c) = m
        BY <2>3
      <4>2. \A q \in 1 .. (Len(c) + Len(b)) :
                (c \o b)[q] = IF q =< Len(c) THEN c[q] ELSE b[q - Len(c)]
        BY <2>3, <3>1, ConcatProperties
      <4>. QED
        BY <4>1, <4>2
    <3>. QED
      BY <3>1, <3>2, <3>3
  <2>5. tpos(text, k) = Len(c) + 1 /\ tpos(text, k + 1) = Len(written[k]) + 1
    BY <1>4, <2>1 DEF c
  <2>6. ASSUME NEW m \in 1 .. Len(b) PROVE lines[tpos(text, k) + m - 1] = b[m]
    <3>1. tpos(text, k) + m - 1 = Len(c) + m /\ Len(c) + m \in 1 .. Len(written[k])
      BY <2>3, <2>4, <2>5
    <3>2. Len(written[k]) =< Len(written[n]) /\ written[n][Len(c) + m] = written[k][Len(c) + m]
      BY <1>5, <2>1, <3>1, Zenon
    <3>3. lines[Len(c) + m] = written[n][Len(c) + m]
      <4>. n \in 0 .. n
        BY <1>1
      <4>. QED
        BY <1>2, <1>6, <2>1, <3>1, <3>2
    <3>. QED
      BY <2>4, <3>1, <3>2, <3>3
  <2>. QED
    BY <2>3, <2>4, <2>5, <2>6 DEF b
<1>10. Len(lines) = tpos(text, n + 1)
  BY <1>1, <1>4, <1>6
<1>11. \A k \in 1 .. n :
          /\ tpos(text, k + 1) = tpos(text, k) + Len(Block(text, k))
          /\ \A m \in 1 .. Len(Block(text, k)) :
                lines[tpos(text, k) + m - 1] = Block(text, k)[m]
  BY <1>9
<1>12. lines \in Seq(Assembly) /\ lines[Len(lines)] = HaltLine
  BY <1>6
<1>. HIDE DEF lines, n, written
<1>. QED
  BY <1>7, <1>8, <1>10, <1>11, <1>12

\* Every line is of the preamble, of a character, or the last.
LEMMA LineOf ==
    ASSUME NEW text, Program(text), NEW q \in 1 .. Len(Lines(text))
    PROVE  \/ q \in 1 .. 3
           \/ q = Len(Lines(text))
           \/ \E k \in 1 .. Len(text) : \E m \in 1 .. Len(Block(text, k)) :
                 q = tpos(text, k) + m - 1
<1>. DEFINE n == Len(text)
            written == codeAfter(text)
<1>1. n \in Nat /\ Growing(written, Assembly, 0, n)
  BY WrittenGrows DEF Program
<1>2. \A k \in 1 .. (n + 1) : tpos(text, k) = Len(written[k - 1]) + 1
  BY <1>1 DEF tpos, codeAfter
<1>3. Len(written[0]) = 3 /\ Len(Lines(text)) = Len(written[n]) + 1 /\ Len(written[n]) \in Nat
  <2>. HIDE DEF written
  <2>1. tpos(text, 1) = 4 /\ Len(Lines(text)) = tpos(text, n + 1)
    BY Positions
  <2>2. Len(written[0]) \in Nat /\ Len(written[n]) \in Nat
    BY <1>1, LenProperties DEF Growing
  <2>3. /\ 1 \in 1 .. (n + 1) /\ 1 - 1 = 0
        /\ n + 1 \in 1 .. (n + 1) /\ (n + 1) - 1 = n
    BY <1>1
  <2>4. tpos(text, 1) = Len(written[0]) + 1 /\ tpos(text, n + 1) = Len(written[n]) + 1
    <3>. HIDE DEF n
    <3>1. tpos(text, 1) = Len(written[1 - 1]) + 1
      BY <1>2, <2>3
    <3>2. tpos(text, n + 1) = Len(written[(n + 1) - 1]) + 1
      BY <1>2, <2>3
    <3>. QED
      BY <2>3, <3>1, <3>2
  <2>5. Len(written[0]) = 3
    <3>. DEFINE x == Len(written[0])
    <3>1. x \in Nat /\ 4 = x + 1
      BY <2>1, <2>2, <2>4
    <3>. HIDE DEF x
    <3>2. x = 3
      BY <3>1
    <3>. QED
      BY <3>2 DEF x
  <2>6. Len(Lines(text)) = Len(written[n]) + 1
    BY <2>1, <2>2, <2>4
  <2>. QED
    BY <2>2, <2>5, <2>6
<1>. HIDE DEF written
<1>4. CASE q > 3 /\ q # Len(Lines(text))
  <2>1. q \in Nat /\ Len(written[0]) < q /\ q =< Len(written[n])
    BY <1>3, <1>4
  <2>2. PICK k \in (0 + 1) .. n : Len(written[k - 1]) < q /\ q =< Len(written[k])
    BY <1>1, <2>1, GrowingCovers
  <2>3. k \in 1 .. n /\ k \in 1 .. (n + 1) /\ k + 1 \in 1 .. (n + 1) /\ (k + 1) - 1 = k
    BY <1>1
  <2>4. /\ tpos(text, k) = Len(written[k - 1]) + 1 /\ tpos(text, k + 1) = Len(written[k]) + 1
        /\ tpos(text, k + 1) = tpos(text, k) + Len(Block(text, k))
    BY <1>2, <2>3, Positions, SMTT(30)
  <2>5. Len(written[k - 1]) \in Nat /\ Len(written[k]) \in Nat /\ Len(Block(text, k)) \in Nat
    <3>1. Block(text, k) \in Seq(Assembly)
      BY <2>3, BlockWritten
    <3>. QED
      BY <1>1, <2>3, <3>1, LenProperties DEF Growing
  <2>. DEFINE m == q - tpos(text, k) + 1
  <2>6. m \in 1 .. Len(Block(text, k)) /\ q = tpos(text, k) + m - 1
    <3>. DEFINE x == Len(written[k - 1])
                y == Len(Block(text, k))
                p == tpos(text, k)
    <3>1. x \in Nat /\ y \in Nat /\ p = x + 1 /\ x < q /\ q =< x + y /\ q \in Nat
      BY <2>1, <2>2, <2>4, <2>5
    <3>. HIDE DEF x, y, p
    <3>2. q - p + 1 \in 1 .. y /\ q = p + (q - p + 1) - 1
      BY <3>1
    <3>. QED
      BY <3>2 DEF y, p
  <2>. QED
    BY <2>3, <2>6
<1>. QED
  BY <1>4

-----------------------------------------------------------------------------
(* The brackets that match.                                                   *)

\* The bracket at i was the last to open the d-th pair that is open after k.
Held(text, i, k, d) ==
    /\ text[i] = "[" /\ depth(text, i - 1) = d - 1
    /\ \A m \in i .. k : depth(text, m) >= d

Names(text, k, d) ==
    \E i \in 1 .. k : Held(text, i, k, d) /\ parOf(text, i) = Translation(text)[k].par_stack[d]

\* The stack holds the numbers of the brackets that are open.
LEMMA StackNames ==
    ASSUME NEW text, Program(text), NEW k \in 0 .. Len(text), NEW d \in 1 .. depth(text, k)
    PROVE  Names(text, k, d)
<1>. DEFINE n == Len(text)
            Right(m) == \A e \in 1 .. depth(text, m) : Names(text, m, e)
            right == {m \in 0 .. n : Right(m)}
<1>1. n \in Nat /\ 0 \in Int /\ n \in Int
  BY DEF Program
<1>2. Right(0)
  BY DepthSteps
<1>3. ASSUME NEW m \in 1 .. n, Right(m - 1) PROVE Right(m)
  <2>. DEFINE s == Translation(text)[m - 1]
              t == Translation(text)[m]
  <2>1. m \in Nat \ {0} /\ depth(text, m - 1) \in Int /\ depth(text, m) \in Int
        /\ depth(text, m) = CASE text[m] = "[" -> depth(text, m - 1) + 1
                              [] text[m] = "]" -> depth(text, m - 1) - 1
                              [] OTHER -> depth(text, m - 1)
    BY <1>1, DepthSteps
  <2>2. /\ s.par_stack \in Seq(Nat) /\ Len(s.par_stack) = depth(text, m - 1)
        /\ Len(t.par_stack) = depth(text, m)
    BY BlockWritten, Zenon DEF Translating
  <2>3. /\ text[m] = "[" => t.par_stack = Append(s.par_stack, parOf(text, m))
        /\ text[m] = "]" => s.par_stack # <<>> /\ t.par_stack = Front(s.par_stack)
        /\ text[m] \notin {"[", "]"} => t.par_stack = s.par_stack
    BY BlockWritten, Zenon
  <2>. HIDE DEF s, t
  <2>4. ASSUME NEW e \in 1 .. depth(text, m), e =< depth(text, m - 1),
               t.par_stack[e] = s.par_stack[e]
        PROVE  Names(text, m, e)
    <3>1. PICK i \in 1 .. (m - 1) : Held(text, i, m - 1, e)
                                    /\ parOf(text, i) = s.par_stack[e]
      <4>1. e \in 1 .. depth(text, m - 1)
        BY <2>1, <2>4
      <4>. QED
        BY <1>3, <4>1 DEF Names, s
    <3>2. Held(text, i, m, e)
      <4>1. \A x \in i .. m : depth(text, x) >= e
        <5>1. \A x \in i .. m : x = m \/ x \in i .. (m - 1)
          BY <3>1
        <5>. QED
          BY <2>1, <3>1, <5>1, <2>4 DEF Held
      <4>. QED
        BY <3>1, <4>1 DEF Held
    <3>3. i \in 1 .. m
      BY <3>1
    <3>. QED
      BY <2>4, <3>1, <3>2, <3>3 DEF Names, t
  <2>5. CASE text[m] = "["
    <3>1. ASSUME NEW e \in 1 .. depth(text, m) PROVE Names(text, m, e)
      <4>1. CASE e =< depth(text, m - 1)
        <5>1. t.par_stack[e] = s.par_stack[e]
          <6>1. e \in 1 .. Len(s.par_stack)
            BY <2>1, <2>2, <3>1, <4>1
          <6>2. parOf(text, m) \in Nat
            BY <2>5, BlockWritten, Zenon DEF Translating
          <6>. QED
            BY <2>2, <2>3, <2>5, <6>1, <6>2, AppendProperties
        <5>. QED
          BY <2>4, <3>1, <4>1, <5>1
      <4>2. CASE ~ (e =< depth(text, m - 1))
        <5>1. e = depth(text, m)
          BY <2>1, <2>5, <3>1, <4>2
        <5>2. t.par_stack[e] = parOf(text, m)
          <6>1. e = Len(s.par_stack) + 1
            BY <2>1, <2>2, <2>5, <5>1
          <6>2. parOf(text, m) \in Nat
            BY <2>5, BlockWritten, Zenon DEF Translating
          <6>. QED
            BY <2>2, <2>3, <2>5, <6>1, <6>2, AppendProperties
        <5>3. Held(text, m, m, e)
          BY <2>1, <2>5, <5>1 DEF Held
        <5>. QED
          BY <5>2, <5>3 DEF Names, t
      <4>. QED
        BY <4>1, <4>2
    <3>. QED
      BY <3>1
  <2>6. CASE text[m] = "]"
    <3>1. ASSUME NEW e \in 1 .. depth(text, m) PROVE Names(text, m, e)
      <4>1. e =< depth(text, m - 1) /\ e \in 1 .. (Len(s.par_stack) - 1)
        BY <2>1, <2>2, <2>6, <3>1
      <4>2. t.par_stack[e] = s.par_stack[e]
        BY <2>2, <2>3, <2>6, <4>1 DEF Front
      <4>. QED
        BY <2>4, <3>1, <4>1, <4>2
    <3>. QED
      BY <3>1
  <2>7. CASE text[m] \notin {"[", "]"}
    <3>1. depth(text, m) = depth(text, m - 1) /\ t.par_stack = s.par_stack
      BY <2>1, <2>3, <2>7
    <3>2. \A e \in 1 .. depth(text, m) : e =< depth(text, m - 1)
      BY <2>1, <3>1
    <3>. QED
      BY <2>4, <3>1, <3>2
  <2>. QED
    BY <2>5, <2>6, <2>7
<1>4. \A m \in 0 .. n : m \in right
  <2>1. 0 \in right
    BY <1>1, <1>2
  <2>2. \A m \in (0 + 1) .. n : m - 1 \in right => m \in right
    <3>1. ASSUME NEW m \in (0 + 1) .. n, m - 1 \in right PROVE m \in right
      <4>. m \in 1 .. n /\ m \in 0 .. n
        BY <1>1
      <4>. HIDE DEF Right
      <4>. QED
        BY <1>3, <3>1
    <3>. QED
      BY <3>1
  <2>. HIDE DEF right
  <2>. QED
    BY <1>1, <2>1, <2>2, UpTo, Zenon
<1>. QED
  BY <1>4

\* The brackets at i and j are a pair.
Pair(text, i, j) ==
    /\ i \in 1 .. Len(text) /\ j \in (i + 1) .. Len(text)
    /\ text[i] = "[" /\ text[j] = "]"
    /\ depth(text, i - 1) = depth(text, j)
    /\ \A m \in i .. (j - 1) : depth(text, m) > depth(text, j)

\* A pair of brackets is what the language calls matching.
LEMMA PairMatches ==
    ASSUME NEW text, Program(text), NEW i, NEW j, Pair(text, i, j)
    PROVE  Closing(text, i) = j /\ Opening(text, j) = i
<1>1. Len(text) \in Nat /\ i \in Nat \ {0} /\ j \in Nat /\ i < j /\ j =< Len(text)
  BY DEF Pair, Program
<1>2. \A m \in Int : depth(text, m) \in Int
  BY DepthSteps
<1>3. /\ depth(text, i - 1) = depth(text, j)
      /\ \A m \in i .. (j - 1) : depth(text, m) > depth(text, j)
  BY DEF Pair
<1>4. Closing(text, i) = j
  <2>. DEFINE Closes(x) == Even(text, i, x) /\ \A k \in i .. (x - 1) : ~ Even(text, i, k)
  <2>1. \A x \in i .. Len(text) : Even(text, i, x) <=> depth(text, x) = depth(text, j)
    BY <1>1, <1>3, EvenIsDepth
  <2>2. j \in i .. Len(text) /\ Closes(j)
    <3>1. ASSUME NEW k \in i .. (j - 1)
          PROVE  k \in i .. Len(text) /\ depth(text, k) # depth(text, j)
      <4>1. k \in Int /\ k \in i .. Len(text) /\ j \in Int
        BY <1>1
      <4>2. depth(text, k) \in Int /\ depth(text, j) \in Int
        BY <1>2, <4>1
      <4>3. depth(text, k) > depth(text, j)
        BY <1>3
      <4>. QED
        BY <4>1, <4>2, <4>3
    <3>2. j \in i .. Len(text)
      BY <1>1
    <3>. QED
      BY <2>1, <3>1, <3>2
  <2>3. ASSUME NEW x \in i .. Len(text), Closes(x) PROVE x = j
    <3>1. CASE x < j
      <4>1. x \in i .. (j - 1) /\ depth(text, x) = depth(text, j) /\ j \in Int
        BY <1>1, <2>1, <2>3, <3>1
      <4>. QED
        BY <1>2, <1>3, <4>1
    <3>2. CASE x > j
      <4>1. j \in i .. (x - 1) /\ j \in i .. Len(text)
        BY <1>1, <3>2
      <4>. QED
        BY <2>1, <2>3, <4>1
    <3>. QED
      BY <1>1, <3>1, <3>2
  <2>. QED
    BY <2>2, <2>3 DEF Closing
<1>5. Opening(text, j) = i
  <2>. DEFINE Opens(x) == Even(text, x, j) /\ \A k \in (x + 1) .. j : ~ Even(text, k, j)
  <2>1. \A x \in 1 .. j : Even(text, x, j) <=> depth(text, j) = depth(text, x - 1)
    BY <1>1, EvenIsDepth
  <2>2. \A k \in (i + 1) .. j : k \in 1 .. j /\ depth(text, j) # depth(text, k - 1)
    <3>1. ASSUME NEW k \in (i + 1) .. j
          PROVE  k \in 1 .. j /\ depth(text, j) # depth(text, k - 1)
      <4>1. k \in 1 .. j /\ k - 1 \in i .. (j - 1) /\ k - 1 \in Int /\ j \in Int
        BY <1>1, <3>1
      <4>2. depth(text, k - 1) > depth(text, j) /\ depth(text, k - 1) \in Int /\ depth(text, j) \in Int
        BY <1>2, <1>3, <4>1
      <4>. QED
        BY <4>1, <4>2
    <3>. QED
      BY <3>1
  <2>3. i \in 1 .. j /\ Opens(i)
    BY <1>1, <1>3, <2>1, <2>2
  <2>4. ASSUME NEW x \in 1 .. j, Opens(x) PROVE x = i
    <3>1. CASE x < i
      <4>1. i \in (x + 1) .. j /\ i \in 1 .. j
        BY <1>1, <3>1
      <4>. QED
        BY <1>3, <2>1, <2>4, <4>1
    <3>2. CASE x > i
      <4>1. x \in (i + 1) .. j
        BY <1>1, <3>2
      <4>. QED
        BY <2>1, <2>2, <2>4, <4>1
    <3>. QED
      BY <1>1, <3>1, <3>2
  <2>. QED
    BY <2>3, <2>4 DEF Opening
<1>. QED
  BY <1>4, <1>5

\* Every bracket has its pair, with the same number.
LEMMA ClosingHasPair ==
    ASSUME NEW text, Program(text), NEW j \in 1 .. Len(text), text[j] = "]"
    PROVE  \E i : Pair(text, i, j) /\ parOf(text, i) = parOf(text, j)
<1>. DEFINE s == Translation(text)[j - 1]
            d == depth(text, j - 1)
<1>1. Len(text) \in Nat /\ j \in Nat \ {0} /\ j - 1 \in 0 .. Len(text)
  BY DEF Program
<1>2. d \in Int /\ depth(text, j) = d - 1 /\ depth(text, j) \in Int
  BY <1>1, DepthSteps
<1>3. s.par_stack \in Seq(Nat) /\ Len(s.par_stack) = d /\ s.par_stack # <<>>
      /\ parOf(text, j) = Last(s.par_stack)
  BY BlockWritten DEF Translating
<1>. HIDE DEF s, d
<1>4. d \in 1 .. d /\ Last(s.par_stack) = s.par_stack[d]
  BY <1>2, <1>3 DEF Last
<1>5. PICK i \in 1 .. (j - 1) : Held(text, i, j - 1, d) /\ parOf(text, i) = s.par_stack[d]
  <2>1. Names(text, j - 1, d)
    BY <1>1, <1>4, StackNames DEF d
  <2>. QED
    BY <2>1 DEF Names, s
<1>6. Pair(text, i, j)
  <2>1. i \in 1 .. Len(text) /\ j \in (i + 1) .. Len(text)
    BY <1>1
  <2>2. \A m \in i .. (j - 1) : depth(text, m) > depth(text, j)
    <3>1. \A m \in i .. (j - 1) : depth(text, m) >= d /\ depth(text, m) \in Int
      <4>. \A m \in i .. (j - 1) : m \in Int
        BY <1>1
      <4>. QED
        BY <1>5, DepthSteps DEF Held
    <3>. QED
      BY <1>2, <3>1
  <2>. QED
    BY <1>2, <1>5, <2>1, <2>2 DEF Pair, Held
<1>. QED
  BY <1>3, <1>4, <1>5, <1>6

\* Every bracket that opens is closed, by the bracket of its number.
LEMMA OpeningHasPair ==
    ASSUME NEW text, Program(text), NEW i \in 1 .. Len(text), text[i] = "["
    PROVE  \E j : Pair(text, i, j) /\ parOf(text, i) = parOf(text, j)
<1>1. /\ Len(text) \in Nat /\ i \in Nat \ {0} /\ text \in Seq(Chars)
      /\ \A m \in Int : depth(text, m) \in Int
  BY DepthSteps DEF Program
<1>2. /\ depth(text, i) = depth(text, i - 1) + 1 /\ depth(text, i - 1) \in Int
      /\ depth(text, i - 1) >= 0 /\ depth(text, Len(text)) = 0
  <2>1. depth(text, Len(text)) = 0 /\ \A m \in 1 .. Len(text) : depth(text, m) >= 0
    BY BalancedIsDepth DEF Program
  <2>2. i - 1 = 0 \/ i - 1 \in 1 .. Len(text)
    BY <1>1
  <2>3. depth(text, 0) = 0
    BY DepthSteps
  <2>4. depth(text, i - 1) >= 0
    BY <2>1, <2>2, <2>3
  <2>. QED
    BY <1>1, <2>1, <2>4, DepthSteps
<1>. DEFINE low == {m \in Nat : m >= i /\ m =< Len(text) /\ depth(text, m) =< depth(text, i - 1)}
<1>3. PICK j \in low : \A m \in low : j =< m
  <2>1. Len(text) \in low
    BY <1>1, <1>2
  <2>2. low \in SUBSET Nat /\ low # {}
    BY <2>1
  <2>. HIDE DEF low
  <2>. QED
    BY <2>2, LeastOfNat
<1>4. j \in Nat /\ j > i /\ j =< Len(text) /\ depth(text, j) =< depth(text, i - 1)
  <2>1. j # i
    BY <1>2, <1>3
  <2>. QED
    BY <1>1, <1>3, <2>1
<1>5. \A m \in i .. (j - 1) : depth(text, m) > depth(text, i - 1) /\ depth(text, m) \in Int
  <2>1. ASSUME NEW m \in i .. (j - 1) PROVE depth(text, m) > depth(text, i - 1)
    <3>1. m \in Nat /\ m >= i /\ m =< Len(text) /\ ~ (j =< m) /\ depth(text, m) \in Int
      <4>1. m \in Nat /\ m >= i /\ m =< Len(text) /\ ~ (j =< m) /\ m \in Int
        BY <1>1, <1>4, <2>1
      <4>. QED
        BY <1>1, <4>1
    <3>2. m \notin low
      BY <1>3, <3>1
    <3>. QED
      BY <1>2, <3>1, <3>2
  <2>2. \A m \in i .. (j - 1) : m \in Int
    BY <1>1
  <2>. QED
    BY <1>1, <2>1, <2>2, Zenon
<1>6. depth(text, j) = depth(text, i - 1) /\ text[j] = "]"
  <2>1. j - 1 \in i .. (j - 1)
    BY <1>1, <1>4
  <2>2. depth(text, j - 1) > depth(text, i - 1) /\ depth(text, j - 1) \in Int
    BY <1>5, <2>1
  <2>3. depth(text, j) = CASE text[j] = "[" -> depth(text, j - 1) + 1
                           [] text[j] = "]" -> depth(text, j - 1) - 1
                           [] OTHER -> depth(text, j - 1)
    BY <1>1, <1>4, DepthSteps
  <2>. QED
    BY <1>2, <1>4, <2>2, <2>3
<1>7. Pair(text, i, j)
  BY <1>1, <1>4, <1>5, <1>6 DEF Pair
<1>8. PICK h : Pair(text, h, j) /\ parOf(text, h) = parOf(text, j)
  <2>1. j \in 1 .. Len(text)
    BY <1>1, <1>4
  <2>. QED
    BY <1>6, <2>1, ClosingHasPair
<1>9. h = i
  BY <1>7, <1>8, PairMatches
<1>. QED
  BY <1>7, <1>8, <1>9

\* Two brackets that open have different numbers.
LEMMA NumbersDiffer ==
    ASSUME NEW text, Program(text), NEW i \in 1 .. Len(text), NEW j \in 1 .. Len(text),
           text[i] = "[", text[j] = "[", parOf(text, i) = parOf(text, j)
    PROVE  i = j
<1>. DEFINE num(k) == Translation(text)[k].number_of_par
<1>1. Len(text) \in Nat
  BY DEF Program
<1>2. \A k \in 1 .. Len(text) :
          /\ num(k - 1) \in Nat /\ num(k) \in Nat /\ num(k) >= num(k - 1)
          /\ text[k] = "[" => num(k) = num(k - 1) + 1 /\ parOf(text, k) = num(k - 1)
  <2>1. ASSUME NEW k \in 1 .. Len(text)
        PROVE  /\ num(k - 1) \in Nat /\ num(k) \in Nat /\ num(k) >= num(k - 1)
               /\ text[k] = "[" => num(k) = num(k - 1) + 1 /\ parOf(text, k) = num(k - 1)
    <3>1. /\ num(k - 1) \in Nat /\ num(k) \in Nat
          /\ text[k] = "[" => num(k) = num(k - 1) + 1 /\ parOf(text, k) = num(k - 1)
          /\ text[k] # "[" => num(k) = num(k - 1)
      <4>1. /\ num(k - 1) \in Nat /\ num(k) \in Nat
        BY BlockWritten, Zenon DEF Translating
      <4>2. text[k] = "[" => num(k) = num(k - 1) + 1 /\ parOf(text, k) = num(k - 1)
        BY BlockWritten, Zenon
      <4>3. /\ text[k] = "]" => num(k) = num(k - 1)
            /\ text[k] \notin {"[", "]"} => num(k) = num(k - 1)
        BY BlockWritten
      <4>. QED
        BY <4>1, <4>2, <4>3
    <3>. QED
      BY <3>1
  <2>. QED
    BY <2>1
<1>. HIDE DEF num
<1>3. ASSUME NEW a \in 1 .. Len(text), NEW b \in 1 .. Len(text), a < b, text[a] = "["
      PROVE  num(b - 1) > num(a - 1)
  <2>. DEFINE above == {k \in a .. Len(text) : num(k) > num(a - 1)}
  <2>1. a \in above /\ Len(text) \in Int /\ a \in Int
    BY <1>1, <1>2, <1>3, SMTT(30)
  <2>2. ASSUME NEW k \in (a + 1) .. Len(text), k - 1 \in above PROVE k \in above
    <3>1. k \in 1 .. Len(text)
      BY <1>1
    <3>2. num(k - 1) \in Nat /\ num(k) \in Nat /\ num(k) >= num(k - 1) /\ num(a - 1) \in Nat
      BY <1>2, <3>1
    <3>. QED
      BY <2>2, <3>2
  <2>3. \A k \in a .. Len(text) : k \in above
    <3>. HIDE DEF above
    <3>. QED
      BY <2>1, <2>2, UpTo, Zenon
  <2>4. b - 1 \in a .. Len(text)
    BY <1>1, <1>3
  <2>. QED
    BY <2>3, <2>4
<1>4. num(i - 1) = num(j - 1) /\ num(i - 1) \in Nat
  BY <1>2, Zenon
<1>5. ~ (i < j)
  BY <1>3, <1>4
<1>6. ~ (j < i)
  BY <1>3, <1>4
<1>. QED
  BY <1>1, <1>5, <1>6

-----------------------------------------------------------------------------
(* The shape of the lines before the optimizations.                           *)

\* The block of a bracket begins at q.
Opens(c, q, id) ==
    /\ q \in 1 .. Len(c) /\ q + 2 \in 1 .. Len(c) /\ id \in Nat
    /\ c[q] = Label(start_par(id)) /\ c[q + 1] = Test /\ c[q + 2] = Je(close_par(id))
Closes(c, q, id) ==
    /\ q \in 1 .. Len(c) /\ q + 2 \in 1 .. Len(c) /\ id \in Nat
    /\ c[q] = Label(close_par(id)) /\ c[q + 1] = Test /\ c[q + 2] = Jne(start_par(id))

\* A label is written once, each bracket is the three lines of a block, both
\* brackets of a pair are there, and only the last line halts.
Sound(c) ==
    /\ c \in Seq(Assembly) /\ c # <<>>
    /\ \A q, r \in 1 .. Len(c) : c[q].kind = "label" /\ c[q] = c[r] => q = r
    /\ \A q \in 1 .. Len(c), id \in Nat :
          /\ c[q] = Label(start_par(id)) => Opens(c, q, id)
          /\ c[q] = Label(close_par(id)) => Closes(c, q, id)
          /\ c[q] = Je(close_par(id)) => Opens(c, q - 2, id)
          /\ c[q] = Jne(start_par(id)) => Closes(c, q - 2, id)
    /\ \A q \in 1 .. Len(c), id \in Nat :
          /\ Opens(c, q, id) => \E r : Closes(c, r, id)
          /\ Closes(c, q, id) => \E r : Opens(c, r, id)
    /\ c[Len(c)] = HaltLine
    /\ \A q \in 1 .. Len(c) :
          \/ q = Len(c)
          \/ PlainLine(c[q])
          \/ \E n \in Nat : StepBy(c[q], n)
          \/ BracketLine(c[q])

\* The blocks of the brackets of a program.
LEMMA BracketBlocks ==
    ASSUME NEW text, Program(text), NEW k \in 1 .. Len(text)
    PROVE  /\ text[k] = "[" => Opens(Lines(text), tpos(text, k), parOf(text, k))
           /\ text[k] = "]" => Closes(Lines(text), tpos(text, k), parOf(text, k))
           /\ tpos(text, k + 1) = tpos(text, k) + Len(Block(text, k))
           /\ text[k] \in {"[", "]"} => tpos(text, k + 1) = tpos(text, k) + 3
           /\ tpos(text, k) \in 1 .. Len(Lines(text))
<1>. DEFINE lines == Lines(text)
            p == tpos(text, k)
            b == Block(text, k)
            id == parOf(text, k)
<1>1. /\ p \in Nat /\ p >= 4 /\ p + Len(b) =< Len(lines) /\ Len(lines) \in Nat
      /\ tpos(text, k + 1) = p + Len(b)
      /\ \A m \in 1 .. Len(b) : lines[p + m - 1] = b[m]
  <2>1. Len(text) \in Nat /\ k \in 1 .. (Len(text) + 1) /\ 1 \in 1 .. (Len(text) + 1) /\ 1 =< k
        /\ k + 1 \in 1 .. (Len(text) + 1) /\ Len(text) + 1 \in 1 .. (Len(text) + 1)
        /\ k + 1 =< Len(text) + 1
    BY DEF Program
  <2>2. tpos(text, 1) = 4 /\ tpos(text, 1) =< p /\ p \in Nat
        /\ tpos(text, k + 1) =< tpos(text, Len(text) + 1)
        /\ Len(lines) = tpos(text, Len(text) + 1) /\ tpos(text, Len(text) + 1) \in Nat
        /\ tpos(text, k + 1) = p + Len(b)
        /\ \A m \in 1 .. Len(b) : lines[p + m - 1] = b[m]
    <3>1. /\ tpos(text, 1) = 4
          /\ Len(lines) = tpos(text, Len(text) + 1)
          /\ tpos(text, k + 1) = p + Len(b)
          /\ \A m \in 1 .. Len(b) : lines[p + m - 1] = b[m]
      BY Positions
    <3>2. \A i, j \in 1 .. (Len(text) + 1) :
              i =< j => tpos(text, i) \in Nat /\ tpos(text, i) =< tpos(text, j)
      BY Positions
    <3>3. tpos(text, 1) =< p /\ p \in Nat
      BY <2>1, <3>2
    <3>4. tpos(text, k + 1) =< tpos(text, Len(text) + 1) /\ tpos(text, Len(text) + 1) \in Nat
      <4>1. Len(text) + 1 =< Len(text) + 1
        BY <2>1
      <4>. QED
        BY <2>1, <3>2, <4>1
    <3>. QED
      BY <3>1, <3>3, <3>4
  <2>. HIDE DEF p, b, lines
  <2>. QED
    BY <2>2
<1>2. /\ text[k] = "[" => id \in Nat /\ b = Opened(id)
      /\ text[k] = "]" => id \in Nat /\ b = Closed(id)
      /\ Len(b) \in Nat
  <2>1. /\ text[k] = "[" => id \in Nat
        /\ text[k] = "]" => id \in Nat
        /\ b \in Seq(Assembly)
    BY BlockWritten DEF Translating
  <2>. QED
    BY <2>1, LenProperties DEF Block
<1>. HIDE DEF lines, p, b, id
<1>3. ASSUME Len(b) = 3
      PROVE  /\ lines[p] = b[1] /\ lines[p + 1] = b[2] /\ lines[p + 2] = b[3]
             /\ p \in 1 .. Len(lines) /\ p + 2 \in 1 .. Len(lines)
  <2>1. p + 1 - 1 = p /\ p + 2 - 1 = p + 1 /\ p + 3 - 1 = p + 2
    BY <1>1
  <2>2. lines[p + 1 - 1] = b[1] /\ lines[p + 2 - 1] = b[2] /\ lines[p + 3 - 1] = b[3]
    BY <1>1, <1>3
  <2>. QED
    BY <1>1, <1>3, <2>1, <2>2
<1>4. text[k] = "[" => Opens(lines, p, id) /\ Len(b) = 3
  <2>. HAVE text[k] = "["
  <2>1. Len(b) = 3 /\ b[1] = Label(start_par(id)) /\ b[2] = Test /\ b[3] = Je(close_par(id))
    BY <1>2 DEF Opened
  <2>. QED
    BY <1>2, <1>3, <2>1 DEF Opens
<1>5. text[k] = "]" => Closes(lines, p, id) /\ Len(b) = 3
  <2>. HAVE text[k] = "]"
  <2>1. Len(b) = 3 /\ b[1] = Label(close_par(id)) /\ b[2] = Test /\ b[3] = Jne(start_par(id))
    BY <1>2 DEF Closed
  <2>. QED
    BY <1>2, <1>3, <2>1 DEF Closes
<1>6. p \in 1 .. Len(lines)
  BY <1>1, <1>2
<1>7. text[k] \in {"[", "]"} => tpos(text, k + 1) = p + 3
  BY <1>1, <1>4, <1>5, Zenon
<1>. QED
  BY <1>1, <1>4, <1>5, <1>6, <1>7 DEF lines, p, b, id

\* The lines of a character that is not a bracket.
LEMMA PlainBlocks ==
    ASSUME NEW text, Program(text), NEW k \in 1 .. Len(text), text[k] \notin {"[", "]"}
    PROVE  LET l == Lines(text)[tpos(text, k)]
               p == tpos(text, k)
           IN  /\ text[k] = ">" => l = Add(RegA, Number(1)) /\ tpos(text, k + 1) = p + 1
               /\ text[k] = "<" => l = Sub(RegA, Number(1)) /\ tpos(text, k + 1) = p + 1
               /\ text[k] = "+" => l = Add(AtA, Number(1)) /\ tpos(text, k + 1) = p + 1
               /\ text[k] = "-" => l = Sub(AtA, Number(1)) /\ tpos(text, k + 1) = p + 1
               /\ text[k] = "." => l = PrintLine /\ tpos(text, k + 1) = p + 1
               /\ text[k] = "," => l = InputLine /\ tpos(text, k + 1) = p + 1
               /\ text[k] = "#" => tpos(text, k + 1) = p
<1>. DEFINE p == tpos(text, k)
            b == Block(text, k)
<1>1. p \in Nat /\ tpos(text, k + 1) = p + Len(b)
      /\ \A m \in 1 .. Len(b) : Lines(text)[p + m - 1] = b[m]
  <2>1. Len(text) \in Nat /\ k \in 1 .. (Len(text) + 1) /\ k =< k
    BY DEF Program
  <2>. QED
    BY <2>1, Positions
<1>2. b = LinesOf(text[k])
  BY DEF Block
<1>. HIDE DEF p, b
<1>3. Len(b) = 1 => Lines(text)[p] = b[1]
  <2>1. p + 1 - 1 = p
    BY <1>1
  <2>. QED
    BY <1>1, <2>1
<1>4. text[k] = "#" => tpos(text, k + 1) = p
  <2>1. text[k] = "#" => Len(b) = 0
    BY <1>2 DEF LinesOf
  <2>. QED
    BY <1>1, <2>1
<1>. QED
  BY <1>1, <1>2, <1>3, <1>4 DEF LinesOf, PrintLine, InputLine, p

\* What each line can be.
LEMMA LineCases ==
    ASSUME NEW text, Program(text), NEW q \in 1 .. Len(Lines(text))
    PROVE  LET l == Lines(text)[q]
           IN  \/ q = Len(Lines(text)) /\ l = HaltLine
               \/ PlainLine(l) /\ (l = Label(start) => q = 2)
               \/ StepBy(l, 1)
               \/ \E k \in 1 .. Len(text) :
                     /\ text[k] = "["
                     /\ \/ q = tpos(text, k) /\ l = Label(start_par(parOf(text, k)))
                        \/ q = tpos(text, k) + 2 /\ l = Je(close_par(parOf(text, k)))
               \/ \E k \in 1 .. Len(text) :
                     /\ text[k] = "]"
                     /\ \/ q = tpos(text, k) /\ l = Label(close_par(parOf(text, k)))
                        \/ q = tpos(text, k) + 2 /\ l = Jne(start_par(parOf(text, k)))
<1>1. CASE q \in 1 .. 3
  <2>1. Skip(<<Number(30000)>>) # Label(start) /\ Mov(RegA, Number(2)) # Label(start)
    BY Fields
  <2>. QED
    BY <1>1, <2>1, Positions DEF PlainLine
<1>2. CASE q = Len(Lines(text))
  BY <1>2, Positions
<1>3. CASE \E k \in 1 .. Len(text) : \E m \in 1 .. Len(Block(text, k)) :
              q = tpos(text, k) + m - 1
  <2>0. PICK k \in 1 .. Len(text) : \E m \in 1 .. Len(Block(text, k)) : q = tpos(text, k) + m - 1
    BY <1>3
  <2>1. PICK m \in 1 .. Len(Block(text, k)) : q = tpos(text, k) + m - 1
    BY <2>0
  <2>2. /\ tpos(text, k + 1) = tpos(text, k) + Len(Block(text, k))
        /\ text[k] \in {"[", "]"} => tpos(text, k + 1) = tpos(text, k) + 3
        /\ tpos(text, k) \in Nat /\ Len(Block(text, k)) \in Nat /\ text[k] \in Chars
    <3>1. Block(text, k) \in Seq(Assembly) /\ text[k] \in Chars
      BY BlockWritten
    <3>2. tpos(text, k) \in Nat
      BY BracketBlocks
    <3>. QED
      BY <3>1, <3>2, BracketBlocks, LenProperties
  <2>3. CASE text[k] \in {"[", "]"}
    <3>1. Len(Block(text, k)) = 3
      <4>. DEFINE x == tpos(text, k)
                  y == Len(Block(text, k))
      <4>1. x \in Nat /\ y \in Nat /\ x + y = x + 3
        BY <2>2, <2>3
      <4>. HIDE DEF x, y
      <4>2. y = 3
        BY <4>1
      <4>. QED
        BY <4>2 DEF y
    <3>2. q = tpos(text, k) \/ q = tpos(text, k) + 1 \/ q = tpos(text, k) + 2
      BY <2>1, <2>2, <3>1
    <3>3. q = tpos(text, k) + 1 => PlainLine(Lines(text)[q]) /\ Lines(text)[q] # Label(start)
      <4>1. Test # Label(start)
        BY Fields
      <4>. QED
        BY <2>3, <4>1, BracketBlocks, SMTT(30) DEF PlainLine, Opens, Closes
    <3>. QED
      BY <2>3, <3>2, <3>3, BracketBlocks, Zenon DEF Opens, Closes
  <2>4. CASE text[k] \notin {"[", "]"}
    <3>1. text[k] # "#"
      <4>1. text[k] = "#" => tpos(text, k + 1) = tpos(text, k)
        BY <2>4, PlainBlocks
      <4>. QED
        BY <2>1, <2>2, <4>1
    <3>2. tpos(text, k + 1) = tpos(text, k) + 1
      BY <2>2, <2>4, <3>1, PlainBlocks DEF Chars
    <3>3. q = tpos(text, k)
      BY <2>1, <2>2, <3>2
    <3>4. PrintLine # Label(start) /\ InputLine # Label(start)
      BY Fields
    <3>5. /\ StepBy(Add(RegA, Number(1)), 1) /\ StepBy(Sub(RegA, Number(1)), 1)
          /\ StepBy(Add(AtA, Number(1)), 1) /\ StepBy(Sub(AtA, Number(1)), 1)
          /\ PlainLine(PrintLine) /\ PlainLine(InputLine)
      BY DEF StepBy, Places, PlainLine
    <3>. QED
      BY <2>2, <2>4, <3>1, <3>3, <3>4, <3>5, PlainBlocks DEF Chars
  <2>. QED
    BY <2>3, <2>4
<1>. QED
  BY <1>1, <1>2, <1>3, LineOf

\* The number of a bracket is a number.
LEMMA ParTypes ==
    ASSUME NEW text, Program(text), NEW k \in 1 .. Len(text), text[k] \in {"[", "]"}
    PROVE  parOf(text, k) \in Nat
BY BracketBlocks DEF Opens, Closes

BracketAt(text, k, c, q, id) == k \in 1 .. Len(text) /\ text[k] = c /\ q = tpos(text, k)
                                /\ parOf(text, k) = id

\* Labels and jumps are those of brackets.
LEMMA BracketOf ==
    ASSUME NEW text, Program(text), NEW q \in 1 .. Len(Lines(text)), NEW id \in Nat
    PROVE  LET l == Lines(text)[q]
           IN  /\ l = Label(start_par(id)) => \E k : BracketAt(text, k, "[", q, id)
               /\ l = Label(close_par(id)) => \E k : BracketAt(text, k, "]", q, id)
               /\ l = Je(close_par(id)) => \E k : BracketAt(text, k, "[", q - 2, id)
               /\ l = Jne(start_par(id)) => \E k : BracketAt(text, k, "]", q - 2, id)
               /\ l = Label(start) => q = 2
<1>. DEFINE l == Lines(text)[q]
            goal == /\ l = Label(start_par(id)) => \E k : BracketAt(text, k, "[", q, id)
                    /\ l = Label(close_par(id)) => \E k : BracketAt(text, k, "]", q, id)
                    /\ l = Je(close_par(id)) => \E k : BracketAt(text, k, "[", q - 2, id)
                    /\ l = Jne(start_par(id)) => \E k : BracketAt(text, k, "]", q - 2, id)
                    /\ l = Label(start) => q = 2
<1>1. CASE l = HaltLine
  BY <1>1, LinesDiffer
<1>2. CASE PlainLine(l) /\ (l = Label(start) => q = 2)
  <2>1. CASE l = Label(start)
    BY <1>2, <2>1, LinesDiffer
  <2>2. CASE l # Label(start)
    <3>. HIDE DEF l
    <3>1. \A x : l # Label(x) /\ l # Je(x) /\ l # Jne(x)
      BY <1>2, <2>2, OtherLine
    <3>. QED
      BY <2>2, <3>1 DEF l
  <2>. QED
    BY <2>1, <2>2
<1>3. CASE StepBy(l, 1)
  <2>. HIDE DEF l
  <2>1. \A x : l # Label(x) /\ l # Je(x) /\ l # Jne(x)
    BY <1>3, OtherLine, Zenon
  <2>. QED
    BY <2>1 DEF l
<1>4. ASSUME NEW k \in 1 .. Len(text), text[k] = "[",
             \/ q = tpos(text, k) /\ l = Label(start_par(parOf(text, k)))
             \/ q = tpos(text, k) + 2 /\ l = Je(close_par(parOf(text, k)))
      PROVE  goal
  <2>1. parOf(text, k) \in Nat /\ tpos(text, k) \in Nat
    BY <1>4, ParTypes, BracketBlocks
  <2>. HIDE DEF l
  <2>2. CASE q = tpos(text, k) /\ l = Label(start_par(parOf(text, k)))
    <3>1. l = Label(start_par(id)) => BracketAt(text, k, "[", q, id)
      BY <1>4, <2>1, <2>2, LinesDiffer, Zenon DEF BracketAt
    <3>. QED
      BY <2>1, <2>2, <3>1, LinesDiffer
  <2>3. CASE q = tpos(text, k) + 2 /\ l = Je(close_par(parOf(text, k)))
    <3>1. l = Je(close_par(id)) => BracketAt(text, k, "[", q - 2, id)
      <4>1. q - 2 = tpos(text, k)
        BY <2>1, <2>3
      <4>. QED
        BY <1>4, <2>1, <2>3, <4>1, LinesDiffer, Zenon DEF BracketAt
    <3>. QED
      BY <2>1, <2>3, <3>1, LinesDiffer
  <2>. QED
    BY <1>4, <2>2, <2>3
<1>5. ASSUME NEW k \in 1 .. Len(text), text[k] = "]",
             \/ q = tpos(text, k) /\ l = Label(close_par(parOf(text, k)))
             \/ q = tpos(text, k) + 2 /\ l = Jne(start_par(parOf(text, k)))
      PROVE  goal
  <2>1. parOf(text, k) \in Nat /\ tpos(text, k) \in Nat
    BY <1>5, ParTypes, BracketBlocks
  <2>. HIDE DEF l
  <2>2. CASE q = tpos(text, k) /\ l = Label(close_par(parOf(text, k)))
    <3>1. l = Label(close_par(id)) => BracketAt(text, k, "]", q, id)
      BY <1>5, <2>1, <2>2, LinesDiffer, Zenon DEF BracketAt
    <3>. QED
      BY <2>1, <2>2, <3>1, LinesDiffer
  <2>3. CASE q = tpos(text, k) + 2 /\ l = Jne(start_par(parOf(text, k)))
    <3>1. l = Jne(start_par(id)) => BracketAt(text, k, "]", q - 2, id)
      <4>1. q - 2 = tpos(text, k)
        BY <2>1, <2>3
      <4>. QED
        BY <1>5, <2>1, <2>3, <4>1, LinesDiffer, Zenon DEF BracketAt
    <3>. QED
      BY <2>1, <2>3, <3>1, LinesDiffer
  <2>. QED
    BY <1>5, <2>2, <2>3
<1>. HIDE DEF goal
<1>6. goal
  BY <1>1, <1>2, <1>3, <1>4, <1>5, LineCases DEF goal
<1>. QED
  BY <1>6 DEF goal

\* Brackets with the same number that close are one.
LEMMA ClosingNumbersDiffer ==
    ASSUME NEW text, Program(text), NEW i \in 1 .. Len(text), NEW j \in 1 .. Len(text),
           text[i] = "]", text[j] = "]", parOf(text, i) = parOf(text, j)
    PROVE  i = j
<1>1. PICK g : Pair(text, g, i) /\ parOf(text, g) = parOf(text, i)
  BY ClosingHasPair
<1>2. PICK h : Pair(text, h, j) /\ parOf(text, h) = parOf(text, j)
  BY ClosingHasPair
<1>3. g = h
  BY <1>1, <1>2, NumbersDiffer DEF Pair
<1>. QED
  BY <1>1, <1>2, <1>3, PairMatches

\* What compile writes before the optimizations is sound.
LEMMA LinesAreSound ==
    ASSUME NEW text, Program(text)
    PROVE  Sound(Lines(text))
<1>. DEFINE c == Lines(text)
<1>1. c \in Seq(Assembly) /\ c[Len(c)] = HaltLine /\ Len(c) \in Nat /\ c # <<>> /\ Len(c) \in 1 .. Len(c)
  <2>1. c \in Seq(Assembly) /\ c[Len(c)] = HaltLine /\ Len(c) = tpos(text, Len(text) + 1)
    BY Positions
  <2>2. tpos(text, 1) = 4 /\ tpos(text, 1) =< tpos(text, Len(text) + 1)
    <3>1. Len(text) \in Nat /\ 1 \in 1 .. (Len(text) + 1)
          /\ Len(text) + 1 \in 1 .. (Len(text) + 1) /\ 1 =< Len(text) + 1
      BY DEF Program
    <3>2. \A i, j \in 1 .. (Len(text) + 1) :
              i =< j => tpos(text, i) \in Nat /\ tpos(text, i) =< tpos(text, j)
      BY Positions
    <3>3. tpos(text, 1) = 4
      BY Positions
    <3>. QED
      BY <3>1, <3>2, <3>3
  <2>3. Len(c) \in Nat
    BY <2>1, LenProperties
  <2>. HIDE DEF c
  <2>4. Len(c) >= 4
    BY <2>1, <2>2, <2>3
  <2>. QED
    BY <2>1, <2>3, <2>4
<1>2. ASSUME NEW q \in 1 .. Len(c), NEW id \in Nat
      PROVE  /\ c[q] = Label(start_par(id)) => Opens(c, q, id)
             /\ c[q] = Label(close_par(id)) => Closes(c, q, id)
             /\ c[q] = Je(close_par(id)) => Opens(c, q - 2, id)
             /\ c[q] = Jne(start_par(id)) => Closes(c, q - 2, id)
  <2>1. \A k, r : BracketAt(text, k, "[", r, id) => Opens(c, r, id)
    BY BracketBlocks DEF BracketAt
  <2>2. \A k, r : BracketAt(text, k, "]", r, id) => Closes(c, r, id)
    BY BracketBlocks DEF BracketAt
  <2>. QED
    BY <1>2, <2>1, <2>2, BracketOf
<1>3. ASSUME NEW q \in 1 .. Len(c), NEW id \in Nat
      PROVE  /\ Opens(c, q, id) => \E r : Closes(c, r, id)
             /\ Closes(c, q, id) => \E r : Opens(c, r, id)
  <2>1. Opens(c, q, id) => \E r : Closes(c, r, id)
    <3>. HAVE Opens(c, q, id)
    <3>1. PICK k : BracketAt(text, k, "[", q, id)
      BY BracketOf DEF Opens
    <3>2. PICK j : Pair(text, k, j) /\ parOf(text, k) = parOf(text, j)
      BY <3>1, OpeningHasPair DEF BracketAt
    <3>3. j \in 1 .. Len(text) /\ text[j] = "]"
      BY <3>2 DEF Pair
    <3>. QED
      BY <3>1, <3>2, <3>3, BracketBlocks, Zenon DEF BracketAt
  <2>2. Closes(c, q, id) => \E r : Opens(c, r, id)
    <3>. HAVE Closes(c, q, id)
    <3>1. PICK k : BracketAt(text, k, "]", q, id)
      BY BracketOf DEF Closes
    <3>2. PICK i : Pair(text, i, k) /\ parOf(text, i) = parOf(text, k)
      BY <3>1, ClosingHasPair DEF BracketAt
    <3>3. i \in 1 .. Len(text) /\ text[i] = "["
      BY <3>2 DEF Pair
    <3>. QED
      BY <3>1, <3>2, <3>3, BracketBlocks, Zenon DEF BracketAt
  <2>. QED
    BY <2>1, <2>2
<1>4. ASSUME NEW q \in 1 .. Len(c)
      PROVE  \/ q = Len(c)
             \/ PlainLine(c[q])
             \/ \E n \in Nat : StepBy(c[q], n)
             \/ BracketLine(c[q])
  <2>1. \A k \in 1 .. Len(text) : text[k] \in {"[", "]"} => parOf(text, k) \in Nat
    BY ParTypes
  <2>. QED
    BY <2>1, LineCases, Zenon DEF BracketLine
<1>5. ASSUME NEW q \in 1 .. Len(c), NEW r \in 1 .. Len(c), c[q].kind = "label", c[q] = c[r]
      PROVE  q = r
  <2>1. CASE \E id \in Nat : c[q] = Label(start_par(id))
    <3>1. PICK id \in Nat : c[q] = Label(start_par(id))
      BY <2>1
    <3>2. PICK k : BracketAt(text, k, "[", q, id)
      BY <3>1, BracketOf
    <3>3. PICK h : BracketAt(text, h, "[", r, id)
      BY <1>5, <3>1, BracketOf, Zenon
    <3>. QED
      BY <3>2, <3>3, NumbersDiffer DEF BracketAt
  <2>2. CASE \E id \in Nat : c[q] = Label(close_par(id))
    <3>1. PICK id \in Nat : c[q] = Label(close_par(id))
      BY <2>2
    <3>2. PICK k : BracketAt(text, k, "]", q, id)
      BY <3>1, BracketOf
    <3>3. PICK h : BracketAt(text, h, "]", r, id)
      BY <1>5, <3>1, BracketOf, Zenon
    <3>. QED
      BY <3>2, <3>3, ClosingNumbersDiffer DEF BracketAt
  <2>3. CASE c[q] = Label(start)
    BY <1>5, <2>3, BracketOf, Zenon
  <2>4. c[q] = Label(start) \/ \E id \in Nat : c[q] \in {Label(start_par(id)), Label(close_par(id))}
    <3>. DEFINE l == c[q]
    <3>. HIDE DEF c
    <3>1. l = HaltLine \/ PlainLine(l) \/ (\E n \in Nat : StepBy(l, n)) \/ BracketLine(l)
      BY <1>1, <1>4
    <3>. HIDE DEF l
    <3>2. l.kind = "label"
      BY <1>5 DEF l
    <3>3. PlainLine(l) => l = Label(start)
      BY <3>2, OtherLine
    <3>4. ~ (\E n \in Nat : StepBy(l, n)) /\ l # HaltLine
      BY <3>2, OtherLine
    <3>5. BracketLine(l) => \E id \in Nat : l \in {Label(start_par(id)), Label(close_par(id))}
      BY <3>2, Fields DEF BracketLine
    <3>. QED
      BY <3>1, <3>3, <3>4, <3>5 DEF l
  <2>. QED
    BY <2>1, <2>2, <2>3, <2>4
<1>. HIDE DEF c
<1>6. Sound(c)
  BY <1>1, <1>2, <1>3, <1>4, <1>5, Zenon DEF Sound
<1>. QED
  BY <1>6 DEF c

-----------------------------------------------------------------------------
(* apply_optimizations.                                                       *)

Accumulating ==
    {o \in [code : Seq(Assembly), math : BOOLEAN, ptr : BOOLEAN, value : Int] :
        o.value # 0 => o.math \/ o.ptr}

\* What a flush writes.
Pending(o) == AddOrSub(IF o.math THEN AtA ELSE RegA, o.value)

\* What is pending is no line, or one that adds or subtracts.
LEMMA PendingType ==
    ASSUME NEW o \in Accumulating
    PROVE  /\ Pending(o) \in Seq(Assembly)
           /\ o.value = 0 => Pending(o) = <<>> /\ Len(Pending(o)) = 0
           /\ o.value # 0 => Len(Pending(o)) = 1 /\ \E n \in Nat : StepBy(Pending(o)[1], n)
<1>. DEFINE p == IF o.math THEN AtA ELSE RegA
<1>1. o.value \in Int /\ p \in Places /\ p \in Argument
  BY ArgumentTypes DEF Accumulating, Places
<1>. HIDE DEF p
<1>2. CASE o.value > 0
  <2>1. Pending(o) = <<Add(p, Number(o.value))>>
    BY <1>1, <1>2 DEF Pending, AddOrSub, p
  <2>2. Add(p, Number(o.value)) \in Assembly
    BY <1>1, ArgumentTypes, InstructionTypes
  <2>3. o.value \in Nat /\ StepBy(Add(p, Number(o.value)), o.value)
    BY <1>1, <1>2 DEF StepBy
  <2>. HIDE DEF p
  <2>. QED
    BY <1>2, <2>1, <2>2, <2>3
<1>3. CASE o.value < 0
  <2>1. Pending(o) = <<Sub(p, Number(-o.value))>> /\ -o.value \in Nat
    BY <1>1, <1>3 DEF Pending, AddOrSub, p
  <2>2. Sub(p, Number(-o.value)) \in Assembly
    <3>1. Number(-o.value) \in Argument
      BY <2>1, ArgumentTypes
    <3>. QED
      BY <1>1, <3>1, InstructionTypes
  <2>3. StepBy(Sub(p, Number(-o.value)), -o.value)
    BY <1>1 DEF StepBy
  <2>. QED
    BY <1>3, <2>1, <2>2, <2>3
<1>4. CASE o.value = 0
  <2>1. Pending(o) = <<>>
    BY <1>4 DEF Pending, AddOrSub
  <2>. QED
    BY <1>4, <2>1
<1>. QED
  BY <1>1, <1>2, <1>3, <1>4

Absorbed(o, l) == \/ IsStep(l, AtA) /\ ~ o.ptr
                  \/ IsStep(l, RegA) /\ ~ o.math

\* One line: a step is added up, any other is written after what was pending.
LEMMA FoldedLine ==
    ASSUME NEW o \in Accumulating, NEW l \in Assembly
    PROVE  /\ Folded(o, l) \in Accumulating
           /\ Absorbed(o, l) =>
                 /\ Folded(o, l).code = o.code
                 /\ Folded(o, l).value = o.value + Sign(l)
                 /\ Folded(o, l).math <=> IsStep(l, AtA)
                 /\ o.value # 0 => (o.math <=> IsStep(l, AtA))
           /\ ~ Absorbed(o, l) =>
                 /\ Folded(o, l).code = (o.code \o Pending(o)) \o <<l>>
                 /\ Folded(o, l).value = 0
<1>0. Sign(l) \in Int
  BY DEF Sign
<1>1. IsStep(l, AtA) => ~ IsStep(l, RegA)
  BY PlacesDiffer DEF IsStep
<1>2. CASE IsStep(l, AtA) /\ ~ o.ptr
  <2>1. Folded(o, l) = [o EXCEPT !.math = TRUE, !.value = @ + Sign(l)]
    BY <1>1, <1>2 DEF Folded
  <2>2. Absorbed(o, l)
    BY <1>2 DEF Absorbed
  <2>3. Folded(o, l) = [code |-> o.code, math |-> TRUE, ptr |-> o.ptr,
                        value |-> o.value + Sign(l)]
    BY <2>1, Zenon DEF Accumulating
  <2>4. Folded(o, l) \in Accumulating
    BY <1>0, <2>3 DEF Accumulating
  <2>5. o.value # 0 => o.math
    BY <1>2 DEF Accumulating
  <2>. QED
    BY <1>2, <2>2, <2>3, <2>4, <2>5
<1>3. CASE IsStep(l, RegA) /\ ~ o.math
  <2>1. Folded(o, l) = [o EXCEPT !.ptr = TRUE, !.value = @ + Sign(l)]
    BY <1>1, <1>3 DEF Folded
  <2>2. Absorbed(o, l)
    BY <1>3 DEF Absorbed
  <2>3. Folded(o, l) = [code |-> o.code, math |-> FALSE, ptr |-> TRUE,
                        value |-> o.value + Sign(l)]
    BY <1>3, <2>1, Zenon DEF Accumulating
  <2>4. Folded(o, l) \in Accumulating
    BY <1>0, <2>3 DEF Accumulating
  <2>. QED
    BY <1>1, <1>3, <2>2, <2>3, <2>4
<1>4. CASE ~ Absorbed(o, l)
  <2>1. Folded(o, l) = [flush(o) EXCEPT !.code = Append(@, l)]
    BY <1>4 DEF Folded, Absorbed
  <2>2. /\ flush(o) \in Accumulating /\ flush(o).value = 0
        /\ flush(o).code = o.code \o Pending(o)
    <3>1. CASE o.value = 0
      <4>1. flush(o) = o /\ Pending(o) = <<>>
        BY <3>1, PendingType DEF flush
      <4>2. o.code \o <<>> = o.code
        BY ConcatEmptySeq DEF Accumulating
      <4>. QED
        BY <3>1, <4>1, <4>2
    <3>2. CASE o.value # 0
      <4>1. flush(o) = [Accumulator EXCEPT !.code = o.code \o Pending(o)]
        BY <3>2 DEF flush, Pending
      <4>2. o.code \o Pending(o) \in Seq(Assembly)
        BY PendingType, ConcatProperties DEF Accumulating
      <4>3. flush(o) = [code |-> o.code \o Pending(o), math |-> FALSE, ptr |-> FALSE,
                        value |-> 0]
        BY <4>1, Zenon DEF Accumulator
      <4>. QED
        BY <4>2, <4>3 DEF Accumulating
    <3>. QED
      BY <3>1, <3>2
  <2>. DEFINE g == flush(o)
  <2>3. g.code \in Seq(Assembly) /\ Append(g.code, l) \in Seq(Assembly)
        /\ Append(g.code, l) = g.code \o <<l>>
    <3>1. g.code \in Seq(Assembly)
      BY <2>2, Zenon DEF Accumulating
    <3>. HIDE DEF g
    <3>. QED
      BY <3>1, AppendProperties, AppendIsConcat
  <2>. HIDE DEF g
  <2>4. Folded(o, l) = [g EXCEPT !.code = Append(@, l)] /\ g \in Accumulating /\ g.value = 0
    BY <2>1, <2>2 DEF g
  <2>5. Folded(o, l) \in Accumulating /\ Folded(o, l).code = g.code \o <<l>>
        /\ Folded(o, l).value = 0
    BY <2>3, <2>4, Zenon DEF Accumulating
  <2>. QED
    BY <1>4, <2>2, <2>5 DEF g
<1>. QED
  BY <1>2, <1>3, <1>4 DEF Absorbed

\* The recursive definition of the accumulator after each line has a solution.
LEMMA FoldingRuns ==
    ASSUME NEW lines \in Seq(Assembly)
    PROVE  /\ Folding(lines) \in [0 .. Len(lines) -> Accumulating]
           /\ Folding(lines)[0] = Accumulator
           /\ \A k \in 1 .. Len(lines) :
                 Folding(lines)[k] = Folded(Folding(lines)[k - 1], lines[k])
<1>. DEFINE n == Len(lines)
            step == [ks \in ((0 + 1) .. n) \X Accumulating |-> Folded(ks[2], lines[ks[1]])]
            Solves(f) == f = [k \in 0 .. Len(lines) |->
                                IF k = 0 THEN Accumulator ELSE Folded(f[k - 1], lines[k])]
<1>1. n \in Int /\ 0 \in Int /\ 0 =< n
  BY LenProperties
<1>2. step \in [((0 + 1) .. n) \X Accumulating -> Accumulating]
  <2>1. ASSUME NEW ks \in ((0 + 1) .. n) \X Accumulating
        PROVE  Folded(ks[2], lines[ks[1]]) \in Accumulating
    <3>1. lines[ks[1]] \in Assembly /\ ks[2] \in Accumulating
      BY <2>1
    <3>. QED
      BY <3>1, FoldedLine, Zenon
  <2>. QED
    BY <2>1
<1>3. PICK f : IsRun(f, Accumulating, Accumulator, 0, n, step)
  <2>1. Accumulator \in Accumulating
    BY EmptySeq DEF Accumulator, Accumulating
  <2>. HIDE DEF step, n
  <2>. QED
    BY <1>1, <1>2, <2>1, StepsHaveRun, Zenon
<1>4. /\ f \in [0 .. n -> Accumulating] /\ f[0] = Accumulator
      /\ \A k \in 1 .. n : f[k - 1] \in Accumulating /\ f[k] = Folded(f[k - 1], lines[k])
  BY <1>3 DEF IsRun
<1>. HIDE DEF step
<1>5. Solves(f)
  BY <1>4
<1>. DEFINE g == CHOOSE h : Solves(h)
<1>6. Solves(g)
  <2>. HIDE DEF Solves
  <2>. QED
    BY <1>5
<1>7. Folding(lines) = g
  BY Zenon DEF Folding
<1>. HIDE DEF g
<1>8. \A k \in (0 + 1) .. n : g[k - 1] \in Accumulating => g[k] = step[<<k, g[k - 1]>>]
  BY <1>6 DEF step
<1>9. g = [k \in 0 .. n |-> g[k]] /\ g[0] = Accumulator
  BY <1>6
<1>10. IsRun(g, Accumulating, Accumulator, 0, n, step)
  <2>. HIDE DEF n, Solves
  <2>. QED
    BY <1>1, <1>3, <1>8, <1>9, RunIsUnique, Zenon
<1>. QED
  BY <1>7, <1>10 DEF IsRun, step

\* Where what was pending before line k is written, and where line k is then.
fat(c, k) == Len(Folding(c)[k - 1].code) + 1
fpos(c, k) == fat(c, k) + Len(Pending(Folding(c)[k - 1]))
Stays(c, k) == k \in 1 .. Len(c) /\ ~ Absorbed(Folding(c)[k - 1], c[k])

foldedCode(c) == [k \in 0 .. Len(c) |-> Folding(c)[k].code]

\* A line that is not added up is in the folded code, after what was pending.
LEMMA StayingLine ==
    ASSUME NEW c \in Seq(Assembly), NEW k \in 1 .. Len(c)
    PROVE  LET o == Folding(c)[k - 1]
               next == Folding(c)[k]
           IN  /\ o \in Accumulating /\ next \in Accumulating /\ c[k] \in Assembly
               /\ fat(c, k) \in Nat \ {0} /\ fpos(c, k) \in Nat \ {0}
               /\ fat(c, k) = Len(o.code) + 1 /\ fat(c, k + 1) = Len(next.code) + 1
               /\ o.value = 0 => fpos(c, k) = fat(c, k)
               /\ o.value # 0 => fpos(c, k) = fat(c, k) + 1
               /\ ~ Stays(c, k) => /\ Absorbed(o, c[k]) /\ next.code = o.code
                                   /\ fat(c, k + 1) = fat(c, k)
               /\ Stays(c, k) =>
                     /\ next.code = (o.code \o Pending(o)) \o <<c[k]>> /\ next.value = 0
                     /\ Len(next.code) = fpos(c, k) /\ fat(c, k + 1) = fpos(c, k) + 1
                     /\ next.code[fpos(c, k)] = c[k]
                     /\ o.value # 0 => next.code[fat(c, k)] = Pending(o)[1]
<1>. DEFINE o == Folding(c)[k - 1]
            next == Folding(c)[k]
            p == Pending(o)
<1>1. o \in Accumulating /\ next \in Accumulating /\ next = Folded(o, c[k]) /\ c[k] \in Assembly
  <2>1. Len(c) \in Nat /\ k - 1 \in 0 .. Len(c) /\ k \in 0 .. Len(c)
    BY LenProperties
  <2>. QED
    BY <2>1, FoldingRuns
<1>2. fat(c, k) = Len(o.code) + 1 /\ fpos(c, k) = fat(c, k) + Len(p)
  BY DEF fat, fpos
<1>3. fat(c, k + 1) = Len(next.code) + 1
  <2>1. (k + 1) - 1 = k
    OBVIOUS
  <2>. QED
    BY <2>1 DEF fat
<1>4. Stays(c, k) <=> ~ Absorbed(o, c[k])
  BY DEF Stays
<1>. HIDE DEF o, next
<1>5. /\ p \in Seq(Assembly) /\ o.code \in Seq(Assembly) /\ o.value \in Int
      /\ Len(o.code) \in Nat /\ Len(p) \in Nat
      /\ o.value = 0 => Len(p) = 0
      /\ o.value # 0 => Len(p) = 1
  <2>1. o.code \in Seq(Assembly) /\ o.value \in Int
    BY <1>1 DEF Accumulating
  <2>2. p \in Seq(Assembly) /\ (o.value = 0 => Len(p) = 0) /\ (o.value # 0 => Len(p) = 1)
    BY <1>1, PendingType
  <2>. QED
    BY <2>1, <2>2, LenProperties
<1>6. ~ Stays(c, k) => Absorbed(o, c[k]) /\ next.code = o.code /\ fat(c, k + 1) = fat(c, k)
  BY <1>1, <1>2, <1>3, <1>4, FoldedLine, Zenon
<1>7. Stays(c, k) => next.code = (o.code \o p) \o <<c[k]>> /\ next.value = 0
  BY <1>1, <1>4, FoldedLine, Zenon
<1>8. ASSUME Stays(c, k)
      PROVE  /\ Len(next.code) = fpos(c, k)
             /\ next.code[fpos(c, k)] = c[k]
             /\ o.value # 0 => next.code[fat(c, k)] = p[1]
  <2>. DEFINE a == o.code
              l == c[k]
  <2>1. a \in Seq(Assembly) /\ l \in Assembly /\ next.code = (a \o p) \o <<l>>
        /\ fat(c, k) = Len(a) + 1 /\ fpos(c, k) = Len(a) + 1 + Len(p)
    BY <1>1, <1>2, <1>5, <1>7, <1>8, Zenon
  <2>. HIDE DEF a, l, p
  <2>2. a \o p \in Seq(Assembly) /\ Len(a \o p) = Len(a) + Len(p) /\ Len(a) \in Nat
        /\ Len(p) \in Nat
        /\ \A i \in 1 .. (Len(a) + Len(p)) :
              (a \o p)[i] = IF i =< Len(a) THEN a[i] ELSE p[i - Len(a)]
    BY <1>5, <2>1, ConcatProperties, LenProperties
  <2>. DEFINE b == a \o p
  <2>3. b \in Seq(Assembly)
    BY <2>2
  <2>. HIDE DEF b
  <2>4. /\ Len(b \o <<l>>) = Len(b) + 1 /\ (b \o <<l>>)[Len(b) + 1] = l
        /\ \A i \in 1 .. Len(b) : (b \o <<l>>)[i] = b[i]
    <3>1. b \o <<l>> = Append(b, l)
      BY <2>1, <2>3, AppendIsConcat
    <3>. QED
      BY <2>1, <2>3, <3>1, AppendProperties
  <2>5. next.code = b \o <<l>> /\ Len(b) = Len(a) + Len(p)
    BY <2>1, <2>2 DEF b
  <2>6. Len(next.code) = fpos(c, k) /\ next.code[fpos(c, k)] = l
    <3>1. Len(b) + 1 = fpos(c, k)
      BY <2>1, <2>2, <2>5
    <3>. QED
      BY <2>4, <2>5, <3>1
  <2>7. ASSUME o.value # 0 PROVE next.code[fat(c, k)] = p[1]
    <3>1. Len(p) = 1
      BY <1>5, <2>7
    <3>2. Len(a) + 1 \in 1 .. (Len(a) + Len(p)) /\ ~ (Len(a) + 1 =< Len(a))
          /\ (Len(a) + 1) - Len(a) = 1 /\ Len(a) + 1 \in 1 .. Len(b)
      BY <2>2, <2>5, <3>1
    <3>3. (a \o p)[Len(a) + 1] = p[1]
      BY <2>2, <3>2
    <3>4. next.code[Len(a) + 1] = b[Len(a) + 1]
      BY <2>4, <2>5, <3>2
    <3>. QED
      BY <2>1, <3>3, <3>4 DEF b
  <2>. QED
    BY <2>6, <2>7 DEF l
<1>9. fat(c, k) \in Nat \ {0} /\ fpos(c, k) \in Nat \ {0}
      /\ (o.value = 0 => fpos(c, k) = fat(c, k)) /\ (o.value # 0 => fpos(c, k) = fat(c, k) + 1)
  <2>. DEFINE x == Len(o.code)
              y == Len(p)
  <2>1. x \in Nat /\ y \in Nat /\ fat(c, k) = x + 1 /\ fpos(c, k) = fat(c, k) + y
    BY <1>2, <1>5
  <2>2. (o.value = 0 => y = 0) /\ (o.value # 0 => y = 1)
    BY <1>5
  <2>. HIDE DEF x, y
  <2>3. fat(c, k) \in Nat \ {0} /\ fpos(c, k) \in Nat \ {0}
    BY <2>1
  <2>. QED
    BY <2>1, <2>2, <2>3
<1>. QED
  BY <1>1, <1>2, <1>3, <1>6, <1>7, <1>8, <1>9, Zenon DEF o, next

Ends(c) == c \in Seq(Assembly) /\ c # <<>> /\ c[Len(c)] = HaltLine

\* Which lines are never added up.
LEMMA OthersStay ==
    ASSUME NEW c \in Seq(Assembly), NEW k \in 1 .. Len(c),
           \/ c[k].kind # "instruction"
           \/ c[k].what \notin {ADD, SUB}
    PROVE  Stays(c, k)
BY DEF Stays, Absorbed, IsStep

\* The folded lines only grow from line to line.
LEMMA FoldedGrows ==
    ASSUME NEW c \in Seq(Assembly)
    PROVE  Growing(foldedCode(c), Assembly, 0, Len(c))
<1>1. Len(c) \in Nat
  BY LenProperties
<1>2. foldedCode(c) \in [0 .. Len(c) -> Seq(Assembly)]
  <2>1. \A k \in 0 .. Len(c) : Folding(c)[k].code \in Seq(Assembly)
    BY FoldingRuns DEF Accumulating
  <2>. QED
    BY <2>1 DEF foldedCode
<1>3. ASSUME NEW k \in (0 + 1) .. Len(c)
      PROVE  \E t \in Seq(Assembly) : foldedCode(c)[k] = foldedCode(c)[k - 1] \o t
  <2>. DEFINE o == Folding(c)[k - 1]
              next == Folding(c)[k]
  <2>1. k \in 1 .. Len(c) /\ k \in 0 .. Len(c) /\ k - 1 \in 0 .. Len(c)
    BY <1>1
  <2>2. foldedCode(c)[k] = next.code /\ foldedCode(c)[k - 1] = o.code
    BY <2>1 DEF foldedCode
  <2>3. o \in Accumulating /\ c[k] \in Assembly
        /\ (~ Stays(c, k) => next.code = o.code)
        /\ (Stays(c, k) => next.code = (o.code \o Pending(o)) \o <<c[k]>>)
    BY <2>1, StayingLine, Zenon
  <2>. HIDE DEF o, next
  <2>4. o.code \in Seq(Assembly) /\ Pending(o) \in Seq(Assembly) /\ <<c[k]>> \in Seq(Assembly)
    BY <2>3, PendingType DEF Accumulating
  <2>5. o.code = o.code \o <<>> /\ <<>> \in Seq(Assembly)
    BY <2>4, ConcatEmptySeq, EmptySeq
  <2>6. (o.code \o Pending(o)) \o <<c[k]>> = o.code \o (Pending(o) \o <<c[k]>>)
        /\ Pending(o) \o <<c[k]>> \in Seq(Assembly)
    <3>. DEFINE x == o.code
                y == Pending(o)
                z == <<c[k]>>
    <3>1. x \in Seq(Assembly) /\ y \in Seq(Assembly) /\ z \in Seq(Assembly)
      BY <2>4
    <3>. HIDE DEF x, y, z
    <3>2. (x \o y) \o z = x \o (y \o z)
      BY <3>1, ConcatAssociative, SMTT(60)
    <3>3. y \o z \in Seq(Assembly)
      BY <3>1, ConcatProperties
    <3>. QED
      BY <3>2, <3>3, Zenon DEF x, y, z
  <2>. QED
    BY <2>2, <2>3, <2>5, <2>6, Zenon
<1>. QED
  BY <1>2, <1>3, Zenon DEF Growing

\* The folded code, line by line.
LEMMA FoldedPlaces ==
    ASSUME NEW c, Ends(c), NEW k, Stays(c, k)
    PROVE  LET F == apply_optimizations(c)
               o == Folding(c)[k - 1]
           IN  /\ fat(c, k) \in 1 .. Len(F) /\ fpos(c, k) \in 1 .. Len(F)
               /\ F[fpos(c, k)] = c[k]
               /\ o.value # 0 => F[fat(c, k)] = Pending(o)[1]
<1>. DEFINE F == apply_optimizations(c)
            n == Len(c)
            code_ == foldedCode(c)
<1>1. c \in Seq(Assembly) /\ n \in Nat /\ n > 0 /\ c[n] = HaltLine
  BY LenProperties, EmptySeq DEF Ends
<1>2. F = code_[n]
  <2>1. Stays(c, n)
    <3>1. HaltLine.what \notin {ADD, SUB}
      BY Fields DEF ADD, SUB
    <3>. QED
      BY <1>1, <3>1, OthersStay
  <2>2. n \in 1 .. n
    BY <1>1
  <2>3. Folding(c)[n].value = 0
    BY <1>1, <2>1, <2>2, StayingLine, Zenon
  <2>4. n \in 0 .. n
    BY <1>1
  <2>. QED
    BY <2>3, <2>4 DEF apply_optimizations, flush, foldedCode
<1>3. k \in 1 .. n /\ k \in 0 .. n /\ n \in k .. n
  BY <1>1 DEF Stays
<1>4. Len(code_[k]) \in Nat /\ Len(F) \in Nat /\ Len(code_[k]) =< Len(F)
      /\ \A q \in 1 .. Len(code_[k]) : F[q] = code_[k][q]
  <2>. HIDE DEF code_, F, n
  <2>1. Growing(code_, Assembly, 0, n) /\ 0 \in Int /\ n \in Int
    BY <1>1, FoldedGrows DEF code_, n
  <2>. QED
    BY <1>2, <1>3, <2>1, GrowingKeeps
<1>5. code_[k] = Folding(c)[k].code
  BY <1>3 DEF foldedCode
<1>. HIDE DEF F, n, code_
<1>. DEFINE o == Folding(c)[k - 1]
            next == code_[k]
<1>6. /\ fat(c, k) \in Nat \ {0} /\ fpos(c, k) \in Nat \ {0}
      /\ (fpos(c, k) = fat(c, k) \/ fpos(c, k) = fat(c, k) + 1)
      /\ Len(next) = fpos(c, k)
      /\ next[fpos(c, k)] = c[k]
      /\ o.value # 0 => next[fat(c, k)] = Pending(o)[1]
  <2>1. k \in 1 .. Len(c)
    BY <1>3 DEF n
  <2>. DEFINE then == Folding(c)[k].code
  <2>2. /\ fat(c, k) \in Nat \ {0} /\ fpos(c, k) \in Nat \ {0}
        /\ o \in Accumulating
        /\ o.value = 0 => fpos(c, k) = fat(c, k)
        /\ o.value # 0 => fpos(c, k) = fat(c, k) + 1
        /\ Len(then) = fpos(c, k)
        /\ then[fpos(c, k)] = c[k]
        /\ o.value # 0 => then[fat(c, k)] = Pending(o)[1]
    BY <1>1, <2>1, StayingLine, Zenon
  <2>3. next = then
    BY <1>5
  <2>. HIDE DEF o, next, then
  <2>. QED
    BY <2>2, <2>3
<1>7. fat(c, k) \in 1 .. Len(next) /\ fpos(c, k) \in 1 .. Len(next)
  BY <1>6
<1>8. fat(c, k) \in 1 .. Len(F) /\ fpos(c, k) \in 1 .. Len(F)
      /\ F[fpos(c, k)] = next[fpos(c, k)] /\ F[fat(c, k)] = next[fat(c, k)]
  BY <1>4, <1>7
<1>. QED
  BY <1>6, <1>8 DEF F, o

\* Every line of the folded code is a line that stays, or what was pending before one.
FoldedFrom(c, r, k) ==
    /\ Stays(c, k)
    /\ \/ r = fpos(c, k)
       \/ r = fat(c, k) /\ Folding(c)[k - 1].value # 0

\* Every folded line comes from a line that stays or is what was pending before one.
LEMMA FoldedLineOf ==
    ASSUME NEW c, Ends(c), NEW r \in 1 .. Len(apply_optimizations(c))
    PROVE  \E k : FoldedFrom(c, r, k)
<1>. DEFINE F == apply_optimizations(c)
            n == Len(c)
            g == foldedCode(c)
<1>1. c \in Seq(Assembly) /\ n \in Nat /\ n > 0 /\ c[n] = HaltLine /\ Growing(g, Assembly, 0, n)
  BY LenProperties, EmptySeq, FoldedGrows DEF Ends
<1>2. F = g[n]
  <2>1. Stays(c, n)
    <3>1. HaltLine.what \notin {ADD, SUB}
      BY Fields DEF ADD, SUB
    <3>. QED
      BY <1>1, <3>1, OthersStay
  <2>2. n \in 1 .. n
    BY <1>1
  <2>3. Folding(c)[n].value = 0
    BY <1>1, <2>1, <2>2, StayingLine, Zenon
  <2>4. n \in 0 .. n
    BY <1>1
  <2>. QED
    BY <2>3, <2>4 DEF apply_optimizations, flush, foldedCode
<1>3. Len(g[0]) = 0
  <2>1. g[0] = <<>>
    BY <1>1, FoldingRuns DEF foldedCode, Accumulator
  <2>. QED
    BY <2>1
<1>4. PICK k \in (0 + 1) .. n : Len(g[k - 1]) < r /\ r =< Len(g[k])
  <2>1. r \in Nat /\ Len(g[0]) < r /\ r =< Len(g[n])
    BY <1>2, <1>3
  <2>. HIDE DEF g, n
  <2>2. 0 \in Int /\ n \in Int /\ 0 =< n
    BY <1>1
  <2>. QED
    BY <1>1, <2>1, <2>2, GrowingCovers, Zenon
<1>5. k \in 1 .. n /\ g[k] = Folding(c)[k].code /\ g[k - 1] = Folding(c)[k - 1].code
  BY <1>1 DEF foldedCode
<1>. HIDE DEF g
<1>. DEFINE o == Folding(c)[k - 1]
            next == Folding(c)[k]
<1>6. /\ o \in Accumulating /\ fat(c, k) = Len(o.code) + 1
      /\ o.value = 0 => fpos(c, k) = fat(c, k)
      /\ o.value # 0 => fpos(c, k) = fat(c, k) + 1
      /\ ~ Stays(c, k) => next.code = o.code
      /\ Stays(c, k) => Len(next.code) = fpos(c, k)
  BY <1>1, <1>5, StayingLine, Zenon
<1>7. Len(o.code) \in Nat /\ Len(o.code) < r /\ r =< Len(next.code) /\ r \in Nat
  <2>1. o.code \in Seq(Assembly)
    BY <1>6 DEF Accumulating
  <2>. QED
    BY <1>4, <1>5, <2>1, LenProperties
<1>. HIDE DEF o, next
<1>8. Stays(c, k)
  BY <1>6, <1>7
<1>9. r = fpos(c, k) \/ (r = fat(c, k) /\ o.value # 0)
  BY <1>6, <1>7, <1>8
<1>. QED
  BY <1>8, <1>9 DEF FoldedFrom, o

\* The last line stays and is the last of the folded lines.
LEMMA FoldedEnds ==
    ASSUME NEW c, Ends(c)
    PROVE  /\ Stays(c, Len(c)) /\ Len(c) \in 1 .. Len(c)
           /\ apply_optimizations(c) \in Seq(Assembly) /\ apply_optimizations(c) # <<>>
           /\ Len(apply_optimizations(c)) = fpos(c, Len(c))
           /\ Ends(apply_optimizations(c))
<1>. DEFINE F == apply_optimizations(c)
            n == Len(c)
<1>1. c \in Seq(Assembly) /\ n \in Nat /\ n > 0 /\ c[n] = HaltLine /\ n \in 1 .. n /\ n \in 0 .. n
  BY LenProperties, EmptySeq DEF Ends
<1>2. Stays(c, n)
  <2>1. HaltLine.what \notin {ADD, SUB}
    BY Fields DEF ADD, SUB
  <2>. QED
    BY <1>1, <2>1, OthersStay
<1>3. Folding(c)[n].value = 0 /\ Len(Folding(c)[n].code) = fpos(c, n) /\ fpos(c, n) \in Nat \ {0}
  BY <1>1, <1>2, StayingLine, Zenon
<1>4. F = Folding(c)[n].code /\ F \in Seq(Assembly)
  BY <1>1, <1>3, FoldingRuns DEF apply_optimizations, flush, Accumulating
<1>5. F[fpos(c, n)] = HaltLine
  BY <1>1, <1>2, FoldedPlaces
<1>. HIDE DEF F
<1>6. Len(F) = fpos(c, n) /\ F # <<>>
  BY <1>3, <1>4
<1>. QED
  BY <1>1, <1>2, <1>4, <1>5, <1>6 DEF F, Ends

\* The lines that stay keep their order.
LEMMA FoldedApart ==
    ASSUME NEW c \in Seq(Assembly), NEW j, NEW k, Stays(c, j), Stays(c, k), j < k
    PROVE  fpos(c, j) < fat(c, k)
<1>. DEFINE n == Len(c)
            g == foldedCode(c)
<1>1. n \in Nat /\ Growing(g, Assembly, 0, n) /\ j \in 1 .. n /\ k \in 1 .. n
  BY LenProperties, FoldedGrows DEF Stays
<1>2. j \in 0 .. n /\ k - 1 \in j .. n /\ k - 1 \in 0 .. n /\ 0 \in Int /\ n \in Int
  BY <1>1
<1>3. Len(g[j]) =< Len(g[k - 1]) /\ Len(g[j]) \in Nat /\ Len(g[k - 1]) \in Nat
  <2>. HIDE DEF g, n
  <2>. QED
    BY <1>1, <1>2, GrowingKeeps
<1>4. g[j] = Folding(c)[j].code /\ g[k - 1] = Folding(c)[k - 1].code
  BY <1>2 DEF foldedCode
<1>5. Len(Folding(c)[j].code) = fpos(c, j) /\ fat(c, k) = Len(Folding(c)[k - 1].code) + 1
  BY <1>1, StayingLine, Zenon
<1>. HIDE DEF g
<1>. QED
  BY <1>3, <1>4, <1>5

\* Two lines in a row that stay are in a row.
LEMMA FoldedInARow ==
    ASSUME NEW c \in Seq(Assembly), NEW k \in Nat, Stays(c, k), Stays(c, k + 1)
    PROVE  fpos(c, k + 1) = fpos(c, k) + 1
<1>1. k \in 1 .. Len(c) /\ k + 1 \in 1 .. Len(c) /\ (k + 1) - 1 = k
  BY DEF Stays
<1>2. Folding(c)[k].value = 0 /\ fat(c, k + 1) = fpos(c, k) + 1
  BY <1>1, StayingLine, Zenon
<1>3. Folding(c)[(k + 1) - 1].value = 0 => fpos(c, k + 1) = fat(c, k + 1)
  BY <1>1, StayingLine, Zenon
<1>. QED
  BY <1>1, <1>2, <1>3

\* A block is folded into itself.
LEMMA BlocksFold ==
    ASSUME NEW c, Ends(c), NEW q, NEW id
    PROVE  /\ Opens(c, q, id) => /\ Opens(apply_optimizations(c), fpos(c, q), id)
                                 /\ Stays(c, q) /\ Stays(c, q + 1) /\ Stays(c, q + 2)
                                 /\ fpos(c, q + 1) = fpos(c, q) + 1
                                 /\ fpos(c, q + 2) = fpos(c, q) + 2
           /\ Closes(c, q, id) => /\ Closes(apply_optimizations(c), fpos(c, q), id)
                                  /\ Stays(c, q) /\ Stays(c, q + 1) /\ Stays(c, q + 2)
                                  /\ fpos(c, q + 1) = fpos(c, q) + 1
                                  /\ fpos(c, q + 2) = fpos(c, q) + 2
<1>. DEFINE F == apply_optimizations(c)
            Kept(l) == l.kind # "instruction" \/ l.what \notin {ADD, SUB}
<1>1. c \in Seq(Assembly) /\ Len(c) \in Nat
  BY LenProperties DEF Ends
<1>2. ASSUME NEW l, NEW j, q \in 1 .. Len(c), q + 2 \in 1 .. Len(c),
             c[q] = l, c[q + 1] = Test, c[q + 2] = j, Kept(l), Kept(j)
      PROVE  /\ Stays(c, q) /\ Stays(c, q + 1) /\ Stays(c, q + 2)
             /\ fpos(c, q + 1) = fpos(c, q) + 1
             /\ fpos(c, q + 2) = fpos(c, q) + 2
             /\ fpos(c, q) \in 1 .. Len(F) /\ fpos(c, q) + 2 \in 1 .. Len(F)
             /\ F[fpos(c, q)] = l /\ F[fpos(c, q) + 1] = Test /\ F[fpos(c, q) + 2] = j
  <2>1. q + 1 \in 1 .. Len(c) /\ q \in Nat /\ q + 1 \in Nat /\ (q + 1) + 1 = q + 2
    BY <1>1, <1>2
  <2>2. Kept(Test)
    BY Fields DEF ADD, SUB
  <2>3. Stays(c, q) /\ Stays(c, q + 1) /\ Stays(c, q + 2)
    BY <1>1, <1>2, <2>1, <2>2, OthersStay
  <2>. HIDE DEF F
  <2>4. /\ fpos(c, q + 1) = fpos(c, q) + 1
        /\ fpos(c, q + 2) = fpos(c, q + 1) + 1
    <3>1. fpos(c, q + 1) = fpos(c, q) + 1
      BY <1>1, <2>1, <2>3, FoldedInARow
    <3>2. fpos(c, (q + 1) + 1) = fpos(c, q + 1) + 1
      BY <1>1, <2>1, <2>3, FoldedInARow
    <3>. QED
      BY <2>1, <3>1, <3>2
  <2>5. /\ fpos(c, q) \in 1 .. Len(F) /\ fpos(c, q + 2) \in 1 .. Len(F)
        /\ F[fpos(c, q)] = l /\ F[fpos(c, q + 1)] = Test /\ F[fpos(c, q + 2)] = j
    BY <1>2, <2>3, FoldedPlaces, Zenon DEF F
  <2>6. fpos(c, q) \in Nat /\ fpos(c, q + 2) = fpos(c, q) + 2
    BY <2>4, <2>5
  <2>. QED
    BY <2>3, <2>4, <2>5, <2>6
<1>3. Opens(c, q, id) => Kept(Label(start_par(id))) /\ Kept(Je(close_par(id)))
  BY Fields DEF ADD, SUB
<1>4. Closes(c, q, id) => Kept(Label(close_par(id))) /\ Kept(Jne(start_par(id)))
  BY Fields DEF ADD, SUB
<1>. HIDE DEF Kept, F
<1>. QED
  BY <1>2, <1>3, <1>4, Zenon DEF Opens, Closes, F

\* A line of the folded code that is not a step is a line that was there before.
LEMMA FoldedSame ==
    ASSUME NEW c, Ends(c), NEW r \in 1 .. Len(apply_optimizations(c)),
           \A n \in Nat : ~ StepBy(apply_optimizations(c)[r], n)
    PROVE  \E k : Stays(c, k) /\ r = fpos(c, k) /\ apply_optimizations(c)[r] = c[k]
<1>. DEFINE F == apply_optimizations(c)
<1>1. PICK k : FoldedFrom(c, r, k)
  BY FoldedLineOf
<1>2. Stays(c, k) /\ (r = fpos(c, k) \/ (r = fat(c, k) /\ Folding(c)[k - 1].value # 0))
  BY <1>1 DEF FoldedFrom
<1>3. CASE r = fpos(c, k)
  BY <1>2, <1>3, FoldedPlaces
<1>4. CASE r = fat(c, k) /\ Folding(c)[k - 1].value # 0
  <2>1. F[r] = Pending(Folding(c)[k - 1])[1]
    BY <1>2, <1>4, FoldedPlaces
  <2>2. Folding(c)[k - 1] \in Accumulating
    BY <1>2, StayingLine, Zenon DEF Ends, Stays
  <2>. QED
    BY <1>4, <2>1, <2>2, PendingType
<1>. QED
  BY <1>2, <1>3, <1>4

\* Folding the runs keeps the lines sound.
LEMMA FoldingIsSound ==
    ASSUME NEW c, Sound(c)
    PROVE  Sound(apply_optimizations(c))
<1>. DEFINE F == apply_optimizations(c)
<1>1. Ends(c) /\ c \in Seq(Assembly)
  BY DEF Sound, Ends
<1>2. Ends(F)
  BY <1>1, FoldedEnds
<1>3. ASSUME NEW r \in 1 .. Len(F), NEW l, F[r] = l, l.kind = "label" \/ l.what \notin {ADD, SUB}
      PROVE  \E k : Stays(c, k) /\ r = fpos(c, k) /\ c[k] = l /\ k \in 1 .. Len(c)
  <2>1. \A n \in Nat : ~ StepBy(l, n)
    BY <1>3, Fields DEF StepBy, ADD, SUB
  <2>2. PICK k : Stays(c, k) /\ r = fpos(c, k) /\ F[r] = c[k]
    BY <1>1, <1>3, <2>1, FoldedSame
  <2>. QED
    BY <1>3, <2>2 DEF Stays
<1>4. ASSUME NEW q \in 1 .. Len(F), NEW r \in 1 .. Len(F), F[q].kind = "label", F[q] = F[r]
      PROVE  q = r
  <2>1. PICK j : Stays(c, j) /\ q = fpos(c, j) /\ c[j] = F[q] /\ j \in 1 .. Len(c)
    BY <1>3, <1>4
  <2>2. PICK k : Stays(c, k) /\ r = fpos(c, k) /\ c[k] = F[r] /\ k \in 1 .. Len(c)
    BY <1>3, <1>4
  <2>3. j = k
    BY <1>4, <2>1, <2>2 DEF Sound
  <2>. QED
    BY <2>1, <2>2, <2>3
<1>5. ASSUME NEW q \in 1 .. Len(F), NEW id \in Nat
      PROVE  /\ F[q] = Label(start_par(id)) => Opens(F, q, id)
             /\ F[q] = Label(close_par(id)) => Closes(F, q, id)
             /\ F[q] = Je(close_par(id)) => Opens(F, q - 2, id)
             /\ F[q] = Jne(start_par(id)) => Closes(F, q - 2, id)
  <2>1. F[q] = Label(start_par(id)) => Opens(F, q, id)
    <3>. HAVE F[q] = Label(start_par(id))
    <3>1. PICK k : Stays(c, k) /\ q = fpos(c, k) /\ c[k] = Label(start_par(id)) /\ k \in 1 .. Len(c)
      BY <1>3, Fields
    <3>2. Opens(c, k, id)
      BY <3>1 DEF Sound
    <3>. QED
      BY <1>1, <3>1, <3>2, BlocksFold
  <2>2. F[q] = Label(close_par(id)) => Closes(F, q, id)
    <3>. HAVE F[q] = Label(close_par(id))
    <3>1. PICK k : Stays(c, k) /\ q = fpos(c, k) /\ c[k] = Label(close_par(id)) /\ k \in 1 .. Len(c)
      BY <1>3, Fields
    <3>2. Closes(c, k, id)
      BY <3>1 DEF Sound
    <3>. QED
      BY <1>1, <3>1, <3>2, BlocksFold
  <2>3. F[q] = Je(close_par(id)) => Opens(F, q - 2, id)
    <3>. HAVE F[q] = Je(close_par(id))
    <3>1. PICK k : Stays(c, k) /\ q = fpos(c, k) /\ c[k] = Je(close_par(id)) /\ k \in 1 .. Len(c)
      BY <1>3, Fields DEF ADD, SUB
    <3>2. Opens(c, k - 2, id) /\ (k - 2) + 2 = k
      BY <3>1 DEF Sound
    <3>3. Opens(F, fpos(c, k - 2), id) /\ fpos(c, (k - 2) + 2) = fpos(c, k - 2) + 2
      BY <1>1, <3>2, BlocksFold
    <3>4. q - 2 = fpos(c, k - 2)
      BY <3>1, <3>2, <3>3 DEF Opens
    <3>. QED
      BY <3>3, <3>4
  <2>4. F[q] = Jne(start_par(id)) => Closes(F, q - 2, id)
    <3>. HAVE F[q] = Jne(start_par(id))
    <3>1. PICK k : Stays(c, k) /\ q = fpos(c, k) /\ c[k] = Jne(start_par(id)) /\ k \in 1 .. Len(c)
      BY <1>3, Fields DEF ADD, SUB
    <3>2. Closes(c, k - 2, id) /\ (k - 2) + 2 = k
      BY <3>1 DEF Sound
    <3>3. Closes(F, fpos(c, k - 2), id) /\ fpos(c, (k - 2) + 2) = fpos(c, k - 2) + 2
      BY <1>1, <3>2, BlocksFold
    <3>4. q - 2 = fpos(c, k - 2)
      BY <3>1, <3>2, <3>3 DEF Closes
    <3>. QED
      BY <3>3, <3>4
  <2>. QED
    BY <2>1, <2>2, <2>3, <2>4
<1>6. ASSUME NEW q \in 1 .. Len(F), NEW id \in Nat
      PROVE  /\ Opens(F, q, id) => \E r : Closes(F, r, id)
             /\ Closes(F, q, id) => \E r : Opens(F, r, id)
  <2>1. Opens(F, q, id) => \E r : Closes(F, r, id)
    <3>. HAVE Opens(F, q, id)
    <3>1. F[q] = Label(start_par(id))
      BY DEF Opens
    <3>2. PICK k : Stays(c, k) /\ q = fpos(c, k) /\ c[k] = Label(start_par(id)) /\ k \in 1 .. Len(c)
      BY <1>3, <3>1, Fields
    <3>3. PICK r : Closes(c, r, id)
      BY <3>2, Zenon DEF Sound
    <3>. QED
      BY <1>1, <3>3, BlocksFold
  <2>2. Closes(F, q, id) => \E r : Opens(F, r, id)
    <3>. HAVE Closes(F, q, id)
    <3>1. F[q] = Label(close_par(id))
      BY DEF Closes
    <3>2. PICK k : Stays(c, k) /\ q = fpos(c, k) /\ c[k] = Label(close_par(id)) /\ k \in 1 .. Len(c)
      BY <1>3, <3>1, Fields
    <3>3. PICK r : Opens(c, r, id)
      BY <3>2 DEF Sound
    <3>. QED
      BY <1>1, <3>3, BlocksFold
  <2>. QED
    BY <2>1, <2>2
<1>7. ASSUME NEW q \in 1 .. Len(F)
      PROVE  \/ q = Len(F)
             \/ PlainLine(F[q])
             \/ \E n \in Nat : StepBy(F[q], n)
             \/ BracketLine(F[q])
  <2>1. CASE \A n \in Nat : ~ StepBy(F[q], n)
    <3>1. PICK k : Stays(c, k) /\ q = fpos(c, k) /\ F[q] = c[k]
      BY <1>1, <2>1, FoldedSame
    <3>2. k \in 1 .. Len(c) /\ (k = Len(c) => q = Len(F))
      BY <1>1, <3>1, FoldedEnds DEF Stays
    <3>. QED
      BY <2>1, <3>1, <3>2 DEF Sound
  <2>. QED
    BY <2>1
<1>. HIDE DEF F
<1>8. Sound(F)
  BY <1>2, <1>4, <1>5, <1>6, <1>7 DEF Sound, Ends
<1>. QED
  BY <1>8 DEF F

-----------------------------------------------------------------------------
(* apply_loop_optimizations.                                                  *)

\* Where the label x is.
LabelAt(c, x) == SelectInSeq(c, LAMBDA l : l = Label(x))

\* A label that is on one line only is found there.
LEMMA LabelFound ==
    ASSUME NEW c \in Seq(Assembly), NEW x, NEW q \in 1 .. Len(c), c[q] = Label(x),
           \A r \in 1 .. Len(c) : c[r] = Label(x) => r = q
    PROVE  LabelAt(c, x) = q
<1>1. {i \in 1 .. Len(c) : c[i] = Label(x)} = {q}
  OBVIOUS
<1>2. Min({q}) = q
  BY DEF Min
<1>. QED
  BY <1>1, <1>2, Zenon DEF LabelAt, SelectInSeq

BracketLoop(c, i, id, r) == Opens(c, i, id) /\ Closes(c, r, id) /\ i + 2 < r

\* The labels of a block are found.
LEMMA BlockLabels ==
    ASSUME NEW c, Sound(c), NEW q, NEW id
    PROVE  /\ Opens(c, q, id) => LabelAt(c, start_par(id)) = q
           /\ Closes(c, q, id) => LabelAt(c, close_par(id)) = q
<1>1. c \in Seq(Assembly)
      /\ \A i, r \in 1 .. Len(c) : c[i].kind = "label" /\ c[i] = c[r] => i = r
  BY DEF Sound
<1>2. Opens(c, q, id) => LabelAt(c, start_par(id)) = q
  <2>. HAVE Opens(c, q, id)
  <2>1. q \in 1 .. Len(c) /\ c[q] = Label(start_par(id)) /\ c[q].kind = "label"
    BY Fields DEF Opens
  <2>2. \A r \in 1 .. Len(c) : c[r] = Label(start_par(id)) => r = q
    BY <1>1, <2>1
  <2>. QED
    BY <1>1, <2>1, <2>2, LabelFound
<1>3. Closes(c, q, id) => LabelAt(c, close_par(id)) = q
  <2>. HAVE Closes(c, q, id)
  <2>1. q \in 1 .. Len(c) /\ c[q] = Label(close_par(id)) /\ c[q].kind = "label"
    BY Fields DEF Closes
  <2>2. \A r \in 1 .. Len(c) : c[r] = Label(close_par(id)) => r = q
    BY <1>1, <2>1
  <2>. QED
    BY <1>1, <2>1, <2>2, LabelFound
<1>. QED
  BY <1>2, <1>3

\* What try_parse_loop finds is the two blocks of a pair of brackets.
LEMMA LoopFound ==
    ASSUME NEW c, Sound(c), NEW i \in 1 .. Len(c), IsLoop(c, i)
    PROVE  \E id : BracketLoop(c, i, id, close_idx(c, i))
<1>1. c[i].kind = "label" /\ c[i].what % 2 = 1 /\ close_idx(c, i) > i + 2
  BY DEF IsLoop, IsStartPar
<1>2. PICK id \in Nat : c[i] = Label(start_par(id))
  <2>. DEFINE l == c[i]
  <2>1. i = Len(c) \/ PlainLine(l) \/ (\E n \in Nat : StepBy(l, n)) \/ BracketLine(l)
    BY DEF Sound
  <2>2. i # Len(c)
    BY <1>1, Fields DEF Sound
  <2>. HIDE DEF l
  <2>3. l.kind = "label" /\ l.what % 2 = 1
    BY <1>1 DEF l
  <2>4. PlainLine(l) => l = Label(start)
    BY <2>3, OtherLine
  <2>5. l # Label(start)
    BY <2>3, Fields DEF start
  <2>6. ~ \E n \in Nat : StepBy(l, n)
    BY <2>3, OtherLine
  <2>7. BracketLine(l) => \E id \in Nat : l = Label(start_par(id)) \/ l = Label(close_par(id))
    BY <2>3, Fields DEF BracketLine
  <2>8. \A id \in Nat : l # Label(close_par(id))
    <3>1. \A id \in Nat : (2 * id + 2) % 2 = 0
      OBVIOUS
    <3>. QED
      BY <2>3, <3>1, Fields DEF close_par
  <2>9. PICK id \in Nat : l = Label(start_par(id))
    BY <2>1, <2>2, <2>4, <2>5, <2>6, <2>7, <2>8
  <2>. QED
    BY <2>9 DEF l
<1>3. Opens(c, i, id)
  BY <1>2 DEF Sound
<1>4. PICK r : Closes(c, r, id)
  BY <1>2, <1>3 DEF Sound
<1>5. close_idx(c, i) = r
  <2>1. c[i].what + 1 = close_par(id)
    BY <1>2, Fields DEF start_par, close_par
  <2>2. close_idx(c, i) = LabelAt(c, close_par(id))
    BY <2>1, Zenon DEF close_idx, LabelAt, SelectInSeq
  <2>. QED
    BY <1>4, <2>2, BlockLabels
<1>. QED
  BY <1>1, <1>3, <1>4, <1>5 DEF BracketLoop

\* A line that adds or subtracts at a place.
LEMMA StepLine ==
    ASSUME NEW c, Sound(c), NEW q \in 1 .. Len(c), NEW p \in Places, IsStep(c[q], p)
    PROVE  \E n \in Nat : c[q] = Add(p, Number(n)) \/ c[q] = Sub(p, Number(n))
<1>. DEFINE l == c[q]
<1>1. l.kind = "instruction" /\ l.what \in {50, 82} /\ l.args[1] = p
  BY DEF IsStep, ADD, SUB
<1>2. l = HaltLine \/ PlainLine(l) \/ (\E n \in Nat : StepBy(l, n)) \/ BracketLine(l)
  BY DEF Sound
<1>. HIDE DEF l
<1>3. l # HaltLine /\ ~ PlainLine(l) /\ ~ BracketLine(l)
  BY <1>1, Fields DEF PlainLine, BracketLine
<1>4. PICK n \in Nat : StepBy(l, n)
  BY <1>2, <1>3
<1>5. l = Add(p, Number(n)) \/ l = Sub(p, Number(n))
  BY <1>1, <1>4, ArgumentFields DEF StepBy
<1>. QED
  BY <1>5 DEF l

\* The lines between the two blocks.
LEMMA BodyLines ==
    ASSUME NEW c, Sound(c), NEW i \in 1 .. Len(c), IsLoop(c, i)
    PROVE  LET body == Body(c, i)
               r == close_idx(c, i)
           IN  /\ body \in Seq(Assembly) /\ r \in Nat
               /\ Len(body) \in Nat /\ r = i + 3 + Len(body) /\ r + 2 \in 1 .. Len(c)
               /\ \A m \in 1 .. Len(body) : body[m] = c[i + 2 + m] /\ i + 2 + m \in 1 .. Len(c)
<1>. DEFINE r == close_idx(c, i)
<1>1. PICK id : BracketLoop(c, i, id, r)
  BY LoopFound
<1>2. c \in Seq(Assembly) /\ Len(c) \in Nat /\ i \in Nat /\ i + 3 \in Nat /\ i + 3 >= 1
  BY LenProperties DEF Sound
<1>3. r \in 1 .. Len(c) /\ r + 2 \in 1 .. Len(c) /\ i + 2 < r
  BY <1>1 DEF BracketLoop, Closes
<1>. HIDE DEF r
<1>4. r - 1 \in Int /\ i + 3 \in Int /\ r - 1 =< Len(c) /\ i + 3 =< (r - 1) + 1
  BY <1>2, <1>3
<1>. DEFINE b == SubSeq(c, i + 3, r - 1)
<1>5. b \in Seq(Assembly) /\ Len(b) = (r - 1) - (i + 3) + 1
      /\ \A m \in 1 .. ((r - 1) - (i + 3) + 1) : b[m] = c[(i + 3) + m - 1]
  BY <1>2, <1>3, <1>4, SubSeqProperties
<1>. HIDE DEF b
<1>6. Len(b) = r - i - 3
  BY <1>2, <1>3, <1>5
<1>7. ASSUME NEW m \in 1 .. Len(b) PROVE b[m] = c[i + 2 + m] /\ i + 2 + m \in 1 .. Len(c)
  <2>1. (i + 3) + m - 1 = i + 2 + m /\ m \in 1 .. ((r - 1) - (i + 3) + 1)
    BY <1>2, <1>3, <1>5
  <2>2. b[m] = c[(i + 3) + m - 1]
    BY <1>5, <2>1
  <2>3. i + 2 + m \in 1 .. Len(c)
    BY <1>2, <1>3, <1>6
  <2>. QED
    BY <2>1, <2>2, <2>3
<1>8. Len(b) \in Nat /\ r = i + 3 + Len(b) /\ r \in Nat
  BY <1>2, <1>3, <1>6
<1>. QED
  BY <1>3, <1>5, <1>7, <1>8, Zenon DEF Body, b, r

-----------------------------------------------------------------------------
(* try_analyze_mult_body.                                                     *)

StepsOnly(body) == /\ body \in Seq(Assembly)
                   /\ \A k \in 1 .. Len(body) : \E n \in Nat : StepBy(body[k], n)

Modifying == [ptr : Int, mods : Mods]

\* By how much a line moves or adds.
Amount(l) == Sign(l) * l.args[2].value

\* A step is an ADD or a SUB of a number, to the pointer or to its cell.
LEMMA AmountType ==
    ASSUME NEW l, NEW n \in Nat, StepBy(l, n)
    PROVE  /\ Amount(l) \in Int
           /\ l.args[1] \in Places
           /\ \E p \in Places : \/ l = Add(p, Number(n)) /\ Amount(l) = n
                                \/ l = Sub(p, Number(n)) /\ Amount(l) = -n
<1>1. PICK p \in Places : l = Add(p, Number(n)) \/ l = Sub(p, Number(n))
  BY DEF StepBy
<1>2. l.args[1] = p /\ l.args[2].value = n
  BY <1>1, ArgumentFields DEF Number, Plain
<1>3. l = Add(p, Number(n)) => Sign(l) = 1
  BY Fields DEF Sign, ADD
<1>4. l = Sub(p, Number(n)) => Sign(l) = -1
  BY Fields DEF Sign, ADD
<1>5. 1 * n = n /\ (-1) * n = -n
  OBVIOUS
<1>. QED
  BY <1>1, <1>2, <1>3, <1>4, <1>5 DEF Amount

\* What one line of the body does to the analysis.
LEMMA AnalyzedLine ==
    ASSUME NEW a \in Modifying, NEW l, NEW n \in Nat, StepBy(l, n)
    PROVE  /\ Analyzed(a, l) \in Modifying
           /\ l.args[1] = RegA => /\ Analyzed(a, l).ptr = a.ptr + Amount(l)
                                  /\ Analyzed(a, l).mods = a.mods
           /\ l.args[1] = AtA => /\ Analyzed(a, l).ptr = a.ptr
                                 /\ DOMAIN Analyzed(a, l).mods = DOMAIN a.mods \cup {a.ptr}
                                 /\ \A o \in Int : Added(Analyzed(a, l).mods, o) =
                                       IF o = a.ptr THEN Added(a.mods, o) + Amount(l)
                                       ELSE Added(a.mods, o)
<1>. DEFINE m == a.mods
            D == DOMAIN m
            k == Amount(l)
            g == [o \in D \cup {a.ptr} |->
                    (IF o \in D THEN m[o] ELSE 0) + (IF o = a.ptr THEN k ELSE 0)]
<1>1. a.ptr \in Int /\ m \in Mods /\ D \in Offsets /\ m \in [D -> Int] /\ k \in Int
  BY ModsAre, AmountType DEF Modifying
<1>2. l.args[1] = RegA \/ l.args[1] = AtA
  BY AmountType DEF Places
<1>3. CASE l.args[1] = RegA
  <2>1. Analyzed(a, l) = [a EXCEPT !.ptr = @ + k]
    BY <1>3 DEF Analyzed, Amount
  <2>. HIDE DEF k, m, D
  <2>2. Analyzed(a, l) = [ptr |-> a.ptr + k, mods |-> a.mods]
    BY <2>1 DEF Modifying
  <2>3. a.mods \in Mods
    BY DEF Modifying
  <2>. QED
    BY <1>1, <1>3, <2>2, <2>3, PlacesDiffer DEF Modifying, k
<1>4. CASE l.args[1] = AtA
  <2>1. Analyzed(a, l) = [a EXCEPT !.mods = g]
    BY <1>4, PlacesDiffer DEF Analyzed, Amount
  <2>2. D \cup {a.ptr} \in Offsets
    <3>1. PICK b \in Nat : D \subseteq (-b) .. b
      BY <1>1 DEF Offsets
    <3>. HIDE DEF D
    <3>2. PICK e \in Nat : e >= b /\ a.ptr =< e /\ -e =< a.ptr
      <4>1. CASE a.ptr >= 0
        <5>1. a.ptr + b \in Nat /\ a.ptr + b >= b /\ a.ptr =< a.ptr + b /\ -(a.ptr + b) =< a.ptr
          BY <1>1, <4>1
        <5>. QED
          BY <5>1
      <4>2. CASE a.ptr < 0
        <5>1. b - a.ptr \in Nat /\ b - a.ptr >= b /\ a.ptr =< b - a.ptr /\ -(b - a.ptr) =< a.ptr
          BY <1>1, <4>2
        <5>. QED
          BY <5>1
      <4>. QED
        BY <1>1, <4>1, <4>2
    <3>3. (-b) .. b \subseteq (-e) .. e /\ a.ptr \in (-e) .. e
      BY <1>1, <3>2
    <3>4. D \cup {a.ptr} \subseteq (-e) .. e
      BY <3>1, <3>3, Zenon
    <3>5. D \cup {a.ptr} \in SUBSET Int
      BY <1>1, Zenon DEF Offsets
    <3>. QED
      BY <3>4, <3>5, Zenon DEF Offsets
  <2>3. g \in [D \cup {a.ptr} -> Int]
    <3>. HIDE DEF k, D, m
    <3>. QED
      BY <1>1
  <2>4. g \in Mods
    <3>. HIDE DEF g
    <3>. QED
      BY <2>2, <2>3 DEF Mods
  <2>5. ASSUME NEW o \in Int
        PROVE  Added(g, o) = IF o = a.ptr THEN Added(m, o) + k ELSE Added(m, o)
    <3>. HIDE DEF k, m, D
    <3>1. DOMAIN g = D \cup {a.ptr}
      OBVIOUS
    <3>2. o \in D => m[o] \in Int
      BY <1>1
    <3>. QED
      BY <1>1, <3>1, <3>2 DEF Added, D
  <2>6. DOMAIN g = D \cup {a.ptr}
    OBVIOUS
  <2>. HIDE DEF g
  <2>7. Analyzed(a, l) = [ptr |-> a.ptr, mods |-> g]
    BY <2>1 DEF Modifying
  <2>. QED
    BY <1>1, <1>4, <2>4, <2>5, <2>6, <2>7, PlacesDiffer DEF Modifying
<1>. QED
  BY <1>2, <1>3, <1>4

\* The recursive definition of the analysis after each line has a solution.
LEMMA AnalyzingRuns ==
    ASSUME NEW body, StepsOnly(body)
    PROVE  /\ Analyzing(body) \in [0 .. Len(body) -> Modifying]
           /\ Analyzing(body)[0] = [ptr |-> 0, mods |-> <<>>]
           /\ \A k \in 1 .. Len(body) :
                 Analyzing(body)[k] = Analyzed(Analyzing(body)[k - 1], body[k])
<1>. DEFINE n == Len(body)
            none == [ptr |-> 0, mods |-> <<>>]
            step == [ks \in ((0 + 1) .. n) \X Modifying |-> Analyzed(ks[2], body[ks[1]])]
            Solves(f) == f = [k \in 0 .. Len(body) |->
                                IF k = 0 THEN [ptr |-> 0, mods |-> <<>>]
                                ELSE Analyzed(f[k - 1], body[k])]
<1>1. n \in Int /\ 0 \in Int /\ 0 =< n
  BY LenProperties DEF StepsOnly
<1>2. step \in [((0 + 1) .. n) \X Modifying -> Modifying]
  <2>1. ASSUME NEW ks \in ((0 + 1) .. n) \X Modifying
        PROVE  Analyzed(ks[2], body[ks[1]]) \in Modifying
    <3>1. ks[1] \in 1 .. n /\ ks[2] \in Modifying
      BY <2>1
    <3>2. PICK m \in Nat : StepBy(body[ks[1]], m)
      BY <3>1 DEF StepsOnly
    <3>. QED
      BY <3>1, <3>2, AnalyzedLine
  <2>. QED
    BY <2>1
<1>3. PICK f : IsRun(f, Modifying, none, 0, n, step)
  <2>1. none \in Modifying
    BY NoMods DEF Modifying
  <2>. HIDE DEF step, n, none
  <2>. QED
    BY <1>1, <1>2, <2>1, StepsHaveRun, Zenon
<1>4. \A k \in 1 .. n : \A a \in Modifying : step[<<k, a>>] = Analyzed(a, body[k])
  OBVIOUS
<1>. HIDE DEF step
<1>5. /\ f \in [0 .. n -> Modifying] /\ f[0] = none
      /\ \A k \in 1 .. n : f[k - 1] \in Modifying /\ f[k] = Analyzed(f[k - 1], body[k])
  <2>. HIDE DEF n, none, Solves
  <2>1. f \in [0 .. n -> Modifying] /\ f[0] = none
    BY <1>3 DEF IsRun
  <2>2. \A k \in (0 + 1) .. n : f[k - 1] \in Modifying /\ f[k] = step[<<k, f[k - 1]>>]
    BY <1>3 DEF IsRun
  <2>3. \A k \in 1 .. n : f[k - 1] \in Modifying /\ f[k] = step[<<k, f[k - 1]>>]
    BY <1>1, <2>2
  <2>. QED
    BY <1>4, <2>1, <2>3, Zenon
<1>6. Solves(f)
  BY <1>5
<1>. DEFINE g == CHOOSE h : Solves(h)
<1>7. Solves(g)
  <2>. HIDE DEF Solves
  <2>. QED
    BY <1>6
<1>8. Analyzing(body) = g
  BY Zenon DEF Analyzing
<1>. HIDE DEF g
<1>9. \A k \in (0 + 1) .. n : g[k - 1] \in Modifying => g[k] = step[<<k, g[k - 1]>>]
  BY <1>7 DEF step
<1>10. g = [k \in 0 .. n |-> g[k]] /\ g[0] = none
  BY <1>7
<1>11. IsRun(g, Modifying, none, 0, n, step)
  <2>. HIDE DEF n, Solves, none
  <2>. QED
    BY <1>1, <1>3, <1>9, <1>10, RunIsUnique, Zenon
<1>12. /\ g \in [0 .. n -> Modifying] /\ g[0] = none
       /\ \A k \in 1 .. n : g[k] = Analyzed(g[k - 1], body[k])
  <2>. HIDE DEF n, none, Solves
  <2>1. g \in [0 .. n -> Modifying] /\ g[0] = none
    BY <1>11 DEF IsRun
  <2>2. \A k \in (0 + 1) .. n : g[k - 1] \in Modifying /\ g[k] = step[<<k, g[k - 1]>>]
    BY <1>11 DEF IsRun
  <2>3. \A k \in 1 .. n : g[k - 1] \in Modifying /\ g[k] = step[<<k, g[k - 1]>>]
    BY <1>1, <2>2
  <2>. QED
    BY <1>4, <2>1, <2>3, Zenon
<1>. QED
  BY <1>8, <1>12

\* The analysis of a body of steps ends with a pointer and modifications.
LEMMA AnalysisType ==
    ASSUME NEW body, StepsOnly(body)
    PROVE  Analysis(body) \in Modifying
<1>1. Len(body) \in 0 .. Len(body)
  BY LenProperties DEF StepsOnly
<1>. QED
  BY <1>1, AnalyzingRuns DEF Analysis

-----------------------------------------------------------------------------
(* emit_mul_replacement.                                                      *)

\* Finitely many offsets have a lowest and a highest.
LEMMA LowestAndHighest ==
    ASSUME NEW X \in Offsets, X # {}
    PROVE  /\ Min(X) \in X /\ Min(X) \in Int /\ \A y \in X : Min(X) =< y
           /\ Max(X) \in X /\ Max(X) \in Int /\ \A y \in X : y =< Max(X)
<1>1. PICK b \in Nat : X \subseteq (-b) .. b
  BY Zenon DEF Offsets
<1>2. X \subseteq Int
  BY DEF Offsets
<1>. DEFINE up == {x + b : x \in X}
            down == {b - x : x \in X}
<1>3. up \in SUBSET Nat /\ up # {} /\ down \in SUBSET Nat /\ down # {}
  <2>1. \A x \in X : x + b \in Nat /\ b - x \in Nat
    BY <1>1
  <2>2. PICK x \in X : TRUE
    OBVIOUS
  <2>3. x + b \in up /\ b - x \in down
    BY <2>2
  <2>4. up \in SUBSET Nat
    BY <2>1
  <2>5. down \in SUBSET Nat
    BY <2>1
  <2>. HIDE DEF up, down
  <2>. QED
    BY <2>3, <2>4, <2>5
<1>4. \E x \in X : \A y \in X : x =< y
  <2>1. PICK m \in up : \A k \in up : m =< k
    <3>. HIDE DEF up, down
    <3>. QED
      BY <1>3, LeastOfNat
  <2>2. PICK x \in X : m = x + b
    BY <2>1
  <2>3. \A y \in X : x + b =< y + b
    BY <2>1, <2>2
  <2>4. \A y \in X : x =< y
    BY <1>1, <1>2, <2>3
  <2>. QED
    BY <2>4
<1>5. \E x \in X : \A y \in X : x >= y
  <2>1. PICK m \in down : \A k \in down : m =< k
    <3>. HIDE DEF up, down
    <3>. QED
      BY <1>3, LeastOfNat
  <2>2. PICK x \in X : m = b - x
    BY <2>1
  <2>3. \A y \in X : b - x =< b - y
    BY <2>1, <2>2
  <2>4. \A y \in X : x >= y
    BY <1>1, <1>2, <2>3
  <2>. QED
    BY <2>4
<1>. HIDE DEF up, down
<1>6. Min(X) \in X /\ \A y \in X : Min(X) =< y
  BY <1>4 DEF Min
<1>7. Max(X) \in X /\ \A y \in X : Max(X) >= y
  BY <1>5 DEF Max
<1>. QED
  BY <1>2, <1>6, <1>7, Zenon

\* The lines that compute.
Operands == {RegA, RegB, RegC, AtA}
SourceOperands == Operands \cup {Number(n) : n \in Int}
Calculates(l, d, e) == l = Mov(d, e) \/ l = Add(d, e) \/ l = Sub(d, e) \/ l = Mul(d, e)
Calculations == {l \in Assembly : \E d \in Operands, e \in SourceOperands : Calculates(l, d, e)}

\* The four calculations, of operands of their kinds.
LEMMA CalculationTypes ==
    \A d \in Operands, e \in SourceOperands :
        /\ Mov(d, e) \in Calculations /\ Add(d, e) \in Calculations
        /\ Sub(d, e) \in Calculations /\ Mul(d, e) \in Calculations
<1>1. Operands \subseteq Argument /\ SourceOperands \subseteq Argument
  BY ArgumentTypes DEF Operands, SourceOperands
<1>. SUFFICES ASSUME NEW d \in Operands, NEW e \in SourceOperands
              PROVE  /\ Mov(d, e) \in Calculations /\ Add(d, e) \in Calculations
                     /\ Sub(d, e) \in Calculations /\ Mul(d, e) \in Calculations
  OBVIOUS
<1>2. /\ Mov(d, e) \in Assembly /\ Add(d, e) \in Assembly
      /\ Sub(d, e) \in Assembly /\ Mul(d, e) \in Assembly
  BY <1>1, InstructionTypes
<1>. QED
  BY <1>2 DEF Calculations, Calculates

\* Every number, register and cell can be read, and all but numbers written.
LEMMA NumbersAreSources ==
    /\ \A n \in Int : Number(n) \in SourceOperands
    /\ RegA \in Operands /\ RegB \in Operands /\ RegC \in Operands /\ AtA \in Operands
    /\ Operands \subseteq SourceOperands /\ Places \subseteq Operands
BY DEF Operands, SourceOperands, Places

\* What is added is written as calculations.
LEMMA AddOrSubType ==
    ASSUME NEW d \in Operands, NEW n \in Int
    PROVE  AddOrSub(d, n) \in Seq(Calculations)
<1>1. /\ n > 0 => AddOrSub(d, n) = <<Add(d, Number(n))>>
      /\ n < 0 => AddOrSub(d, n) = <<Sub(d, Number(-n))>>
      /\ n = 0 => AddOrSub(d, n) = <<>>
  BY DEF AddOrSub
<1>2. Number(n) \in SourceOperands /\ Number(-n) \in SourceOperands
  BY NumbersAreSources
<1>3. Add(d, Number(n)) \in Calculations /\ Sub(d, Number(-n)) \in Calculations
  BY <1>2, CalculationTypes
<1>4. n > 0 \/ n < 0 \/ n = 0
  OBVIOUS
<1>5. \A l \in Calculations : <<l>> \in Seq(Calculations)
  OBVIOUS
<1>. QED
  BY <1>1, <1>3, <1>4, <1>5, EmptySeq, Zenon

\* So is a multiple.
LEMMA MultipleType ==
    ASSUME NEW v \in Int, NEW last \in BOOLEAN
    PROVE  Multiple(v, last) \in Seq(Calculations)
<1>1. /\ Add(AtA, RegB) \in Calculations /\ Sub(AtA, RegB) \in Calculations
      /\ Mul(RegB, Number(v)) \in Calculations /\ Mov(RegC, RegB) \in Calculations
      /\ Mul(RegC, Number(v)) \in Calculations /\ Add(AtA, RegC) \in Calculations
  BY NumbersAreSources, CalculationTypes
<1>. QED
  BY <1>1 DEF Multiple

Emitting == [out : Seq(Calculations), cur : Int]

\* What is written for the offset o.
EmittedAt(m, highest, o, cur) ==
    IF o \in DOMAIN m THEN AddOrSub(RegA, o - cur) \o Multiple(m[o], o = highest) ELSE <<>>
EmitStep(m, highest, o, e) ==
    IF o \in DOMAIN m
    THEN [out |-> e.out \o AddOrSub(RegA, o - e.cur) \o Multiple(m[o], o = highest), cur |-> o]
    ELSE e

WritesMore(e, f, t) == f.out = e.out \o t

\* So is what is written for each offset, after what was written before it.
LEMMA EmitStepType ==
    ASSUME NEW m \in Mods, NEW highest \in Int, NEW o \in Int, NEW e \in Emitting
    PROVE  /\ EmitStep(m, highest, o, e) \in Emitting
           /\ EmittedAt(m, highest, o, e.cur) \in Seq(Calculations)
           /\ WritesMore(e, EmitStep(m, highest, o, e), EmittedAt(m, highest, o, e.cur))
           /\ EmitStep(m, highest, o, e).cur = IF o \in DOMAIN m THEN o ELSE e.cur
<1>1. e.out \in Seq(Calculations) /\ e.cur \in Int
  BY DEF Emitting
<1>2. CASE o \in DOMAIN m
  <2>. DEFINE x == e.out
              y == AddOrSub(RegA, o - e.cur)
              z == Multiple(m[o], o = highest)
  <2>1. m[o] \in Int
    BY <1>2, ModsAre
  <2>2. x \in Seq(Calculations) /\ y \in Seq(Calculations) /\ z \in Seq(Calculations)
    <3>1. o - e.cur \in Int /\ (o = highest) \in BOOLEAN
      BY <1>1
    <3>. QED
      BY <1>1, <2>1, <3>1, AddOrSubType, MultipleType, NumbersAreSources, Zenon
  <2>3. EmitStep(m, highest, o, e) = [out |-> (x \o y) \o z, cur |-> o]
        /\ EmittedAt(m, highest, o, e.cur) = y \o z
    BY <1>2 DEF EmitStep, EmittedAt
  <2>. HIDE DEF x, y, z
  <2>4. (x \o y) \o z = x \o (y \o z) /\ y \o z \in Seq(Calculations)
        /\ x \o (y \o z) \in Seq(Calculations)
    BY <2>2, ConcatAssociative, ConcatProperties, SMTT(30)
  <2>. QED
    BY <1>2, <2>3, <2>4 DEF Emitting, WritesMore, x
<1>3. CASE o \notin DOMAIN m
  <2>1. EmitStep(m, highest, o, e) = e /\ EmittedAt(m, highest, o, e.cur) = <<>>
    BY <1>3 DEF EmitStep, EmittedAt
  <2>2. e.out = e.out \o <<>>
    BY <1>1, ConcatEmptySeq
  <2>. QED
    BY <1>3, <2>1, <2>2, EmptySeq DEF WritesMore
<1>. QED
  BY <1>2, <1>3

EmitStart == [out |-> <<Mov(RegB, AtA), Mov(AtA, Number(0))>>, cur |-> 0]

\* The recursive definition of what is written up to each offset has a solution.
LEMMA EmittedRuns ==
    ASSUME NEW m \in Mods, NEW lowest \in Int, NEW highest \in Int, lowest =< highest
    PROVE  LET e == Emitted(m, lowest, highest)
           IN  /\ e \in [(lowest - 1) .. highest -> Emitting]
               /\ e[lowest - 1] = EmitStart
               /\ \A o \in lowest .. highest :
                     e[o - 1] \in Emitting /\ e[o] = EmitStep(m, highest, o, e[o - 1])
<1>. DEFINE a == lowest - 1
            step == [os \in ((a + 1) .. highest) \X Emitting |-> EmitStep(m, highest, os[1], os[2])]
            Solves(f) == f = [o \in (lowest - 1) .. highest |->
                IF o = lowest - 1
                THEN [out |-> <<Mov(RegB, AtA), Mov(AtA, Number(0))>>, cur |-> 0]
                ELSE IF o \in DOMAIN m
                THEN [out |-> f[o - 1].out \o AddOrSub(RegA, o - f[o - 1].cur)
                                  \o Multiple(m[o], o = highest),
                      cur |-> o]
                ELSE f[o - 1]]
<1>1. a \in Int /\ a =< highest /\ (a + 1) .. highest = lowest .. highest
  OBVIOUS
<1>2. step \in [((a + 1) .. highest) \X Emitting -> Emitting]
  <2>1. ASSUME NEW os \in ((a + 1) .. highest) \X Emitting
        PROVE  EmitStep(m, highest, os[1], os[2]) \in Emitting
    <3>1. os[1] \in Int /\ os[2] \in Emitting
      BY <2>1
    <3>. QED
      BY <3>1, EmitStepType, Zenon
  <2>. QED
    BY <2>1
<1>3. EmitStart \in Emitting
  <2>1. Mov(RegB, AtA) \in Calculations /\ Mov(AtA, Number(0)) \in Calculations
    <3>1. 0 \in Int
      OBVIOUS
    <3>. QED
      BY <3>1, NumbersAreSources, CalculationTypes
  <2>2. <<Mov(RegB, AtA), Mov(AtA, Number(0))>> \in Seq(Calculations)
    BY <2>1
  <2>. QED
    BY <2>2 DEF EmitStart, Emitting
<1>4. PICK f : IsRun(f, Emitting, EmitStart, a, highest, step)
  <2>. HIDE DEF step, a
  <2>. QED
    BY <1>1, <1>2, <1>3, StepsHaveRun, Zenon
<1>5. \A o \in lowest .. highest : \A e \in Emitting : step[<<o, e>>] = EmitStep(m, highest, o, e)
  BY <1>1
<1>. HIDE DEF step
<1>6. /\ f \in [(lowest - 1) .. highest -> Emitting] /\ f[lowest - 1] = EmitStart
      /\ \A o \in lowest .. highest :
            f[o - 1] \in Emitting /\ f[o] = EmitStep(m, highest, o, f[o - 1])
  <2>. HIDE DEF Solves, a
  <2>1. f \in [a .. highest -> Emitting] /\ f[a] = EmitStart
    BY <1>4 DEF IsRun
  <2>2. \A o \in (a + 1) .. highest : f[o - 1] \in Emitting /\ f[o] = step[<<o, f[o - 1]>>]
    BY <1>4 DEF IsRun
  <2>3. \A o \in lowest .. highest : f[o - 1] \in Emitting /\ f[o] = step[<<o, f[o - 1]>>]
    BY <1>1, <2>2
  <2>4. \A o \in lowest .. highest :
            f[o - 1] \in Emitting /\ f[o] = EmitStep(m, highest, o, f[o - 1])
    BY <1>5, <2>3, Zenon
  <2>. QED
    BY <2>1, <2>4 DEF a
<1>7. Solves(f)
  <2>1. ASSUME NEW o \in (lowest - 1) .. highest
        PROVE  f[o] = IF o = lowest - 1
                THEN [out |-> <<Mov(RegB, AtA), Mov(AtA, Number(0))>>, cur |-> 0]
                ELSE IF o \in DOMAIN m
                THEN [out |-> f[o - 1].out \o AddOrSub(RegA, o - f[o - 1].cur)
                                  \o Multiple(m[o], o = highest),
                      cur |-> o]
                ELSE f[o - 1]
    <3>1. CASE o = lowest - 1
      BY <1>6, <3>1 DEF EmitStart
    <3>2. CASE o # lowest - 1
      <4>1. o \in lowest .. highest
        BY <2>1, <3>2
      <4>2. f[o] = EmitStep(m, highest, o, f[o - 1])
        BY <1>6, <4>1
      <4>. QED
        BY <3>2, <4>2 DEF EmitStep
    <3>. QED
      BY <3>1, <3>2
  <2>2. f = [o \in (lowest - 1) .. highest |-> f[o]]
    BY <1>6
  <2>. QED
    BY <2>1, <2>2, Zenon
<1>. DEFINE g == CHOOSE h : Solves(h)
<1>8. Solves(g)
  <2>. HIDE DEF Solves
  <2>. QED
    BY <1>7
<1>9. Emitted(m, lowest, highest) = g
  BY Zenon DEF Emitted
<1>. HIDE DEF g
<1>10. /\ g = [o \in (lowest - 1) .. highest |-> g[o]] /\ g[lowest - 1] = EmitStart
       /\ \A o \in lowest .. highest : g[o] = EmitStep(m, highest, o, g[o - 1])
  <2>1. g[lowest - 1] = EmitStart /\ g = [o \in (lowest - 1) .. highest |-> g[o]]
    BY <1>8 DEF EmitStart
  <2>2. ASSUME NEW o \in lowest .. highest PROVE g[o] = EmitStep(m, highest, o, g[o - 1])
    <3>1. o \in (lowest - 1) .. highest /\ o # lowest - 1
      OBVIOUS
    <3>. QED
      BY <1>8, <3>1, Zenon DEF EmitStep
  <2>. QED
    BY <2>1, <2>2, Zenon
<1>11. IsRun(g, Emitting, EmitStart, a, highest, step)
  <2>1. \A o \in (a + 1) .. highest : g[o - 1] \in Emitting => g[o] = step[<<o, g[o - 1]>>]
    BY <1>1, <1>5, <1>10, Zenon
  <2>2. g = [o \in a .. highest |-> g[o]] /\ g[a] = EmitStart
    BY <1>10
  <2>. HIDE DEF a, Solves
  <2>. QED
    BY <1>1, <1>4, <2>1, <2>2, RunIsUnique, Zenon
<1>12. g \in [(lowest - 1) .. highest -> Emitting]
  BY <1>11 DEF IsRun
<1>. QED
  <2>1. \A o \in lowest .. highest : g[o - 1] \in Emitting
    <3>1. \A o \in lowest .. highest : o - 1 \in (lowest - 1) .. highest
      OBVIOUS
    <3>. QED
      BY <1>12, <3>1
  <2>. QED
    BY <1>9, <1>10, <1>12, <2>1, Zenon

\* A replacement computes only.
LEMMA ReplacementType ==
    ASSUME NEW m \in Mods, DOMAIN m # {}
    PROVE  LET lowest == Min(DOMAIN m)
               highest == Max(DOMAIN m)
               e == Emitted(m, lowest, highest)
           IN  /\ lowest \in Int /\ highest \in Int /\ lowest =< highest
               /\ e[highest] \in Emitting
               /\ emit_mul_replacement(m) = e[highest].out \o AddOrSub(RegA, - e[highest].cur)
               /\ emit_mul_replacement(m) \in Seq(Calculations)
<1>. DEFINE lowest == Min(DOMAIN m)
            highest == Max(DOMAIN m)
            e == Emitted(m, lowest, highest)
<1>1. lowest \in Int /\ highest \in Int /\ lowest =< highest
  <2>1. DOMAIN m \in Offsets
    BY ModsAre
  <2>. QED
    BY <2>1, LowestAndHighest
<1>. HIDE DEF lowest, highest
<1>2. e[highest] \in Emitting
  <2>1. highest \in (lowest - 1) .. highest
    BY <1>1
  <2>. QED
    BY <1>1, <2>1, EmittedRuns
<1>3. emit_mul_replacement(m) = e[highest].out \o AddOrSub(RegA, - e[highest].cur)
  BY DEF emit_mul_replacement, lowest, highest
<1>. DEFINE x == e[highest]
<1>4. x.out \in Seq(Calculations) /\ AddOrSub(RegA, - x.cur) \in Seq(Calculations)
  <2>. HIDE DEF x
  <2>1. x \in Emitting
    BY <1>2 DEF x
  <2>2. - x.cur \in Int /\ x.out \in Seq(Calculations)
    BY <2>1 DEF Emitting
  <2>. QED
    BY <2>2, AddOrSubType, NumbersAreSources, Zenon
<1>5. x.out \o AddOrSub(RegA, - x.cur) \in Seq(Calculations)
  <2>. HIDE DEF x
  <2>. QED
    BY <1>4, ConcatProperties
<1>. QED
  BY <1>1, <1>2, <1>3, <1>5 DEF lowest, highest

\* Each offset's lines come after those of the offsets below.
LEMMA EmittedGrows ==
    ASSUME NEW m \in Mods, NEW lowest \in Int, NEW highest \in Int, lowest =< highest
    PROVE  LET e == Emitted(m, lowest, highest)
               outs == [o \in (lowest - 1) .. highest |-> e[o].out]
           IN  Growing(outs, Calculations, lowest - 1, highest)
<1>. DEFINE e == Emitted(m, lowest, highest)
            outs == [o \in (lowest - 1) .. highest |-> e[o].out]
<1>1. /\ e \in [(lowest - 1) .. highest -> Emitting]
      /\ \A o \in lowest .. highest :
            e[o - 1] \in Emitting /\ e[o] = EmitStep(m, highest, o, e[o - 1])
  BY EmittedRuns
<1>. HIDE DEF e
<1>2. outs \in [(lowest - 1) .. highest -> Seq(Calculations)]
  BY <1>1 DEF Emitting
<1>3. ASSUME NEW o \in ((lowest - 1) + 1) .. highest
      PROVE  \E t \in Seq(Calculations) : outs[o] = outs[o - 1] \o t
  <2>1. o \in lowest .. highest /\ o \in Int
    OBVIOUS
  <2>. DEFINE x == e[o - 1]
  <2>2. x \in Emitting
    BY <1>1, <2>1
  <2>3. e[o] = EmitStep(m, highest, o, x)
    BY <1>1, <2>1
  <2>. HIDE DEF x
  <2>4. /\ EmittedAt(m, highest, o, x.cur) \in Seq(Calculations)
        /\ WritesMore(x, EmitStep(m, highest, o, x), EmittedAt(m, highest, o, x.cur))
    BY <2>1, <2>2, EmitStepType
  <2>5. o \in (lowest - 1) .. highest /\ o - 1 \in (lowest - 1) .. highest
    BY <2>1
  <2>6. outs[o] = e[o].out /\ outs[o - 1] = x.out
    BY <2>5 DEF x
  <2>. QED
    BY <2>2, <2>3, <2>4, <2>6, Zenon DEF WritesMore
<1>. HIDE DEF outs
<1>4. Growing(outs, Calculations, lowest - 1, highest)
  BY <1>2, <1>3, Zenon DEF Growing
<1>. QED
  BY <1>4 DEF outs, e

\* A replacement is at least the two lines that take the counter.
LEMMA ReplacementNotEmpty ==
    ASSUME NEW m \in Mods, DOMAIN m # {}
    PROVE  Len(emit_mul_replacement(m)) >= 1
<1>. DEFINE lowest == Min(DOMAIN m)
            highest == Max(DOMAIN m)
            e == Emitted(m, lowest, highest)
            outs == [o \in (lowest - 1) .. highest |-> e[o].out]
<1>1. /\ lowest \in Int /\ highest \in Int /\ lowest =< highest
      /\ e[highest] \in Emitting
      /\ emit_mul_replacement(m) = e[highest].out \o AddOrSub(RegA, - e[highest].cur)
  BY ReplacementType, Zenon
<1>. HIDE DEF lowest, highest
<1>2. Growing(outs, Calculations, lowest - 1, highest)
  BY <1>1, EmittedGrows
<1>3. e[lowest - 1] = EmitStart
  BY <1>1, EmittedRuns
<1>. HIDE DEF e
<1>4. lowest - 1 \in Int /\ lowest - 1 \in (lowest - 1) .. highest
      /\ highest \in (lowest - 1) .. highest
  BY <1>1
<1>5. outs[lowest - 1] = <<Mov(RegB, AtA), Mov(AtA, Number(0))>>
  BY <1>3, <1>4 DEF EmitStart
<1>6. outs[highest] = e[highest].out
  BY <1>4
<1>. HIDE DEF outs
<1>7. Len(outs[lowest - 1]) =< Len(outs[highest])
  BY <1>1, <1>2, <1>4, GrowingKeeps
<1>8. Len(outs[lowest - 1]) = 2
  BY <1>5
<1>. DEFINE y == e[highest].out
            z == AddOrSub(RegA, - e[highest].cur)
<1>9. y \in Seq(Calculations) /\ z \in Seq(Calculations)
  <2>1. e[highest].cur \in Int /\ e[highest].out \in Seq(Calculations)
    BY <1>1 DEF Emitting
  <2>2. - e[highest].cur \in Int
    BY <2>1
  <2>. QED
    BY <2>1, <2>2, AddOrSubType, NumbersAreSources, Zenon
<1>10. Len(y) >= 2 /\ emit_mul_replacement(m) = y \o z
  BY <1>1, <1>6, <1>7, <1>8
<1>. HIDE DEF y, z
<1>11. Len(y \o z) = Len(y) + Len(z) /\ Len(y) \in Nat /\ Len(z) \in Nat
  BY <1>9, ConcatProperties, LenProperties
<1>. QED
  BY <1>10, <1>11

-----------------------------------------------------------------------------
(* apply_loop_optimizations, line by line.                                    *)

\* Whether the loop at line i is replaced, by what, and with which line it goes on.
Replaces(c, i) == IsLoop(c, i) /\ (IsClear(Body(c, i)) \/ Multiplies(Body(c, i)))
OtherMods(body) == [o \in DOMAIN Analysis(body).mods \ {0} |-> Analysis(body).mods[o]]
Instead(c, i) ==
    IF ~ Replaces(c, i) THEN <<c[i]>>
    ELSE IF IsClear(Body(c, i)) THEN <<Mov(AtA, Number(0))>>
    ELSE emit_mul_replacement(OtherMods(Body(c, i)))
Beyond(c, i) == IF Replaces(c, i) THEN close_idx(c, i) + 3 ELSE i + 1

\* The body of a loop that is replaced has nothing but steps.
LEMMA ReplacedBody ==
    ASSUME NEW c, Sound(c), NEW i \in 1 .. Len(c), Replaces(c, i)
    PROVE  StepsOnly(Body(c, i))
<1>. DEFINE b == Body(c, i)
<1>1. /\ b \in Seq(Assembly) /\ Len(b) \in Nat
      /\ \A m \in 1 .. Len(b) : b[m] = c[i + 2 + m] /\ i + 2 + m \in 1 .. Len(c)
  BY BodyLines DEF Replaces
<1>2. ASSUME NEW m \in 1 .. Len(b) PROVE \E n \in Nat : StepBy(b[m], n)
  <2>1. IsStep(b[m], RegA) \/ IsStep(b[m], AtA)
    <3>1. CASE IsClear(b)
      <4>1. b = <<Sub(AtA, Number(1))>>
        BY <3>1 DEF IsClear
      <4>2. m = 1 /\ b[m] = Sub(AtA, Number(1))
        BY <1>2, <4>1
      <4>. QED
        BY <4>2, Fields, ArgumentFields DEF IsStep, SUB
    <3>2. CASE Multiplies(b)
      BY <1>2, <3>2 DEF Multiplies
    <3>. QED
      BY <3>1, <3>2 DEF Replaces
  <2>2. PICK p \in Places : IsStep(b[m], p)
    BY <2>1 DEF Places
  <2>. HIDE DEF b
  <2>3. PICK n \in Nat : b[m] = Add(p, Number(n)) \/ b[m] = Sub(p, Number(n))
    BY <1>1, <2>2, StepLine
  <2>. QED
    BY <2>3 DEF StepBy
<1>. QED
  BY <1>1, <1>2 DEF StepsOnly

\* A loop that multiplies modifies another cell than its own.
LEMMA OtherModsType ==
    ASSUME NEW body, StepsOnly(body), Multiplies(body)
    PROVE  /\ OtherMods(body) \in Mods
           /\ DOMAIN OtherMods(body) = DOMAIN Analysis(body).mods \ {0}
           /\ DOMAIN OtherMods(body) # {}
<1>. DEFINE m == Analysis(body).mods
            D == DOMAIN m \ {0}
<1>1. m \in Mods /\ DOMAIN m \in Offsets /\ m \in [DOMAIN m -> Int]
  BY AnalysisType, ModsAre DEF Modifying
<1>2. 0 \in DOMAIN m /\ DOMAIN m # {0}
  BY DEF Multiplies
<1>3. D \in Offsets
  BY <1>1 DEF Offsets
<1>4. OtherMods(body) = [o \in D |-> m[o]]
  BY DEF OtherMods
<1>5. [o \in D |-> m[o]] \in [D -> Int]
  BY <1>1
<1>6. D # {}
  BY <1>2
<1>. HIDE DEF D, m
<1>7. OtherMods(body) \in Mods
  BY <1>3, <1>4, <1>5 DEF Mods
<1>8. DOMAIN OtherMods(body) = D
  BY <1>4
<1>. QED
  BY <1>6, <1>7, <1>8 DEF D, m

\* What is written instead, and that it goes on beyond the loop.
LEMMA InsteadType ==
    ASSUME NEW c, Sound(c), NEW i \in 1 .. Len(c)
    PROVE  /\ Instead(c, i) \in Seq(Assembly) /\ Len(Instead(c, i)) \in Nat
           /\ Len(Instead(c, i)) >= 1
           /\ Replaces(c, i) => Instead(c, i) \in Seq(Calculations)
           /\ Beyond(c, i) \in Nat /\ i < Beyond(c, i) /\ Beyond(c, i) =< Len(c) + 1
<1>1. c \in Seq(Assembly) /\ Len(c) \in Nat /\ c[i] \in Assembly
  BY LenProperties DEF Sound
<1>2. CASE ~ Replaces(c, i)
  <2>1. Instead(c, i) = <<c[i]>> /\ Beyond(c, i) = i + 1
    BY <1>2 DEF Instead, Beyond
  <2>. QED
    BY <1>1, <1>2, <2>1
<1>3. CASE Replaces(c, i)
  <2>. DEFINE b == Body(c, i)
              new == Instead(c, i)
  <2>1. StepsOnly(b)
    BY <1>3, ReplacedBody
  <2>2. new \in Seq(Calculations) /\ Len(new) >= 1
    <3>1. CASE IsClear(b)
      <4>1. new = <<Mov(AtA, Number(0))>>
        BY <1>3, <3>1 DEF Instead
      <4>2. Mov(AtA, Number(0)) \in Calculations
        <5>. 0 \in Int
          OBVIOUS
        <5>. QED
          BY NumbersAreSources, CalculationTypes
      <4>. QED
        BY <4>1, <4>2
    <3>2. CASE ~ IsClear(b)
      <4>1. Multiplies(b) /\ new = emit_mul_replacement(OtherMods(b))
        BY <1>3, <3>2 DEF Instead, Replaces
      <4>2. OtherMods(b) \in Mods /\ DOMAIN OtherMods(b) # {}
        BY <2>1, <4>1, OtherModsType, Zenon
      <4>. QED
        BY <4>1, <4>2, ReplacementType, ReplacementNotEmpty, Zenon
    <3>. QED
      BY <3>1, <3>2
  <2>3. Calculations \subseteq Assembly
    BY DEF Calculations
  <2>4. new \in Seq(Assembly) /\ Len(new) \in Nat
    <3>. HIDE DEF new
    <3>. QED
      BY <2>2, <2>3, LenProperties
  <2>5. /\ close_idx(c, i) \in Nat /\ close_idx(c, i) = i + 3 + Len(b) /\ Len(b) \in Nat
        /\ close_idx(c, i) + 2 \in 1 .. Len(c)
    BY <1>3, BodyLines DEF Replaces
  <2>6. Beyond(c, i) = close_idx(c, i) + 3
    BY <1>3 DEF Beyond
  <2>. HIDE DEF new, b
  <2>7. Beyond(c, i) \in Nat /\ i < Beyond(c, i) /\ Beyond(c, i) =< Len(c) + 1
    BY <1>1, <2>5, <2>6
  <2>. QED
    BY <2>2, <2>4, <2>7 DEF new
<1>. QED
  BY <1>2, <1>3

Rewriting == [out : Seq(Assembly), next : Nat]

\* A line the loop has come to is written, or what replaces its loop is.
LEMMA ReplacedAt ==
    ASSUME NEW c, Sound(c), NEW i \in 1 .. Len(c), NEW r \in Rewriting
    PROVE  /\ Replaced(c, r, i) = IF i < r.next THEN r
                                  ELSE [out |-> r.out \o Instead(c, i), next |-> Beyond(c, i)]
           /\ Replaced(c, r, i) \in Rewriting
<1>1. /\ Instead(c, i) \in Seq(Assembly) /\ Beyond(c, i) \in Nat
      /\ r.out \in Seq(Assembly) /\ r.next \in Nat /\ c[i] \in Assembly
  <2>1. c \in Seq(Assembly)
    BY DEF Sound
  <2>. QED
    BY <2>1, InsteadType DEF Rewriting
<1>2. CASE i < r.next
  BY <1>1, <1>2 DEF Replaced
<1>3. CASE ~ (i < r.next)
  <2>. DEFINE b == Body(c, i)
  <2>1. i >= r.next
    BY <1>1, <1>3
  <2>2. IsClear(b) => ~ Multiplies(b)
    <3>1. IsClear(b) => Len(b) = 1
      BY DEF IsClear
    <3>2. Multiplies(b) => Len(b) >= 2
      BY DEF Multiplies
    <3>. QED
      <4>. SUFFICES ASSUME IsClear(b), Multiplies(b) PROVE FALSE
        OBVIOUS
      <4>. HIDE DEF b
      <4>1. Len(b) = 1 /\ Len(b) >= 2
        BY <3>1, <3>2
      <4>. QED
        BY <4>1
  <2>3. Replaced(c, r, i) = [out |-> r.out \o Instead(c, i), next |-> Beyond(c, i)]
    <3>1. CASE IsLoop(c, i) /\ IsClear(b)
      <4>1. Replaced(c, r, i) = [out |-> Append(r.out, Mov(AtA, Number(0))),
                                 next |-> close_idx(c, i) + 3]
        BY <1>3, <2>1, <2>2, <3>1 DEF Replaced
      <4>2. Instead(c, i) = <<Mov(AtA, Number(0))>> /\ Beyond(c, i) = close_idx(c, i) + 3
        BY <3>1 DEF Instead, Beyond, Replaces
      <4>3. Mov(AtA, Number(0)) \in Assembly
        <5>1. 0 \in Int
          OBVIOUS
        <5>. QED
          BY <5>1, ArgumentTypes, InstructionTypes
      <4>4. Append(r.out, Mov(AtA, Number(0))) = r.out \o <<Mov(AtA, Number(0))>>
        BY <1>1, <4>3, AppendIsConcat, Zenon
      <4>. QED
        BY <4>1, <4>2, <4>4, Zenon
    <3>2. CASE IsLoop(c, i) /\ Multiplies(b)
      <4>1. Replaced(c, r, i) = [out |-> r.out \o emit_mul_replacement(OtherMods(b)),
                                 next |-> close_idx(c, i) + 3]
        BY <1>3, <2>1, <2>2, <3>2 DEF Replaced, OtherMods
      <4>2. /\ Instead(c, i) = emit_mul_replacement(OtherMods(b))
            /\ Beyond(c, i) = close_idx(c, i) + 3
        BY <2>2, <3>2 DEF Instead, Beyond, Replaces
      <4>. QED
        BY <4>1, <4>2
    <3>3. CASE ~ Replaces(c, i)
      <4>1. Replaced(c, r, i) = [out |-> Append(r.out, c[i]), next |-> i + 1]
        BY <1>3, <2>1, <3>3 DEF Replaced, Replaces
      <4>2. Instead(c, i) = <<c[i]>> /\ Beyond(c, i) = i + 1
        BY <3>3 DEF Instead, Beyond
      <4>3. Append(r.out, c[i]) = r.out \o <<c[i]>>
        BY <1>1, AppendIsConcat, Zenon
      <4>. QED
        BY <4>1, <4>2, <4>3
    <3>. QED
      BY <3>1, <3>2, <3>3 DEF Replaces
  <2>4. r.out \o Instead(c, i) \in Seq(Assembly)
    BY <1>1, ConcatProperties
  <2>. QED
    BY <1>1, <1>3, <2>3, <2>4 DEF Rewriting
<1>. QED
  BY <1>2, <1>3

\* The recursive definition of what is written after each line has a solution.
LEMMA ReplacingRuns ==
    ASSUME NEW lines, Sound(lines)
    PROVE  /\ Replacing(lines) \in [0 .. Len(lines) -> Rewriting]
           /\ Replacing(lines)[0] = [out |-> <<>>, next |-> 1]
           /\ \A k \in 1 .. Len(lines) :
                 Replacing(lines)[k] = Replaced(lines, Replacing(lines)[k - 1], k)
<1>. DEFINE n == Len(lines)
            base == [out |-> <<>>, next |-> 1]
            step == [ks \in ((0 + 1) .. n) \X Rewriting |-> Replaced(lines, ks[2], ks[1])]
            Solves(f) == f = [i \in 0 .. Len(lines) |->
                                IF i = 0 THEN [out |-> <<>>, next |-> 1]
                                ELSE Replaced(lines, f[i - 1], i)]
<1>0. lines \in Seq(Assembly)
  BY DEF Sound
<1>1. n \in Int /\ 0 \in Int /\ 0 =< n
  BY <1>0, LenProperties
<1>2. step \in [((0 + 1) .. n) \X Rewriting -> Rewriting]
  <2>1. ASSUME NEW ks \in ((0 + 1) .. n) \X Rewriting
        PROVE  Replaced(lines, ks[2], ks[1]) \in Rewriting
    <3>1. ks[1] \in 1 .. Len(lines) /\ ks[2] \in Rewriting
      BY <2>1
    <3>. QED
      BY <3>1, ReplacedAt
  <2>. QED
    BY <2>1
<1>3. PICK f : IsRun(f, Rewriting, base, 0, n, step)
  <2>1. base \in Rewriting
    BY EmptySeq DEF Rewriting
  <2>. HIDE DEF step, n, base
  <2>. QED
    BY <1>1, <1>2, <2>1, StepsHaveRun, Zenon
<1>4. /\ f \in [0 .. n -> Rewriting] /\ f[0] = base
      /\ \A k \in 1 .. n : f[k - 1] \in Rewriting /\ f[k] = Replaced(lines, f[k - 1], k)
  <2>1. \A k \in (0 + 1) .. n : f[k - 1] \in Rewriting /\ f[k] = step[<<k, f[k - 1]>>]
    BY <1>3, Zenon DEF IsRun
  <2>2. f \in [0 .. n -> Rewriting] /\ f[0] = base
    BY <1>3 DEF IsRun
  <2>3. \A k \in (0 + 1) .. n : \A r \in Rewriting : step[<<k, r>>] = Replaced(lines, r, k)
    OBVIOUS
  <2>4. (0 + 1) .. n = 1 .. n
    OBVIOUS
  <2>. HIDE DEF step, base, n, Solves
  <2>. QED
    BY <2>1, <2>2, <2>3, <2>4, Zenon
<1>. HIDE DEF step
<1>5. Solves(f)
  BY <1>4
<1>. DEFINE g == CHOOSE h : Solves(h)
<1>6. Solves(g)
  <2>. HIDE DEF Solves
  <2>. QED
    BY <1>5
<1>7. Replacing(lines) = g
  BY Zenon DEF Replacing
<1>. HIDE DEF g
<1>8. \A k \in (0 + 1) .. n : g[k - 1] \in Rewriting => g[k] = step[<<k, g[k - 1]>>]
  BY <1>6 DEF step
<1>9. g = [k \in 0 .. n |-> g[k]] /\ g[0] = base
  BY <1>6
<1>10. IsRun(g, Rewriting, base, 0, n, step)
  <2>. HIDE DEF n, Solves, base
  <2>. QED
    BY <1>1, <1>3, <1>8, <1>9, RunIsUnique, Zenon
<1>11. g \in [0 .. n -> Rewriting] /\ g[0] = base
  BY <1>10 DEF IsRun
<1>12. \A k \in 1 .. n : g[k] = Replaced(lines, g[k - 1], k)
  BY <1>6
<1>. QED
  BY <1>7, <1>11, <1>12

\* Whether the loop comes to line i, and where what it writes for it begins.
Visited(c, i) == i \in 1 .. Len(c) /\ Replacing(c)[i - 1].next = i
opos(c, i) == Len(Replacing(c)[i - 1].out) + 1

replacedCode(c) == [k \in 0 .. Len(c) |-> Replacing(c)[k].out]

\* The loop passes over the lines of a loop it has replaced, and over nothing else.
LEMMA VisitedLines ==
    ASSUME NEW c, Sound(c), NEW i \in 1 .. Len(c)
    PROVE  LET r == Replacing(c)[i - 1]
               t == Replacing(c)[i]
           IN  /\ r \in Rewriting /\ t \in Rewriting
               /\ i =< r.next /\ r.next =< Len(c) + 1
               /\ i < t.next /\ t.next =< Len(c) + 1
               /\ ~ Visited(c, i) => t = r /\ i < r.next
               /\ Visited(c, i) => /\ t.out = r.out \o Instead(c, i)
                                   /\ t.next = Beyond(c, i)
<1>. DEFINE R == Replacing(c)
            on == {k \in 0 .. Len(c) : k < R[k].next /\ R[k].next =< Len(c) + 1}
<1>1. Len(c) \in Nat /\ 0 \in Int /\ Len(c) \in Int
  BY LenProperties DEF Sound
<1>2. ASSUME NEW k \in 1 .. Len(c)
      PROVE  /\ R[k - 1] \in Rewriting /\ R[k] \in Rewriting
             /\ R[k - 1].next \in Nat /\ R[k].next \in Nat
             /\ R[k] = IF k < R[k - 1].next THEN R[k - 1]
                       ELSE [out |-> R[k - 1].out \o Instead(c, k), next |-> Beyond(c, k)]
  <2>1. k - 1 \in 0 .. Len(c) /\ k \in 0 .. Len(c)
    BY <1>1
  <2>2. R[k - 1] \in Rewriting /\ R[k] \in Rewriting /\ R[k] = Replaced(c, R[k - 1], k)
    BY <2>1, ReplacingRuns
  <2>. HIDE DEF R
  <2>3. R[k] = IF k < R[k - 1].next THEN R[k - 1]
                ELSE [out |-> R[k - 1].out \o Instead(c, k), next |-> Beyond(c, k)]
    BY <2>2, ReplacedAt, Zenon
  <2>. QED
    BY <2>2, <2>3 DEF Rewriting
<1>3. 0 \in on
  <2>1. R[0] = [out |-> <<>>, next |-> 1]
    BY ReplacingRuns
  <2>. HIDE DEF R
  <2>. QED
    BY <1>1, <2>1
<1>4. ASSUME NEW k \in (0 + 1) .. Len(c), k - 1 \in on PROVE k \in on
  <2>0. k \in 1 .. Len(c) /\ k \in 0 .. Len(c)
    BY <1>1
  <2>. HIDE DEF R
  <2>1. R[k - 1].next =< Len(c) + 1
    BY <1>4
  <2>2. CASE k < R[k - 1].next
    BY <1>2, <2>0, <2>1, <2>2, Zenon
  <2>3. CASE ~ (k < R[k - 1].next)
    <3>1. R[k] = [out |-> R[k - 1].out \o Instead(c, k), next |-> Beyond(c, k)]
      BY <1>2, <2>0, <2>3, Zenon
    <3>2. R[k].next = Beyond(c, k)
      BY <3>1
    <3>3. k < Beyond(c, k) /\ Beyond(c, k) =< Len(c) + 1
      BY <2>0, InsteadType
    <3>. QED
      BY <2>0, <3>2, <3>3
  <2>. QED
    BY <2>2, <2>3
<1>5. \A k \in 0 .. Len(c) : k \in on
  <2>. HIDE DEF on
  <2>. QED
    BY <1>1, <1>3, <1>4, UpTo, Zenon
<1>6. i - 1 \in 0 .. Len(c) /\ i \in 0 .. Len(c)
  BY <1>1
<1>7. R[i - 1].next > i - 1 /\ R[i - 1].next =< Len(c) + 1
      /\ R[i].next > i /\ R[i].next =< Len(c) + 1
  <2>1. i - 1 \in on /\ i \in on
    BY <1>5, <1>6
  <2>. HIDE DEF R
  <2>. QED
    BY <2>1
<1>8. Visited(c, i) <=> R[i - 1].next = i
  BY DEF Visited
<1>. HIDE DEF R
<1>9. ~ Visited(c, i) => i < R[i - 1].next
  <2>1. R[i - 1].next \in Nat
    BY <1>2, Zenon
  <2>. QED
    BY <1>7, <1>8, <2>1
<1>10. Visited(c, i) => ~ (i < R[i - 1].next)
  BY <1>8
<1>11. Visited(c, i) => R[i] = [out |-> R[i - 1].out \o Instead(c, i), next |-> Beyond(c, i)]
  BY <1>2, <1>10, Zenon
<1>12. ~ Visited(c, i) => R[i] = R[i - 1]
  BY <1>2, <1>9, Zenon
<1>13. Visited(c, i) => R[i].out = R[i - 1].out \o Instead(c, i) /\ R[i].next = Beyond(c, i)
  BY <1>11
<1>14. i =< R[i - 1].next
  <2>1. R[i - 1].next \in Nat
    BY <1>2, Zenon
  <2>. QED
    BY <1>7, <2>1
<1>15. R[i - 1] \in Rewriting /\ R[i] \in Rewriting
  BY <1>2, Zenon
<1>. QED
  BY <1>7, <1>9, <1>12, <1>13, <1>14, <1>15 DEF R

\* What was written stays.
LEMMA ReplacedGrows ==
    ASSUME NEW c, Sound(c)
    PROVE  Growing(replacedCode(c), Assembly, 0, Len(c))
<1>1. replacedCode(c) \in [0 .. Len(c) -> Seq(Assembly)]
  <2>1. \A k \in 0 .. Len(c) : Replacing(c)[k].out \in Seq(Assembly)
    BY ReplacingRuns DEF Rewriting
  <2>. QED
    BY <2>1 DEF replacedCode
<1>2. ASSUME NEW k \in (0 + 1) .. Len(c)
      PROVE  \E t \in Seq(Assembly) : replacedCode(c)[k] = replacedCode(c)[k - 1] \o t
  <2>0. Len(c) \in Nat
    BY LenProperties DEF Sound
  <2>1. k \in 1 .. Len(c) /\ k - 1 \in 0 .. Len(c) /\ k \in 0 .. Len(c)
    BY <2>0
  <2>. DEFINE r == Replacing(c)[k - 1]
              t == Replacing(c)[k]
  <2>2. /\ r \in Rewriting
        /\ ~ Visited(c, k) => t = r
        /\ Visited(c, k) => t.out = r.out \o Instead(c, k)
    BY <2>1, VisitedLines, Zenon
  <2>3. replacedCode(c)[k] = t.out /\ replacedCode(c)[k - 1] = r.out
    BY <2>1 DEF replacedCode
  <2>. HIDE DEF r, t
  <2>4. CASE Visited(c, k)
    BY <2>1, <2>2, <2>3, <2>4, InsteadType
  <2>5. CASE ~ Visited(c, k)
    <3>1. r.out = r.out \o <<>>
      BY <2>2, ConcatEmptySeq DEF Rewriting
    <3>. QED
      BY <2>2, <2>3, <2>5, <3>1, EmptySeq, Zenon
  <2>. QED
    BY <2>4, <2>5, Zenon
<1>. QED
  BY <1>1, <1>2, Zenon DEF Growing

\* The lines written for a visited line, where they are in the result, and which line is
\* visited next.
LEMMA VisitedPlaces ==
    ASSUME NEW c, Sound(c), NEW i, Visited(c, i)
    PROVE  LET O == apply_loop_optimizations(c)
               p == opos(c, i)
               n == Len(Instead(c, i))
           IN  /\ O \in Seq(Assembly) /\ p \in Nat \ {0} /\ n \in Nat \ {0}
               /\ p + n - 1 =< Len(O)
               /\ \A q \in 1 .. n : O[p + q - 1] = Instead(c, i)[q]
               /\ opos(c, Beyond(c, i)) = p + n
               /\ \A k \in (i + 1) .. (Beyond(c, i) - 1) : ~ Visited(c, k)
               /\ Beyond(c, i) =< Len(c) => Visited(c, Beyond(c, i))
               /\ Beyond(c, i) = Len(c) + 1 => p + n = Len(O) + 1
<1>. DEFINE O == apply_loop_optimizations(c)
            p == opos(c, i)
            w == Instead(c, i)
            r == Replacing(c)[i - 1]
            t == Replacing(c)[i]
            N == Len(c)
            e == Beyond(c, i)
<1>0. i \in 1 .. N /\ N \in Nat
  BY LenProperties DEF Sound, Visited
<1>1. /\ r \in Rewriting /\ t \in Rewriting /\ t.out = r.out \o w /\ t.next = e
      /\ w \in Seq(Assembly) /\ Len(w) \in Nat /\ Len(w) >= 1
      /\ e \in Nat /\ i < e /\ e =< N + 1
  BY <1>0, VisitedLines, InsteadType
<1>2. p = Len(r.out) + 1
  BY DEF opos
<1>3. O = Replacing(c)[N].out
  BY DEF apply_loop_optimizations
<1>. HIDE DEF O, p, N, e
<1>4. /\ r.out \in Seq(Assembly) /\ t.out \in Seq(Assembly) /\ Len(r.out) \in Nat
      /\ Len(t.out) = Len(r.out) + Len(w)
      /\ \A q \in 1 .. (Len(r.out) + Len(w)) :
            t.out[q] = IF q =< Len(r.out) THEN r.out[q] ELSE w[q - Len(r.out)]
  <2>1. r.out \in Seq(Assembly) /\ t.out \in Seq(Assembly)
    BY <1>1 DEF Rewriting
  <2>. DEFINE a == r.out
  <2>2. a \in Seq(Assembly) /\ t.out = a \o w
    BY <1>1, <2>1
  <2>. HIDE DEF a, w
  <2>3. /\ Len(a \o w) = Len(a) + Len(w) /\ Len(a) \in Nat
        /\ \A q \in 1 .. (Len(a) + Len(w)) :
              (a \o w)[q] = IF q =< Len(a) THEN a[q] ELSE w[q - Len(a)]
    BY <1>1, <2>2, ConcatProperties, LenProperties
  <2>. QED
    BY <2>1, <2>2, <2>3 DEF a
<1>5. /\ O \in Seq(Assembly) /\ Len(O) \in Nat /\ Len(t.out) =< Len(O)
      /\ \A q \in 1 .. Len(t.out) : O[q] = t.out[q]
  <2>1. 0 \in Int /\ N \in Int /\ i \in 0 .. N /\ N \in i .. N /\ N \in 0 .. N
    BY <1>0
  <2>2. replacedCode(c)[i] = t.out /\ replacedCode(c)[N] = O
    BY <1>3, <2>1 DEF replacedCode, N
  <2>3. O \in Seq(Assembly)
    <3>1. Growing(replacedCode(c), Assembly, 0, N)
      BY ReplacedGrows DEF N
    <3>. QED
      BY <2>1, <2>2, <3>1 DEF Growing
  <2>4. /\ Len(replacedCode(c)[i]) =< Len(replacedCode(c)[N])
        /\ \A q \in 1 .. Len(replacedCode(c)[i]) :
              replacedCode(c)[N][q] = replacedCode(c)[i][q]
    <3>1. Growing(replacedCode(c), Assembly, 0, N)
      BY ReplacedGrows DEF N
    <3>. QED
      BY <2>1, <3>1, GrowingKeeps
  <2>5. Len(O) \in Nat
    BY <2>3, LenProperties
  <2>. QED
    BY <2>2, <2>3, <2>4, <2>5
<1>. DEFINE x == Len(r.out)
            n == Len(w)
<1>6. x \in Nat /\ n \in Nat /\ n >= 1 /\ Len(t.out) = x + n /\ p = x + 1
  BY <1>1, <1>2, <1>4
<1>7. \A q \in 1 .. n : O[p + q - 1] = w[q]
  <2>1. ASSUME NEW q \in 1 .. n PROVE O[p + q - 1] = w[q]
    <3>1. /\ p + q - 1 = x + q /\ x + q \in 1 .. (x + n) /\ ~ (x + q =< x)
          /\ (x + q) - x = q
      <4>. HIDE DEF x, n
      <4>. QED
        BY <1>6, <2>1
    <3>2. O[x + q] = t.out[x + q]
      <4>. HIDE DEF x, n, t
      <4>. QED
        BY <1>5, <1>6, <3>1, Zenon
    <3>3. t.out[x + q] = w[q]
      <4>1. t.out[x + q] = IF x + q =< x THEN r.out[x + q] ELSE w[(x + q) - x]
        BY <1>4, <3>1, Zenon
      <4>. QED
        BY <3>1, <4>1
    <3>. QED
      BY <3>1, <3>2, <3>3
  <2>. QED
    BY <2>1
<1>. DEFINE over == {k \in i .. (e - 1) : Replacing(c)[k] = t}
<1>8. \A k \in i .. (e - 1) : k \in over
  <2>1. i \in over
    BY <1>0, <1>1
  <2>2. ASSUME NEW k \in (i + 1) .. (e - 1), k - 1 \in over PROVE k \in over
    <3>1. k \in 1 .. N /\ k \in i .. (e - 1) /\ k < e
      BY <1>0, <1>1
    <3>2. Replacing(c)[k - 1] = t
      BY <2>2
    <3>. HIDE DEF t
    <3>3. ~ Visited(c, k)
      BY <1>1, <3>1, <3>2 DEF Visited
    <3>4. Replacing(c)[k] = t
      BY <3>1, <3>2, <3>3, VisitedLines DEF N
    <3>. QED
      BY <3>1, <3>4
  <2>3. i \in Int /\ e - 1 \in Int
    BY <1>0, <1>1
  <2>. HIDE DEF over
  <2>. QED
    BY <2>1, <2>2, <2>3, UpTo, Zenon
<1>14. ASSUME NEW k \in (i + 1) .. (e - 1) PROVE ~ Visited(c, k)
  <2>1. k - 1 \in i .. (e - 1) /\ k < e
    BY <1>0, <1>1
  <2>2. k - 1 \in over
    BY <1>8, <2>1
  <2>3. Replacing(c)[k - 1] = t
    BY <2>2
  <2>. HIDE DEF t, over
  <2>. QED
    BY <1>1, <2>1, <2>3 DEF Visited
<1>9. Replacing(c)[e - 1] = t
  <2>1. e - 1 \in i .. (e - 1)
    BY <1>0, <1>1
  <2>2. e - 1 \in over
    BY <1>8, <2>1
  <2>. HIDE DEF t
  <2>. QED
    BY <2>2
<1>10. opos(c, e) = p + n
  <2>1. opos(c, e) = Len(t.out) + 1
    BY <1>9 DEF opos
  <2>. HIDE DEF x, n, t
  <2>. QED
    BY <1>6, <2>1
<1>11. e =< N => Visited(c, e)
  <2>1. e =< N => e \in 1 .. N
    BY <1>0, <1>1
  <2>. HIDE DEF t
  <2>. QED
    BY <1>1, <1>9, <2>1 DEF Visited, N
<1>12. e = N + 1 => p + n = Len(O) + 1
  <2>1. ASSUME e = N + 1 PROVE Len(O) = Len(t.out)
    <3>1. e - 1 = N
      BY <1>0, <2>1
    <3>2. O = t.out
      BY <1>3, <1>9, <3>1
    <3>. QED
      BY <3>2
  <2>. HIDE DEF x, n, t
  <2>. QED
    BY <1>6, <2>1
<1>13. p + n - 1 =< Len(O) /\ p \in Nat \ {0} /\ n \in Nat \ {0}
  <2>. HIDE DEF x, n, t
  <2>. QED
    BY <1>5, <1>6
<1>. QED
  BY <1>5, <1>7, <1>10, <1>11, <1>12, <1>13, <1>14 DEF O, p, N, e

\* Every line of the result was written for a visited line.
LEMMA ReplacedLineOf ==
    ASSUME NEW c, Sound(c), NEW q \in 1 .. Len(apply_loop_optimizations(c))
    PROVE  \E i \in 1 .. Len(c) :
              /\ Visited(c, i)
              /\ q - opos(c, i) + 1 \in 1 .. Len(Instead(c, i))
              /\ apply_loop_optimizations(c)[q] = Instead(c, i)[q - opos(c, i) + 1]
<1>. DEFINE O == apply_loop_optimizations(c)
            f == replacedCode(c)
<1>1. Len(c) \in Nat /\ 0 \in Int /\ Len(c) \in Int /\ 0 =< Len(c) /\ Len(c) \in 0 .. Len(c)
  BY LenProperties DEF Sound
<1>2. f[0] = <<>> /\ f[Len(c)] = O
  BY <1>1, ReplacingRuns DEF replacedCode, apply_loop_optimizations
<1>3. Growing(f, Assembly, 0, Len(c))
  BY ReplacedGrows
<1>4. Len(O) \in Nat /\ O \in Seq(Assembly)
  BY <1>1, <1>2, <1>3, LenProperties, Zenon DEF Growing
<1>5. \E k \in (0 + 1) .. Len(c) : Len(f[k - 1]) < q /\ q =< Len(f[k])
  <2>1. q \in Nat /\ Len(f[0]) < q /\ q =< Len(f[Len(c)])
    BY <1>2, <1>4
  <2>. HIDE DEF f, O
  <2>. QED
    BY <1>1, <1>3, <2>1, GrowingCovers, Zenon
<1>6. PICK i \in 1 .. Len(c) : Len(f[i - 1]) < q /\ q =< Len(f[i])
  BY <1>1, <1>5
<1>7. i - 1 \in 0 .. Len(c) /\ i \in 0 .. Len(c) /\ i \in Int
  BY <1>1
<1>8. f[i - 1] = Replacing(c)[i - 1].out /\ f[i] = Replacing(c)[i].out
  BY <1>7 DEF replacedCode
<1>9. Len(f[i - 1]) \in Nat /\ Len(f[i]) \in Nat
  BY <1>3, <1>7, LenProperties DEF Growing
<1>. HIDE DEF f
<1>10. Visited(c, i)
  <2>. SUFFICES ASSUME ~ Visited(c, i) PROVE FALSE
    OBVIOUS
  <2>1. f[i] = f[i - 1]
    BY <1>8, VisitedLines
  <2>. DEFINE y == Len(f[i - 1])
  <2>2. y < q /\ q =< y /\ y \in Nat /\ q \in Nat
    BY <1>4, <1>6, <1>9, <2>1
  <2>. HIDE DEF y
  <2>. QED
    BY <2>2
<1>. DEFINE n == Len(Instead(c, i))
            p == opos(c, i)
            x == Len(f[i - 1])
            y == Len(f[i])
<1>11. /\ p \in Nat \ {0} /\ n \in Nat \ {0} /\ p = x + 1 /\ x \in Nat /\ y = x + n
       /\ \A m \in 1 .. n : O[p + m - 1] = Instead(c, i)[m]
  <2>1. /\ p \in Nat \ {0} /\ n \in Nat \ {0}
        /\ \A m \in 1 .. n : O[p + m - 1] = Instead(c, i)[m]
    BY <1>10, VisitedPlaces
  <2>2. f[i] = f[i - 1] \o Instead(c, i) /\ Instead(c, i) \in Seq(Assembly)
    BY <1>8, <1>10, VisitedLines, InsteadType, Zenon
  <2>3. f[i - 1] \in Seq(Assembly)
    BY <1>3, <1>7, Zenon DEF Growing
  <2>4. y = x + n
    BY <2>2, <2>3, ConcatProperties
  <2>5. p = x + 1
    BY <1>8 DEF opos
  <2>. QED
    BY <1>9, <2>1, <2>4, <2>5
<1>12. x < q /\ q =< y /\ q \in Nat
  BY <1>4, <1>6
<1>. HIDE DEF n, p, x, y, O
<1>13. q - p + 1 \in 1 .. n /\ p + (q - p + 1) - 1 = q
  BY <1>11, <1>12
<1>14. O[q] = Instead(c, i)[q - p + 1]
  <2>1. O[p + (q - p + 1) - 1] = Instead(c, i)[q - p + 1]
    BY <1>11, <1>13
  <2>. QED
    BY <1>13, <2>1
<1>. QED
  BY <1>10, <1>13, <1>14 DEF n, p, O

\* The first line is always visited.
LEMMA FirstVisited ==
    ASSUME NEW c, Sound(c), c # <<>>
    PROVE  Visited(c, 1) /\ opos(c, 1) = 1
<1>1. Len(c) \in Nat /\ 1 \in 1 .. Len(c)
  <2>1. c \in Seq(Assembly) /\ Len(c) \in Nat
    BY LenProperties DEF Sound
  <2>2. Len(c) # 0
    BY <2>1
  <2>. QED
    BY <2>1, <2>2
<1>2. Replacing(c)[0] = [out |-> <<>>, next |-> 1]
  BY ReplacingRuns
<1>3. Replacing(c)[0].next = 1 /\ Len(Replacing(c)[0].out) = 0
  BY <1>2
<1>4. 1 - 1 = 0
  OBVIOUS
<1>. QED
  BY <1>1, <1>3, <1>4 DEF Visited, opos

-----------------------------------------------------------------------------
(* compile rejects exactly the programs whose brackets do not match.          *)

\* The lines compile returns for a program whose brackets match.
Folds(text) == apply_optimizations(Lines(text))

\* A program whose brackets match is compiled, to lines that are not none.
LEMMA CompiledProgram ==
    ASSUME NEW text, Program(text)
    PROVE  /\ Sound(Folds(text)) /\ compile(text) = apply_loop_optimizations(Folds(text))
           /\ compile(text) \in Seq(Assembly) /\ compile(text) # <<>>
<1>1. Sound(Folds(text))
  BY LinesAreSound, FoldingIsSound DEF Folds
<1>2. compile(text) = apply_loop_optimizations(Folds(text))
  BY ThrowsUnbalanced DEF Program, compile, Folds
<1>. DEFINE c == Folds(text)
            n == Len(Instead(c, 1))
            O == apply_loop_optimizations(c)
<1>. HIDE DEF c, n, O
<1>3. Sound(c) /\ c # <<>>
  BY <1>1 DEF c, Sound
<1>4. Visited(c, 1) /\ opos(c, 1) = 1
  BY <1>3, FirstVisited
<1>5. O \in Seq(Assembly) /\ n \in Nat \ {0} /\ 1 + n - 1 =< Len(O)
  BY <1>3, <1>4, VisitedPlaces DEF n, O
<1>6. O # <<>>
  <2>1. Len(O) # 0
    BY <1>5, LenProperties
  <2>. QED
    BY <2>1
<1>. QED
  BY <1>1, <1>2, <1>5, <1>6 DEF c, O

\* One whose brackets do not match is rejected, and no other.
LEMMA CompileRejects ==
    ASSUME NEW text \in Seq(Chars)
    PROVE  (compile(text) = <<>>) <=> ~ Balanced(text)
<1>1. Balanced(text) => compile(text) # <<>>
  BY CompiledProgram DEF Program
<1>2. ~ Balanced(text) => compile(text) = <<>>
  BY ThrowsUnbalanced DEF compile
<1>. QED
  BY <1>1, <1>2

\* The code is what compile made of the program, all the time.
Compiled == chars \in Sources /\ code = compile(chars)

\* The code always is what compile made of the program.
LEMMA StaysCompiled == Spec => []Compiled
<1>1. Init => Compiled
  BY DEF Init, Compiled
<1>2. Compiled /\ [Next]_vars => Compiled'
  <2>. SUFFICES ASSUME Compiled, [Next]_vars
                PROVE  UNCHANGED <<chars, code>>
    BY DEF Compiled
  <2>1. CASE LanguageStep
    BY <2>1 DEF LanguageStep, Command, Move, Change, Loop, Repeat, Remark, Go, machine
  <2>2. CASE MachineStep
    BY <2>2 DEF MachineStep, Instructions, PassLine, Calculate, Compare, Jump, NextLine, language
  <2>3. CASE WriteBoth
    BY <2>3 DEF WriteBoth, Write, Go, NextLine
  <2>4. ASSUME NEW v \in MemCell, ReadBoth(v) PROVE UNCHANGED <<chars, code>>
    BY <2>4 DEF ReadBoth, Read, Go, NextLine
  <2>5. CASE UNCHANGED vars
    BY <2>5 DEF vars, language, machine
  <2>. QED
    BY <2>1, <2>2, <2>3, <2>4, <2>5 DEF Next
<1>. QED
  BY <1>1, <1>2, PTL DEF Spec

\* No program with unmatched brackets is compiled, and none is refused for its brackets
\* when they match: compile's stack of numbers (Brainfvck.cpp:66-90) counts what
\* Balanced counts, and no pass after it makes code disappear altogether.
THEOREM CompilerRejectsUnbalanced == Spec => []RejectsUnbalanced
<1>1. Compiled => RejectsUnbalanced
  BY BrainfvckAssumption, CompileRejects DEF Compiled, RejectsUnbalanced, Chars
<1>. QED
  BY <1>1, StaysCompiled, PTL

-----------------------------------------------------------------------------
(* Where the jumps of the optimized code go.                                  *)

\* A line that is not visited is in a loop that is replaced.
LEMMA SkippedLine ==
    ASSUME NEW c, Sound(c), NEW r \in 1 .. Len(c), ~ Visited(c, r)
    PROVE  \E j \in 1 .. Len(c) :
              Visited(c, j) /\ Replaces(c, j) /\ j < r /\ r < Beyond(c, j)
<1>. DEFINE V == {j \in 1 .. r : Visited(c, j)}
<1>1. Len(c) \in Nat /\ c # <<>> /\ r \in Nat
  BY LenProperties DEF Sound
<1>2. 1 \in V
  BY <1>1, FirstVisited
<1>3. PICK j \in V : \A k \in V : k =< j
  <2>1. V \in SUBSET (0 .. r) /\ V # {}
    BY <1>1, <1>2
  <2>. HIDE DEF V
  <2>. QED
    BY <1>1, <2>1, GreatestOfBounded, Zenon
<1>4. Visited(c, j) /\ j \in 1 .. Len(c) /\ j < r
  <2>1. j # r
    BY <1>3
  <2>. QED
    BY <1>1, <1>3, <2>1
<1>5. Beyond(c, j) \in Nat /\ j < Beyond(c, j)
  BY <1>4, InsteadType
<1>6. r < Beyond(c, j)
  <2>. SUFFICES ASSUME Beyond(c, j) =< r PROVE FALSE
    BY <1>1, <1>5
  <2>1. Beyond(c, j) =< Len(c)
    BY <1>1, <1>5
  <2>2. Visited(c, Beyond(c, j))
    BY <1>4, <2>1, VisitedPlaces
  <2>3. Beyond(c, j) \in V
    BY <1>1, <1>4, <1>5, <2>2
  <2>4. Beyond(c, j) =< j
    BY <1>3, <2>3
  <2>. QED
    BY <1>4, <1>5, <2>4
<1>7. Replaces(c, j)
  <2>. SUFFICES ASSUME ~ Replaces(c, j) PROVE FALSE
    OBVIOUS
  <2>1. Beyond(c, j) = j + 1
    BY DEF Beyond
  <2>. QED
    BY <1>1, <1>4, <1>6, <2>1
<1>. QED
  BY <1>4, <1>6, <1>7

\* Of a loop that is replaced only the labels and jumps of its own brackets go.
LEMMA ReplacedBlocks ==
    ASSUME NEW c, Sound(c), NEW j \in 1 .. Len(c), Replaces(c, j),
           NEW r \in j .. (Beyond(c, j) - 1)
    PROVE  \E id \in Nat :
              /\ Opens(c, j, id) /\ Closes(c, close_idx(c, j), id)
              /\ BracketLine(c[r]) => \/ r = j \/ r = j + 2
                                      \/ r = close_idx(c, j) \/ r = close_idx(c, j) + 2
<1>. DEFINE e == close_idx(c, j)
            b == Body(c, j)
<1>1. IsLoop(c, j) /\ Beyond(c, j) = e + 3
  BY DEF Replaces, Beyond
<1>2. PICK id : BracketLoop(c, j, id, e)
  BY <1>1, LoopFound
<1>3. Opens(c, j, id) /\ Closes(c, e, id) /\ id \in Nat
  BY <1>2 DEF BracketLoop, Opens
<1>4. /\ Len(b) \in Nat /\ e = j + 3 + Len(b) /\ e \in Nat
      /\ \A m \in 1 .. Len(b) : b[m] = c[j + 2 + m]
  BY <1>1, BodyLines, Zenon
<1>5. StepsOnly(b)
  BY ReplacedBody
<1>6. Len(c) \in Nat
  BY LenProperties DEF Sound
<1>. HIDE DEF b, e
<1>7. ASSUME BracketLine(c[r]), r # j, r # j + 2, r # e, r # e + 2
      PROVE  FALSE
  <2>1. c[r] # Test
    BY <1>7, LinesDiffer DEF BracketLine
  <2>2. c[j + 1] = Test /\ c[e + 1] = Test
    BY <1>3 DEF Opens, Closes
  <2>3. r \in (j + 3) .. (e - 1)
    <3>1. r # j + 1 /\ r # e + 1
      BY <2>1, <2>2
    <3>2. r \in j .. (e + 2)
      BY <1>1, <1>4
    <3>3. j \in Nat
      BY <1>6
    <3>4. e \in Nat /\ e >= j + 3
      BY <1>4, <3>3
    <3>5. r # j /\ r # j + 2 /\ r # e /\ r # e + 2
      BY <1>7
    <3>. QED
      BY <3>1, <3>2, <3>3, <3>4, <3>5
  <2>. DEFINE m == r - (j + 2)
  <2>4. m \in 1 .. Len(b) /\ j + 2 + m = r
    BY <1>4, <1>6, <2>3
  <2>5. \E n \in Nat : StepBy(c[r], n)
    <3>1. b[m] = c[r]
      <4>. HIDE DEF m
      <4>. QED
        BY <1>4, <2>4, Zenon
    <3>. QED
      BY <1>5, <2>4, <3>1 DEF StepsOnly
  <2>. QED
    BY <1>7, <2>5, OtherLine, Zenon DEF BracketLine
<1>. QED
  BY <1>3, <1>7 DEF e

\* A bracket that is copied is the bracket of a pair that is copied, all six lines of it.
LEMMA BracketsTogether ==
    ASSUME NEW c, Sound(c), NEW id \in Nat, NEW a, Opens(c, a, id), NEW b, Closes(c, b, id),
           NEW i \in {a, a + 2, b, b + 2}, Visited(c, i), ~ Replaces(c, i)
    PROVE  \A r \in {a, a + 2, b, b + 2} : Visited(c, r) /\ ~ Replaces(c, r)
<1>1. /\ Len(c) \in Nat /\ a \in Nat /\ b \in Nat
      /\ \A r \in {a, a + 2, b, b + 2} : r \in 1 .. Len(c) /\ BracketLine(c[r])
      /\ \A q, r \in 1 .. Len(c) : c[q].kind = "label" /\ c[q] = c[r] => q = r
  <2>1. Len(c) \in Nat
    BY LenProperties DEF Sound
  <2>2. a \in 1 .. Len(c) /\ a + 2 \in 1 .. Len(c) /\ b \in 1 .. Len(c) /\ b + 2 \in 1 .. Len(c)
    BY DEF Opens, Closes
  <2>3. BracketLine(c[a]) /\ BracketLine(c[a + 2]) /\ BracketLine(c[b]) /\ BracketLine(c[b + 2])
    BY Zenon DEF Opens, Closes, BracketLine
  <2>4. \A q, r \in 1 .. Len(c) : c[q].kind = "label" /\ c[q] = c[r] => q = r
    BY DEF Sound
  <2>. QED
    BY <2>1, <2>2, <2>3, <2>4
<1>2. ASSUME NEW r \in {a, a + 2, b, b + 2}, NEW j \in 1 .. Len(c), Visited(c, j),
             Replaces(c, j), j =< r, r < Beyond(c, j)
      PROVE  FALSE
  <2>. DEFINE e == close_idx(c, j)
  <2>1. Beyond(c, j) \in Nat /\ Beyond(c, j) = e + 3 /\ j < Beyond(c, j) /\ j \in Nat
    BY <1>1, <1>2, InsteadType DEF Beyond
  <2>2. r \in j .. (Beyond(c, j) - 1)
    BY <1>1, <1>2, <2>1
  <2>3. PICK x \in Nat : /\ Opens(c, j, x) /\ Closes(c, e, x)
                         /\ r = j \/ r = j + 2 \/ r = e \/ r = e + 2
    BY <1>1, <1>2, <2>2, ReplacedBlocks
  <2>. HIDE DEF e
  <2>4. /\ c[j] = Label(start_par(x)) /\ c[j + 2] = Je(close_par(x))
        /\ c[e] = Label(close_par(x)) /\ c[e + 2] = Jne(start_par(x))
        /\ c[a] = Label(start_par(id)) /\ c[a + 2] = Je(close_par(id))
        /\ c[b] = Label(close_par(id)) /\ c[b + 2] = Jne(start_par(id))
        /\ e \in 1 .. Len(c) /\ j \in 1 .. Len(c)
    BY <2>3 DEF Opens, Closes
  <2>5. x = id
    BY <1>2, <2>3, <2>4, LinesDiffer
  <2>6. j = a /\ e = b
    <3>1. c[j].kind = "label" /\ c[e].kind = "label"
      BY <2>4, Fields
    <3>. QED
      BY <1>1, <2>4, <2>5, <3>1, Zenon
  <2>7. i = j \/ i \in (j + 1) .. (Beyond(c, j) - 1)
    <3>1. j + 2 < e
      <4>1. IsLoop(c, j)
        BY <1>2 DEF Replaces
      <4>2. Len(Body(c, j)) \in Nat /\ e = j + 3 + Len(Body(c, j))
        BY <4>1, BodyLines DEF e
      <4>. QED
        BY <2>1, <4>2
    <3>2. e \in Nat
      BY <1>1, <2>6
    <3>. QED
      BY <2>1, <2>6, <3>1, <3>2
  <2>8. i # j
    BY <1>2
  <2>. QED
    BY <1>2, <2>7, <2>8, VisitedPlaces
<1>3. ASSUME NEW r \in {a, a + 2, b, b + 2} PROVE Visited(c, r) /\ ~ Replaces(c, r)
  <2>0. r \in 1 .. Len(c) /\ r \in Nat
    BY <1>1
  <2>1. Visited(c, r)
    <3>. SUFFICES ASSUME ~ Visited(c, r) PROVE FALSE
      OBVIOUS
    <3>1. PICK j \in 1 .. Len(c) :
                Visited(c, j) /\ Replaces(c, j) /\ j < r /\ r < Beyond(c, j)
      BY <2>0, SkippedLine
    <3>2. j =< r
      BY <2>0, <3>1
    <3>. QED
      BY <1>2, <3>1, <3>2
  <2>2. ~ Replaces(c, r)
    <3>. SUFFICES ASSUME Replaces(c, r) PROVE FALSE
      OBVIOUS
    <3>1. r =< r /\ r < Beyond(c, r)
      BY <2>0, InsteadType
    <3>. QED
      BY <1>2, <2>0, <2>1, <3>1
  <2>. QED
    BY <2>1, <2>2
<1>. QED
  BY <1>3

-----------------------------------------------------------------------------
(* Code that a machine can run: the lines compile writes, with a label for each *)
(* jump.                                                                      *)

HasLabel(c, x) == LabelAt(c, x) \in 1 .. Len(c)

Calculating(l) == \E d \in Operands, e \in SourceOperands : Calculates(l, d, e)
Jumping(c, l) == \E x : (l = Je(x) \/ l = Jne(x)) /\ HasLabel(c, x)
Stopping(l) == l = PrintLine \/ l = InputLine \/ l = HaltLine

RunnableLine(c, l) ==
    l.kind # "instruction" \/ Calculating(l) \/ l = Test \/ Jumping(c, l) \/ Stopping(l)

Runnable(c) == c \in Seq(Assembly) /\ \A q \in 1 .. Len(c) : RunnableLine(c, c[q])

\* The kinds of lines are different.
LEMMA KindsDiffer ==
    /\ \A l, d, e : Calculates(l, d, e) => l.kind = "instruction" /\ l.what \in {18, 50, 82, 114}
    /\ \A l, n : StepBy(l, n) => l.kind = "instruction" /\ l.what \in {50, 82}
    /\ {18, 50, 82, 114} \cap {65, 81, 178, 1, 33, 255} = {}
BY Fields DEF Calculates, StepBy

\* A line that adds or subtracts a number is a calculation.
LEMMA StepsCalculate ==
    ASSUME NEW l, NEW n \in Nat, StepBy(l, n)
    PROVE  Calculating(l)
<1>1. Number(n) \in SourceOperands /\ Places \subseteq Operands
  BY NumbersAreSources
<1>. QED
  BY <1>1 DEF StepBy, Calculates, Calculating

\* A line with its label somewhere else in the code.
LEMMA SoundLineRuns ==
    ASSUME NEW c, Sound(c), NEW q \in 1 .. Len(c), NEW o,
           \A id \in Nat : /\ c[q] = Je(close_par(id)) => HasLabel(o, close_par(id))
                           /\ c[q] = Jne(start_par(id)) => HasLabel(o, start_par(id))
    PROVE  RunnableLine(o, c[q])
<1>. DEFINE l == c[q]
<1>1. l = HaltLine \/ PlainLine(l) \/ (\E n \in Nat : StepBy(l, n)) \/ BracketLine(l)
  BY DEF Sound
<1>. SUFFICES RunnableLine(o, l)
  OBVIOUS
<1>. HIDE DEF l
<1>2. CASE l = HaltLine
  BY <1>2 DEF RunnableLine, Stopping
<1>3. CASE PlainLine(l)
  <2>1. \/ l.kind # "instruction" \/ l = Test \/ l = PrintLine \/ l = InputLine
        \/ l = Mov(RegA, Number(2))
    BY <1>3, Fields DEF PlainLine
  <2>2. Calculates(Mov(RegA, Number(2)), RegA, Number(2))
    BY DEF Calculates
  <2>3. RegA \in Operands /\ Number(2) \in SourceOperands
    <3>1. 2 \in Int
      OBVIOUS
    <3>. QED
      BY <3>1, NumbersAreSources
  <2>. QED
    BY <2>1, <2>2, <2>3 DEF RunnableLine, Stopping, Calculating
<1>4. CASE \E n \in Nat : StepBy(l, n)
  BY <1>4, StepsCalculate DEF RunnableLine
<1>5. CASE BracketLine(l)
  <2>1. PICK id \in Nat : \/ l = Label(start_par(id)) \/ l = Label(close_par(id))
                          \/ l = Je(close_par(id)) \/ l = Jne(start_par(id))
    BY <1>5 DEF BracketLine
  <2>2. CASE l = Label(start_par(id)) \/ l = Label(close_par(id))
    <3>1. l.kind # "instruction"
      BY <2>2, Fields
    <3>. QED
      BY <3>1 DEF RunnableLine
  <2>3. CASE l = Je(close_par(id))
    BY <2>3 DEF RunnableLine, Jumping, l
  <2>4. CASE l = Jne(start_par(id))
    BY <2>4 DEF RunnableLine, Jumping, l
  <2>. QED
    BY <2>1, <2>2, <2>3, <2>4
<1>. QED
  BY <1>1, <1>2, <1>3, <1>4, <1>5

\* Sound lines can be run.
LEMMA SoundRuns ==
    ASSUME NEW c, Sound(c)
    PROVE  Runnable(c)
<1>1. ASSUME NEW q \in 1 .. Len(c) PROVE RunnableLine(c, c[q])
  <2>1. ASSUME NEW id \in Nat
        PROVE  /\ c[q] = Je(close_par(id)) => HasLabel(c, close_par(id))
               /\ c[q] = Jne(start_par(id)) => HasLabel(c, start_par(id))
    <3>1. ASSUME c[q] = Je(close_par(id)) PROVE HasLabel(c, close_par(id))
      <4>1. Opens(c, q - 2, id)
        BY <3>1 DEF Sound
      <4>2. q - 2 \in 1 .. Len(c)
        BY <4>1 DEF Opens
      <4>3. PICK r : Closes(c, r, id)
        BY <4>1, <4>2 DEF Sound
      <4>4. r \in 1 .. Len(c)
        BY <4>3 DEF Closes
      <4>. QED
        BY <4>3, <4>4, BlockLabels DEF HasLabel
    <3>2. ASSUME c[q] = Jne(start_par(id)) PROVE HasLabel(c, start_par(id))
      <4>1. Closes(c, q - 2, id)
        BY <3>2 DEF Sound
      <4>2. q - 2 \in 1 .. Len(c)
        BY <4>1 DEF Closes
      <4>3. PICK r : Opens(c, r, id)
        BY <4>1, <4>2 DEF Sound
      <4>4. r \in 1 .. Len(c)
        BY <4>3 DEF Opens
      <4>. QED
        BY <4>3, <4>4, BlockLabels DEF HasLabel
    <3>. QED
      BY <3>1, <3>2
  <2>. QED
    BY <2>1, SoundLineRuns
<1>. QED
  BY <1>1 DEF Runnable, Sound

\* Where a label that is copied is found: nowhere else.
LEMMA CopiedLabel ==
    ASSUME NEW c, Sound(c), NEW i, Visited(c, i), ~ Replaces(c, i),
           NEW x, c[i] = Label(x)
    PROVE  /\ LabelAt(apply_loop_optimizations(c), x) = opos(c, i)
           /\ opos(c, i) \in 1 .. Len(apply_loop_optimizations(c))
<1>. DEFINE O == apply_loop_optimizations(c)
            p == opos(c, i)
<1>1. i \in 1 .. Len(c)
  BY DEF Visited
<1>2. Instead(c, i) = <<c[i]>>
  BY DEF Instead
<1>3. O \in Seq(Assembly) /\ p \in 1 .. Len(O) /\ O[p] = Label(x)
  <2>1. O \in Seq(Assembly) /\ p \in Nat \ {0} /\ p + 1 - 1 =< Len(O) /\ O[p + 1 - 1] = c[i]
    <3>1. Len(Instead(c, i)) = 1 /\ Instead(c, i)[1] = c[i]
      BY <1>2
    <3>2. 1 \in 1 .. Len(Instead(c, i))
      BY <3>1
    <3>. QED
      BY <3>1, <3>2, VisitedPlaces, Zenon
  <2>2. Len(O) \in Nat /\ p + 1 - 1 = p
    BY <2>1, LenProperties
  <2>. HIDE DEF O, p
  <2>. QED
    BY <2>1, <2>2
<1>4. ASSUME NEW r \in 1 .. Len(O), O[r] = Label(x) PROVE r = p
  <2>1. PICK j \in 1 .. Len(c) :
            /\ Visited(c, j) /\ r - opos(c, j) + 1 \in 1 .. Len(Instead(c, j))
            /\ O[r] = Instead(c, j)[r - opos(c, j) + 1]
    BY ReplacedLineOf
  <2>2. ~ Replaces(c, j)
    <3>. SUFFICES ASSUME Replaces(c, j) PROVE FALSE
      OBVIOUS
    <3>1. Instead(c, j) \in Seq(Calculations)
      BY InsteadType
    <3>2. O[r] \in Calculations
      BY <2>1, <3>1
    <3>3. O[r].kind = "instruction"
      BY <3>2, KindsDiffer DEF Calculations
    <3>. QED
      BY <1>4, <3>3, Fields
  <2>3. Instead(c, j) = <<c[j]>>
    BY <2>2 DEF Instead
  <2>4. Len(Instead(c, j)) = 1 /\ Instead(c, j)[1] = c[j]
    BY <2>3
  <2>5. opos(c, j) \in Nat
    BY <2>1, VisitedPlaces
  <2>6. r = opos(c, j) /\ r - opos(c, j) + 1 = 1
    <3>1. r - opos(c, j) + 1 \in 1 .. 1 /\ r \in Int
      BY <2>1, <2>4
    <3>. QED
      BY <2>5, <3>1
  <2>7. c[j] = Label(x)
    BY <1>4, <2>1, <2>4, <2>6, Zenon
  <2>8. j = i
    <3>1. c[j].kind = "label" /\ c[j] = c[i]
      BY <2>7, Fields
    <3>. QED
      BY <1>1, <3>1 DEF Sound
  <2>. QED
    BY <2>6, <2>8
<1>. HIDE DEF O, p
<1>5. LabelAt(O, x) = p
  BY <1>3, <1>4, LabelFound
<1>. QED
  BY <1>3, <1>5 DEF O, p

\* They still can when their loops are replaced.
LEMMA ReplacedRuns ==
    ASSUME NEW c, Sound(c)
    PROVE  Runnable(apply_loop_optimizations(c))
<1>. DEFINE O == apply_loop_optimizations(c)
<1>1. O \in Seq(Assembly)
  <2>1. c # <<>>
    BY DEF Sound
  <2>2. Visited(c, 1)
    BY <2>1, FirstVisited
  <2>. QED
    BY <2>2, VisitedPlaces, Zenon
<1>2. ASSUME NEW q \in 1 .. Len(O) PROVE RunnableLine(O, O[q])
  <2>1. PICK i \in 1 .. Len(c) :
            /\ Visited(c, i) /\ q - opos(c, i) + 1 \in 1 .. Len(Instead(c, i))
            /\ O[q] = Instead(c, i)[q - opos(c, i) + 1]
    BY ReplacedLineOf, Zenon
  <2>2. CASE Replaces(c, i)
    <3>1. Instead(c, i) \in Seq(Calculations)
      BY <2>2, InsteadType
    <3>2. O[q] \in Calculations
      BY <2>1, <3>1
    <3>. QED
      BY <3>2 DEF Calculations, Calculating, RunnableLine
  <2>3. CASE ~ Replaces(c, i)
    <3>1. Instead(c, i) = <<c[i]>>
      BY <2>3 DEF Instead
    <3>2. O[q] = c[i]
      <4>1. q - opos(c, i) + 1 \in 1 .. 1
        BY <2>1, <3>1
      <4>2. q - opos(c, i) + 1 = 1
        BY <4>1
      <4>. QED
        BY <2>1, <3>1, <4>2
    <3>. HIDE DEF O
    <3>3. ASSUME NEW id \in Nat
          PROVE  /\ c[i] = Je(close_par(id)) => HasLabel(O, close_par(id))
                 /\ c[i] = Jne(start_par(id)) => HasLabel(O, start_par(id))
      <4>1. ASSUME c[i] = Je(close_par(id)) PROVE HasLabel(O, close_par(id))
        <5>1. Opens(c, i - 2, id) /\ i - 2 \in 1 .. Len(c)
          BY <4>1 DEF Sound, Opens
        <5>2. PICK r : Closes(c, r, id)
          BY <5>1 DEF Sound
        <5>3. i = (i - 2) + 2
          BY <5>1
        <5>4. Visited(c, r) /\ ~ Replaces(c, r)
          BY <2>1, <2>3, <5>1, <5>2, <5>3, BracketsTogether
        <5>5. c[r] = Label(close_par(id))
          BY <5>2 DEF Closes
        <5>. QED
          BY <5>4, <5>5, CopiedLabel DEF HasLabel, O
      <4>2. ASSUME c[i] = Jne(start_par(id)) PROVE HasLabel(O, start_par(id))
        <5>1. Closes(c, i - 2, id) /\ i - 2 \in 1 .. Len(c)
          BY <4>2 DEF Sound, Closes
        <5>2. PICK r : Opens(c, r, id)
          BY <5>1 DEF Sound
        <5>3. i = (i - 2) + 2
          BY <5>1
        <5>4. Visited(c, r) /\ ~ Replaces(c, r)
          BY <2>1, <2>3, <5>1, <5>2, <5>3, BracketsTogether
        <5>5. c[r] = Label(start_par(id))
          BY <5>2 DEF Opens
        <5>. QED
          BY <5>4, <5>5, CopiedLabel DEF HasLabel, O
      <4>. QED
        BY <4>1, <4>2
    <3>4. RunnableLine(O, c[i])
      BY <3>3, SoundLineRuns
    <3>. QED
      BY <3>2, <3>4
  <2>. QED
    BY <2>2, <2>3
<1>. QED
  BY <1>1, <1>2 DEF Runnable

-----------------------------------------------------------------------------
(* The machine as a function of its state.                                    *)

Machines(c) == [line : 1 .. (Len(c) + 1), registers : [Registers -> MemCell],
                ram : Tape, zero : BOOLEAN]
Running(c) == {m \in Machines(c) : m.line =< Len(c) /\ ~ Stopping(c[m.line])}

ValueIn(m, x) ==
    CASE x.bracketed -> m.ram[m.registers[x.value]]
      [] x.shape = "register" /\ ~ x.bracketed -> m.registers[x.value]
      [] OTHER -> Cell(x.value)
Stored(m, x, v) ==
    [line |-> m.line + 1,
     registers |-> IF x.bracketed THEN m.registers ELSE [m.registers EXCEPT ![x.value] = v],
     ram |-> IF x.bracketed THEN [m.ram EXCEPT ![m.registers[x.value]] = v] ELSE m.ram,
     zero |-> m.zero]
Jumped(m, q) == [line |-> q, registers |-> m.registers, ram |-> m.ram, zero |-> m.zero]
Compared(m, z) == [line |-> m.line + 1, registers |-> m.registers, ram |-> m.ram, zero |-> z]

AfterLine(c, m) ==
    LET l == c[m.line]
        d == l.args[1]
        e == l.args[2]
        a == ValueIn(m, d)
        b == ValueIn(m, e)
    IN  CASE l.kind # "instruction" -> Jumped(m, m.line + 1)
          [] l.kind = "instruction" /\ l.what = 18 -> Stored(m, d, b)
          [] l.kind = "instruction" /\ l.what = 50 -> Stored(m, d, Cell(a + b))
          [] l.kind = "instruction" /\ l.what = 82 -> Stored(m, d, Cell(a - b))
          [] l.kind = "instruction" /\ l.what = 114 -> Stored(m, d, Cell(a * b))
          [] l.kind = "instruction" /\ l.what = 178 -> Compared(m, a = b)
          [] OTHER -> Jumped(m, IF m.zero = (l.what = 65) THEN LabelAt(c, d.value)
                                ELSE m.line + 1)

\* What each line does.
LEMMA LineDoes ==
    ASSUME NEW c, NEW m
    PROVE  LET l == c[m.line]
           IN  /\ l.kind # "instruction" => AfterLine(c, m) = Jumped(m, m.line + 1)
               /\ \A d, e : /\ l = Mov(d, e) => AfterLine(c, m) = Stored(m, d, ValueIn(m, e))
                            /\ l = Add(d, e) =>
                                  AfterLine(c, m) = Stored(m, d, Cell(ValueIn(m, d) + ValueIn(m, e)))
                            /\ l = Sub(d, e) =>
                                  AfterLine(c, m) = Stored(m, d, Cell(ValueIn(m, d) - ValueIn(m, e)))
                            /\ l = Mul(d, e) =>
                                  AfterLine(c, m) = Stored(m, d, Cell(ValueIn(m, d) * ValueIn(m, e)))
               /\ l = Test => AfterLine(c, m) = Compared(m, ValueIn(m, AtA) = ValueIn(m, Number(0)))
               /\ \A x : /\ l = Je(x) =>
                                AfterLine(c, m) = Jumped(m, IF m.zero = TRUE THEN LabelAt(c, x)
                                                            ELSE m.line + 1)
                         /\ l = Jne(x) =>
                                AfterLine(c, m) = Jumped(m, IF m.zero = FALSE THEN LabelAt(c, x)
                                                            ELSE m.line + 1)
<1>. DEFINE l == c[m.line]
<1>1. ASSUME l.kind # "instruction" PROVE AfterLine(c, m) = Jumped(m, m.line + 1)
  BY <1>1 DEF AfterLine
<1>2. ASSUME NEW d, NEW e
      PROVE  /\ l = Mov(d, e) => AfterLine(c, m) = Stored(m, d, ValueIn(m, e))
             /\ l = Add(d, e) =>
                   AfterLine(c, m) = Stored(m, d, Cell(ValueIn(m, d) + ValueIn(m, e)))
             /\ l = Sub(d, e) =>
                   AfterLine(c, m) = Stored(m, d, Cell(ValueIn(m, d) - ValueIn(m, e)))
             /\ l = Mul(d, e) =>
                   AfterLine(c, m) = Stored(m, d, Cell(ValueIn(m, d) * ValueIn(m, e)))
  BY Fields, ArgumentFields DEF AfterLine
<1>3. ASSUME l = Test
      PROVE  AfterLine(c, m) = Compared(m, ValueIn(m, AtA) = ValueIn(m, Number(0)))
  BY <1>3, Fields, ArgumentFields DEF AfterLine
<1>4. ASSUME NEW x
      PROVE  /\ l = Je(x) => AfterLine(c, m) = Jumped(m, IF m.zero = TRUE THEN LabelAt(c, x)
                                                         ELSE m.line + 1)
             /\ l = Jne(x) => AfterLine(c, m) = Jumped(m, IF m.zero = FALSE THEN LabelAt(c, x)
                                                          ELSE m.line + 1)
  <2>1. ASSUME l = Je(x)
        PROVE  AfterLine(c, m) = Jumped(m, IF m.zero = TRUE THEN LabelAt(c, x) ELSE m.line + 1)
    <3>1. l.kind = "instruction" /\ l.what = 65 /\ l.args[1].value = x
      BY <2>1, Fields, ArgumentFields
    <3>2. AfterLine(c, m) = Jumped(m, IF m.zero = (l.what = 65)
                                      THEN LabelAt(c, l.args[1].value) ELSE m.line + 1)
      BY <3>1 DEF AfterLine
    <3>3. (l.what = 65) = TRUE
      BY <3>1
    <3>. HIDE DEF l
    <3>. QED
      BY <3>1, <3>2, <3>3, Zenon
  <2>2. ASSUME l = Jne(x)
        PROVE  AfterLine(c, m) = Jumped(m, IF m.zero = FALSE THEN LabelAt(c, x) ELSE m.line + 1)
    <3>1. l.kind = "instruction" /\ l.what = 81 /\ l.args[1].value = x
      BY <2>2, Fields, ArgumentFields
    <3>2. AfterLine(c, m) = Jumped(m, IF m.zero = (l.what = 65)
                                      THEN LabelAt(c, l.args[1].value) ELSE m.line + 1)
      BY <3>1 DEF AfterLine
    <3>3. (l.what = 65) = FALSE
      BY <3>1
    <3>. HIDE DEF l
    <3>. QED
      BY <3>1, <3>2, <3>3, Zenon
  <2>. QED
    BY <2>1, <2>2, Zenon
<1>. QED
  BY <1>1, <1>2, <1>3, <1>4, Zenon

\* What an operand stands for, and what a result is stored in.
LEMMA OperandMeans ==
    ASSUME NEW m
    PROVE  /\ ValueIn(m, RegA) = m.registers[1] /\ ValueIn(m, RegB) = m.registers[2]
           /\ ValueIn(m, RegC) = m.registers[3] /\ ValueIn(m, AtA) = m.ram[m.registers[1]]
           /\ \A n : ValueIn(m, Number(n)) = Cell(n)
           /\ \A v : /\ Stored(m, RegA, v) =
                           [line |-> m.line + 1, registers |-> [m.registers EXCEPT ![1] = v],
                            ram |-> m.ram, zero |-> m.zero]
                     /\ Stored(m, RegB, v) =
                           [line |-> m.line + 1, registers |-> [m.registers EXCEPT ![2] = v],
                            ram |-> m.ram, zero |-> m.zero]
                     /\ Stored(m, RegC, v) =
                           [line |-> m.line + 1, registers |-> [m.registers EXCEPT ![3] = v],
                            ram |-> m.ram, zero |-> m.zero]
                     /\ Stored(m, AtA, v) =
                           [line |-> m.line + 1, registers |-> m.registers,
                            ram |-> [m.ram EXCEPT ![m.registers[1]] = v], zero |-> m.zero]
BY DEF ValueIn, Stored, RegA, RegB, RegC, AtA, Number, Plain, InBrackets

\* An operand that can be read has the value of a cell.
LEMMA ValueType ==
    ASSUME NEW c, NEW m \in Machines(c), NEW e \in SourceOperands
    PROVE  ValueIn(m, e) \in MemCell
<1>1. m.registers \in [Registers -> MemCell] /\ m.ram \in Tape /\ 1 \in Registers
      /\ 2 \in Registers /\ 3 \in Registers
  BY DEF Machines, Registers
<1>2. \A r \in Registers : m.registers[r] \in MemCell
  BY <1>1
<1>3. m.ram[m.registers[1]] \in MemCell
  BY <1>1, <1>2 DEF Tape
<1>4. CASE e \in Operands
  BY <1>1, <1>2, <1>3, <1>4, OperandMeans DEF Operands
<1>5. CASE e \notin Operands
  <2>1. PICK n \in Int : e = Number(n)
    BY <1>5 DEF SourceOperands
  <2>2. ValueIn(m, e) = Cell(n)
    BY <2>1, OperandMeans, Zenon
  <2>. QED
    BY <2>2, CellIsMemCell
<1>. QED
  BY <1>4, <1>5

\* Storing it leaves the machine in one of its states.
LEMMA StoredType ==
    ASSUME NEW c, NEW m \in Machines(c), m.line =< Len(c), Len(c) \in Nat,
           NEW d \in Operands, NEW v \in MemCell
    PROVE  Stored(m, d, v) \in Machines(c)
<1>1. m.registers \in [Registers -> MemCell] /\ m.ram \in Tape /\ 1 \in Registers
      /\ m.registers[1] \in MemCell
      /\ 2 \in Registers /\ 3 \in Registers /\ m.line + 1 \in 1 .. (Len(c) + 1)
      /\ m.zero \in BOOLEAN
  BY DEF Machines, Registers
<1>2. \A r \in Registers : [m.registers EXCEPT ![r] = v] \in [Registers -> MemCell]
  BY <1>1
<1>3. [m.ram EXCEPT ![m.registers[1]] = v] \in Tape
  BY <1>1 DEF Tape
<1>4. CASE d = RegA
  BY <1>1, <1>2, <1>4, OperandMeans DEF Machines
<1>5. CASE d = RegB
  BY <1>1, <1>2, <1>5, OperandMeans DEF Machines
<1>6. CASE d = RegC
  BY <1>1, <1>2, <1>6, OperandMeans DEF Machines
<1>7. CASE d = AtA
  BY <1>1, <1>3, <1>7, OperandMeans DEF Machines
<1>. QED
  BY <1>4, <1>5, <1>6, <1>7 DEF Operands

\* A line of runnable code leads from a state of the machine to another.
LEMMA LineKeepsMachine ==
    ASSUME NEW c, Runnable(c), NEW m \in Running(c)
    PROVE  AfterLine(c, m) \in Machines(c)
<1>. DEFINE l == c[m.line]
<1>1. /\ m \in Machines(c) /\ m.line \in 1 .. Len(c) /\ Len(c) \in Nat
      /\ RunnableLine(c, l) /\ ~ Stopping(l)
  BY LenProperties DEF Running, Machines, Runnable
<1>2. m.line + 1 \in 1 .. (Len(c) + 1) /\ \A q \in 1 .. Len(c) : q \in 1 .. (Len(c) + 1)
  BY <1>1
<1>3. \A q \in 1 .. (Len(c) + 1) : Jumped(m, q) \in Machines(c)
  BY <1>1 DEF Jumped, Machines
<1>4. CASE l.kind # "instruction"
  BY <1>2, <1>3, <1>4, LineDoes, Zenon
<1>5. CASE Calculating(l)
  <2>1. PICK d \in Operands, e \in SourceOperands : Calculates(l, d, e)
    BY <1>5 DEF Calculating
  <2>. DEFINE a == ValueIn(m, d)
              b == ValueIn(m, e)
  <2>2. a \in MemCell /\ b \in MemCell
    BY <1>1, ValueType, NumbersAreSources
  <2>3. AfterLine(c, m) \in {Stored(m, d, b), Stored(m, d, Cell(a + b)),
                             Stored(m, d, Cell(a - b)), Stored(m, d, Cell(a * b))}
    <3>1. \/ l = Mov(d, e) /\ AfterLine(c, m) = Stored(m, d, b)
          \/ l = Add(d, e) /\ AfterLine(c, m) = Stored(m, d, Cell(a + b))
          \/ l = Sub(d, e) /\ AfterLine(c, m) = Stored(m, d, Cell(a - b))
          \/ l = Mul(d, e) /\ AfterLine(c, m) = Stored(m, d, Cell(a * b))
      <4>1. /\ l = Mov(d, e) => AfterLine(c, m) = Stored(m, d, b)
            /\ l = Add(d, e) => AfterLine(c, m) = Stored(m, d, Cell(a + b))
            /\ l = Sub(d, e) => AfterLine(c, m) = Stored(m, d, Cell(a - b))
            /\ l = Mul(d, e) => AfterLine(c, m) = Stored(m, d, Cell(a * b))
        BY LineDoes, Zenon
      <4>. HIDE DEF a, b, l
      <4>. QED
        BY <2>1, <4>1 DEF Calculates
    <3>. HIDE DEF a, b, l
    <3>. QED
      BY <3>1
  <2>. HIDE DEF a, b
  <2>4. Cell(a + b) \in MemCell /\ Cell(a - b) \in MemCell /\ Cell(a * b) \in MemCell
    <3>1. a \in Int /\ b \in Int
      BY <2>2, CellIsMemCell
    <3>2. a + b \in Int /\ a - b \in Int /\ a * b \in Int
      BY <3>1
    <3>. QED
      BY <3>2, CellIsMemCell
  <2>5. \A v \in MemCell : Stored(m, d, v) \in Machines(c)
    BY <1>1, StoredType
  <2>. QED
    BY <2>2, <2>3, <2>4, <2>5
<1>6. CASE l = Test
  <2>1. AfterLine(c, m) = Compared(m, ValueIn(m, AtA) = ValueIn(m, Number(0)))
    BY <1>6, LineDoes, Zenon
  <2>2. \A z \in BOOLEAN : Compared(m, z) \in Machines(c)
    BY <1>1, <1>2 DEF Compared, Machines
  <2>. QED
    BY <2>1, <2>2, Zenon
<1>7. CASE Jumping(c, l)
  <2>1. PICK x : (l = Je(x) \/ l = Jne(x)) /\ LabelAt(c, x) \in 1 .. Len(c)
    BY <1>7 DEF Jumping, HasLabel
  <2>2. AfterLine(c, m) = Jumped(m, LabelAt(c, x)) \/ AfterLine(c, m) = Jumped(m, m.line + 1)
    BY <2>1, LineDoes, Zenon
  <2>. QED
    BY <1>2, <1>3, <2>1, <2>2
<1>. QED
  BY <1>1, <1>4, <1>5, <1>6, <1>7 DEF RunnableLine

-----------------------------------------------------------------------------
(* The language as a function of its state, and both as the actions.          *)

Readers(text) == [at : 1 .. (Len(text) + 1), pointer : MemCell, cells : Tape]
thisOf(text, s) == IF s.at =< Len(text) THEN text[s.at] ELSE "end"
Reading(text) == {s \in Readers(text) : thisOf(text, s) \notin {".", ",", "end"}}

AfterCommand(text, s) ==
    LET c == thisOf(text, s)
        p == s.pointer
    IN  CASE c = ">" -> [at |-> s.at + 1, pointer |-> Cell(p + 1), cells |-> s.cells]
          [] c = "<" -> [at |-> s.at + 1, pointer |-> Cell(p + (-1)), cells |-> s.cells]
          [] c = "+" -> [at |-> s.at + 1, pointer |-> p,
                         cells |-> [s.cells EXCEPT ![p] = Cell(@ + 1)]]
          [] c = "-" -> [at |-> s.at + 1, pointer |-> p,
                         cells |-> [s.cells EXCEPT ![p] = Cell(@ + (-1))]]
          [] c = "[" -> [at |-> IF s.cells[p] = 0 THEN Closing(text, s.at) + 1 ELSE s.at + 1,
                         pointer |-> p, cells |-> s.cells]
          [] c = "]" -> [at |-> IF s.cells[p] # 0 THEN Opening(text, s.at) + 1 ELSE s.at + 1,
                         pointer |-> p, cells |-> s.cells]
          [] OTHER -> [at |-> s.at + 1, pointer |-> p, cells |-> s.cells]

\* A command leads from a state of the language to another.
LEMMA CommandKeepsReader ==
    ASSUME NEW text, Program(text), NEW s \in Reading(text)
    PROVE  AfterCommand(text, s) \in Readers(text)
<1>. DEFINE c == thisOf(text, s)
            p == s.pointer
<1>1. /\ s.at \in 1 .. Len(text) /\ Len(text) \in Nat /\ c = text[s.at] /\ c \in Chars
      /\ c \notin {".", ","} /\ p \in MemCell /\ s.cells \in Tape
  <2>1. s \in Readers(text) /\ c \notin {".", ",", "end"}
    BY DEF Reading
  <2>2. s.at =< Len(text) /\ c = text[s.at]
    BY <2>1 DEF thisOf
  <2>3. text \in Seq(Chars) /\ Len(text) \in Nat
    BY LenProperties DEF Program
  <2>4. s.at \in 1 .. (Len(text) + 1) /\ p \in MemCell /\ s.cells \in Tape
    BY <2>1 DEF Readers
  <2>5. s.at \in 1 .. Len(text)
    BY <2>2, <2>3, <2>4
  <2>6. text[s.at] \in Chars
    BY <2>3, <2>5
  <2>. QED
    BY <2>1, <2>2, <2>3, <2>4, <2>5, <2>6
<1>2. s.at + 1 \in 1 .. (Len(text) + 1)
  <2>1. s.at \in 1 .. Len(text) /\ Len(text) \in Nat
    BY <1>1
  <2>. QED
    BY <2>1
<1>3. p \in Int /\ s.cells[p] \in MemCell /\ s.cells[p] \in Int
  BY <1>1, CellIsMemCell DEF Tape
<1>4. /\ Cell(p + 1) \in MemCell /\ Cell(p + (-1)) \in MemCell
      /\ Cell(s.cells[p] + 1) \in MemCell /\ Cell(s.cells[p] + (-1)) \in MemCell
  <2>1. p + 1 \in Int /\ p + (-1) \in Int /\ s.cells[p] + 1 \in Int /\ s.cells[p] + (-1) \in Int
    BY <1>3
  <2>. QED
    BY <2>1, CellIsMemCell
<1>5. \A v \in MemCell : [s.cells EXCEPT ![p] = v] \in Tape
  BY <1>1 DEF Tape
<1>6. c = "[" => Closing(text, s.at) + 1 \in 1 .. (Len(text) + 1)
  <2>. HAVE c = "["
  <2>1. PICK j : Pair(text, s.at, j)
    BY <1>1, OpeningHasPair
  <2>2. Closing(text, s.at) = j /\ j \in (s.at + 1) .. Len(text)
    BY <2>1, PairMatches DEF Pair
  <2>. QED
    BY <1>1, <2>2
<1>7. c = "]" => Opening(text, s.at) + 1 \in 1 .. (Len(text) + 1)
  <2>. HAVE c = "]"
  <2>1. PICK i : Pair(text, i, s.at)
    BY <1>1, ClosingHasPair
  <2>2. Opening(text, s.at) = i /\ i \in 1 .. Len(text)
    BY <2>1, PairMatches, Zenon DEF Pair
  <2>. QED
    BY <1>1, <2>2
<1>. DEFINE n == AfterCommand(text, s)
<1>8. /\ c = ">" => n = [at |-> s.at + 1, pointer |-> Cell(p + 1), cells |-> s.cells]
      /\ c = "<" => n = [at |-> s.at + 1, pointer |-> Cell(p + (-1)), cells |-> s.cells]
      /\ c = "+" => n = [at |-> s.at + 1, pointer |-> p,
                         cells |-> [s.cells EXCEPT ![p] = Cell(s.cells[p] + 1)]]
      /\ c = "-" => n = [at |-> s.at + 1, pointer |-> p,
                         cells |-> [s.cells EXCEPT ![p] = Cell(s.cells[p] + (-1))]]
      /\ c = "[" => n = [at |-> IF s.cells[p] = 0 THEN Closing(text, s.at) + 1 ELSE s.at + 1,
                         pointer |-> p, cells |-> s.cells]
      /\ c = "]" => n = [at |-> IF s.cells[p] # 0 THEN Opening(text, s.at) + 1 ELSE s.at + 1,
                         pointer |-> p, cells |-> s.cells]
      /\ c = "#" => n = [at |-> s.at + 1, pointer |-> p, cells |-> s.cells]
  BY DEF AfterCommand
<1>. HIDE DEF n, c, p
<1>9. /\ [s.cells EXCEPT ![p] = Cell(s.cells[p] + 1)] \in Tape
      /\ [s.cells EXCEPT ![p] = Cell(s.cells[p] + (-1))] \in Tape
  BY <1>4, <1>5
<1>10. \A a, q, t : a \in 1 .. (Len(text) + 1) /\ q \in MemCell /\ t \in Tape =>
          [at |-> a, pointer |-> q, cells |-> t] \in Readers(text)
  BY DEF Readers
<1>11. c \in {">", "<", "+", "-", "[", "]", "#"}
  BY <1>1 DEF Chars
<1>12. p \in MemCell /\ s.cells \in Tape
  BY <1>1
<1>13. c \in {">", "<", "+", "-", "#"} => n \in Readers(text)
  BY <1>2, <1>4, <1>8, <1>9, <1>10, <1>12
<1>14. c = "[" => n \in Readers(text)
  <2>. DEFINE a == IF s.cells[p] = 0 THEN Closing(text, s.at) + 1 ELSE s.at + 1
  <2>1. c = "[" => a \in 1 .. (Len(text) + 1)
    BY <1>2, <1>6
  <2>2. c = "[" => n = [at |-> a, pointer |-> p, cells |-> s.cells]
    BY <1>8
  <2>. HIDE DEF a
  <2>. QED
    BY <1>10, <1>12, <2>1, <2>2
<1>15. c = "]" => n \in Readers(text)
  <2>. DEFINE a == IF s.cells[p] # 0 THEN Opening(text, s.at) + 1 ELSE s.at + 1
  <2>1. c = "]" => a \in 1 .. (Len(text) + 1)
    BY <1>2, <1>7
  <2>2. c = "]" => n = [at |-> a, pointer |-> p, cells |-> s.cells]
    BY <1>8
  <2>. HIDE DEF a
  <2>. QED
    BY <1>10, <1>12, <2>1, <2>2
<1>. QED
  BY <1>11, <1>13, <1>14, <1>15 DEF n

reader == [at |-> at, pointer |-> pointer, cells |-> cells]
runner == [line |-> line, registers |-> registers, ram |-> ram, zero |-> zero]

\* The commands of BrainfuckLanguage are AfterCommand.
LEMMA CommandIsFunction ==
    ASSUME reader \in Readers(chars), Command
    PROVE  reader \in Reading(chars) /\ reader' = AfterCommand(chars, reader) /\ chars' = chars
<1>. DEFINE c == thisOf(chars, reader)
<1>1. c = this
  BY DEF thisOf, reader, this
<1>2. cells \in Tape /\ pointer \in MemCell
  BY DEF reader, Readers
<1>3. reader' = [at |-> at', pointer |-> pointer', cells |-> cells']
  BY DEF reader
<1>4. reader.at = at /\ reader.pointer = pointer /\ reader.cells = cells
  BY DEF reader
<1>. HIDE DEF c
<1>5. \A d \in {">", "<", "+", "-", "[", "]", "#"} : c = d => reader \in Reading(chars)
  BY DEF Reading, c
<1>6. ASSUME NEW d, NEW n, <<d, n>> \in {<<">", 1>>, <<"<", -1>>}, Move(d, n)
      PROVE  reader \in Reading(chars) /\ reader' = AfterCommand(chars, reader) /\ chars' = chars
  <2>1. /\ c = d /\ at' = at + 1 /\ chars' = chars /\ pointer' = Cell(pointer + n)
        /\ cells' = cells
    BY <1>1, <1>6 DEF Move, Go
  <2>. QED
    BY <1>3, <1>4, <1>5, <1>6, <2>1 DEF AfterCommand, c
<1>7. ASSUME NEW d, NEW n, <<d, n>> \in {<<"+", 1>>, <<"-", -1>>}, Change(d, n)
      PROVE  reader \in Reading(chars) /\ reader' = AfterCommand(chars, reader) /\ chars' = chars
  <2>1. /\ c = d /\ at' = at + 1 /\ chars' = chars /\ pointer' = pointer
        /\ cells' = [cells EXCEPT ![pointer] = Cell(@ + n)]
    BY <1>1, <1>7 DEF Change, Go
  <2>. QED
    BY <1>3, <1>4, <1>5, <1>7, <2>1 DEF AfterCommand, c
<1>8. ASSUME Loop
      PROVE  reader \in Reading(chars) /\ reader' = AfterCommand(chars, reader) /\ chars' = chars
  <2>1. /\ c = "[" /\ chars' = chars /\ pointer' = pointer /\ cells' = cells
        /\ at' = IF cells[pointer] = 0 THEN Closing(chars, at) + 1 ELSE at + 1
    BY <1>1, <1>8 DEF Loop, Go
  <2>. QED
    BY <1>3, <1>4, <1>5, <2>1 DEF AfterCommand, c
<1>9. ASSUME Repeat
      PROVE  reader \in Reading(chars) /\ reader' = AfterCommand(chars, reader) /\ chars' = chars
  <2>1. /\ c = "]" /\ chars' = chars /\ pointer' = pointer /\ cells' = cells
        /\ at' = IF cells[pointer] # 0 THEN Opening(chars, at) + 1 ELSE at + 1
    BY <1>1, <1>9 DEF Repeat, Go
  <2>. QED
    BY <1>3, <1>4, <1>5, <2>1 DEF AfterCommand, c
<1>10. ASSUME Remark
       PROVE  reader \in Reading(chars) /\ reader' = AfterCommand(chars, reader) /\ chars' = chars
  <2>1. /\ c = "#" /\ chars' = chars /\ pointer' = pointer /\ cells' = cells /\ at' = at + 1
    BY <1>1, <1>10 DEF Remark, Go
  <2>. QED
    BY <1>3, <1>4, <1>5, <2>1 DEF AfterCommand, c
<1>. QED
  BY <1>6, <1>7, <1>8, <1>9, <1>10 DEF Command

\* The instructions of BrainfvckRun are AfterLine.
LEMMA InstructionIsFunction ==
    ASSUME runner \in Machines(code), Runnable(code), Instructions
    PROVE  runner \in Running(code) /\ runner' = AfterLine(code, runner) /\ code' = code
<1>. DEFINE l == code[line]
<1>1. runner' = [line |-> line', registers |-> registers', ram |-> ram', zero |-> zero']
  BY DEF runner
<1>2. /\ runner.line = line /\ runner.registers = registers /\ runner.ram = ram
      /\ runner.zero = zero
  BY DEF runner
<1>3. line \in 1 .. (Len(code) + 1) /\ Len(code) \in Nat
  BY <1>2, LenProperties DEF Machines, Runnable
<1>4. \A x : ValueIn(runner, x) = Value(x)
  BY <1>2 DEF ValueIn, Value
<1>5. ASSUME NEW x, NEW v, Store(x, v), NextLine, UNCHANGED zero
      PROVE  runner' = Stored(runner, x, v)
  <2>1. CASE x.bracketed
    BY <1>1, <1>2, <1>5, <2>1 DEF Store, NextLine, Stored
  <2>2. CASE ~ x.bracketed
    BY <1>1, <1>2, <1>5, <2>2 DEF Store, NextLine, Stored
  <2>. QED
    BY <2>1, <2>2
<1>6. ASSUME line =< Len(code), ~ Stopping(l) PROVE runner \in Running(code)
  BY <1>2, <1>6 DEF Running
<1>. HIDE DEF runner
<1>7. ASSUME PassLine
      PROVE  runner \in Running(code) /\ runner' = AfterLine(code, runner) /\ code' = code
  <2>1. line =< Len(code) /\ l.kind # "instruction" /\ line' = line + 1 /\ code' = code
        /\ registers' = registers /\ ram' = ram /\ zero' = zero
    BY <1>7 DEF PassLine, NextLine
  <2>2. ~ Stopping(l)
    BY <2>1, Fields DEF Stopping
  <2>. QED
    BY <1>1, <1>2, <1>6, <2>1, <2>2 DEF AfterLine, Jumped
<1>8. ASSUME op # 0 PROVE line =< Len(code) /\ l.kind = "instruction" /\ l.what = op
  BY <1>8 DEF op, NOP
<1>9. ASSUME Calculate
      PROVE  runner \in Running(code) /\ runner' = AfterLine(code, runner) /\ code' = code
  <2>1. op \in {18, 50, 82, 114}
    BY <1>9 DEF Calculate, MOV, ADD, SUB, MUL
  <2>2. line =< Len(code) /\ l.kind = "instruction" /\ l.what = op
    BY <1>8, <2>1
  <2>3. ~ Stopping(l)
    BY <2>1, <2>2, Fields DEF Stopping
  <2>. DEFINE a == Value(dst)
              b == Value(src)
  <2>4. runner' = Stored(runner, dst, Compute(a, b)) /\ code' = code
    BY <1>5, <1>9 DEF Calculate, NextLine
  <2>5. AfterLine(code, runner) = Stored(runner, dst, Compute(a, b))
    <3>1. dst = l.args[1] /\ src = l.args[2]
      BY DEF dst, src
    <3>2. ValueIn(runner, l.args[1]) = a /\ ValueIn(runner, l.args[2]) = b
      BY <1>4, <3>1
    <3>. HIDE DEF a, b
    <3>3. CASE op = 18
      <4>1. Compute(a, b) = b
        BY <3>3 DEF Compute, MOV, ADD, SUB, MUL
      <4>. QED
        BY <1>2, <2>2, <3>1, <3>2, <3>3, <4>1 DEF AfterLine
    <3>4. CASE op = 50
      <4>1. Compute(a, b) = Cell(a + b)
        BY <3>4 DEF Compute, MOV, ADD, SUB, MUL
      <4>. QED
        BY <1>2, <2>2, <3>1, <3>2, <3>4, <4>1 DEF AfterLine
    <3>5. CASE op = 82
      <4>1. Compute(a, b) = Cell(a - b)
        BY <3>5 DEF Compute, MOV, ADD, SUB, MUL
      <4>. QED
        BY <1>2, <2>2, <3>1, <3>2, <3>5, <4>1 DEF AfterLine
    <3>6. CASE op = 114
      <4>1. Compute(a, b) = Cell(a * b)
        BY <3>6 DEF Compute, MOV, ADD, SUB, MUL
      <4>. QED
        BY <1>2, <2>2, <3>1, <3>2, <3>6, <4>1 DEF AfterLine
    <3>. QED
      BY <2>1, <3>3, <3>4, <3>5, <3>6
  <2>. QED
    BY <1>6, <2>2, <2>3, <2>4, <2>5
<1>10. ASSUME Compare
       PROVE  runner \in Running(code) /\ runner' = AfterLine(code, runner) /\ code' = code
  <2>1. op = 178
    BY <1>10 DEF Compare, CMP
  <2>2. line =< Len(code) /\ l.kind = "instruction" /\ l.what = 178
    BY <1>8, <2>1
  <2>3. ~ Stopping(l)
    BY <2>2, Fields DEF Stopping
  <2>4. /\ line' = line + 1 /\ code' = code /\ registers' = registers /\ ram' = ram
        /\ zero' = (ValueIn(runner, l.args[1]) = ValueIn(runner, l.args[2]))
    BY <1>4, <1>10 DEF Compare, NextLine, dst, src
  <2>5. AfterLine(code, runner) =
            Compared(runner, ValueIn(runner, l.args[1]) = ValueIn(runner, l.args[2]))
    BY <1>2, <2>2 DEF AfterLine
  <2>. QED
    BY <1>1, <1>2, <1>6, <2>2, <2>3, <2>4, <2>5 DEF Compared
<1>11. ASSUME Jump
       PROVE  runner \in Running(code) /\ runner' = AfterLine(code, runner) /\ code' = code
  <2>1. op \in {65, 81}
    BY <1>11 DEF Jump, JE, JNE
  <2>2. line =< Len(code) /\ l.kind = "instruction" /\ l.what = op
    BY <1>8, <2>1
  <2>3. ~ Stopping(l)
    BY <2>1, <2>2, Fields DEF Stopping
  <2>4. /\ code' = code /\ registers' = registers /\ ram' = ram /\ zero' = zero
        /\ line' = IF zero = (op = 65) THEN LabelAt(code, l.args[1].value) ELSE line + 1
    BY <1>11 DEF Jump, JE, dst, LabelAt
  <2>5. AfterLine(code, runner) =
            Jumped(runner, IF runner.zero = (l.what = 65) THEN LabelAt(code, l.args[1].value)
                           ELSE line + 1)
    BY <1>2, <2>1, <2>2 DEF AfterLine
  <2>. QED
    BY <1>1, <1>2, <1>6, <2>2, <2>3, <2>4, <2>5 DEF Jumped
<1>. QED
  BY <1>7, <1>9, <1>10, <1>11 DEF Instructions

\* The code waits at the lines that stop.
LEMMA WaitsAtStops ==
    ASSUME runner \in Machines(code), Runnable(code), Waits
    PROVE  /\ line \in 1 .. Len(code) /\ Stopping(code[line]) /\ runner \notin Running(code)
           /\ op = PRINT => code[line] = PrintLine
           /\ op = INPUT => code[line] = InputLine
           /\ op = HALT => code[line] = HaltLine
<1>. DEFINE l == code[line]
<1>1. op \in {1, 33, 255} /\ PRINT = 1 /\ INPUT = 33 /\ HALT = 255
  BY DEF Waits, PRINT, INPUT, HALT
<1>2. line =< Len(code) /\ l.kind = "instruction" /\ l.what = op
  BY <1>1 DEF op, NOP
<1>3. line \in 1 .. Len(code) /\ runner.line = line
  <2>1. runner.line = line
    BY DEF runner
  <2>2. line \in 1 .. (Len(code) + 1) /\ Len(code) \in Nat
    BY <2>1, LenProperties DEF Machines, Runnable
  <2>. QED
    BY <1>2, <2>1, <2>2
<1>4. RunnableLine(code, l)
  BY <1>3 DEF Runnable
<1>. HIDE DEF l
<1>5. ~ Calculating(l)
  BY <1>1, <1>2, KindsDiffer DEF Calculating
<1>6. l # Test /\ ~ Jumping(code, l)
  BY <1>1, <1>2, Fields DEF Jumping
<1>7. Stopping(l)
  BY <1>2, <1>4, <1>5, <1>6 DEF RunnableLine
<1>8. /\ op = 1 => l = PrintLine
      /\ op = 33 => l = InputLine
      /\ op = 255 => l = HaltLine
  BY <1>2, <1>7, Fields DEF Stopping
<1>9. runner \notin Running(code)
  BY <1>3, <1>7 DEF Running, l
<1>. QED
  BY <1>1, <1>3, <1>7, <1>8, <1>9 DEF l

-----------------------------------------------------------------------------
(* Type correctness.                                                          *)

\* What compile makes of a program can be run.
LEMMA CompiledRuns ==
    ASSUME NEW text, Program(text)
    PROVE  Runnable(compile(text))
<1>1. Sound(Folds(text)) /\ compile(text) = apply_loop_optimizations(Folds(text))
  BY CompiledProgram
<1>. QED
  BY <1>1, ReplacedRuns

\* TypeOK is that both are in one of their states.
StatesOK == /\ reader \in Readers(chars) /\ runner \in Machines(code)
            /\ turn \in {"language", "machine"}

\* The type invariant says that both sides are in one of their states.
LEMMA TypesAreStates == Compiled => (TypeOK <=> StatesOK)
<1>1. reader \in Readers(chars) <=> /\ at \in 1 .. (Len(chars) + 1) /\ pointer \in MemCell
                                    /\ cells \in [MemCell -> MemCell]
  BY DEF reader, Readers, Tape
<1>2. runner \in Machines(code) <=> /\ line \in 1 .. (Len(code) + 1)
                                    /\ registers \in [Registers -> MemCell]
                                    /\ ram \in [MemCell -> MemCell] /\ zero \in BOOLEAN
  BY DEF runner, Machines, Tape
<1>. QED
  BY <1>1, <1>2 DEF TypeOK, StatesOK, Compiled

\* While the two run, the brackets match and every line is one the machine can run.
LEMMA StepsRun ==
    ASSUME Compiled, TypeOK, Next
    PROVE  Program(chars) /\ Runnable(code)
<1>1. chars \in Seq(Chars) /\ code = compile(chars)
  BY BrainfvckAssumption DEF Compiled, Chars
<1>2. Balanced(chars)
  <2>. SUFFICES ASSUME ~ Balanced(chars) PROVE FALSE
    OBVIOUS
  <2>1. code = <<>>
    BY <1>1, CompileRejects
  <2>2. Len(code) = 0 /\ line \in 1 .. (0 + 1)
    BY <2>1 DEF TypeOK
  <2>3. ~ (line =< Len(code)) /\ op = 0
    BY <2>2 DEF op, NOP
  <2>4. ~ Instructions
    BY <2>3 DEF Instructions, PassLine, Calculate, Compare, Jump, MOV, ADD, SUB, MUL, CMP, JE, JNE
  <2>. QED
    BY <2>1, <2>3, <2>4 DEF Next, LanguageStep, MachineStep, WriteBoth, ReadBoth, PRINT, INPUT
<1>. QED
  BY <1>1, <1>2, CompiledRuns DEF Program

\* What both do when they write or read.
LEMMA WritesAsFunction ==
    ASSUME Program(chars), Runnable(code), reader \in Readers(chars),
           runner \in Machines(code), WriteBoth
    PROVE  /\ thisOf(chars, reader) = "." /\ at \in 1 .. Len(chars) /\ chars' = chars
           /\ code' = code /\ turn' = turn
           /\ reader' = [at |-> at + 1, pointer |-> pointer, cells |-> cells]
           /\ line \in 1 .. Len(code) /\ code[line] = PrintLine /\ runner \notin Running(code)
           /\ runner' = Jumped(runner, line + 1)
<1>1. op = PRINT /\ this = "." /\ at' = at + 1 /\ chars' = chars /\ pointer' = pointer
      /\ cells' = cells /\ line' = line + 1 /\ code' = code /\ registers' = registers
      /\ ram' = ram /\ zero' = zero /\ turn' = turn
  BY DEF WriteBoth, Write, Go, NextLine
<1>2. line \in 1 .. Len(code) /\ code[line] = PrintLine /\ runner \notin Running(code)
  BY <1>1, WaitsAtStops DEF Waits
<1>3. at =< Len(chars) /\ thisOf(chars, reader) = "."
  BY <1>1 DEF this, thisOf, reader
<1>4. reader' = [at |-> at', pointer |-> pointer', cells |-> cells']
      /\ runner' = [line |-> line', registers |-> registers', ram |-> ram', zero |-> zero']
  BY DEF reader, runner
<1>5. at \in 1 .. (Len(chars) + 1) /\ Len(chars) \in Nat
  BY LenProperties DEF reader, Readers, Program
<1>6. at \in 1 .. Len(chars)
  BY <1>3, <1>5
<1>7. runner.registers = registers /\ runner.ram = ram /\ runner.zero = zero
  BY DEF runner
<1>. QED
  BY <1>1, <1>2, <1>3, <1>4, <1>6, <1>7 DEF Jumped

\* Reading together puts one value into both tapes.
LEMMA ReadsAsFunction ==
    ASSUME Program(chars), Runnable(code), reader \in Readers(chars), runner \in Machines(code),
           NEW v \in MemCell, ReadBoth(v)
    PROVE  /\ thisOf(chars, reader) = "," /\ at \in 1 .. Len(chars) /\ chars' = chars
           /\ code' = code /\ turn' = turn
           /\ reader' = [at |-> at + 1, pointer |-> pointer,
                         cells |-> [cells EXCEPT ![pointer] = v]]
           /\ line \in 1 .. Len(code) /\ code[line] = InputLine /\ runner \notin Running(code)
           /\ runner' = Stored(runner, AtA, v)
<1>1. op = INPUT /\ this = "," /\ at' = at + 1 /\ chars' = chars /\ pointer' = pointer
      /\ cells' = [cells EXCEPT ![pointer] = v] /\ line' = line + 1 /\ code' = code
      /\ Store(dst, v) /\ zero' = zero /\ turn' = turn
  BY DEF ReadBoth, Read, Go, NextLine
<1>2. line \in 1 .. Len(code) /\ code[line] = InputLine /\ runner \notin Running(code)
  BY <1>1, WaitsAtStops DEF Waits
<1>3. at =< Len(chars) /\ thisOf(chars, reader) = ","
  BY <1>1 DEF this, thisOf, reader
<1>4. reader' = [at |-> at', pointer |-> pointer', cells |-> cells']
      /\ runner' = [line |-> line', registers |-> registers', ram |-> ram', zero |-> zero']
  BY DEF reader, runner
<1>5. at \in 1 .. (Len(chars) + 1) /\ Len(chars) \in Nat
  BY LenProperties DEF reader, Readers, Program
<1>6. at \in 1 .. Len(chars)
  <2>. DEFINE n == Len(chars)
  <2>1. at \in 1 .. (n + 1) /\ n \in Nat /\ at =< n
    BY <1>3, <1>5
  <2>. HIDE DEF n
  <2>2. at \in 1 .. n
    BY <2>1
  <2>. QED
    BY <2>2 DEF n
<1>7. runner.registers = registers /\ runner.ram = ram /\ runner.zero = zero /\ runner.line = line
  BY DEF runner
<1>8. dst = AtA
  BY <1>2, ArgumentFields DEF dst
<1>9. AtA.bracketed = TRUE /\ AtA.value = 1
  BY DEF AtA, InBrackets
<1>10. ram' = [ram EXCEPT ![registers[1]] = v] /\ registers' = registers
  BY <1>1, <1>8, <1>9 DEF Store
<1>11. runner' = Stored(runner, AtA, v)
  BY <1>1, <1>4, <1>7, <1>10, OperandMeans
<1>. QED
  BY <1>1, <1>2, <1>3, <1>4, <1>6, <1>11

\* The invariant: the code is the program's, and both are in one of their states.
LEMMA StartsTyped == Init => TypeOK
<1>. SUFFICES ASSUME Init PROVE TypeOK
  OBVIOUS
<1>1. chars \in Sources /\ at = 1 /\ pointer = 2 /\ cells = FirstCells /\ line = 1
      /\ code = compile(chars) /\ registers = [r \in Registers |-> 0] /\ ram = FirstCells
      /\ zero = FALSE /\ turn = "language"
  BY DEF Init
<1>2. Len(chars) \in Nat /\ Len(code) \in Nat
  <2>1. chars \in Seq(Chars)
    BY <1>1, BrainfvckAssumption DEF Chars
  <2>2. Len(code) \in Nat
    <3>1. CASE Balanced(chars)
      <4>1. code \in Seq(Assembly)
        BY <1>1, <2>1, <3>1, CompiledProgram DEF Program
      <4>. QED
        BY <4>1, LenProperties
    <3>2. CASE ~ Balanced(chars)
      <4>1. code = <<>>
        BY <1>1, <2>1, <3>2, CompileRejects
      <4>. QED
        BY <4>1
    <3>. QED
      BY <3>1, <3>2
  <2>. QED
    BY <2>1, <2>2, LenProperties
<1>3. 0 \in MemCell /\ 2 \in MemCell
  <2>1. CellRange > 2 /\ CellRange \in Nat
    BY CellRangeAssumption, BrainfvckAssumption
  <2>. QED
    BY <2>1 DEF MemCell
<1>4. FirstCells \in [MemCell -> MemCell]
  <2>1. ASSUME NEW c \in MemCell
        PROVE  (IF c < 2 THEN Header[c + 1] ELSE 0) \in MemCell
    <3>1. c < 2 => c + 1 \in {1, 2}
      BY CellRangeAssumption DEF MemCell
    <3>. QED
      BY <1>3, <3>1, BrainfvckAssumption
  <2>. QED
    BY <2>1 DEF FirstCells
<1>5. at \in 1 .. (Len(chars) + 1) /\ line \in 1 .. (Len(code) + 1)
  BY <1>1, <1>2
<1>6. registers \in [Registers -> MemCell]
  BY <1>1, <1>3
<1>. QED
  BY <1>1, <1>3, <1>4, <1>5, <1>6, Zenon DEF TypeOK

\* Every step keeps the types.
LEMMA StaysTyped ==
    ASSUME Compiled, Compiled', TypeOK, Next
    PROVE  TypeOK'
<1>1. reader \in Readers(chars) /\ runner \in Machines(code) /\ turn \in {"language", "machine"}
  BY TypesAreStates DEF StatesOK
<1>2. Program(chars) /\ Runnable(code) /\ Len(code) \in Nat /\ Len(chars) \in Nat
  BY StepsRun, LenProperties DEF Runnable, Program
<1>3. SUFFICES /\ reader' \in Readers(chars') /\ runner' \in Machines(code')
               /\ turn' \in {"language", "machine"}
  <2>1. (Compiled => (TypeOK <=> StatesOK))'
    BY TypesAreStates, PTL
  <2>. QED
    BY <2>1 DEF StatesOK
<1>4. CASE LanguageStep
  <2>1. Command /\ turn' = "machine" /\ UNCHANGED machine
    BY <1>4 DEF LanguageStep
  <2>2. reader' \in Readers(chars) /\ chars' = chars
    BY <1>1, <1>2, <2>1, CommandIsFunction, CommandKeepsReader
  <2>3. runner' = runner /\ code' = code
    BY <2>1 DEF machine, runner
  <2>. QED
    BY <1>1, <2>1, <2>2, <2>3
<1>5. CASE MachineStep
  <2>1. Instructions /\ turn' = "language" /\ UNCHANGED language
    BY <1>5 DEF MachineStep
  <2>2. runner' \in Machines(code) /\ code' = code
    BY <1>1, <1>2, <2>1, InstructionIsFunction, LineKeepsMachine
  <2>3. reader' = reader /\ chars' = chars
    BY <2>1 DEF language, reader
  <2>. QED
    BY <1>1, <2>1, <2>2, <2>3
<1>6. CASE WriteBoth
  <2>1. /\ at \in 1 .. Len(chars) /\ chars' = chars /\ code' = code /\ turn' = turn
        /\ reader' = [at |-> at + 1, pointer |-> pointer, cells |-> cells]
        /\ line \in 1 .. Len(code) /\ runner' = Jumped(runner, line + 1)
    BY <1>1, <1>2, <1>6, WritesAsFunction
  <2>2. at + 1 \in 1 .. (Len(chars) + 1) /\ line + 1 \in 1 .. (Len(code) + 1)
    BY <1>2, <2>1
  <2>3. reader' \in Readers(chars)
    BY <1>1, <2>1, <2>2 DEF Readers, reader
  <2>4. runner' \in Machines(code)
    BY <1>1, <2>1, <2>2 DEF Machines, Jumped
  <2>. QED
    BY <1>1, <2>1, <2>3, <2>4
<1>7. ASSUME NEW v \in MemCell, ReadBoth(v)
      PROVE  /\ reader' \in Readers(chars') /\ runner' \in Machines(code')
             /\ turn' \in {"language", "machine"}
  <2>1. /\ at \in 1 .. Len(chars) /\ chars' = chars /\ code' = code /\ turn' = turn
        /\ reader' = [at |-> at + 1, pointer |-> pointer,
                      cells |-> [cells EXCEPT ![pointer] = v]]
        /\ line \in 1 .. Len(code) /\ runner' = Stored(runner, AtA, v)
    BY <1>1, <1>2, <1>7, ReadsAsFunction
  <2>2. at + 1 \in 1 .. (Len(chars) + 1)
    BY <1>2, <2>1
  <2>3. cells \in Tape /\ pointer \in MemCell
    BY <1>1 DEF Readers, reader
  <2>4. [cells EXCEPT ![pointer] = v] \in Tape
    BY <2>3 DEF Tape
  <2>5. reader' \in Readers(chars)
    BY <2>1, <2>2, <2>3, <2>4 DEF Readers
  <2>6. runner' \in Machines(code)
    <3>1. runner.line =< Len(code) /\ AtA \in Operands
      BY <1>2, <2>1, NumbersAreSources DEF runner
    <3>. QED
      BY <1>1, <1>2, <2>1, <3>1, StoredType
  <2>. QED
    BY <1>1, <2>1, <2>5, <2>6
<1>. QED
  BY <1>4, <1>5, <1>6, <1>7 DEF Next

\* The program's pointer and cells stay cells, and the code never jumps to a label that
\* is not there nor beyond its end: replacing a loop (Brainfvck.cpp:243-284) takes its
\* labels away only together with every jump to them.
THEOREM BrainfvckTypeCorrect == Spec => []TypeOK
<1>1. Compiled /\ TypeOK /\ [Next]_vars /\ Compiled' => TypeOK'
  <2>1. CASE Next
    BY <2>1, StaysTyped
  <2>2. CASE UNCHANGED vars
    BY <2>2 DEF vars, language, machine, TypeOK
  <2>. QED
    BY <2>1, <2>2
<1>. QED
  BY <1>1, StartsTyped, StaysCompiled, PTL DEF Spec

-----------------------------------------------------------------------------
(* Where a function leads, step by step, and one that follows another.        *)

-----------------------------------------------------------------------------
(* Runs of the machine.                                                       *)

ReadingOn(text) == [s \in Reading(text) |-> AfterCommand(text, s)]
RunningOn(c) == [m \in Running(c) |-> AfterLine(c, m)]

\* The states the machine comes to from m.
Runs(c, m) == Way(Machines(c), Running(c), RunningOn(c), m)

State(q, rs, mem, z) == [line |-> q, registers |-> rs, ram |-> mem, zero |-> z]

\* A step of the machine is a function on its states.
LEMMA MachineFunction ==
    ASSUME NEW c, Runnable(c)
    PROVE  Running(c) \in SUBSET Machines(c) /\ RunningOn(c) \in [Running(c) -> Machines(c)]
BY LineKeepsMachine DEF Running, RunningOn

\* So is a step of the program.
LEMMA ReaderFunction ==
    ASSUME NEW text, Program(text)
    PROVE  /\ Reading(text) \in SUBSET Readers(text)
           /\ ReadingOn(text) \in [Reading(text) -> Readers(text)]
BY CommandKeepsReader DEF Reading, ReadingOn

\* A run begins where it is and goes on line by line.
LEMMA RunBegins ==
    ASSUME NEW c, Runnable(c), NEW m \in Machines(c)
    PROVE  m \in Runs(c, m) /\ Runs(c, m) \subseteq Machines(c)
BY MachineFunction, WayGoesOn DEF Runs

\* A line that does not stop leads on.
LEMMA RunGoesOn ==
    ASSUME NEW c, Runnable(c), NEW m \in Machines(c), NEW x \in Runs(c, m),
           x.line \in 1 .. Len(c), ~ Stopping(c[x.line])
    PROVE  AfterLine(c, x) \in Runs(c, m)
<1>1. x \in Machines(c)
  BY RunBegins
<1>2. x \in Running(c) /\ RunningOn(c)[x] = AfterLine(c, x)
  <2>1. x.line =< Len(c)
    OBVIOUS
  <2>. QED
    BY <1>1, <2>1 DEF Running, RunningOn
<1>3. ClosedUnder(Runs(c, m), Running(c), RunningOn(c))
  BY MachineFunction, WayGoesOn DEF Runs
<1>. QED
  BY <1>2, <1>3 DEF ClosedUnder

\* What a state of the run comes to is in the run.
LEMMA RunOnward ==
    ASSUME NEW c, Runnable(c), NEW m \in Machines(c), NEW x \in Runs(c, m)
    PROVE  Runs(c, x) \subseteq Runs(c, m)
BY MachineFunction, WayOnward DEF Runs

\* What a run comes to later it also comes to from the state after the first.
LEMMA RunFirst ==
    ASSUME NEW c, Runnable(c), NEW m \in Machines(c), NEW x \in Runs(c, m), x # m
    PROVE  m \in Running(c) /\ x \in Way(Machines(c), Running(c), RunningOn(c), RunningOn(c)[m])
BY MachineFunction, WayFirst DEF Runs

\* A state is its four parts.
LEMMA StateOf ==
    ASSUME NEW c, NEW m \in Machines(c)
    PROVE  /\ m = State(m.line, m.registers, m.ram, m.zero)
           /\ m.line \in 1 .. (Len(c) + 1) /\ m.registers \in [Registers -> MemCell]
           /\ m.ram \in Tape /\ m.zero \in BOOLEAN
           /\ 1 \in Registers /\ 2 \in Registers /\ 3 \in Registers
           /\ m.registers[1] \in MemCell /\ m.ram[m.registers[1]] \in MemCell
<1>1. m.line \in 1 .. (Len(c) + 1) /\ m.registers \in [Registers -> MemCell]
      /\ m.ram \in Tape /\ m.zero \in BOOLEAN
      /\ m = State(m.line, m.registers, m.ram, m.zero)
  BY DEF Machines, State
<1>2. 1 \in Registers /\ 2 \in Registers /\ 3 \in Registers
  BY DEF Registers
<1>. QED
  BY <1>1, <1>2 DEF Tape

\* What each line makes of a state.
LEMMA LineSteps ==
    ASSUME NEW c, Runnable(c), NEW m \in Machines(c), NEW q \in 1 .. Len(c), NEW rs, NEW mem,
           NEW z, State(q, rs, mem, z) \in Runs(c, m)
    PROVE  LET l == c[q]
           IN  /\ l.kind # "instruction" => State(q + 1, rs, mem, z) \in Runs(c, m)
               /\ l = Test => State(q + 1, rs, mem, mem[rs[1]] = Cell(0)) \in Runs(c, m)
               /\ \A x : /\ l = Je(x) => State(IF z = TRUE THEN LabelAt(c, x) ELSE q + 1,
                                               rs, mem, z) \in Runs(c, m)
                         /\ l = Jne(x) => State(IF z = FALSE THEN LabelAt(c, x) ELSE q + 1,
                                                rs, mem, z) \in Runs(c, m)
<1>. DEFINE s == State(q, rs, mem, z)
            l == c[q]
<1>1. s.line = q /\ s.registers = rs /\ s.ram = mem /\ s.zero = z
  BY DEF State
<1>2. ~ Stopping(l) => AfterLine(c, s) \in Runs(c, m)
  BY <1>1, RunGoesOn
<1>3. /\ l.kind # "instruction" => AfterLine(c, s) = Jumped(s, q + 1)
      /\ l = Test => AfterLine(c, s) = Compared(s, ValueIn(s, AtA) = ValueIn(s, Number(0)))
      /\ \A x : /\ l = Je(x) => AfterLine(c, s) = Jumped(s, IF z = TRUE THEN LabelAt(c, x) ELSE q + 1)
                /\ l = Jne(x) => AfterLine(c, s) = Jumped(s, IF z = FALSE THEN LabelAt(c, x) ELSE q + 1)
  <2>. HIDE DEF s
  <2>1. /\ c[s.line].kind # "instruction" => AfterLine(c, s) = Jumped(s, s.line + 1)
        /\ c[s.line] = Test => AfterLine(c, s) = Compared(s, ValueIn(s, AtA) = ValueIn(s, Number(0)))
        /\ \A x : /\ c[s.line] = Je(x) =>
                         AfterLine(c, s) = Jumped(s, IF s.zero = TRUE THEN LabelAt(c, x) ELSE s.line + 1)
                  /\ c[s.line] = Jne(x) =>
                         AfterLine(c, s) = Jumped(s, IF s.zero = FALSE THEN LabelAt(c, x) ELSE s.line + 1)
    BY LineDoes, Zenon
  <2>. QED
    BY <1>1, <2>1, Zenon
<1>4. ValueIn(s, AtA) = mem[rs[1]] /\ ValueIn(s, Number(0)) = Cell(0)
  BY <1>1, OperandMeans
<1>5. \A p : Jumped(s, p) = State(p, rs, mem, z)
  BY <1>1 DEF Jumped, State
<1>6. \A b : Compared(s, b) = State(q + 1, rs, mem, b)
  BY <1>1 DEF Compared, State
<1>7. /\ l.kind # "instruction" => ~ Stopping(l)
      /\ l = Test => ~ Stopping(l)
      /\ \A x : (l = Je(x) \/ l = Jne(x)) => ~ Stopping(l)
  BY Fields DEF Stopping
<1>. HIDE DEF s, l
<1>8. l.kind # "instruction" => State(q + 1, rs, mem, z) \in Runs(c, m)
  BY <1>2, <1>3, <1>5, <1>7
<1>9. l = Test => State(q + 1, rs, mem, mem[rs[1]] = Cell(0)) \in Runs(c, m)
  BY <1>2, <1>3, <1>4, <1>6, <1>7
<1>10. ASSUME NEW x
       PROVE  /\ l = Je(x) => State(IF z = TRUE THEN LabelAt(c, x) ELSE q + 1, rs, mem, z) \in Runs(c, m)
              /\ l = Jne(x) => State(IF z = FALSE THEN LabelAt(c, x) ELSE q + 1, rs, mem, z) \in Runs(c, m)
  BY <1>2, <1>3, <1>5, <1>7, Zenon
<1>. QED
  BY <1>8, <1>9, <1>10, Zenon DEF l

\* A step moves the pointer or changes the cell it is at (Changed).
Moved(rs, n) == [rs EXCEPT ![1] = Cell(@ + n)]

\* What a step leaves are registers and a tape.
LEMMA ChangeTypes ==
    ASSUME NEW n \in Int
    PROVE  /\ \A rs \in [Registers -> MemCell] :
                 /\ Moved(rs, n) \in [Registers -> MemCell] /\ Moved(rs, n)[1] = Cell(rs[1] + n)
                 /\ rs[1] \in MemCell /\ rs[1] \in Int
           /\ \A mem \in Tape, p \in MemCell :
                 /\ Changed(mem, p, n) \in Tape /\ mem[p] \in MemCell /\ mem[p] \in Int
                 /\ \A a \in MemCell : Changed(mem, p, n)[a] = IF a = p THEN Cell(mem[a] + n)
                                                               ELSE mem[a]
<1>1. 1 \in Registers
  BY DEF Registers
<1>2. \A v \in MemCell : v \in Int /\ v + n \in Int /\ Cell(v + n) \in MemCell
  <2>1. ASSUME NEW v \in MemCell PROVE v \in Int /\ v + n \in Int
    BY CellIsMemCell
  <2>. QED
    BY <2>1, CellIsMemCell
<1>3. ASSUME NEW rs \in [Registers -> MemCell]
      PROVE  /\ Moved(rs, n) \in [Registers -> MemCell] /\ Moved(rs, n)[1] = Cell(rs[1] + n)
             /\ rs[1] \in MemCell /\ rs[1] \in Int
  <2>1. rs[1] \in MemCell /\ Cell(rs[1] + n) \in MemCell
    BY <1>1, <1>2
  <2>. QED
    BY <1>1, <1>2, <2>1 DEF Moved
<1>4. \A mem \in Tape, p \in MemCell :
         /\ Changed(mem, p, n) \in Tape /\ mem[p] \in MemCell /\ mem[p] \in Int
         /\ \A a \in MemCell : Changed(mem, p, n)[a] = IF a = p THEN Cell(mem[a] + n)
                                                       ELSE mem[a]
  BY TapeChanges
<1>. QED
  BY <1>3, <1>4

\* What a line that adds or subtracts a number makes of a state.
LEMMA StepLineSteps ==
    ASSUME NEW c, Runnable(c), NEW m \in Machines(c), NEW q \in 1 .. Len(c),
           NEW rs \in [Registers -> MemCell], NEW mem \in Tape, NEW z,
           State(q, rs, mem, z) \in Runs(c, m), NEW n \in Nat, StepBy(c[q], n)
    PROVE  /\ c[q].args[1] = RegA =>
                 State(q + 1, Moved(rs, Amount(c[q])), mem, z) \in Runs(c, m)
           /\ c[q].args[1] = AtA =>
                 State(q + 1, rs, Changed(mem, rs[1], Amount(c[q])), z) \in Runs(c, m)
<1>. DEFINE s == State(q, rs, mem, z)
            l == c[q]
            k == Amount(l)
<1>1. s.line = q /\ s.registers = rs /\ s.ram = mem /\ s.zero = z
  BY DEF State
<1>2. \E p \in Places : \/ l = Add(p, Number(n)) /\ k = n
                        \/ l = Sub(p, Number(n)) /\ k = -n
  BY AmountType
<1>3. ~ Stopping(l)
  <2>. HIDE DEF l, k
  <2>. QED
    BY <1>2, Fields DEF Stopping
<1>4. AfterLine(c, s) \in Runs(c, m)
  BY <1>1, <1>3, RunGoesOn
<1>5. rs[1] \in Int /\ mem[rs[1]] \in Int /\ k \in Int /\ rs[1] \in MemCell
  <2>1. rs[1] \in MemCell /\ rs[1] \in Int /\ k \in Int
    BY AmountType, ChangeTypes
  <2>. QED
    BY <2>1, ChangeTypes, Zenon
<1>6. /\ \A d, e : /\ l = Add(d, e) =>
                         AfterLine(c, s) = Stored(s, d, Cell(ValueIn(s, d) + ValueIn(s, e)))
                   /\ l = Sub(d, e) =>
                         AfterLine(c, s) = Stored(s, d, Cell(ValueIn(s, d) - ValueIn(s, e)))
  <2>. HIDE DEF s
  <2>1. \A d, e : /\ c[s.line] = Mov(d, e) => AfterLine(c, s) = Stored(s, d, ValueIn(s, e))
                  /\ c[s.line] = Add(d, e) =>
                        AfterLine(c, s) = Stored(s, d, Cell(ValueIn(s, d) + ValueIn(s, e)))
                  /\ c[s.line] = Sub(d, e) =>
                        AfterLine(c, s) = Stored(s, d, Cell(ValueIn(s, d) - ValueIn(s, e)))
                  /\ c[s.line] = Mul(d, e) =>
                        AfterLine(c, s) = Stored(s, d, Cell(ValueIn(s, d) * ValueIn(s, e)))
    BY LineDoes, Zenon
  <2>. QED
    BY <1>1, <2>1, Zenon
<1>7. /\ ValueIn(s, RegA) = rs[1] /\ ValueIn(s, AtA) = mem[rs[1]] /\ ValueIn(s, Number(n)) = Cell(n)
  BY <1>1, OperandMeans
<1>8. ASSUME NEW a \in Int
      PROVE  /\ Cell(a + Cell(n)) = Cell(a + n) /\ Cell(a - Cell(n)) = Cell(a + (-n))
  <2>1. Cell(a + Cell(n)) = Cell(a + n) /\ Cell(a - Cell(n)) = Cell(a - n)
    <3>. n \in Int
      OBVIOUS
    <3>. QED
      BY CellArithmetic, Zenon
  <2>2. a - n = a + (-n)
    OBVIOUS
  <2>. QED
    BY <2>1, <2>2
<1>9. ASSUME NEW v
      PROVE  /\ Stored(s, RegA, v) = State(q + 1, [rs EXCEPT ![1] = v], mem, z)
             /\ Stored(s, AtA, v) = State(q + 1, rs, [mem EXCEPT ![rs[1]] = v], z)
  BY <1>1, OperandMeans DEF State
<1>10. RegA # AtA
  BY PlacesDiffer
<1>. HIDE DEF s
<1>11. ASSUME l.args[1] = RegA PROVE State(q + 1, Moved(rs, k), mem, z) \in Runs(c, m)
  <2>1. \/ l = Add(RegA, Number(n)) /\ k = n
        \/ l = Sub(RegA, Number(n)) /\ k = -n
    <3>. HIDE DEF l, k
    <3>. QED
      BY <1>2, <1>11, ArgumentFields
  <2>. HIDE DEF l, k
  <2>2. AfterLine(c, s) = Stored(s, RegA, Cell(rs[1] + k))
    <3>1. CASE l = Add(RegA, Number(n)) /\ k = n
      <4>1. AfterLine(c, s) = Stored(s, RegA, Cell(ValueIn(s, RegA) + ValueIn(s, Number(n))))
        BY <1>6, <3>1, Zenon
      <4>2. Cell(rs[1] + Cell(n)) = Cell(rs[1] + k)
        BY <1>5, <1>8, <3>1, Zenon
      <4>. QED
        BY <1>7, <4>1, <4>2, Zenon
    <3>2. CASE l = Sub(RegA, Number(n)) /\ k = -n
      <4>1. AfterLine(c, s) = Stored(s, RegA, Cell(ValueIn(s, RegA) - ValueIn(s, Number(n))))
        BY <1>6, <3>2, Zenon
      <4>2. Cell(rs[1] - Cell(n)) = Cell(rs[1] + k)
        BY <1>5, <1>8, <3>2, Zenon
      <4>. QED
        BY <1>7, <4>1, <4>2, Zenon
    <3>. QED
      BY <2>1, <3>1, <3>2
  <2>. QED
    BY <1>4, <1>9, <2>2, Zenon DEF Moved
<1>12. ASSUME l.args[1] = AtA PROVE State(q + 1, rs, Changed(mem, rs[1], k), z) \in Runs(c, m)
  <2>1. \/ l = Add(AtA, Number(n)) /\ k = n
        \/ l = Sub(AtA, Number(n)) /\ k = -n
    <3>. HIDE DEF l, k
    <3>. QED
      BY <1>2, <1>12, ArgumentFields
  <2>. HIDE DEF l, k
  <2>2. AfterLine(c, s) = Stored(s, AtA, Cell(mem[rs[1]] + k))
    <3>1. CASE l = Add(AtA, Number(n)) /\ k = n
      <4>1. AfterLine(c, s) = Stored(s, AtA, Cell(ValueIn(s, AtA) + ValueIn(s, Number(n))))
        BY <1>6, <3>1, Zenon
      <4>2. Cell(mem[rs[1]] + Cell(n)) = Cell(mem[rs[1]] + k)
        BY <1>5, <1>8, <3>1, Zenon
      <4>. QED
        BY <1>7, <4>1, <4>2, Zenon
    <3>2. CASE l = Sub(AtA, Number(n)) /\ k = -n
      <4>1. AfterLine(c, s) = Stored(s, AtA, Cell(ValueIn(s, AtA) - ValueIn(s, Number(n))))
        BY <1>6, <3>2, Zenon
      <4>2. Cell(mem[rs[1]] - Cell(n)) = Cell(mem[rs[1]] + k)
        BY <1>5, <1>8, <3>2, Zenon
      <4>. QED
        BY <1>7, <4>1, <4>2, Zenon
    <3>. QED
      BY <2>1, <3>1, <3>2
  <2>. QED
    BY <1>4, <1>9, <2>2, Zenon DEF Changed
<1>. QED
  BY <1>11, <1>12

\* Both 0 and 1 are values of a cell.
LEMMA ZeroCell == Cell(0) = 0 /\ Cell(1) = 1
<1>1. 0 \in MemCell /\ 1 \in MemCell
  BY CellRangeAssumption DEF MemCell
<1>. QED
  BY <1>1, CellIsMemCell

\* The three lines of a bracket that opens, and of one that closes.
LEMMA BlockSteps ==
    ASSUME NEW c, Sound(c), NEW m \in Machines(c), NEW a, NEW b, NEW id,
           Opens(c, a, id), Closes(c, b, id), NEW rs, NEW mem, NEW z
    PROVE  /\ State(a, rs, mem, z) \in Runs(c, m) =>
                 State(IF mem[rs[1]] = 0 THEN b ELSE a + 3, rs, mem, mem[rs[1]] = 0) \in Runs(c, m)
           /\ State(b, rs, mem, z) \in Runs(c, m) =>
                 State(IF mem[rs[1]] = 0 THEN b + 3 ELSE a, rs, mem, mem[rs[1]] = 0) \in Runs(c, m)
<1>1. Runnable(c) /\ LabelAt(c, start_par(id)) = a /\ LabelAt(c, close_par(id)) = b
  BY SoundRuns, BlockLabels
<1>2. /\ a \in 1 .. Len(c) /\ a + 2 \in 1 .. Len(c) /\ a + 1 \in 1 .. Len(c)
      /\ c[a] = Label(start_par(id)) /\ c[a + 1] = Test /\ c[a + 2] = Je(close_par(id))
      /\ (a + 1) + 1 = a + 2 /\ (a + 2) + 1 = a + 3
  BY DEF Opens
<1>3. /\ b \in 1 .. Len(c) /\ b + 2 \in 1 .. Len(c) /\ b + 1 \in 1 .. Len(c)
      /\ c[b] = Label(close_par(id)) /\ c[b + 1] = Test /\ c[b + 2] = Jne(start_par(id))
      /\ (b + 1) + 1 = b + 2 /\ (b + 2) + 1 = b + 3
  BY DEF Closes
<1>4. \A x : Label(x).kind # "instruction"
  BY Fields
<1>. DEFINE e == mem[rs[1]] = 0
<1>5. (mem[rs[1]] = Cell(0)) = e /\ e \in BOOLEAN
  BY ZeroCell
<1>6. ASSUME State(a, rs, mem, z) \in Runs(c, m)
      PROVE  State(IF e THEN b ELSE a + 3, rs, mem, e) \in Runs(c, m)
  <2>1. State(a + 1, rs, mem, z) \in Runs(c, m)
    BY <1>1, <1>2, <1>4, <1>6, LineSteps, Zenon
  <2>2. State(a + 2, rs, mem, e) \in Runs(c, m)
    <3>1. State((a + 1) + 1, rs, mem, mem[rs[1]] = Cell(0)) \in Runs(c, m)
      BY <1>1, <1>2, <2>1, LineSteps, Zenon
    <3>. HIDE DEF e
    <3>. QED
      BY <1>2, <1>5, <3>1
  <2>. HIDE DEF e
  <2>3. State(IF e = TRUE THEN LabelAt(c, close_par(id)) ELSE (a + 2) + 1, rs, mem, e) \in Runs(c, m)
    BY <1>1, <1>2, <2>2, LineSteps, Zenon
  <2>4. (IF e = TRUE THEN LabelAt(c, close_par(id)) ELSE (a + 2) + 1) = IF e THEN b ELSE a + 3
    BY <1>1, <1>2, <1>5
  <2>. QED
    BY <2>3, <2>4
<1>7. ASSUME State(b, rs, mem, z) \in Runs(c, m)
      PROVE  State(IF e THEN b + 3 ELSE a, rs, mem, e) \in Runs(c, m)
  <2>1. State(b + 1, rs, mem, z) \in Runs(c, m)
    BY <1>1, <1>3, <1>4, <1>7, LineSteps, Zenon
  <2>2. State(b + 2, rs, mem, e) \in Runs(c, m)
    <3>1. State((b + 1) + 1, rs, mem, mem[rs[1]] = Cell(0)) \in Runs(c, m)
      BY <1>1, <1>3, <2>1, LineSteps, Zenon
    <3>. HIDE DEF e
    <3>. QED
      BY <1>3, <1>5, <3>1
  <2>. HIDE DEF e
  <2>3. State(IF e = FALSE THEN LabelAt(c, start_par(id)) ELSE (b + 2) + 1, rs, mem, e) \in Runs(c, m)
    BY <1>1, <1>3, <2>2, LineSteps, Zenon
  <2>4. (IF e = FALSE THEN LabelAt(c, start_par(id)) ELSE (b + 2) + 1) = IF e THEN b + 3 ELSE a
    BY <1>1, <1>3, <1>5
  <2>. QED
    BY <2>3, <2>4
<1>. QED
  BY <1>6, <1>7

\* So a bracket that opens leads to the line after it or after the one that closes, and
\* the other way round.
LEMMA BracketSteps ==
    ASSUME NEW c, Sound(c), NEW m \in Machines(c), NEW a, NEW b, NEW id,
           Opens(c, a, id), Closes(c, b, id), NEW rs, NEW mem, NEW z, NEW q \in {a, b},
           State(q, rs, mem, z) \in Runs(c, m)
    PROVE  State(IF mem[rs[1]] = 0 THEN b + 3 ELSE a + 3, rs, mem, mem[rs[1]] = 0) \in Runs(c, m)
<1>. DEFINE e == mem[rs[1]] = 0
<1>1. \A y : /\ State(a, rs, mem, y) \in Runs(c, m) =>
                   State(IF e THEN b ELSE a + 3, rs, mem, e) \in Runs(c, m)
             /\ State(b, rs, mem, y) \in Runs(c, m) =>
                   State(IF e THEN b + 3 ELSE a, rs, mem, e) \in Runs(c, m)
  BY BlockSteps
<1>. HIDE DEF e
<1>2. State(IF e THEN b + 3 ELSE a + 3, rs, mem, e) \in Runs(c, m)
  <2>1. CASE e
    BY <1>1, <2>1, Zenon
  <2>2. CASE ~ e
    BY <1>1, <2>2
  <2>. QED
    BY <2>1, <2>2
<1>. QED
  BY <1>2 DEF e

-----------------------------------------------------------------------------
(* The lines of a program do what the program does.                           *)

\* The machine is where the lines of the program's next character begin, with the
\* program's pointer and cells.
Level(text, s, m) ==
    /\ m.line = tpos(text, s.at)
    /\ m.registers[1] = s.pointer
    /\ m.ram = s.cells
AtCharacter(text) ==
    {sm \in Readers(text) \X Machines(Lines(text)) : Level(text, sm[1], sm[2])}

\* The line where the lines of a character begin, and what stops there.
LEMMA CharacterLines ==
    ASSUME NEW text, Program(text), NEW k \in 1 .. (Len(text) + 1)
    PROVE  LET l == Lines(text)[tpos(text, k)]
               c == IF k =< Len(text) THEN text[k] ELSE "end"
           IN  /\ tpos(text, k) \in 1 .. Len(Lines(text)) /\ Len(Lines(text)) \in Nat
               /\ c = "." => l = PrintLine
               /\ c = "," => l = InputLine
               /\ c = "end" => l = HaltLine
               /\ c \in {".", ",", "end"} => Stopping(l)
<1>. DEFINE c == IF k =< Len(text) THEN text[k] ELSE "end"
            l == Lines(text)[tpos(text, k)]
<1>1. Len(text) \in Nat /\ text \in Seq(Chars)
  BY LenProperties DEF Program
<1>2. /\ Lines(text) \in Seq(Assembly) /\ Len(Lines(text)) = tpos(text, Len(text) + 1)
      /\ Lines(text)[Len(Lines(text))] = HaltLine /\ Lines(text) # <<>>
  BY Positions, LinesAreSound DEF Sound
<1>3. Len(Lines(text)) \in Nat /\ Len(Lines(text)) \in 1 .. Len(Lines(text))
  BY <1>2, LenProperties
<1>4. CASE k =< Len(text)
  <2>1. k \in 1 .. Len(text)
    BY <1>1, <1>4
  <2>2. text[k] \in Chars /\ c = text[k]
    BY <1>1, <1>4, <2>1
  <2>3. tpos(text, k) \in 1 .. Len(Lines(text))
    BY <2>1, BracketBlocks
  <2>4. (c = "." => l = PrintLine) /\ (c = "," => l = InputLine) /\ c # "end"
    <3>1. (text[k] = "." => l = PrintLine) /\ (text[k] = "," => l = InputLine)
      BY <2>1, PlainBlocks
    <3>2. text[k] # "end"
      BY <2>2 DEF Chars
    <3>. QED
      BY <2>2, <3>1, <3>2
  <2>. HIDE DEF c, l
  <2>. QED
    BY <1>3, <2>3, <2>4 DEF Stopping, c, l
<1>5. CASE ~ (k =< Len(text))
  <2>1. k = Len(text) + 1
    BY <1>1, <1>5
  <2>2. l = HaltLine /\ c = "end" /\ tpos(text, k) \in 1 .. Len(Lines(text))
    BY <1>2, <1>3, <1>5, <2>1
  <2>. HIDE DEF c, l
  <2>. QED
    BY <1>3, <2>2 DEF Stopping, c, l
<1>. QED
  BY <1>4, <1>5

\* From one character to the next.
LEMMA CharacterRuns ==
    ASSUME NEW text, Program(text), NEW s \in Reading(text), NEW m \in Machines(Lines(text)),
           Level(text, s, m)
    PROVE  \E u \in Runs(Lines(text), m) : Level(text, AfterCommand(text, s), u)
<1>. DEFINE c == Lines(text)
            d == text[s.at]
            k == s.at
            p == s.pointer
            t == s.cells
            f == AfterCommand(text, s)
<1>1. /\ s \in Readers(text) /\ k \in 1 .. Len(text) /\ Len(text) \in Nat
      /\ thisOf(text, s) = d /\ d \in {">", "<", "+", "-", "[", "]", "#"}
      /\ p \in MemCell /\ t \in Tape
  <2>1. s \in Readers(text) /\ thisOf(text, s) \notin {".", ",", "end"}
    BY DEF Reading
  <2>2. k =< Len(text) /\ thisOf(text, s) = d
    BY <2>1 DEF thisOf
  <2>3. text \in Seq(Chars) /\ Len(text) \in Nat
    BY LenProperties DEF Program
  <2>4. k \in 1 .. (Len(text) + 1) /\ p \in MemCell /\ t \in Tape
    BY <2>1 DEF Readers
  <2>5. k \in 1 .. Len(text)
    BY <2>2, <2>3, <2>4
  <2>6. d \in Chars
    BY <2>3, <2>5
  <2>. QED
    BY <2>1, <2>2, <2>3, <2>4, <2>5, <2>6 DEF Chars
<1>2. Sound(c) /\ Runnable(c)
  BY LinesAreSound, SoundRuns
<1>. DEFINE q == tpos(text, k)
            rs == m.registers
            z == m.zero
<1>3. /\ m = State(q, rs, t, z) /\ rs[1] = p /\ rs \in [Registers -> MemCell]
      /\ q \in 1 .. Len(c) /\ m \in Runs(c, m)
  <2>1. m = State(m.line, m.registers, m.ram, m.zero) /\ rs \in [Registers -> MemCell]
    BY StateOf
  <2>2. q \in 1 .. Len(c)
    BY <1>1, BracketBlocks
  <2>3. m \in Runs(c, m)
    BY <1>2, RunBegins
  <2>. QED
    BY <2>1, <2>2, <2>3 DEF Level
<1>4. State(q, rs, t, z) \in Runs(c, m)
  BY <1>3, Zenon
<1>6. ASSUME NEW a, NEW r, NEW mem, NEW y, f.at = a, f.pointer = r[1], f.cells = mem,
             State(tpos(text, a), r, mem, y) \in Runs(c, m)
      PROVE  \E u \in Runs(c, m) : Level(text, f, u)
  <2>1. Level(text, f, State(tpos(text, a), r, mem, y))
    BY <1>6 DEF Level, State
  <2>. QED
    BY <1>6, <2>1
<1>7. Amount(Add(RegA, Number(1))) = 1 /\ Amount(Sub(RegA, Number(1))) = -1
      /\ Amount(Add(AtA, Number(1))) = 1 /\ Amount(Sub(AtA, Number(1))) = -1
  BY Fields, ArgumentFields DEF Amount, Sign, ADD, Number, Plain
<1>8. \A x \in Places : StepBy(Add(x, Number(1)), 1) /\ StepBy(Sub(x, Number(1)), 1)
                        /\ Add(x, Number(1)).args[1] = x /\ Sub(x, Number(1)).args[1] = x
  BY ArgumentFields DEF StepBy
<1>9. RegA \in Places /\ AtA \in Places
  BY DEF Places
<1>10. /\ d = ">" => f = [at |-> k + 1, pointer |-> Cell(p + 1), cells |-> t]
       /\ d = "<" => f = [at |-> k + 1, pointer |-> Cell(p + (-1)), cells |-> t]
       /\ d = "+" => f = [at |-> k + 1, pointer |-> p, cells |-> Changed(t, p, 1)]
       /\ d = "-" => f = [at |-> k + 1, pointer |-> p, cells |-> Changed(t, p, -1)]
       /\ d = "[" => f = [at |-> IF t[p] = 0 THEN Closing(text, k) + 1 ELSE k + 1,
                          pointer |-> p, cells |-> t]
       /\ d = "]" => f = [at |-> IF t[p] # 0 THEN Opening(text, k) + 1 ELSE k + 1,
                          pointer |-> p, cells |-> t]
       /\ d = "#" => f = [at |-> k + 1, pointer |-> p, cells |-> t]
  BY <1>1 DEF AfterCommand, Changed
<1>. DEFINE l == c[q]
<1>11. /\ d = ">" => l = Add(RegA, Number(1)) /\ tpos(text, k + 1) = q + 1
       /\ d = "<" => l = Sub(RegA, Number(1)) /\ tpos(text, k + 1) = q + 1
       /\ d = "+" => l = Add(AtA, Number(1)) /\ tpos(text, k + 1) = q + 1
       /\ d = "-" => l = Sub(AtA, Number(1)) /\ tpos(text, k + 1) = q + 1
       /\ d = "#" => tpos(text, k + 1) = q
  BY <1>1, PlainBlocks
<1>12. ASSUME StepBy(l, 1)
       PROVE  /\ l.args[1] = RegA => State(q + 1, Moved(rs, Amount(l)), t, z) \in Runs(c, m)
              /\ l.args[1] = AtA => State(q + 1, rs, Changed(t, rs[1], Amount(l)), z) \in Runs(c, m)
  <2>. 1 \in Nat
    OBVIOUS
  <2>. QED
    BY <1>1, <1>2, <1>3, <1>4, <1>12, StepLineSteps, Zenon
<1>13. /\ Moved(rs, 1)[1] = Cell(p + 1) /\ Moved(rs, -1)[1] = Cell(p + (-1))
  <2>. 1 \in Int /\ -1 \in Int
    OBVIOUS
  <2>. QED
    BY <1>3, ChangeTypes
<1>. SUFFICES \E u \in Runs(c, m) : Level(text, f, u)
  OBVIOUS
<1>. HIDE DEF c, d, k, p, t, f, q, rs, z, l
<1>14. CASE d = ">"
  <2>1. State(tpos(text, k + 1), Moved(rs, 1), t, z) \in Runs(c, m)
    BY <1>7, <1>8, <1>9, <1>11, <1>12, <1>14
  <2>2. f.at = k + 1 /\ f.pointer = Moved(rs, 1)[1] /\ f.cells = t
    BY <1>10, <1>13, <1>14
  <2>. QED
    BY <1>6, <2>1, <2>2
<1>15. CASE d = "<"
  <2>1. State(tpos(text, k + 1), Moved(rs, -1), t, z) \in Runs(c, m)
    BY <1>7, <1>8, <1>9, <1>11, <1>12, <1>15
  <2>2. f.at = k + 1 /\ f.pointer = Moved(rs, -1)[1] /\ f.cells = t
    BY <1>10, <1>13, <1>15
  <2>. QED
    BY <1>6, <2>1, <2>2
<1>16. CASE d = "+"
  <2>1. State(tpos(text, k + 1), rs, Changed(t, p, 1), z) \in Runs(c, m)
    BY <1>3, <1>7, <1>8, <1>9, <1>11, <1>12, <1>16
  <2>2. f.at = k + 1 /\ f.pointer = rs[1] /\ f.cells = Changed(t, p, 1)
    BY <1>3, <1>10, <1>16
  <2>. QED
    BY <1>6, <2>1, <2>2
<1>17. CASE d = "-"
  <2>1. State(tpos(text, k + 1), rs, Changed(t, p, -1), z) \in Runs(c, m)
    BY <1>3, <1>7, <1>8, <1>9, <1>11, <1>12, <1>17
  <2>2. f.at = k + 1 /\ f.pointer = rs[1] /\ f.cells = Changed(t, p, -1)
    BY <1>3, <1>10, <1>17
  <2>. QED
    BY <1>6, <2>1, <2>2
<1>18. CASE d = "#"
  <2>1. State(tpos(text, k + 1), rs, t, z) \in Runs(c, m)
    BY <1>4, <1>11, <1>18
  <2>2. f.at = k + 1 /\ f.pointer = rs[1] /\ f.cells = t
    BY <1>3, <1>10, <1>18
  <2>. QED
    BY <1>6, <2>1, <2>2
<1>19. CASE d = "["
  <2>1. PICK j : Pair(text, k, j) /\ parOf(text, k) = parOf(text, j)
    BY <1>1, <1>19, OpeningHasPair DEF d, k
  <2>2. j \in 1 .. Len(text) /\ text[j] = "]" /\ Closing(text, k) = j
    <3>1. j \in (k + 1) .. Len(text) /\ text[j] = "]"
      BY <2>1 DEF Pair
    <3>2. j \in 1 .. Len(text)
      BY <1>1, <3>1
    <3>. QED
      BY <2>1, <3>1, <3>2, PairMatches
  <2>3. Opens(c, q, parOf(text, k)) /\ tpos(text, k + 1) = q + 3
    BY <1>1, <1>19, BracketBlocks DEF c, d, q, k
  <2>4. Closes(c, tpos(text, j), parOf(text, k)) /\ tpos(text, j + 1) = tpos(text, j) + 3
    BY <2>1, <2>2, BracketBlocks DEF c
  <2>5. State(IF t[rs[1]] = 0 THEN tpos(text, j) + 3 ELSE q + 3, rs, t, t[rs[1]] = 0) \in Runs(c, m)
    BY <1>2, <1>4, <2>3, <2>4, BracketSteps DEF c
  <2>. DEFINE a == IF t[p] = 0 THEN j + 1 ELSE k + 1
  <2>6. State(tpos(text, a), rs, t, t[rs[1]] = 0) \in Runs(c, m)
    BY <1>3, <2>3, <2>4, <2>5
  <2>7. f.at = a /\ f.pointer = rs[1] /\ f.cells = t
    BY <1>3, <1>10, <1>19, <2>2
  <2>. HIDE DEF a
  <2>. QED
    BY <1>6, <2>6, <2>7
<1>20. CASE d = "]"
  <2>1. PICK j : Pair(text, j, k) /\ parOf(text, j) = parOf(text, k)
    BY <1>1, <1>20, ClosingHasPair DEF d, k
  <2>2. j \in 1 .. Len(text) /\ text[j] = "[" /\ Opening(text, k) = j
    <3>1. j \in 1 .. Len(text) /\ text[j] = "["
      BY <2>1 DEF Pair
    <3>. QED
      BY <2>1, <3>1, PairMatches
  <2>3. Closes(c, q, parOf(text, k)) /\ tpos(text, k + 1) = q + 3
    BY <1>1, <1>20, BracketBlocks DEF c, d, q, k
  <2>4. Opens(c, tpos(text, j), parOf(text, k)) /\ tpos(text, j + 1) = tpos(text, j) + 3
    BY <2>1, <2>2, BracketBlocks DEF c
  <2>5. State(IF t[rs[1]] = 0 THEN q + 3 ELSE tpos(text, j) + 3, rs, t, t[rs[1]] = 0) \in Runs(c, m)
    BY <1>2, <1>4, <2>3, <2>4, BracketSteps DEF c
  <2>. DEFINE a == IF t[p] # 0 THEN j + 1 ELSE k + 1
  <2>6. State(tpos(text, a), rs, t, t[rs[1]] = 0) \in Runs(c, m)
    BY <1>3, <2>3, <2>4, <2>5
  <2>7. f.at = a /\ f.pointer = rs[1] /\ f.cells = t
    BY <1>3, <1>10, <1>20, <2>2
  <2>. HIDE DEF a
  <2>. QED
    BY <1>6, <2>6, <2>7
<1>. QED
  BY <1>1, <1>14, <1>15, <1>16, <1>17, <1>18, <1>19, <1>20

\* The lines follow the program: whatever the program comes to, the lines come to, and they
\* stop where it does.
THEOREM LinesFollow ==
    ASSUME NEW text, Program(text)
    PROVE  Simulates(AtCharacter(text), Readers(text), Reading(text), ReadingOn(text),
                   Machines(Lines(text)), Running(Lines(text)), RunningOn(Lines(text)))
<1>. DEFINE c == Lines(text)
            R == AtCharacter(text)
<1>1. Runnable(c)
  BY LinesAreSound, SoundRuns
<1>2. ASSUME NEW s \in Readers(text), NEW m \in Machines(c), <<s, m>> \in R, s \notin Reading(text)
      PROVE  \E u \in Runs(c, m) : u \notin Running(c) /\ <<s, u>> \in R
  <2>1. thisOf(text, s) \in {".", ",", "end"} /\ s.at \in 1 .. (Len(text) + 1)
    BY <1>2 DEF Reading, Readers
  <2>2. Stopping(c[tpos(text, s.at)])
    BY <2>1, CharacterLines DEF thisOf
  <2>3. Level(text, s, m)
    BY <1>2 DEF AtCharacter
  <2>4. m \notin Running(c)
    BY <2>2, <2>3 DEF Running, Level
  <2>5. m \in Runs(c, m)
    BY <1>1, RunBegins
  <2>. QED
    BY <1>2, <2>4, <2>5
<1>3. ASSUME NEW s \in Readers(text), NEW m \in Machines(c), <<s, m>> \in R, s \in Reading(text)
      PROVE  \E z \in Way(Readers(text), Reading(text), ReadingOn(text), ReadingOn(text)[s]) :
                \E u \in Runs(c, m) : <<z, u>> \in R
  <2>. DEFINE f == AfterCommand(text, s)
  <2>1. ReadingOn(text)[s] = f /\ f \in Readers(text)
    BY <1>3, CommandKeepsReader DEF ReadingOn
  <2>2. f \in Way(Readers(text), Reading(text), ReadingOn(text), f)
    BY <2>1, ReaderFunction, WayGoesOn
  <2>3. Level(text, s, m)
    BY <1>3 DEF AtCharacter
  <2>4. PICK u \in Runs(c, m) : Level(text, f, u)
    BY <1>3, <2>3, CharacterRuns
  <2>5. u \in Machines(c)
    BY <1>1, RunBegins
  <2>6. <<f, u>> \in R
    BY <2>1, <2>4, <2>5 DEF AtCharacter
  <2>. QED
    BY <2>1, <2>2, <2>6
<1>4. R \in SUBSET (Readers(text) \X Machines(c))
  BY DEF AtCharacter
<1>. HIDE DEF c, R
<1>5. Simulates(R, Readers(text), Reading(text), ReadingOn(text), Machines(c), Running(c), RunningOn(c))
  BY <1>2, <1>3, <1>4, Zenon DEF Simulates, Runs
<1>. QED
  BY <1>5 DEF c, R

-----------------------------------------------------------------------------
(* What the lines before the optimizations do.                                *)

IsJump(l) == \E id \in Nat : l = Je(close_par(id)) \/ l = Jne(start_par(id))

NewRegisters(l, rs) ==
    IF l = Mov(RegA, Number(2)) THEN [rs EXCEPT ![1] = Cell(2)]
    ELSE IF IsStep(l, RegA) THEN Moved(rs, Amount(l)) ELSE rs
NewTape(l, rs, mem) == IF IsStep(l, AtA) THEN Changed(mem, rs[1], Amount(l)) ELSE mem
NewZero(l, rs, mem, z) == IF l = Test THEN mem[rs[1]] = 0 ELSE z

\* A line that neither stops nor jumps.
SimpleLine(l) ==
    \/ l.kind # "instruction" \/ l = Mov(RegA, Number(2)) \/ l = Test
    \/ \E n \in Nat : StepBy(l, n)

\* A sound line that does not stop is simple or a jump.
LEMMA SoundLineIs ==
    ASSUME NEW c, Sound(c), NEW q \in 1 .. Len(c), ~ Stopping(c[q])
    PROVE  SimpleLine(c[q]) \/ IsJump(c[q])
<1>. DEFINE l == c[q]
<1>1. l = HaltLine \/ PlainLine(l) \/ (\E n \in Nat : StepBy(l, n)) \/ BracketLine(l)
  BY DEF Sound
<1>. SUFFICES SimpleLine(l) \/ IsJump(l)
  OBVIOUS
<1>2. ~ Stopping(l)
  OBVIOUS
<1>. HIDE DEF l
<1>3. CASE PlainLine(l)
  BY <1>2, <1>3, Fields DEF PlainLine, SimpleLine, Stopping
<1>4. CASE BracketLine(l)
  <2>1. PICK id \in Nat : \/ l = Label(start_par(id)) \/ l = Label(close_par(id))
                          \/ l = Je(close_par(id)) \/ l = Jne(start_par(id))
    BY <1>4 DEF BracketLine
  <2>2. CASE l = Label(start_par(id)) \/ l = Label(close_par(id))
    <3>1. l.kind # "instruction"
      BY <2>2, Fields
    <3>. QED
      BY <3>1 DEF SimpleLine
  <2>3. CASE l = Je(close_par(id)) \/ l = Jne(start_par(id))
    BY <2>3 DEF IsJump
  <2>. QED
    BY <2>1, <2>2, <2>3
<1>. QED
  BY <1>1, <1>2, <1>3, <1>4 DEF SimpleLine, Stopping

\* Lines are of one kind.
LEMMA SimpleKinds ==
    ASSUME NEW l, SimpleLine(l)
    PROVE  /\ ~ Stopping(l) /\ ~ IsJump(l)
           /\ l.kind # "instruction" => /\ l # Mov(RegA, Number(2)) /\ l # Test
                                        /\ \A p : ~ IsStep(l, p)
           /\ l = Test => l # Mov(RegA, Number(2)) /\ \A p : ~ IsStep(l, p)
           /\ l = Mov(RegA, Number(2)) => \A p : ~ IsStep(l, p)
           /\ \A n \in Nat : StepBy(l, n) => /\ l # Mov(RegA, Number(2)) /\ l # Test
                                             /\ \A p : IsStep(l, p) <=> l.args[1] = p
                                             /\ l.args[1] \in {RegA, AtA}
<1>1. l.kind # "instruction" => /\ l # Mov(RegA, Number(2)) /\ l # Test /\ ~ Stopping(l)
                                /\ ~ IsJump(l) /\ \A p : ~ IsStep(l, p)
  BY Fields DEF IsStep, Stopping, IsJump
<1>2. l = Test => /\ l # Mov(RegA, Number(2)) /\ ~ Stopping(l) /\ ~ IsJump(l)
                  /\ \A p : ~ IsStep(l, p)
  BY Fields DEF IsStep, Stopping, IsJump, ADD, SUB
<1>3. l = Mov(RegA, Number(2)) => /\ ~ Stopping(l) /\ ~ IsJump(l) /\ \A p : ~ IsStep(l, p)
  BY Fields DEF IsStep, Stopping, IsJump, ADD, SUB
<1>4. ASSUME NEW n \in Nat, StepBy(l, n)
      PROVE  /\ l # Mov(RegA, Number(2)) /\ l # Test /\ ~ Stopping(l) /\ ~ IsJump(l)
             /\ \A p : IsStep(l, p) <=> l.args[1] = p
             /\ l.args[1] \in {RegA, AtA}
  <2>1. l.kind = "instruction" /\ l.what \in {50, 82}
    BY <1>4, KindsDiffer
  <2>2. l.args[1] \in {RegA, AtA}
    BY <1>4, AmountType DEF Places
  <2>3. l # Mov(RegA, Number(2)) /\ l # Test /\ ~ Stopping(l) /\ ~ IsJump(l)
    BY <2>1, Fields DEF Stopping, IsJump
  <2>. QED
    BY <2>1, <2>2, <2>3 DEF IsStep, ADD, SUB
<1>. QED
  BY <1>1, <1>2, <1>3, <1>4 DEF SimpleLine

\* What a simple line makes of a state.
LEMMA SimpleSteps ==
    ASSUME NEW c, Runnable(c), NEW m \in Machines(c), NEW q \in 1 .. Len(c), SimpleLine(c[q]),
           NEW rs \in [Registers -> MemCell], NEW mem \in Tape, NEW z,
           State(q, rs, mem, z) \in Runs(c, m)
    PROVE  State(q + 1, NewRegisters(c[q], rs), NewTape(c[q], rs, mem), NewZero(c[q], rs, mem, z))
              \in Runs(c, m)
<1>. DEFINE l == c[q]
            s == State(q, rs, mem, z)
<1>1. CASE l.kind # "instruction"
  <2>1. State(q + 1, rs, mem, z) \in Runs(c, m)
    BY <1>1, LineSteps, Zenon
  <2>2. NewRegisters(l, rs) = rs /\ NewTape(l, rs, mem) = mem /\ NewZero(l, rs, mem, z) = z
    <3>1. l # Mov(RegA, Number(2)) /\ l # Test /\ ~ IsStep(l, RegA) /\ ~ IsStep(l, AtA)
      BY <1>1, SimpleKinds
    <3>. QED
      BY <3>1 DEF NewRegisters, NewTape, NewZero
  <2>. QED
    BY <2>1, <2>2
<1>2. CASE l = Test
  <2>1. State(q + 1, rs, mem, mem[rs[1]] = Cell(0)) \in Runs(c, m)
    BY <1>2, LineSteps, Zenon
  <2>2. NewRegisters(l, rs) = rs /\ NewTape(l, rs, mem) = mem
        /\ NewZero(l, rs, mem, z) = (mem[rs[1]] = Cell(0))
    <3>1. l # Mov(RegA, Number(2)) /\ ~ IsStep(l, RegA) /\ ~ IsStep(l, AtA)
      BY <1>2, SimpleKinds
    <3>. QED
      BY <1>2, <3>1, ZeroCell DEF NewRegisters, NewTape, NewZero
  <2>. QED
    BY <2>1, <2>2
<1>3. CASE l = Mov(RegA, Number(2))
  <2>1. s.line = q /\ s.registers = rs /\ s.ram = mem /\ s.zero = z
    BY DEF State
  <2>2. ~ Stopping(l) /\ ~ IsStep(l, RegA) /\ ~ IsStep(l, AtA) /\ l # Test
    BY <1>3, SimpleKinds
  <2>3. AfterLine(c, s) \in Runs(c, m)
    BY <2>1, <2>2, RunGoesOn
  <2>4. AfterLine(c, s) = Stored(s, RegA, ValueIn(s, Number(2)))
    <3>1. c[s.line] = Mov(RegA, Number(2))
      BY <1>3, <2>1
    <3>. HIDE DEF s
    <3>. QED
      BY <3>1, LineDoes, ZenonT(30)
  <2>5. AfterLine(c, s) = State(q + 1, [rs EXCEPT ![1] = Cell(2)], mem, z)
    BY <2>1, <2>4, OperandMeans DEF State
  <2>. HIDE DEF s
  <2>6. NewRegisters(l, rs) = [rs EXCEPT ![1] = Cell(2)] /\ NewTape(l, rs, mem) = mem
        /\ NewZero(l, rs, mem, z) = z
    BY <1>3, <2>2 DEF NewRegisters, NewTape, NewZero
  <2>. QED
    BY <2>3, <2>5, <2>6
<1>4. ASSUME NEW n \in Nat, StepBy(l, n)
      PROVE  State(q + 1, NewRegisters(l, rs), NewTape(l, rs, mem), NewZero(l, rs, mem, z))
                \in Runs(c, m)
  <2>1. /\ l # Mov(RegA, Number(2)) /\ l # Test /\ l.args[1] \in {RegA, AtA}
        /\ IsStep(l, RegA) <=> l.args[1] = RegA
        /\ IsStep(l, AtA) <=> l.args[1] = AtA
        /\ RegA # AtA
    BY <1>4, SimpleKinds, PlacesDiffer
  <2>2. /\ l.args[1] = RegA => State(q + 1, Moved(rs, Amount(l)), mem, z) \in Runs(c, m)
        /\ l.args[1] = AtA => State(q + 1, rs, Changed(mem, rs[1], Amount(l)), z) \in Runs(c, m)
    BY <1>4, StepLineSteps, Zenon
  <2>. HIDE DEF l
  <2>. QED
    BY <2>1, <2>2 DEF NewRegisters, NewTape, NewZero
<1>. QED
  BY <1>1, <1>2, <1>3, <1>4 DEF SimpleLine

\* Nothing added changes nothing, and changes add up.
LEMMA ChangesAddUp ==
    ASSUME NEW rs \in [Registers -> MemCell], NEW mem \in Tape, NEW p \in MemCell
    PROVE  /\ Moved(rs, 0) = rs /\ Changed(mem, p, 0) = mem
           /\ \A a, b \in Int : /\ Moved(Moved(rs, a), b) = Moved(rs, a + b)
                                /\ Changed(Changed(mem, p, a), p, b) = Changed(mem, p, a + b)
<1>1. /\ 1 \in Registers /\ rs[1] \in MemCell /\ mem[p] \in MemCell
      /\ rs[1] \in Int /\ mem[p] \in Int
  <2>1. 1 \in Registers
    BY DEF Registers
  <2>2. rs[1] \in MemCell /\ mem[p] \in MemCell
    BY <2>1 DEF Tape
  <2>. QED
    BY <2>1, <2>2, CellIsMemCell, Zenon
<1>2. \A v \in MemCell : v + 0 = v /\ Cell(v + 0) = v
  <2>1. ASSUME NEW v \in MemCell PROVE v + 0 = v /\ Cell(v + 0) = v
    <3>1. v \in Int /\ Cell(v) = v
      BY CellIsMemCell
    <3>2. v + 0 = v
      BY <3>1
    <3>. QED
      BY <3>1, <3>2
  <2>. QED
    BY <2>1
<1>3. Moved(rs, 0) = rs
  BY <1>1, <1>2 DEF Moved
<1>4. Changed(mem, p, 0) = mem
  BY <1>1, <1>2 DEF Changed, Tape
<1>5. ASSUME NEW a \in Int, NEW b \in Int
      PROVE  /\ Moved(Moved(rs, a), b) = Moved(rs, a + b)
             /\ Changed(Changed(mem, p, a), p, b) = Changed(mem, p, a + b)
  <2>1. ASSUME NEW v \in Int PROVE Cell(Cell(v + a) + b) = Cell(v + (a + b))
    <3>1. v + a \in Int /\ (v + a) + b = v + (a + b)
      OBVIOUS
    <3>2. Cell(Cell(v + a) + b) = Cell((v + a) + b)
      BY <3>1, CellArithmetic
    <3>. QED
      BY <3>1, <3>2
  <2>2. Cell(Cell(rs[1] + a) + b) = Cell(rs[1] + (a + b))
        /\ Cell(Cell(mem[p] + a) + b) = Cell(mem[p] + (a + b))
    BY <1>1, <2>1, Zenon
  <2>3. Moved(Moved(rs, a), b) = Moved(rs, a + b)
    BY <1>1, <2>2, Zenon DEF Moved
  <2>4. Changed(Changed(mem, p, a), p, b) = Changed(mem, p, a + b)
    BY <1>1, <2>2, Zenon DEF Changed, Tape
  <2>. QED
    BY <2>3, <2>4
<1>. QED
  BY <1>3, <1>4, <1>5

-----------------------------------------------------------------------------
(* The folded lines do what the lines do.                                     *)

\* The folded code has not yet done what is pending before the machine's line.
Pended(o, rs, mem, ss, mm) ==
    IF o.math THEN rs = ss /\ mem = Changed(mm, ss[1], o.value)
    ELSE rs = Moved(ss, o.value) /\ mem = mm
Behind(c, x, y) ==
    /\ y.line = fat(c, x.line) /\ x.zero = y.zero
    /\ Pended(Folding(c)[x.line - 1], x.registers, x.ram, y.registers, y.ram)

\* The folded code is at the same line.
Beside(c, x, y) ==
    /\ Stays(c, x.line) /\ y.line = fpos(c, x.line)
    /\ x.registers = y.registers /\ x.ram = y.ram /\ x.zero = y.zero

InStep(c) ==
    {xy \in Machines(c) \X Machines(apply_optimizations(c)) :
        xy[1].line \in 1 .. Len(c) /\ (Behind(c, xy[1], xy[2]) \/ Beside(c, xy[1], xy[2]))}

\* Steps are by one.
UnitSteps(c) == \A q \in 1 .. Len(c) : \A p \in Places : IsStep(c[q], p) => StepBy(c[q], 1)

\* What is pending is one line that adds all of it.
LEMMA PendingAdds ==
    ASSUME NEW o \in Accumulating, o.value # 0
    PROVE  /\ \E n \in Nat : StepBy(Pending(o)[1], n)
           /\ Amount(Pending(o)[1]) = o.value
           /\ Pending(o)[1].args[1] = IF o.math THEN AtA ELSE RegA
<1>. DEFINE p == IF o.math THEN AtA ELSE RegA
            v == o.value
<1>1. v \in Int /\ p \in Places /\ o.math \in BOOLEAN
  BY DEF Accumulating, Places
<1>2. v > 0 => Pending(o) = <<Add(p, Number(v))>>
  BY <1>1 DEF Pending, AddOrSub
<1>3. v < 0 => Pending(o) = <<Sub(p, Number(-v))>>
  BY <1>1 DEF Pending, AddOrSub
<1>. HIDE DEF p, v
<1>4. \A n \in Nat : /\ StepBy(Add(p, Number(n)), n) /\ StepBy(Sub(p, Number(n)), n)
                     /\ Add(p, Number(n)).args[1] = p /\ Sub(p, Number(n)).args[1] = p
  BY <1>1, ArgumentFields DEF StepBy
<1>5. \A n \in Int : Number(n).value = n
  BY DEF Number, Plain
<1>6. \A n \in Int : Amount(Add(p, Number(n))) = n /\ Amount(Sub(p, Number(n))) = -n
  <2>1. \A n : /\ Add(p, Number(n)).what = 50 /\ Add(p, Number(n)).args[2] = Number(n)
               /\ Sub(p, Number(n)).what = 82 /\ Sub(p, Number(n)).args[2] = Number(n)
    BY Fields, ArgumentFields
  <2>. QED
    BY <1>5, <2>1 DEF Amount, Sign, ADD
<1>7. CASE v > 0
  <2>1. Pending(o)[1] = Add(p, Number(v)) /\ v \in Nat
    BY <1>1, <1>2, <1>7
  <2>. QED
    BY <1>4, <1>6, <2>1 DEF p, v
<1>8. CASE v < 0
  <2>1. Pending(o)[1] = Sub(p, Number(-v)) /\ -v \in Nat /\ -v \in Int /\ -(-v) = v
    BY <1>1, <1>3, <1>8
  <2>2. StepBy(Sub(p, Number(-v)), -v) /\ Sub(p, Number(-v)).args[1] = p
        /\ Amount(Sub(p, Number(-v))) = -(-v)
    BY <1>4, <1>6, <2>1
  <2>. QED
    BY <2>1, <2>2 DEF p, v
<1>. QED
  BY <1>1, <1>7, <1>8 DEF v

\* The accumulator before line k, with its type.
LEMMA FoldSound ==
    ASSUME NEW c, Sound(c)
    PROVE  /\ Ends(c) /\ Runnable(c) /\ Len(c) \in Nat
           /\ Sound(apply_optimizations(c)) /\ Runnable(apply_optimizations(c))
           /\ Len(apply_optimizations(c)) \in Nat
           /\ \A k \in 1 .. Len(c) : Folding(c)[k - 1] \in Accumulating
<1>1. Ends(c) /\ c \in Seq(Assembly)
  BY DEF Sound, Ends
<1>2. Sound(apply_optimizations(c)) /\ apply_optimizations(c) \in Seq(Assembly)
  BY FoldingIsSound, Zenon DEF Sound
<1>. QED
  BY <1>1, <1>2, SoundRuns, LenProperties, StayingLine, Zenon

\* What is pending takes one line or none.
LEMMA PendingLength ==
    ASSUME NEW c \in Seq(Assembly), NEW k \in 1 .. Len(c)
    PROVE  /\ Folding(c)[k - 1].value = 0 => fpos(c, k) = fat(c, k)
           /\ Folding(c)[k - 1].value # 0 => fpos(c, k) = fat(c, k) + 1
<1>1. Folding(c)[k - 1] \in Accumulating /\ fat(c, k) \in Nat
  BY StayingLine, Zenon
<1>. DEFINE o == Folding(c)[k - 1]
<1>2. /\ o.value = 0 => Len(Pending(o)) = 0
      /\ o.value # 0 => Len(Pending(o)) = 1
  BY <1>1, PendingType
<1>3. fpos(c, k) = fat(c, k) + Len(Pending(o))
  BY DEF fpos
<1>. HIDE DEF o
<1>4. /\ o.value = 0 => fpos(c, k) = fat(c, k)
      /\ o.value # 0 => fpos(c, k) = fat(c, k) + 1
  <2>1. CASE o.value = 0
    <3>1. Len(Pending(o)) = 0
      BY <1>2, <2>1
    <3>2. fpos(c, k) = fat(c, k) + 0
      BY <1>3, <3>1
    <3>. QED
      BY <1>1, <2>1, <3>2
  <2>2. CASE o.value # 0
    <3>1. Len(Pending(o)) = 1
      BY <1>2, <2>2
    <3>. QED
      BY <1>3, <2>2, <3>1
  <2>. QED
    BY <2>1, <2>2
<1>. QED
  BY <1>4 DEF o

\* Before a line that stays the folded code catches up.
LEMMA CatchUp ==
    ASSUME NEW c, Sound(c), NEW x, NEW y, <<x, y>> \in InStep(c), Stays(c, x.line)
    PROVE  State(fpos(c, x.line), x.registers, x.ram, x.zero) \in Runs(apply_optimizations(c), y)
<1>. DEFINE F == apply_optimizations(c)
            k == x.line
            o == Folding(c)[k - 1]
            ss == y.registers
            mm == y.ram
            z == y.zero
<1>1. /\ x \in Machines(c) /\ y \in Machines(F) /\ k \in 1 .. Len(c)
      /\ Behind(c, x, y) \/ Beside(c, x, y)
  BY DEF InStep
<1>2. Ends(c) /\ c \in Seq(Assembly) /\ Runnable(F) /\ o \in Accumulating
  BY <1>1, FoldSound DEF Ends
<1>3. /\ y = State(y.line, ss, mm, z) /\ ss \in [Registers -> MemCell] /\ mm \in Tape
      /\ ss[1] \in MemCell /\ y \in Runs(F, y)
  BY <1>1, <1>2, StateOf, RunBegins
<1>4. CASE Beside(c, x, y)
  BY <1>3, <1>4 DEF Beside
<1>5. CASE Behind(c, x, y)
  <2>1. /\ y.line = fat(c, k) /\ x.zero = z /\ Pended(o, x.registers, x.ram, ss, mm)
    BY <1>5 DEF Behind
  <2>2. State(fat(c, k), ss, mm, z) \in Runs(F, y)
    BY <1>3, <2>1
  <2>3. /\ o.math => x.registers = ss /\ x.ram = Changed(mm, ss[1], o.value)
        /\ ~ o.math => x.registers = Moved(ss, o.value) /\ x.ram = mm
    BY <2>1 DEF Pended
  <2>4. o.math \in BOOLEAN /\ o.value \in Int
    BY <1>2 DEF Accumulating
  <2>9. /\ o.value = 0 => fpos(c, k) = fat(c, k)
        /\ o.value # 0 => fpos(c, k) = fat(c, k) + 1
    <3>1. c \in Seq(Assembly) /\ k \in 1 .. Len(c)
      BY <1>1, <1>2
    <3>. QED
      BY <3>1, PendingLength
  <2>5. CASE o.value = 0
    <3>1. fpos(c, k) = fat(c, k)
      BY <2>5, <2>9
    <3>2. Moved(ss, 0) = ss /\ Changed(mm, ss[1], 0) = mm
      BY <1>3, ChangesAddUp
    <3>3. x.registers = ss /\ x.ram = mm
      BY <2>3, <2>4, <2>5, <3>2
    <3>. QED
      BY <2>1, <2>2, <3>1, <3>3
  <2>6. CASE o.value # 0
    <3>1. fpos(c, k) = fat(c, k) + 1
      BY <2>6, <2>9
    <3>2. fat(c, k) \in 1 .. Len(F) /\ F[fat(c, k)] = Pending(o)[1]
      BY <1>2, <2>6, FoldedPlaces
    <3>3. PICK n \in Nat : StepBy(F[fat(c, k)], n)
      BY <1>2, <2>6, <3>2, PendingAdds, Zenon
    <3>4. /\ Amount(F[fat(c, k)]) = o.value
          /\ F[fat(c, k)].args[1] = IF o.math THEN AtA ELSE RegA
      BY <1>2, <2>6, <3>2, PendingAdds
    <3>. DEFINE f == fat(c, k)
                v == o.value
                l == F[f]
    <3>5. /\ l.args[1] = RegA => State(f + 1, Moved(ss, Amount(l)), mm, z) \in Runs(F, y)
          /\ l.args[1] = AtA => State(f + 1, ss, Changed(mm, ss[1], Amount(l)), z) \in Runs(F, y)
      BY <1>1, <1>2, <1>3, <2>2, <3>2, <3>3, StepLineSteps, Zenon
    <3>6. State(fpos(c, k), x.registers, x.ram, x.zero) = State(f + 1, x.registers, x.ram, z)
      BY <2>1, <3>1
    <3>10. Amount(l) = v /\ l.args[1] = IF o.math THEN AtA ELSE RegA
      BY <3>4
    <3>11. /\ o.math => x.registers = ss /\ x.ram = Changed(mm, ss[1], v)
           /\ ~ o.math => x.registers = Moved(ss, v) /\ x.ram = mm
      BY <2>3
    <3>. HIDE DEF F, k, ss, mm, z, f, l, o, v
    <3>7. CASE o.math
      <4>1. State(f + 1, ss, Changed(mm, ss[1], v), z) \in Runs(F, y)
        BY <3>5, <3>7, <3>10
      <4>. QED
        BY <3>6, <3>7, <3>11, <4>1 DEF k, F
    <3>8. CASE ~ o.math
      <4>1. State(f + 1, Moved(ss, v), mm, z) \in Runs(F, y)
        BY <3>5, <3>8, <3>10
      <4>. QED
        BY <3>6, <3>8, <3>11, <4>1 DEF k, F
    <3>. QED
      BY <3>7, <3>8 DEF F, k
  <2>. QED
    BY <2>5, <2>6
<1>. QED
  BY <1>1, <1>4, <1>5

\* Adding nothing is no difference.
LEMMA NothingPended ==
    ASSUME NEW o \in Accumulating, o.value = 0, NEW ss \in [Registers -> MemCell],
           NEW mm \in Tape
    PROVE  \A rs, mem : Pended(o, rs, mem, ss, mm) <=> rs = ss /\ mem = mm
<1>1. ss[1] \in MemCell
  BY DEF Registers
<1>2. Moved(ss, 0) = ss /\ Changed(mm, ss[1], 0) = mm
  BY <1>1, ChangesAddUp
<1>3. Moved(ss, o.value) = ss /\ Changed(mm, ss[1], o.value) = mm
  BY <1>2
<1>. QED
  BY <1>3 DEF Pended

\* A step that is added up is pending.
LEMMA StepPended ==
    ASSUME NEW o \in Accumulating, NEW l \in Assembly, StepBy(l, 1), Absorbed(o, l),
           NEW rs \in [Registers -> MemCell], NEW mem \in Tape,
           NEW ss \in [Registers -> MemCell], NEW mm \in Tape, Pended(o, rs, mem, ss, mm)
    PROVE  Pended(Folded(o, l), NewRegisters(l, rs), NewTape(l, rs, mem), ss, mm)
<1>. DEFINE p == Folded(o, l)
            v == o.value
            n == Amount(l)
<1>1. /\ p.value = v + Sign(l) /\ (p.math <=> IsStep(l, AtA))
      /\ v # 0 => (o.math <=> IsStep(l, AtA))
  BY FoldedLine, Zenon
<1>2. /\ l # Mov(RegA, Number(2)) /\ RegA # AtA
      /\ IsStep(l, RegA) <=> l.args[1] = RegA
      /\ IsStep(l, AtA) <=> l.args[1] = AtA
      /\ IsStep(l, AtA) \/ IsStep(l, RegA)
  <2>1. SimpleLine(l) /\ 1 \in Nat
    BY DEF SimpleLine
  <2>. QED
    BY <2>1, SimpleKinds, PlacesDiffer DEF Absorbed
<1>3. n = Sign(l) /\ n \in Int /\ v \in Int /\ p.value = v + n
  <2>1. l.args[2] = Number(1)
    BY ArgumentFields DEF StepBy
  <2>2. Number(1).value = 1
    BY DEF Number, Plain
  <2>3. Sign(l) \in Int
    BY DEF Sign
  <2>4. n = Sign(l) * 1
    BY <2>1, <2>2 DEF Amount
  <2>5. v \in Int
    BY DEF Accumulating
  <2>6. n = Sign(l)
    BY <2>3, <2>4
  <2>. QED
    BY <1>1, <2>3, <2>5, <2>6
<1>4. 1 \in Registers /\ ss[1] \in MemCell
  BY DEF Registers
<1>5. /\ Moved(ss, 0) = ss /\ Changed(mm, ss[1], 0) = mm
      /\ Moved(Moved(ss, v), n) = Moved(ss, v + n)
      /\ Changed(Changed(mm, ss[1], v), ss[1], n) = Changed(mm, ss[1], v + n)
  BY <1>3, <1>4, ChangesAddUp
<1>6. /\ o.math => rs = ss /\ mem = Changed(mm, ss[1], v)
      /\ ~ o.math => rs = Moved(ss, v) /\ mem = mm
      /\ v = 0 => rs = ss /\ mem = mm
  <2>1. /\ o.math => rs = ss /\ mem = Changed(mm, ss[1], v)
        /\ ~ o.math => rs = Moved(ss, v) /\ mem = mm
    BY DEF Pended
  <2>2. v = 0 => rs = ss /\ mem = mm
    BY NothingPended
  <2>. QED
    BY <2>1, <2>2
<1>7. ASSUME IsStep(l, AtA)
      PROVE  Pended(p, NewRegisters(l, rs), NewTape(l, rs, mem), ss, mm)
  <2>1. p.math /\ NewRegisters(l, rs) = rs /\ NewTape(l, rs, mem) = Changed(mem, rs[1], n)
    BY <1>1, <1>2, <1>7 DEF NewRegisters, NewTape
  <2>2. rs = ss /\ mem = Changed(mm, ss[1], v)
    <3>. HIDE DEF v
    <3>. QED
      BY <1>1, <1>5, <1>6, <1>7
  <2>3. Changed(mem, rs[1], n) = Changed(mm, ss[1], p.value)
    BY <1>3, <1>5, <2>2
  <2>. HIDE DEF p, n
  <2>. QED
    BY <2>1, <2>2, <2>3 DEF Pended
<1>8. ASSUME IsStep(l, RegA)
      PROVE  Pended(p, NewRegisters(l, rs), NewTape(l, rs, mem), ss, mm)
  <2>1. ~ p.math /\ NewRegisters(l, rs) = Moved(rs, n) /\ NewTape(l, rs, mem) = mem
    BY <1>1, <1>2, <1>8 DEF NewRegisters, NewTape
  <2>2. rs = Moved(ss, v) /\ mem = mm
    <3>1. v # 0 => ~ o.math
      BY <1>1, <1>2, <1>8
    <3>. HIDE DEF v
    <3>. QED
      BY <1>5, <1>6, <3>1
  <2>3. Moved(rs, n) = Moved(ss, p.value)
    BY <1>3, <1>5, <2>2
  <2>. HIDE DEF p, n
  <2>. QED
    BY <2>1, <2>2, <2>3 DEF Pended
<1>. QED
  BY <1>2, <1>7, <1>8

\* What a simple line does, the folded code does too, or it is pending.
LEMMA SimpleFollows ==
    ASSUME NEW c, Sound(c), UnitSteps(c), NEW x, NEW y, <<x, y>> \in InStep(c),
           SimpleLine(c[x.line])
    PROVE  \E w \in Runs(c, x), u \in Runs(apply_optimizations(c), y) :
              w.line # x.line /\ <<w, u>> \in InStep(c)
<1>. DEFINE F == apply_optimizations(c)
            k == x.line
            l == c[k]
            o == Folding(c)[k - 1]
            rs == x.registers
            mem == x.ram
            w == State(k + 1, NewRegisters(l, rs), NewTape(l, rs, mem), NewZero(l, rs, mem, x.zero))
<1>1. /\ x \in Machines(c) /\ y \in Machines(F) /\ k \in 1 .. Len(c)
      /\ Behind(c, x, y) \/ Beside(c, x, y)
  BY DEF InStep
<1>2. /\ Ends(c) /\ c \in Seq(Assembly) /\ Runnable(c) /\ Runnable(F)
      /\ o \in Accumulating /\ Len(c) \in Nat
  BY <1>1, FoldSound DEF Ends
<1>3. /\ x = State(k, rs, mem, x.zero) /\ rs \in [Registers -> MemCell] /\ mem \in Tape
      /\ x.zero \in BOOLEAN /\ x \in Runs(c, x)
      /\ y.registers \in [Registers -> MemCell] /\ y.ram \in Tape /\ y \in Runs(F, y)
  BY <1>1, <1>2, StateOf, RunBegins
<1>4. w \in Runs(c, x) /\ w \in Machines(c) /\ w.line = k + 1
  <2>1. w \in Runs(c, x)
    BY <1>1, <1>2, <1>3, SimpleSteps
  <2>. QED
    BY <1>1, <1>2, <2>1, RunBegins DEF State
<1>5. k + 1 \in 1 .. Len(c) /\ w.line # k
  <2>1. ~ Stopping(l) /\ c[Len(c)] = HaltLine
    BY <1>2, SimpleKinds DEF Ends
  <2>2. k # Len(c)
    BY <2>1 DEF Stopping
  <2>. QED
    BY <1>1, <1>2, <1>4, <2>2
<1>6. /\ w.registers = NewRegisters(l, rs) /\ w.ram = NewTape(l, rs, mem)
      /\ w.zero = NewZero(l, rs, mem, x.zero)
  BY DEF State
<1>7. (k + 1) - 1 = k
  BY <1>1
<1>. DEFINE p == Folding(c)[k]
<1>8. ASSUME NEW u \in Runs(F, y), u.line = fat(c, k + 1), u.zero = w.zero,
             Pended(p, w.registers, w.ram, u.registers, u.ram)
      PROVE  <<w, u>> \in InStep(c)
  <2>1. u \in Machines(F)
    BY <1>1, <1>2, RunBegins
  <2>2. Behind(c, w, u)
    <3>. HIDE DEF w
    <3>. QED
      BY <1>4, <1>7, <1>8 DEF Behind
  <2>. HIDE DEF w
  <2>. QED
    BY <1>4, <1>5, <2>1, <2>2 DEF InStep
<1>9. p = Folded(o, l) /\ l \in Assembly /\ p \in Accumulating
  BY <1>1, <1>2, FoldingRuns, StayingLine
<1>10. CASE ~ Stays(c, k)
  <2>1. Absorbed(o, l) /\ fat(c, k + 1) = fat(c, k)
    BY <1>1, <1>2, <1>10, StayingLine, Zenon
  <2>2. Behind(c, x, y)
    BY <1>1, <1>10 DEF Beside
  <2>3. /\ y.line = fat(c, k) /\ x.zero = y.zero /\ Pended(o, rs, mem, y.registers, y.ram)
    BY <2>2 DEF Behind
  <2>4. StepBy(l, 1)
    BY <1>1, <2>1, Zenon DEF Absorbed, UnitSteps, Places
  <2>5. Pended(p, w.registers, w.ram, y.registers, y.ram)
    <3>1. Pended(Folded(o, l), NewRegisters(l, rs), NewTape(l, rs, mem), y.registers, y.ram)
      BY <1>2, <1>3, <1>9, <2>1, <2>3, <2>4, StepPended, Zenon
    <3>. HIDE DEF w, p, o
    <3>. QED
      BY <1>6, <1>9, <3>1
  <2>6. l # Test
    <3>. HIDE DEF l
    <3>1. 1 \in Nat
      OBVIOUS
    <3>. QED
      BY <2>4, <3>1, SimpleKinds DEF SimpleLine
  <2>7. w.zero = y.zero
    BY <1>6, <2>3, <2>6 DEF NewZero
  <2>8. <<w, y>> \in InStep(c)
    <3>. HIDE DEF w, p
    <3>. QED
      BY <1>3, <1>8, <2>1, <2>3, <2>5, <2>7
  <2>. HIDE DEF w
  <2>. QED
    BY <1>3, <1>4, <1>5, <2>8, Zenon
<1>11. CASE Stays(c, k)
  <2>. DEFINE f == fpos(c, k)
              u == State(f + 1, NewRegisters(l, rs), NewTape(l, rs, mem),
                         NewZero(l, rs, mem, x.zero))
  <2>1. State(f, rs, mem, x.zero) \in Runs(F, y)
    BY <1>11, CatchUp
  <2>2. f \in 1 .. Len(F) /\ F[f] = l
    BY <1>2, <1>11, FoldedPlaces
  <2>3. u \in Runs(F, y)
    <3>. HIDE DEF f
    <3>1. SimpleLine(F[f])
      BY <2>2
    <3>2. State(f + 1, NewRegisters(F[f], rs), NewTape(F[f], rs, mem),
                NewZero(F[f], rs, mem, x.zero)) \in Runs(F, y)
      BY <1>1, <1>2, <1>3, <2>1, <2>2, <3>1, SimpleSteps, Zenon
    <3>. QED
      BY <2>2, <3>2
  <2>4. fat(c, k + 1) = f + 1 /\ p.value = 0
    BY <1>1, <1>2, <1>11, StayingLine, Zenon
  <2>5. u.line = f + 1 /\ u.registers = w.registers /\ u.ram = w.ram /\ u.zero = w.zero
    BY <1>6 DEF State
  <2>6. Pended(p, w.registers, w.ram, u.registers, u.ram)
    <3>1. w.registers \in [Registers -> MemCell] /\ w.ram \in Tape
      BY <1>4 DEF Machines
    <3>. HIDE DEF w, u, p
    <3>2. Pended(p, w.registers, w.ram, w.registers, w.ram)
      BY <1>9, <2>4, <3>1, NothingPended
    <3>. QED
      BY <2>5, <3>2
  <2>7. <<w, u>> \in InStep(c)
    <3>. HIDE DEF w, u, p
    <3>. QED
      BY <1>8, <2>3, <2>4, <2>5, <2>6
  <2>. HIDE DEF w, u
  <2>. QED
    BY <1>4, <1>5, <2>3, <2>7
<1>. QED
  BY <1>10, <1>11

\* Where a jump leads, before the folding and after it.
LEMMA JumpTargets ==
    ASSUME NEW c, Sound(c), NEW k \in 1 .. Len(c), NEW id \in Nat, NEW q,
           \/ c[k] = Je(close_par(id)) /\ q = close_par(id)
           \/ c[k] = Jne(start_par(id)) /\ q = start_par(id)
    PROVE  LET t == LabelAt(c, q)
           IN  /\ t \in 1 .. Len(c) /\ t # k /\ Stays(c, t)
               /\ LabelAt(apply_optimizations(c), q) = fpos(c, t)
<1>1. Sound(apply_optimizations(c)) /\ Ends(c)
  BY FoldSound
<1>2. CASE c[k] = Je(close_par(id)) /\ q = close_par(id)
  <2>6. Opens(c, k - 2, id)
    BY <1>2 DEF Sound
  <2>7. k - 2 \in 1 .. Len(c)
    BY <2>6 DEF Opens
  <2>1. PICK t : Closes(c, t, id)
    BY <2>6, <2>7 DEF Sound
  <2>2. LabelAt(c, q) = t
    BY <1>2, <2>1, BlockLabels
  <2>3. Closes(apply_optimizations(c), fpos(c, t), id) /\ Stays(c, t)
    BY <1>1, <2>1, BlocksFold
  <2>4. LabelAt(apply_optimizations(c), q) = fpos(c, t)
    BY <1>1, <1>2, <2>3, BlockLabels
  <2>5. t \in 1 .. Len(c) /\ c[t] = Label(close_par(id))
    BY <2>1 DEF Closes
  <2>8. t # k
    BY <1>2, <2>5, LinesDiffer
  <2>. QED
    BY <2>2, <2>3, <2>4, <2>5, <2>8
<1>3. CASE c[k] = Jne(start_par(id)) /\ q = start_par(id)
  <2>6. Closes(c, k - 2, id)
    BY <1>3 DEF Sound
  <2>7. k - 2 \in 1 .. Len(c)
    BY <2>6 DEF Closes
  <2>1. PICK t : Opens(c, t, id)
    BY <2>6, <2>7 DEF Sound
  <2>2. LabelAt(c, q) = t
    BY <1>3, <2>1, BlockLabels
  <2>3. Opens(apply_optimizations(c), fpos(c, t), id) /\ Stays(c, t)
    BY <1>1, <2>1, BlocksFold
  <2>4. LabelAt(apply_optimizations(c), q) = fpos(c, t)
    BY <1>1, <1>3, <2>3, BlockLabels
  <2>5. t \in 1 .. Len(c) /\ c[t] = Label(start_par(id))
    BY <2>1 DEF Opens
  <2>8. t # k
    BY <1>3, <2>5, LinesDiffer
  <2>. QED
    BY <2>2, <2>3, <2>4, <2>5, <2>8
<1>. QED
  BY <1>2, <1>3

\* A jump leads to the same label, or on to the next line.
LEMMA JumpFollows ==
    ASSUME NEW c, Sound(c), NEW x, NEW y, <<x, y>> \in InStep(c), IsJump(c[x.line])
    PROVE  \E w \in Runs(c, x), u \in Runs(apply_optimizations(c), y) :
              w.line # x.line /\ <<w, u>> \in InStep(c)
<1>. DEFINE F == apply_optimizations(c)
            k == x.line
            l == c[k]
            rs == x.registers
            mem == x.ram
            z == x.zero
            f == fpos(c, k)
<1>1. x \in Machines(c) /\ y \in Machines(F) /\ k \in 1 .. Len(c)
  BY DEF InStep
<1>2. /\ Ends(c) /\ c \in Seq(Assembly) /\ Runnable(c) /\ Runnable(F) /\ Len(c) \in Nat
  BY <1>1, FoldSound DEF Ends
<1>3. /\ x = State(k, rs, mem, z) /\ rs \in [Registers -> MemCell] /\ mem \in Tape
      /\ z \in BOOLEAN /\ x \in Runs(c, x)
  BY <1>1, <1>2, StateOf, RunBegins
<1>4. PICK id \in Nat : l = Je(close_par(id)) \/ l = Jne(start_par(id))
  BY DEF IsJump
<1>5. Stays(c, k) /\ ~ Stopping(l)
  <2>1. l.what \notin {ADD, SUB} /\ ~ Stopping(l)
    BY <1>4, Fields DEF ADD, SUB, Stopping
  <2>. QED
    BY <1>1, <1>2, <2>1, OthersStay
<1>6. k + 1 \in 1 .. Len(c)
  <2>1. k # Len(c)
    BY <1>2, <1>5 DEF Stopping, Ends
  <2>. QED
    BY <1>1, <1>2, <2>1
<1>7. State(f, rs, mem, z) \in Runs(F, y)
  BY <1>5, CatchUp
<1>8. f \in 1 .. Len(F) /\ F[f] = l
  BY <1>2, <1>5, FoldedPlaces
<1>. DEFINE p == Folding(c)[k]
<1>9. p \in Accumulating /\ p.value = 0 /\ fat(c, k + 1) = f + 1 /\ (k + 1) - 1 = k
  <2>1. p \in Accumulating /\ p.value = 0 /\ fat(c, k + 1) = f + 1
    BY <1>1, <1>2, <1>5, StayingLine, Zenon
  <2>. QED
    BY <1>1, <2>1
<1>10. /\ \A q : /\ State(q, rs, mem, z).line = q /\ State(q, rs, mem, z).registers = rs
                 /\ State(q, rs, mem, z).ram = mem /\ State(q, rs, mem, z).zero = z
  BY DEF State
<1>11. \A q, r : /\ State(q, rs, mem, z) \in Runs(c, x) => State(q, rs, mem, z) \in Machines(c)
                 /\ State(r, rs, mem, z) \in Runs(F, y) => State(r, rs, mem, z) \in Machines(F)
  BY <1>1, <1>2, RunBegins
<1>12. ASSUME State(k + 1, rs, mem, z) \in Runs(c, x), State(f + 1, rs, mem, z) \in Runs(F, y)
       PROVE  \E w \in Runs(c, x), u \in Runs(F, y) : w.line # k /\ <<w, u>> \in InStep(c)
  <2>. DEFINE w == State(k + 1, rs, mem, z)
              u == State(f + 1, rs, mem, z)
  <2>1. w \in Machines(c) /\ u \in Machines(F) /\ w.line = k + 1 /\ w.line # k
    BY <1>1, <1>10, <1>11, <1>12
  <2>2. Pended(p, rs, mem, rs, mem)
    <3>. HIDE DEF p
    <3>. QED
      BY <1>3, <1>9, NothingPended
  <2>3. Behind(c, w, u)
    BY <1>9, <1>10, <2>2 DEF Behind
  <2>. HIDE DEF w, u, F
  <2>4. <<w, u>> \in InStep(c)
    BY <1>6, <2>1, <2>3 DEF InStep, F
  <2>. QED
    BY <1>12, <2>1, <2>4 DEF w, u
<1>13. ASSUME NEW t \in 1 .. Len(c), t # k, Stays(c, t), State(t, rs, mem, z) \in Runs(c, x),
              State(fpos(c, t), rs, mem, z) \in Runs(F, y)
       PROVE  \E w \in Runs(c, x), u \in Runs(F, y) : w.line # k /\ <<w, u>> \in InStep(c)
  <2>. DEFINE w == State(t, rs, mem, z)
              u == State(fpos(c, t), rs, mem, z)
  <2>1. w \in Machines(c) /\ u \in Machines(F) /\ w.line = t /\ w.line # k
    BY <1>10, <1>11, <1>13
  <2>2. Beside(c, w, u)
    BY <1>10, <1>13 DEF Beside
  <2>. HIDE DEF w, u, F
  <2>3. <<w, u>> \in InStep(c)
    BY <1>13, <2>1, <2>2 DEF InStep, F
  <2>. QED
    BY <1>13, <2>1, <2>3 DEF w, u
<1>14. ASSUME NEW q, NEW e \in BOOLEAN,
              \/ l = Je(q) /\ e = (z = TRUE)
              \/ l = Jne(q) /\ e = (z = FALSE)
       PROVE  /\ State(IF e THEN LabelAt(c, q) ELSE k + 1, rs, mem, z) \in Runs(c, x)
              /\ State(IF e THEN LabelAt(F, q) ELSE f + 1, rs, mem, z) \in Runs(F, y)
  <2>1. State(k, rs, mem, z) \in Runs(c, x)
    BY <1>3, Zenon
  <2>2. \A j : /\ l = Je(j) => State(IF z = TRUE THEN LabelAt(c, j) ELSE k + 1, rs, mem, z) \in Runs(c, x)
               /\ l = Jne(j) => State(IF z = FALSE THEN LabelAt(c, j) ELSE k + 1, rs, mem, z) \in Runs(c, x)
    BY <1>1, <1>2, <2>1, LineSteps, Zenon
  <2>3. \A j : /\ F[f] = Je(j) => State(IF z = TRUE THEN LabelAt(F, j) ELSE f + 1, rs, mem, z) \in Runs(F, y)
               /\ F[f] = Jne(j) => State(IF z = FALSE THEN LabelAt(F, j) ELSE f + 1, rs, mem, z) \in Runs(F, y)
    <3>. HIDE DEF F, f
    <3>. QED
      BY <1>1, <1>2, <1>7, <1>8, LineSteps, Zenon
  <2>. HIDE DEF F, f, l, k, rs, mem, z
  <2>. QED
    BY <1>8, <1>14, <2>2, <2>3, Zenon
<1>15. ASSUME NEW q, NEW e \in BOOLEAN,
              \/ l = Je(q) /\ e = (z = TRUE)
              \/ l = Jne(q) /\ e = (z = FALSE),
              LET t == LabelAt(c, q)
              IN  t \in 1 .. Len(c) /\ t # k /\ Stays(c, t) /\ LabelAt(F, q) = fpos(c, t)
       PROVE  \E w \in Runs(c, x), u \in Runs(F, y) : w.line # k /\ <<w, u>> \in InStep(c)
  <2>. DEFINE t == LabelAt(c, q)
  <2>1. t \in 1 .. Len(c) /\ t # k /\ Stays(c, t) /\ LabelAt(F, q) = fpos(c, t)
    BY <1>15
  <2>2. /\ State(IF e THEN t ELSE k + 1, rs, mem, z) \in Runs(c, x)
        /\ State(IF e THEN fpos(c, t) ELSE f + 1, rs, mem, z) \in Runs(F, y)
    <3>1. /\ State(IF e THEN LabelAt(c, q) ELSE k + 1, rs, mem, z) \in Runs(c, x)
          /\ State(IF e THEN LabelAt(F, q) ELSE f + 1, rs, mem, z) \in Runs(F, y)
      BY <1>14, <1>15, Zenon
    <3>. HIDE DEF F, f, k, rs, mem, z
    <3>. QED
      BY <2>1, <3>1
  <2>. HIDE DEF t, F, f, k, rs, mem, z
  <2>3. CASE e
    BY <1>13, <2>1, <2>2, <2>3, Zenon
  <2>4. CASE ~ e
    BY <1>12, <2>2, <2>4
  <2>. QED
    BY <2>3, <2>4
<1>16. CASE l = Je(close_par(id))
  <2>1. LET t == LabelAt(c, close_par(id))
        IN  t \in 1 .. Len(c) /\ t # k /\ Stays(c, t) /\ LabelAt(F, close_par(id)) = fpos(c, t)
    BY <1>1, <1>16, JumpTargets
  <2>2. (z = TRUE) \in BOOLEAN
    OBVIOUS
  <2>. HIDE DEF F, k, l, z
  <2>. QED
    BY <1>15, <1>16, <2>1, <2>2, Zenon DEF F, k
<1>17. CASE l = Jne(start_par(id))
  <2>1. LET t == LabelAt(c, start_par(id))
        IN  t \in 1 .. Len(c) /\ t # k /\ Stays(c, t) /\ LabelAt(F, start_par(id)) = fpos(c, t)
    BY <1>1, <1>17, JumpTargets
  <2>2. (z = FALSE) \in BOOLEAN
    OBVIOUS
  <2>. HIDE DEF F, k, l, z
  <2>. QED
    BY <1>15, <1>17, <2>1, <2>2, Zenon DEF F, k
<1>. QED
  BY <1>4, <1>16, <1>17

\* Where the lines stop the folded code stops, with the same state.
LEMMA StopFollows ==
    ASSUME NEW c, Sound(c), NEW x, NEW y, <<x, y>> \in InStep(c), Stopping(c[x.line])
    PROVE  \E u \in Runs(apply_optimizations(c), y) :
              /\ <<x, u>> \in InStep(c) /\ u \notin Running(apply_optimizations(c))
              /\ Beside(c, x, u)
<1>. DEFINE F == apply_optimizations(c)
            k == x.line
            f == fpos(c, k)
            u == State(f, x.registers, x.ram, x.zero)
<1>1. x \in Machines(c) /\ y \in Machines(F) /\ k \in 1 .. Len(c)
  BY DEF InStep
<1>2. Ends(c) /\ c \in Seq(Assembly) /\ Runnable(F)
  BY FoldSound DEF Ends
<1>3. Stays(c, k)
  <2>1. c[k].what \notin {ADD, SUB}
    BY Fields DEF ADD, SUB, Stopping
  <2>. QED
    BY <1>1, <1>2, <2>1, OthersStay
<1>4. u \in Runs(F, y) /\ u \in Machines(F)
  <2>1. u \in Runs(F, y)
    BY <1>3, CatchUp
  <2>. QED
    BY <1>1, <1>2, <2>1, RunBegins
<1>5. u.line = f /\ F[f] = c[k] /\ Beside(c, x, u)
  BY <1>2, <1>3, FoldedPlaces DEF State, Beside
<1>6. u \notin Running(F)
  <2>. HIDE DEF u
  <2>. QED
    BY <1>5 DEF Running
<1>. HIDE DEF u, F
<1>7. <<x, u>> \in InStep(c)
  BY <1>1, <1>4, <1>5 DEF InStep, F
<1>. QED
  BY <1>4, <1>5, <1>6, <1>7 DEF F

\* The folded code follows the lines: what is pending is made up for before every line
\* that is not added up, so before every label, jump and line that stops.
THEOREM FoldsFollow ==
    ASSUME NEW c, Sound(c), UnitSteps(c)
    PROVE  Simulates(InStep(c), Machines(c), Running(c), RunningOn(c),
                   Machines(apply_optimizations(c)), Running(apply_optimizations(c)),
                   RunningOn(apply_optimizations(c)))
<1>. DEFINE F == apply_optimizations(c)
            R == InStep(c)
<1>1. Runnable(c) /\ Runnable(F)
  BY FoldSound
<1>2. \A xy \in R : xy = <<xy[1], xy[2]>> /\ xy[1].line \in 1 .. Len(c)
  BY DEF InStep
<1>3. ASSUME NEW x \in Machines(c), NEW y \in Machines(F), <<x, y>> \in R, x \notin Running(c)
      PROVE  \E u \in Runs(F, y) : u \notin Running(F) /\ <<x, u>> \in R
  <2>1. x.line \in 1 .. Len(c)
    BY <1>3 DEF InStep
  <2>2. x.line =< Len(c)
    BY <2>1
  <2>3. Stopping(c[x.line])
    BY <1>3, <2>2 DEF Running
  <2>. QED
    BY <1>3, <2>3, StopFollows
<1>4. ASSUME NEW x \in Machines(c), NEW y \in Machines(F), <<x, y>> \in R, x \in Running(c)
      PROVE  \E z \in Way(Machines(c), Running(c), RunningOn(c), RunningOn(c)[x]) :
                \E u \in Runs(F, y) : <<z, u>> \in R
  <2>1. x.line \in 1 .. Len(c) /\ ~ Stopping(c[x.line])
    BY <1>4 DEF InStep, Running
  <2>2. SimpleLine(c[x.line]) \/ IsJump(c[x.line])
    BY <2>1, SoundLineIs
  <2>3. \E w \in Runs(c, x), u \in Runs(F, y) : w.line # x.line /\ <<w, u>> \in R
    BY <1>4, <2>2, SimpleFollows, JumpFollows, Zenon
  <2>4. PICK w \in Runs(c, x) : \E u \in Runs(F, y) : w.line # x.line /\ <<w, u>> \in R
    BY <2>3
  <2>5. w # x
    BY <2>4
  <2>6. w \in Way(Machines(c), Running(c), RunningOn(c), RunningOn(c)[x])
    BY <1>1, <2>5, RunFirst
  <2>. QED
    BY <2>4, <2>6
<1>5. R \in SUBSET (Machines(c) \X Machines(F))
  BY DEF InStep
<1>. HIDE DEF F, R
<1>6. Simulates(R, Machines(c), Running(c), RunningOn(c), Machines(F), Running(F), RunningOn(F))
  BY <1>3, <1>4, <1>5, Zenon DEF Simulates, Runs
<1>. QED
  BY <1>6 DEF F, R

\* compile writes steps by one only.
LEMMA LinesAreUnit ==
    ASSUME NEW text, Program(text)
    PROVE  UnitSteps(Lines(text))
<1>. SUFFICES ASSUME NEW q \in 1 .. Len(Lines(text)), NEW p \in Places, IsStep(Lines(text)[q], p)
              PROVE  StepBy(Lines(text)[q], 1)
  BY DEF UnitSteps
<1>. DEFINE l == Lines(text)[q]
<1>1. l.kind = "instruction" /\ l.what \in {ADD, SUB}
  BY DEF IsStep
<1>2. \/ l = HaltLine \/ PlainLine(l) \/ StepBy(l, 1)
      \/ \E x : l = Label(x) \/ l = Je(x) \/ l = Jne(x)
  BY LineCases
<1>. SUFFICES StepBy(l, 1)
  OBVIOUS
<1>. HIDE DEF l
<1>3. l # HaltLine /\ ~ PlainLine(l)
  BY <1>1, Fields DEF PlainLine, ADD, SUB
<1>4. \A x : l # Label(x) /\ l # Je(x) /\ l # Jne(x)
  BY <1>1, Fields DEF ADD, SUB
<1>. QED
  BY <1>2, <1>3, <1>4

-----------------------------------------------------------------------------
(* What modifications at offsets add to each cell.                            *)

\* What a step adds it adds at the pointer's offset.
LEMMA SpreadStep ==
    ASSUME NEW mem \in Tape, NEW p \in MemCell, NEW a \in Modifying, NEW l, NEW n \in Nat,
           StepBy(l, n), l.args[1] = AtA, a.ptr \in Span
    PROVE  Spread(mem, Analyzed(a, l).mods, p, 1)
              = Changed(Spread(mem, a.mods, p, 1), Cell(p + a.ptr), Amount(l))
<1>. DEFINE k == Amount(l)
            t == Analyzed(a, l).mods
            q == a.ptr
            m == a.mods
<1>1. m \in Mods /\ q \in Int /\ t \in Mods /\ k \in Int
  <2>1. Analyzed(a, l) \in Modifying /\ k \in Int
    BY AnalyzedLine, AmountType
  <2>. QED
    BY <2>1 DEF Modifying
<1>2. \A o \in Int : Added(t, o) = Added(m, o) + (IF o = q THEN k ELSE 0)
  <2>1. \A o \in Int : Added(t, o) = IF o = q THEN Added(m, o) + k ELSE Added(m, o)
    BY AnalyzedLine
  <2>. HIDE DEF t, m, k, q
  <2>2. \A o \in Int : Added(m, o) \in Int
    BY <1>1, AddedType
  <2>3. \A o \in Int : Added(m, o) + 0 = Added(m, o)
    BY <2>2
  <2>. QED
    BY <2>1, <2>3
<1>3. 1 \in Int /\ 1 * k = k
  BY <1>1
<1>. HIDE DEF t, m, k
<1>4. \A j \in Int : Spread(mem, t, p, j) = Changed(Spread(mem, m, p, j), Cell(p + q), j * k)
  BY <1>1, <1>2, SpreadChanges
<1>. QED
  BY <1>3, <1>4 DEF t, m, k

\* Offsets that were modified stay so.
LEMMA ModifiedOffsets ==
    ASSUME NEW body, StepsOnly(body), NEW k \in 1 .. Len(body)
    PROVE  /\ DOMAIN Analyzing(body)[k].mods \subseteq DOMAIN Analysis(body).mods
           /\ body[k].args[1] = AtA => Analyzing(body)[k - 1].ptr \in DOMAIN Analysis(body).mods
<1>. DEFINE n == Len(body)
            A == Analyzing(body)
            D(j) == DOMAIN A[j].mods
            kept == {j \in k .. n : D(k) \subseteq D(j)}
<1>1. n \in Nat /\ k \in Int /\ n \in Int /\ k =< n
  BY LenProperties DEF StepsOnly
<1>2. /\ \A j \in 0 .. n : A[j] \in Modifying
      /\ \A j \in 1 .. n : A[j] = Analyzed(A[j - 1], body[j])
  BY AnalyzingRuns, Zenon
<1>3. ASSUME NEW j \in 1 .. n
      PROVE  /\ D(j - 1) \subseteq D(j)
             /\ body[j].args[1] = AtA => A[j - 1].ptr \in D(j)
  <2>1. j - 1 \in 0 .. n
    BY <1>1
  <2>2. PICK i \in Nat : StepBy(body[j], i)
    BY DEF StepsOnly
  <2>3. body[j].args[1] = RegA \/ body[j].args[1] = AtA
    BY <2>2, AmountType DEF Places
  <2>4. A[j - 1] \in Modifying /\ A[j] = Analyzed(A[j - 1], body[j])
    BY <1>2, <2>1
  <2>. HIDE DEF A
  <2>. QED
    BY <2>2, <2>3, <2>4, AnalyzedLine, PlacesDiffer
<1>. HIDE DEF A
<1>4. k \in kept
  BY <1>1
<1>5. ASSUME NEW j \in (k + 1) .. n, j - 1 \in kept PROVE j \in kept
  <2>1. j \in 1 .. n /\ j \in k .. n
    BY <1>1
  <2>2. D(j - 1) \subseteq D(j)
    BY <1>3, <2>1
  <2>. QED
    BY <1>5, <2>1, <2>2
<1>6. \A j \in k .. n : j \in kept
  <2>. HIDE DEF kept, n
  <2>. QED
    BY <1>1, <1>4, <1>5, UpTo
<1>7. n \in kept
  BY <1>1, <1>6
<1>8. A[n] = Analysis(body)
  BY DEF Analysis, A
<1>9. k \in 1 .. n
  OBVIOUS
<1>10. body[k].args[1] = AtA => A[k - 1].ptr \in D(k)
  BY <1>3, <1>9
<1>. QED
  BY <1>7, <1>8, <1>10 DEF A

\* The body of a loop does to the tape what its analysis says.
LEMMA BodyRuns ==
    ASSUME NEW c, Runnable(c), NEW x \in Machines(c), NEW i \in Int, NEW body, StepsOnly(body),
           \A k \in 1 .. Len(body) : body[k] = c[i + k] /\ i + k \in 1 .. Len(c),
           DOMAIN Analysis(body).mods \subseteq Span,
           NEW rs \in [Registers -> MemCell], NEW mem \in Tape, NEW z,
           State(i + 1, rs, mem, z) \in Runs(c, x)
    PROVE  State(i + 1 + Len(body), Moved(rs, Analysis(body).ptr),
                 Spread(mem, Analysis(body).mods, rs[1], 1), z) \in Runs(c, x)
<1>. DEFINE n == Len(body)
            A == Analyzing(body)
            p == rs[1]
            at_(k) == State(i + 1 + k, Moved(rs, A[k].ptr), Spread(mem, A[k].mods, p, 1), z)
            done == {k \in 0 .. n : at_(k) \in Runs(c, x)}
<1>1. n \in Nat /\ n \in Int /\ 0 \in Int /\ 0 =< n
  BY LenProperties DEF StepsOnly
<1>2. /\ \A j \in 0 .. n : A[j] \in Modifying
      /\ A[0] = [ptr |-> 0, mods |-> <<>>]
      /\ \A j \in 1 .. n : A[j] = Analyzed(A[j - 1], body[j])
  BY AnalyzingRuns, Zenon
<1>3. p \in MemCell
  BY DEF Registers
<1>4. 0 \in done
  <2>1. Moved(rs, 0) = rs
    BY <1>3, ChangesAddUp
  <2>2. Spread(mem, <<>>, p, 1) = mem
    <3>1. 1 \in Int
      OBVIOUS
    <3>. QED
      BY <3>1, SpreadTypes, Zenon
  <2>3. A[0].ptr = 0 /\ A[0].mods = <<>> /\ i + 1 + 0 = i + 1
    BY <1>2
  <2>. HIDE DEF A, p
  <2>4. at_(0) = State(i + 1, rs, mem, z)
    BY <2>1, <2>2, <2>3
  <2>. QED
    BY <1>1, <2>4
<1>5. ASSUME NEW k \in (0 + 1) .. n, k - 1 \in done PROVE k \in done
  <2>1. k \in 1 .. n /\ k - 1 \in 0 .. n /\ k \in 0 .. n /\ i + 1 + (k - 1) = i + k
        /\ (i + k) + 1 = i + 1 + k
    BY <1>1
  <2>2. PICK h \in Nat : StepBy(body[k], h)
    BY <2>1 DEF StepsOnly
  <2>. DEFINE a == A[k - 1]
              l == body[k]
              rr == Moved(rs, a.ptr)
              mm == Spread(mem, a.mods, p, 1)
  <2>3. a \in Modifying /\ A[k] = Analyzed(a, l) /\ l = c[i + k] /\ i + k \in 1 .. Len(c)
    BY <1>2, <2>1, Zenon
  <2>4. a.ptr \in Int /\ a.mods \in Mods
    BY <2>3 DEF Modifying
  <2>5. rr \in [Registers -> MemCell] /\ rr[1] = Cell(p + a.ptr) /\ mm \in Tape
    <3>1. rr \in [Registers -> MemCell] /\ rr[1] = Cell(p + a.ptr)
      BY <2>4, ChangeTypes
    <3>2. mm \in Tape
      <4>1. 1 \in Int
        OBVIOUS
      <4>. QED
        BY <2>4, <4>1, SpreadTypes, Zenon
    <3>. QED
      BY <3>1, <3>2
  <2>6. State(i + k, rr, mm, z) \in Runs(c, x)
    BY <1>5, <2>1
  <2>7. Amount(l) \in Int /\ (l.args[1] = RegA \/ l.args[1] = AtA)
    BY <2>2, AmountType DEF Places
  <2>8. /\ l.args[1] = RegA => State((i + k) + 1, Moved(rr, Amount(l)), mm, z) \in Runs(c, x)
        /\ l.args[1] = AtA => State((i + k) + 1, rr, Changed(mm, rr[1], Amount(l)), z) \in Runs(c, x)
    <3>1. StepBy(c[i + k], h) /\ l = c[i + k]
      BY <2>2, <2>3
    <3>. HIDE DEF l, rr, mm
    <3>. QED
      BY <2>3, <2>5, <2>6, <3>1, StepLineSteps
  <2>9. CASE l.args[1] = RegA
    <3>1. A[k].ptr = a.ptr + Amount(l) /\ A[k].mods = a.mods
      BY <2>2, <2>3, <2>9, AnalyzedLine
    <3>2. Moved(rr, Amount(l)) = Moved(rs, a.ptr + Amount(l))
      <4>1. /\ Changed(mem, p, 0) = mem
            /\ \A u, v \in Int : Moved(Moved(rs, u), v) = Moved(rs, u + v)
        BY <1>3, ChangesAddUp
      <4>. HIDE DEF a, l
      <4>. QED
        BY <2>4, <2>7, <4>1, Zenon
    <3>. HIDE DEF A, p, rr, mm, a, l
    <3>3. at_(k) = State((i + k) + 1, Moved(rr, Amount(l)), mm, z)
      BY <2>1, <3>1, <3>2 DEF mm
    <3>. QED
      BY <2>1, <2>8, <2>9, <3>3
  <2>10. CASE l.args[1] = AtA
    <3>1. A[k].ptr = a.ptr
      BY <2>2, <2>3, <2>10, AnalyzedLine
    <3>2. a.ptr \in Span
      <4>1. A[k - 1].ptr \in DOMAIN Analysis(body).mods
        BY <2>1, <2>10, ModifiedOffsets
      <4>. QED
        BY <4>1
    <3>3. Spread(mem, Analyzed(a, l).mods, p, 1) = Changed(mm, Cell(p + a.ptr), Amount(l))
      BY <1>3, <2>2, <2>3, <2>10, <3>2, SpreadStep
    <3>. HIDE DEF A, p, a, l
    <3>4. at_(k) = State((i + k) + 1, rr, Changed(mm, rr[1], Amount(l)), z)
      BY <2>1, <2>3, <2>5, <3>1, <3>3
    <3>. HIDE DEF rr, mm
    <3>. QED
      BY <2>1, <2>8, <2>10, <3>4
  <2>. QED
    BY <2>7, <2>9, <2>10, Zenon
<1>6. \A k \in 0 .. n : k \in done
  <2>. HIDE DEF done, n
  <2>. QED
    BY <1>1, <1>4, <1>5, UpTo, Zenon
<1>7. n \in 0 .. n
  BY <1>1
<1>8. at_(n) \in Runs(c, x)
  BY <1>6, <1>7
<1>9. A[n] = Analysis(body)
  BY DEF Analysis
<1>. QED
  BY <1>8, <1>9

\* A loop that counts down the cell it starts at does the rest of its body as many times.
LEMMA LoopRuns ==
    ASSUME NEW c, Sound(c), NEW x \in Machines(c), NEW i, NEW id, NEW r,
           Opens(c, i, id), Closes(c, r, id), NEW body, StepsOnly(body),
           r = i + 3 + Len(body),
           \A k \in 1 .. Len(body) : body[k] = c[i + 2 + k] /\ i + 2 + k \in 1 .. Len(c),
           Analysis(body).ptr = 0, DOMAIN Analysis(body).mods \subseteq Span,
           NEW rs \in [Registers -> MemCell], NEW mem \in Tape, NEW z,
           Total(Analysis(body).mods, rs[1], rs[1]) = -1,
           State(i, rs, mem, z) \in Runs(c, x)
    PROVE  State(r + 3, rs, Spread(mem, Analysis(body).mods, rs[1], mem[rs[1]]), TRUE)
              \in Runs(c, x)
<1>. DEFINE n == Len(body)
            M == Analysis(body).mods
            p == rs[1]
            v == mem[p]
            R(j) == Spread(mem, M, p, j)
            done == {j \in 0 .. v : \E q \in {i, r} : \E y : State(q, rs, R(j), y) \in Runs(c, x)}
<1>1. /\ p \in MemCell /\ v \in Nat /\ v \in MemCell /\ v < CellRange /\ v \in Int
      /\ 0 \in Int /\ 0 =< v
  <2>1. p \in MemCell
    BY DEF Registers
  <2>2. v \in MemCell
    BY <2>1 DEF Tape
  <2>. HIDE DEF v
  <2>. QED
    BY <2>1, <2>2, CellRangeAssumption DEF MemCell
<1>2. M \in Mods /\ n \in Nat /\ Runnable(c)
  <2>1. Analysis(body) \in Modifying
    BY AnalysisType
  <2>. QED
    BY <2>1, SoundRuns, LenProperties DEF Modifying, StepsOnly
<1>3. i \in Int /\ (i + 2) + 1 = i + 3 /\ (i + 2) + 1 + n = r
  <2>1. i \in Int
    BY DEF Opens
  <2>. QED
    BY <1>2, <2>1
<1>4. \A j \in 0 .. v : R(j) \in Tape /\ R(j)[p] = v - j
  <2>1. ASSUME NEW j \in 0 .. v PROVE R(j) \in Tape /\ R(j)[p] = v - j
    <3>1. j \in Int /\ v - j \in MemCell
      <4>. HIDE DEF v
      <4>. QED
        BY <1>1, SpanBounds DEF MemCell
    <3>3. Total(M, p, p) = -1
      OBVIOUS
    <3>2. R(j) \in Tape /\ R(j)[p] = Cell(v + j * Total(M, p, p))
      <4>1. /\ R(j) \in Tape
            /\ \A a \in MemCell : R(j)[a] = Cell(mem[a] + j * Total(M, p, a))
        <5>1. j \in Int /\ M \in Mods
          BY <1>2, <3>1
        <5>. HIDE DEF M, p, v
        <5>. QED
          BY <5>1, SpreadTypes, ZenonT(20)
      <4>. HIDE DEF R, p, M
      <4>. QED
        BY <1>1, <4>1
    <3>. HIDE DEF v, R
    <3>4. v + j * (-1) = v - j
      BY <1>1, <3>1
    <3>5. Cell(v - j) = v - j
      BY <3>1, CellIsMemCell, Zenon
    <3>. QED
      BY <3>2, <3>3, <3>4, <3>5
  <2>. QED
    BY <2>1
<1>5. \A j \in 0 .. v : \A q \in {i, r} : \A y :
         State(q, rs, R(j), y) \in Runs(c, x) =>
            State(IF v - j = 0 THEN r + 3 ELSE i + 3, rs, R(j), v - j = 0) \in Runs(c, x)
  <2>1. ASSUME NEW j \in 0 .. v, NEW q \in {i, r}, NEW y, State(q, rs, R(j), y) \in Runs(c, x)
        PROVE  State(IF v - j = 0 THEN r + 3 ELSE i + 3, rs, R(j), v - j = 0) \in Runs(c, x)
    <3>1. State(IF R(j)[rs[1]] = 0 THEN r + 3 ELSE i + 3, rs, R(j), R(j)[rs[1]] = 0) \in Runs(c, x)
      <4>. HIDE DEF R
      <4>. QED
        BY <2>1, BracketSteps
    <3>2. R(j)[rs[1]] = v - j
      BY <1>4
    <3>. HIDE DEF R, v
    <3>. QED
      BY <3>1, <3>2
  <2>. QED
    BY <2>1
<1>6. 0 \in done
  <2>1. R(0) = mem
    BY <1>2, SpreadTypes, Zenon
  <2>2. State(i, rs, R(0), z) \in Runs(c, x)
    BY <2>1
  <2>. HIDE DEF R, v
  <2>. QED
    BY <1>1, <2>2
<1>7. ASSUME NEW j \in (0 + 1) .. v, j - 1 \in done PROVE j \in done
  <2>1. j - 1 \in 0 .. v /\ v - (j - 1) # 0 /\ j \in 0 .. v /\ j - 1 \in Int /\ (j - 1) + 1 = j
    BY <1>1
  <2>2. PICK q \in {i, r} : \E y : State(q, rs, R(j - 1), y) \in Runs(c, x)
    BY <1>7
  <2>3. PICK y : State(q, rs, R(j - 1), y) \in Runs(c, x)
    BY <2>2
  <2>. DEFINE S == R(j - 1)
  <2>4. S \in Tape
    BY <1>4, <2>1
  <2>5. State(i + 3, rs, S, FALSE) \in Runs(c, x)
    <3>1. State(IF v - (j - 1) = 0 THEN r + 3 ELSE i + 3, rs, S, v - (j - 1) = 0) \in Runs(c, x)
      BY <1>5, <2>1, <2>3
    <3>2. (v - (j - 1) = 0) = FALSE
      BY <2>1
    <3>. HIDE DEF R, v
    <3>. QED
      BY <3>1, <3>2, Zenon
  <2>6. Spread(S, M, p, 1) = R(j)
    <3>1. Spread(S, M, p, 1) = Spread(mem, M, p, (j - 1) + 1)
      BY <1>1, <1>2, <2>1, SpreadAgain
    <3>. QED
      BY <2>1, <3>1
  <2>. HIDE DEF R, v, S, done
  <2>7. State((i + 2) + 1 + n, Moved(rs, Analysis(body).ptr), Spread(S, M, p, 1), FALSE) \in Runs(c, x)
    <3>1. State((i + 2) + 1, rs, S, FALSE) \in Runs(c, x)
      BY <1>3, <2>5, Zenon
    <3>2. i + 2 \in Int
      BY <1>3
    <3>3. \A k \in 1 .. Len(body) : body[k] = c[(i + 2) + k] /\ (i + 2) + k \in 1 .. Len(c)
      OBVIOUS
    <3>. QED
      BY <1>2, <2>4, <3>1, <3>2, <3>3, BodyRuns, Zenon
  <2>8. Moved(rs, 0) = rs
    BY <1>1, <2>4, ChangesAddUp
  <2>9. State(r, rs, R(j), FALSE) \in Runs(c, x)
    BY <1>3, <2>6, <2>7, <2>8, Zenon
  <2>. QED
    BY <2>1, <2>9, Zenon DEF done
<1>8. \A j \in 0 .. v : j \in done
  <2>. HIDE DEF done, v
  <2>. QED
    BY <1>1, <1>6, <1>7, UpTo, Zenon
<1>9. v \in done
  BY <1>1, <1>8
<1>10. PICK q \in {i, r} : \E y : State(q, rs, R(v), y) \in Runs(c, x)
  BY <1>9, Zenon
<1>11. PICK y : State(q, rs, R(v), y) \in Runs(c, x)
  BY <1>10
<1>12. State(IF v - v = 0 THEN r + 3 ELSE i + 3, rs, R(v), v - v = 0) \in Runs(c, x)
  BY <1>1, <1>5, <1>11
<1>13. (v - v = 0) = TRUE
  BY <1>1
<1>14. State(r + 3, rs, R(v), TRUE) \in Runs(c, x)
  <2>. HIDE DEF v, R
  <2>. QED
    BY <1>12, <1>13, Zenon
<1>. QED
  BY <1>14, Zenon

-----------------------------------------------------------------------------
(* What is written instead of a loop.                                         *)

\* What a calculation makes of a state.
LEMMA CalculationSteps ==
    ASSUME NEW c, Runnable(c), NEW x \in Machines(c), NEW q \in 1 .. Len(c), NEW rs, NEW mem,
           NEW z, State(q, rs, mem, z) \in Runs(c, x)
    PROVE  LET s == State(q, rs, mem, z)
           IN  \A d, e :
                  /\ c[q] = Mov(d, e) => Stored(s, d, ValueIn(s, e)) \in Runs(c, x)
                  /\ c[q] = Add(d, e) =>
                        Stored(s, d, Cell(ValueIn(s, d) + ValueIn(s, e))) \in Runs(c, x)
                  /\ c[q] = Sub(d, e) =>
                        Stored(s, d, Cell(ValueIn(s, d) - ValueIn(s, e))) \in Runs(c, x)
                  /\ c[q] = Mul(d, e) =>
                        Stored(s, d, Cell(ValueIn(s, d) * ValueIn(s, e))) \in Runs(c, x)
<1>. DEFINE s == State(q, rs, mem, z)
<1>1. s.line = q
  BY DEF State
<1>2. \A d, e : Calculates(c[q], d, e) => AfterLine(c, s) \in Runs(c, x)
  <2>1. ASSUME NEW d, NEW e, Calculates(c[q], d, e) PROVE AfterLine(c, s) \in Runs(c, x)
    <3>1. c[q].what \in {18, 50, 82, 114}
      BY <2>1, KindsDiffer
    <3>2. ~ Stopping(c[q])
      BY <3>1, Fields DEF Stopping
    <3>. QED
      BY <1>1, <3>2, RunGoesOn
  <2>. QED
    BY <2>1
<1>. HIDE DEF s
<1>3. \A d, e : /\ c[s.line] = Mov(d, e) => AfterLine(c, s) = Stored(s, d, ValueIn(s, e))
                /\ c[s.line] = Add(d, e) =>
                      AfterLine(c, s) = Stored(s, d, Cell(ValueIn(s, d) + ValueIn(s, e)))
                /\ c[s.line] = Sub(d, e) =>
                      AfterLine(c, s) = Stored(s, d, Cell(ValueIn(s, d) - ValueIn(s, e)))
                /\ c[s.line] = Mul(d, e) =>
                      AfterLine(c, s) = Stored(s, d, Cell(ValueIn(s, d) * ValueIn(s, e)))
  BY LineDoes, Zenon
<1>4. ASSUME NEW d, NEW e
      PROVE  /\ c[q] = Mov(d, e) => Stored(s, d, ValueIn(s, e)) \in Runs(c, x)
             /\ c[q] = Add(d, e) =>
                   Stored(s, d, Cell(ValueIn(s, d) + ValueIn(s, e))) \in Runs(c, x)
             /\ c[q] = Sub(d, e) =>
                   Stored(s, d, Cell(ValueIn(s, d) - ValueIn(s, e))) \in Runs(c, x)
             /\ c[q] = Mul(d, e) =>
                   Stored(s, d, Cell(ValueIn(s, d) * ValueIn(s, e))) \in Runs(c, x)
  BY <1>1, <1>2, <1>3, Zenon DEF Calculates
<1>. QED
  BY <1>4 DEF s

\* The calculations of a replacement.
LEMMA ReplacementSteps ==
    ASSUME NEW c, Runnable(c), NEW x \in Machines(c), NEW q \in 1 .. Len(c), NEW rs, NEW mem,
           NEW z, State(q, rs, mem, z) \in Runs(c, x)
    PROVE  LET l == c[q]
           IN  /\ l = Mov(RegB, AtA) =>
                     State(q + 1, [rs EXCEPT ![2] = mem[rs[1]]], mem, z) \in Runs(c, x)
               /\ l = Mov(AtA, Number(0)) =>
                     State(q + 1, rs, [mem EXCEPT ![rs[1]] = Cell(0)], z) \in Runs(c, x)
               /\ l = Mov(RegC, RegB) =>
                     State(q + 1, [rs EXCEPT ![3] = rs[2]], mem, z) \in Runs(c, x)
               /\ l = Add(AtA, RegB) =>
                     State(q + 1, rs, [mem EXCEPT ![rs[1]] = Cell(mem[rs[1]] + rs[2])], z)
                        \in Runs(c, x)
               /\ l = Sub(AtA, RegB) =>
                     State(q + 1, rs, [mem EXCEPT ![rs[1]] = Cell(mem[rs[1]] - rs[2])], z)
                        \in Runs(c, x)
               /\ l = Add(AtA, RegC) =>
                     State(q + 1, rs, [mem EXCEPT ![rs[1]] = Cell(mem[rs[1]] + rs[3])], z)
                        \in Runs(c, x)
               /\ \A k : /\ l = Mul(RegB, Number(k)) =>
                               State(q + 1, [rs EXCEPT ![2] = Cell(rs[2] * Cell(k))], mem, z)
                                  \in Runs(c, x)
                         /\ l = Mul(RegC, Number(k)) =>
                               State(q + 1, [rs EXCEPT ![3] = Cell(rs[3] * Cell(k))], mem, z)
                                  \in Runs(c, x)
<1>. DEFINE s == State(q, rs, mem, z)
<1>1. s.line = q /\ s.registers = rs /\ s.ram = mem /\ s.zero = z
  BY DEF State
<1>2. \A d, e :
         /\ c[q] = Mov(d, e) => Stored(s, d, ValueIn(s, e)) \in Runs(c, x)
         /\ c[q] = Add(d, e) => Stored(s, d, Cell(ValueIn(s, d) + ValueIn(s, e))) \in Runs(c, x)
         /\ c[q] = Sub(d, e) => Stored(s, d, Cell(ValueIn(s, d) - ValueIn(s, e))) \in Runs(c, x)
         /\ c[q] = Mul(d, e) => Stored(s, d, Cell(ValueIn(s, d) * ValueIn(s, e))) \in Runs(c, x)
  BY CalculationSteps
<1>. HIDE DEF s
<1>3. /\ ValueIn(s, RegB) = rs[2] /\ ValueIn(s, RegC) = rs[3] /\ ValueIn(s, AtA) = mem[rs[1]]
      /\ \A n : ValueIn(s, Number(n)) = Cell(n)
  BY <1>1, OperandMeans
<1>4. \A v : /\ Stored(s, RegB, v) = State(q + 1, [rs EXCEPT ![2] = v], mem, z)
             /\ Stored(s, RegC, v) = State(q + 1, [rs EXCEPT ![3] = v], mem, z)
             /\ Stored(s, AtA, v) = State(q + 1, rs, [mem EXCEPT ![rs[1]] = v], z)
  BY <1>1, OperandMeans DEF State
<1>5. c[q] = Mov(RegB, AtA) => State(q + 1, [rs EXCEPT ![2] = mem[rs[1]]], mem, z) \in Runs(c, x)
  <2>1. c[q] = Mov(RegB, AtA) => Stored(s, RegB, ValueIn(s, AtA)) \in Runs(c, x)
    BY <1>2, Zenon
  <2>2. Stored(s, RegB, ValueIn(s, AtA)) = State(q + 1, [rs EXCEPT ![2] = mem[rs[1]]], mem, z)
    BY <1>3, <1>4, Zenon
  <2>. QED
    BY <2>1, <2>2, Zenon
<1>6. c[q] = Mov(AtA, Number(0)) =>
         State(q + 1, rs, [mem EXCEPT ![rs[1]] = Cell(0)], z) \in Runs(c, x)
  <2>1. c[q] = Mov(AtA, Number(0)) => Stored(s, AtA, ValueIn(s, Number(0))) \in Runs(c, x)
    BY <1>2, Zenon
  <2>2. Stored(s, AtA, ValueIn(s, Number(0)))
           = State(q + 1, rs, [mem EXCEPT ![rs[1]] = Cell(0)], z)
    BY <1>3, <1>4, Zenon
  <2>. QED
    BY <2>1, <2>2, Zenon
<1>7. c[q] = Mov(RegC, RegB) => State(q + 1, [rs EXCEPT ![3] = rs[2]], mem, z) \in Runs(c, x)
  <2>1. c[q] = Mov(RegC, RegB) => Stored(s, RegC, ValueIn(s, RegB)) \in Runs(c, x)
    BY <1>2, Zenon
  <2>2. Stored(s, RegC, ValueIn(s, RegB)) = State(q + 1, [rs EXCEPT ![3] = rs[2]], mem, z)
    BY <1>3, <1>4, Zenon
  <2>. QED
    BY <2>1, <2>2, Zenon
<1>8. c[q] = Add(AtA, RegB) =>
         State(q + 1, rs, [mem EXCEPT ![rs[1]] = Cell(mem[rs[1]] + rs[2])], z) \in Runs(c, x)
  <2>1. c[q] = Add(AtA, RegB) =>
           Stored(s, AtA, Cell(ValueIn(s, AtA) + ValueIn(s, RegB))) \in Runs(c, x)
    BY <1>2, Zenon
  <2>2. Stored(s, AtA, Cell(ValueIn(s, AtA) + ValueIn(s, RegB)))
           = State(q + 1, rs, [mem EXCEPT ![rs[1]] = Cell(mem[rs[1]] + rs[2])], z)
    BY <1>3, <1>4, Zenon
  <2>. QED
    BY <2>1, <2>2, Zenon
<1>9. c[q] = Sub(AtA, RegB) =>
         State(q + 1, rs, [mem EXCEPT ![rs[1]] = Cell(mem[rs[1]] - rs[2])], z) \in Runs(c, x)
  <2>1. c[q] = Sub(AtA, RegB) =>
           Stored(s, AtA, Cell(ValueIn(s, AtA) - ValueIn(s, RegB))) \in Runs(c, x)
    BY <1>2, Zenon
  <2>2. Stored(s, AtA, Cell(ValueIn(s, AtA) - ValueIn(s, RegB)))
           = State(q + 1, rs, [mem EXCEPT ![rs[1]] = Cell(mem[rs[1]] - rs[2])], z)
    BY <1>3, <1>4, Zenon
  <2>. QED
    BY <2>1, <2>2, Zenon
<1>10. c[q] = Add(AtA, RegC) =>
         State(q + 1, rs, [mem EXCEPT ![rs[1]] = Cell(mem[rs[1]] + rs[3])], z) \in Runs(c, x)
  <2>1. c[q] = Add(AtA, RegC) =>
           Stored(s, AtA, Cell(ValueIn(s, AtA) + ValueIn(s, RegC))) \in Runs(c, x)
    BY <1>2, Zenon
  <2>2. Stored(s, AtA, Cell(ValueIn(s, AtA) + ValueIn(s, RegC)))
           = State(q + 1, rs, [mem EXCEPT ![rs[1]] = Cell(mem[rs[1]] + rs[3])], z)
    BY <1>3, <1>4, Zenon
  <2>. QED
    BY <2>1, <2>2, Zenon
<1>11. ASSUME NEW k
       PROVE  /\ c[q] = Mul(RegB, Number(k)) =>
                    State(q + 1, [rs EXCEPT ![2] = Cell(rs[2] * Cell(k))], mem, z) \in Runs(c, x)
              /\ c[q] = Mul(RegC, Number(k)) =>
                    State(q + 1, [rs EXCEPT ![3] = Cell(rs[3] * Cell(k))], mem, z) \in Runs(c, x)
  <2>1. /\ c[q] = Mul(RegB, Number(k)) =>
             Stored(s, RegB, Cell(ValueIn(s, RegB) * ValueIn(s, Number(k)))) \in Runs(c, x)
        /\ c[q] = Mul(RegC, Number(k)) =>
             Stored(s, RegC, Cell(ValueIn(s, RegC) * ValueIn(s, Number(k)))) \in Runs(c, x)
    BY <1>2, Zenon
  <2>2. ValueIn(s, Number(k)) = Cell(k)
    BY <1>3, Zenon
  <2>3. /\ Stored(s, RegB, Cell(ValueIn(s, RegB) * ValueIn(s, Number(k))))
             = State(q + 1, [rs EXCEPT ![2] = Cell(rs[2] * Cell(k))], mem, z)
        /\ Stored(s, RegC, Cell(ValueIn(s, RegC) * ValueIn(s, Number(k))))
             = State(q + 1, [rs EXCEPT ![3] = Cell(rs[3] * Cell(k))], mem, z)
    BY <1>3, <1>4, <2>2, Zenon
  <2>. QED
    BY <2>1, <2>3, Zenon
<1>. QED
  BY <1>5, <1>6, <1>7, <1>8, <1>9, <1>10, <1>11, Zenon

\* The line that moves the pointer, if there is one.
LEMMA MoveRuns ==
    ASSUME NEW c, Runnable(c), NEW x \in Machines(c), NEW b, NEW n \in Int,
           Placed(c, b, AddOrSub(RegA, n)), NEW rs \in [Registers -> MemCell], NEW mem \in Tape,
           NEW z, State(b, rs, mem, z) \in Runs(c, x)
    PROVE  State(b + Len(AddOrSub(RegA, n)), Moved(rs, n), mem, z) \in Runs(c, x)
<1>1. b \in Int
  BY DEF Placed
<1>2. ASSUME NEW l, NEW h \in Nat, StepBy(l, h), l.args[1] = RegA, Amount(l) = n,
             AddOrSub(RegA, n) = <<l>>
      PROVE  State(b + Len(AddOrSub(RegA, n)), Moved(rs, n), mem, z) \in Runs(c, x)
  <2>1. Len(<<l>>) = 1 /\ <<l>>[1] = l
    OBVIOUS
  <2>2. 1 \in 1 .. Len(AddOrSub(RegA, n)) /\ AddOrSub(RegA, n)[1] = l /\ b + 1 - 1 = b
    BY <1>1, <1>2, <2>1
  <2>3. b \in 1 .. Len(c) /\ c[b] = l
    BY <2>2 DEF Placed
  <2>4. State(b + 1, Moved(rs, Amount(l)), mem, z) \in Runs(c, x)
    BY <1>2, <2>3, StepLineSteps
  <2>. QED
    BY <1>2, <2>1, <2>4
<1>3. \A h : /\ Add(RegA, Number(h)).args[1] = RegA /\ Sub(RegA, Number(h)).args[1] = RegA
             /\ h \in Int => /\ Amount(Add(RegA, Number(h))) = h
                             /\ Amount(Sub(RegA, Number(h))) = -h
  BY Fields, ArgumentFields DEF Amount, Sign, ADD, Number, Plain
<1>4. \A h \in Nat : StepBy(Add(RegA, Number(h)), h) /\ StepBy(Sub(RegA, Number(h)), h)
  BY DEF StepBy, Places
<1>5. CASE n > 0
  <2>1. AddOrSub(RegA, n) = <<Add(RegA, Number(n))>> /\ n \in Nat
    BY <1>5 DEF AddOrSub
  <2>2. StepBy(Add(RegA, Number(n)), n) /\ Add(RegA, Number(n)).args[1] = RegA
        /\ Amount(Add(RegA, Number(n))) = n
    BY <1>3, <1>4, <2>1
  <2>. QED
    BY <1>2, <2>1, <2>2
<1>6. CASE n < 0
  <2>1. AddOrSub(RegA, n) = <<Sub(RegA, Number(-n))>> /\ -n \in Nat /\ -n \in Int /\ -(-n) = n
    BY <1>6 DEF AddOrSub
  <2>2. StepBy(Sub(RegA, Number(-n)), -n) /\ Sub(RegA, Number(-n)).args[1] = RegA
        /\ Amount(Sub(RegA, Number(-n))) = -(-n)
    BY <1>3, <1>4, <2>1
  <2>. QED
    BY <1>2, <2>1, <2>2
<1>7. CASE n = 0
  <2>1. AddOrSub(RegA, n) = <<>>
    BY <1>7 DEF AddOrSub
  <2>2. Len(<<>>) = 0
    OBVIOUS
  <2>3. rs[1] \in MemCell
    BY DEF Registers
  <2>4. Moved(rs, 0) = rs
    BY <2>3, ChangesAddUp
  <2>5. b + Len(AddOrSub(RegA, n)) = b
    BY <1>1, <2>1, <2>2
  <2>. QED
    BY <1>7, <2>4, <2>5
<1>. QED
  BY <1>5, <1>6, <1>7

\* The registers r with the same pointer, and the same B unless it is the last.
KeepsCounter(r, ss, last) ==
    ss \in [Registers -> MemCell] /\ ss[1] = r[1] /\ (~ last => ss[2] = r[2])

\* What Multiple writes adds a multiple of B to the cell at the pointer.
LEMMA MultipleRuns ==
    ASSUME NEW c, Runnable(c), NEW x \in Machines(c), NEW b, NEW k \in Int, NEW last \in BOOLEAN,
           Placed(c, b, Multiple(k, last)), NEW r \in [Registers -> MemCell], NEW mem \in Tape,
           NEW z, State(b, r, mem, z) \in Runs(c, x)
    PROVE  \E ss : /\ KeepsCounter(r, ss, last)
                   /\ State(b + Len(Multiple(k, last)), ss, Changed(mem, r[1], r[2] * k), z)
                         \in Runs(c, x)
<1>. DEFINE t == Multiple(k, last)
            After(ss) == State(b + Len(t), ss, Changed(mem, r[1], r[2] * k), z)
<1>1. /\ b \in Int /\ Len(t) \in Nat
      /\ Len(t) >= 1 => b \in 1 .. Len(c) /\ c[b] = t[1]
      /\ Len(t) >= 2 => b + 1 \in 1 .. Len(c) /\ c[b + 1] = t[2]
      /\ Len(t) >= 3 => b + 2 \in 1 .. Len(c) /\ c[b + 2] = t[3]
  <2>1. Placed(c, b, t)
    OBVIOUS
  <2>. HIDE DEF t
  <2>. QED
    BY <2>1, PlacedLines
<1>2. /\ 1 \in Registers /\ 2 \in Registers /\ 3 \in Registers
      /\ r[1] \in MemCell /\ r[2] \in MemCell /\ r[2] \in Int /\ mem[r[1]] \in MemCell
      /\ mem[r[1]] \in Int
  <2>1. 1 \in Registers /\ 2 \in Registers /\ 3 \in Registers
    BY DEF Registers
  <2>2. r[1] \in MemCell /\ r[2] \in MemCell
    BY <2>1
  <2>3. mem[r[1]] \in MemCell
    BY <2>2 DEF Tape
  <2>. QED
    BY <2>1, <2>2, <2>3, CellIsMemCell, Zenon
<1>3. \A h \in Int : Changed(mem, r[1], h) = [mem EXCEPT ![r[1]] = Cell(mem[r[1]] + h)]
  BY DEF Changed
<1>4. r[2] * 1 = r[2] /\ r[2] * (-1) = - r[2] /\ r[2] * k \in Int
  BY <1>2
<1>5. KeepsCounter(r, r, last)
  BY DEF KeepsCounter
<1>6. CASE k = 1
  <2>1. t = <<Add(AtA, RegB)>>
    BY <1>6 DEF Multiple
  <2>2. Len(t) = 1 /\ t[1] = Add(AtA, RegB)
    BY <2>1
  <2>3. State(b + 1, r, [mem EXCEPT ![r[1]] = Cell(mem[r[1]] + r[2])], z) \in Runs(c, x)
    <3>1. b \in 1 .. Len(c) /\ c[b] = Add(AtA, RegB)
      BY <1>1, <2>2
    <3>. QED
      BY <3>1, ReplacementSteps, Zenon
  <2>4. Changed(mem, r[1], r[2] * k) = [mem EXCEPT ![r[1]] = Cell(mem[r[1]] + r[2])]
    BY <1>2, <1>3, <1>4, <1>6
  <2>5. After(r) \in Runs(c, x)
    BY <2>2, <2>3, <2>4
  <2>. QED
    BY <1>5, <2>5
<1>7. CASE k = -1
  <2>1. t = <<Sub(AtA, RegB)>>
    BY <1>7 DEF Multiple
  <2>2. Len(t) = 1 /\ t[1] = Sub(AtA, RegB)
    BY <2>1
  <2>3. State(b + 1, r, [mem EXCEPT ![r[1]] = Cell(mem[r[1]] - r[2])], z) \in Runs(c, x)
    <3>1. b \in 1 .. Len(c) /\ c[b] = Sub(AtA, RegB)
      BY <1>1, <2>2
    <3>. QED
      BY <3>1, ReplacementSteps, Zenon
  <2>4. mem[r[1]] + r[2] * k = mem[r[1]] - r[2]
    BY <1>2, <1>4, <1>7
  <2>5. Changed(mem, r[1], r[2] * k) = [mem EXCEPT ![r[1]] = Cell(mem[r[1]] - r[2])]
    BY <1>2, <1>3, <1>4, <2>4
  <2>6. After(r) \in Runs(c, x)
    BY <2>2, <2>3, <2>5
  <2>. QED
    BY <1>5, <2>6
<1>8. Cell(mem[r[1]] + Cell(r[2] * Cell(k))) = Cell(mem[r[1]] + r[2] * k)
      /\ Cell(r[2] * Cell(k)) \in MemCell
  <2>1. Cell(r[2] * Cell(k)) = Cell(r[2] * k)
    BY <1>2, CellArithmetic
  <2>2. Cell(mem[r[1]] + Cell(r[2] * k)) = Cell(mem[r[1]] + r[2] * k)
    BY <1>2, <1>4, CellArithmetic, Zenon
  <2>3. Cell(r[2] * k) \in MemCell
    BY <1>4, CellIsMemCell
  <2>. QED
    BY <2>1, <2>2, <2>3
<1>9. CASE k \notin {1, -1} /\ last
  <2>. DEFINE ss == [r EXCEPT ![2] = Cell(r[2] * Cell(k))]
  <2>1. t = <<Mul(RegB, Number(k)), Add(AtA, RegB)>>
    BY <1>9 DEF Multiple
  <2>2. Len(t) = 2 /\ t[1] = Mul(RegB, Number(k)) /\ t[2] = Add(AtA, RegB)
    BY <2>1
  <2>3. ss \in [Registers -> MemCell] /\ ss[1] = r[1] /\ ss[2] = Cell(r[2] * Cell(k))
    BY <1>2, <1>8
  <2>4. State(b + 1, ss, mem, z) \in Runs(c, x)
    <3>1. b \in 1 .. Len(c) /\ c[b] = Mul(RegB, Number(k))
      BY <1>1, <2>2
    <3>. QED
      BY <3>1, ReplacementSteps, Zenon
  <2>5. State(b + 1 + 1, ss, [mem EXCEPT ![ss[1]] = Cell(mem[ss[1]] + ss[2])], z) \in Runs(c, x)
    <3>. HIDE DEF ss
    <3>1. b + 1 \in 1 .. Len(c) /\ c[b + 1] = Add(AtA, RegB)
      BY <1>1, <2>2
    <3>. QED
      BY <2>4, <3>1, ReplacementSteps, Zenon
  <2>6. [mem EXCEPT ![ss[1]] = Cell(mem[ss[1]] + ss[2])] = Changed(mem, r[1], r[2] * k)
    <3>. HIDE DEF ss
    <3>. QED
      BY <1>3, <1>4, <1>8, <2>3
  <2>7. b + 1 + 1 = b + Len(t)
    BY <1>1, <2>2
  <2>8. After(ss) \in Runs(c, x)
    <3>. HIDE DEF ss, t
    <3>. QED
      BY <2>5, <2>6, <2>7
  <2>9. KeepsCounter(r, ss, last)
    <3>. HIDE DEF ss
    <3>. QED
      BY <1>9, <2>3 DEF KeepsCounter
  <2>. QED
    BY <2>8, <2>9
<1>10. CASE k \notin {1, -1} /\ ~ last
  <2>. DEFINE s1 == [r EXCEPT ![3] = r[2]]
              ss == [s1 EXCEPT ![3] = Cell(s1[3] * Cell(k))]
  <2>1. t = <<Mov(RegC, RegB), Mul(RegC, Number(k)), Add(AtA, RegC)>>
    BY <1>10 DEF Multiple
  <2>2. Len(t) = 3 /\ t[1] = Mov(RegC, RegB) /\ t[2] = Mul(RegC, Number(k))
        /\ t[3] = Add(AtA, RegC)
    BY <2>1
  <2>3. /\ s1 \in [Registers -> MemCell] /\ s1[1] = r[1] /\ s1[2] = r[2] /\ s1[3] = r[2]
    BY <1>2
  <2>4. ss \in [Registers -> MemCell] /\ ss[1] = r[1] /\ ss[2] = r[2]
        /\ ss[3] = Cell(r[2] * Cell(k))
    <3>. HIDE DEF s1
    <3>. QED
      BY <1>2, <1>8, <2>3
  <2>5. State(b + 1, s1, mem, z) \in Runs(c, x)
    <3>1. b \in 1 .. Len(c) /\ c[b] = Mov(RegC, RegB)
      BY <1>1, <2>2
    <3>. QED
      BY <3>1, ReplacementSteps, Zenon
  <2>6. State(b + 1 + 1, ss, mem, z) \in Runs(c, x)
    <3>1. b + 1 \in 1 .. Len(c) /\ c[b + 1] = Mul(RegC, Number(k))
      BY <1>1, <2>2
    <3>. HIDE DEF s1
    <3>. QED
      BY <2>5, <3>1, ReplacementSteps, Zenon
  <2>7. b + 1 + 1 = b + 2 /\ b + 2 + 1 = b + Len(t)
    BY <1>1, <2>2
  <2>8. State(b + 2 + 1, ss, [mem EXCEPT ![ss[1]] = Cell(mem[ss[1]] + ss[3])], z) \in Runs(c, x)
    <3>1. b + 2 \in 1 .. Len(c) /\ c[b + 2] = Add(AtA, RegC)
      BY <1>1, <2>2
    <3>2. State(b + 2, ss, mem, z) \in Runs(c, x)
      <4>. HIDE DEF ss
      <4>. QED
        BY <2>6, <2>7
    <3>. HIDE DEF ss
    <3>. QED
      BY <3>1, <3>2, ReplacementSteps, Zenon
  <2>9. [mem EXCEPT ![ss[1]] = Cell(mem[ss[1]] + ss[3])] = Changed(mem, r[1], r[2] * k)
    <3>. HIDE DEF ss
    <3>. QED
      BY <1>3, <1>4, <1>8, <2>4
  <2>10. After(ss) \in Runs(c, x)
    <3>. HIDE DEF ss, t
    <3>. QED
      BY <2>7, <2>8, <2>9
  <2>11. KeepsCounter(r, ss, last)
    <3>. HIDE DEF ss
    <3>. QED
      BY <2>4 DEF KeepsCounter
  <2>. QED
    BY <2>10, <2>11
<1>. QED
  BY <1>6, <1>7, <1>9, <1>10

\* The machine has done what e says: its pointer is where e has it, B has v unless what
\* was done last has used it up.
HasEmitted(c, x, b, e, p, v, last, tape, z) ==
    \E r \in [Registers -> MemCell] :
        /\ r[1] = Cell(p + e.cur) /\ (~ last => r[2] = v)
        /\ State(b + Len(e.out), r, tape, z) \in Runs(c, x)

\* What is written for one offset does that part of the sum.
LEMMA EmitStepRuns ==
    ASSUME NEW c, Runnable(c), NEW x \in Machines(c), NEW m \in Mods, NEW mem \in Tape,
           NEW p \in MemCell, NEW v \in Int, NEW highest \in Int, NEW o \in Span,
           NEW e \in Emitting, NEW b, Placed(c, b, EmitStep(m, highest, o, e).out), NEW z,
           HasEmitted(c, x, b, e, p, v, FALSE, Partial(mem, m, p, v, o - 1), z)
    PROVE  HasEmitted(c, x, b, EmitStep(m, highest, o, e), p, v, o = highest,
                      Partial(mem, m, p, v, o), z)
<1>1. PICK r \in [Registers -> MemCell] :
         /\ r[1] = Cell(p + e.cur) /\ r[2] = v
         /\ State(b + Len(e.out), r, Partial(mem, m, p, v, o - 1), z) \in Runs(c, x)
  BY DEF HasEmitted
<1>2. e.out \in Seq(Calculations) /\ e.cur \in Int /\ o \in Int /\ p \in Int
      /\ Len(e.out) \in Nat
  BY CellIsMemCell, SpanBounds DEF Emitting, Span
<1>3. /\ o - 1 \in (-CellRange - 1) .. CellRange /\ Cell(p + o) \in MemCell /\ Added(m, o) \in Int
      /\ Partial(mem, m, p, v, o) =
            Changed(Partial(mem, m, p, v, o - 1), Cell(p + o), v * Added(m, o))
      /\ o \notin DOMAIN m => Partial(mem, m, p, v, o) = Partial(mem, m, p, v, o - 1)
      /\ Partial(mem, m, p, v, o - 1) \in Tape
  BY PartialStep, PartialTypes
<1>4. CASE o \notin DOMAIN m
  <2>1. EmitStep(m, highest, o, e) = e
    BY <1>4 DEF EmitStep
  <2>. QED
    BY <1>1, <1>3, <1>4, <2>1 DEF HasEmitted
<1>5. CASE o \in DOMAIN m
  <2>. DEFINE n == o - e.cur
              A == AddOrSub(RegA, n)
              last == o = highest
              M == Multiple(m[o], last)
              s == Moved(r, n)
              T == Partial(mem, m, p, v, o - 1)
  <2>1. EmitStep(m, highest, o, e) = [out |-> e.out \o A \o M, cur |-> o] /\ Added(m, o) = m[o]
    BY <1>5 DEF EmitStep, Added
  <2>2. n \in Int /\ m[o] \in Int /\ last \in BOOLEAN
    BY <1>2, <1>3, <2>1
  <2>3. A \in Seq(Calculations) /\ M \in Seq(Calculations)
    <3>. HIDE DEF n, last
    <3>. QED
      BY <2>2, AddOrSubType, MultipleType, NumbersAreSources, Zenon
  <2>4. Placed(c, b, (e.out \o A) \o M)
    BY <2>1
  <2>. HIDE DEF n, A, last, M, T
  <2>5. e.out \o A \in Seq(Calculations)
    BY <1>2, <2>3
  <2>6. Placed(c, b, e.out \o A) /\ Placed(c, b + Len(e.out \o A), M)
        /\ Len((e.out \o A) \o M) = Len(e.out \o A) + Len(M)
    <3>1. \A f, g \in Seq(Calculations) : Placed(c, b, f \o g) =>
             Placed(c, b, f) /\ Placed(c, b + Len(f), g) /\ Len(f \o g) = Len(f) + Len(g)
      BY PlacedParts
    <3>. QED
      BY <2>3, <2>4, <2>5, <3>1, Zenon
  <2>7. Placed(c, b + Len(e.out), A) /\ Len(e.out \o A) = Len(e.out) + Len(A)
    <3>1. \A f, g \in Seq(Calculations) : Placed(c, b, f \o g) =>
             Placed(c, b, f) /\ Placed(c, b + Len(f), g) /\ Len(f \o g) = Len(f) + Len(g)
      BY PlacedParts
    <3>. QED
      BY <1>2, <2>3, <2>6, <3>1, Zenon
  <2>8. Len(A) \in Nat /\ Len(M) \in Nat /\ b \in Int
    BY <2>3, <2>4 DEF Placed
  <2>9. T \in Tape /\ State(b + Len(e.out), r, T, z) \in Runs(c, x)
    BY <1>1, <1>3 DEF T
  <2>10. State(b + Len(e.out) + Len(A), s, T, z) \in Runs(c, x)
    <3>1. Placed(c, b + Len(e.out), AddOrSub(RegA, n))
      BY <2>7 DEF A
    <3>2. State(b + Len(e.out) + Len(AddOrSub(RegA, n)), Moved(r, n), T, z) \in Runs(c, x)
      BY <2>2, <2>9, <3>1, MoveRuns
    <3>. QED
      BY <3>2 DEF A
  <2>11. s \in [Registers -> MemCell] /\ s[1] = Cell(r[1] + n)
    BY <2>2, ChangeTypes
  <2>12. s[2] = v
    BY <1>1 DEF Moved, Registers
  <2>13. s[1] = Cell(p + o)
    <3>1. p + e.cur \in Int /\ (p + e.cur) + n = p + o
      BY <1>2 DEF n
    <3>2. Cell(Cell(p + e.cur) + n) = Cell((p + e.cur) + n)
      BY <2>2, <3>1, CellArithmetic, Zenon
    <3>. QED
      BY <1>1, <2>11, <3>1, <3>2
  <2>. HIDE DEF s
  <2>. DEFINE d == b + Len(e.out) + Len(A)
  <2>14. d = b + Len(e.out \o A) /\ Placed(c, d, M) /\ d \in Int
    BY <1>2, <2>6, <2>7, <2>8
  <2>15. State(d, s, T, z) \in Runs(c, x)
    BY <2>10
  <2>. HIDE DEF d
  <2>16. PICK ss : /\ KeepsCounter(s, ss, last)
                   /\ State(d + Len(M), ss, Changed(T, s[1], s[2] * m[o]), z) \in Runs(c, x)
    <3>1. Placed(c, d, Multiple(m[o], last))
      BY <2>14 DEF M
    <3>2. \E ss : /\ KeepsCounter(s, ss, last)
                  /\ State(d + Len(Multiple(m[o], last)), ss, Changed(T, s[1], s[2] * m[o]), z)
                        \in Runs(c, x)
      BY <2>2, <2>9, <2>11, <2>15, <3>1, MultipleRuns
    <3>. QED
      BY <3>2 DEF M
  <2>17. Changed(T, s[1], s[2] * m[o]) = Partial(mem, m, p, v, o)
    BY <1>3, <2>1, <2>12, <2>13 DEF T
  <2>18. d + Len(M) = b + Len((e.out \o A) \o M)
    BY <1>2, <2>6, <2>7, <2>8, <2>14
  <2>19. ss \in [Registers -> MemCell] /\ ss[1] = Cell(p + o) /\ (~ last => ss[2] = v)
    BY <2>12, <2>13, <2>16 DEF KeepsCounter
  <2>20. LET f == EmitStep(m, highest, o, e)
         IN  f.cur = o /\ Len(f.out) = Len((e.out \o A) \o M)
    BY <2>1 DEF A, M, n, last
  <2>21. State(b + Len(EmitStep(m, highest, o, e).out), ss, Partial(mem, m, p, v, o), z)
            \in Runs(c, x)
    BY <2>16, <2>17, <2>18, <2>20
  <2>. QED
    BY <2>19, <2>20, <2>21 DEF HasEmitted, last
<1>. QED
  BY <1>4, <1>5

\* What is written up to each offset is at the beginning, the last move at the end.
LEMMA ReplacementPlaces ==
    ASSUME NEW c, NEW b, NEW m \in Mods, DOMAIN m # {}, Placed(c, b, emit_mul_replacement(m))
    PROVE  LET lowest == Min(DOMAIN m)
               highest == Max(DOMAIN m)
               e == Emitted(m, lowest, highest)
               last == e[highest]
               A == AddOrSub(RegA, - last.cur)
           IN  /\ last.cur \in Int /\ - last.cur \in Int /\ b \in Int
               /\ Len(last.out) \in Nat /\ Len(A) \in Nat
               /\ Len(emit_mul_replacement(m)) = Len(last.out) + Len(A)
               /\ \A o \in (lowest - 1) .. highest : Placed(c, b, e[o].out)
               /\ Placed(c, b + Len(last.out), A)
<1>. DEFINE lowest == Min(DOMAIN m)
            highest == Max(DOMAIN m)
            e == Emitted(m, lowest, highest)
            last == e[highest]
            A == AddOrSub(RegA, - last.cur)
<1>1. b \in Int
  BY DEF Placed
<1>2. /\ lowest \in Int /\ highest \in Int /\ lowest =< highest
      /\ e[highest] \in Emitting
      /\ emit_mul_replacement(m) = last.out \o A
  BY ReplacementType, Zenon
<1>. DEFINE outs == [o \in (lowest - 1) .. highest |-> e[o].out]
<1>8. Growing(outs, Calculations, lowest - 1, highest)
  <2>. HIDE DEF lowest, highest
  <2>. QED
    BY <1>2, EmittedGrows
<1>9. last.out \in Seq(Calculations) /\ A \in Seq(Calculations) /\ last.cur \in Int
      /\ - last.cur \in Int
  <2>1. last.out \in Seq(Calculations) /\ last.cur \in Int
    BY <1>2 DEF Emitting
  <2>2. - last.cur \in Int
    BY <2>1
  <2>. HIDE DEF last
  <2>. QED
    BY <2>1, <2>2, AddOrSubType, NumbersAreSources
<1>10. /\ Placed(c, b, last.out) /\ Placed(c, b + Len(last.out), A)
       /\ Len(emit_mul_replacement(m)) = Len(last.out) + Len(A)
  <2>. HIDE DEF last, A
  <2>1. \A f, g \in Seq(Calculations) : Placed(c, b, f \o g) =>
             Placed(c, b, f) /\ Placed(c, b + Len(f), g) /\ Len(f \o g) = Len(f) + Len(g)
    BY PlacedParts
  <2>2. Placed(c, b, last.out \o A)
    BY <1>2
  <2>. QED
    BY <1>2, <1>9, <2>1, <2>2
<1>11. \A o \in (lowest - 1) .. highest : Placed(c, b, e[o].out)
  <2>. HIDE DEF e, lowest, highest
  <2>1. ASSUME NEW o \in (lowest - 1) .. highest
        PROVE  Placed(c, b, e[o].out)
    <3>. HIDE DEF outs
    <3>. DEFINE low == lowest - 1
    <3>1. o \in low .. highest /\ highest \in o .. highest /\ low \in Int /\ highest \in Int
          /\ Growing(outs, Calculations, low, highest)
      BY <1>2, <1>8
    <3>2. /\ Len(outs[o]) \in Nat /\ Len(outs[highest]) \in Nat
          /\ Len(outs[o]) =< Len(outs[highest])
          /\ \A q \in 1 .. Len(outs[o]) : outs[highest][q] = outs[o][q]
      <4>. HIDE DEF low
      <4>1. \A i \in low .. highest : \A j \in i .. highest :
               /\ Len(outs[i]) \in Nat /\ Len(outs[j]) \in Nat /\ Len(outs[i]) =< Len(outs[j])
               /\ \A q \in 1 .. Len(outs[i]) : outs[j][q] = outs[i][q]
        <5>. SUFFICES ASSUME NEW i \in low .. highest, NEW j \in i .. highest
                      PROVE  /\ Len(outs[i]) \in Nat /\ Len(outs[j]) \in Nat
                             /\ Len(outs[i]) =< Len(outs[j])
                             /\ \A q \in 1 .. Len(outs[i]) : outs[j][q] = outs[i][q]
          OBVIOUS
        <5>1. low \in Int /\ highest \in Int /\ Growing(outs, Calculations, low, highest)
          BY <3>1
        <5>. HIDE DEF outs
        <5>. QED
          BY <5>1, GrowingKeeps
      <4>. QED
        BY <3>1, <4>1, Zenon
    <3>3. outs[o] = e[o].out /\ outs[highest] = last.out
      BY <1>2 DEF outs
    <3>. HIDE DEF last
    <3>. QED
      BY <1>10, <3>2, <3>3, PlacedPrefix, Zenon
  <2>. QED
    BY <2>1
<1>12. Len(last.out) \in Nat /\ Len(A) \in Nat
  <2>. HIDE DEF last, A
  <2>. QED
    BY <1>10 DEF Placed
<1>. QED
  BY <1>1, <1>9, <1>10, <1>11, <1>12

\* What is written instead of a loop that multiplies does what the loop does: it empties
\* the cell at the pointer and adds its multiples to the others.
LEMMA EmissionRuns ==
    ASSUME NEW c, Runnable(c), NEW x \in Machines(c), NEW m, Apart(m), DOMAIN m # {}, NEW b,
           Placed(c, b, emit_mul_replacement(m)), NEW rs \in [Registers -> MemCell],
           NEW mem \in Tape, NEW z, State(b, rs, mem, z) \in Runs(c, x)
    PROVE  \E r \in [Registers -> MemCell] :
              /\ r[1] = rs[1]
              /\ State(b + Len(emit_mul_replacement(m)), r,
                       Spread(Emptied(mem, rs[1]), m, rs[1], mem[rs[1]]), z) \in Runs(c, x)
<1>. DEFINE lowest == Min(DOMAIN m)
            highest == Max(DOMAIN m)
            e == Emitted(m, lowest, highest)
            p == rs[1]
            v == mem[p]
            E == Emptied(mem, p)
            last == e[highest]
            A == AddOrSub(RegA, - last.cur)
<1>1. m \in Mods /\ \A o \in DOMAIN m : o # 0 /\ -CellRange < o /\ o < CellRange
  BY DEF Apart
<1>2. /\ lowest \in Int /\ highest \in Int /\ lowest =< highest
      /\ e[highest] \in Emitting
      /\ emit_mul_replacement(m) = last.out \o A
  BY <1>1, ReplacementType, Zenon
<1>3. /\ e \in [(lowest - 1) .. highest -> Emitting]
      /\ e[lowest - 1] = EmitStart
      /\ \A o \in lowest .. highest :
            e[o - 1] \in Emitting /\ e[o] = EmitStep(m, highest, o, e[o - 1])
  <2>. HIDE DEF lowest, highest
  <2>. QED
    BY <1>1, <1>2, EmittedRuns
<1>4. /\ lowest \in DOMAIN m /\ highest \in DOMAIN m
      /\ \A o \in DOMAIN m : o \in Int /\ lowest =< o /\ o =< highest
  <2>1. DOMAIN m \in Offsets
    BY <1>1, ModsAre
  <2>2. \A o \in DOMAIN m : o \in Int
    BY <2>1 DEF Offsets
  <2>. QED
    BY <2>1, <2>2, LowestAndHighest
<1>5. lowest \in Span /\ highest \in Span /\ \A o \in lowest .. highest : o \in Span
  <2>. HIDE DEF lowest, highest
  <2>. QED
    BY <1>1, <1>2, <1>4, SpanBounds DEF Span
<1>6. p \in MemCell /\ v \in MemCell /\ v \in Int /\ p \in Int /\ Cell(p) = p
  <2>1. p \in MemCell
    BY DEF Registers
  <2>2. v \in MemCell
    BY <2>1 DEF Tape
  <2>. HIDE DEF p, v
  <2>. QED
    BY <2>1, <2>2, CellIsMemCell
<1>7. E \in Tape /\ E = [mem EXCEPT ![p] = Cell(0)]
  <2>1. 0 \in MemCell /\ Cell(0) = 0
    BY CellIsMemCell
  <2>. HIDE DEF p, v
  <2>. QED
    BY <1>6, <2>1, Zenon DEF Emptied, Tape
<1>9. /\ last.cur \in Int /\ - last.cur \in Int /\ b \in Int
      /\ Len(last.out) \in Nat /\ Len(A) \in Nat
      /\ Len(emit_mul_replacement(m)) = Len(last.out) + Len(A)
      /\ \A o \in (lowest - 1) .. highest : Placed(c, b, e[o].out)
      /\ Placed(c, b + Len(last.out), A)
  BY <1>1, ReplacementPlaces, Zenon
<1>. DEFINE Done(o) == HasEmitted(c, x, b, e[o], p, v, o = highest, Partial(E, m, p, v, o), z)
            done == {o \in (lowest - 1) .. highest : Done(o)}
<1>12. Partial(E, m, p, v, lowest - 1) = E /\ Partial(E, m, p, v, highest) = Spread(E, m, p, v)
  <2>. HIDE DEF lowest, highest, E, v, p
  <2>. QED
    BY <1>1, <1>4, <1>5, <1>6, <1>7, PartialEnds
<1>13. lowest - 1 \in done
  <2>. DEFINE r == [rs EXCEPT ![2] = v]
  <2>1. e[lowest - 1].out = <<Mov(RegB, AtA), Mov(AtA, Number(0))>> /\ e[lowest - 1].cur = 0
    BY <1>3 DEF EmitStart
  <2>2. Placed(c, b, e[lowest - 1].out) /\ lowest - 1 \in (lowest - 1) .. highest
    <3>. HIDE DEF lowest, highest, e
    <3>1. lowest - 1 \in (lowest - 1) .. highest
      BY <1>2
    <3>. QED
      BY <1>9, <3>1
  <2>. DEFINE t == <<Mov(RegB, AtA), Mov(AtA, Number(0))>>
  <2>3. Len(t) = 2 /\ t[1] = Mov(RegB, AtA) /\ t[2] = Mov(AtA, Number(0)) /\ Placed(c, b, t)
    BY <2>1, <2>2
  <2>. HIDE DEF t
  <2>4. /\ b \in 1 .. Len(c) /\ c[b] = Mov(RegB, AtA)
        /\ b + 1 \in 1 .. Len(c) /\ c[b + 1] = Mov(AtA, Number(0)) /\ b \in Int
    <3>1. /\ b \in Int /\ Len(t) \in Nat
          /\ Len(t) >= 1 => b \in 1 .. Len(c) /\ c[b] = t[1]
          /\ Len(t) >= 2 => b + 1 \in 1 .. Len(c) /\ c[b + 1] = t[2]
      BY <2>3, PlacedLines, ZenonT(30)
    <3>. QED
      BY <2>3, <3>1
  <2>5. r \in [Registers -> MemCell] /\ r[1] = p /\ r[2] = v
    BY <1>6 DEF Registers
  <2>6. State(b + 1, r, mem, z) \in Runs(c, x)
    BY <2>4, ReplacementSteps, Zenon
  <2>. HIDE DEF r
  <2>7. State(b + 1 + 1, r, [mem EXCEPT ![r[1]] = Cell(0)], z) \in Runs(c, x)
    BY <2>4, <2>6, ReplacementSteps, Zenon
  <2>8. State(b + Len(e[lowest - 1].out), r, Partial(E, m, p, v, lowest - 1), z) \in Runs(c, x)
    <3>1. b + 1 + 1 = b + Len(e[lowest - 1].out)
      <4>1. Len(e[lowest - 1].out) = 2
        BY <2>1, <2>3 DEF t
      <4>2. b + 1 + 1 = b + 2
        BY <2>4
      <4>. QED
        BY <4>1, <4>2, Zenon
    <3>2. [mem EXCEPT ![r[1]] = Cell(0)] = Partial(E, m, p, v, lowest - 1)
      BY <1>7, <1>12, <2>5
    <3>. QED
      BY <2>7, <3>1, <3>2
  <2>9. r[1] = Cell(p + e[lowest - 1].cur)
    <3>1. p + 0 = p
      BY <1>6
    <3>. QED
      BY <1>6, <2>1, <2>5, <3>1
  <2>10. Done(lowest - 1)
    <3>. HIDE DEF e, p, v, E, lowest, highest
    <3>. QED
      BY <2>5, <2>8, <2>9 DEF HasEmitted
  <2>. HIDE DEF Done, lowest, highest
  <2>. QED
    BY <2>2, <2>10
<1>14. ASSUME NEW o \in (lowest - 1 + 1) .. highest, o - 1 \in done
       PROVE  o \in done
  <2>. HIDE DEF lowest, highest, e, p, v, E
  <2>1. o \in lowest .. highest /\ o \in (lowest - 1) .. highest /\ o - 1 # highest /\ o \in Int
    BY <1>2
  <2>2. Done(o - 1)
    BY <1>14
  <2>3. HasEmitted(c, x, b, e[o - 1], p, v, FALSE, Partial(E, m, p, v, o - 1), z)
    <3>1. (o - 1 = highest) = FALSE
      BY <2>1
    <3>. QED
      BY <2>2, <3>1, Zenon
  <2>4. e[o - 1] \in Emitting /\ e[o] = EmitStep(m, highest, o, e[o - 1]) /\ o \in Span
    BY <1>3, <1>5, <2>1
  <2>5. Placed(c, b, EmitStep(m, highest, o, e[o - 1]).out)
    BY <1>9, <2>1, <2>4
  <2>6. HasEmitted(c, x, b, EmitStep(m, highest, o, e[o - 1]), p, v, o = highest,
                   Partial(E, m, p, v, o), z)
    <3>. DEFINE f == e[o - 1]
    <3>1. f \in Emitting /\ Placed(c, b, EmitStep(m, highest, o, f).out)
          /\ HasEmitted(c, x, b, f, p, v, FALSE, Partial(E, m, p, v, o - 1), z)
      BY <2>3, <2>4, <2>5, Zenon
    <3>. HIDE DEF f
    <3>2. HasEmitted(c, x, b, EmitStep(m, highest, o, f), p, v, o = highest,
                     Partial(E, m, p, v, o), z)
      BY <1>1, <1>2, <1>6, <1>7, <2>4, <3>1, EmitStepRuns, ZenonT(30)
    <3>. QED
      BY <3>2 DEF f
  <2>7. Done(o)
    BY <2>4, <2>6
  <2>. QED
    BY <2>1, <2>7
<1>15. Done(highest)
  <2>. HIDE DEF Done, lowest, highest
  <2>1. lowest - 1 \in Int /\ highest \in (lowest - 1) .. highest
    BY <1>2
  <2>2. \A o \in (lowest - 1) .. highest : o \in done
    <3>. HIDE DEF done
    <3>. QED
      BY <1>2, <1>13, <1>14, <2>1, UpTo, Zenon
  <2>. QED
    BY <2>1, <2>2
<1>16. PICK r \in [Registers -> MemCell] :
          /\ r[1] = Cell(p + last.cur)
          /\ State(b + Len(last.out), r, Spread(E, m, p, v), z) \in Runs(c, x)
  <2>. HIDE DEF lowest, highest, e, p, v, E
  <2>. QED
    BY <1>12, <1>15 DEF HasEmitted
<1>17. Spread(E, m, p, v) \in Tape
  <2>. HIDE DEF E, p, v
  <2>. QED
    BY <1>1, <1>6, <1>7, SpreadTypes, Zenon
<1>. DEFINE s == Moved(r, - last.cur)
            T == Spread(E, m, p, v)
<1>18. State(b + Len(last.out) + Len(A), s, T, z) \in Runs(c, x)
  <2>. HIDE DEF last, T
  <2>. QED
    BY <1>9, <1>16, <1>17, MoveRuns, Zenon DEF T
<1>19. s \in [Registers -> MemCell] /\ s[1] = Cell(r[1] + - last.cur)
  <2>. HIDE DEF last
  <2>. QED
    BY <1>9, ChangeTypes
<1>20. s[1] = rs[1]
  <2>. HIDE DEF s, last
  <2>1. p + last.cur \in Int /\ (p + last.cur) + - last.cur = p
    BY <1>6, <1>9
  <2>2. Cell(Cell(p + last.cur) + - last.cur) = Cell((p + last.cur) + - last.cur)
    BY <1>9, <2>1, CellArithmetic, Zenon
  <2>. QED
    BY <1>6, <1>16, <1>19, <2>1, <2>2
<1>21. b + Len(last.out) + Len(A) = b + Len(emit_mul_replacement(m))
  <2>. HIDE DEF last, A
  <2>. QED
    BY <1>9
<1>22. State(b + Len(emit_mul_replacement(m)), s, Spread(Emptied(mem, rs[1]), m, rs[1], mem[rs[1]]), z)
          \in Runs(c, x)
  <2>. HIDE DEF s, last, A
  <2>. QED
    BY <1>18, <1>21
<1>. HIDE DEF s
<1>. QED
  BY <1>19, <1>20, <1>22

-----------------------------------------------------------------------------
(* A loop that is replaced.                                                   *)

\* A move whose operand is one byte is shorter than the range.
LEMMA MoveIsByte ==
    ASSUME NEW c, OperandsAreBytes(c), NEW b, NEW n \in Int, n # 0,
           Placed(c, b, AddOrSub(RegA, n))
    PROVE  -CellRange < n /\ n < CellRange
<1>1. ASSUME NEW l, NEW h \in Nat, AddOrSub(RegA, n) = <<l>>,
             l = Add(RegA, Number(h)) \/ l = Sub(RegA, Number(h))
      PROVE  h < CellRange
  <2>1. Len(<<l>>) = 1 /\ <<l>>[1] = l
    OBVIOUS
  <2>2. b \in 1 .. Len(c) /\ c[b] = l
    BY <1>1, <2>1, PlacedLines
  <2>3. l.kind = "instruction" /\ l.args = <<RegA, Number(h)>>
    BY <1>1 DEF Add, Sub, Instruction
  <2>4. Len(l.args) = 2 /\ l.args[2] = Number(h) /\ 2 \in 1 .. Len(l.args)
    BY <2>3
  <2>5. l.args[2].shape = "number" /\ l.args[2].value = h
    BY <2>4 DEF Number, Plain
  <2>. QED
    BY <2>2, <2>3, <2>4, <2>5, Zenon DEF OperandsAreBytes
<1>2. CellRange \in Int
  BY SpanBounds
<1>3. CASE n > 0
  <2>1. AddOrSub(RegA, n) = <<Add(RegA, Number(n))>> /\ n \in Nat
    BY <1>3 DEF AddOrSub
  <2>2. n < CellRange
    BY <1>1, <2>1
  <2>. QED
    BY <1>2, <1>3, <2>2
<1>4. CASE n < 0
  <2>1. AddOrSub(RegA, n) = <<Sub(RegA, Number(-n))>> /\ -n \in Nat
    BY <1>4 DEF AddOrSub
  <2>2. -n < CellRange
    BY <1>1, <2>1
  <2>. QED
    BY <1>2, <1>4, <2>2
<1>. QED
  BY <1>3, <1>4

\* So all the offsets of a replacement are, because the first and the last move are.
LEMMA OffsetsAreBytes ==
    ASSUME NEW c, OperandsAreBytes(c), NEW b, NEW m \in Mods, DOMAIN m # {}, 0 \notin DOMAIN m,
           Placed(c, b, emit_mul_replacement(m))
    PROVE  Apart(m)
<1>. DEFINE lowest == Min(DOMAIN m)
            highest == Max(DOMAIN m)
            e == Emitted(m, lowest, highest)
            last == e[highest]
<1>1. /\ lowest \in Int /\ highest \in Int /\ lowest =< highest
      /\ lowest \in DOMAIN m /\ highest \in DOMAIN m
      /\ \A o \in DOMAIN m : o \in Int /\ lowest =< o /\ o =< highest
  <2>1. DOMAIN m \in Offsets
    BY ModsAre
  <2>2. \A o \in DOMAIN m : o \in Int
    BY <2>1 DEF Offsets
  <2>3. lowest \in DOMAIN m /\ highest \in DOMAIN m
        /\ \A o \in DOMAIN m : lowest =< o /\ o =< highest
    BY <2>1, LowestAndHighest
  <2>. QED
    BY <2>2, <2>3
<1>2. /\ e[lowest - 1] = EmitStart
      /\ \A o \in lowest .. highest :
            e[o - 1] \in Emitting /\ e[o] = EmitStep(m, highest, o, e[o - 1])
  <2>. HIDE DEF lowest, highest
  <2>. QED
    BY <1>1, EmittedRuns
<1>3. /\ \A o \in (lowest - 1) .. highest : Placed(c, b, e[o].out)
      /\ Placed(c, b + Len(last.out), AddOrSub(RegA, - last.cur))
  BY ReplacementPlaces, Zenon
<1>. HIDE DEF e, lowest, highest
<1>4. -CellRange < lowest /\ lowest < CellRange
  <2>. DEFINE A == AddOrSub(RegA, lowest)
              M == Multiple(m[lowest], lowest = highest)
              s == EmitStart.out
  <2>1. lowest \in lowest .. highest /\ lowest \in (lowest - 1) .. highest
    BY <1>1
  <2>2. e[lowest] = EmitStep(m, highest, lowest, EmitStart)
    BY <1>2, <2>1
  <2>3. lowest - EmitStart.cur = lowest
    BY <1>1 DEF EmitStart
  <2>4. e[lowest].out = (s \o A) \o M
    <3>. DEFINE w == EmitStart.out \o AddOrSub(RegA, lowest - EmitStart.cur)
                        \o Multiple(m[lowest], lowest = highest)
    <3>1. EmitStep(m, highest, lowest, EmitStart) = [out |-> w, cur |-> lowest]
      BY <1>1 DEF EmitStep
    <3>2. w = (s \o A) \o M
      BY <2>3, Zenon
    <3>. HIDE DEF w, s, A, M
    <3>3. e[lowest].out = w
      BY <2>2, <3>1
    <3>. QED
      BY <3>2, <3>3
  <2>5. s \in Seq(Calculations) /\ A \in Seq(Calculations) /\ M \in Seq(Calculations)
    <3>1. EmitStart \in Emitting
      BY <1>2, <2>1
    <3>2. m[lowest] \in Int
      BY <1>1, ModsAre
    <3>3. (lowest = highest) \in BOOLEAN
      OBVIOUS
    <3>4. A \in Seq(Calculations)
      BY <1>1, AddOrSubType, NumbersAreSources
    <3>5. M \in Seq(Calculations)
      BY <3>2, <3>3, MultipleType, Zenon
    <3>. QED
      BY <3>1, <3>4, <3>5 DEF Emitting
  <2>6. Placed(c, b, (s \o A) \o M)
    BY <1>3, <2>1, <2>4, Zenon
  <2>. HIDE DEF A, M, s
  <2>7. \A d : \A f, g \in Seq(Calculations) : Placed(c, d, f \o g) =>
           Placed(c, d, f) /\ Placed(c, d + Len(f), g)
    BY PlacedParts
  <2>8. s \o A \in Seq(Calculations)
    BY <2>5
  <2>9. Placed(c, b, s \o A)
    BY <2>5, <2>6, <2>7, <2>8, Zenon
  <2>10. Placed(c, b + Len(s), A)
    BY <2>5, <2>7, <2>9, Zenon
  <2>. QED
    BY <1>1, <2>10, MoveIsByte DEF A
<1>5. -CellRange < highest /\ highest < CellRange
  <2>1. highest \in lowest .. highest
    BY <1>1
  <2>2. last.cur = highest
    <3>1. e[highest] = EmitStep(m, highest, highest, e[highest - 1])
      BY <1>2, <2>1
    <3>2. \A f : EmitStep(m, highest, highest, f).cur = highest
      BY <1>1 DEF EmitStep
    <3>. QED
      BY <3>1, <3>2
  <2>3. - highest \in Int /\ - highest # 0
    BY <1>1
  <2>4. -CellRange < - highest /\ - highest < CellRange
    BY <1>3, <2>2, <2>3, MoveIsByte
  <2>. QED
    BY <1>1, <2>4, SpanBounds
<1>6. ASSUME NEW o \in DOMAIN m
      PROVE  o # 0 /\ -CellRange < o /\ o < CellRange
  BY <1>1, <1>4, <1>5, SpanBounds
<1>. QED
  BY <1>6 DEF Apart

\* The body of a loop that is replaced ends where it starts, counts down its own cell and
\* adds to others that are less than the range away.
LEMMA ReplacedCounts ==
    ASSUME NEW c, Sound(c), NEW i \in 1 .. Len(c), Replaces(c, i), NEW o, NEW b,
           OperandsAreBytes(o), Placed(o, b, Instead(c, i))
    PROVE  LET body == Body(c, i)
               all == Analysis(body)
           IN  /\ StepsOnly(body) /\ all \in Modifying /\ all.ptr = 0
               /\ DOMAIN all.mods \subseteq Span
               /\ \E m : /\ Apart(m) /\ Counting(all.mods, m)
                         /\ \/ m = <<>> /\ Instead(c, i) = <<Mov(AtA, Number(0))>>
                            \/ DOMAIN m # {} /\ Instead(c, i) = emit_mul_replacement(m)
<1>. DEFINE body == Body(c, i)
            all == Analysis(body)
<1>1. StepsOnly(body) /\ all \in Modifying
  BY ReplacedBody, AnalysisType
<1>2. CASE IsClear(body)
  <2>1. body = <<Sub(AtA, Number(1))>>
    BY <1>2 DEF IsClear
  <2>2. Len(body) = 1 /\ body[1] = Sub(AtA, Number(1)) /\ 1 \in 1 .. Len(body)
    BY <2>1
  <2>3. StepBy(body[1], 1) /\ body[1].args[1] = AtA /\ Amount(body[1]) = -1
    BY <2>2, Fields, ArgumentFields DEF StepBy, Places, Amount, Sign, ADD, Number, Plain
  <2>. DEFINE a0 == [ptr |-> 0, mods |-> <<>>]
  <2>4. all = Analyzed(a0, body[1])
    <3>. HIDE DEF body
    <3>1. Analyzing(body)[0] = a0 /\ Analyzing(body)[1] = Analyzed(Analyzing(body)[1 - 1], body[1])
      BY <1>1, <2>2, AnalyzingRuns, Zenon
    <3>. QED
      BY <2>2, <3>1 DEF Analysis
  <2>5. a0 \in Modifying
    BY NoMods DEF Modifying
  <2>6. /\ all.ptr = 0
        /\ DOMAIN all.mods = (DOMAIN <<>>) \cup {0}
        /\ \A k \in Int : Added(all.mods, k) = IF k = 0 THEN Added(<<>>, k) + -1
                                               ELSE Added(<<>>, k)
    <3>. DEFINE l == body[1]
    <3>1. StepBy(l, 1) /\ l.args[1] = AtA /\ Amount(l) = -1 /\ all = Analyzed(a0, l)
      BY <2>3, <2>4
    <3>2. a0.ptr = 0 /\ a0.mods = <<>>
      OBVIOUS
    <3>. HIDE DEF l, a0, all
    <3>3. /\ Analyzed(a0, l).ptr = a0.ptr
          /\ DOMAIN Analyzed(a0, l).mods = DOMAIN a0.mods \cup {a0.ptr}
          /\ \A k \in Int : Added(Analyzed(a0, l).mods, k) =
                               IF k = a0.ptr THEN Added(a0.mods, k) + Amount(l)
                               ELSE Added(a0.mods, k)
      BY <2>5, <3>1, AnalyzedLine
    <3>. QED
      BY <3>1, <3>2, <3>3, Zenon
  <2>7. DOMAIN <<>> = {} /\ \A k : Added(<<>>, k) = 0
    BY DEF Added
  <2>8. DOMAIN all.mods \subseteq Span
    BY <2>6, <2>7, SpanBounds DEF Span
  <2>9. Apart(<<>>)
    BY <2>7, NoMods DEF Apart
  <2>10. Counting(all.mods, <<>>)
    <3>1. all.mods \in Mods
      BY <1>1 DEF Modifying
    <3>2. \A k \in Int : Added(all.mods, k) = Added(<<>>, k) + (IF k = 0 THEN -1 ELSE 0)
      BY <2>6, <2>7
    <3>. QED
      BY <3>1, <3>2 DEF Counting
  <2>11. Instead(c, i) = <<Mov(AtA, Number(0))>>
    BY <1>2 DEF Instead
  <2>. QED
    BY <1>1, <2>6, <2>8, <2>9, <2>10, <2>11
<1>3. CASE ~ IsClear(body)
  <2>. DEFINE m == OtherMods(body)
  <2>1. Multiplies(body)
    BY <1>3 DEF Replaces
  <2>2. all.ptr = 0 /\ 0 \in DOMAIN all.mods /\ all.mods[0] = -1
    BY <2>1 DEF Multiplies
  <2>3. m \in Mods /\ DOMAIN m = DOMAIN all.mods \ {0} /\ DOMAIN m # {}
    BY <1>1, <2>1, OtherModsType, Zenon
  <2>4. Instead(c, i) = emit_mul_replacement(m)
    BY <1>3 DEF Instead
  <2>5. Apart(m)
    <3>. HIDE DEF m
    <3>. QED
      BY <2>3, <2>4, OffsetsAreBytes
  <2>6. DOMAIN all.mods \subseteq Span
    <3>1. \A k \in DOMAIN all.mods : k = 0 \/ k \in DOMAIN m
      BY <2>3
    <3>2. DOMAIN m \in Offsets
      BY <2>3, ModsAre
    <3>3. \A k \in DOMAIN m : k \in Int
      BY <3>2 DEF Offsets
    <3>4. \A k \in DOMAIN m : k \in Span
      BY <2>5, <3>3, SpanBounds DEF Span, Apart
    <3>5. 0 \in Span
      BY SpanBounds DEF Span
    <3>. QED
      BY <3>1, <3>4, <3>5
  <2>7. Counting(all.mods, m)
    <3>1. all.mods \in Mods
      BY <1>1 DEF Modifying
    <3>2. \A k \in DOMAIN m : m[k] = all.mods[k]
      BY <2>3 DEF OtherMods
    <3>3. ASSUME NEW k \in Int
          PROVE  Added(all.mods, k) = Added(m, k) + (IF k = 0 THEN -1 ELSE 0)
      <4>. HIDE DEF m, all
      <4>1. Added(m, k) \in Int
        BY <2>3, AddedType
      <4>2. CASE k = 0
        BY <2>2, <2>3, <4>2 DEF Added
      <4>3. CASE k # 0
        BY <2>3, <3>2, <4>1, <4>3 DEF Added
      <4>. QED
        BY <4>2, <4>3
    <3>. QED
      BY <3>1, <3>3 DEF Counting
  <2>. QED
    BY <1>1, <2>2, <2>3, <2>4, <2>5, <2>6, <2>7, Zenon
<1>. QED
  BY <1>2, <1>3

-----------------------------------------------------------------------------
(* The code follows the folded lines.                                         *)

\* At a line the loop came to, with the same pointer and cells, and at a jump the same
\* zero flag; B and C may differ.
Alongside(c, x, y) ==
    /\ Visited(c, x.line) /\ y.line = opos(c, x.line)
    /\ y.registers[1] = x.registers[1] /\ y.ram = x.ram
    /\ IsJump(c[x.line]) => y.zero = x.zero
Aligned(c) ==
    {xy \in Machines(c) \X Machines(apply_loop_optimizations(c)) : Alongside(c, xy[1], xy[2])}

\* Only a loop's label begins a loop that is replaced.
LEMMA ReplacesLabel ==
    ASSUME NEW c, NEW i, Replaces(c, i)
    PROVE  c[i].kind = "label" /\ ~ Stopping(c[i]) /\ ~ IsJump(c[i])
<1>1. c[i].kind = "label"
  BY DEF Replaces, IsLoop, IsStartPar
<1>. QED
  BY <1>1, Fields DEF Stopping, IsJump

\* The line the loop goes on with is there, and is a jump only after the test before it.
LEMMA NextVisited ==
    ASSUME NEW c, Sound(c), NEW i, Visited(c, i), ~ Stopping(c[i])
    PROVE  /\ Beyond(c, i) \in 1 .. Len(c) /\ Visited(c, Beyond(c, i)) /\ i < Beyond(c, i)
           /\ IsJump(c[Beyond(c, i)]) => ~ Replaces(c, i) /\ c[i] = Test
<1>. DEFINE n == Beyond(c, i)
<1>1. i \in 1 .. Len(c) /\ Len(c) \in Nat /\ c[Len(c)] = HaltLine
  BY DEF Visited, Sound
<1>2. i # Len(c)
  BY <1>1 DEF Stopping
<1>3. ASSUME NEW k \in Int, k - 1 \in 1 .. Len(c), k \in 1 .. Len(c), IsJump(c[k])
      PROVE  c[k - 1] = Test
  <2>1. PICK id \in Nat : c[k] = Je(close_par(id)) \/ c[k] = Jne(start_par(id))
    BY <1>3 DEF IsJump
  <2>2. Opens(c, k - 2, id) \/ Closes(c, k - 2, id)
    BY <1>3, <2>1 DEF Sound
  <2>3. (k - 2) + 1 = k - 1
    OBVIOUS
  <2>. QED
    BY <2>2, <2>3 DEF Opens, Closes
<1>4. CASE ~ Replaces(c, i)
  <2>1. n = i + 1
    BY <1>4 DEF Beyond
  <2>2. n \in 1 .. Len(c) /\ n \in Int /\ n - 1 = i /\ i < n
    BY <1>1, <1>2, <2>1
  <2>3. n =< Len(c)
    BY <2>2
  <2>4. Visited(c, n)
    BY <2>3, VisitedPlaces
  <2>. HIDE DEF n
  <2>5. IsJump(c[n]) => c[i] = Test
    BY <1>1, <1>3, <2>2
  <2>. QED
    BY <1>4, <2>2, <2>4, <2>5 DEF n
<1>5. CASE Replaces(c, i)
  <2>. DEFINE r == close_idx(c, i)
  <2>1. IsLoop(c, i)
    BY <1>5 DEF Replaces
  <2>2. PICK id : BracketLoop(c, i, id, r)
    BY <1>1, <2>1, LoopFound
  <2>3. n = r + 3
    BY <1>5 DEF Beyond
  <2>. HIDE DEF r
  <2>4. /\ r + 2 \in 1 .. Len(c) /\ r \in 1 .. Len(c) /\ i + 2 < r /\ id \in Nat
        /\ c[r + 2] = Jne(start_par(id))
    BY <2>2 DEF BracketLoop, Closes
  <2>5. r + 2 # Len(c)
    BY <1>1, <2>4, LinesDiffer
  <2>6. n \in 1 .. Len(c) /\ n \in Int /\ n - 1 = r + 2 /\ i < n
    BY <1>1, <2>3, <2>4, <2>5
  <2>7. n =< Len(c)
    BY <2>6
  <2>8. Visited(c, n)
    BY <2>7, VisitedPlaces
  <2>. HIDE DEF n
  <2>9. ~ IsJump(c[n])
    <3>1. c[n - 1] # Test
      BY <2>4, <2>6, LinesDiffer
    <3>2. n - 1 \in 1 .. Len(c)
      BY <2>4, <2>6
    <3>. QED
      BY <1>3, <2>6, <3>1, <3>2
  <2>. QED
    BY <2>6, <2>8, <2>9 DEF n
<1>. QED
  BY <1>4, <1>5

\* A visited line that is not replaced is in the code.
LEMMA CopiedLine ==
    ASSUME NEW c, Sound(c), NEW i, Visited(c, i), ~ Replaces(c, i)
    PROVE  LET O == apply_loop_optimizations(c)
           IN  /\ opos(c, i) \in 1 .. Len(O) /\ O[opos(c, i)] = c[i]
               /\ opos(c, i + 1) = opos(c, i) + 1
<1>. DEFINE O == apply_loop_optimizations(c)
            p == opos(c, i)
            n == Len(Instead(c, i))
<1>1. Instead(c, i) = <<c[i]>> /\ Beyond(c, i) = i + 1
  BY DEF Instead, Beyond
<1>2. n = 1 /\ Instead(c, i)[1] = c[i]
  BY <1>1
<1>3. /\ O \in Seq(Assembly) /\ p \in Nat \ {0} /\ n \in Nat \ {0} /\ p + n - 1 =< Len(O)
      /\ \A q \in 1 .. n : O[p + q - 1] = Instead(c, i)[q]
      /\ opos(c, Beyond(c, i)) = p + n
  BY VisitedPlaces
<1>. HIDE DEF O, p, n
<1>4. p + 1 - 1 = p /\ p \in 1 .. Len(O) /\ 1 \in 1 .. n
  BY <1>2, <1>3
<1>5. O[p + 1 - 1] = Instead(c, i)[1]
  BY <1>3, <1>4
<1>. QED
  BY <1>1, <1>2, <1>3, <1>4, <1>5 DEF O, p

\* What replaces a loop is in the code.
LEMMA PlacedInstead ==
    ASSUME NEW c, Sound(c), NEW i, Visited(c, i)
    PROVE  /\ Placed(apply_loop_optimizations(c), opos(c, i), Instead(c, i))
           /\ opos(c, Beyond(c, i)) = opos(c, i) + Len(Instead(c, i))
<1>. DEFINE O == apply_loop_optimizations(c)
            p == opos(c, i)
            t == Instead(c, i)
<1>1. /\ O \in Seq(Assembly) /\ p \in Nat \ {0} /\ Len(t) \in Nat \ {0} /\ p + Len(t) - 1 =< Len(O)
      /\ \A q \in 1 .. Len(t) : O[p + q - 1] = t[q]
      /\ opos(c, Beyond(c, i)) = p + Len(t)
  BY VisitedPlaces
<1>. HIDE DEF O, p, t
<1>2. \A q \in 1 .. Len(t) : p + q - 1 \in 1 .. Len(O)
  BY <1>1
<1>3. Placed(O, p, t)
  BY <1>1, <1>2 DEF Placed
<1>. QED
  BY <1>1, <1>3 DEF O, p, t

\* Two states at the same visited line with the same pointer and tape are aligned.
LEMMA AlignedAgain ==
    ASSUME NEW c, Sound(c), NEW x \in Machines(c), NEW y \in Machines(apply_loop_optimizations(c)),
           NEW k, k # x.line, Visited(c, k), NEW rs, NEW mem, NEW z, NEW ro, NEW zo,
           ro[1] = rs[1], IsJump(c[k]) => zo = z,
           State(k, rs, mem, z) \in Runs(c, x),
           State(opos(c, k), ro, mem, zo) \in Runs(apply_loop_optimizations(c), y)
    PROVE  \E w \in Runs(c, x), u \in Runs(apply_loop_optimizations(c), y) :
              w.line # x.line /\ <<w, u>> \in Aligned(c)
<1>. DEFINE O == apply_loop_optimizations(c)
            w == State(k, rs, mem, z)
            u == State(opos(c, k), ro, mem, zo)
<1>1. Runnable(c) /\ Runnable(O)
  BY SoundRuns, ReplacedRuns
<1>2. w \in Machines(c) /\ u \in Machines(O)
  BY <1>1, RunBegins
<1>3. w.line = k /\ Alongside(c, w, u)
  BY DEF State, Alongside
<1>4. w \in Runs(c, x) /\ u \in Runs(O, y)
  OBVIOUS
<1>. HIDE DEF w, u
<1>5. <<w, u>> \in Aligned(c)
  BY <1>2, <1>3 DEF Aligned
<1>. QED
  BY <1>3, <1>4, <1>5

\* What the states of the two at a line are.
LEMMA AlignedStates ==
    ASSUME NEW c, Sound(c), NEW x, NEW y, <<x, y>> \in Aligned(c)
    PROVE  LET O == apply_loop_optimizations(c)
               k == x.line
           IN  /\ Runnable(c) /\ Runnable(O) /\ x \in Machines(c) /\ y \in Machines(O)
               /\ Visited(c, k) /\ k \in 1 .. Len(c) /\ Len(c) \in Nat
               /\ State(k, x.registers, x.ram, x.zero) \in Runs(c, x)
               /\ State(opos(c, k), y.registers, x.ram, y.zero) \in Runs(O, y)
               /\ x.registers \in [Registers -> MemCell] /\ y.registers \in [Registers -> MemCell]
               /\ x.ram \in Tape /\ y.registers[1] = x.registers[1]
               /\ x.zero \in BOOLEAN /\ y.zero \in BOOLEAN
               /\ IsJump(c[k]) => y.zero = x.zero
<1>. DEFINE O == apply_loop_optimizations(c)
            k == x.line
<1>1. Runnable(c) /\ Runnable(O)
  BY SoundRuns, ReplacedRuns
<1>2. x \in Machines(c) /\ y \in Machines(O) /\ Alongside(c, x, y)
  BY DEF Aligned
<1>3. /\ x = State(k, x.registers, x.ram, x.zero) /\ x \in Runs(c, x)
      /\ x.registers \in [Registers -> MemCell] /\ x.ram \in Tape /\ x.zero \in BOOLEAN
  BY <1>1, <1>2, StateOf, RunBegins
<1>4. /\ y = State(y.line, y.registers, y.ram, y.zero) /\ y \in Runs(O, y)
      /\ y.registers \in [Registers -> MemCell] /\ y.zero \in BOOLEAN
  <2>. HIDE DEF O
  <2>. QED
    BY <1>1, <1>2, StateOf, RunBegins
<1>5. /\ Visited(c, k) /\ y.line = opos(c, k) /\ y.ram = x.ram
      /\ y.registers[1] = x.registers[1] /\ (IsJump(c[k]) => y.zero = x.zero)
  BY <1>2 DEF Alongside
<1>6. State(opos(c, k), y.registers, x.ram, y.zero) \in Runs(O, y)
  <2>1. State(y.line, y.registers, y.ram, y.zero) = State(opos(c, k), y.registers, x.ram, y.zero)
    BY <1>5
  <2>. HIDE DEF O
  <2>. QED
    BY <1>4, <2>1
<1>7. k \in 1 .. Len(c) /\ Len(c) \in Nat
  BY <1>5 DEF Visited, Sound
<1>8. State(k, x.registers, x.ram, x.zero) \in Runs(c, x)
  BY <1>3
<1>. QED
  BY <1>1, <1>2, <1>3, <1>4, <1>5, <1>6, <1>7, <1>8

\* What a line makes of pointer, tape and flag does not depend on the other registers.
LEMMA SamePointer ==
    ASSUME NEW l, NEW rs \in [Registers -> MemCell], NEW ro \in [Registers -> MemCell],
           ro[1] = rs[1], NEW mem, NEW z, NEW zo
    PROVE  /\ NewRegisters(l, ro)[1] = NewRegisters(l, rs)[1]
           /\ NewTape(l, ro, mem) = NewTape(l, rs, mem)
           /\ l = Test => NewZero(l, ro, mem, zo) = NewZero(l, rs, mem, z)
<1>1. 1 \in Registers
  BY DEF Registers
<1>2. NewRegisters(l, ro)[1] = NewRegisters(l, rs)[1]
  BY <1>1 DEF NewRegisters, Moved
<1>. QED
  BY <1>2 DEF NewTape, NewZero

\* A copied line that neither jumps nor stops does the same to both.
LEMMA SimpleAligned ==
    ASSUME NEW c, Sound(c), NEW x, NEW y, <<x, y>> \in Aligned(c), ~ Replaces(c, x.line),
           SimpleLine(c[x.line])
    PROVE  \E w \in Runs(c, x), u \in Runs(apply_loop_optimizations(c), y) :
              w.line # x.line /\ <<w, u>> \in Aligned(c)
<1>. DEFINE O == apply_loop_optimizations(c)
            k == x.line
            l == c[k]
            p == opos(c, k)
            rs == x.registers
            ro == y.registers
            mem == x.ram
<1>1. /\ Runnable(c) /\ Runnable(O) /\ x \in Machines(c) /\ y \in Machines(O)
      /\ Visited(c, k) /\ k \in 1 .. Len(c)
      /\ State(k, rs, mem, x.zero) \in Runs(c, x) /\ State(p, ro, mem, y.zero) \in Runs(O, y)
      /\ rs \in [Registers -> MemCell] /\ ro \in [Registers -> MemCell] /\ mem \in Tape
      /\ ro[1] = rs[1]
  BY AlignedStates
<1>2. p \in 1 .. Len(O) /\ O[p] = l /\ opos(c, k + 1) = p + 1
  BY <1>1, CopiedLine
<1>3. ~ Stopping(l)
  BY SimpleKinds
<1>4. /\ k + 1 \in 1 .. Len(c) /\ Visited(c, k + 1) /\ k + 1 # k
      /\ IsJump(c[k + 1]) => l = Test
  <2>1. Beyond(c, k) = k + 1
    BY DEF Beyond
  <2>2. /\ k + 1 \in 1 .. Len(c) /\ Visited(c, k + 1) /\ k < k + 1
        /\ IsJump(c[k + 1]) => l = Test
    BY <1>1, <1>3, <2>1, NextVisited
  <2>. QED
    BY <1>1, <2>2
<1>. DEFINE rs2 == NewRegisters(l, rs)
            ro2 == NewRegisters(l, ro)
            mem2 == NewTape(l, rs, mem)
            z2 == NewZero(l, rs, mem, x.zero)
            zo2 == NewZero(l, ro, mem, y.zero)
<1>5. State(k + 1, rs2, mem2, z2) \in Runs(c, x)
  BY <1>1, SimpleSteps, Zenon
<1>6. State(p + 1, ro2, NewTape(l, ro, mem), zo2) \in Runs(O, y)
  <2>1. SimpleLine(O[p])
    BY <1>2
  <2>. HIDE DEF O, p
  <2>2. State(p + 1, NewRegisters(O[p], ro), NewTape(O[p], ro, mem),
              NewZero(O[p], ro, mem, y.zero)) \in Runs(O, y)
    BY <1>1, <1>2, <2>1, SimpleSteps, Zenon
  <2>. QED
    BY <1>2, <2>2, Zenon
<1>7. ro2[1] = rs2[1] /\ NewTape(l, ro, mem) = mem2 /\ (l = Test => zo2 = z2)
  <2>. HIDE DEF l, rs, ro, mem
  <2>. QED
    BY <1>1, SamePointer
<1>8. State(opos(c, k + 1), ro2, mem2, zo2) \in Runs(O, y)
  <2>. HIDE DEF O, p, rs2, ro2, mem2, z2, zo2
  <2>. QED
    BY <1>2, <1>6, <1>7
<1>9. IsJump(c[k + 1]) => zo2 = z2
  BY <1>4, <1>7
<1>. HIDE DEF rs2, ro2, mem2, z2, zo2, O
<1>. QED
  BY <1>1, <1>4, <1>5, <1>7, <1>8, <1>9, AlignedAgain DEF O

\* A loop that is replaced comes to its end with the state its replacement comes to.
LEMMA LoopAligned ==
    ASSUME NEW c, Sound(c), OperandsAreBytes(apply_loop_optimizations(c)), NEW x, NEW y,
           <<x, y>> \in Aligned(c), Replaces(c, x.line)
    PROVE  \E w \in Runs(c, x), u \in Runs(apply_loop_optimizations(c), y) :
              w.line # x.line /\ <<w, u>> \in Aligned(c)
<1>. DEFINE O == apply_loop_optimizations(c)
            i == x.line
            p == opos(c, i)
            rs == x.registers
            ro == y.registers
            mem == x.ram
            a == rs[1]
            body == Body(c, i)
            all == Analysis(body)
            r == close_idx(c, i)
            n == Beyond(c, i)
<1>1. /\ Runnable(c) /\ Runnable(O) /\ x \in Machines(c) /\ y \in Machines(O)
      /\ Visited(c, i) /\ i \in 1 .. Len(c)
      /\ State(i, rs, mem, x.zero) \in Runs(c, x) /\ State(p, ro, mem, y.zero) \in Runs(O, y)
      /\ rs \in [Registers -> MemCell] /\ ro \in [Registers -> MemCell] /\ mem \in Tape
      /\ ro[1] = a
  BY AlignedStates
<1>2. Placed(O, p, Instead(c, i)) /\ opos(c, n) = p + Len(Instead(c, i))
  BY <1>1, PlacedInstead
<1>3. /\ n \in 1 .. Len(c) /\ Visited(c, n) /\ i < n /\ ~ IsJump(c[n]) /\ n = r + 3
  <2>1. ~ Stopping(c[i])
    BY ReplacesLabel
  <2>2. n = r + 3
    BY DEF Beyond
  <2>. HIDE DEF n
  <2>. QED
    BY <1>1, <2>1, <2>2, NextVisited DEF n
<1>4. /\ StepsOnly(body) /\ all.ptr = 0 /\ DOMAIN all.mods \subseteq Span
      /\ \E m : /\ Apart(m) /\ Counting(all.mods, m)
                /\ \/ m = <<>> /\ Instead(c, i) = <<Mov(AtA, Number(0))>>
                   \/ DOMAIN m # {} /\ Instead(c, i) = emit_mul_replacement(m)
  BY <1>1, <1>2, ReplacedCounts
<1>5. PICK m : /\ Apart(m) /\ Counting(all.mods, m)
               /\ \/ m = <<>> /\ Instead(c, i) = <<Mov(AtA, Number(0))>>
                  \/ DOMAIN m # {} /\ Instead(c, i) = emit_mul_replacement(m)
  BY <1>4
<1>6. a \in MemCell /\ mem[a] \in MemCell /\ mem[a] \in Int
  <2>1. a \in MemCell
    BY <1>1 DEF Registers
  <2>2. mem[a] \in MemCell
    BY <1>1, <2>1 DEF Tape
  <2>. QED
    BY <2>1, <2>2, CellIsMemCell, Zenon
<1>7. /\ Total(all.mods, a, a) = -1 /\ Emptied(mem, a) \in Tape
      /\ Spread(mem, all.mods, a, mem[a]) = Spread(Emptied(mem, a), m, a, mem[a])
  <2>. HIDE DEF a, mem, all
  <2>. QED
    BY <1>1, <1>5, <1>6, LoopEmpties
<1>. DEFINE tape == Spread(Emptied(mem, a), m, a, mem[a])
<1>8. State(n, rs, tape, TRUE) \in Runs(c, x)
  <2>1. IsLoop(c, i)
    BY DEF Replaces
  <2>2. PICK id : BracketLoop(c, i, id, r)
    BY <1>1, <2>1, LoopFound
  <2>3. Opens(c, i, id) /\ Closes(c, r, id)
    BY <2>2 DEF BracketLoop
  <2>4. r = i + 3 + Len(body)
        /\ \A k \in 1 .. Len(body) : body[k] = c[i + 2 + k] /\ i + 2 + k \in 1 .. Len(c)
    BY <1>1, <2>1, BodyLines, Zenon
  <2>. HIDE DEF body, r, i, rs, mem, n, tape
  <2>5. State(r + 3, rs, Spread(mem, Analysis(body).mods, rs[1], mem[rs[1]]), TRUE) \in Runs(c, x)
    BY <1>1, <1>4, <1>7, <2>3, <2>4, LoopRuns, Zenon
  <2>. QED
    BY <1>3, <1>7, <2>5, Zenon DEF tape
<1>9. \E ss : ss[1] = rs[1] /\ State(opos(c, n), ss, tape, y.zero) \in Runs(O, y)
  <2>1. CASE m = <<>> /\ Instead(c, i) = <<Mov(AtA, Number(0))>>
    <3>. DEFINE t == Instead(c, i)
    <3>1. Len(t) = 1 /\ t[1] = Mov(AtA, Number(0))
      BY <2>1
    <3>2. p \in 1 .. Len(O) /\ O[p] = Mov(AtA, Number(0))
      <4>. HIDE DEF t, O, p
      <4>. QED
        BY <1>2, <3>1, PlacedLines DEF t
    <3>3. State(p + 1, ro, [mem EXCEPT ![ro[1]] = Cell(0)], y.zero) \in Runs(O, y)
      <4>. HIDE DEF O, p, ro, mem
      <4>. QED
        BY <1>1, <3>2, ReplacementSteps, Zenon
    <3>4. [mem EXCEPT ![ro[1]] = Cell(0)] = Emptied(mem, a)
      BY <1>1, ZeroCell DEF Emptied
    <3>5. tape = Emptied(mem, a)
      <4>. HIDE DEF a, mem
      <4>. QED
        BY <1>6, <1>7, <2>1, SpreadTypes, Zenon
    <3>6. opos(c, n) = p + 1
      BY <1>2, <3>1
    <3>. HIDE DEF O, p, ro, mem, n, tape
    <3>. QED
      BY <1>1, <3>3, <3>4, <3>5, <3>6
  <2>2. CASE DOMAIN m # {} /\ Instead(c, i) = emit_mul_replacement(m)
    <3>1. Placed(O, p, emit_mul_replacement(m))
      BY <1>2, <2>2
    <3>2. \E ss \in [Registers -> MemCell] :
             /\ ss[1] = ro[1]
             /\ State(p + Len(emit_mul_replacement(m)), ss,
                      Spread(Emptied(mem, ro[1]), m, ro[1], mem[ro[1]]), y.zero) \in Runs(O, y)
      <4>. HIDE DEF O, p, ro, mem
      <4>. QED
        BY <1>1, <1>5, <2>2, <3>1, EmissionRuns
    <3>3. opos(c, n) = p + Len(emit_mul_replacement(m))
      BY <1>2, <2>2
    <3>4. Spread(Emptied(mem, ro[1]), m, ro[1], mem[ro[1]]) = tape
      BY <1>1
    <3>. HIDE DEF O, p, ro, mem, n, tape
    <3>. QED
      BY <1>1, <3>2, <3>3, <3>4
  <2>. QED
    BY <1>5, <2>1, <2>2
<1>10. PICK ss : ss[1] = rs[1] /\ State(opos(c, n), ss, tape, y.zero) \in Runs(O, y)
  BY <1>9
<1>11. n # i
  BY <1>1, <1>3
<1>. HIDE DEF tape, O, n, rs
<1>. QED
  BY <1>1, <1>3, <1>8, <1>10, <1>11, AlignedAgain, Zenon DEF O

\* The label of a jump that is copied is copied, and no jump itself.
LEMMA CopiedTargets ==
    ASSUME NEW c, Sound(c), NEW k, Visited(c, k), NEW id \in Nat, NEW q,
           \/ c[k] = Je(close_par(id)) /\ q = close_par(id)
           \/ c[k] = Jne(start_par(id)) /\ q = start_par(id)
    PROVE  LET t == LabelAt(c, q)
           IN  /\ t # k /\ Visited(c, t) /\ ~ IsJump(c[t])
               /\ LabelAt(apply_loop_optimizations(c), q) = opos(c, t)
<1>1. k \in 1 .. Len(c) /\ k \in Int
  BY DEF Visited
<1>2. ~ Replaces(c, k)
  <2>1. c[k].kind # "label"
    BY Fields
  <2>. QED
    BY <2>1, ReplacesLabel
<1>3. ASSUME NEW t, Visited(c, t), ~ Replaces(c, t), c[t] = Label(q), LabelAt(c, q) = t
      PROVE  /\ t # k /\ ~ IsJump(c[t])
             /\ LabelAt(apply_loop_optimizations(c), q) = opos(c, t)
  <2>1. t # k
    BY <1>3, LinesDiffer
  <2>2. ~ IsJump(c[t])
    BY <1>3, LinesDiffer DEF IsJump
  <2>3. LabelAt(apply_loop_optimizations(c), q) = opos(c, t)
    BY <1>3, CopiedLabel
  <2>. QED
    BY <2>1, <2>2, <2>3
<1>4. CASE c[k] = Je(close_par(id)) /\ q = close_par(id)
  <2>1. Opens(c, k - 2, id)
    BY <1>1, <1>4 DEF Sound
  <2>2. k - 2 \in 1 .. Len(c) /\ (k - 2) + 2 = k
    BY <1>1, <2>1 DEF Opens
  <2>3. PICK r : Closes(c, r, id)
    BY <2>1, <2>2 DEF Sound
  <2>4. Visited(c, r) /\ ~ Replaces(c, r)
    <3>. DEFINE a == k - 2
    <3>1. Opens(c, a, id) /\ k \in {a, a + 2, r, r + 2}
      BY <2>1, <2>2
    <3>. HIDE DEF a
    <3>. QED
      BY <1>2, <2>3, <3>1, BracketsTogether
  <2>5. c[r] = Label(q) /\ LabelAt(c, q) = r
    <3>1. c[r] = Label(close_par(id))
      BY <2>3 DEF Closes
    <3>2. LabelAt(c, close_par(id)) = r
      BY <2>3, BlockLabels
    <3>. QED
      BY <1>4, <3>1, <3>2
  <2>. QED
    BY <1>3, <2>4, <2>5
<1>5. CASE c[k] = Jne(start_par(id)) /\ q = start_par(id)
  <2>1. Closes(c, k - 2, id)
    BY <1>1, <1>5 DEF Sound
  <2>2. k - 2 \in 1 .. Len(c) /\ (k - 2) + 2 = k
    BY <1>1, <2>1 DEF Closes
  <2>3. PICK r : Opens(c, r, id)
    BY <2>1, <2>2 DEF Sound
  <2>4. Visited(c, r) /\ ~ Replaces(c, r)
    <3>. DEFINE b == k - 2
    <3>1. Closes(c, b, id) /\ k \in {r, r + 2, b, b + 2}
      BY <2>1, <2>2
    <3>. HIDE DEF b
    <3>. QED
      BY <1>2, <2>3, <3>1, BracketsTogether
  <2>5. c[r] = Label(q) /\ LabelAt(c, q) = r
    <3>1. c[r] = Label(start_par(id))
      BY <2>3 DEF Opens
    <3>2. LabelAt(c, start_par(id)) = r
      BY <2>3, BlockLabels
    <3>. QED
      BY <1>5, <3>1, <3>2
  <2>. QED
    BY <1>3, <2>4, <2>5
<1>. QED
  BY <1>4, <1>5

\* A jump that is copied leads to the same label, or on to the next line.
LEMMA JumpAligned ==
    ASSUME NEW c, Sound(c), NEW x, NEW y, <<x, y>> \in Aligned(c), IsJump(c[x.line])
    PROVE  \E w \in Runs(c, x), u \in Runs(apply_loop_optimizations(c), y) :
              w.line # x.line /\ <<w, u>> \in Aligned(c)
<1>. DEFINE O == apply_loop_optimizations(c)
            k == x.line
            l == c[k]
            p == opos(c, k)
            rs == x.registers
            ro == y.registers
            mem == x.ram
            z == x.zero
<1>1. /\ Runnable(c) /\ Runnable(O) /\ x \in Machines(c) /\ y \in Machines(O)
      /\ Visited(c, k) /\ k \in 1 .. Len(c) /\ z \in BOOLEAN
      /\ State(k, rs, mem, z) \in Runs(c, x) /\ State(p, ro, mem, z) \in Runs(O, y)
      /\ rs \in [Registers -> MemCell] /\ ro \in [Registers -> MemCell] /\ mem \in Tape
      /\ ro[1] = rs[1]
  <2>1. /\ Runnable(c) /\ Runnable(O) /\ x \in Machines(c) /\ y \in Machines(O)
        /\ Visited(c, k) /\ k \in 1 .. Len(c) /\ z \in BOOLEAN
        /\ State(k, rs, mem, z) \in Runs(c, x) /\ State(p, ro, mem, y.zero) \in Runs(O, y)
        /\ rs \in [Registers -> MemCell] /\ ro \in [Registers -> MemCell] /\ mem \in Tape
        /\ ro[1] = rs[1] /\ y.zero = z
    BY AlignedStates
  <2>. HIDE DEF O, p, ro, rs, mem, z
  <2>. QED
    BY <2>1
<1>2. PICK id \in Nat : l = Je(close_par(id)) \/ l = Jne(start_par(id))
  BY DEF IsJump
<1>3. ~ Stopping(l) /\ ~ Replaces(c, k) /\ l # Test
  <2>1. l.kind # "label" /\ ~ Stopping(l) /\ l # Test
    BY <1>2, Fields DEF Stopping
  <2>. QED
    BY <2>1, ReplacesLabel
<1>4. p \in 1 .. Len(O) /\ O[p] = l /\ opos(c, k + 1) = p + 1
  BY <1>1, <1>3, CopiedLine
<1>5. Visited(c, k + 1) /\ k + 1 # k /\ ~ IsJump(c[k + 1])
  <2>1. Beyond(c, k) = k + 1
    BY <1>3 DEF Beyond
  <2>. QED
    BY <1>1, <1>3, <2>1, NextVisited
<1>6. ASSUME NEW t, t # k, Visited(c, t), ~ IsJump(c[t]), State(t, rs, mem, z) \in Runs(c, x),
             State(opos(c, t), ro, mem, z) \in Runs(O, y)
      PROVE  \E w \in Runs(c, x), u \in Runs(O, y) : w.line # k /\ <<w, u>> \in Aligned(c)
  <2>. HIDE DEF O, rs, ro, mem, z
  <2>. QED
    BY <1>1, <1>6, AlignedAgain DEF O
<1>7. ASSUME NEW q, NEW e \in BOOLEAN,
             \/ l = Je(q) /\ e = (z = TRUE)
             \/ l = Jne(q) /\ e = (z = FALSE),
             LET t == LabelAt(c, q)
             IN  t # k /\ Visited(c, t) /\ ~ IsJump(c[t]) /\ LabelAt(O, q) = opos(c, t)
      PROVE  \E w \in Runs(c, x), u \in Runs(O, y) : w.line # k /\ <<w, u>> \in Aligned(c)
  <2>. DEFINE t == LabelAt(c, q)
  <2>1. \A j : /\ l = Je(j) => State(IF z = TRUE THEN LabelAt(c, j) ELSE k + 1, rs, mem, z) \in Runs(c, x)
               /\ l = Jne(j) => State(IF z = FALSE THEN LabelAt(c, j) ELSE k + 1, rs, mem, z) \in Runs(c, x)
    <3>. HIDE DEF rs, mem, z
    <3>. QED
      BY <1>1, LineSteps, Zenon
  <2>2. \A j : /\ O[p] = Je(j) => State(IF z = TRUE THEN LabelAt(O, j) ELSE p + 1, ro, mem, z) \in Runs(O, y)
               /\ O[p] = Jne(j) => State(IF z = FALSE THEN LabelAt(O, j) ELSE p + 1, ro, mem, z) \in Runs(O, y)
    <3>. HIDE DEF O, p, ro, mem, z
    <3>. QED
      BY <1>1, <1>4, LineSteps, Zenon
  <2>3. t # k /\ Visited(c, t) /\ ~ IsJump(c[t]) /\ LabelAt(O, q) = opos(c, t)
    BY <1>7
  <2>4. /\ State(IF e THEN LabelAt(c, q) ELSE k + 1, rs, mem, z) \in Runs(c, x)
        /\ State(IF e THEN LabelAt(O, q) ELSE p + 1, ro, mem, z) \in Runs(O, y)
    <3>. HIDE DEF O, p, l, k, rs, ro, mem, z, t
    <3>. QED
      BY <1>4, <1>7, <2>1, <2>2, Zenon
  <2>5. CASE e
    <3>1. State(t, rs, mem, z) \in Runs(c, x) /\ State(opos(c, t), ro, mem, z) \in Runs(O, y)
      <4>. HIDE DEF O, p, k, rs, ro, mem, z
      <4>. QED
        BY <2>3, <2>4, <2>5
    <3>. HIDE DEF t, O, p, k, rs, ro, mem, z
    <3>. QED
      BY <1>6, <2>3, <3>1
  <2>6. CASE ~ e
    <3>1. State(k + 1, rs, mem, z) \in Runs(c, x) /\ State(opos(c, k + 1), ro, mem, z) \in Runs(O, y)
      <4>. HIDE DEF O, p, k, rs, ro, mem, z
      <4>. QED
        BY <1>4, <2>4, <2>6
    <3>. HIDE DEF t, O, p, k, rs, ro, mem, z
    <3>. QED
      BY <1>5, <1>6, <3>1
  <2>. QED
    BY <2>5, <2>6
<1>8. CASE l = Je(close_par(id))
  <2>1. LET t == LabelAt(c, close_par(id))
        IN  t # k /\ Visited(c, t) /\ ~ IsJump(c[t]) /\ LabelAt(O, close_par(id)) = opos(c, t)
    BY <1>1, <1>8, CopiedTargets
  <2>2. (z = TRUE) \in BOOLEAN
    OBVIOUS
  <2>. HIDE DEF O, k, l, z
  <2>. QED
    BY <1>7, <1>8, <2>1, <2>2, Zenon DEF O, k
<1>9. CASE l = Jne(start_par(id))
  <2>1. LET t == LabelAt(c, start_par(id))
        IN  t # k /\ Visited(c, t) /\ ~ IsJump(c[t]) /\ LabelAt(O, start_par(id)) = opos(c, t)
    BY <1>1, <1>9, CopiedTargets
  <2>2. (z = FALSE) \in BOOLEAN
    OBVIOUS
  <2>. HIDE DEF O, k, l, z
  <2>. QED
    BY <1>7, <1>9, <2>1, <2>2, Zenon DEF O, k
<1>. QED
  BY <1>2, <1>8, <1>9

\* Where the folded code stops, so does the code.
LEMMA StopAligned ==
    ASSUME NEW c, Sound(c), NEW x, NEW y, <<x, y>> \in Aligned(c), Stopping(c[x.line])
    PROVE  /\ y \in Runs(apply_loop_optimizations(c), y)
           /\ y \notin Running(apply_loop_optimizations(c))
           /\ apply_loop_optimizations(c)[y.line] = c[x.line]
           /\ ~ Replaces(c, x.line)
<1>. DEFINE O == apply_loop_optimizations(c)
<1>1. Runnable(O) /\ y \in Machines(O) /\ Visited(c, x.line)
  BY AlignedStates
<1>2. y.line = opos(c, x.line)
  BY DEF Aligned, Alongside
<1>3. ~ Replaces(c, x.line)
  BY ReplacesLabel
<1>4. O[y.line] = c[x.line]
  BY <1>1, <1>2, <1>3, CopiedLine
<1>5. y \in Runs(O, y)
  <2>. HIDE DEF O
  <2>. QED
    BY <1>1, RunBegins
<1>6. y \notin Running(O)
  BY <1>4 DEF Running
<1>. QED
  BY <1>3, <1>4, <1>5, <1>6

\* The code follows the folded lines, whatever loops were replaced.
THEOREM ReplacedFollow ==
    ASSUME NEW c, Sound(c), OperandsAreBytes(apply_loop_optimizations(c))
    PROVE  Simulates(Aligned(c), Machines(c), Running(c), RunningOn(c),
                   Machines(apply_loop_optimizations(c)), Running(apply_loop_optimizations(c)),
                   RunningOn(apply_loop_optimizations(c)))
<1>. DEFINE O == apply_loop_optimizations(c)
            R == Aligned(c)
<1>1. Runnable(c)
  BY SoundRuns
<1>2. \A x, y : <<x, y>> \in R => x.line \in 1 .. Len(c)
  BY AlignedStates
<1>3. ASSUME NEW x \in Machines(c), NEW y \in Machines(O), <<x, y>> \in R, x \notin Running(c)
      PROVE  \E u \in Runs(O, y) : u \notin Running(O) /\ <<x, u>> \in R
  <2>1. x.line \in 1 .. Len(c)
    BY <1>2, <1>3
  <2>2. x.line =< Len(c)
    BY <2>1
  <2>3. Stopping(c[x.line])
    BY <1>3, <2>2 DEF Running
  <2>4. y \in Runs(O, y) /\ y \notin Running(O)
    BY <1>3, <2>3, StopAligned
  <2>. QED
    BY <1>3, <2>4
<1>4. ASSUME NEW x \in Machines(c), NEW y \in Machines(O), <<x, y>> \in R, x \in Running(c)
      PROVE  \E z \in Way(Machines(c), Running(c), RunningOn(c), RunningOn(c)[x]) :
                \E u \in Runs(O, y) : <<z, u>> \in R
  <2>1. x.line \in 1 .. Len(c) /\ ~ Stopping(c[x.line])
    BY <1>2, <1>4 DEF Running
  <2>2. SimpleLine(c[x.line]) \/ IsJump(c[x.line])
    BY <2>1, SoundLineIs
  <2>3. \E w \in Runs(c, x), u \in Runs(O, y) : w.line # x.line /\ <<w, u>> \in R
    <3>1. CASE Replaces(c, x.line)
      BY <1>4, <3>1, LoopAligned, Zenon
    <3>2. CASE ~ Replaces(c, x.line) /\ SimpleLine(c[x.line])
      BY <1>4, <3>2, SimpleAligned, Zenon
    <3>3. CASE IsJump(c[x.line])
      BY <1>4, <3>3, JumpAligned, Zenon
    <3>. QED
      BY <2>2, <3>1, <3>2, <3>3, Zenon
  <2>4. PICK w \in Runs(c, x) : \E u \in Runs(O, y) : w.line # x.line /\ <<w, u>> \in R
    BY <2>3
  <2>5. w # x
    BY <2>4
  <2>6. w \in Way(Machines(c), Running(c), RunningOn(c), RunningOn(c)[x])
    BY <1>1, <2>5, RunFirst
  <2>. QED
    BY <2>4, <2>6
<1>5. R \in SUBSET (Machines(c) \X Machines(O))
  BY DEF Aligned
<1>. HIDE DEF O, R
<1>6. Simulates(R, Machines(c), Running(c), RunningOn(c), Machines(O), Running(O), RunningOn(O))
  BY <1>3, <1>4, <1>5, Zenon DEF Simulates, Runs
<1>. QED
  BY <1>6 DEF O, R

-----------------------------------------------------------------------------
(* The program and the code meet where both wait.                             *)

\* The three simulations, one after the other, from a character of the program to a line of
\* the code; before the first character the lines still have to run the preamble.
Joint(text, s, m) ==
    \E x, y \in Machines(Lines(text)), z \in Machines(Folds(text)) :
        /\ <<s, y>> \in AtCharacter(text) /\ y \in Runs(Lines(text), x)
        /\ <<x, z>> \in InStep(Lines(text)) /\ <<z, m>> \in Aligned(Folds(text))

\* The code is at the line that the lines of the program's character became.
Meet(text, s, m) ==
    \E u \in Machines(Lines(text)), v \in Machines(Folds(text)) :
        Level(text, s, u) /\ Beside(Lines(text), u, v) /\ Alongside(Folds(text), v, m)

\* What is known of the three codes of a program.
LEMMA ThreeCodes ==
    ASSUME NEW text, Program(text)
    PROVE  LET L == Lines(text)
               F == Folds(text)
               O == compile(text)
           IN  /\ Sound(L) /\ UnitSteps(L) /\ F = apply_optimizations(L)
               /\ Sound(F) /\ O = apply_loop_optimizations(F)
               /\ Runnable(L) /\ Runnable(F) /\ Runnable(O)
<1>. DEFINE L == Lines(text)
            F == Folds(text)
            O == compile(text)
<1>1. Sound(L) /\ UnitSteps(L) /\ F = apply_optimizations(L)
  BY LinesAreSound, LinesAreUnit DEF Folds
<1>2. Sound(F) /\ O = apply_loop_optimizations(F)
  BY CompiledProgram
<1>3. Runnable(L) /\ Runnable(F) /\ Runnable(O)
  BY <1>1, <1>2, SoundRuns, ReplacedRuns
<1>. QED
  BY <1>1, <1>2, <1>3

\* Counting on within bounds.
LEMMA OneMore ==
    \A n \in Nat :
        /\ \A i \in 1 .. (n + 1) : i =< n => i \in 1 .. n
        /\ \A i \in 1 .. n : /\ i \in 1 .. (n + 1) /\ i + 1 \in 1 .. (n + 1) /\ (i + 1) - 1 = i
                             /\ i # n => i + 1 =< n
OBVIOUS

\* Lines that write or read are not the end.
LEMMA NotTheEnd == \A l : l = PrintLine \/ l = InputLine => l # HaltLine /\ l.kind = "instruction"
BY Fields

\* What the program comes to before it waits, its lines come to.
LEMMA LinesToEnd ==
    ASSUME NEW text, Program(text), NEW s \in Readers(text), NEW y \in Machines(Lines(text)),
           <<s, y>> \in AtCharacter(text),
           NEW r \in Way(Readers(text), Reading(text), ReadingOn(text), s), r \notin Reading(text)
    PROVE  \E u \in Runs(Lines(text), y) : u \notin Running(Lines(text)) /\ <<r, u>> \in AtCharacter(text)
<1>. DEFINE L == Lines(text)
            S == Readers(text)
            G == Reading(text)
            n == ReadingOn(text)
            R == AtCharacter(text)
<1>1. Runnable(L)
  BY ThreeCodes
<1>2. G \in SUBSET S /\ n \in [G -> S]
  BY ReaderFunction
<1>3. Simulates(R, S, G, n, Machines(L), Running(L), RunningOn(L))
  BY LinesFollow
<1>4. s \in S /\ y \in Machines(L) /\ <<s, y>> \in R /\ r \in Way(S, G, n, s) /\ r \notin G
  OBVIOUS
<1>. HIDE DEF L, S, G, n, R
<1>5. Running(L) \in SUBSET Machines(L) /\ RunningOn(L) \in [Running(L) -> Machines(L)]
  BY <1>1, MachineFunction
<1>6. \E u \in Way(Machines(L), Running(L), RunningOn(L), y) : u \notin Running(L) /\ <<r, u>> \in R
  <2>. DEFINE SS == Machines(L)
              GG == Running(L)
              nn == RunningOn(L)
  <2>. HIDE DEF SS, GG, nn
  <2>1. /\ G \in SUBSET S /\ n \in [G -> S] /\ GG \in SUBSET SS /\ nn \in [GG -> SS]
        /\ Simulates(R, S, G, n, SS, GG, nn)
        /\ s \in S /\ y \in SS /\ <<s, y>> \in R /\ r \in Way(S, G, n, s) /\ r \notin G
    BY <1>2, <1>3, <1>4, <1>5 DEF SS, GG, nn
  <2>2. \E u \in Way(SS, GG, nn, y) : u \notin GG /\ <<r, u>> \in R
    BY <2>1, SimulatesToEnd, ZenonT(60)
  <2>. QED
    BY <2>2 DEF SS, GG, nn
<1>. QED
  BY <1>6 DEF L, R, Runs

\* From states that belong together both come to where they wait, and meet there.
LEMMA JointMeets ==
    ASSUME NEW text, Program(text), OperandsAreBytes(compile(text)),
           NEW s \in Readers(text), NEW m \in Machines(compile(text)), Joint(text, s, m),
           NEW r \in Way(Readers(text), Reading(text), ReadingOn(text), s), r \notin Reading(text),
           NEW t \in Runs(compile(text), m), t \notin Running(compile(text))
    PROVE  Meet(text, r, t)
<1>. DEFINE L == Lines(text)
            F == Folds(text)
            O == compile(text)
<1>1. /\ Sound(L) /\ UnitSteps(L) /\ F = apply_optimizations(L)
      /\ Sound(F) /\ O = apply_loop_optimizations(F)
      /\ Runnable(L) /\ Runnable(F) /\ Runnable(O)
  BY ThreeCodes
<1>2. PICK x \in Machines(L), y \in Machines(L), z \in Machines(F) :
         /\ <<s, y>> \in AtCharacter(text) /\ y \in Runs(L, x)
         /\ <<x, z>> \in InStep(L) /\ <<z, m>> \in Aligned(F)
  BY DEF Joint
<1>. HIDE DEF L, F, O
<1>3. PICK u \in Runs(L, y) : u \notin Running(L) /\ <<r, u>> \in AtCharacter(text)
  <2>1. y \in Machines(Lines(text)) /\ <<s, y>> \in AtCharacter(text)
    BY <1>2 DEF L
  <2>. QED
    BY <2>1, LinesToEnd, Zenon DEF L
<1>4. u \in Runs(L, x) /\ u \in Machines(L)
  BY <1>1, <1>2, <1>3, RunOnward, RunBegins
<1>5. PICK v \in Runs(F, z) : v \notin Running(F) /\ <<u, v>> \in InStep(L)
  <2>1. Simulates(InStep(L), Machines(L), Running(L), RunningOn(L),
                Machines(F), Running(F), RunningOn(F))
    BY <1>1, FoldsFollow
  <2>2. /\ Running(L) \in SUBSET Machines(L) /\ RunningOn(L) \in [Running(L) -> Machines(L)]
        /\ Running(F) \in SUBSET Machines(F) /\ RunningOn(F) \in [Running(F) -> Machines(F)]
    BY <1>1, MachineFunction
  <2>. QED
    BY <1>2, <1>3, <1>4, <2>1, <2>2, SimulatesToEnd, Zenon DEF Runs
<1>6. v \in Machines(F)
  BY <1>1, <1>2, <1>5, RunBegins
<1>7. <<v, t>> \in Aligned(F)
  <2>1. Simulates(Aligned(F), Machines(F), Running(F), RunningOn(F),
                Machines(O), Running(O), RunningOn(O))
    BY <1>1, ReplacedFollow DEF O
  <2>2. /\ Running(F) \in SUBSET Machines(F) /\ RunningOn(F) \in [Running(F) -> Machines(F)]
        /\ Running(O) \in SUBSET Machines(O) /\ RunningOn(O) \in [Running(O) -> Machines(O)]
    BY <1>1, MachineFunction
  <2>3. m \in Machines(O)
    BY DEF O
  <2>4. PICK w \in Runs(O, m) : w \notin Running(O) /\ <<v, w>> \in Aligned(F)
    BY <1>2, <1>5, <2>1, <2>2, <2>3, SimulatesToEnd, Zenon DEF Runs
  <2>5. t \in Runs(O, m) /\ t \notin Running(O)
    BY DEF O
  <2>6. w = t
    BY <2>2, <2>3, <2>4, <2>5, WayEndsOnce DEF Runs
  <2>. QED
    BY <2>4, <2>6
<1>8. Stopping(L[u.line])
  <2>1. u.line \in 1 .. Len(L)
    BY <1>5 DEF InStep
  <2>2. u.line =< Len(L)
    BY <2>1
  <2>. QED
    BY <1>3, <1>4, <2>2 DEF Running
<1>9. Beside(L, u, v)
  <2>1. PICK w \in Runs(F, v) : Beside(L, u, w)
    BY <1>1, <1>5, <1>8, StopFollows, Zenon
  <2>2. w = v
    BY <1>1, <1>5, <1>6, <2>1, RunFirst
  <2>. QED
    BY <2>1, <2>2
<1>10. Level(text, r, u) /\ Alongside(F, v, t)
  BY <1>3, <1>7 DEF AtCharacter, Aligned
<1>. QED
  BY <1>4, <1>6, <1>9, <1>10 DEF Meet, L, F

\* Where they meet the code has the line of the program's character, the program's tape, and
\* A at its pointer.
LEMMA MeetAlike ==
    ASSUME NEW text, Program(text), NEW s \in Readers(text), s \notin Reading(text),
           NEW m \in Machines(compile(text)), Meet(text, s, m)
    PROVE  /\ compile(text)[m.line] = Lines(text)[tpos(text, s.at)]
           /\ m.registers[1] = s.pointer /\ m.ram = s.cells
<1>. DEFINE L == Lines(text)
            F == Folds(text)
            O == compile(text)
            l == L[tpos(text, s.at)]
<1>1. /\ Sound(L) /\ F = apply_optimizations(L) /\ Sound(F)
      /\ O = apply_loop_optimizations(F)
  BY ThreeCodes
<1>2. PICK u \in Machines(L), v \in Machines(F) :
         Level(text, s, u) /\ Beside(L, u, v) /\ Alongside(F, v, m)
  BY DEF Meet
<1>3. thisOf(text, s) \in {".", ",", "end"} /\ s.at \in 1 .. (Len(text) + 1)
  BY DEF Reading, Readers
<1>4. Stopping(l)
  <2>1. (IF s.at =< Len(text) THEN text[s.at] ELSE "end") \in {".", ",", "end"}
    BY <1>3 DEF thisOf
  <2>. QED
    BY <1>3, <2>1, CharacterLines
<1>. HIDE DEF L, F, O
<1>5. F[v.line] = l
  <2>1. Ends(L)
    BY <1>1, FoldSound
  <2>2. Stays(L, u.line) /\ v.line = fpos(L, u.line) /\ u.line = tpos(text, s.at)
    BY <1>2 DEF Beside, Level
  <2>. QED
    BY <1>1, <2>1, <2>2, FoldedPlaces
<1>6. O[m.line] = l
  <2>1. Visited(F, v.line) /\ m.line = opos(F, v.line)
    BY <1>2 DEF Alongside
  <2>2. ~ Replaces(F, v.line)
    BY <1>4, <1>5, ReplacesLabel
  <2>. QED
    BY <1>1, <1>5, <2>1, <2>2, CopiedLine
<1>7. m.registers[1] = s.pointer /\ m.ram = s.cells
  BY <1>2 DEF Level, Beside, Alongside
<1>. QED
  BY <1>6, <1>7 DEF O, L

\* With nothing pending the lines and the folded code can be put beside a state of the code.
LEMMA JointFrom ==
    ASSUME NEW text, Program(text), NEW k \in 1 .. Len(Lines(text)), NEW p,
           Folding(Lines(text))[k - 1].value = 0, p = fat(Lines(text), k),
           Visited(Folds(text), p), NEW m \in Machines(compile(text)), m.line = opos(Folds(text), p)
    PROVE  \E x \in Machines(Lines(text)), z \in Machines(Folds(text)) :
              /\ x = State(k, m.registers, m.ram, m.zero)
              /\ <<x, z>> \in InStep(Lines(text)) /\ <<z, m>> \in Aligned(Folds(text))
<1>. DEFINE L == Lines(text)
            F == Folds(text)
            O == compile(text)
            x == State(k, m.registers, m.ram, m.zero)
            z == State(p, m.registers, m.ram, m.zero)
<1>1. /\ Sound(L) /\ F = apply_optimizations(L) /\ Sound(F)
      /\ O = apply_loop_optimizations(F)
  BY ThreeCodes
<1>2. /\ m.registers \in [Registers -> MemCell] /\ m.ram \in Tape /\ m.zero \in BOOLEAN
  BY DEF Machines
<1>3. p \in 1 .. Len(F) /\ Len(F) \in Nat /\ Len(L) \in Nat
  <2>. HIDE DEF L, F
  <2>. QED
    BY <1>1, FoldSound, LenProperties DEF Visited, Sound, L, F
<1>4. /\ x.line = k /\ x.registers = m.registers /\ x.ram = m.ram /\ x.zero = m.zero
      /\ z.line = p /\ z.registers = m.registers /\ z.ram = m.ram /\ z.zero = m.zero
  BY DEF State
<1>5. x \in Machines(L) /\ z \in Machines(F)
  <2>1. k \in 1 .. (Len(L) + 1) /\ p \in 1 .. (Len(F) + 1)
    BY <1>3
  <2>. HIDE DEF L, F
  <2>. QED
    BY <1>2, <2>1 DEF State, Machines
<1>6. Behind(L, x, z)
  <2>1. Folding(L)[k - 1] \in Accumulating
    BY <1>1, FoldSound
  <2>2. Pended(Folding(L)[k - 1], m.registers, m.ram, m.registers, m.ram)
    <3>. DEFINE o == Folding(L)[k - 1]
                rs == m.registers
                mem == m.ram
    <3>1. o \in Accumulating /\ o.value = 0 /\ rs \in [Registers -> MemCell] /\ mem \in Tape
      BY <1>2, <2>1
    <3>. HIDE DEF o, rs, mem
    <3>2. Pended(o, rs, mem, rs, mem)
      BY <3>1, NothingPended
    <3>. QED
      BY <3>2 DEF o, rs, mem
  <2>. HIDE DEF x, z
  <2>. QED
    BY <1>4, <2>2 DEF Behind
<1>7. Alongside(F, z, m)
  BY <1>4 DEF Alongside
<1>. HIDE DEF x, z
<1>8. <<x, z>> \in InStep(L)
  BY <1>1, <1>4, <1>5, <1>6 DEF InStep
<1>9. <<z, m>> \in Aligned(F)
  BY <1>1, <1>5, <1>7 DEF Aligned
<1>. QED
  BY <1>5, <1>8, <1>9 DEF x

\* After both have written or read they belong together again.
LEMMA MeetAgain ==
    ASSUME NEW text, Program(text), NEW s \in Readers(text), thisOf(text, s) \in {".", ","},
           NEW m \in Machines(compile(text)), Meet(text, s, m),
           NEW r \in Readers(text), r.at = s.at + 1,
           NEW t \in Machines(compile(text)), t.line = m.line + 1,
           t.registers[1] = r.pointer, t.ram = r.cells
    PROVE  Joint(text, r, t)
<1>. DEFINE L == Lines(text)
            F == Folds(text)
            O == compile(text)
            k == tpos(text, s.at)
            l == L[k]
            f == fpos(L, k)
<1>1. /\ Sound(L) /\ F = apply_optimizations(L) /\ Sound(F) /\ Runnable(L)
      /\ O = apply_loop_optimizations(F)
  BY ThreeCodes
<1>2. PICK u \in Machines(L), v \in Machines(F) :
         Level(text, s, u) /\ Beside(L, u, v) /\ Alongside(F, v, m)
  BY DEF Meet
<1>3. s.at \in 1 .. Len(text) /\ text[s.at] = thisOf(text, s) /\ Len(text) \in Nat
  <2>1. s.at \in 1 .. (Len(text) + 1) /\ Len(text) \in Nat
    BY LenProperties DEF Readers, Program
  <2>2. s.at =< Len(text)
    BY DEF thisOf
  <2>3. text[s.at] = thisOf(text, s)
    BY <2>2 DEF thisOf
  <2>. DEFINE n == Len(text)
  <2>. HIDE DEF n
  <2>4. s.at \in 1 .. n
    BY <2>1, <2>2, OneMore, Zenon DEF n
  <2>. QED
    BY <2>1, <2>3, <2>4 DEF n
<1>4. /\ (l = PrintLine \/ l = InputLine) /\ tpos(text, s.at + 1) = k + 1
      /\ k \in 1 .. Len(L) /\ k + 1 \in 1 .. Len(L)
  <2>1. (l = PrintLine \/ l = InputLine) /\ tpos(text, s.at + 1) = k + 1
    <3>1. text[s.at] \in {".", ","} /\ text[s.at] \notin {"[", "]"}
      BY <1>3
    <3>2. /\ text[s.at] = "." => l = PrintLine /\ tpos(text, s.at + 1) = k + 1
          /\ text[s.at] = "," => l = InputLine /\ tpos(text, s.at + 1) = k + 1
      BY <1>3, <3>1, PlainBlocks
    <3>. HIDE DEF l, k
    <3>. QED
      BY <3>1, <3>2
  <2>2. s.at \in 1 .. (Len(text) + 1) /\ s.at + 1 \in 1 .. (Len(text) + 1)
    <3>. DEFINE n == Len(text)
                i == s.at
    <3>1. i \in 1 .. n /\ n \in Nat
      BY <1>3
    <3>. HIDE DEF n, i
    <3>2. i \in 1 .. (n + 1) /\ i + 1 \in 1 .. (n + 1)
      BY <3>1, OneMore, Zenon
    <3>. QED
      BY <3>2 DEF n, i
  <2>3. k \in 1 .. Len(L) /\ tpos(text, s.at + 1) \in 1 .. Len(L)
    BY <2>2, CharacterLines
  <2>. QED
    BY <2>1, <2>3
<1>5. l # HaltLine /\ l.kind = "instruction"
  <2>1. l = PrintLine \/ l = InputLine
    BY <1>4
  <2>. HIDE DEF l
  <2>. QED
    BY <2>1, NotTheEnd, Zenon
<1>6. Stays(L, k) /\ v.line = f /\ Visited(F, f) /\ m.line = opos(F, f)
  BY <1>2 DEF Level, Beside, Alongside
<1>. HIDE DEF l, f
<1>. HIDE DEF L, F, O, k
<1>7. Ends(L) /\ L \in Seq(Assembly)
  BY <1>1, FoldSound DEF Ends
<1>8. F[f] = l /\ Folding(L)[k].value = 0 /\ fat(L, k + 1) = f + 1
  <2>1. F[f] = l
    BY <1>1, <1>6, <1>7, FoldedPlaces DEF f, l
  <2>2. Folding(L)[k].value = 0 /\ fat(L, k + 1) = f + 1
    BY <1>4, <1>6, <1>7, StayingLine DEF f
  <2>. QED
    BY <2>1, <2>2
<1>9. ~ Replaces(F, f)
  BY <1>5, <1>8, ReplacesLabel
<1>10. Visited(F, f + 1) /\ opos(F, f + 1) = opos(F, f) + 1
  <2>1. opos(F, f + 1) = opos(F, f) + 1
    BY <1>1, <1>6, <1>9, CopiedLine
  <2>2. f \in 1 .. Len(F) /\ Len(F) \in Nat /\ F[Len(F)] = HaltLine
    BY <1>1, <1>6, LenProperties DEF Visited, Sound
  <2>3. f # Len(F)
    BY <1>5, <1>8, <2>2
  <2>4. f + 1 =< Len(F)
    <3>. DEFINE n == Len(F)
    <3>. HIDE DEF n
    <3>1. f \in 1 .. n /\ n \in Nat /\ f # n
      BY <2>2, <2>3 DEF n
    <3>2. f + 1 =< n
      BY <3>1, OneMore, Zenon
    <3>. QED
      BY <3>2 DEF n
  <2>5. Beyond(F, f) = f + 1
    BY <1>9 DEF Beyond
  <2>6. Beyond(F, f) =< Len(F) => Visited(F, Beyond(F, f))
    BY <1>1, <1>6, VisitedPlaces
  <2>7. Visited(F, f + 1)
    BY <2>4, <2>5, <2>6
  <2>. QED
    BY <2>1, <2>7
<1>11. PICK x \in Machines(L), z \in Machines(F) :
          /\ x = State(k + 1, t.registers, t.ram, t.zero)
          /\ <<x, z>> \in InStep(L) /\ <<z, t>> \in Aligned(F)
  <2>1. (k + 1) - 1 = k
    <3>1. Len(L) \in Nat
      BY <1>7, LenProperties
    <3>. QED
      BY <1>4, <3>1, OneMore, Zenon
  <2>2. Folding(L)[(k + 1) - 1].value = 0
    BY <1>8, <2>1
  <2>3. t \in Machines(O) /\ t.line = opos(F, f + 1)
    BY <1>6, <1>10 DEF O
  <2>. QED
    BY <1>4, <1>8, <1>10, <2>2, <2>3, JointFrom DEF L, F, O
<1>12. x \in Runs(L, x)
  BY <1>1, <1>11, RunBegins
<1>13. <<r, x>> \in AtCharacter(text)
  <2>1. x.line = tpos(text, r.at) /\ x.registers[1] = r.pointer /\ x.ram = r.cells
    BY <1>4, <1>11 DEF State, k
  <2>. QED
    BY <1>11, <2>1 DEF AtCharacter, Level, L
<1>. QED
  BY <1>11, <1>12, <1>13 DEF Joint, L, F

\* At the beginning both belong together.
LEMMA JointFirst ==
    ASSUME NEW text, Program(text), NEW s \in Readers(text), s.at = 1, s.pointer = 2,
           NEW m \in Machines(compile(text)), m.line = 1, m.ram = s.cells
    PROVE  Joint(text, s, m)
<1>. DEFINE L == Lines(text)
            F == Folds(text)
<1>1. /\ Sound(L) /\ F = apply_optimizations(L) /\ Sound(F) /\ Runnable(L)
  BY ThreeCodes
<1>2. /\ L[1] = Skip(<<Number(30000)>>) /\ L[2] = Label(start) /\ L[3] = Mov(RegA, Number(2))
      /\ tpos(text, 1) = 4
  BY Positions
<1>3. 4 \in 1 .. Len(L) /\ 1 \in 1 .. Len(L) /\ 2 \in 1 .. Len(L) /\ 3 \in 1 .. Len(L)
  <2>1. 1 \in 1 .. (Len(text) + 1)
    BY LenProperties DEF Program
  <2>2. tpos(text, 1) \in 1 .. Len(L) /\ Len(L) \in Nat
    BY <2>1, CharacterLines
  <2>3. 4 \in 1 .. Len(L) /\ Len(L) \in Nat
    BY <1>2, <2>2
  <2>. HIDE DEF L
  <2>. QED
    BY <2>3
<1>. HIDE DEF L, F
<1>4. Ends(L) /\ L \in Seq(Assembly) /\ F \in Seq(Assembly) /\ F # <<>>
  BY <1>1, FoldSound, FoldedEnds DEF Ends
<1>5. Folding(L)[1 - 1].value = 0 /\ fat(L, 1) = 1
  <2>1. Folding(L)[0] = Accumulator /\ 1 - 1 = 0
    BY <1>4, FoldingRuns
  <2>2. Accumulator.value = 0 /\ Accumulator.code = <<>>
    BY DEF Accumulator
  <2>. QED
    BY <2>1, <2>2 DEF fat
<1>6. Visited(F, 1) /\ opos(F, 1) = 1
  BY <1>1, <1>4, FirstVisited
<1>7. PICK x \in Machines(L), z \in Machines(F) :
          /\ x = State(1, m.registers, m.ram, m.zero)
          /\ <<x, z>> \in InStep(L) /\ <<z, m>> \in Aligned(F)
  <2>1. \A k \in 1 .. Len(L) : \A p : Folding(L)[k - 1].value = 0 /\ p = fat(L, k)
           /\ Visited(F, p) /\ m.line = opos(F, p) =>
              \E x \in Machines(L), z \in Machines(F) :
                 /\ x = State(k, m.registers, m.ram, m.zero)
                 /\ <<x, z>> \in InStep(L) /\ <<z, m>> \in Aligned(F)
    BY JointFrom, Zenon DEF L, F
  <2>. QED
    BY <1>3, <1>5, <1>6, <2>1, Zenon
<1>. DEFINE rs == m.registers
            ro == [rs EXCEPT ![1] = Cell(2)]
            mem == m.ram
            e == m.zero
            y == State(4, ro, mem, e)
<1>8. y \in Runs(L, x)
  <2>1. rs \in [Registers -> MemCell] /\ mem \in Tape
    BY DEF Machines
  <2>2. State(1, rs, mem, e) \in Runs(L, x)
    BY <1>1, <1>7, RunBegins
  <2>. HIDE DEF rs, mem, e
  <2>3. State(1 + 1, rs, mem, e) \in Runs(L, x)
    <3>1. L[1].kind # "instruction"
      BY <1>2 DEF Skip
    <3>. QED
      BY <1>1, <1>3, <1>7, <2>2, <3>1, LineSteps, Zenon
  <2>4. State(2 + 1, rs, mem, e) \in Runs(L, x)
    <3>1. L[2].kind # "instruction"
      BY <1>2 DEF Label
    <3>2. 1 + 1 = 2
      OBVIOUS
    <3>3. State(2, rs, mem, e) \in Runs(L, x)
      BY <2>3, <3>2
    <3>. QED
      BY <1>1, <1>3, <1>7, <3>1, <3>3, LineSteps, Zenon
  <2>5. State(3 + 1, NewRegisters(L[3], rs), NewTape(L[3], rs, mem), NewZero(L[3], rs, mem, e))
           \in Runs(L, x)
    <3>1. State(3, rs, mem, e) \in Runs(L, x)
      <4>1. 2 + 1 = 3
        OBVIOUS
      <4>. QED
        BY <2>4, <4>1
    <3>2. SimpleLine(L[3])
      BY <1>2 DEF SimpleLine
    <3>. QED
      BY <1>1, <1>3, <1>7, <2>1, <3>1, <3>2, SimpleSteps
  <2>6. /\ NewRegisters(L[3], rs) = ro /\ NewTape(L[3], rs, mem) = mem
        /\ NewZero(L[3], rs, mem, e) = e
    <3>1. SimpleLine(L[3]) /\ L[3] = Mov(RegA, Number(2))
      BY <1>2 DEF SimpleLine
    <3>2. L[3] # Test /\ \A p : ~ IsStep(L[3], p)
      BY <3>1, SimpleKinds, Fields
    <3>. QED
      BY <3>1, <3>2 DEF NewRegisters, NewTape, NewZero
  <2>7. 3 + 1 = 4
    OBVIOUS
  <2>. HIDE DEF ro
  <2>. QED
    BY <2>5, <2>6, <2>7
<1>9. y \in Machines(L)
  BY <1>1, <1>7, <1>8, RunBegins
<1>10. Level(text, s, y)
  <2>1. y.line = 4 /\ y.registers = ro /\ y.ram = mem
    BY DEF State
  <2>2. ro[1] = 2
    <3>1. Cell(2) = 2
      <4>1. 2 \in MemCell
        BY DEF Readers
      <4>. QED
        BY <4>1, CellIsMemCell
    <3>2. rs \in [Registers -> MemCell] /\ 1 \in Registers
      BY DEF Machines, Registers
    <3>. QED
      BY <3>1, <3>2
  <2>. HIDE DEF y, ro
  <2>. QED
    BY <1>2, <2>1, <2>2 DEF Level
<1>. HIDE DEF y
<1>11. <<s, y>> \in AtCharacter(text)
  BY <1>9, <1>10 DEF AtCharacter, L
<1>. QED
  BY <1>7, <1>8, <1>9, <1>11 DEF Joint, L, F

-----------------------------------------------------------------------------
(* What can be seen of the code is what can be seen of the program.           *)

\* The program and its code have come from states that belong together.
Together(text, r, t) ==
    \E s \in Readers(text), m \in Machines(compile(text)) :
        /\ Joint(text, s, m)
        /\ r \in Way(Readers(text), Reading(text), ReadingOn(text), s)
        /\ t \in Runs(compile(text), m)

\* They still have when either goes on, and again once they belong together.
LEMMA StayTogether ==
    ASSUME NEW text, Program(text)
    PROVE  /\ \A r \in Readers(text), t \in Machines(compile(text)) :
                 Joint(text, r, t) => Together(text, r, t)
           /\ \A r, t : Together(text, r, t) =>
                 /\ r \in Reading(text) => Together(text, AfterCommand(text, r), t)
                 /\ t \in Running(compile(text)) =>
                       Together(text, r, AfterLine(compile(text), t))
<1>. DEFINE S == Readers(text)
            G == Reading(text)
            n == ReadingOn(text)
            O == compile(text)
<1>1. Runnable(O)
  BY ThreeCodes
<1>2. G \in SUBSET S /\ n \in [G -> S] /\ \A r \in G : n[r] = AfterCommand(text, r)
  BY ReaderFunction DEF ReadingOn
<1>3. ASSUME NEW r \in S, NEW t \in Machines(O), Joint(text, r, t)
      PROVE  Together(text, r, t)
  <2>1. r \in Way(S, G, n, r)
    BY <1>2, WayGoesOn
  <2>2. t \in Runs(O, t)
    <3>. HIDE DEF O
    <3>. QED
      BY <1>1, RunBegins
  <2>. QED
    BY <1>3, <2>1, <2>2 DEF Together
<1>4. ASSUME NEW r, NEW t, Together(text, r, t)
      PROVE  /\ r \in G => Together(text, AfterCommand(text, r), t)
             /\ t \in Running(O) => Together(text, r, AfterLine(O, t))
  <2>1. PICK s \in S, m \in Machines(O) :
           Joint(text, s, m) /\ r \in Way(S, G, n, s) /\ t \in Runs(O, m)
    BY <1>4 DEF Together
  <2>2. ASSUME r \in G PROVE Together(text, AfterCommand(text, r), t)
    <3>1. AfterCommand(text, r) \in Way(S, G, n, s)
      <4>1. ClosedUnder(Way(S, G, n, s), G, n)
        BY <1>2, WayGoesOn
      <4>2. n[r] \in Way(S, G, n, s)
        BY <2>1, <2>2, <4>1 DEF ClosedUnder
      <4>. QED
        BY <1>2, <2>2, <4>2, Zenon
    <3>. QED
      BY <2>1, <3>1 DEF Together
  <2>3. ASSUME t \in Running(O) PROVE Together(text, r, AfterLine(O, t))
    <3>1. AfterLine(O, t) \in Runs(O, m)
      <4>1. t.line \in 1 .. Len(O) /\ ~ Stopping(O[t.line])
        <5>. HIDE DEF O
        <5>1. t \in Machines(O) /\ t.line =< Len(O) /\ ~ Stopping(O[t.line])
          BY <2>3 DEF Running
        <5>2. t.line \in 1 .. (Len(O) + 1) /\ Len(O) \in Nat
          BY <1>1, <5>1, LenProperties DEF Machines, Runnable
        <5>3. t.line \in 1 .. Len(O)
          BY <5>1, <5>2, OneMore, Zenon
        <5>. QED
          BY <5>1, <5>3
      <4>. HIDE DEF O
      <4>. QED
        BY <1>1, <2>1, <4>1, RunGoesOn
    <3>. QED
      BY <2>1, <3>1 DEF Together
  <2>. QED
    BY <2>2, <2>3
<1>. QED
  BY <1>3, <1>4

\* Where both wait they meet.
LEMMA TogetherMeets ==
    ASSUME NEW text, Program(text), OperandsAreBytes(compile(text)),
           NEW r, NEW t, Together(text, r, t), r \notin Reading(text),
           t \notin Running(compile(text))
    PROVE  Meet(text, r, t)
<1>1. PICK s \in Readers(text), m \in Machines(compile(text)) :
         /\ Joint(text, s, m) /\ r \in Way(Readers(text), Reading(text), ReadingOn(text), s)
         /\ t \in Runs(compile(text), m)
  BY DEF Together
<1>. QED
  BY <1>1, JointMeets

\* The inductive invariant: the operands stay bytes, and a program that is compiled and its
\* code are together.
Paired ==
    /\ OperandsAreBytes(code)
    /\ Program(chars) => Together(chars, reader, runner)

\* They start together.
LEMMA StartsPaired == Init => Paired
<1>. SUFFICES ASSUME Init, Program(chars)
              PROVE  Together(chars, reader, runner)
  BY Zenon DEF Init, Paired
<1>1. reader \in Readers(chars) /\ runner \in Machines(compile(chars))
  <2>1. Compiled /\ TypeOK /\ code = compile(chars)
    BY StartsTyped DEF Compiled, Init
  <2>. QED
    BY <2>1, TypesAreStates DEF StatesOK
<1>2. /\ reader.at = 1 /\ reader.pointer = 2 /\ reader.cells = FirstCells
      /\ runner.line = 1 /\ runner.ram = FirstCells
  BY DEF Init, reader, runner
<1>3. Joint(chars, reader, runner)
  BY <1>1, <1>2, JointFirst
<1>. QED
  BY <1>1, <1>3, StayTogether

\* After both have written or read they are together anew.
LEMMA MovesPaired ==
    ASSUME Compiled, Paired, TypeOK, Program(chars), Runnable(code),
           reader \in Readers(chars), runner \in Machines(code),
           chars' = chars, code' = code, reader' \in Readers(chars), runner' \in Machines(code),
           thisOf(chars, reader) \in {".", ","}, runner \notin Running(code),
           reader'.at = reader.at + 1, runner'.line = runner.line + 1,
           Meet(chars, reader, runner) =>
              runner'.registers[1] = reader'.pointer /\ runner'.ram = reader'.cells
    PROVE  Together(chars, reader', runner')
<1>1. code = compile(chars) /\ OperandsAreBytes(compile(chars)) /\ Together(chars, reader, runner)
  BY DEF Compiled, Paired
<1>2. reader \notin Reading(chars)
  BY DEF Reading
<1>3. Meet(chars, reader, runner)
  BY <1>1, <1>2, TogetherMeets
<1>4. Joint(chars, reader', runner')
  BY <1>1, <1>3, MeetAgain
<1>. QED
  BY <1>1, <1>4, StayTogether

\* Every step keeps them together.
LEMMA StaysPaired ==
    ASSUME Compiled, Compiled', TypeOK, TypeOK', Paired, [Next]_vars
    PROVE  Paired'
<1>1. CASE UNCHANGED vars
  BY <1>1 DEF vars, language, machine, Paired, reader, runner
<1>2. ASSUME Next PROVE Paired'
  <2>1. /\ reader \in Readers(chars) /\ runner \in Machines(code)
        /\ Program(chars) /\ Runnable(code) /\ code = compile(chars)
    BY <1>2, TypesAreStates, StepsRun DEF StatesOK, Compiled
  <2>2. reader' \in Readers(chars') /\ runner' \in Machines(code')
    <3>1. (Compiled => (TypeOK <=> StatesOK))'
      BY TypesAreStates, PTL
    <3>. QED
      BY <3>1 DEF StatesOK
  <2>3. OperandsAreBytes(code) /\ Together(chars, reader, runner)
    BY <2>1 DEF Paired
  <2>4. SUFFICES chars' = chars /\ code' = code /\ Together(chars, reader', runner')
    BY <2>1, <2>3 DEF Paired
  <2>5. CASE LanguageStep
    <3>1. Command /\ UNCHANGED machine
      BY <2>5 DEF LanguageStep
    <3>2. reader \in Reading(chars) /\ reader' = AfterCommand(chars, reader) /\ chars' = chars
      BY <2>1, <3>1, CommandIsFunction
    <3>3. runner' = runner /\ code' = code
      BY <3>1 DEF machine, runner
    <3>. QED
      BY <2>1, <2>3, <3>2, <3>3, StayTogether
  <2>6. CASE MachineStep
    <3>1. Instructions /\ UNCHANGED language
      BY <2>6 DEF MachineStep
    <3>2. runner \in Running(code) /\ runner' = AfterLine(code, runner) /\ code' = code
      BY <2>1, <3>1, InstructionIsFunction
    <3>3. reader' = reader /\ chars' = chars
      BY <3>1 DEF language, reader
    <3>. QED
      BY <2>1, <2>3, <3>2, <3>3, StayTogether
  <2>7. CASE WriteBoth
    <3>1. /\ thisOf(chars, reader) = "." /\ chars' = chars /\ code' = code
          /\ reader' = [at |-> at + 1, pointer |-> pointer, cells |-> cells]
          /\ runner \notin Running(code) /\ runner' = Jumped(runner, line + 1)
      BY <2>1, <2>7, WritesAsFunction
    <3>2. /\ reader'.at = reader.at + 1 /\ reader'.pointer = reader.pointer
          /\ reader'.cells = reader.cells /\ runner'.line = runner.line + 1
          /\ runner'.registers = runner.registers /\ runner'.ram = runner.ram
      BY <3>1 DEF reader, runner, Jumped
    <3>3. Meet(chars, reader, runner) =>
             runner'.registers[1] = reader'.pointer /\ runner'.ram = reader'.cells
      BY <2>1, <3>1, <3>2, MeetAlike DEF Reading
    <3>. QED
      BY <2>1, <2>2, <3>1, <3>2, <3>3, MovesPaired
  <2>8. ASSUME NEW v \in MemCell, ReadBoth(v)
        PROVE  chars' = chars /\ code' = code /\ Together(chars, reader', runner')
    <3>1. /\ thisOf(chars, reader) = "," /\ chars' = chars /\ code' = code
          /\ reader' = [at |-> at + 1, pointer |-> pointer,
                        cells |-> [cells EXCEPT ![pointer] = v]]
          /\ runner \notin Running(code) /\ runner' = Stored(runner, AtA, v)
      BY <2>1, <2>8, ReadsAsFunction
    <3>2. Stored(runner, AtA, v) =
             [line |-> runner.line + 1, registers |-> runner.registers,
              ram |-> [runner.ram EXCEPT ![runner.registers[1]] = v], zero |-> runner.zero]
      BY OperandMeans
    <3>3. /\ reader'.at = reader.at + 1 /\ reader'.pointer = reader.pointer
          /\ reader'.cells = [reader.cells EXCEPT ![reader.pointer] = v]
          /\ runner'.line = runner.line + 1 /\ runner'.registers = runner.registers
          /\ runner'.ram = [runner.ram EXCEPT ![runner.registers[1]] = v]
      <4>1. reader.at = at /\ reader.pointer = pointer /\ reader.cells = cells
        BY DEF reader
      <4>2. /\ reader'.at = at + 1 /\ reader'.pointer = pointer
            /\ reader'.cells = [cells EXCEPT ![pointer] = v]
        BY <3>1
      <4>3. /\ runner'.line = runner.line + 1 /\ runner'.registers = runner.registers
            /\ runner'.ram = [runner.ram EXCEPT ![runner.registers[1]] = v]
        <5>. DEFINE rs == runner.registers
                    mem == [runner.ram EXCEPT ![runner.registers[1]] = v]
                    q == runner.line + 1
        <5>1. runner' = [line |-> q, registers |-> rs, ram |-> mem, zero |-> runner.zero]
          BY <3>1, <3>2, Zenon
        <5>. HIDE DEF rs, mem, q
        <5>2. runner'.line = q /\ runner'.registers = rs /\ runner'.ram = mem
          BY <5>1
        <5>. QED
          BY <5>2 DEF rs, mem, q
      <4>. QED
        BY <4>1, <4>2, <4>3
    <3>4. Meet(chars, reader, runner) =>
             runner'.registers[1] = reader'.pointer /\ runner'.ram = reader'.cells
      <4>1. Meet(chars, reader, runner) =>
               runner.registers[1] = reader.pointer /\ runner.ram = reader.cells
        BY <2>1, <3>1, MeetAlike DEF Reading
      <4>. QED
        BY <3>3, <4>1
    <3>. QED
      BY <2>1, <2>2, <3>1, <3>3, <3>4, MovesPaired
  <2>. QED
    BY <1>2, <2>5, <2>6, <2>7, <2>8 DEF Next
<1>. QED
  BY <1>1, <1>2

\* Where both wait they look the same.
LEMMA PairedLooksTheSame == Compiled /\ TypeOK /\ Paired => SameAtIO
<1>. SUFFICES ASSUME Compiled, TypeOK, Paired, AtIO, Waits
              PROVE  /\ op = CASE this = "." -> PRINT [] this = "," -> INPUT [] this = "end" -> HALT
                     /\ registers[1] = pointer
                     /\ ram = cells
  BY DEF SameAtIO
<1>1. reader \in Readers(chars) /\ runner \in Machines(code) /\ code = compile(chars)
  BY TypesAreStates DEF StatesOK, Compiled
<1>2. line =< Len(code)
  BY DEF Waits, op, NOP, PRINT, INPUT, HALT
<1>3. Program(chars)
  <2>1. chars \in Seq(Chars)
    BY BrainfvckAssumption DEF Compiled, Chars
  <2>2. code # <<>>
    <3>. SUFFICES ASSUME code = <<>> PROVE FALSE
      OBVIOUS
    <3>1. line \in 1 .. (0 + 1) /\ line =< 0
      BY <1>2 DEF TypeOK
    <3>. QED
      BY <3>1
  <2>. QED
    BY <1>1, <2>1, <2>2, CompileRejects DEF Program
<1>4. Runnable(code)
  BY <1>1, <1>3, CompiledRuns
<1>5. /\ runner \notin Running(code)
      /\ op = PRINT => code[line] = PrintLine
      /\ op = INPUT => code[line] = InputLine
      /\ op = HALT => code[line] = HaltLine
  BY <1>1, <1>4, WaitsAtStops
<1>6. thisOf(chars, reader) = this /\ reader \notin Reading(chars) /\ this \in {".", ",", "end"}
  <2>1. thisOf(chars, reader) = this
    BY DEF this, thisOf, reader
  <2>. QED
    BY <2>1 DEF AtIO, Reading
<1>7. Meet(chars, reader, runner)
  BY <1>1, <1>3, <1>5, <1>6, TogetherMeets DEF Paired
<1>8. /\ code[runner.line] = Lines(chars)[tpos(chars, reader.at)]
      /\ runner.registers[1] = reader.pointer /\ runner.ram = reader.cells
  BY <1>1, <1>3, <1>6, <1>7, MeetAlike
<1>9. /\ this = "." => code[line] = PrintLine
      /\ this = "," => code[line] = InputLine
      /\ this = "end" => code[line] = HaltLine
  <2>1. reader.at \in 1 .. (Len(chars) + 1) /\ runner.line = line
    BY <1>1 DEF Readers, runner
  <2>2. this = IF reader.at =< Len(chars) THEN chars[reader.at] ELSE "end"
    BY <1>6 DEF thisOf
  <2>3. LET c == IF reader.at =< Len(chars) THEN chars[reader.at] ELSE "end"
            l == Lines(chars)[tpos(chars, reader.at)]
        IN  (c = "." => l = PrintLine) /\ (c = "," => l = InputLine) /\ (c = "end" => l = HaltLine)
    BY <1>3, <2>1, CharacterLines
  <2>. QED
    BY <1>8, <2>1, <2>2, <2>3
<1>10. /\ code[line] = PrintLine => op = PRINT
       /\ code[line] = InputLine => op = INPUT
       /\ code[line] = HaltLine => op = HALT
  BY <1>2, Fields DEF op, PRINT, INPUT, HALT
<1>11. registers[1] = pointer /\ ram = cells
  BY <1>8 DEF reader, runner
<1>12. op = CASE this = "." -> PRINT [] this = "," -> INPUT [] this = "end" -> HALT
  BY <1>6, <1>9, <1>10
<1>. QED
  BY <1>11, <1>12

\* Whenever the code waits, it waits for what the program waits for, with the program's tape
\* and pointer: folding runs of steps (Brainfvck.cpp:286-356), clearing cells and replacing
\* loops by multiplications (Brainfvck.cpp:157-284) cannot be seen from outside.
THEOREM OptimizationsCannotBeSeen == Spec => []SameAtIO
<1>1. Compiled /\ Compiled' /\ TypeOK /\ TypeOK' /\ Paired /\ [Next]_vars => Paired'
  BY StaysPaired
<1>. QED
  BY <1>1, StartsPaired, PairedLooksTheSame, StaysCompiled, BrainfvckTypeCorrect, PTL DEF Spec
=============================================================================
