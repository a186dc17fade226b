--------------------------- MODULE MCBrainfvckRun ---------------------------
(* Programs for TLC, on a tape of four cells that begin as 1, 1, 0, 0.  The
   longer ones first read two cells, so that a loop meets every value. *)
EXTENDS BrainfvckRun

Strings(S, n) == UNION {[1 .. m -> S] : m \in 0 .. n}

\* Every short program, balanced or not, with runs and comments.
Short == Strings({"+", "-", ">", "[", "]", ".", "#"}, 3)

\* A loop around every short body of steps.
Steps == {"+", "-", "<", ">"}
Looped == {<<">", ",", "<", ",", "[">> \o body \o <<"]", ">", ".">> :
              body \in Strings(Steps, 3)}

\* Loops that decrement, move away, add and come back, and those that almost do.
Out == {<<">">>, <<"<">>, <<">", ">">>}
Amounts == {<<"+">>, <<"-">>, <<"+", "+">>, <<"-", "-", "-">>, <<"+", "-">>}
Back == {<<"<">>, <<">">>, <<"<", "<">>, <<"+", ">", "-", "<", "<">>, <<">", "+", "<", "<">>}
Multiplying ==
    {<<",", "[", "-">> \o out \o amount \o back \o <<"]", ".">> :
        out \in Out, amount \in Amounts, back \in Back}

\* Loops within loops, and runs that cancel out next to other runs.
Others == {
    <<",", "[", ">", ",", "[", "-", "]", "<", "-", "]", ".">>,
    <<",", "[", "-", "[", "-", ">", "+", "<", "]", "]", ">", ".">>,
    <<",", "[", ">", ",", "[", ".", "-", "]", "<", "-", "]", "[", ".", "]">>,
    <<",", ">", "+", "-", ">", ">", "<", "+", ".", "<", ".">>,
    <<"+", "-", ">", ",", "-", "+", "[", "-", "]", "+", "-", "<", ".">>,
    <<",", ">", "-", "+", "+", "<", "[", "-", ">", "-", "<", "]", ">", ".">>,
    <<",", "[", "-", ">", "+", "+", ">", "-", "<", "<", "]", ">", ".", ">", ".">>}

MCSources == Short \cup Looped \cup Multiplying \cup Others
MCHeader == <<1, 1>>
=============================================================================
