-------------------------- MODULE IsolatedProcesses --------------------------
(***************************************************************************)
(* What a machine that runs one process at a time promises each of them: a *)
(* memory of its own, which begins with its image and which nothing but    *)
(* its own stores changes.                                                 *)
(***************************************************************************)
EXTENDS Integers, Sequences

CONSTANTS
    Images,     \* what can be loaded
    SizeOf(_)   \* the length of the memory that an image gets

VARIABLES
    memory,     \* the memories, in the order they were loaded
    executing   \* the process that runs, or 0

Init == memory = <<>> /\ executing = 0

Load(image) ==
    LET n == Len(memory) + 1
    IN  /\ Len(memory') = n
        /\ \A i \in 1 .. (n - 1) : memory'[i] = memory[i]
        /\ DOMAIN memory'[n] = 0 .. (SizeOf(image) - 1)
        /\ \A k \in 1 .. Len(image) : memory'[n][k - 1] = image[k]
        /\ UNCHANGED executing

Switch ==
    /\ executing' \in 0 .. Len(memory)
    /\ UNCHANGED memory

Store ==
    /\ executing # 0
    /\ \E o \in DOMAIN memory[executing] :
           memory' = [memory EXCEPT ![executing][o] = memory'[executing][o]]
    /\ UNCHANGED executing

Reset == memory' = <<>> /\ executing' = 0

Next == (\E image \in Images : Load(image)) \/ Switch \/ Store \/ Reset

Spec == Init /\ [][Next]_<<memory, executing>>
=============================================================================
