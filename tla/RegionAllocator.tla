-------------------------- MODULE RegionAllocator --------------------------
(***************************************************************************)
(* What a first-fit allocator of byte regions promises, whatever it keeps  *)
(* inside: the regions its clients own never share a byte, a request gets  *)
(* the lowest hole it fits in, and it is refused only when no hole is      *)
(* large enough.  MemoryManager (whole-RAM allocation of a process) and    *)
(* Heap (HALLOC and HFREE inside one process) are shown to implement it.   *)
(***************************************************************************)
EXTENDS Integers

CONSTANTS
    Arena,      \* the byte addresses that can be handed out
    Requests,   \* the region lengths that clients ask for
    Slack       \* how many bytes beyond the request a grant may include

VARIABLES
    owned,      \* the regions in the clients' hands
    returned    \* what the last call returned: an address, or Failed

Failed == -1   \* no address

Bytes(r) == r.start_address .. (r.start_address + r.size - 1)

Hole == Arena \ UNION {Bytes(r) : r \in owned}

Fits(a, n) == a .. (a + n - 1) \subseteq Hole

TypeOK ==
    /\ owned \subseteq [start_address : Arena, size : Nat \ {0}]
    /\ returned \in Arena \cup {Failed}

Init ==
    /\ owned = {}
    /\ returned = Failed

Grant(n) ==
    \E a \in Arena, extra \in 0 .. Slack :
        /\ Fits(a, n + extra)
        /\ \A b \in Arena : b < a => ~ Fits(b, n)
        /\ owned' = owned \cup {[start_address |-> a, size |-> n + extra]}
        /\ returned' = a

Refuse(n) ==
    /\ \A a \in Arena : ~ Fits(a, n)
    /\ returned' = Failed
    /\ UNCHANGED owned

Release(r) ==
    /\ owned' = owned \ {r}
    /\ UNCHANGED returned

Clear ==
    /\ owned' = {}
    /\ UNCHANGED returned

Next ==
    \/ \E n \in Requests : Grant(n) \/ Refuse(n)
    \/ \E r \in owned : Release(r)
    \/ Clear

Spec == Init /\ [][Next]_<<owned, returned>>
=============================================================================
