------------------------ MODULE MemoryManagerProofs ------------------------
(***************************************************************************)
(* Proofs about MemoryManager, for every arena, address width and set of   *)
(* request sizes.                                                          *)
(***************************************************************************)
EXTENDS MemoryManager, SequenceTheorems, TLAPS

\* What Splice returns: its length and each of its elements.
LEMMA SpliceProperties ==
    ASSUME NEW S, NEW s \in Seq(S), NEW mid \in Seq(S),
           NEW lo \in 1 .. (Len(s) + 1), NEW hi \in lo .. (Len(s) + 1)
    PROVE  /\ Splice(s, lo, hi, mid) \in Seq(S)
           /\ Len(Splice(s, lo, hi, mid)) = lo + Len(mid) + Len(s) - hi
           /\ \A k \in 1 .. (lo + Len(mid) + Len(s) - hi) :
                Splice(s, lo, hi, mid)[k] =
                  IF k < lo THEN s[k]
                  ELSE IF k < lo + Len(mid) THEN mid[k - lo + 1]
                  ELSE s[(k - lo) - Len(mid) + hi]
<1> DEFINE pre == SubSeq(s, 1, lo - 1)
           post == SubSeq(s, hi, Len(s))
<1>a. /\ Len(s) \in Nat /\ Len(mid) \in Nat /\ lo \in Nat /\ hi \in Nat
      /\ 1 =< lo /\ lo =< hi /\ hi =< Len(s) + 1
      /\ \A i \in 1 .. Len(s) : s[i] \in S
  BY LenProperties, ElementOfSeq
<1>1. /\ pre \in Seq(S) /\ Len(pre) = lo - 1
      /\ \A k \in 1 .. (lo - 1) : pre[k] = s[k]
  <2>1. \A i \in 1 .. (lo - 1) : s[i] \in S
    BY <1>a
  <2>2. /\ SubSeq(s, 1, lo - 1) \in Seq(S)
        /\ Len(SubSeq(s, 1, lo - 1)) = IF 1 <= lo - 1 THEN (lo - 1) - 1 + 1 ELSE 0
        /\ \A i \in 1 .. (lo - 1) - 1 + 1 : SubSeq(s, 1, lo - 1)[i] = s[1 + i - 1]
    <3> HIDE DEF pre, post
    <3>1. lo - 1 \in Int
      BY <1>a
    <3> QED BY <2>1, <3>1, SubSeqProperties
  <2> QED BY <2>2, <1>a
<1>2. /\ post \in Seq(S) /\ Len(post) = Len(s) + 1 - hi
      /\ \A k \in 1 .. (Len(s) + 1 - hi) : post[k] = s[hi + k - 1]
  <2>1. \A i \in hi .. Len(s) : s[i] \in S
    BY <1>a
  <2>2. /\ SubSeq(s, hi, Len(s)) \in Seq(S)
        /\ Len(SubSeq(s, hi, Len(s))) = IF hi <= Len(s) THEN Len(s) - hi + 1 ELSE 0
        /\ \A i \in 1 .. Len(s) - hi + 1 : SubSeq(s, hi, Len(s))[i] = s[hi + i - 1]
    <3>1. hi \in Int /\ Len(s) \in Int
      BY <1>a
    <3> QED BY <2>1, <3>1, SubSeqProperties
  <2> QED BY <2>2, <1>a
<1> HIDE DEF pre, post
<1>3. /\ pre \o mid \in Seq(S)
      /\ Len(pre \o mid) = Len(pre) + Len(mid)
      /\ \A i \in 1 .. Len(pre) + Len(mid) :
            (pre \o mid)[i] = IF i <= Len(pre) THEN pre[i] ELSE mid[i - Len(pre)]
  BY <1>1, ConcatProperties
<1> DEFINE most == pre \o mid
<1> HIDE DEF most
<1>4. /\ most \in Seq(S)
      /\ Len(most) = (lo - 1) + Len(mid)
      /\ \A i \in 1 .. Len(most) :
            most[i] = IF i < lo THEN s[i] ELSE mid[i - lo + 1]
  BY <1>1, <1>3, <1>a DEF most
<1>5. /\ most \o post \in Seq(S)
      /\ Len(most \o post) = Len(most) + Len(post)
      /\ \A i \in 1 .. Len(most) + Len(post) :
            (most \o post)[i] = IF i <= Len(most) THEN most[i] ELSE post[i - Len(most)]
  <2>1. most \in Seq(S) /\ post \in Seq(S)
    BY <1>2, <1>4
  <2> QED BY <2>1, ConcatProperties
<1>6. Splice(s, lo, hi, mid) = most \o post
  BY DEF Splice, pre, post, most
<1>7. Len(most \o post) = lo + Len(mid) + Len(s) - hi
  BY <1>2, <1>4, <1>5, <1>a
<1>8. ASSUME NEW k \in 1 .. (lo + Len(mid) + Len(s) - hi)
      PROVE  (most \o post)[k] = IF k < lo THEN s[k]
                  ELSE IF k < lo + Len(mid) THEN mid[k - lo + 1]
                  ELSE s[(k - lo) - Len(mid) + hi]
  <2>1. CASE k < lo + Len(mid)
    <3>1. k \in 1 .. Len(most) /\ k \in 1 .. (Len(most) + Len(post))
      BY <1>2, <1>4, <1>a, <2>1
    <3>2. (most \o post)[k] = most[k]
      BY <1>5, <3>1
    <3> QED BY <1>4, <2>1, <3>1, <3>2
  <2>2. CASE k >= lo + Len(mid)
    <3> DEFINE m == k - Len(most)
    <3>1. m \in 1 .. (Len(s) + 1 - hi) /\ hi + m - 1 = (k - lo) - Len(mid) + hi
      BY <1>4, <1>a, <2>2
    <3>2. (most \o post)[k] = post[m]
      <4>1. k \in 1 .. (Len(most) + Len(post)) /\ ~ (k <= Len(most))
        BY <1>2, <1>4, <1>a, <2>2
      <4> QED BY <1>5, <4>1
    <3> HIDE DEF m
    <3>3. (most \o post)[k] = s[(k - lo) - Len(mid) + hi]
      BY <1>2, <3>1, <3>2
    <3>4. ~ (k < lo) /\ ~ (k < lo + Len(mid))
      BY <1>a, <2>2
    <3> QED BY <3>3, <3>4
  <2>3. k < lo + Len(mid) \/ k >= lo + Len(mid)
    BY <1>a
  <2> QED BY <2>1, <2>2, <2>3
<1> QED BY <1>5, <1>6, <1>7, <1>8

-----------------------------------------------------------------------------
\* A list as the allocator keeps it, and the addresses it covers.
Tidy(s) ==
    /\ s \in Seq(MemoryBlock)
    /\ \A i \in 1 .. Len(s) : End(s[i]) =< ArenaSize
    /\ \A i, j \in 1 .. Len(s) : i < j => End(s[i]) < s[j].start_address

Covers(s, a) == \E i \in 1 .. Len(s) : a \in Bytes(s[i])

\* Replacing a run of blocks of a tidy list by tidy blocks that touch neither
\* of its neighbours leaves a tidy list, and the bytes it covers are those of
\* the new blocks and of the blocks kept.
LEMMA SpliceTidy ==
    ASSUME NEW s, Tidy(s), NEW mid, Tidy(mid),
           NEW lo \in 1 .. (Len(s) + 1), NEW hi \in lo .. (Len(s) + 1),
           \A k \in 1 .. (lo - 1), m \in 1 .. Len(mid) :
               End(s[k]) < mid[m].start_address,
           \A k \in hi .. Len(s), m \in 1 .. Len(mid) :
               End(mid[m]) < s[k].start_address
    PROVE  /\ Tidy(Splice(s, lo, hi, mid))
           /\ \A a : Covers(Splice(s, lo, hi, mid), a) <=>
                 \/ Covers(mid, a)
                 \/ \E k \in 1 .. (lo - 1) : a \in Bytes(s[k])
                 \/ \E k \in hi .. Len(s) : a \in Bytes(s[k])
<1> DEFINE t == Splice(s, lo, hi, mid)
           n == lo + Len(mid) + Len(s) - hi
<1>a. /\ s \in Seq(MemoryBlock) /\ mid \in Seq(MemoryBlock)
      /\ Len(s) \in Nat /\ Len(mid) \in Nat /\ lo \in Nat /\ hi \in Nat
      /\ 1 =< lo /\ lo =< hi /\ hi =< Len(s) + 1
  BY LenProperties DEF Tidy
<1>1. /\ t \in Seq(MemoryBlock) /\ Len(t) = n /\ n \in Nat
      /\ \A k \in 1 .. n : t[k] =
            IF k < lo THEN s[k]
            ELSE IF k < lo + Len(mid) THEN mid[k - lo + 1]
            ELSE s[(k - lo) - Len(mid) + hi]
  <2>1. n \in Nat
    BY <1>a
  <2> HIDE DEF n
  <2>2. /\ t \in Seq(MemoryBlock) /\ Len(t) = lo + Len(mid) + Len(s) - hi
        /\ \A k \in 1 .. (lo + Len(mid) + Len(s) - hi) : t[k] =
            IF k < lo THEN s[k]
            ELSE IF k < lo + Len(mid) THEN mid[k - lo + 1]
            ELSE s[(k - lo) - Len(mid) + hi]
    <3>1. s \in Seq(MemoryBlock) /\ mid \in Seq(MemoryBlock)
      BY <1>a
    <3> QED BY <3>1, SpliceProperties
  <2> QED BY <2>1, <2>2 DEF n
<1> HIDE DEF t
<1> DEFINE before == 1 .. (lo - 1)
           inside == lo .. (lo + Len(mid) - 1)
           after == (lo + Len(mid)) .. n
<1>2. 1 .. n = before \cup inside \cup after
  BY <1>a, <1>1
<1>3. \A k \in before : k \in 1 .. Len(s) /\ k \in 1 .. n /\ t[k] = s[k]
  BY <1>a, <1>1
<1>4. \A k \in inside : k - lo + 1 \in 1 .. Len(mid) /\ t[k] = mid[k - lo + 1]
  <2> SUFFICES ASSUME NEW k \in inside
               PROVE  k - lo + 1 \in 1 .. Len(mid) /\ t[k] = mid[k - lo + 1]
    OBVIOUS
  <2>1. k \in 1 .. n /\ ~ (k < lo) /\ k < lo + Len(mid)
    BY <1>a, <1>1
  <2>2. k - lo + 1 \in 1 .. Len(mid)
    BY <1>a
  <2> QED BY <1>1, <2>1, <2>2
<1>5. \A k \in after : /\ (k - lo) - Len(mid) + hi \in hi .. Len(s)
                       /\ (k - lo) - Len(mid) + hi \in 1 .. Len(s)
                       /\ t[k] = s[(k - lo) - Len(mid) + hi]
  <2> SUFFICES ASSUME NEW k \in after
               PROVE  /\ (k - lo) - Len(mid) + hi \in hi .. Len(s)
                      /\ (k - lo) - Len(mid) + hi \in 1 .. Len(s)
                      /\ t[k] = s[(k - lo) - Len(mid) + hi]
    OBVIOUS
  <2>1. k \in 1 .. n /\ ~ (k < lo) /\ ~ (k < lo + Len(mid))
    BY <1>a, <1>1
  <2>2. (k - lo) - Len(mid) + hi \in hi .. Len(s)
    BY <1>a, <1>1
  <2>3. (k - lo) - Len(mid) + hi \in 1 .. Len(s)
    BY <1>a, <2>2
  <2>4. t[k] = s[(k - lo) - Len(mid) + hi]
    BY <1>1, <2>1
  <2> QED BY <2>2, <2>3, <2>4
<1> HIDE DEF n
<1>6. \A k \in 1 .. Len(t) : End(t[k]) =< ArenaSize
  BY <1>1, <1>2, <1>3, <1>4, <1>5 DEF Tidy
<1>7. ASSUME NEW i \in 1 .. n, NEW j \in 1 .. n, i < j
      PROVE  End(t[i]) < t[j].start_address
  <2>1. CASE i \in before /\ j \in before
    BY <1>3, <1>7, <2>1 DEF Tidy
  <2>2. CASE i \in before /\ j \in inside
    BY <1>3, <1>4, <2>2
  <2>3. CASE i \in before /\ j \in after
    <3>1. i \in 1 .. Len(s) /\ (j - lo) - Len(mid) + hi \in 1 .. Len(s)
      BY <1>3, <1>5, <2>3
    <3>2. i < (j - lo) - Len(mid) + hi
      BY <1>a, <2>3, <1>1
    <3> QED BY <1>3, <1>5, <2>3, <3>1, <3>2 DEF Tidy
  <2>4. CASE i \in inside /\ j \in inside
    <3>1. i - lo + 1 < j - lo + 1
      BY <1>a, <1>7, <2>4
    <3> QED BY <1>4, <2>4, <3>1 DEF Tidy
  <2>5. CASE i \in inside /\ j \in after
    BY <1>4, <1>5, <2>5
  <2>6. CASE i \in after /\ j \in after
    <3>1. (i - lo) - Len(mid) + hi < (j - lo) - Len(mid) + hi
      BY <1>a, <1>1, <1>7, <2>6
    <3> QED BY <1>5, <2>6, <3>1 DEF Tidy
  <2>7. /\ ~ (i \in inside /\ j \in before)
        /\ ~ (i \in after /\ j \in before) /\ ~ (i \in after /\ j \in inside)
    BY <1>a, <1>1, <1>7
  <2> HIDE DEF before, inside, after
  <2> QED BY <1>2, <2>1, <2>2, <2>3, <2>4, <2>5, <2>6, <2>7
<1>8. Tidy(t)
  BY <1>1, <1>6, <1>7 DEF Tidy
<1>9. ASSUME NEW a
      PROVE  Covers(t, a) <=>
                 \/ Covers(mid, a)
                 \/ \E k \in 1 .. (lo - 1) : a \in Bytes(s[k])
                 \/ \E k \in hi .. Len(s) : a \in Bytes(s[k])
  <2>1. ASSUME Covers(t, a)
        PROVE  \/ Covers(mid, a)
               \/ \E k \in 1 .. (lo - 1) : a \in Bytes(s[k])
               \/ \E k \in hi .. Len(s) : a \in Bytes(s[k])
    <3>1. PICK k \in 1 .. n : a \in Bytes(t[k])
      BY <1>1, <2>1 DEF Covers
    <3> QED BY <1>2, <1>3, <1>4, <1>5, <3>1 DEF Covers
  <2>2. ASSUME Covers(mid, a) PROVE Covers(t, a)
    <3>1. PICK m \in 1 .. Len(mid) : a \in Bytes(mid[m])
      BY <2>2 DEF Covers
    <3>2. m + lo - 1 \in inside /\ (m + lo - 1) - lo + 1 = m
      BY <1>a
    <3> QED BY <1>1, <1>2, <1>4, <3>1, <3>2 DEF Covers
  <2>3. ASSUME NEW k \in 1 .. (lo - 1), a \in Bytes(s[k]) PROVE Covers(t, a)
    BY <1>1, <1>3, <2>3 DEF Covers
  <2>4. ASSUME NEW k \in hi .. Len(s), a \in Bytes(s[k]) PROVE Covers(t, a)
    <3> DEFINE m == (k - hi) + Len(mid) + lo
    <3>1. m \in after /\ (m - lo) - Len(mid) + hi = k
      BY <1>a DEF n
    <3> HIDE DEF m
    <3> QED BY <1>1, <1>2, <1>5, <2>4, <3>1 DEF Covers
  <2> QED BY <2>1, <2>2, <2>3, <2>4
<1> QED BY <1>8, <1>9 DEF t

-----------------------------------------------------------------------------
\* The bytes of a region below the arena's end, spelled out.
LEMMA BytesOfBlock ==
    ASSUME NEW start \in Nat, NEW size \in Nat, NEW a \in Int
    PROVE  a \in Bytes(Block(start, size)) <=> start =< a /\ a < start + size
BY DEF Bytes, Block, End

\* Every element of a tidy list is a block with a first byte, and its bytes
\* lie inside the arena.
LEMMA TidyElement ==
    ASSUME NEW s, Tidy(s), NEW i \in 1 .. Len(s)
    PROVE  /\ s[i] \in MemoryBlock
           /\ s[i].start_address \in Nat /\ s[i].size \in Nat \ {0}
           /\ End(s[i]) = s[i].start_address + s[i].size
           /\ End(s[i]) =< ArenaSize
           /\ \A a : a \in Bytes(s[i]) <=>
                        a \in Int /\ s[i].start_address =< a /\ a < End(s[i])
<1>1. s[i] \in MemoryBlock
  BY ElementOfSeq DEF Tidy
<1>2. s[i].start_address \in Nat /\ s[i].size \in Nat \ {0}
  BY <1>1, SizeAssumption DEF MemoryBlock, MemAddr
<1> QED BY <1>1, <1>2 DEF Tidy, End, Bytes

\* A list of at most one block inside the arena is tidy.
LEMMA TidySingleton ==
    ASSUME NEW b \in MemoryBlock, End(b) =< ArenaSize
    PROVE  Tidy(<<>>) /\ Tidy(<<b>>)
BY DEF Tidy

\* What a block leaves when its first bytes are taken: nothing, or one block
\* that ends where it did and holds its other bytes.  The 16-bit addition of
\* allocate never wraps.
LEMMA RestOfBlock ==
    ASSUME NEW p \in Nat, NEW size \in Nat \ {0}, p + size =< ArenaSize,
           NEW bytes \in Nat \ {0}, size >= bytes
    PROVE  /\ Tidy(Rest(Block(p, size), bytes))
           /\ \A m \in 1 .. Len(Rest(Block(p, size), bytes)) :
                 /\ p < Rest(Block(p, size), bytes)[m].start_address
                 /\ Rest(Block(p, size), bytes)[m].start_address \in Nat
                 /\ End(Rest(Block(p, size), bytes)[m]) = p + size
           /\ \A a : Covers(Rest(Block(p, size), bytes), a) <=>
                        a \in Int /\ p + bytes =< a /\ a < p + size
<1>1. CASE size = bytes
  <2>1. Rest(Block(p, size), bytes) = <<>>
    BY <1>1 DEF Rest, Block
  <2>2. Tidy(<<>>) /\ Len(<<>>) = 0 /\ \A a : ~ Covers(<<>>, a)
    BY DEF Tidy, Covers
  <2> QED BY <1>1, <2>1, <2>2
<1>2. CASE size # bytes
  <2> DEFINE q == p + bytes
             r == Block(q, size - bytes)
  <2>1. q \in Nat /\ q < ArenaSize /\ q \in MemAddr /\ size - bytes \in Nat \ {0}
    BY <1>2, SizeAssumption DEF MemAddr
  <2>2. q % AddrRange = q
    <3> HIDE DEF q
    <3> QED BY <2>1, SizeAssumption
  <2>3. Rest(Block(p, size), bytes) = <<r>>
    BY <1>2, <2>2 DEF Rest, Block
  <2>4. /\ r \in MemoryBlock /\ r.start_address = q /\ End(r) = p + size
        /\ \A a : a \in Bytes(r) <=> a \in Int /\ q =< a /\ a < p + size
    <3>1. r.start_address = q /\ r.size = size - bytes
      BY DEF Block
    <3>2. r \in MemoryBlock
      BY <2>1 DEF MemoryBlock, Block
    <3>3. End(r) = p + size
      BY <3>1 DEF End
    <3>4. \A a : a \in Bytes(r) <=> a \in Int /\ q =< a /\ a < p + size
      BY <3>1, <3>3 DEF Bytes
    <3> QED BY <3>1, <3>2, <3>3, <3>4
  <2> HIDE DEF r
  <2>5. Tidy(<<r>>)
    BY <2>4, TidySingleton
  <2>6. \A a : Covers(<<r>>, a) <=> a \in Bytes(r)
    BY DEF Covers
  <2>7. Len(<<r>>) = 1 /\ <<r>>[1] = r
    OBVIOUS
  <2> QED BY <2>1, <2>3, <2>4, <2>5, <2>6, <2>7
<1> QED BY <1>1, <1>2

\* Taking the first bytes of a block: the list stays tidy and loses exactly the
\* bytes that are handed out.
LEMMA TakeTidy ==
    ASSUME NEW s, Tidy(s), NEW i \in 1 .. Len(s),
           NEW bytes \in Nat \ {0}, s[i].size >= bytes
    PROVE  LET t == Splice(s, i, i + 1, Rest(s[i], bytes))
               b == Block(s[i].start_address, bytes)
           IN  /\ Tidy(t)
               /\ \A a \in Bytes(b) : a \in Arena /\ Covers(s, a)
               /\ \A a \in Arena : Covers(t, a) <=> Covers(s, a) /\ a \notin Bytes(b)
<1> DEFINE b == Block(s[i].start_address, bytes)
           mid == Rest(s[i], bytes)
<1>1. /\ s[i] \in MemoryBlock
      /\ s[i].start_address \in Nat /\ s[i].size \in Nat \ {0}
      /\ End(s[i]) = s[i].start_address + s[i].size /\ End(s[i]) =< ArenaSize
      /\ \A a : a \in Bytes(s[i]) <=>
                   a \in Int /\ s[i].start_address =< a /\ a < End(s[i])
  BY TidyElement
<1>2. \A a : a \in Bytes(b) <=>
          a \in Int /\ s[i].start_address =< a /\ a < s[i].start_address + bytes
  BY <1>1 DEF Bytes, Block, End
<1>3. \A a \in Bytes(b) : a \in Bytes(s[i]) /\ a \in Arena
  BY <1>1, <1>2, SizeAssumption DEF Arena
<1>4. s[i] = Block(s[i].start_address, s[i].size)
  BY <1>1 DEF MemoryBlock, Block
<1> HIDE DEF b, mid
<1>5. /\ Tidy(mid)
      /\ \A m \in 1 .. Len(mid) : /\ s[i].start_address < mid[m].start_address
                                  /\ mid[m].start_address \in Nat
                                  /\ End(mid[m]) = End(s[i])
      /\ \A a : Covers(mid, a) <=>
            /\ a \in Int
            /\ s[i].start_address + bytes =< a /\ a < End(s[i])
  <2> DEFINE p == s[i].start_address
             size == s[i].size
  <2>1. mid = Rest(Block(p, size), bytes)
    BY <1>4 DEF mid
  <2>2. /\ p \in Nat /\ size \in Nat \ {0} /\ p + size =< ArenaSize /\ size >= bytes
        /\ End(s[i]) = p + size
    BY <1>1
  <2> HIDE DEF p, size
  <2>3. /\ Tidy(mid)
        /\ \A m \in 1 .. Len(mid) : /\ p < mid[m].start_address
                                    /\ mid[m].start_address \in Nat
                                    /\ End(mid[m]) = p + size
        /\ \A a : Covers(mid, a) <=> a \in Int /\ p + bytes =< a /\ a < p + size
    BY <2>1, <2>2, RestOfBlock
  <2> QED BY <2>2, <2>3 DEF p
<1>7. \A a : Covers(mid, a) <=> a \in Bytes(s[i]) /\ a \notin Bytes(b)
  BY <1>1, <1>2, <1>5
<1>8. Len(s) \in Nat
  BY LenProperties DEF Tidy
<1>10. \A k \in 1 .. (i - 1), m \in 1 .. Len(mid) :
          End(s[k]) < mid[m].start_address
  <2> SUFFICES ASSUME NEW k \in 1 .. (i - 1), NEW m \in 1 .. Len(mid)
               PROVE  End(s[k]) < mid[m].start_address
    OBVIOUS
  <2>1. k \in 1 .. Len(s) /\ k < i
    BY <1>8
  <2>2. End(s[k]) < s[i].start_address
    BY <2>1 DEF Tidy
  <2>3. End(s[k]) \in Int
    <3>1. s[k].start_address \in Nat /\ s[k].size \in Nat
      BY <2>1, TidyElement
    <3> QED BY <3>1 DEF End
  <2> QED BY <1>1, <1>5, <2>2, <2>3
<1>11. \A k \in (i + 1) .. Len(s), m \in 1 .. Len(mid) :
          End(mid[m]) < s[k].start_address
  BY <1>5, <1>8 DEF Tidy
<1>12. LET t == Splice(s, i, i + 1, mid)
       IN  /\ Tidy(t)
           /\ \A a : Covers(t, a) <=>
                \/ Covers(mid, a)
                \/ \E k \in 1 .. (i - 1) : a \in Bytes(s[k])
                \/ \E k \in (i + 1) .. Len(s) : a \in Bytes(s[k])
  <2>1. i \in 1 .. (Len(s) + 1) /\ i + 1 \in i .. (Len(s) + 1)
    BY <1>8
  <2> QED BY <1>5, <1>10, <1>11, <2>1, SpliceTidy
<1>13. \A a \in Bytes(b), k \in 1 .. Len(s) : k # i => a \notin Bytes(s[k])
  <2> SUFFICES ASSUME NEW a \in Bytes(b), NEW k \in 1 .. Len(s), k # i,
                      a \in Bytes(s[k])
               PROVE  FALSE
    OBVIOUS
  <2>1. /\ a \in Int
        /\ s[i].start_address =< a /\ a < End(s[i])
        /\ s[k].start_address =< a /\ a < End(s[k])
    BY <1>3, TidyElement
  <2>2. End(s[k]) < s[i].start_address \/ End(s[i]) < s[k].start_address
    BY <1>8 DEF Tidy
  <2>3. /\ s[k].start_address \in Int /\ End(s[k]) \in Int
        /\ s[i].start_address \in Int /\ End(s[i]) \in Int
    BY TidyElement
  <2> QED BY <2>1, <2>2, <2>3
<1>14. \A a \in Bytes(b) : a \in Arena /\ Covers(s, a)
  BY <1>3 DEF Covers
<1>15. \A a : Covers(s, a) <=>
                \/ a \in Bytes(s[i])
                \/ \E k \in 1 .. (i - 1) : a \in Bytes(s[k])
                \/ \E k \in (i + 1) .. Len(s) : a \in Bytes(s[k])
  <2>1. 1 .. Len(s) = (1 .. (i - 1)) \cup {i} \cup ((i + 1) .. Len(s))
    BY <1>8
  <2> QED BY <2>1 DEF Covers
<1>16. ASSUME NEW a \in Arena
       PROVE  Covers(Splice(s, i, i + 1, mid), a) <=>
                  Covers(s, a) /\ a \notin Bytes(b)
  <2>1. \A k \in (1 .. (i - 1)) \cup ((i + 1) .. Len(s)) : k \in 1 .. Len(s) /\ k # i
    BY <1>8
  <2> QED BY <1>7, <1>12, <1>13, <1>15, <2>1
<1> QED BY <1>12, <1>14, <1>16 DEF mid, b

\* Freeing a region at its place in the list: the list stays tidy, whichever
\* neighbours the region touches, and gains exactly the region's bytes.
LEMMA CoalescedTidy ==
    ASSUME Tidy(free_list),
           NEW b \in [start_address : Arena, size : 1 .. ArenaSize],
           End(b) =< ArenaSize,
           \A a \in Bytes(b) : ~ Covers(free_list, a),
           NEW i \in 1 .. (Len(free_list) + 1), LowerBound(i, b.start_address)
    PROVE  /\ Tidy(Coalesced(i, b))
           /\ \A a : Covers(Coalesced(i, b), a) <=>
                        Covers(free_list, a) \/ a \in Bytes(b)
<1> DEFINE s == free_list
           n == Len(s)
           lo == IF JoinsPrev(i, b) THEN i - 1 ELSE i
           hi == IF JoinsNext(i, b) THEN i + 1 ELSE i
           first == IF lo < i THEN s[lo].start_address ELSE b.start_address
           beyond == IF hi > i THEN End(s[i]) ELSE End(b)
           m == Block(first, beyond - first)
           At(k) == s[k].start_address
<1>1. /\ n \in Nat /\ i \in Nat /\ 1 =< i /\ i =< n + 1
      /\ b.start_address \in Nat /\ b.size \in Nat \ {0}
      /\ End(b) = b.start_address + b.size
      /\ \A a : a \in Bytes(b) <=> a \in Int /\ b.start_address =< a /\ a < End(b)
  BY LenProperties, SizeAssumption DEF Tidy, Arena, End, Bytes
<1>2. \A k \in 1 .. n :
         /\ At(k) \in Nat /\ End(s[k]) \in Nat /\ At(k) < End(s[k])
         /\ End(s[k]) =< ArenaSize
         /\ \A a : a \in Bytes(s[k]) <=> a \in Int /\ At(k) =< a /\ a < End(s[k])
  BY TidyElement
<1>3. \A k, l \in 1 .. n : k < l => End(s[k]) < At(l)
  BY DEF Tidy
<1>4. \A k \in 1 .. (i - 1) : k \in 1 .. n /\ End(s[k]) =< b.start_address
  <2> SUFFICES ASSUME NEW k \in 1 .. (i - 1)
               PROVE  k \in 1 .. n /\ End(s[k]) =< b.start_address
    OBVIOUS
  <2>1. k \in 1 .. n /\ At(k) < b.start_address
    BY <1>1 DEF LowerBound
  <2>2. b.start_address \in Bytes(b) /\ b.start_address \in Int
    BY <1>1
  <2>3. b.start_address \notin Bytes(s[k])
    BY <2>1, <2>2 DEF Covers
  <2>4. ~ (b.start_address < End(s[k]))
    BY <1>2, <2>1, <2>2, <2>3
  <2>5. End(s[k]) \in Nat /\ b.start_address \in Nat
    BY <1>1, <1>2, <2>1
  <2> QED BY <2>1, <2>4, <2>5
<1>5. \A k \in i .. n : k \in 1 .. n /\ End(b) =< At(k)
  <2> SUFFICES ASSUME NEW k \in i .. n
               PROVE  k \in 1 .. n /\ End(b) =< At(k)
    OBVIOUS
  <2>1. k \in 1 .. n /\ i \in 1 .. n /\ i =< n
    BY <1>1
  <2>2. b.start_address =< At(i)
    BY <1>1, <1>2, <2>1 DEF LowerBound
  <2>3. At(i) \in Bytes(s[i]) /\ At(i) \in Int
    BY <1>2, <2>1
  <2>4. At(i) \notin Bytes(b)
    BY <2>1, <2>3 DEF Covers
  <2>5. End(b) =< At(i)
    BY <1>1, <1>2, <2>1, <2>2, <2>3, <2>4
  <2>6. CASE k = i
    BY <2>5, <2>6
  <2>7. CASE i < k
    <3>1. End(s[i]) < At(k) /\ At(i) < End(s[i])
      BY <1>2, <1>3, <2>1, <2>7
    <3> QED BY <1>1, <1>2, <2>1, <2>5, <3>1
  <2>8. k = i \/ i < k
    BY <1>1
  <2> QED BY <2>1, <2>6, <2>7, <2>8
<1> USE DEF JoinsPrev, JoinsNext
<1>6. IF JoinsPrev(i, b)
      THEN i - 1 \in 1 .. n /\ lo = i - 1 /\ first = At(i - 1) /\ End(s[i - 1]) = b.start_address
      ELSE lo = i /\ first = b.start_address
  BY <1>1
<1>7. IF JoinsNext(i, b)
      THEN i \in 1 .. n /\ hi = i + 1 /\ beyond = End(s[i]) /\ At(i) = End(b)
      ELSE hi = i /\ beyond = End(b)
  BY <1>1
<1>8. \A k \in 1 .. (lo - 1) : k \in 1 .. n /\ End(s[k]) < first
  <2> SUFFICES ASSUME NEW k \in 1 .. (lo - 1)
               PROVE  k \in 1 .. n /\ End(s[k]) < first
    OBVIOUS
  <2>1. CASE JoinsPrev(i, b)
    <3>1. k \in 1 .. n /\ i - 1 \in 1 .. n /\ k < i - 1
      BY <1>1, <1>6, <2>1
    <3> QED BY <1>3, <1>6, <2>1, <3>1
  <2>2. CASE ~ JoinsPrev(i, b)
    <3>1. k \in 1 .. (i - 1) /\ k \in 1 .. n /\ End(s[k]) =< b.start_address
      BY <1>1, <1>4, <1>6, <2>2
    <3>2. CASE k = i - 1
      BY <1>1, <1>2, <1>6, <2>2, <3>1, <3>2
    <3>3. CASE k < i - 1
      <4>1. i - 1 \in 1 .. n /\ i - 1 \in 1 .. (i - 1)
        BY <1>1, <3>1, <3>3
      <4>2. End(s[k]) < At(i - 1) /\ At(i - 1) < End(s[i - 1])
            /\ End(s[i - 1]) =< b.start_address
        BY <1>2, <1>3, <1>4, <3>1, <3>3, <4>1
      <4>3. End(s[k]) \in Nat /\ At(i - 1) \in Nat /\ End(s[i - 1]) \in Nat
        BY <1>2, <3>1, <4>1
      <4>4. first = b.start_address /\ b.start_address \in Nat
        BY <1>1, <1>6, <2>2
      <4> HIDE DEF first
      <4> QED BY <3>1, <4>2, <4>3, <4>4
    <3>4. k = i - 1 \/ k < i - 1
      BY <1>1, <3>1
    <3> QED BY <3>2, <3>3, <3>4
  <2> QED BY <2>1, <2>2
<1>9. \A k \in hi .. n : k \in 1 .. n /\ beyond < At(k)
  <2> SUFFICES ASSUME NEW k \in hi .. n
               PROVE  k \in 1 .. n /\ beyond < At(k)
    OBVIOUS
  <2>1. CASE JoinsNext(i, b)
    <3>1. k \in 1 .. n /\ i \in 1 .. n /\ i < k
      BY <1>1, <1>7, <2>1
    <3> QED BY <1>3, <1>7, <2>1, <3>1
  <2>2. CASE ~ JoinsNext(i, b)
    <3>1. /\ k \in i .. n /\ k \in 1 .. n /\ i \in 1 .. n /\ i \in i .. n /\ i =< n
          /\ End(b) =< At(k) /\ End(b) =< At(i)
      BY <1>1, <1>5, <1>7, <2>2
    <3>2. End(b) < At(i)
      <4>1. At(i) # End(b)
        BY <2>2, <3>1
      <4>2. At(i) \in Nat
        BY <1>2, <3>1
      <4> QED BY <1>1, <3>1, <4>1, <4>2
    <3>3. CASE k = i
      BY <1>7, <2>2, <3>1, <3>2, <3>3
    <3>4. CASE i < k
      <4>1. At(i) < End(s[i]) /\ End(s[i]) < At(k)
        BY <1>2, <1>3, <3>1, <3>4
      <4> QED BY <1>1, <1>2, <1>7, <2>2, <3>1, <3>2, <4>1
    <3>5. k = i \/ i < k
      BY <1>1, <3>1
    <3> QED BY <3>3, <3>4, <3>5
  <2> QED BY <2>1, <2>2
<1>10. /\ lo \in 1 .. (n + 1) /\ hi \in lo .. (n + 1)
       /\ first \in Nat /\ beyond \in Nat
       /\ first =< b.start_address /\ End(b) =< beyond /\ beyond =< ArenaSize
  <2>1. lo \in 1 .. (n + 1) /\ lo =< i /\ hi \in lo .. (n + 1)
    BY <1>1, <1>6, <1>7
  <2>2. first \in Nat /\ first =< b.start_address
    BY <1>1, <1>2, <1>6
  <2>3. beyond \in Nat /\ End(b) =< beyond /\ beyond =< ArenaSize
    BY <1>1, <1>2, <1>7
  <2> QED BY <2>1, <2>2, <2>3
<1>11. \A a : a \in Int /\ first =< a /\ a < beyond <=>
                 a \in Bytes(b) \/ \E k \in lo .. (hi - 1) : a \in Bytes(s[k])
  <2> TAKE a
  <2>1. JoinsPrev(i, b) =>
          (a \in Bytes(s[i - 1]) <=> a \in Int /\ first =< a /\ a < b.start_address)
    BY <1>2, <1>6
  <2>2. JoinsNext(i, b) =>
          (a \in Bytes(s[i]) <=> a \in Int /\ End(b) =< a /\ a < beyond)
    BY <1>2, <1>7
  <2>3. (\E k \in lo .. (hi - 1) : a \in Bytes(s[k])) <=>
          \/ JoinsPrev(i, b) /\ a \in Bytes(s[i - 1])
          \/ JoinsNext(i, b) /\ a \in Bytes(s[i])
    <3>1. lo .. (hi - 1) = (IF JoinsPrev(i, b) THEN {i - 1} ELSE {})
                             \cup (IF JoinsNext(i, b) THEN {i} ELSE {})
      BY <1>1, <1>6, <1>7
    <3> HIDE DEF JoinsPrev, JoinsNext
    <3> QED BY <3>1
  <2> HIDE DEF JoinsPrev, JoinsNext
  <2>4. /\ first \in Nat /\ beyond \in Nat /\ first =< b.start_address /\ End(b) =< beyond
        /\ b.start_address \in Nat /\ End(b) \in Nat /\ b.start_address =< End(b)
        /\ ~ JoinsPrev(i, b) => first = b.start_address
        /\ ~ JoinsNext(i, b) => beyond = End(b)
    BY <1>1, <1>6, <1>7, <1>10
  <2>5. a \in Bytes(b) <=> a \in Int /\ b.start_address =< a /\ a < End(b)
    BY <1>1
  <2> HIDE DEF first, beyond, lo, hi
  <2>6. CASE a \in Int
    BY <2>1, <2>2, <2>3, <2>4, <2>5, <2>6
  <2>7. CASE a \notin Int
    BY <2>1, <2>2, <2>3, <2>5, <2>7
  <2> QED BY <2>6, <2>7
<1>12. Coalesced(i, b) = Splice(s, lo, hi, <<m>>)
  BY DEF Coalesced
<1> HIDE DEF JoinsPrev, JoinsNext, lo, hi, first, beyond
<1>13. /\ m \in MemoryBlock /\ m.start_address = first /\ End(m) = beyond
       /\ \A a : a \in Bytes(m) <=> a \in Int /\ first =< a /\ a < beyond
  <2>1. m.start_address = first /\ m.size = beyond - first
    BY DEF Block
  <2>2. first \in MemAddr /\ beyond - first \in Nat \ {0}
    BY <1>1, <1>10, SizeAssumption DEF MemAddr
  <2>3. End(m) = beyond
    BY <1>10, <2>1 DEF End
  <2>4. m \in MemoryBlock
    BY <2>2 DEF MemoryBlock, Block
  <2>5. \A a : a \in Bytes(m) <=> a \in Int /\ first =< a /\ a < beyond
    <3>1. Bytes(m) = first .. (beyond - 1)
      BY <2>1, <2>3 DEF Bytes
    <3> QED BY <1>10, <3>1
  <2> QED BY <2>1, <2>3, <2>4, <2>5
<1> HIDE DEF m
<1>14. /\ Tidy(<<m>>)
       /\ \A a : Covers(<<m>>, a) <=> a \in Bytes(m)
       /\ Len(<<m>>) = 1 /\ <<m>>[1] = m
  <2>1. Tidy(<<m>>)
    BY <1>10, <1>13, TidySingleton
  <2> QED BY <2>1 DEF Covers
<1> DEFINE mid == <<m>>
<1> HIDE DEF mid
<1>15. /\ Tidy(Splice(s, lo, hi, mid))
       /\ \A a : Covers(Splice(s, lo, hi, mid), a) <=>
             \/ Covers(mid, a)
             \/ \E k \in 1 .. (lo - 1) : a \in Bytes(s[k])
             \/ \E k \in hi .. n : a \in Bytes(s[k])
  <2>1. \A k \in 1 .. (lo - 1), j \in 1 .. Len(mid) :
           End(s[k]) < mid[j].start_address
    BY <1>8, <1>13, <1>14 DEF mid
  <2>2. \A k \in hi .. n, j \in 1 .. Len(mid) : End(mid[j]) < s[k].start_address
    BY <1>9, <1>13, <1>14 DEF mid
  <2>3. Tidy(mid)
    BY <1>14 DEF mid
  <2> QED BY <1>10, <2>1, <2>2, <2>3, SpliceTidy
<1>16. 1 .. n = (1 .. (lo - 1)) \cup (lo .. (hi - 1)) \cup (hi .. n)
  BY <1>1, <1>10
<1>17. ASSUME NEW a
       PROVE  Covers(Splice(s, lo, hi, mid), a) <=> Covers(s, a) \/ a \in Bytes(b)
  <2>1. Covers(mid, a) <=> a \in Bytes(b) \/ \E k \in lo .. (hi - 1) : a \in Bytes(s[k])
    BY <1>11, <1>13, <1>14 DEF mid
  <2>2. Covers(s, a) <=>
          \/ \E k \in 1 .. (lo - 1) : a \in Bytes(s[k])
          \/ \E k \in lo .. (hi - 1) : a \in Bytes(s[k])
          \/ \E k \in hi .. n : a \in Bytes(s[k])
    BY <1>16 DEF Covers
  <2> QED BY <1>15, <2>1, <2>2
<1> QED BY <1>12, <1>15, <1>17 DEF mid

-----------------------------------------------------------------------------
\* The inductive invariant: the list is tidy, and the free and the owned bytes
\* are a partition of the arena.  Accounted is what makes it inductive: that a
\* freed region touches no byte of the list is known only because every owned
\* byte is missing from it.
IInv == TypeOK /\ Separated /\ Accounted

LEMMA TidyFromInvariant ==
    /\ TypeOK /\ Separated <=> /\ Tidy(free_list)
                               /\ owned \subseteq [start_address : Arena, size : 1 .. ArenaSize]
                               /\ returned \in Arena \cup {Failed}
    /\ \A a : InFreeList(a) <=> Covers(free_list, a)
BY DEF TypeOK, Separated, Tidy, InFreeList, Covers

LEMMA TidyPrimed ==
    /\ (TypeOK /\ Separated)' <=>
          /\ Tidy(free_list')
          /\ owned' \subseteq [start_address : Arena, size : 1 .. ArenaSize]
          /\ returned' \in Arena \cup {Failed}
    /\ \A a : InFreeList(a)' <=> Covers(free_list', a)
BY DEF TypeOK, Separated, Tidy, InFreeList, Covers

\* The whole arena as one block.
LEMMA WholeArena ==
    /\ Tidy(<<Block(0, ArenaSize)>>)
    /\ \A a \in Arena : Covers(<<Block(0, ArenaSize)>>, a)
<1>1. Block(0, ArenaSize) \in MemoryBlock /\ End(Block(0, ArenaSize)) = ArenaSize
  BY SizeAssumption DEF Block, MemoryBlock, MemAddr, End
<1>2. Bytes(Block(0, ArenaSize)) = Arena
  BY SizeAssumption DEF Block, Bytes, End, Arena
<1>3. Tidy(<<Block(0, ArenaSize)>>)
  BY <1>1, TidySingleton, SizeAssumption
<1> QED BY <1>2, <1>3 DEF Covers

LEMMA InitInvariant == Init => IInv
<1> SUFFICES ASSUME Init PROVE IInv
  OBVIOUS
<1>1. free_list = <<Block(0, ArenaSize)>> /\ owned = {} /\ returned = Failed
  BY DEF Init
<1>2. Tidy(free_list) /\ \A a \in Arena : Covers(free_list, a)
  BY <1>1, WholeArena
<1>3. TypeOK /\ Separated
  BY <1>1, <1>2, TidyFromInvariant
<1>4. Accounted
  BY <1>1, <1>2, TidyFromInvariant DEF Accounted, InOwned
<1> QED BY <1>3, <1>4 DEF IInv

LEMMA AllocateInvariant ==
    ASSUME IInv, NEW bytes \in Requests, Allocate(bytes)
    PROVE  IInv'
<1>1. PICK i \in 1 .. Len(free_list) :
        /\ free_list[i].size >= bytes
        /\ free_list' = Splice(free_list, i, i + 1, Rest(free_list[i], bytes))
        /\ owned' = owned \cup {Block(free_list[i].start_address, bytes)}
        /\ returned' = free_list[i].start_address
  BY DEF Allocate, FirstFit
<1> DEFINE b == Block(free_list[i].start_address, bytes)
<1>2. bytes \in Nat \ {0}
  BY SizeAssumption
<1>3. Tidy(free_list) /\ \A a : InFreeList(a) <=> Covers(free_list, a)
  BY TidyFromInvariant DEF IInv
<1>4. /\ free_list[i].start_address \in Nat /\ free_list[i].size \in Nat \ {0}
      /\ free_list[i].start_address + free_list[i].size =< ArenaSize
  BY <1>3, TidyElement
<1>5. /\ Tidy(free_list')
      /\ \A a \in Bytes(b) : a \in Arena /\ Covers(free_list, a)
      /\ \A a \in Arena :
            Covers(free_list', a) <=> Covers(free_list, a) /\ a \notin Bytes(b)
  BY <1>1, <1>2, <1>3, TakeTidy
<1>6. b \in [start_address : Arena, size : 1 .. ArenaSize]
  BY <1>1, <1>2, <1>4, SizeAssumption DEF Arena, Block
<1>7. returned' \in Arena
  BY <1>1, <1>4, SizeAssumption DEF Arena
<1> HIDE DEF b
<1>8. owned' = owned \cup {b}
  BY <1>1 DEF b
<1>9. (TypeOK /\ Separated)'
  BY <1>5, <1>6, <1>7, <1>8, TidyPrimed DEF IInv, TypeOK
<1>10. \A a \in Bytes(b) : ~ InOwned(a)
  BY <1>3, <1>5 DEF IInv, Accounted
<1>11. \A a : InOwned(a)' <=> InOwned(a) \/ a \in Bytes(b)
  BY <1>8 DEF InOwned
<1>12. \A a \in Arena : InFreeList(a)' <=> ~ InOwned(a)'
  BY <1>3, <1>5, <1>11, TidyPrimed DEF IInv, Accounted
<1>13. \A c \in owned' : Bytes(c) \subseteq Arena
  BY <1>5, <1>8 DEF IInv, Accounted
<1>14. \A c, d \in owned' : c # d => Bytes(c) \cap Bytes(d) = {}
  BY <1>8, <1>10 DEF IInv, Accounted, InOwned
<1>15. Accounted'
  BY <1>12, <1>13, <1>14 DEF Accounted
<1> QED BY <1>9, <1>15 DEF IInv

\* An owned region lies inside the arena.
LEMMA OwnedInside ==
    ASSUME IInv, NEW b \in owned
    PROVE  /\ b.start_address \in Nat /\ b.size \in Nat \ {0}
           /\ b.start_address + b.size =< ArenaSize
<1>1. b.start_address \in Nat /\ b.size \in Nat \ {0}
  BY SizeAssumption DEF IInv, TypeOK, Arena
<1>2. End(b) - 1 \in Bytes(b)
  BY <1>1 DEF Bytes, End
<1>3. End(b) - 1 \in Arena
  BY <1>2 DEF IInv, Accounted
<1> QED BY <1>1, <1>3, SizeAssumption DEF Arena, End

\* What allocate hands out is inside the arena and shares no byte with a region
\* that was handed out before.
LEMMA AllocateFresh ==
    ASSUME IInv, NEW bytes \in Nat \ {0}, Allocate(bytes)
    PROVE  /\ returned' \in Nat /\ returned' + bytes =< ArenaSize
           /\ owned' = owned \cup {Block(returned', bytes)}
           /\ \A b \in owned : \/ b.start_address + b.size =< returned'
                              \/ returned' + bytes =< b.start_address
<1>1. PICK i \in 1 .. Len(free_list) :
        /\ free_list[i].size >= bytes
        /\ owned' = owned \cup {Block(free_list[i].start_address, bytes)}
        /\ returned' = free_list[i].start_address
  BY DEF Allocate, FirstFit
<1>2. Tidy(free_list) /\ \A a : InFreeList(a) <=> Covers(free_list, a)
  BY TidyFromInvariant DEF IInv
<1> DEFINE start == free_list[i].start_address
           end == End(free_list[i])
<1>3. /\ start \in Nat /\ free_list[i].size \in Nat /\ end = start + free_list[i].size
      /\ end =< ArenaSize
      /\ \A a : a \in Bytes(free_list[i]) <=> a \in Int /\ start =< a /\ a < end
  BY <1>2, TidyElement
<1> HIDE DEF start, end
<1>4. end \in Nat /\ start + bytes =< end /\ start + bytes =< ArenaSize
  BY <1>1, <1>3, SizeAssumption
<1>5. ASSUME NEW a \in Nat, start =< a, a < start + bytes PROVE ~ InOwned(a)
  <2>1. a < end
    BY <1>4, <1>3, <1>5
  <2>2. a \in Arena
    BY <2>1, <1>3, <1>4, SizeAssumption DEF Arena
  <2>3. a \in Bytes(free_list[i])
    BY <1>3, <1>5, <2>1
  <2>4. InFreeList(a)
    BY <1>2, <2>3 DEF Covers
  <2> QED BY <2>2, <2>4 DEF IInv, Accounted
<1>6. ASSUME NEW b \in owned
      PROVE  b.start_address + b.size =< start \/ start + bytes =< b.start_address
  <2>1. b.start_address \in Nat /\ b.size \in Nat \ {0}
    BY OwnedInside
  <2>2. ~ InOwned(start)
    BY <1>3, <1>5
  <2>3. InOwned(b.start_address)
    BY <2>1 DEF InOwned, Bytes, End
  <2>4. start \notin Bytes(b)
    BY <2>2 DEF InOwned
  <2>5. ~ (start =< b.start_address /\ b.start_address < start + bytes)
    BY <1>5, <2>1, <2>3
  <2> QED BY <1>3, <2>1, <2>4, <2>5 DEF Bytes, End
<1>7. returned' = start /\ owned' = owned \cup {Block(start, bytes)}
  BY <1>1 DEF start
<1> QED BY <1>3, <1>4, <1>6, <1>7

LEMMA FreeInvariant ==
    ASSUME IInv, NEW b \in owned, Free(b)
    PROVE  IInv'
<1>1. PICK i \in 1 .. (Len(free_list) + 1) :
        LowerBound(i, b.start_address) /\ free_list' = Coalesced(i, b)
  BY DEF Free
<1>2. owned' = owned \ {b} /\ returned' = returned
  BY DEF Free
<1>3. Tidy(free_list) /\ \A a : InFreeList(a) <=> Covers(free_list, a)
  BY TidyFromInvariant DEF IInv
<1>4. /\ b \in [start_address : Arena, size : 1 .. ArenaSize]
      /\ b.start_address \in Nat /\ b.size \in Nat \ {0}
  BY SizeAssumption DEF IInv, TypeOK, Arena
<1>5. End(b) =< ArenaSize
  <2>1. End(b) = b.start_address + b.size
    BY DEF End
  <2>2. End(b) - 1 \in Bytes(b)
    BY <1>4, <2>1 DEF Bytes
  <2>3. End(b) - 1 \in Arena
    BY <2>2 DEF IInv, Accounted
  <2> QED BY <1>4, <2>1, <2>3, SizeAssumption DEF Arena
<1>6. \A a \in Bytes(b) : a \in Arena /\ InOwned(a) /\ ~ Covers(free_list, a)
  BY <1>3 DEF IInv, Accounted, InOwned
<1>7. /\ Tidy(free_list')
      /\ \A a : Covers(free_list', a) <=> Covers(free_list, a) \/ a \in Bytes(b)
  BY <1>1, <1>3, <1>4, <1>5, <1>6, CoalescedTidy
<1>8. (TypeOK /\ Separated)'
  BY <1>2, <1>7, TidyPrimed DEF IInv, TypeOK
<1>9. \A a : InOwned(a)' <=> InOwned(a) /\ a \notin Bytes(b)
  BY <1>2 DEF IInv, Accounted, InOwned
<1>10. \A a \in Arena : InFreeList(a)' <=> ~ InOwned(a)'
  BY <1>3, <1>7, <1>9, TidyPrimed DEF IInv, Accounted
<1>11. Accounted'
  BY <1>2, <1>10 DEF IInv, Accounted
<1> QED BY <1>8, <1>11 DEF IInv

LEMMA ResetInvariant == IInv /\ Reset => IInv'
<1> SUFFICES ASSUME IInv, Reset PROVE IInv'
  OBVIOUS
<1>1. free_list' = <<Block(0, ArenaSize)>> /\ owned' = {} /\ returned' = returned
  BY DEF Reset
<1>2. Tidy(free_list') /\ \A a \in Arena : Covers(free_list', a)
  BY <1>1, WholeArena
<1>3. (TypeOK /\ Separated)'
  BY <1>1, <1>2, TidyPrimed DEF IInv, TypeOK
<1>4. Accounted'
  BY <1>1, <1>2, TidyPrimed DEF Accounted, InOwned
<1> QED BY <1>3, <1>4 DEF IInv

LEMMA NextInvariant == IInv /\ [Next]_vars => IInv'
<1> SUFFICES ASSUME IInv, [Next]_vars PROVE IInv'
  OBVIOUS
<1>1. ASSUME NEW bytes \in Requests, Allocate(bytes) PROVE IInv'
  BY <1>1, AllocateInvariant
<1>2. ASSUME NEW bytes \in Requests, AllocateFails(bytes) PROVE IInv'
  <2>1. free_list' = free_list /\ owned' = owned /\ returned' = Failed
    BY <1>2 DEF AllocateFails
  <2> QED BY <2>1 DEF IInv, TypeOK, Separated, Accounted, InFreeList, InOwned
<1>3. ASSUME NEW b \in owned, Free(b) PROVE IInv'
  BY <1>3, FreeInvariant
<1>4. CASE Reset
  BY <1>4, ResetInvariant
<1>5. CASE UNCHANGED vars
  BY <1>5 DEF vars, IInv, TypeOK, Separated, Accounted, InFreeList, InOwned
<1> QED BY <1>1, <1>2, <1>3, <1>4, <1>5 DEF Next

LEMMA Invariant == Spec => []IInv
<1> QED BY InitInvariant, NextInvariant, PTL DEF Spec

\* The variables keep their types: in particular the 16-bit start of a block
\* never wraps and no block of zero bytes stays in the list.
THEOREM TypeCorrect == Spec => []TypeOK
<1>1. IInv => TypeOK
  BY DEF IInv
<1> QED BY <1>1, Invariant, PTL

\* The free list stays in address order, inside the arena, without touching
\* blocks.
THEOREM AlwaysSeparated == Spec => []Separated
<1>1. IInv => Separated
  BY DEF IInv
<1> QED BY <1>1, Invariant, PTL

\* No byte of the arena is ever lost, free twice, or owned by two processes.
THEOREM AlwaysAccounted == Spec => []Accounted
<1>1. IInv => Accounted
  BY DEF IInv
<1> QED BY <1>1, Invariant, PTL

\* MemoryManager::check_integrity always returns true.
THEOREM IntegrityHolds == Spec => []check_integrity
<1>1. ASSUME IInv PROVE check_integrity
  <2>1. Tidy(free_list) /\ Len(free_list) \in Nat
    BY <1>1, TidyFromInvariant, LenProperties DEF IInv, Tidy
  <2> SUFFICES ASSUME NEW i \in 2 .. Len(free_list)
               PROVE  /\ free_list[i - 1].start_address =< free_list[i].start_address
                      /\ End(free_list[i - 1]) =< free_list[i].start_address
    BY DEF check_integrity
  <2>2. i - 1 \in 1 .. Len(free_list) /\ i \in 1 .. Len(free_list) /\ i - 1 < i
    BY <2>1
  <2>3. End(free_list[i - 1]) < free_list[i].start_address
    BY <2>1, <2>2 DEF Tidy
  <2>4. /\ free_list[i - 1].start_address \in Nat
        /\ free_list[i - 1].size \in Nat
        /\ free_list[i].start_address \in Nat
        /\ End(free_list[i - 1]) =
              free_list[i - 1].start_address + free_list[i - 1].size
    BY <2>1, <2>2, TidyElement
  <2> QED BY <2>3, <2>4
<1> QED BY <1>1, Invariant, PTL

-----------------------------------------------------------------------------
\* Consecutive free bytes always lie in one block, because blocks that touch
\* have been coalesced.
LEMMA HoleInOneBlock ==
    ASSUME NEW s, Tidy(s), NEW n \in Nat \ {0}, NEW a \in Nat,
           \A x \in a .. (a + n - 1) : Covers(s, x)
    PROVE  \E k \in 1 .. Len(s) : s[k].start_address =< a /\ a + n =< End(s[k])
<1>1. a \in a .. (a + n - 1)
  OBVIOUS
<1>2. PICK k \in 1 .. Len(s) : a \in Bytes(s[k])
  BY <1>1 DEF Covers
<1>3. s[k].start_address =< a /\ a < End(s[k]) /\ End(s[k]) \in Nat
  BY <1>2, TidyElement
<1>4. CASE a + n =< End(s[k])
  BY <1>3, <1>4
<1>5. CASE End(s[k]) < a + n
  <2>1. End(s[k]) \in a .. (a + n - 1)
    BY <1>3, <1>5
  <2>2. PICK j \in 1 .. Len(s) : End(s[k]) \in Bytes(s[j])
    BY <2>1 DEF Covers
  <2>3. s[j].start_address =< End(s[k]) /\ End(s[k]) < End(s[j])
    BY <2>2, TidyElement
  <2>4. j = k \/ j < k \/ k < j
    BY LenProperties DEF Tidy
  <2>5. /\ s[j].start_address \in Nat /\ End(s[j]) \in Nat
        /\ s[k].start_address \in Nat /\ s[k].start_address < End(s[k])
    BY TidyElement
  <2>6. /\ j < k => End(s[j]) < s[k].start_address
        /\ k < j => End(s[k]) < s[j].start_address
    BY DEF Tidy
  <2> QED BY <1>3, <2>3, <2>4, <2>5, <2>6
<1> QED BY <1>3, <1>4, <1>5

\* The abstract allocator's hole is the bytes the free list covers.
LEMMA HoleIsFree ==
    ASSUME IInv
    PROVE  \A a : a \in Regions!Hole <=> a \in Arena /\ Covers(free_list, a)
<1>1. \A r \in owned : Regions!Bytes(r) = Bytes(r)
  <2> TAKE r \in owned
  <2>1. r.start_address \in Int /\ r.size \in Int
    BY SizeAssumption DEF IInv, TypeOK, Arena
  <2> QED BY <2>1 DEF Regions!Bytes, Bytes, End
<1>2. \A a \in Arena : a \in Regions!Hole <=> ~ InOwned(a)
  BY <1>1 DEF Regions!Hole, InOwned
<1> QED BY <1>2, TidyFromInvariant DEF IInv, Accounted, Regions!Hole

\* A request fits at an address only inside a block that is large enough.
LEMMA FitsInBlock ==
    ASSUME IInv, NEW n \in Nat \ {0}, NEW a \in Arena, Regions!Fits(a, n)
    PROVE  \E k \in 1 .. Len(free_list) :
              free_list[k].size >= n /\ free_list[k].start_address =< a
<1>1. Tidy(free_list)
  BY TidyFromInvariant DEF IInv
<1>2. \A x \in a .. (a + n - 1) : Covers(free_list, x)
  BY HoleIsFree DEF Regions!Fits
<1>3. a \in Nat
  BY SizeAssumption DEF Arena
<1>4. PICK k \in 1 .. Len(free_list) :
         free_list[k].start_address =< a /\ a + n =< End(free_list[k])
  BY <1>1, <1>2, <1>3, HoleInOneBlock
<1>5. /\ free_list[k].start_address \in Nat /\ free_list[k].size \in Nat
      /\ End(free_list[k]) = free_list[k].start_address + free_list[k].size
  BY <1>1, TidyElement
<1> QED BY <1>3, <1>4, <1>5

LEMMA AllocateGrants ==
    ASSUME IInv, NEW bytes \in Requests, Allocate(bytes)
    PROVE  Regions!Grant(bytes)
<1>1. PICK i \in 1 .. Len(free_list) :
        /\ FirstFit(i, bytes)
        /\ owned' = owned \cup {Block(free_list[i].start_address, bytes)}
        /\ returned' = free_list[i].start_address
  BY DEF Allocate
<1> DEFINE start == free_list[i].start_address
<1>2. bytes \in Nat \ {0}
  BY SizeAssumption
<1>3. Tidy(free_list) /\ Len(free_list) \in Nat
  BY TidyFromInvariant, LenProperties DEF IInv, Tidy
<1>4. /\ start \in Nat /\ free_list[i].size \in Nat /\ free_list[i].size >= bytes
      /\ End(free_list[i]) = start + free_list[i].size
      /\ End(free_list[i]) =< ArenaSize
      /\ \A a : a \in Bytes(free_list[i]) <=>
                   a \in Int /\ start =< a /\ a < End(free_list[i])
  BY <1>1, <1>3, TidyElement DEF FirstFit
<1>5. start \in Arena
  BY <1>2, <1>4, SizeAssumption DEF Arena
<1>6. Regions!Fits(start, bytes + 0)
  <2> SUFFICES ASSUME NEW x \in start .. (start + bytes - 1)
               PROVE  x \in Regions!Hole
    BY <1>2 DEF Regions!Fits
  <2>1. x \in Bytes(free_list[i]) /\ x \in Arena
    BY <1>2, <1>4, SizeAssumption DEF Arena
  <2> QED BY <2>1, HoleIsFree DEF Covers
<1>7. ASSUME NEW a \in Arena, a < start, Regions!Fits(a, bytes)
      PROVE  FALSE
  <2>1. PICK k \in 1 .. Len(free_list) :
           free_list[k].size >= bytes /\ free_list[k].start_address =< a
    BY <1>2, <1>7, FitsInBlock
  <2>2. ~ (k < i)
    <3> SUFFICES ASSUME k < i PROVE FALSE
      OBVIOUS
    <3>1. k \in 1 .. (i - 1)
      BY <1>3
    <3>2. free_list[k].size < bytes
      BY <1>1, <3>1 DEF FirstFit
    <3>3. free_list[k].size \in Nat
      BY <1>3, TidyElement
    <3> QED BY <1>2, <2>1, <3>2, <3>3
  <2>3. i < k => End(free_list[i]) < free_list[k].start_address
    BY <1>3 DEF Tidy
  <2>4. free_list[k].start_address \in Nat /\ a \in Nat
    BY <1>3, TidyElement, SizeAssumption DEF Arena
  <2>5. k = i \/ i < k
    BY <1>3, <2>2
  <2> QED BY <1>2, <1>4, <1>7, <2>1, <2>3, <2>4, <2>5
<1>8. owned' = owned \cup {[start_address |-> start, size |-> bytes + 0]}
  BY <1>1, <1>2 DEF Block
<1>9. 0 \in 0 .. 0
  OBVIOUS
<1> HIDE DEF start
<1>10. returned' = start
  BY <1>1 DEF start
<1> QED BY <1>5, <1>6, <1>7, <1>8, <1>9, <1>10 DEF Regions!Grant

LEMMA FailureRefuses ==
    ASSUME IInv, NEW bytes \in Requests, AllocateFails(bytes)
    PROVE  Regions!Refuse(bytes)
<1>1. bytes \in Nat \ {0}
  BY SizeAssumption
<1>2. ASSUME NEW a \in Arena, Regions!Fits(a, bytes) PROVE FALSE
  <2>1. PICK k \in 1 .. Len(free_list) : free_list[k].size >= bytes
    BY <1>1, <1>2, FitsInBlock
  <2>2. free_list[k].size < bytes
    BY DEF AllocateFails
  <2>3. free_list[k].size \in Nat
    BY TidyFromInvariant, TidyElement DEF IInv
  <2> QED BY <1>1, <2>1, <2>2, <2>3
<1> QED BY <1>2 DEF AllocateFails, Regions!Refuse, Failed, Regions!Failed

\* The list of blocks implements the abstract allocator: a process gets the
\* lowest hole its program fits in, and load_program fails only when no hole
\* of the arena is large enough.
THEOREM Refinement == Spec => ImplementsRegions
<1>1. Init => Regions!Init
  BY DEF Init, Regions!Init, Failed, Regions!Failed
<1>2. IInv /\ [Next]_vars => [Regions!Next]_<<owned, returned>>
  <2> SUFFICES ASSUME IInv, [Next]_vars
               PROVE  Regions!Next \/ UNCHANGED <<owned, returned>>
    OBVIOUS
  <2>1. ASSUME NEW bytes \in Requests, Allocate(bytes) PROVE Regions!Next
    BY <2>1, AllocateGrants DEF Regions!Next
  <2>2. ASSUME NEW bytes \in Requests, AllocateFails(bytes) PROVE Regions!Next
    BY <2>2, FailureRefuses DEF Regions!Next
  <2>3. ASSUME NEW b \in owned, Free(b) PROVE Regions!Next
    BY <2>3 DEF Free, Regions!Next, Regions!Release
  <2>4. CASE Reset
    BY <2>4 DEF Reset, Regions!Next, Regions!Clear
  <2>5. CASE UNCHANGED vars
    BY <2>5 DEF vars
  <2> QED BY <2>1, <2>2, <2>3, <2>4, <2>5 DEF Next
<1> QED BY <1>1, <1>2, Invariant, PTL DEF Spec, ImplementsRegions, Regions!Spec
=============================================================================
