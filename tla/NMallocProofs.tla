---------------------------- MODULE NMallocProofs ----------------------------
(***************************************************************************)
(* Proofs about NMalloc, for every value of its constants.  First numbers: *)
(* rounding, alignment, buckets.  Then what each function of the allocator *)
(* does to a heap whose free blocks are the set F, with the blocks X taken *)
(* out (Body) or none (Whole), up to malloc, free, realloc and memalign.   *)
(* At the end the inductive invariant IInv, what follows from it, and the  *)
(* refinement of Heap.                                                     *)
(***************************************************************************)
EXTENDS NMalloc, Loops, FiniteSetTheorems, TLAPS

-----------------------------------------------------------------------------
(* Numbers.                                                                *)

\* The constants are numbers.
LEMMA Constants ==
  /\ ALIGN \in Nat /\ DATAOFFSET \in Nat \ {0} /\ MINSBRK \in Nat /\ MAXSBRKS \in Nat \ {0}
  /\ WORD \in Nat /\ MAXREQUEST \in Nat /\ NFLISTS \in 1..32 /\ START \in Nat \ {0, 1}
  /\ LIMIT \in Nat /\ START <= LIMIT /\ LIMIT < WORD \div 2 /\ MAXREQUEST < WORD \div 2
  /\ WORD = Pow2[NFLISTS]
  /\ MINSBRK >= ALIGN + DATAOFFSET
  BY NMallocAssumption

\* Pow2 is a function, and it doubles.
LEMMA Doubles ==
  /\ Pow2[0] = 1
  /\ \A n \in 0..32 : Pow2[n] \in Nat
  /\ \A n \in 1..32 : Pow2[n] = 2 * Pow2[n - 1]
  <1> DEFINE IsPow2(g) == g = [n \in 0..32 |-> IF n = 0 THEN 1 ELSE 2 * g[n - 1]]
  <1>1. PICK a \in Nat : a = 1
    OBVIOUS
  <1>2. PICK e : e = [q \in Nat \X (1..32) |-> 2 * q[1]]
    OBVIOUS
  <1>3. ASSUME NEW r \in Nat, NEW i \in 1..32
        PROVE  e[<<r, i>>] = 2 * r /\ 2 * r \in Nat
    <2>1. <<r, i>> \in Nat \X (1..32) /\ <<r, i>>[1] = r
      OBVIOUS
    <2> QED
      BY <1>2, <2>1
  <1>4. PICK h : LoopOf(h, 32, a, e) /\ \A i \in 0..32 : h[i] \in Nat
    <2>1. \A r \in Nat, i \in 1..32 : e[<<r, i>>] \in Nat
      BY <1>3
    <2>2. 32 \in Nat
      OBVIOUS
    <2> QED
      BY <2>1, <2>2, RunExists, Zenon
  <1>5. IsPow2(h)
    <2>1. ASSUME NEW i \in 0..32
          PROVE  (IF i = 0 THEN a ELSE e[<<h[i - 1], i>>])
                 = (IF i = 0 THEN 1 ELSE 2 * h[i - 1])
      <3>1. CASE i = 0
        BY <1>1, <3>1
      <3>2. CASE i # 0
        <4>1. i \in 1..32 /\ i - 1 \in 0..32
          BY <3>2
        <4>2. h[i - 1] \in Nat
          BY <1>4, <4>1
        <4> QED
          BY <1>3, <4>1, <4>2, <3>2, Zenon
      <3> QED
        BY <3>1, <3>2
    <2> QED
      BY <1>4, <2>1, Zenon DEF LoopOf
  <1>6. Pow2 = CHOOSE g : IsPow2(g)
    BY DEF Pow2
  <1>7. IsPow2(Pow2)
    BY <1>5, <1>6, Zenon
  <1>8. /\ Pow2[0] = 1
        /\ \A n \in 1..32 : Pow2[n] = 2 * Pow2[n - 1]
    <2>1. \A i \in 0..32 : Pow2[i] = IF i = 0 THEN 1 ELSE 2 * Pow2[i - 1]
      BY <1>7, Zenon
    <2>2. 0 \in 0..32 /\ \A i \in 1..32 : i \in 0..32 /\ i # 0
      OBVIOUS
    <2> QED
      BY <2>1, <2>2, Zenon
  <1> DEFINE T == {i \in 0..32 : Pow2[i] \in Nat}
  <1>9. 0 \in T
    BY <1>8
  <1>10. ASSUME NEW i \in 1..32, i - 1 \in T
         PROVE  i \in T
    <2>1. i \in 0..32 /\ Pow2[i - 1] \in Nat
      BY <1>10
    <2>2. Pow2[i] \in Nat
      BY <1>8, <2>1
    <2> QED
      BY <2>1, <2>2
  <1> HIDE DEF T
  <1>11. \A i \in 0..32 : i \in T
    BY <1>9, <1>10, TurnByTurn
  <1> QED
    BY <1>8, <1>11 DEF T

\* Larger exponents give larger multiples.
LEMMA PowersDivide ==
  ASSUME NEW i \in 0..32, NEW j \in 0..32, i <= j
  PROVE  \E k \in Nat \ {0} : Pow2[j] = Pow2[i] * k
  <1> DEFINE S == {d \in 0..(32 - i) : \E k \in Nat \ {0} : Pow2[i + d] = Pow2[i] * k}
  <1>1. 0 \in S
    <2>1. Pow2[i + 0] = Pow2[i] * 1
      BY Doubles
    <2> QED
      BY <2>1
  <1>2. ASSUME NEW d \in 1..(32 - i), d - 1 \in S
        PROVE  d \in S
    <2>1. PICK k \in Nat \ {0} : Pow2[i + (d - 1)] = Pow2[i] * k
      BY <1>2
    <2>2. i + d \in 1..32 /\ (i + d) - 1 = i + (d - 1)
      OBVIOUS
    <2>3. Pow2[i + d] = 2 * Pow2[i + (d - 1)]
      BY <2>2, Doubles
    <2>4. Pow2[i + d] = Pow2[i] * (2 * k) /\ 2 * k \in Nat \ {0}
      <3>1. Pow2[i] \in Nat
        BY Doubles
      <3> QED
        BY <2>1, <2>3, <3>1
    <2> QED
      BY <2>4
  <1> HIDE DEF S
  <1>3. \A d \in 0..(32 - i) : d \in S
    BY <1>1, <1>2, TurnByTurn
  <1>4. j - i \in S
    BY <1>3
  <1> QED
    BY <1>4 DEF S

LEMMA PowersGrow ==
  ASSUME NEW i \in 0..32, NEW j \in 0..32, i <= j
  PROVE  0 < Pow2[i] /\ Pow2[i] <= Pow2[j]
  <1>1. PICK k \in Nat \ {0} : Pow2[j] = Pow2[i] * k
    BY PowersDivide
  <1>2. PICK l \in Nat \ {0} : Pow2[i] = Pow2[0] * l
    BY PowersDivide
  <1>3. Pow2[i] \in Nat \ {0}
    BY <1>2, Doubles
  <1> QED
    BY <1>1, <1>3

\* Division, for reading the formulas below.
LEMMA Division ==
  ASSUME NEW x \in Nat, NEW a \in Nat \ {0}
  PROVE  /\ x \div a \in Nat
         /\ a * (x \div a) <= x /\ x < a * (x \div a) + a
         /\ x % a \in 0..(a - 1)
         /\ x = a * (x \div a) + (x % a)
  OBVIOUS

LEMMA SmallMod ==
  ASSUME NEW a \in Nat \ {0}, NEW x \in 0..(a - 1)
  PROVE  x % a = x
  OBVIOUS

\* A product that calloc accepts fits in a word.
LEMMA Fits ==
  ASSUME NEW n \in Nat \ {0}, NEW s \in Nat, NEW w \in Nat, (w - 1) \div n > s
  PROVE  n * s < w
  OBVIOUS

\* Addresses and sizes that keep blocks aligned.
Aligned(x) == \E j \in Nat : x = ALIGN * j

LEMMA AlignPower == \E k \in 2..16 : ALIGN = Pow2[k]
  BY NMallocAssumption

LEMMA AlignSize == ALIGN >= 4 /\ DATAOFFSET >= ALIGN /\ Aligned(DATAOFFSET) /\ Aligned(ALIGN)
  <1>1. PICK k \in 2..16 : ALIGN = Pow2[k]
    BY AlignPower
  <1>2. Pow2[1] = 2 /\ Pow2[2] = 4
    <2>1. Pow2[1] = 2 * Pow2[1 - 1] /\ Pow2[2] = 2 * Pow2[2 - 1]
      BY Doubles
    <2> QED
      BY <2>1, Doubles
  <1>3. ALIGN >= 4
    BY <1>1, <1>2, PowersGrow
  <1>4. PICK j \in Nat : DATAOFFSET = ALIGN * j
    <2>1. DATAOFFSET % ALIGN = 0
      BY NMallocAssumption
    <2>2. ALIGN \in Nat \ {0} /\ DATAOFFSET \in Nat
      BY <1>3, Constants
    <2>3. DATAOFFSET \div ALIGN \in Nat
          /\ DATAOFFSET = ALIGN * (DATAOFFSET \div ALIGN) + (DATAOFFSET % ALIGN)
      BY <2>2, Division
    <2>4. DATAOFFSET = ALIGN * (DATAOFFSET \div ALIGN)
      BY <2>1, <2>2, <2>3
    <2> QED
      BY <2>3, <2>4
  <1>5. j # 0
    BY <1>4, Constants
  <1>6. DATAOFFSET >= ALIGN
    BY <1>4, <1>5, Constants
  <1>7. ALIGN = ALIGN * 1
    BY Constants
  <1> QED
    BY <1>3, <1>4, <1>6, <1>7 DEF Aligned

LEMMA AlignedSum ==
  ASSUME NEW x, NEW y, Aligned(x), Aligned(y)
  PROVE  Aligned(x + y)
  <1>1. PICK i \in Nat : x = ALIGN * i
    BY DEF Aligned
  <1>2. PICK j \in Nat : y = ALIGN * j
    BY DEF Aligned
  <1>3. x + y = ALIGN * (i + j)
    BY <1>1, <1>2, Constants
  <1> QED
    BY <1>3 DEF Aligned

\* Aligned means a remainder of zero.
LEMMA AlignedMod ==
  ASSUME NEW x \in Nat
  PROVE  Aligned(x) <=> x % ALIGN = 0
  <1>1. ALIGN \in Nat \ {0}
    BY Constants, AlignSize
  <1>2. ASSUME NEW j \in Nat, x = ALIGN * j
        PROVE  x % ALIGN = 0
    BY <1>1, <1>2
  <1>3. ASSUME x % ALIGN = 0
        PROVE  \E j \in Nat : x = ALIGN * j
    <2>1. x \div ALIGN \in Nat /\ x = ALIGN * (x \div ALIGN) + (x % ALIGN)
      BY <1>1, Division
    <2>2. x = ALIGN * (x \div ALIGN)
      BY <1>1, <1>3, <2>1
    <2> QED
      BY <2>1, <2>2
  <1> QED
    BY <1>2, <1>3 DEF Aligned

\* A size that does not wrap is rounded up to a multiple of ALIGN, by less than
\* ALIGN, with room for the header.
LEMMA Rounded ==
  ASSUME NEW n \in Nat \ {0}, n + MINSAVE <= WORD
  PROVE  /\ roundup(n) \in Nat
         /\ Aligned(roundup(n))
         /\ n + DATAOFFSET <= roundup(n)
         /\ roundup(n) < n + MINSAVE
         /\ MINSAVE <= roundup(n)
  <1>1. ALIGN \in Nat \ {0} /\ DATAOFFSET \in Nat \ {0} /\ WORD \in Nat \ {0}
    BY Constants, AlignSize DEF MINSAVE
  <1> DEFINE x == n + ALIGN - 1
  <1>2. x \in 0..(WORD - 1) /\ x \in Nat /\ x + DATAOFFSET < WORD
    BY <1>1 DEF MINSAVE
  <1>3. Word(x) = x
    BY <1>1, <1>2, SmallMod DEF Word
  <1> HIDE DEF x
  <1>4. PICK q \in Nat : q = x \div ALIGN /\ ALIGN * q <= x /\ x < ALIGN * q + ALIGN
    BY <1>1, <1>2, Division
  <1>5. PICK y \in Nat : y = ALIGN * q
    BY <1>1
  <1>6. q * ALIGN = y
    BY <1>1, <1>5
  <1>7. y + DATAOFFSET \in 0..(WORD - 1)
    BY <1>1, <1>2, <1>4, <1>5
  <1>8. roundup(n) = Word(y + DATAOFFSET)
    BY <1>3, <1>4, <1>6 DEF roundup, x
  <1>9. roundup(n) = y + DATAOFFSET
    BY <1>1, <1>7, <1>8, SmallMod DEF Word
  <1>10. Aligned(y)
    BY <1>5 DEF Aligned
  <1>11. y >= ALIGN
    <2>1. q # 0
      BY <1>1, <1>4, <1>5 DEF x
    <2> QED
      BY <1>1, <1>5, <2>1
  <1>12. n <= y /\ y <= n + ALIGN - 1
    BY <1>1, <1>4, <1>5 DEF x
  <1> QED
    BY <1>1, <1>9, <1>10, <1>11, <1>12, AlignSize, AlignedSum DEF MINSAVE

\* size2bucket(sz) is the number of bits of sz.
LEMMA BucketIs ==
  ASSUME NEW sz \in Nat, sz < WORD
  PROVE  /\ size2bucket(sz) \in 0..NFLISTS
         /\ sz < Pow2[size2bucket(sz)]
         /\ size2bucket(sz) = 0 \/ Pow2[size2bucket(sz) - 1] <= sz
  <1> DEFINE S == {b \in 0..NFLISTS : sz < Pow2[b]}
  <1>1. NFLISTS \in S
    BY Constants
  <1>2. PICK b \in S : \A c \in S : b <= c
    <2>1. S \in SUBSET Nat /\ S # {}
      BY <1>1, Constants
    <2> QED
      BY <2>1, LeastIn
  <1>3. b = 0 \/ Pow2[b - 1] <= sz
    <2>1. CASE b # 0
      <3>1. b - 1 \in 0..NFLISTS /\ b - 1 \notin S /\ b - 1 \in 0..32
        BY <1>2, <2>1, Constants
      <3>2. Pow2[b - 1] \in Nat
        BY <3>1, Doubles
      <3> QED
        BY <3>1, <3>2
    <2> QED
      BY <2>1
  <1>4. \E c \in 0..NFLISTS : sz < Pow2[c] /\ (c = 0 \/ Pow2[c - 1] <= sz)
    BY <1>3
  <1> QED
    BY <1>4, Zenon DEF size2bucket

\* The block sizes in use have a list of their own, and a larger bucket holds
\* larger blocks.
LEMMA BucketRange ==
  ASSUME NEW sz \in Nat, DATAOFFSET <= sz, sz < WORD \div 2
  PROVE  size2bucket(sz) \in 2..(NFLISTS - 1)
  <1>1. sz < WORD
    BY Constants
  <1>2. size2bucket(sz) \in 0..NFLISTS /\ sz < Pow2[size2bucket(sz)]
    BY <1>1, BucketIs
  <1>3. Pow2[1] = 2 /\ Pow2[0] = 1
    <2>1. Pow2[1] = 2 * Pow2[1 - 1]
      BY Doubles
    <2> QED
      BY <2>1, Doubles
  <1>4. size2bucket(sz) # 0 /\ size2bucket(sz) # 1
    BY <1>2, <1>3, AlignSize, Constants
  <1>5. size2bucket(sz) # NFLISTS
    <2>1. WORD = 2 * Pow2[NFLISTS - 1] /\ NFLISTS - 1 \in 0..32
      BY Constants, Doubles
    <2>2. Pow2[NFLISTS - 1] \in Nat
      BY <2>1, Doubles
    <2>3. WORD \div 2 = Pow2[NFLISTS - 1]
      BY <2>1, <2>2
    <2>4. sz < Pow2[NFLISTS - 1]
      BY <2>3
    <2>5. size2bucket(sz) = 0 \/ Pow2[size2bucket(sz) - 1] <= sz
      BY <1>1, BucketIs
    <2>6. NFLISTS # 0
      BY Constants
    <2> QED
      BY <2>2, <2>4, <2>5, <2>6
  <1> QED
    BY <1>2, <1>4, <1>5, Constants

LEMMA BucketOrder ==
  ASSUME NEW s \in Nat, NEW t \in Nat, s < WORD, t < WORD,
         size2bucket(s) < size2bucket(t)
  PROVE  s < t
  <1>1. /\ size2bucket(s) \in 0..NFLISTS /\ s < Pow2[size2bucket(s)]
        /\ size2bucket(t) \in 0..NFLISTS
        /\ size2bucket(t) = 0 \/ Pow2[size2bucket(t) - 1] <= t
    BY BucketIs
  <1> DEFINE b == size2bucket(s)
             c == size2bucket(t) - 1
  <1>2. b \in 0..32 /\ c \in 0..32 /\ b <= c /\ Pow2[c] <= t
    BY <1>1, Constants
  <1>3. Pow2[b] <= Pow2[c] /\ Pow2[b] \in Nat /\ Pow2[c] \in Nat
    BY <1>2, PowersGrow, Doubles
  <1> QED
    BY <1>1, <1>2, <1>3

-----------------------------------------------------------------------------
(* Heaps and what an operator changes in one.                              *)

Link == Addr \cup NoAddr
Block == [prev : Link, next : Link, sz : Nat, nextfree : Link, prevfree : Link,
          data : {"user", "junk"}]
Parts == {"blk", "freehdrs", "lastsbrk", "sbrkbgn", "brk", "taken", "leaked", "fouled",
          "outside"}
Lists == 2..(NFLISTS - 1)

IsHeap(h) ==
  /\ h = [x \in Parts |-> h[x]]
  /\ h.blk = [a \in DOMAIN h.blk |-> h.blk[a]]
  /\ DOMAIN h.blk \subseteq Addr
  /\ \A a \in DOMAIN h.blk : h.blk[a] \in Block
  /\ h.freehdrs \in [Lists -> Addr \cup {NULL}]
  /\ h.lastsbrk \in Addr \cup {NULL}
  /\ h.sbrkbgn \in Seq(Addr)
  /\ h.brk \in START..LIMIT
  /\ h.taken \subseteq Addr /\ h.leaked \subseteq Addr

\* The parts of a heap that no free list and no block is about.
SameRest(h, n) ==
  /\ n.sbrkbgn = h.sbrkbgn /\ n.brk = h.brk /\ n.taken = h.taken
  /\ n.leaked = h.leaked /\ n.fouled = h.fouled

\* n differs from h in the free list fields of the blocks in S only.
LinksOnly(h, n, S) ==
  /\ SameRest(h, n) /\ n.lastsbrk = h.lastsbrk
  /\ DOMAIN n.blk = DOMAIN h.blk
  /\ \A a \in DOMAIN h.blk :
       /\ n.blk[a].prev = h.blk[a].prev /\ n.blk[a].next = h.blk[a].next
       /\ n.blk[a].sz = h.blk[a].sz
       /\ a \notin S => n.blk[a] = h.blk[a]

LEMMA NextfreeIs ==
  ASSUME NEW h, IsHeap(h), NEW m \in DOMAIN h.blk, NEW v \in Link
  PROVE  LET n == Nextfree(h, m, v)
         IN  /\ IsHeap(n) /\ LinksOnly(h, n, {m}) /\ n.freehdrs = h.freehdrs
             /\ n.blk[m].nextfree = v
             /\ n.blk[m].prevfree = h.blk[m].prevfree /\ n.blk[m].data = h.blk[m].data
  <1> DEFINE n == Nextfree(h, m, v)
  <1>1. n = [h EXCEPT !.blk[m].nextfree = v]
    BY DEF Nextfree
  <1>2. /\ n.blk = [h.blk EXCEPT ![m].nextfree = v]
        /\ n.freehdrs = h.freehdrs /\ n.lastsbrk = h.lastsbrk /\ SameRest(h, n)
    BY <1>1 DEF IsHeap, Parts, SameRest
  <1>3. n = [x \in Parts |-> n[x]]
    BY <1>1 DEF IsHeap
  <1> HIDE DEF n
  <1>4. /\ DOMAIN n.blk = DOMAIN h.blk
        /\ \A a \in DOMAIN h.blk : a # m => n.blk[a] = h.blk[a]
        /\ n.blk[m] = [h.blk[m] EXCEPT !.nextfree = v]
        /\ n.blk = [a \in DOMAIN n.blk |-> n.blk[a]]
    BY <1>2 DEF IsHeap
  <1>5. h.blk[m] \in Block
    BY DEF IsHeap
  <1>6. /\ n.blk[m] \in Block
        /\ n.blk[m].prev = h.blk[m].prev /\ n.blk[m].next = h.blk[m].next
        /\ n.blk[m].sz = h.blk[m].sz /\ n.blk[m].nextfree = v
        /\ n.blk[m].prevfree = h.blk[m].prevfree /\ n.blk[m].data = h.blk[m].data
    BY <1>4, <1>5 DEF Block
  <1>7. IsHeap(n)
    BY <1>2, <1>3, <1>4, <1>6 DEF IsHeap, SameRest
  <1>8. LinksOnly(h, n, {m})
    BY <1>2, <1>4, <1>6 DEF LinksOnly
  <1> QED
    BY <1>2, <1>6, <1>7, <1>8 DEF n

LEMMA PrevfreeIs ==
  ASSUME NEW h, IsHeap(h), NEW m \in DOMAIN h.blk, NEW v \in Link
  PROVE  LET n == Prevfree(h, m, v)
         IN  /\ IsHeap(n) /\ LinksOnly(h, n, {m}) /\ n.freehdrs = h.freehdrs
             /\ n.blk[m].nextfree = h.blk[m].nextfree
             /\ n.blk[m].prevfree = v
  <1> DEFINE n == Prevfree(h, m, v)
  <1>1. n = [h EXCEPT !.blk[m].prevfree = v, !.blk[m].data = "junk",
                      !.outside = @ \/ h.blk[m].sz < DATAOFFSET + FIELD]
    BY DEF Prevfree
  <1>2. /\ n.blk = [h.blk EXCEPT ![m].prevfree = v, ![m].data = "junk"]
        /\ n.freehdrs = h.freehdrs /\ n.lastsbrk = h.lastsbrk /\ SameRest(h, n)
    BY <1>1 DEF IsHeap, Parts, SameRest
  <1>3. n = [x \in Parts |-> n[x]]
    BY <1>1 DEF IsHeap
  <1> HIDE DEF n
  <1>4. /\ DOMAIN n.blk = DOMAIN h.blk
        /\ \A a \in DOMAIN h.blk : a # m => n.blk[a] = h.blk[a]
        /\ n.blk[m] = [h.blk[m] EXCEPT !.prevfree = v, !.data = "junk"]
        /\ n.blk = [a \in DOMAIN n.blk |-> n.blk[a]]
    BY <1>2 DEF IsHeap
  <1>5. h.blk[m] \in Block
    BY DEF IsHeap
  <1>6. /\ n.blk[m] \in Block
        /\ n.blk[m].prev = h.blk[m].prev /\ n.blk[m].next = h.blk[m].next
        /\ n.blk[m].sz = h.blk[m].sz /\ n.blk[m].nextfree = h.blk[m].nextfree
        /\ n.blk[m].prevfree = v
    BY <1>4, <1>5 DEF Block
  <1>7. IsHeap(n)
    BY <1>2, <1>3, <1>4, <1>6 DEF IsHeap, SameRest
  <1>8. LinksOnly(h, n, {m})
    BY <1>2, <1>4, <1>6 DEF LinksOnly
  <1> QED
    BY <1>2, <1>6, <1>7, <1>8 DEF n

\* The header of a list is set.
LEMMA HeaderIs ==
  ASSUME NEW h, IsHeap(h), NEW b \in Lists, NEW v \in Addr \cup {NULL}
  PROVE  LET n == [h EXCEPT !.freehdrs[b] = v]
         IN  /\ IsHeap(n) /\ LinksOnly(h, n, {}) /\ n.blk = h.blk
             /\ \A c \in Lists : n.freehdrs[c] = IF c = b THEN v ELSE h.freehdrs[c]
  <1> DEFINE n == [h EXCEPT !.freehdrs[b] = v]
  <1>1. /\ n.freehdrs = [h.freehdrs EXCEPT ![b] = v]
        /\ n.blk = h.blk /\ n.lastsbrk = h.lastsbrk /\ SameRest(h, n)
    BY DEF IsHeap, Parts, SameRest
  <1>2. n = [x \in Parts |-> n[x]]
    BY DEF IsHeap
  <1> HIDE DEF n
  <1>3. /\ n.freehdrs \in [Lists -> Addr \cup {NULL}]
        /\ \A c \in Lists : n.freehdrs[c] = IF c = b THEN v ELSE h.freehdrs[c]
    BY <1>1 DEF IsHeap
  <1>4. IsHeap(n) /\ LinksOnly(h, n, {})
    BY <1>1, <1>2, <1>3 DEF IsHeap, SameRest, LinksOnly
  <1> QED
    BY <1>1, <1>3, <1>4 DEF n

\* lastsbrk is set.
LEMMA LastIs ==
  ASSUME NEW h, IsHeap(h), NEW v \in Addr \cup {NULL}
  PROVE  LET n == [h EXCEPT !.lastsbrk = v]
         IN  /\ IsHeap(n) /\ n.blk = h.blk /\ n.freehdrs = h.freehdrs /\ n.lastsbrk = v
             /\ SameRest(h, n)
  <1> DEFINE n == [h EXCEPT !.lastsbrk = v]
  <1>1. /\ n.freehdrs = h.freehdrs /\ n.blk = h.blk /\ n.lastsbrk = v /\ SameRest(h, n)
    BY DEF IsHeap, Parts, SameRest
  <1>2. n = [x \in Parts |-> n[x]]
    BY DEF IsHeap
  <1> HIDE DEF n
  <1>3. IsHeap(n)
    BY <1>1, <1>2 DEF IsHeap, SameRest
  <1> QED
    BY <1>1, <1>3 DEF n

\* Data is stored in block t, over its prevfree field.
StoreTo(h, t, d) == [h EXCEPT !.blk[t].data = d, !.blk[t].prevfree = NULL]
StoredBy(h, n, t, d) ==
  /\ IsHeap(n) /\ LinksOnly(h, n, {t}) /\ n.freehdrs = h.freehdrs
  /\ n.blk[t].nextfree = h.blk[t].nextfree
  /\ n.blk[t].data = d

LEMMA StoredIs ==
  ASSUME NEW h, IsHeap(h), NEW t \in DOMAIN h.blk, NEW d \in {"user", "junk"}
  PROVE  StoredBy(h, StoreTo(h, t, d), t, d)
  <1> DEFINE n == StoreTo(h, t, d)
  <1>2. /\ n.blk = [h.blk EXCEPT ![t].data = d, ![t].prevfree = NULL]
        /\ n.freehdrs = h.freehdrs /\ n.lastsbrk = h.lastsbrk /\ SameRest(h, n)
    BY DEF StoreTo, IsHeap, Parts, SameRest
  <1>3. n = [x \in Parts |-> n[x]]
    BY DEF StoreTo, IsHeap
  <1> HIDE DEF n
  <1>4. /\ DOMAIN n.blk = DOMAIN h.blk
        /\ \A a \in DOMAIN h.blk : a # t => n.blk[a] = h.blk[a]
        /\ n.blk[t] = [h.blk[t] EXCEPT !.data = d, !.prevfree = NULL]
        /\ n.blk = [a \in DOMAIN n.blk |-> n.blk[a]]
    BY <1>2 DEF IsHeap
  <1>5. h.blk[t] \in Block /\ NULL \in Link
    BY DEF IsHeap, Link, NoAddr
  <1>6. /\ n.blk[t] \in Block
        /\ n.blk[t].prev = h.blk[t].prev /\ n.blk[t].next = h.blk[t].next
        /\ n.blk[t].sz = h.blk[t].sz /\ n.blk[t].nextfree = h.blk[t].nextfree
        /\ n.blk[t].data = d
    BY <1>4, <1>5 DEF Block
  <1>7. IsHeap(n)
    BY <1>2, <1>3, <1>4, <1>6 DEF IsHeap, SameRest
  <1>8. LinksOnly(h, n, {t})
    BY <1>2, <1>4, <1>6 DEF LinksOnly
  <1>9. StoredBy(h, n, t, d)
    BY <1>2, <1>6, <1>7, <1>8 DEF StoredBy
  <1> QED
    BY <1>9 DEF n

\* Changes add up.
LEMMA LinksAdd ==
  ASSUME NEW h, NEW k, NEW n, NEW S, NEW T, NEW U, S \cup T \subseteq U,
         LinksOnly(h, k, S), LinksOnly(k, n, T)
  PROVE  LinksOnly(h, n, U)
  <1>1. SameRest(h, n) /\ n.lastsbrk = h.lastsbrk /\ DOMAIN n.blk = DOMAIN h.blk
    BY DEF LinksOnly, SameRest
  <1>2. ASSUME NEW a \in DOMAIN h.blk
        PROVE  /\ n.blk[a].prev = h.blk[a].prev /\ n.blk[a].next = h.blk[a].next
               /\ n.blk[a].sz = h.blk[a].sz
               /\ a \notin U => n.blk[a] = h.blk[a]
    <2>1. a \in DOMAIN k.blk
      BY DEF LinksOnly
    <2>2. a \notin U => a \notin S /\ a \notin T
      OBVIOUS
    <2> QED
      BY <2>1, <2>2 DEF LinksOnly
  <1> QED
    BY <1>1, <1>2 DEF LinksOnly

-----------------------------------------------------------------------------
(* The parts of the invariant.                                             *)

\* Block a lies within the memory obtained, apart from all others and from the
\* memory of others, and its links are mutual.
Placed(h, a) ==
  /\ Aligned(a) /\ DATAOFFSET <= h.blk[a].sz /\ a + h.blk[a].sz <= h.brk
  /\ h.blk[a].next # NULL => /\ h.blk[a].next = a + h.blk[a].sz
                             /\ h.blk[a].next \in DOMAIN h.blk
                             /\ h.blk[h.blk[a].next].prev = a
  /\ h.blk[a].prev # NULL => /\ h.blk[a].prev \in DOMAIN h.blk
                             /\ h.blk[h.blk[a].prev].next = a
  /\ \A c \in DOMAIN h.blk : c > a => a + h.blk[a].sz <= c
  /\ \A t \in h.taken : t < a \/ a + h.blk[a].sz <= t

Chained(h) ==
  /\ h.taken \subseteq START..(h.brk - 1)
  /\ \A a \in DOMAIN h.blk : Placed(h, a)

Bucket(h, a) == size2bucket(h.blk[a].sz)

\* The neighbours of m in its list know it.
InList(h, F, m) ==
  /\ h.blk[m].nextfree \in F \cup {NONE}
  /\ h.blk[m].prevfree \in F \cup {NONE}
  /\ h.blk[m].nextfree # NONE =>
       /\ h.blk[h.blk[m].nextfree].prevfree = m
       /\ Bucket(h, h.blk[m].nextfree) = Bucket(h, m)
  /\ h.blk[m].prevfree # NONE => h.blk[h.blk[m].prevfree].nextfree = m
  /\ h.blk[m].prevfree = NONE => h.freehdrs[Bucket(h, m)] = m

\* The blocks in the lists are those of F.
Linked(h, F) ==
  /\ F \subseteq DOMAIN h.blk
  /\ \A m \in F : InList(h, F, m)
  /\ \A b \in Lists : h.freehdrs[b] # NULL =>
       /\ h.freehdrs[b] \in F /\ Bucket(h, h.freehdrs[b]) = b
       /\ h.blk[h.freehdrs[b]].prevfree = NONE

\* No list is a cycle: a rank falls along it.
Falls(h, F, r) ==
  \A m \in F : h.blk[m].nextfree # NONE => r[h.blk[m].nextfree] < r[m]
Ranked(h, F) == \E N \in Nat : \E r \in [F -> 0..N] : Falls(h, F, r)

\* Addresses are neither NULL nor NONE.
LEMMA Addresses == \A a \in Addr : a \in Nat /\ a > 1 /\ a # NULL /\ a # NONE
  BY Constants DEF Addr, NULL, NONE

LEMMA BucketInRange ==
  ASSUME NEW h, IsHeap(h), Chained(h), NEW a \in DOMAIN h.blk
  PROVE  Bucket(h, a) \in Lists
  <1>1. /\ h.blk[a] \in Block /\ a \in Addr /\ h.brk \in START..LIMIT
        /\ DATAOFFSET <= h.blk[a].sz /\ a + h.blk[a].sz <= h.brk
    BY DEF IsHeap, Chained, Placed
  <1>2. h.blk[a].sz \in Nat
    BY <1>1 DEF Block
  <1>3. h.blk[a].sz <= LIMIT
    BY <1>1, <1>2, Addresses, Constants
  <1>4. h.blk[a].sz < WORD \div 2
    BY <1>2, <1>3, Constants
  <1> QED
    BY <1>1, <1>2, <1>4, BucketRange DEF Bucket, Lists

\* What changes neither next, prev nor sz leaves the blocks in place.
LEMMA LinksChained ==
  ASSUME NEW h, NEW n, NEW S, Chained(h), LinksOnly(h, n, S)
  PROVE  Chained(n)
  <1>1. n.taken \subseteq START..(n.brk - 1)
    BY DEF Chained, LinksOnly, SameRest
  <1>2. ASSUME NEW a \in DOMAIN n.blk
        PROVE  Placed(n, a)
    <2>1. a \in DOMAIN h.blk /\ Placed(h, a)
      BY DEF Chained, LinksOnly
    <2> QED
      BY <2>1 DEF Placed, LinksOnly, SameRest
  <1> QED
    BY <1>1, <1>2 DEF Chained

\* n is h with m taken out of its list.
Unlinked(h, n, F, m) ==
  LET nx == h.blk[m].nextfree
      pv == h.blk[m].prevfree
  IN  /\ IsHeap(n) /\ LinksOnly(h, n, F)
      /\ n.blk[m].nextfree = NULL
      /\ \A a \in F \ {m} :
           /\ n.blk[a].nextfree = IF a = pv THEN nx ELSE h.blk[a].nextfree
           /\ n.blk[a].prevfree = IF a = nx THEN pv ELSE h.blk[a].prevfree
      /\ \A c \in Lists :
           n.freehdrs[c] = IF pv # NONE \/ c # Bucket(h, m) THEN h.freehdrs[c]
                           ELSE IF nx = NONE THEN NULL ELSE nx

\* The lists are sound without m.
LEMMA UnlinkedLists ==
  ASSUME NEW h, NEW n, NEW F, NEW m \in F,
         IsHeap(h), Chained(h), Linked(h, F), Ranked(h, F), Unlinked(h, n, F, m)
  PROVE  Linked(n, F \ {m}) /\ Ranked(n, F \ {m})
  <1> DEFINE nx == h.blk[m].nextfree
             pv == h.blk[m].prevfree
             G == F \ {m}
             b == Bucket(h, m)
  <1>0. PICK N \in Nat : \E r \in [F -> 0..N] : Falls(h, F, r)
    BY DEF Ranked
  <1>1. PICK r \in [F -> 0..N] : Falls(h, F, r)
    BY <1>0
  <1>2. /\ F \subseteq DOMAIN h.blk /\ F \subseteq DOMAIN n.blk
        /\ \A a \in F : Bucket(n, a) = Bucket(h, a) /\ a # NONE /\ a # NULL
        /\ b \in Lists
    BY BucketInRange, Addresses DEF Linked, Unlinked, LinksOnly, Bucket, IsHeap
  <1>3. /\ nx \in F \cup {NONE} /\ pv \in F \cup {NONE}
        /\ nx # NONE => h.blk[nx].prevfree = m /\ Bucket(h, nx) = b
        /\ pv # NONE => h.blk[pv].nextfree = m
        /\ pv = NONE => h.freehdrs[b] = m
    BY DEF Linked, InList
  <1>4. nx # m /\ pv # m
    <2>1. r[m] \in Int
      OBVIOUS
    <2>2. nx # NONE => r[nx] < r[m]
      BY <1>1 DEF Falls
    <2>3. pv # NONE => r[m] < r[pv]
      <3>1. CASE pv # NONE
        <4>1. pv \in F /\ h.blk[pv].nextfree = m /\ m # NONE
          BY <3>1, <1>2, <1>3
        <4> QED
          BY <4>1, <1>1 DEF Falls
      <3> QED
        BY <3>1
    <2> QED
      BY <2>1, <2>2, <2>3, <1>2
  <1>5. pv # NONE => Bucket(h, pv) = b
    BY <1>2, <1>3 DEF Linked, InList
  <1>6. /\ \A a \in G : /\ n.blk[a].nextfree = IF a = pv THEN nx ELSE h.blk[a].nextfree
                        /\ n.blk[a].prevfree = IF a = nx THEN pv ELSE h.blk[a].prevfree
        /\ \A c \in Lists :
             n.freehdrs[c] = IF pv # NONE \/ c # b THEN h.freehdrs[c]
                             ELSE IF nx = NONE THEN NULL ELSE nx
    BY DEF Unlinked
  <1>7. \A a \in F : InList(h, F, a)
    BY DEF Linked
  <1> HIDE DEF nx, pv, b
  <1>8. ASSUME NEW a \in G
        PROVE  InList(n, G, a)
    <2>0. a \in F /\ a # m /\ InList(h, F, a) /\ Bucket(h, a) \in Lists /\ a # NONE
      BY <1>2, <1>7, BucketInRange
    <2>1. /\ n.blk[a].nextfree \in G \cup {NONE}
          /\ n.blk[a].nextfree # NONE =>
               /\ n.blk[n.blk[a].nextfree].prevfree = a
               /\ Bucket(n, n.blk[a].nextfree) = Bucket(n, a)
      <3>1. CASE a = pv
        <4>1. n.blk[a].nextfree = nx
          BY <1>6, <3>1
        <4>2. nx \in G \cup {NONE}
          BY <1>3, <1>4
        <4>3. nx # NONE => n.blk[nx].prevfree = a /\ Bucket(n, nx) = Bucket(n, a)
          BY <1>2, <1>3, <1>5, <1>6, <2>0, <3>1, <4>2
        <4> QED
          BY <4>1, <4>2, <4>3
      <3>2. CASE a # pv
        <4>1. n.blk[a].nextfree = h.blk[a].nextfree
          BY <1>6, <3>2
        <4> DEFINE x == h.blk[a].nextfree
        <4>2. /\ x \in F \cup {NONE}
              /\ x # NONE => h.blk[x].prevfree = a /\ Bucket(h, x) = Bucket(h, a)
          BY <2>0 DEF InList
        <4> HIDE DEF x
        <4>3. x # m
          BY <1>2, <3>2, <4>2 DEF pv
        <4>4. x # NONE => x # nx
          BY <1>3, <2>0, <4>2
        <4>5. x # NONE => n.blk[x].prevfree = a /\ Bucket(n, x) = Bucket(n, a)
          BY <1>2, <1>6, <2>0, <4>2, <4>3, <4>4
        <4> QED
          BY <4>1, <4>2, <4>3, <4>5 DEF x
      <3> QED
        BY <3>1, <3>2
    <2>2. /\ n.blk[a].prevfree \in G \cup {NONE}
          /\ n.blk[a].prevfree # NONE => n.blk[n.blk[a].prevfree].nextfree = a
          /\ n.blk[a].prevfree = NONE => n.freehdrs[Bucket(n, a)] = a
      <3>1. CASE a = nx
        <4>1. n.blk[a].prevfree = pv
          BY <1>6, <3>1
        <4>2. pv \in G \cup {NONE}
          BY <1>3, <1>4
        <4>3. pv # NONE => n.blk[pv].nextfree = a
          BY <1>6, <3>1, <4>2
        <4>4. pv = NONE => n.freehdrs[Bucket(n, a)] = a
          BY <1>2, <1>3, <1>6, <2>0, <3>1
        <4> QED
          BY <4>1, <4>2, <4>3, <4>4
      <3>2. CASE a # nx
        <4>1. n.blk[a].prevfree = h.blk[a].prevfree
          BY <1>6, <3>2
        <4> DEFINE y == h.blk[a].prevfree
        <4>2. /\ y \in F \cup {NONE}
              /\ y # NONE => h.blk[y].nextfree = a
              /\ y = NONE => h.freehdrs[Bucket(h, a)] = a
          BY <2>0 DEF InList
        <4> HIDE DEF y
        <4>3. y # m
          BY <1>2, <3>2, <4>2 DEF nx
        <4>4. y # NONE => y # pv
          BY <1>3, <2>0, <4>2
        <4>5. y # NONE => n.blk[y].nextfree = a
          BY <1>6, <4>2, <4>3, <4>4
        <4>6. y = NONE => n.freehdrs[Bucket(n, a)] = a
          BY <1>2, <1>3, <1>6, <2>0, <4>2
        <4> QED
          BY <4>1, <4>2, <4>3, <4>5, <4>6 DEF y
      <3> QED
        BY <3>1, <3>2
    <2> QED
      BY <2>1, <2>2 DEF InList
  <1>9. ASSUME NEW c \in Lists, n.freehdrs[c] # NULL
        PROVE  /\ n.freehdrs[c] \in G /\ Bucket(n, n.freehdrs[c]) = c
               /\ n.blk[n.freehdrs[c]].prevfree = NONE
    <2>1. CASE pv # NONE \/ c # b
      <3>1. n.freehdrs[c] = h.freehdrs[c]
        BY <1>6, <2>1
      <3> DEFINE x == h.freehdrs[c]
      <3>2. x \in F /\ Bucket(h, x) = c /\ h.blk[x].prevfree = NONE
        BY <1>9, <3>1 DEF Linked
      <3>3. x # m
        BY <2>1, <3>2 DEF pv, b
      <3>4. x # nx
        BY <1>2, <1>3, <3>2
      <3> HIDE DEF x
      <3> QED
        BY <1>2, <1>6, <3>1, <3>2, <3>3, <3>4 DEF x
    <2>2. CASE pv = NONE /\ c = b
      <3>1. n.freehdrs[c] = nx /\ nx # NONE /\ nx \in G
        BY <1>3, <1>4, <1>6, <1>9, <2>2
      <3> QED
        BY <1>2, <1>3, <1>6, <2>2, <3>1
    <2> QED
      BY <2>1, <2>2
  <1>10. Linked(n, G)
    BY <1>2, <1>8, <1>9 DEF Linked
  <1>11. Ranked(n, G)
    <2> DEFINE s == [a \in G |-> r[a]]
    <2>1. s \in [G -> 0..N]
      OBVIOUS
    <2>2. ASSUME NEW a \in G, n.blk[a].nextfree # NONE
          PROVE  s[n.blk[a].nextfree] < s[a]
      <3>0. n.blk[a].nextfree \in G
        BY <1>8, <2>2 DEF InList
      <3>1. CASE a = pv
        <4>1. n.blk[a].nextfree = nx
          BY <1>6, <3>1
        <4>2. r[nx] < r[m] /\ r[m] < r[a]
          BY <1>1, <1>2, <1>3, <2>2, <3>1, <4>1 DEF Falls, nx
        <4>3. r[nx] \in Int /\ r[m] \in Int /\ r[a] \in Int
          BY <3>0, <4>1
        <4> QED
          BY <3>0, <4>1, <4>2, <4>3
      <3>2. CASE a # pv
        <4>1. n.blk[a].nextfree = h.blk[a].nextfree
          BY <1>6, <3>2
        <4> QED
          BY <1>1, <2>2, <3>0, <4>1 DEF Falls
      <3> QED
        BY <3>1, <3>2
    <2>3. Falls(n, G, s)
      BY <2>2 DEF Falls
    <2> QED
      BY <2>1, <2>3 DEF Ranked
  <1> QED
    BY <1>10, <1>11

LEMMA LinksGrow ==
  ASSUME NEW h, NEW n, NEW S, NEW T, S \subseteq T, LinksOnly(h, n, S)
  PROVE  LinksOnly(h, n, T)
  BY DEF LinksOnly

LEMMA LinksNone ==
  ASSUME NEW h, NEW S
  PROVE  LinksOnly(h, h, S)
  BY DEF LinksOnly, SameRest

\* The next block of a list, if any, points back to pv.
NextLinked(h, n, F, nx, pv) ==
  /\ IsHeap(n) /\ LinksOnly(h, n, F) /\ n.freehdrs = h.freehdrs
  /\ \A a \in F : /\ n.blk[a].nextfree = h.blk[a].nextfree
                  /\ n.blk[a].prevfree = IF a = nx THEN pv ELSE h.blk[a].prevfree

LEMMA LinkNextIs ==
  ASSUME NEW h, IsHeap(h), NEW F, F \subseteq DOMAIN h.blk,
         NEW nx \in F \cup {NONE}, NEW pv \in Link
  PROVE  NextLinked(h, LinkNext(h, nx, pv), F, nx, pv)
  <1> DEFINE n == LinkNext(h, nx, pv)
  <1>1. CASE nx # NONE
    <2>1. n = Prevfree(h, nx, pv) /\ nx \in DOMAIN h.blk
      BY <1>1 DEF LinkNext
    <2>2. /\ IsHeap(n) /\ LinksOnly(h, n, {nx}) /\ n.freehdrs = h.freehdrs
          /\ n.blk[nx].nextfree = h.blk[nx].nextfree /\ n.blk[nx].prevfree = pv
      BY <2>1, PrevfreeIs
    <2>3. LinksOnly(h, n, F)
      BY <1>1, <2>2, LinksGrow
    <2> QED
      BY <2>2, <2>3 DEF LinksOnly, NextLinked
  <1>2. CASE nx = NONE
    <2>1. n = h
      BY <1>2 DEF LinkNext
    <2>2. nx \notin F
      BY <1>2, Addresses DEF IsHeap
    <2> QED
      BY <2>1, <2>2, LinksNone DEF NextLinked
  <1> QED
    BY <1>1, <1>2

\* The previous block of a list, or the header of list b, points to nx.
PrevLinked(h, n, F, nx, pv, b) ==
  /\ IsHeap(n) /\ LinksOnly(h, n, F)
  /\ \A a \in F : /\ n.blk[a].nextfree = IF a = pv THEN nx ELSE h.blk[a].nextfree
                  /\ n.blk[a].prevfree = h.blk[a].prevfree
  /\ \A c \in Lists : n.freehdrs[c] = IF pv # NONE \/ c # b THEN h.freehdrs[c]
                                      ELSE IF nx = NONE THEN NULL ELSE nx

LEMMA LinkPrevIs ==
  ASSUME NEW h, IsHeap(h), NEW F, F \subseteq DOMAIN h.blk,
         NEW nx \in F \cup {NONE}, NEW pv \in F \cup {NONE}, NEW b \in Lists
  PROVE  PrevLinked(h, LinkPrev(h, nx, pv, b), F, nx, pv, b)
  <1> DEFINE n == LinkPrev(h, nx, pv, b)
  <1>0. F \subseteq Addr /\ nx \in Link /\ NONE \notin F
    BY Addresses DEF IsHeap, Link, NoAddr
  <1>1. CASE pv # NONE
    <2>1. n = Nextfree(h, pv, nx) /\ pv \in DOMAIN h.blk
      BY <1>1 DEF LinkPrev
    <2>2. /\ IsHeap(n) /\ LinksOnly(h, n, {pv}) /\ n.freehdrs = h.freehdrs
          /\ n.blk[pv].nextfree = nx /\ n.blk[pv].prevfree = h.blk[pv].prevfree
      BY <1>0, <2>1, NextfreeIs, SMTT(60)
    <2>3. LinksOnly(h, n, F)
      BY <1>1, <2>2, LinksGrow
    <2> QED
      BY <1>1, <2>2, <2>3 DEF LinksOnly, PrevLinked
  <1>2. CASE pv = NONE
    <2>1. PICK v \in Addr \cup {NULL} : v = IF nx # NONE THEN nx ELSE NULL
      BY <1>0
    <2>2. n = [h EXCEPT !.freehdrs[b] = v]
      BY <1>2, <2>1 DEF LinkPrev
    <2>3. /\ IsHeap(n) /\ LinksOnly(h, n, {}) /\ n.blk = h.blk
          /\ \A c \in Lists : n.freehdrs[c] = IF c = b THEN v ELSE h.freehdrs[c]
      BY <2>2, HeaderIs
    <2>4. LinksOnly(h, n, F)
      BY <2>3, LinksGrow
    <2> QED
      BY <1>0, <1>2, <2>1, <2>3, <2>4 DEF PrevLinked
  <1> QED
    BY <1>1, <1>2

\* Both list fields of m are v.
MarkedBy(h, n, m, v) ==
  /\ IsHeap(n) /\ LinksOnly(h, n, {m}) /\ n.freehdrs = h.freehdrs
  /\ n.blk[m].nextfree = v /\ n.blk[m].prevfree = v

LEMMA MarkIs ==
  ASSUME NEW h, IsHeap(h), NEW m \in DOMAIN h.blk, NEW v \in Link
  PROVE  MarkedBy(h, Mark(h, m, v), m, v)
  <1> DEFINE k == Nextfree(h, m, v)
             n == Prevfree(k, m, v)
  <1>1. /\ IsHeap(k) /\ LinksOnly(h, k, {m}) /\ k.freehdrs = h.freehdrs
        /\ k.blk[m].nextfree = v
    BY NextfreeIs
  <1>2. m \in DOMAIN k.blk
    BY <1>1 DEF LinksOnly
  <1> HIDE DEF k
  <1>3. /\ IsHeap(n) /\ LinksOnly(k, n, {m}) /\ n.freehdrs = k.freehdrs
        /\ n.blk[m].nextfree = k.blk[m].nextfree /\ n.blk[m].prevfree = v
    BY <1>1, <1>2, PrevfreeIs
  <1> HIDE DEF n
  <1>4. LinksOnly(h, n, {m})
    BY <1>1, <1>3, LinksAdd
  <1>5. Mark(h, m, v) = n
    BY DEF Mark, n, k
  <1> QED
    BY <1>1, <1>3, <1>4, <1>5 DEF MarkedBy

LEMMA ExtractUnlinks ==
  ASSUME NEW h, NEW F, NEW m \in F, IsHeap(h), Chained(h), Linked(h, F)
  PROVE  Unlinked(h, extractfree(h, m), F, m)
  <1> DEFINE nx == h.blk[m].nextfree
             pv == h.blk[m].prevfree
             b == Bucket(h, m)
             h1 == LinkNext(h, nx, pv)
             h2 == LinkPrev(h1, nx, pv, b)
             n == Mark(h2, m, NULL)
  <1>1. /\ F \subseteq DOMAIN h.blk /\ F \subseteq Addr
        /\ nx \in F \cup {NONE} /\ pv \in F \cup {NONE} /\ b \in Lists
    BY BucketInRange DEF Linked, InList, IsHeap
  <1>2. pv \in Link /\ NULL \in Link
    BY <1>1 DEF Link, NoAddr
  <1>3. n = extractfree(h, m)
    BY DEF extractfree, Bucket
  <1> HIDE DEF nx, pv, b
  <1>4. NextLinked(h, h1, F, nx, pv)
    BY <1>1, <1>2, LinkNextIs
  <1> HIDE DEF h1
  <1>5. F \subseteq DOMAIN h1.blk /\ IsHeap(h1)
    BY <1>1, <1>4 DEF NextLinked, LinksOnly
  <1>6. PrevLinked(h1, h2, F, nx, pv, b)
    BY <1>1, <1>5, LinkPrevIs
  <1> HIDE DEF h2
  <1>7. m \in DOMAIN h2.blk
    BY <1>1, <1>5, <1>6 DEF LinksOnly, PrevLinked
  <1>8. /\ IsHeap(n) /\ LinksOnly(h2, n, {m}) /\ n.freehdrs = h2.freehdrs
        /\ n.blk[m].nextfree = NULL
    <2>1. IsHeap(h2)
      BY <1>6 DEF PrevLinked
    <2>2. MarkedBy(h2, n, m, NULL)
      BY <1>2, <1>7, <2>1, MarkIs
    <2> HIDE DEF n
    <2> QED
      BY <2>2 DEF MarkedBy
  <1> HIDE DEF n
  <1>9. LinksOnly(h, h2, F)
    BY <1>4, <1>6, LinksAdd DEF NextLinked, PrevLinked
  <1>10. LinksOnly(h, n, F)
    BY <1>8, <1>9, LinksAdd
  <1>11. \A a \in F \ {m} : n.blk[a] = h2.blk[a]
    BY <1>1, <1>8, <1>9 DEF LinksOnly
  <1> QED
    BY <1>3, <1>4, <1>6, <1>8, <1>10, <1>11 DEF Unlinked, NextLinked, PrevLinked, nx, pv, b

\* rmvfromfree takes the head of a list out.
LEMMA RemoveUnlinks ==
  ASSUME NEW h, NEW F, NEW m \in F, IsHeap(h), Chained(h), Linked(h, F),
         h.freehdrs[Bucket(h, m)] = m
  PROVE  /\ Unlinked(h, rmvfromfree(h, m), F, m)
         /\ rmvfromfree(h, m).blk[m].data = h.blk[m].data
  <1> DEFINE nx == h.blk[m].nextfree
             pv == h.blk[m].prevfree
             b == Bucket(h, m)
             k == [h EXCEPT !.freehdrs[b] = IF nx = NONE THEN NULL ELSE nx]
             h1 == IF nx = NONE THEN [h EXCEPT !.freehdrs[b] = NULL]
                   ELSE Prevfree([h EXCEPT !.freehdrs[b] = nx], nx, NONE)
             n == Nextfree(h1, m, NULL)
  <1>1. /\ F \subseteq DOMAIN h.blk /\ F \subseteq Addr /\ NONE \notin F
        /\ nx \in F \cup {NONE} /\ pv \in F \cup {NONE} /\ b \in Lists
    BY BucketInRange, Addresses DEF Linked, InList, IsHeap
  <1>2. pv = NONE
    BY <1>1, Addresses DEF Linked
  <1>3. NONE \in Link /\ NULL \in Link
    BY DEF Link, NoAddr
  <1>4. n = rmvfromfree(h, m)
    BY DEF rmvfromfree, Bucket
  <1>5. nx # m
    BY <1>1, <1>2 DEF Linked, InList
  <1> HIDE DEF nx, pv, b
  <1>6. /\ IsHeap(k) /\ LinksOnly(h, k, {}) /\ k.blk = h.blk
        /\ \A c \in Lists : k.freehdrs[c] = IF c # b THEN h.freehdrs[c]
                                            ELSE IF nx = NONE THEN NULL ELSE nx
    <2>1. PICK v \in Addr \cup {NULL} : v = IF nx = NONE THEN NULL ELSE nx
      BY <1>1
    <2>2. k = [h EXCEPT !.freehdrs[b] = v]
      BY <2>1
    <2> QED
      BY <1>1, <2>1, <2>2, HeaderIs
  <1>7. h1 = LinkNext(k, nx, NONE)
    BY DEF LinkNext
  <1> HIDE DEF k
  <1> HIDE DEF h1
  <1>8. F \subseteq DOMAIN k.blk
    BY <1>1, <1>6
  <1>9. NextLinked(k, h1, F, nx, NONE)
    BY <1>1, <1>3, <1>6, <1>7, <1>8, LinkNextIs
  <1>9a. h1.blk[m] = h.blk[m]
    <2>1. CASE nx # NONE
      <3>1. h1 = Prevfree(k, nx, NONE) /\ nx \in DOMAIN k.blk
        BY <1>1, <1>7, <1>8, <2>1 DEF LinkNext
      <3>2. LinksOnly(k, h1, {nx})
        BY <1>3, <1>6, <3>1, PrevfreeIs
      <3> QED
        BY <1>5, <1>6, <1>8, <3>2 DEF LinksOnly
    <2>2. CASE nx = NONE
      BY <1>6, <1>7, <2>2 DEF LinkNext
    <2> QED
      BY <2>1, <2>2
  <1>10. m \in DOMAIN h1.blk
    BY <1>1, <1>8, <1>9 DEF LinksOnly, NextLinked
  <1>11. /\ IsHeap(n) /\ LinksOnly(h1, n, {m}) /\ n.freehdrs = h1.freehdrs
         /\ n.blk[m].nextfree = NULL /\ n.blk[m].data = h1.blk[m].data
    BY <1>3, <1>9, <1>10, NextfreeIs DEF NextLinked
  <1> HIDE DEF n
  <1>12. LinksOnly(h, h1, F)
    BY <1>6, <1>9, LinksAdd DEF NextLinked
  <1>13. LinksOnly(h, n, F)
    BY <1>11, <1>12, LinksAdd
  <1>14. \A a \in F \ {m} : n.blk[a] = h1.blk[a]
    BY <1>1, <1>11, <1>12 DEF LinksOnly
  <1>15. Unlinked(h, n, F, m)
    <2>1. ASSUME NEW a \in F \ {m}
          PROVE  /\ n.blk[a].nextfree = IF a = pv THEN nx ELSE h.blk[a].nextfree
                 /\ n.blk[a].prevfree = IF a = nx THEN pv ELSE h.blk[a].prevfree
      BY <1>1, <1>2, <1>6, <1>9, <1>14 DEF NextLinked
    <2>2. ASSUME NEW c \in Lists
          PROVE  n.freehdrs[c] = IF pv # NONE \/ c # b THEN h.freehdrs[c]
                                 ELSE IF nx = NONE THEN NULL ELSE nx
      BY <1>2, <1>6, <1>9, <1>11 DEF NextLinked
    <2> QED
      BY <1>11, <1>13, <2>1, <2>2 DEF Unlinked, nx, pv, b
  <1> QED
    BY <1>4, <1>9a, <1>11, <1>15

\* n is h with m put at the head of the list of its size.
Pushed(h, n, F, m) ==
  LET first == h.freehdrs[Bucket(h, m)]
  IN  /\ IsHeap(n) /\ LinksOnly(h, n, F \cup {m})
      /\ n.blk[m].nextfree = IF first = NULL THEN NONE ELSE first
      /\ n.blk[m].prevfree = NONE
      /\ \A a \in F : /\ n.blk[a].nextfree = h.blk[a].nextfree
                      /\ n.blk[a].prevfree = IF a = first THEN m ELSE h.blk[a].prevfree
      /\ \A c \in Lists : n.freehdrs[c] = IF c = Bucket(h, m) THEN m ELSE h.freehdrs[c]

LEMMA PushIs ==
  ASSUME NEW h, NEW F, IsHeap(h), Chained(h), Linked(h, F), NEW m \in DOMAIN h.blk \ F
  PROVE  Pushed(h, Push(h, m, Bucket(h, m)), F, m)
  <1> DEFINE b == Bucket(h, m)
             first == h.freehdrs[b]
             v == IF first = NULL THEN NONE ELSE first
             h1 == Nextfree(h, m, v)
             h2 == IF first = NULL THEN h1 ELSE Prevfree(h1, first, m)
             h3 == Prevfree(h2, m, NONE)
             n == [h3 EXCEPT !.freehdrs[b] = m]
  <1>1. /\ F \subseteq DOMAIN h.blk /\ F \subseteq Addr /\ m \in Addr /\ NULL \notin F
        /\ b \in Lists /\ first \in F \cup {NULL}
    BY BucketInRange, Addresses DEF Linked, IsHeap
  <1>2. v \in Link /\ m \in Link /\ NONE \in Link
    BY <1>1 DEF Link, NoAddr
  <1>3. n = Push(h, m, Bucket(h, m))
    BY DEF Push
  <1> HIDE DEF b, first
  <1>4. /\ IsHeap(h1) /\ LinksOnly(h, h1, {m}) /\ h1.freehdrs = h.freehdrs
        /\ h1.blk[m].nextfree = v
    BY <1>2, NextfreeIs
  <1> HIDE DEF h1
  <1>5. /\ DOMAIN h1.blk = DOMAIN h.blk
        /\ \A a \in F : h1.blk[a] = h.blk[a]
    BY <1>1, <1>4 DEF LinksOnly
  <1>6. /\ IsHeap(h2) /\ LinksOnly(h1, h2, F) /\ h2.freehdrs = h1.freehdrs
        /\ \A a \in F : /\ h2.blk[a].nextfree = h1.blk[a].nextfree
                        /\ h2.blk[a].prevfree = IF a = first THEN m ELSE h1.blk[a].prevfree
    <2>1. CASE first # NULL
      <3>1. h2 = Prevfree(h1, first, m) /\ first \in DOMAIN h1.blk
        BY <1>1, <1>5, <2>1
      <3>2. /\ IsHeap(h2) /\ LinksOnly(h1, h2, {first}) /\ h2.freehdrs = h1.freehdrs
            /\ h2.blk[first].nextfree = h1.blk[first].nextfree
            /\ h2.blk[first].prevfree = m
        BY <1>2, <1>4, <3>1, PrevfreeIs
      <3>3. LinksOnly(h1, h2, F)
        BY <1>1, <2>1, <3>2, LinksGrow
      <3> QED
        BY <1>1, <1>5, <3>2, <3>3 DEF LinksOnly
    <2>2. CASE first = NULL
      BY <1>1, <1>4, <2>2, LinksNone
    <2> QED
      BY <2>1, <2>2
  <1>6a. h2.blk[m] = h1.blk[m] /\ DOMAIN h2.blk = DOMAIN h1.blk
    BY <1>1, <1>5, <1>6 DEF LinksOnly
  <1> HIDE DEF h2
  <1>7. /\ IsHeap(h3) /\ LinksOnly(h2, h3, {m}) /\ h3.freehdrs = h2.freehdrs
        /\ h3.blk[m].nextfree = h2.blk[m].nextfree /\ h3.blk[m].prevfree = NONE
    <2>1. IsHeap(h3)
      BY <1>2, <1>5, <1>6, <1>6a, PrevfreeIs
    <2>2. LinksOnly(h2, h3, {m})
      BY <1>2, <1>5, <1>6, <1>6a, <2>1, PrevfreeIs
    <2>3. h3.freehdrs = h2.freehdrs
      BY <1>2, <1>5, <1>6, <1>6a, <2>1, <2>2, PrevfreeIs
    <2>4. h3.blk[m].nextfree = h2.blk[m].nextfree
      BY <1>2, <1>5, <1>6, <1>6a, <2>1, <2>2, <2>3, PrevfreeIs
    <2>5. h3.blk[m].prevfree = NONE
      BY <1>2, <1>5, <1>6, <1>6a, <2>1, <2>2, <2>3, <2>4, PrevfreeIs
    <2> QED
      BY <2>1, <2>2, <2>3, <2>4, <2>5
  <1>7a. \A a \in F : h3.blk[a] = h2.blk[a]
    BY <1>1, <1>5, <1>6a, <1>7 DEF LinksOnly
  <1> HIDE DEF h3
  <1>8. /\ IsHeap(n) /\ LinksOnly(h3, n, {}) /\ n.blk = h3.blk
        /\ \A c \in Lists : n.freehdrs[c] = IF c = b THEN m ELSE h3.freehdrs[c]
    BY <1>1, <1>7, HeaderIs
  <1> HIDE DEF n
  <1>9. LinksOnly(h, h2, F \cup {m})
    BY <1>4, <1>6, LinksAdd
  <1>10. LinksOnly(h2, n, F \cup {m})
    BY <1>7, <1>8, LinksAdd
  <1>11. LinksOnly(h, n, F \cup {m})
    BY <1>9, <1>10, LinksAdd
  <1> QED
    BY <1>1, <1>3, <1>4, <1>5, <1>6, <1>6a, <1>7, <1>7a, <1>8, <1>11 DEF Pushed, b, first

\* The lists are sound with m.
LEMMA PushedLists ==
  ASSUME NEW h, NEW n, NEW F, IsHeap(h), Chained(h), Linked(h, F), Ranked(h, F),
         NEW m \in DOMAIN h.blk \ F, Pushed(h, n, F, m)
  PROVE  Linked(n, F \cup {m}) /\ Ranked(n, F \cup {m})
  <1> DEFINE b == Bucket(h, m)
             first == h.freehdrs[b]
             G == F \cup {m}
  <1>0. PICK N \in Nat : \E r \in [F -> 0..N] : Falls(h, F, r)
    BY DEF Ranked
  <1>1. PICK r \in [F -> 0..N] : Falls(h, F, r)
    BY <1>0
  <1>2. /\ G \subseteq DOMAIN h.blk /\ G \subseteq DOMAIN n.blk
        /\ \A a \in G : Bucket(n, a) = Bucket(h, a) /\ a # NONE /\ a # NULL
        /\ \A a \in G : Bucket(h, a) \in Lists
    <2>1. G \subseteq DOMAIN h.blk /\ G \subseteq Addr
      BY DEF Linked, IsHeap
    <2>2. DOMAIN n.blk = DOMAIN h.blk /\ \A a \in DOMAIN h.blk : n.blk[a].sz = h.blk[a].sz
      BY DEF Pushed, LinksOnly
    <2>3. \A a \in G : Bucket(n, a) = Bucket(h, a)
      BY <2>1, <2>2 DEF Bucket
    <2>4. \A a \in G : a # NONE /\ a # NULL
      BY <2>1, Addresses
    <2>5. \A a \in G : Bucket(h, a) \in Lists
      BY <2>1, BucketInRange
    <2> QED
      BY <2>1, <2>2, <2>3, <2>4, <2>5
  <1>3. first \in F \cup {NULL} /\ (first # NULL => Bucket(h, first) = b
                                                   /\ h.blk[first].prevfree = NONE)
    BY <1>2 DEF Linked
  <1>4. /\ n.blk[m].nextfree = IF first = NULL THEN NONE ELSE first
        /\ n.blk[m].prevfree = NONE
        /\ \A a \in F : /\ n.blk[a].nextfree = h.blk[a].nextfree
                        /\ n.blk[a].prevfree = IF a = first THEN m ELSE h.blk[a].prevfree
        /\ \A c \in Lists : n.freehdrs[c] = IF c = b THEN m ELSE h.freehdrs[c]
    BY DEF Pushed
  <1>5. \A a \in F : InList(h, F, a)
    BY DEF Linked
  <1> HIDE DEF b, first
  <1>6. InList(n, G, m)
    <2>1. n.blk[m].nextfree \in G \cup {NONE}
      BY <1>3, <1>4
    <2>2. n.blk[m].nextfree # NONE => n.blk[n.blk[m].nextfree].prevfree = m
                                      /\ Bucket(n, n.blk[m].nextfree) = Bucket(n, m)
      BY <1>2, <1>3, <1>4 DEF b
    <2>3. n.freehdrs[Bucket(n, m)] = m
      BY <1>2, <1>4 DEF b
    <2> QED
      BY <1>4, <2>1, <2>2, <2>3 DEF InList
  <1>7. ASSUME NEW a \in F
        PROVE  InList(n, G, a)
    <2>0. /\ InList(h, F, a) /\ Bucket(h, a) \in Lists /\ a # m /\ a # NULL
          /\ n.blk[a].nextfree = h.blk[a].nextfree
          /\ n.blk[a].prevfree = IF a = first THEN m ELSE h.blk[a].prevfree
      BY <1>2, <1>4, <1>5
    <2>1. /\ n.blk[a].nextfree \in G \cup {NONE}
          /\ n.blk[a].nextfree # NONE =>
               /\ n.blk[n.blk[a].nextfree].prevfree = a
               /\ Bucket(n, n.blk[a].nextfree) = Bucket(n, a)
      <3> DEFINE x == h.blk[a].nextfree
      <3>1. x \in F \cup {NONE}
            /\ (x # NONE => h.blk[x].prevfree = a /\ Bucket(h, x) = Bucket(h, a))
        BY <2>0 DEF InList
      <3> HIDE DEF x
      <3>2. x # NONE => x # first
        BY <1>2, <1>3, <3>1
      <3>3. x # NONE => n.blk[x].prevfree = a /\ Bucket(n, x) = Bucket(n, a)
        BY <1>2, <1>4, <3>1, <3>2
      <3> QED
        BY <2>0, <3>1, <3>3 DEF x
    <2>2. /\ n.blk[a].prevfree \in G \cup {NONE}
          /\ n.blk[a].prevfree # NONE => n.blk[n.blk[a].prevfree].nextfree = a
          /\ n.blk[a].prevfree = NONE => n.freehdrs[Bucket(n, a)] = a
      <3>1. CASE a = first
        <4>1. n.blk[a].prevfree = m /\ n.blk[m].nextfree = a /\ m # NONE
          BY <1>2, <1>4, <2>0, <3>1
        <4> QED
          BY <4>1
      <3>2. CASE a # first
        <4> DEFINE y == h.blk[a].prevfree
        <4>1. /\ y \in F \cup {NONE} /\ n.blk[a].prevfree = y
              /\ y # NONE => h.blk[y].nextfree = a
              /\ y = NONE => h.freehdrs[Bucket(h, a)] = a
          BY <2>0, <3>2 DEF InList
        <4> HIDE DEF y
        <4>2. y = NONE => n.freehdrs[Bucket(n, a)] = a
          <5>1. y = NONE => Bucket(h, a) # b
            BY <3>2, <4>1 DEF first
          <5> QED
            BY <1>2, <1>4, <2>0, <4>1, <5>1
        <4> QED
          BY <1>4, <4>1, <4>2
      <3> QED
        BY <3>1, <3>2
    <2> QED
      BY <2>1, <2>2 DEF InList
  <1>8. ASSUME NEW c \in Lists, n.freehdrs[c] # NULL
        PROVE  /\ n.freehdrs[c] \in G /\ Bucket(n, n.freehdrs[c]) = c
               /\ n.blk[n.freehdrs[c]].prevfree = NONE
    <2>1. CASE c = b
      BY <1>2, <1>4, <2>1 DEF b
    <2>2. CASE c # b
      <3> DEFINE x == h.freehdrs[c]
      <3>1. n.freehdrs[c] = x /\ x \in F /\ Bucket(h, x) = c /\ h.blk[x].prevfree = NONE
        BY <1>4, <1>8, <2>2 DEF Linked
      <3> HIDE DEF x
      <3>2. x # first
        BY <1>2, <1>3, <2>2, <3>1
      <3> QED
        BY <1>2, <1>4, <3>1, <3>2
    <2> QED
      BY <2>1, <2>2
  <1>9. Linked(n, G)
    BY <1>2, <1>6, <1>7, <1>8 DEF Linked
  <1>10. Ranked(n, G)
    <2> DEFINE s == [a \in G |-> IF a = m THEN N + 1 ELSE r[a]]
    <2>1. s \in [G -> 0..(N + 1)] /\ N + 1 \in Nat
      OBVIOUS
    <2>2. ASSUME NEW a \in G, n.blk[a].nextfree # NONE
          PROVE  s[n.blk[a].nextfree] < s[a]
      <3>1. CASE a = m
        <4>1. n.blk[a].nextfree = first /\ first \in F
          BY <1>3, <1>4, <2>2, <3>1
        <4> QED
          BY <3>1, <4>1
      <3>2. CASE a # m
        <4>1. n.blk[a].nextfree = h.blk[a].nextfree /\ h.blk[a].nextfree \in F
          BY <1>4, <1>5, <2>2, <3>2 DEF InList
        <4> QED
          BY <1>1, <2>2, <3>2, <4>1 DEF Falls
      <3> QED
        BY <3>1, <3>2
    <2>3. Falls(n, G, s)
      BY <2>2 DEF Falls
    <2> HIDE DEF s
    <2> QED
      BY <2>1, <2>3 DEF Ranked
  <1> QED
    BY <1>9, <1>10

-----------------------------------------------------------------------------
(* Blocks that are combined and split.                                     *)

\* n is h with block c, the upper neighbour of m, taken over by m.
AbsorbOf(h, n, m, c) ==
  /\ IsHeap(n) /\ SameRest(h, n) /\ n.freehdrs = h.freehdrs
  /\ DOMAIN n.blk = DOMAIN h.blk \ {c}
  /\ n.blk[m].next = h.blk[c].next /\ n.blk[m].prev = h.blk[m].prev
  /\ n.blk[m].sz = h.blk[m].sz + h.blk[c].sz
  /\ \A a \in DOMAIN h.blk \ {c} :
       /\ n.blk[a].nextfree = h.blk[a].nextfree /\ n.blk[a].prevfree = h.blk[a].prevfree
       /\ n.blk[a].data = h.blk[a].data
       /\ a # m => /\ n.blk[a].next = h.blk[a].next /\ n.blk[a].sz = h.blk[a].sz
                   /\ n.blk[a].prev = IF a = h.blk[c].next THEN m ELSE h.blk[a].prev

\* Where a block and its upper neighbour lie.
LEMMA UpperIs ==
  ASSUME NEW h, IsHeap(h), Chained(h), NEW m \in DOMAIN h.blk, h.blk[m].next # NULL
  PROVE  LET c == h.blk[m].next
             up == h.blk[c].next
         IN  /\ c \in DOMAIN h.blk /\ c = m + h.blk[m].sz /\ h.blk[c].prev = m
             /\ m < c /\ m # NULL /\ c # NULL
             /\ up # NULL => /\ up \in DOMAIN h.blk /\ h.blk[up].prev = c
                             /\ up = c + h.blk[c].sz /\ up # m /\ up # c
             /\ h.blk[m].prev # c
  <1> DEFINE c == h.blk[m].next
             up == h.blk[c].next
  <1>1. /\ \A a \in DOMAIN h.blk : a \in Nat /\ a # NULL /\ h.blk[a].sz \in Nat
        /\ \A a \in DOMAIN h.blk : Placed(h, a)
        /\ DATAOFFSET \in Nat \ {0}
    BY Addresses, Constants DEF IsHeap, Chained, Block
  <1>2. c \in DOMAIN h.blk /\ c = m + h.blk[m].sz /\ h.blk[c].prev = m
    BY <1>1 DEF Placed
  <1>3. m < c
    BY <1>1, <1>2 DEF Placed
  <1>4. up # NULL => up \in DOMAIN h.blk /\ h.blk[up].prev = c /\ up = c + h.blk[c].sz
    BY <1>1, <1>2 DEF Placed
  <1> HIDE DEF c, up
  <1>5. c < c + h.blk[c].sz
    BY <1>1, <1>2 DEF Placed
  <1>6. h.blk[m].prev # c
    <2>1. SUFFICES ASSUME h.blk[m].prev = c PROVE FALSE
      OBVIOUS
    <2>2. h.blk[c].next = m /\ m # NULL
      BY <1>1, <1>2, <2>1 DEF Placed
    <2>3. m = c + h.blk[c].sz
      BY <1>1, <1>2, <2>2 DEF Placed
    <2>4. m \in Nat /\ c \in Nat /\ h.blk[c].sz \in Nat
      BY <1>1, <1>2
    <2> QED
      BY <1>3, <1>5, <2>3, <2>4
  <1> QED
    BY <1>1, <1>2, <1>3, <1>4, <1>5, <1>6 DEF c, up

LEMMA AbsorbIs ==
  ASSUME NEW h, IsHeap(h), Chained(h), NEW m \in DOMAIN h.blk, NEW c, c = h.blk[m].next,
         c # NULL
  PROVE  AbsorbOf(h, Absorb(h, m, c), m, c) /\ Absorb(h, m, c).lastsbrk = h.lastsbrk
  <1> DEFINE up == h.blk[c].next
             s == h.blk[m].sz + h.blk[c].sz
             h1 == [h EXCEPT !.blk[m].next = up, !.blk[m].sz = @ + h.blk[c].sz]
             h2 == IF up # NULL THEN [h1 EXCEPT !.blk[up].prev = m] ELSE h1
             n == [h2 EXCEPT !.blk = [a \in DOMAIN h2.blk \ {c} |-> h2.blk[a]]]
  <1>1. /\ c \in DOMAIN h.blk /\ m # c
        /\ up # NULL => up \in DOMAIN h.blk /\ up # m /\ up # c
    BY UpperIs
  <1>2. n = Absorb(h, m, c)
    BY DEF Absorb, Remove
  <1>3. h.blk[m] \in Block /\ h.blk[c] \in Block /\ up \in Link /\ m \in Link /\ s \in Nat
    <2>1. h.blk[m] \in Block
      BY <1>1 DEF IsHeap, Block, Link
    <2>2. h.blk[c] \in Block
      BY <1>1, <2>1 DEF IsHeap, Block, Link
    <2>3. up \in Link
      BY <1>1, <2>1, <2>2 DEF IsHeap, Block, Link
    <2>4. m \in Link
      BY <1>1, <2>1, <2>2, <2>3 DEF IsHeap, Block, Link
    <2>5. s \in Nat
      BY <1>1, <2>1, <2>2, <2>3, <2>4, SMTT(60) DEF IsHeap, Block, Link
    <2> QED
      BY <2>1, <2>2, <2>3, <2>4, <2>5
  <1> HIDE DEF up
  <1>4. /\ h1.blk = [h.blk EXCEPT ![m].next = up, ![m].sz = s]
        /\ h1.freehdrs = h.freehdrs /\ h1.lastsbrk = h.lastsbrk /\ SameRest(h, h1)
        /\ h1 = [x \in Parts |-> h1[x]]
    BY DEF IsHeap, Parts, SameRest
  <1> HIDE DEF h1, s
  <1>5. /\ DOMAIN h1.blk = DOMAIN h.blk
        /\ \A a \in DOMAIN h.blk : a # m => h1.blk[a] = h.blk[a]
        /\ h1.blk[m] = [h.blk[m] EXCEPT !.next = up, !.sz = s]
    BY <1>4 DEF IsHeap
  <1>6. /\ h2.blk = IF up # NULL THEN [h1.blk EXCEPT ![up].prev = m] ELSE h1.blk
        /\ h2.freehdrs = h.freehdrs /\ h2.lastsbrk = h.lastsbrk /\ SameRest(h, h2)
        /\ h2 = [x \in Parts |-> h2[x]]
    BY <1>4 DEF Parts, SameRest
  <1> HIDE DEF h2
  <1>7. /\ DOMAIN h2.blk = DOMAIN h.blk
        /\ \A a \in DOMAIN h.blk : a # m /\ a # up => h2.blk[a] = h.blk[a]
        /\ h2.blk[m] = [h.blk[m] EXCEPT !.next = up, !.sz = s]
        /\ up # NULL => h2.blk[up] = [h.blk[up] EXCEPT !.prev = m]
    BY <1>1, <1>5, <1>6
  <1>8. /\ n.blk = [a \in DOMAIN h.blk \ {c} |-> h2.blk[a]]
        /\ n.freehdrs = h.freehdrs /\ n.lastsbrk = h.lastsbrk /\ SameRest(h, n)
        /\ n = [x \in Parts |-> n[x]]
    BY <1>6, <1>7 DEF Parts, SameRest
  <1> HIDE DEF n
  <1>9. /\ DOMAIN n.blk = DOMAIN h.blk \ {c}
        /\ \A a \in DOMAIN h.blk \ {c} : a # m /\ a # up => n.blk[a] = h.blk[a]
        /\ n.blk[m] = [h.blk[m] EXCEPT !.next = up, !.sz = s]
        /\ up # NULL => n.blk[up] = [h.blk[up] EXCEPT !.prev = m]
        /\ n.blk = [a \in DOMAIN n.blk |-> n.blk[a]]
    BY <1>1, <1>7, <1>8
  <1>10. /\ n.blk[m] \in Block /\ n.blk[m].next = up /\ n.blk[m].prev = h.blk[m].prev
         /\ n.blk[m].sz = s /\ n.blk[m].nextfree = h.blk[m].nextfree
         /\ n.blk[m].prevfree = h.blk[m].prevfree /\ n.blk[m].data = h.blk[m].data
    BY <1>3, <1>9 DEF Block
  <1>11. up # NULL =>
           /\ n.blk[up] \in Block /\ n.blk[up].next = h.blk[up].next /\ n.blk[up].prev = m
           /\ n.blk[up].sz = h.blk[up].sz /\ n.blk[up].nextfree = h.blk[up].nextfree
           /\ n.blk[up].prevfree = h.blk[up].prevfree /\ n.blk[up].data = h.blk[up].data
    <2>1. up # NULL => h.blk[up] \in Block
      BY <1>1 DEF IsHeap
    <2> QED
      BY <1>3, <1>9, <2>1 DEF Block
  <1>12. \A a \in DOMAIN h.blk : a # NULL /\ a \in Addr
    BY Addresses DEF IsHeap
  <1>13. \A a \in DOMAIN n.blk : n.blk[a] \in Block
    BY <1>1, <1>9, <1>10, <1>11, <1>12 DEF IsHeap
  <1>14. IsHeap(n)
    BY <1>8, <1>9, <1>12, <1>13 DEF IsHeap, SameRest
  <1>15. AbsorbOf(h, n, m, c)
    BY <1>1, <1>8, <1>9, <1>10, <1>11, <1>12, <1>14, ZenonT(60) DEF AbsorbOf, up, s
  <1> QED
    BY <1>2, <1>8, <1>15

\* The bases of the chains.
BasesOf(h) == {a \in DOMAIN h.blk : h.blk[a].prev = NULL}

LEMMA AbsorbChained ==
  ASSUME NEW h, NEW n, IsHeap(h), Chained(h), NEW m \in DOMAIN h.blk,
         NEW c, c = h.blk[m].next, c # NULL, AbsorbOf(h, n, m, c)
  PROVE  Chained(n) /\ BasesOf(n) = BasesOf(h)
  <1> DEFINE up == h.blk[c].next
  <1>1. /\ c \in DOMAIN h.blk /\ c = m + h.blk[m].sz /\ h.blk[c].prev = m
        /\ m < c /\ m # NULL /\ c # NULL
        /\ up # NULL => /\ up \in DOMAIN h.blk /\ h.blk[up].prev = c
                        /\ up = c + h.blk[c].sz /\ up # m /\ up # c
        /\ h.blk[m].prev # c
    BY UpperIs
  <1>2. /\ \A a \in DOMAIN h.blk : a \in Nat /\ a # NULL /\ h.blk[a].sz \in Nat
        /\ \A a \in DOMAIN h.blk : Placed(h, a)
        /\ DATAOFFSET \in Nat \ {0} /\ h.brk \in Nat
        /\ h.taken \subseteq Nat
    <2>1. \A a \in DOMAIN h.blk : a \in Nat /\ a # NULL /\ h.blk[a].sz \in Nat
      BY Addresses, Constants DEF IsHeap, Chained, Block
    <2>2. \A a \in DOMAIN h.blk : Placed(h, a)
      BY <2>1, Addresses, Constants DEF IsHeap, Chained, Block
    <2>3. DATAOFFSET \in Nat \ {0}
      BY <2>1, <2>2, Addresses, Constants DEF IsHeap, Chained, Block
    <2>4. h.brk \in Nat
      BY <2>1, <2>2, <2>3, Addresses, Constants DEF IsHeap, Chained, Block
    <2>5. h.taken \subseteq Nat
      BY <2>1, <2>2, <2>3, <2>4, Addresses, Constants DEF IsHeap, Chained, Block
    <2> QED
      BY <2>1, <2>2, <2>3, <2>4, <2>5
  <1>3. /\ n.brk = h.brk /\ n.taken = h.taken /\ DOMAIN n.blk = DOMAIN h.blk \ {c}
        /\ n.blk[m].next = up /\ n.blk[m].prev = h.blk[m].prev
        /\ n.blk[m].sz = h.blk[m].sz + h.blk[c].sz
        /\ \A a \in DOMAIN h.blk \ {c} : a # m =>
             /\ n.blk[a].next = h.blk[a].next /\ n.blk[a].sz = h.blk[a].sz
             /\ n.blk[a].prev = IF a = up THEN m ELSE h.blk[a].prev
    BY DEF AbsorbOf, SameRest
  <1> HIDE DEF up
  <1>4. Placed(n, m)
    <2>1. Placed(h, m) /\ Placed(h, c)
      BY <1>1, <1>2
    <2>2. Aligned(m) /\ DATAOFFSET <= n.blk[m].sz /\ m + n.blk[m].sz <= n.brk
      <3>1. Aligned(m) /\ DATAOFFSET <= h.blk[m].sz
        BY <2>1 DEF Placed
      <3>2. c = m + h.blk[m].sz /\ c + h.blk[c].sz <= h.brk
        BY <1>1, <2>1 DEF Placed
      <3>3. m \in Nat /\ h.blk[m].sz \in Nat /\ h.blk[c].sz \in Nat /\ h.brk \in Nat
        BY <1>1, <1>2
      <3>4. DATAOFFSET \in Nat
        BY <1>2
      <3>5. DATAOFFSET <= n.blk[m].sz
        BY <1>3, <3>1, <3>3, <3>4
      <3>6. m + n.blk[m].sz <= n.brk
        BY <1>3, <3>2, <3>3
      <3> QED
        BY <3>1, <3>5, <3>6
    <2>3. n.blk[m].next # NULL => /\ n.blk[m].next = m + n.blk[m].sz
                                  /\ n.blk[m].next \in DOMAIN n.blk
                                  /\ n.blk[n.blk[m].next].prev = m
      BY <1>1, <1>2, <1>3
    <2>4. n.blk[m].prev # NULL => /\ n.blk[m].prev \in DOMAIN n.blk
                                  /\ n.blk[n.blk[m].prev].next = m
      <3> DEFINE p == h.blk[m].prev
      <3>1. p # NULL => p \in DOMAIN h.blk /\ h.blk[p].next = m /\ p # c
        BY <1>1, <2>1 DEF Placed
      <3>2. p # NULL => p # m
        BY <1>1, <3>1
      <3> HIDE DEF p
      <3>3. p # NULL => n.blk[p].next = m
        BY <1>3, <3>1, <3>2
      <3> QED
        BY <1>3, <3>1, <3>3 DEF p
    <2>5. ASSUME NEW d \in DOMAIN n.blk, d > m
          PROVE  m + n.blk[m].sz <= d
      <3>1. d \in DOMAIN h.blk /\ d # c /\ c <= d
        BY <1>1, <1>3, <2>1, <2>5 DEF Placed
      <3>2. c + h.blk[c].sz <= d
        BY <1>1, <1>2, <2>1, <3>1, SMTT(60) DEF Placed
      <3> QED
        BY <1>1, <1>2, <1>3, <3>1, <3>2
    <2>6. ASSUME NEW t \in n.taken
          PROVE  t < m \/ m + n.blk[m].sz <= t
      <3>1. (t < m \/ m + h.blk[m].sz <= t) /\ (t < c \/ c + h.blk[c].sz <= t)
        BY <1>3, <2>1 DEF Placed
      <3>2. t \in Nat
        BY <1>2, <1>3
      <3> QED
        BY <1>1, <1>2, <1>3, <3>1, <3>2
    <2> QED
      BY <2>2, <2>3, <2>4, <2>5, <2>6 DEF Placed
  <1>5. ASSUME NEW a \in DOMAIN n.blk, a # m
        PROVE  Placed(n, a)
    <2>1. a \in DOMAIN h.blk /\ a # c /\ Placed(h, a) /\ a # NULL
      BY <1>2, <1>3
    <2>2. /\ n.blk[a].next = h.blk[a].next /\ n.blk[a].sz = h.blk[a].sz
          /\ n.blk[a].prev = IF a = up THEN m ELSE h.blk[a].prev
      BY <1>3, <1>5, <2>1
    <2>3. n.blk[a].next # NULL => /\ n.blk[a].next = a + n.blk[a].sz
                                  /\ n.blk[a].next \in DOMAIN n.blk
                                  /\ n.blk[n.blk[a].next].prev = a
      <3> DEFINE x == h.blk[a].next
      <3>1. x # NULL => x \in DOMAIN h.blk /\ h.blk[x].prev = a /\ x = a + h.blk[a].sz
        BY <2>1 DEF Placed
      <3>2. x # NULL => x # c /\ x # up
        BY <1>1, <1>5, <2>1, <3>1
      <3> HIDE DEF x
      <3>3. x # NULL => n.blk[x].prev = a
        BY <1>3, <3>1, <3>2
      <3> QED
        BY <1>3, <2>2, <3>1, <3>2, <3>3 DEF x
    <2>4. n.blk[a].prev # NULL => /\ n.blk[a].prev \in DOMAIN n.blk
                                  /\ n.blk[n.blk[a].prev].next = a
      <3>1. CASE a = up
        <4>1. n.blk[a].prev = m /\ n.blk[m].next = a /\ m \in DOMAIN n.blk
          BY <1>1, <1>3, <2>2, <3>1
        <4> QED
          BY <4>1
      <3>2. CASE a # up
        <4> DEFINE y == h.blk[a].prev
        <4>1. y # NULL => y \in DOMAIN h.blk /\ h.blk[y].next = a
          BY <2>1 DEF Placed
        <4>2. y # NULL => y # c /\ y # m
          BY <2>1, <3>2, <4>1 DEF up
        <4> HIDE DEF y
        <4>3. y # NULL => n.blk[y].next = a
          BY <1>3, <4>1, <4>2
        <4> QED
          BY <1>3, <2>2, <3>2, <4>1, <4>2, <4>3 DEF y
      <3> QED
        BY <3>1, <3>2
    <2> QED
      BY <1>3, <2>1, <2>2, <2>3, <2>4 DEF Placed
  <1>6. Chained(n)
    BY <1>3, <1>4, <1>5 DEF Chained
  <1>7. BasesOf(n) = BasesOf(h)
    <2>1. ASSUME NEW a \in DOMAIN n.blk
          PROVE  n.blk[a].prev = NULL <=> h.blk[a].prev = NULL
      <3>1. a \in DOMAIN h.blk \ {c} /\ a # NULL
        BY <1>2, <1>3
      <3>2. CASE a = m
        BY <1>3, <3>2
      <3>3. CASE a # m /\ a = up
        BY <1>1, <1>3, <3>1, <3>3
      <3>4. CASE a # m /\ a # up
        BY <1>3, <3>1, <3>4
      <3> QED
        BY <3>2, <3>3, <3>4
    <2> QED
      BY <1>1, <1>3, <2>1 DEF BasesOf
  <1> QED
    BY <1>6, <1>7

\* The lists do not change when their blocks' fields do not.
LEMMA KeptLists ==
  ASSUME NEW h, NEW n, NEW F, Linked(h, F), Ranked(h, F),
         n.freehdrs = h.freehdrs, F \subseteq DOMAIN n.blk,
         \A a \in F : /\ n.blk[a].nextfree = h.blk[a].nextfree
                      /\ n.blk[a].prevfree = h.blk[a].prevfree
                      /\ n.blk[a].sz = h.blk[a].sz
  PROVE  Linked(n, F) /\ Ranked(n, F)
  <1>1. \A a \in F : Bucket(n, a) = Bucket(h, a)
    BY DEF Bucket
  <1>2. ASSUME NEW a \in F
        PROVE  InList(n, F, a)
    <2>1. InList(h, F, a)
      BY DEF Linked
    <2> QED
      BY <1>1, <2>1 DEF InList
  <1>3. ASSUME NEW b \in Lists, n.freehdrs[b] # NULL
        PROVE  /\ n.freehdrs[b] \in F /\ Bucket(n, n.freehdrs[b]) = b
               /\ n.blk[n.freehdrs[b]].prevfree = NONE
    BY <1>1, <1>3 DEF Linked
  <1>4. Linked(n, F)
    BY <1>2, <1>3 DEF Linked
  <1>5. ASSUME NEW r, Falls(h, F, r)
        PROVE  Falls(n, F, r)
    BY <1>5 DEF Falls
  <1>6. Ranked(n, F)
    BY <1>5 DEF Ranked
  <1> QED
    BY <1>4, <1>6

\* n is h with the portion of m above its first s bytes made a block.
SplitOf(h, n, m, s) ==
  /\ IsHeap(n) /\ SameRest(h, n) /\ n.freehdrs = h.freehdrs
  /\ DOMAIN n.blk = DOMAIN h.blk \cup {m + s}
  /\ n.blk[m + s].prev = m /\ n.blk[m + s].next = h.blk[m].next
  /\ n.blk[m + s].sz = h.blk[m].sz - s /\ n.blk[m + s].nextfree = h.blk[m].nextfree
  /\ n.blk[m].next = m + s /\ n.blk[m].prev = h.blk[m].prev /\ n.blk[m].sz = s
  /\ n.blk[m].nextfree = NULL /\ n.blk[m].data = h.blk[m].data
  /\ \A a \in DOMAIN h.blk \ {m} :
       /\ n.blk[a].nextfree = h.blk[a].nextfree /\ n.blk[a].prevfree = h.blk[a].prevfree
       /\ n.blk[a].next = h.blk[a].next /\ n.blk[a].sz = h.blk[a].sz
       /\ n.blk[a].prev = IF a = h.blk[m].next THEN m + s ELSE h.blk[a].prev
       /\ n.blk[a].data = h.blk[a].data

\* s bytes can be cut from m.
CanSplit(h, m, s) ==
  m \in DOMAIN h.blk /\ s \in Nat /\ Aligned(s) /\ DATAOFFSET <= s /\ s + DATAOFFSET <= h.blk[m].sz

LEMMA SplitPlace ==
  ASSUME NEW h, IsHeap(h), Chained(h), NEW m, NEW s, CanSplit(h, m, s)
  PROVE  /\ m + s \in Addr /\ m + s \notin DOMAIN h.blk /\ m < m + s
         /\ h.blk[m].next # m
         /\ h.blk[m].next # NULL =>
              /\ h.blk[m].next \in DOMAIN h.blk /\ h.blk[m].next = m + h.blk[m].sz
              /\ h.blk[h.blk[m].next].prev = m
  <1>1. /\ \A a \in DOMAIN h.blk : a \in Nat /\ a # NULL /\ h.blk[a].sz \in Nat
        /\ \A a \in DOMAIN h.blk : Placed(h, a)
        /\ DATAOFFSET \in Nat \ {0} /\ h.brk \in START..LIMIT /\ START \in Nat /\ LIMIT \in Nat
        /\ m \in DOMAIN h.blk /\ m \in Addr
    BY Addresses, Constants DEF IsHeap, Chained, Block, CanSplit
  <1>2. m + h.blk[m].sz <= h.brk /\ s \in Nat /\ s # 0 /\ s < h.blk[m].sz
    BY <1>1 DEF Placed, CanSplit
  <1>3. m + s \in Addr /\ m < m + s
    BY <1>1, <1>2 DEF Addr
  <1>4. m + s \notin DOMAIN h.blk
    <2>1. ASSUME NEW c \in DOMAIN h.blk, c > m
          PROVE  m + h.blk[m].sz <= c
      BY <1>1, <2>1 DEF Placed
    <2> QED
      BY <1>1, <1>2, <1>3, <2>1
  <1>5. h.blk[m].next # NULL =>
              /\ h.blk[m].next \in DOMAIN h.blk /\ h.blk[m].next = m + h.blk[m].sz
              /\ h.blk[h.blk[m].next].prev = m
    BY <1>1 DEF Placed
  <1>6. h.blk[m].next # m
    BY <1>1, <1>2, <1>5
  <1> QED
    BY <1>3, <1>4, <1>5, <1>6

LEMMA SplitIs ==
  ASSUME NEW h, IsHeap(h), Chained(h), NEW m, NEW s, CanSplit(h, m, s)
  PROVE  SplitOf(h, split(h, m, s), m, s) /\ split(h, m, s).lastsbrk = h.lastsbrk
  <1> DEFINE m1 == m + s
             up == h.blk[m].next
             t == h.blk[m].sz - s
             hi == [h.blk[m] EXCEPT !.prev = m, !.sz = @ - s, !.prevfree = NULL,
                                    !.data = "junk"]
             lo == [h EXCEPT !.blk[m].next = m1, !.blk[m].sz = s, !.blk[m].nextfree = NULL]
             h1 == [lo EXCEPT !.blk = [a \in DOMAIN lo.blk \cup {m1} |->
                                         IF a = m1 THEN hi ELSE lo.blk[a]]]
             n == IF up = NULL THEN h1 ELSE [h1 EXCEPT !.blk[up].prev = m1]
  <1>1. /\ m1 \in Addr /\ m1 \notin DOMAIN h.blk /\ m # m1 /\ up # m
        /\ up # NULL => up \in DOMAIN h.blk /\ h.blk[up].prev = m
        /\ m \in DOMAIN h.blk /\ m \in Addr
    <2>1. m1 \in Addr
      BY SplitPlace DEF CanSplit, IsHeap
    <2>2. m1 \notin DOMAIN h.blk
      BY <2>1, SplitPlace DEF CanSplit, IsHeap
    <2>3. m # m1
      BY <2>1, <2>2, SplitPlace DEF CanSplit, IsHeap
    <2>4. up # m
      BY <2>1, <2>2, <2>3, SplitPlace DEF CanSplit, IsHeap
    <2>5. up # NULL => up \in DOMAIN h.blk /\ h.blk[up].prev = m
      BY <2>1, <2>2, <2>3, <2>4, SplitPlace, ZenonT(60) DEF CanSplit, IsHeap
    <2>6. m \in DOMAIN h.blk
      BY <2>1, <2>2, <2>3, <2>4, <2>5, SplitPlace DEF CanSplit, IsHeap
    <2>7. m \in Addr
      BY <2>1, <2>2, <2>3, <2>4, <2>5, <2>6, SplitPlace DEF CanSplit, IsHeap
    <2> QED
      BY <2>1, <2>2, <2>3, <2>4, <2>5, <2>6, <2>7
  <1>2. h.blk[m] \in Block /\ NULL \in Link /\ m \in Link /\ m1 \in Link /\ s \in Nat /\ t \in Nat
    <2>1. h.blk[m] \in Block /\ h.blk[m].sz \in Nat /\ s \in Nat
      BY <1>1 DEF IsHeap, Block, CanSplit
    <2>2. t \in Nat
      BY <2>1, Constants DEF CanSplit
    <2> QED
      BY <1>1, <2>1, <2>2 DEF Link, NoAddr
  <1>3. n = split(h, m, s)
    <2>0. h.blk[m].sz \in Nat /\ s \in Nat /\ DATAOFFSET \in Nat
      BY <1>2, Constants DEF Block
    <2>1. ~(h.blk[m].sz < s + DATAOFFSET)
      BY <2>0 DEF CanSplit
    <2> QED
      BY <1>1, <2>1 DEF split, Add
  <1>4. /\ hi \in Block /\ hi.prev = m /\ hi.next = h.blk[m].next /\ hi.sz = t
        /\ hi.nextfree = h.blk[m].nextfree
    BY <1>2 DEF Block
  <1> HIDE DEF hi, m1, up, t
  <1>5. /\ lo.blk = [h.blk EXCEPT ![m].next = m1, ![m].sz = s, ![m].nextfree = NULL]
        /\ lo.freehdrs = h.freehdrs /\ lo.lastsbrk = h.lastsbrk /\ SameRest(h, lo)
        /\ lo = [x \in Parts |-> lo[x]]
    <2>1. lo.blk = [h.blk EXCEPT ![m].next = m1, ![m].sz = s, ![m].nextfree = NULL]
      BY DEF IsHeap, Parts, SameRest
    <2>2. lo.freehdrs = h.freehdrs
      BY <2>1 DEF IsHeap, Parts, SameRest
    <2>3. lo.lastsbrk = h.lastsbrk
      BY <2>1, <2>2 DEF IsHeap, Parts, SameRest
    <2>4. SameRest(h, lo)
      BY <2>1, <2>2, <2>3 DEF IsHeap, Parts, SameRest
    <2>5. lo = [x \in Parts |-> lo[x]]
      BY <2>1, <2>2, <2>3, <2>4 DEF IsHeap, Parts, SameRest
    <2> QED
      BY <2>1, <2>2, <2>3, <2>4, <2>5
  <1> HIDE DEF lo
  <1>6. /\ DOMAIN lo.blk = DOMAIN h.blk
        /\ \A a \in DOMAIN h.blk : a # m => lo.blk[a] = h.blk[a]
        /\ lo.blk[m] = [h.blk[m] EXCEPT !.next = m1, !.sz = s, !.nextfree = NULL]
    BY <1>1, <1>5 DEF IsHeap
  <1>7. /\ lo.blk[m] \in Block /\ lo.blk[m].next = m1 /\ lo.blk[m].prev = h.blk[m].prev
        /\ lo.blk[m].sz = s /\ lo.blk[m].nextfree = NULL /\ lo.blk[m].data = h.blk[m].data
    BY <1>2, <1>6 DEF Block
  <1>8. /\ h1.blk = [a \in DOMAIN h.blk \cup {m1} |-> IF a = m1 THEN hi ELSE lo.blk[a]]
        /\ h1.freehdrs = h.freehdrs /\ h1.lastsbrk = h.lastsbrk /\ SameRest(h, h1)
        /\ h1 = [x \in Parts |-> h1[x]]
    BY <1>5, <1>6 DEF Parts, SameRest
  <1> HIDE DEF h1
  <1>9. /\ n.blk = IF up = NULL THEN h1.blk ELSE [h1.blk EXCEPT ![up].prev = m1]
        /\ n.freehdrs = h.freehdrs /\ n.lastsbrk = h.lastsbrk /\ SameRest(h, n)
        /\ n = [x \in Parts |-> n[x]]
    BY <1>8 DEF Parts, SameRest
  <1> HIDE DEF n
  <1>10. /\ DOMAIN n.blk = DOMAIN h.blk \cup {m1}
         /\ n.blk[m1] = hi /\ n.blk[m] = lo.blk[m]
         /\ \A a \in DOMAIN h.blk \ {m} : a # up => n.blk[a] = h.blk[a]
         /\ up # NULL => n.blk[up] = [h.blk[up] EXCEPT !.prev = m1]
         /\ n.blk = [a \in DOMAIN n.blk |-> n.blk[a]]
    <2>1. /\ DOMAIN h1.blk = DOMAIN h.blk \cup {m1} /\ h1.blk[m1] = hi
          /\ \A a \in DOMAIN h.blk \ {m1} : h1.blk[a] = lo.blk[a]
          /\ h1.blk = [a \in DOMAIN h1.blk |-> h1.blk[a]]
      BY <1>8
    <2>2. /\ DOMAIN n.blk = DOMAIN h1.blk
          /\ \A a \in DOMAIN h1.blk : a # up \/ up = NULL => n.blk[a] = h1.blk[a]
          /\ n.blk = [a \in DOMAIN n.blk |-> n.blk[a]]
      BY <1>9, <2>1
    <2>3. up # NULL /\ up \in DOMAIN h1.blk => n.blk[up] = [h1.blk[up] EXCEPT !.prev = m1]
      BY <1>9, <2>1
    <2>4. DOMAIN n.blk = DOMAIN h.blk \cup {m1}
      BY <2>1, <2>2
    <2>5. n.blk[m1] = hi
      BY <1>1, <2>1, <2>2
    <2>6. n.blk[m] = lo.blk[m]
      BY <1>1, <2>1, <2>2
    <2>7. \A a \in DOMAIN h.blk \ {m} : a # up => n.blk[a] = h.blk[a]
      BY <1>1, <1>6, <2>1, <2>2
    <2>8. up # NULL => n.blk[up] = [h.blk[up] EXCEPT !.prev = m1]
      BY <1>1, <1>6, <2>1, <2>3
    <2> QED
      BY <2>2, <2>4, <2>5, <2>6, <2>7, <2>8
  <1>11. up # NULL =>
           /\ n.blk[up] \in Block /\ n.blk[up].next = h.blk[up].next /\ n.blk[up].prev = m1
           /\ n.blk[up].sz = h.blk[up].sz /\ n.blk[up].nextfree = h.blk[up].nextfree
           /\ n.blk[up].prevfree = h.blk[up].prevfree /\ n.blk[up].data = h.blk[up].data
    <2>1. up # NULL => h.blk[up] \in Block
      BY <1>1 DEF IsHeap
    <2> QED
      BY <1>2, <1>10, <2>1 DEF Block
  <1>12. \A a \in DOMAIN h.blk : a # NULL /\ a \in Addr
    BY Addresses DEF IsHeap
  <1>13. \A a \in DOMAIN n.blk : n.blk[a] \in Block
    BY <1>4, <1>7, <1>10, <1>11, <1>12, ZenonT(60) DEF IsHeap
  <1>14. IsHeap(n)
    BY <1>1, <1>9, <1>10, <1>12, <1>13 DEF IsHeap, SameRest
  <1>15. SplitOf(h, n, m, s)
    <2>1. \A a \in DOMAIN h.blk \ {m} :
            /\ n.blk[a].nextfree = h.blk[a].nextfree /\ n.blk[a].prevfree = h.blk[a].prevfree
            /\ n.blk[a].next = h.blk[a].next /\ n.blk[a].sz = h.blk[a].sz
            /\ n.blk[a].prev = IF a = up THEN m1 ELSE h.blk[a].prev
            /\ n.blk[a].data = h.blk[a].data
      BY <1>10, <1>11, <1>12
    <2> QED
      BY <1>4, <1>7, <1>9, <1>10, <1>14, <2>1 DEF SplitOf, up, t, m1
  <1> QED
    BY <1>3, <1>9, <1>15

LEMMA SplitChained ==
  ASSUME NEW h, NEW n, IsHeap(h), Chained(h), NEW m, NEW s, CanSplit(h, m, s),
         SplitOf(h, n, m, s)
  PROVE  Chained(n) /\ BasesOf(n) = BasesOf(h)
  <1> DEFINE m1 == m + s
             up == h.blk[m].next
  <1>1. /\ m1 \in Addr /\ m1 \notin DOMAIN h.blk /\ m < m1
        /\ up # m /\ up # NULL => up \in DOMAIN h.blk /\ up = m + h.blk[m].sz /\ h.blk[up].prev = m
        /\ m \in DOMAIN h.blk /\ s \in Nat
    BY SplitPlace DEF CanSplit
  <1>2. /\ \A a \in DOMAIN h.blk : a \in Nat /\ a # NULL /\ h.blk[a].sz \in Nat
        /\ \A a \in DOMAIN h.blk : Placed(h, a)
        /\ DATAOFFSET \in Nat \ {0} /\ h.brk \in Nat
        /\ h.taken \subseteq Nat /\ m1 \in Nat /\ m1 # NULL
    <2>1. \A a \in DOMAIN h.blk : a \in Nat /\ a # NULL /\ h.blk[a].sz \in Nat
      BY <1>1, Addresses, Constants DEF IsHeap, Chained, Block
    <2>2. \A a \in DOMAIN h.blk : Placed(h, a)
      BY <1>1, <2>1, Addresses, Constants DEF IsHeap, Chained, Block
    <2>3. DATAOFFSET \in Nat \ {0}
      BY <1>1, <2>1, <2>2, Addresses, Constants DEF IsHeap, Chained, Block
    <2>4. h.brk \in Nat
      BY <1>1, <2>1, <2>2, <2>3, Addresses, Constants DEF IsHeap, Chained, Block
    <2>5. h.taken \subseteq Nat
      BY <1>1, <2>1, <2>2, <2>3, <2>4, Addresses, Constants DEF IsHeap, Chained, Block
    <2>6. m1 \in Nat
      BY <1>1, <2>1, <2>2, <2>3, <2>4, <2>5, Addresses, Constants DEF IsHeap, Chained, Block
    <2>7. m1 # NULL
      BY <1>1, <2>1, <2>2, <2>3, <2>4, <2>5, <2>6, Addresses, Constants DEF IsHeap, Chained, Block
    <2> QED
      BY <2>1, <2>2, <2>3, <2>4, <2>5, <2>6, <2>7
  <1>3. /\ n.brk = h.brk /\ n.taken = h.taken /\ DOMAIN n.blk = DOMAIN h.blk \cup {m1}
        /\ n.blk[m].next = m1 /\ n.blk[m].prev = h.blk[m].prev /\ n.blk[m].sz = s
        /\ n.blk[m1].prev = m /\ n.blk[m1].next = up /\ n.blk[m1].sz = h.blk[m].sz - s
        /\ \A a \in DOMAIN h.blk : a # m =>
             /\ n.blk[a].next = h.blk[a].next /\ n.blk[a].sz = h.blk[a].sz
             /\ n.blk[a].prev = IF a = up THEN m1 ELSE h.blk[a].prev
    BY DEF SplitOf, SameRest
  <1>4. /\ Aligned(m) /\ Aligned(s) /\ DATAOFFSET <= s /\ s + DATAOFFSET <= h.blk[m].sz
        /\ m + h.blk[m].sz <= h.brk /\ Placed(h, m)
    BY <1>1, <1>2 DEF CanSplit, Placed
  <1>5. Aligned(m1)
    BY <1>4, AlignedSum
  <1>6. m1 + (h.blk[m].sz - s) = m + h.blk[m].sz /\ h.blk[m].sz - s \in Nat
    BY <1>1, <1>2, <1>4
  <1>7. m1 + n.blk[m1].sz = m + h.blk[m].sz /\ n.blk[m1].sz \in Nat
    BY <1>3, <1>6
  <1>8. /\ up # NULL => up \in DOMAIN h.blk /\ up = m + h.blk[m].sz /\ h.blk[up].prev = m
        /\ up # m
    BY SplitPlace
  <1>9. m + s = m1
    OBVIOUS
  <1> HIDE DEF up, m1
  <1>10. Placed(n, m)
    <2>1. DATAOFFSET <= n.blk[m].sz /\ m + n.blk[m].sz <= n.brk
      BY <1>1, <1>2, <1>3, <1>4
    <2>2. /\ n.blk[m].next = m + n.blk[m].sz
          /\ n.blk[m].next \in DOMAIN n.blk
          /\ n.blk[n.blk[m].next].prev = m
      BY <1>3, <1>9
    <2>3. n.blk[m].prev # NULL => /\ n.blk[m].prev \in DOMAIN n.blk
                                  /\ n.blk[n.blk[m].prev].next = m
      <3> DEFINE p == h.blk[m].prev
      <3>1. p # NULL => p \in DOMAIN h.blk /\ h.blk[p].next = m
        BY <1>4 DEF Placed
      <3>2. p # NULL => p # m
        BY <1>8, <3>1 DEF up
      <3> HIDE DEF p
      <3>3. p # NULL => n.blk[p].next = m
        BY <1>3, <3>1, <3>2
      <3> QED
        BY <1>3, <3>1, <3>3 DEF p
    <2>4. ASSUME NEW d \in DOMAIN n.blk, d > m
          PROVE  m + n.blk[m].sz <= d
      <3>1. CASE d = m1
        BY <1>2, <1>3, <1>9, <3>1
      <3>2. CASE d # m1
        <4>1. d \in DOMAIN h.blk /\ m + h.blk[m].sz <= d
          BY <1>3, <1>4, <2>4, <3>2 DEF Placed
        <4> QED
          BY <1>1, <1>2, <1>3, <1>4, <4>1
      <3> QED
        BY <3>1, <3>2
    <2>5. ASSUME NEW t \in n.taken
          PROVE  t < m \/ m + n.blk[m].sz <= t
      <3>1. t \in Nat /\ (t < m \/ m + h.blk[m].sz <= t)
        BY <1>2, <1>3, <1>4 DEF Placed
      <3> QED
        BY <1>1, <1>2, <1>3, <1>4, <3>1
    <2> QED
      BY <1>4, <2>1, <2>2, <2>3, <2>4, <2>5 DEF Placed
  <1>11. Placed(n, m1)
    <2>1. DATAOFFSET <= n.blk[m1].sz /\ m1 + n.blk[m1].sz <= n.brk
      BY <1>1, <1>2, <1>3, <1>4, <1>7
    <2>2. n.blk[m1].next # NULL => /\ n.blk[m1].next = m1 + n.blk[m1].sz
                                   /\ n.blk[m1].next \in DOMAIN n.blk
                                   /\ n.blk[n.blk[m1].next].prev = m1
      BY <1>3, <1>7, <1>8
    <2>3. n.blk[m1].prev \in DOMAIN n.blk /\ n.blk[n.blk[m1].prev].next = m1
      BY <1>1, <1>3
    <2>4. ASSUME NEW d \in DOMAIN n.blk, d > m1
          PROVE  m1 + n.blk[m1].sz <= d
      <3>1. d \in DOMAIN h.blk /\ d \in Nat /\ d > m
        BY <1>1, <1>2, <1>3, <2>4
      <3> QED
        BY <1>4, <1>7, <3>1 DEF Placed
    <2>5. ASSUME NEW t \in n.taken
          PROVE  t < m1 \/ m1 + n.blk[m1].sz <= t
      <3>1. t \in Nat /\ (t < m \/ m + h.blk[m].sz <= t)
        BY <1>2, <1>3, <1>4 DEF Placed
      <3> QED
        BY <1>1, <1>2, <1>7, <3>1
    <2> QED
      BY <1>5, <2>1, <2>2, <2>3, <2>4, <2>5 DEF Placed
  <1>12. ASSUME NEW a \in DOMAIN n.blk, a # m, a # m1
        PROVE  Placed(n, a)
    <2>1. a \in DOMAIN h.blk /\ Placed(h, a) /\ a # NULL /\ a \in Nat
      BY <1>2, <1>3, <1>12
    <2>2. /\ n.blk[a].next = h.blk[a].next /\ n.blk[a].sz = h.blk[a].sz
          /\ n.blk[a].prev = IF a = up THEN m1 ELSE h.blk[a].prev
      BY <1>3, <1>12, <2>1
    <2>3. n.blk[a].next # NULL => /\ n.blk[a].next = a + n.blk[a].sz
                                  /\ n.blk[a].next \in DOMAIN n.blk
                                  /\ n.blk[n.blk[a].next].prev = a
      <3> DEFINE x == h.blk[a].next
      <3>1. x # NULL => x \in DOMAIN h.blk /\ h.blk[x].prev = a /\ x = a + h.blk[a].sz
        BY <2>1 DEF Placed
      <3>2. x # NULL => x # up
        BY <1>8, <1>12, <3>1
      <3> HIDE DEF x
      <3>3. x # NULL => n.blk[x].prev = a
        BY <1>3, <3>1, <3>2
      <3> QED
        BY <1>3, <2>2, <3>1, <3>2, <3>3 DEF x
    <2>4. n.blk[a].prev # NULL => /\ n.blk[a].prev \in DOMAIN n.blk
                                  /\ n.blk[n.blk[a].prev].next = a
      <3>1. CASE a = up
        BY <1>3, <2>2, <3>1
      <3>2. CASE a # up
        <4> DEFINE y == h.blk[a].prev
        <4>1. y # NULL => y \in DOMAIN h.blk /\ h.blk[y].next = a
          BY <2>1 DEF Placed
        <4>2. y # NULL => y # m
          BY <3>2, <4>1 DEF up
        <4> HIDE DEF y
        <4>3. y # NULL => n.blk[y].next = a
          BY <1>3, <4>1, <4>2
        <4> QED
          BY <1>3, <2>2, <3>2, <4>1, <4>3 DEF y
      <3> QED
        BY <3>1, <3>2
    <2>5. ASSUME NEW d \in DOMAIN n.blk, d > a
          PROVE  a + n.blk[a].sz <= d
      <3>1. CASE d # m1
        BY <1>3, <2>1, <2>2, <2>5, <3>1 DEF Placed
      <3>2. CASE d = m1
        <4>1. a < m
          <5>1. SUFFICES ASSUME m < a PROVE FALSE
            BY <1>1, <1>2, <1>12, <2>1
          <5>2. m + h.blk[m].sz <= a
            BY <1>4, <2>1, <5>1 DEF Placed
          <5> QED
            BY <1>1, <1>2, <1>4, <1>9, <2>1, <2>5, <3>2, <5>2
        <4>2. a + h.blk[a].sz <= m
          BY <1>1, <2>1, <4>1 DEF Placed
        <4> QED
          BY <1>1, <1>2, <2>1, <2>2, <3>2, <4>2
      <3> QED
        BY <3>1, <3>2
    <2> QED
      BY <1>3, <2>1, <2>2, <2>3, <2>4, <2>5 DEF Placed
  <1>13. Chained(n)
    BY <1>3, <1>10, <1>11, <1>12 DEF Chained
  <1>14. BasesOf(n) = BasesOf(h)
    <2>1. ASSUME NEW a \in DOMAIN h.blk
          PROVE  n.blk[a].prev = NULL <=> h.blk[a].prev = NULL
      <3>1. a # NULL /\ m # NULL /\ m1 # NULL
        BY <1>1, <1>2
      <3>2. CASE a = m
        BY <1>3, <3>2
      <3>3. CASE a # m /\ a = up
        BY <1>3, <1>8, <3>1, <3>3
      <3>4. CASE a # m /\ a # up
        BY <1>3, <3>4
      <3> QED
        BY <3>2, <3>3, <3>4
    <2>2. n.blk[m1].prev # NULL
      BY <1>1, <1>2, <1>3
    <2> QED
      BY <1>3, <2>1, <2>2 DEF BasesOf
  <1> QED
    BY <1>13, <1>14

-----------------------------------------------------------------------------
(* The invariant, and what it becomes in the middle of a call: F are the   *)
(* blocks in the lists, K those in the program's hands or given up, L is   *)
(* lastsbrk, and X are the blocks an operation works on.                   *)

Owned(h, F, K, X, L) ==
  /\ DOMAIN h.blk = F \cup K \cup X \cup L
  /\ F \cap K = {} /\ F \cap X = {} /\ F \cap L = {}
  /\ K \cap X = {} /\ K \cap L = {} /\ X \cap L = {}
  /\ \A a \in K \cup L : h.blk[a].nextfree = NULL
  /\ \A a \in L : h.blk[a].next = NULL

Merged(h, F, L) == \A a \in F : h.blk[a].next \notin F \cup L

Findable(h) ==
  /\ Len(h.sbrkbgn) < MAXSBRKS
  /\ \A i \in DOMAIN h.sbrkbgn :
       /\ h.sbrkbgn[i] \in BasesOf(h)
       /\ \A j \in 1..(i - 1) : h.sbrkbgn[j] # h.sbrkbgn[i]
  /\ \/ Len(h.sbrkbgn) = Cardinality(BasesOf(h))
     \/ Len(h.sbrkbgn) = MAXSBRKS - 1 /\ Cardinality(BasesOf(h)) >= MAXSBRKS

Core(h, F, K, X, L) ==
  /\ IsHeap(h) /\ h.fouled = "no" /\ Chained(h) /\ Linked(h, F) /\ Ranked(h, F)
  /\ Owned(h, F, K, X, L) /\ Merged(h, F, L)

Body(h, F, K, X, L) == Core(h, F, K, X, L) /\ Findable(h)

\* The blocks of K are not touched.
Keep(h, n, K) ==
  /\ n.leaked = h.leaked
  /\ \A a \in K : n.blk[a].sz = h.blk[a].sz /\ n.blk[a].data = h.blk[a].data

LEMMA KeepAdd ==
  ASSUME NEW h, NEW k, NEW n, NEW K, NEW J, K \subseteq J, Keep(h, k, J), Keep(k, n, K)
  PROVE  Keep(h, n, K)
  BY DEF Keep

LEMMA KeepSelf ==
  ASSUME NEW h, NEW K
  PROVE  Keep(h, h, K)
  BY DEF Keep

LEMMA KeptFindable ==
  ASSUME NEW h, NEW n, Findable(h), BasesOf(n) = BasesOf(h), SameRest(h, n)
  PROVE  Findable(n)
  BY DEF Findable, SameRest

\* An operation takes a block of the program up, and hands one over.
LEMMA BodyTake ==
  ASSUME NEW h, NEW F, NEW K, NEW X, NEW L, Body(h, F, K, X, L), NEW m \in K
  PROVE  Body(h, F, K \ {m}, X \cup {m}, L)
  <1>1. Owned(h, F, K \ {m}, X \cup {m}, L)
    BY DEF Body, Core, Owned
  <1> QED
    BY <1>1 DEF Body, Core

LEMMA BodyGive ==
  ASSUME NEW h, NEW F, NEW K, NEW X, NEW L, Body(h, F, K, X, L), NEW m \in X,
         h.blk[m].nextfree = NULL
  PROVE  Body(h, F, K \cup {m}, X \ {m}, L)
  <1>1. Owned(h, F, K \cup {m}, X \ {m}, L)
    BY DEF Body, Core, Owned
  <1> QED
    BY <1>1 DEF Body, Core

\* lastsbrk is taken up, and another block is appointed.
LEMMA BodyRetire ==
  ASSUME NEW h, NEW F, NEW K, NEW X, NEW L, Body(h, F, K, X, L)
  PROVE  Body(h, F, K, X \cup L, {})
  <1>1. Owned(h, F, K, X \cup L, {}) /\ Merged(h, F, {})
    BY DEF Body, Core, Owned, Merged
  <1> QED
    BY <1>1 DEF Body, Core

LEMMA BodyAppoint ==
  ASSUME NEW h, NEW F, NEW K, NEW X, Body(h, F, K, X, {}), NEW m \in X,
         h.blk[m].nextfree = NULL, h.blk[m].next = NULL, h.blk[m].prev \notin F
  PROVE  Body(h, F, K, X \ {m}, {m})
  <1>1. Owned(h, F, K, X \ {m}, {m})
    BY DEF Body, Core, Owned
  <1>2. ASSUME NEW a \in F
        PROVE  h.blk[a].next # m
    <2>1. SUFFICES ASSUME h.blk[a].next = m PROVE FALSE
      OBVIOUS
    <2>2. Placed(h, a) /\ m \in DOMAIN h.blk
      BY DEF Body, Core, Linked, Chained, Owned
    <2>3. h.blk[a].next # NULL
      BY <2>1, <2>2, Addresses DEF Body, Core, IsHeap
    <2> QED
      BY <2>1, <2>2, <2>3 DEF Placed
  <1>3. Merged(h, F, {m})
    BY <1>2 DEF Body, Core, Merged
  <1> QED
    BY <1>1, <1>3 DEF Body, Core

\* lastsbrk itself is not among what Body is about.
LEMMA BodyLast ==
  ASSUME NEW h, NEW F, NEW K, NEW X, NEW L, Body(h, F, K, X, L),
         NEW v \in Addr \cup {NULL}
  PROVE  LET n == [h EXCEPT !.lastsbrk = v]
         IN  Body(n, F, K, X, L) /\ Keep(h, n, K) /\ n.blk = h.blk /\ n.lastsbrk = v
  <1> DEFINE n == [h EXCEPT !.lastsbrk = v]
  <1>1. IsHeap(h)
    BY DEF Body, Core
  <1>2. /\ IsHeap(n) /\ n.blk = h.blk /\ n.freehdrs = h.freehdrs /\ n.lastsbrk = v
        /\ SameRest(h, n)
    BY <1>1, LastIs
  <1> HIDE DEF n
  <1>3. Chained(n) /\ BasesOf(n) = BasesOf(h)
    BY <1>2 DEF Body, Core, Chained, Placed, SameRest, BasesOf
  <1>4. Linked(n, F) /\ Ranked(n, F)
    BY <1>2, KeptLists DEF Body, Core, Linked
  <1>5. Owned(n, F, K, X, L) /\ Merged(n, F, L) /\ Keep(h, n, K)
    BY <1>2 DEF Body, Core, Owned, Merged, Keep, SameRest
  <1>6. Findable(n)
    BY <1>2, <1>3, KeptFindable DEF Body, Core
  <1>7. n.fouled = "no"
    BY <1>2 DEF Body, Core, SameRest
  <1> QED
    BY <1>2, <1>3, <1>4, <1>5, <1>6, <1>7 DEF Body, Core, n

\* A block is taken out of its list.
LEMMA BodyUnlink ==
  ASSUME NEW h, NEW F, NEW K, NEW X, NEW L, Body(h, F, K, X, L), NEW m \in F,
         NEW n, Unlinked(h, n, F, m)
  PROVE  Body(n, F \ {m}, K, X \cup {m}, L) /\ Keep(h, n, K)
  <1>1. IsHeap(h) /\ Chained(h) /\ Linked(h, F) /\ Ranked(h, F)
    BY DEF Body, Core
  <1>2. IsHeap(n) /\ LinksOnly(h, n, F)
    BY DEF Unlinked
  <1>3. Linked(n, F \ {m}) /\ Ranked(n, F \ {m})
    BY <1>1, UnlinkedLists
  <1>4. Chained(n)
    BY <1>1, <1>2, LinksChained
  <1>5. BasesOf(n) = BasesOf(h) /\ SameRest(h, n)
    BY <1>2 DEF BasesOf, LinksOnly
  <1>6. Findable(n)
    BY <1>5, KeptFindable DEF Body, Core
  <1>7. Owned(n, F \ {m}, K, X \cup {m}, L) /\ Merged(n, F \ {m}, L) /\ Keep(h, n, K)
    <2>1. Owned(h, F, K, X, L) /\ Merged(h, F, L)
      BY DEF Body, Core
    <2>2. \A a \in K \cup L : n.blk[a] = h.blk[a]
      BY <1>2, <2>1 DEF LinksOnly, Owned
    <2>3. \A a \in F : n.blk[a].next = h.blk[a].next
      BY <1>2, <2>1 DEF LinksOnly, Owned
    <2>4. DOMAIN n.blk = DOMAIN h.blk /\ n.leaked = h.leaked
      BY <1>2 DEF LinksOnly, SameRest
    <2> QED
      BY <2>1, <2>2, <2>3, <2>4 DEF Owned, Merged, Keep
  <1>8. n.fouled = "no"
    BY <1>5 DEF Body, Core, SameRest
  <1> QED
    BY <1>2, <1>3, <1>4, <1>6, <1>7, <1>8 DEF Body, Core

\* A block joins the list of its size.
LEMMA CorePush ==
  ASSUME NEW h, NEW F, NEW K, NEW X, NEW L, Core(h, F, K, X, L), NEW m \in X,
         h.blk[m].next \notin F \cup L, h.blk[m].prev \notin F,
         NEW n, Pushed(h, n, F, m)
  PROVE  Core(n, F \cup {m}, K, X \ {m}, L) /\ Keep(h, n, K)
         /\ BasesOf(n) = BasesOf(h) /\ SameRest(h, n)
  <1>1. IsHeap(h) /\ Chained(h) /\ Linked(h, F) /\ Ranked(h, F) /\ m \in DOMAIN h.blk \ F
    BY DEF Core, Owned
  <1>2. IsHeap(n) /\ LinksOnly(h, n, F \cup {m})
    BY DEF Pushed
  <1>3. Linked(n, F \cup {m}) /\ Ranked(n, F \cup {m})
    BY <1>1, PushedLists
  <1>4. Chained(n)
    BY <1>1, <1>2, LinksChained
  <1>5. BasesOf(n) = BasesOf(h) /\ SameRest(h, n)
    BY <1>2 DEF BasesOf, LinksOnly
  <1>7. Owned(n, F \cup {m}, K, X \ {m}, L) /\ Keep(h, n, K)
    <2>1. Owned(h, F, K, X, L)
      BY DEF Core
    <2>2. \A a \in K \cup L : n.blk[a] = h.blk[a]
      BY <1>2, <2>1 DEF LinksOnly, Owned
    <2>3. DOMAIN n.blk = DOMAIN h.blk /\ n.leaked = h.leaked
      BY <1>2 DEF LinksOnly, SameRest
    <2> QED
      BY <2>1, <2>2, <2>3 DEF Owned, Keep
  <1>8. Merged(n, F \cup {m}, L)
    <2>1. \A a \in F \cup {m} : n.blk[a].next = h.blk[a].next /\ a \in DOMAIN h.blk
      BY <1>1, <1>2 DEF LinksOnly, Linked
    <2>2. \A a \in DOMAIN h.blk : Placed(h, a) /\ a # NULL
      BY <1>1, Addresses DEF Chained, IsHeap
    <2>3. \A a \in F : h.blk[a].next # m
      BY <1>1, <2>1, <2>2 DEF Placed
    <2>4. h.blk[m].next # m
      <3>1. h.blk[m].next # NULL => m < h.blk[m].next
        BY <1>1, UpperIs
      <3>2. m \in Nat /\ m # NULL
        BY <1>1, Addresses DEF IsHeap
      <3> QED
        BY <3>1, <3>2
    <2> QED
      BY <2>1, <2>3, <2>4 DEF Core, Merged
  <1>9. n.fouled = "no"
    BY <1>5 DEF Core, SameRest
  <1> QED
    BY <1>2, <1>3, <1>4, <1>5, <1>7, <1>8, <1>9 DEF Core

LEMMA BodyPush ==
  ASSUME NEW h, NEW F, NEW K, NEW X, NEW L, Body(h, F, K, X, L), NEW m \in X,
         h.blk[m].next \notin F \cup L, h.blk[m].prev \notin F,
         NEW n, Pushed(h, n, F, m)
  PROVE  Body(n, F \cup {m}, K, X \ {m}, L) /\ Keep(h, n, K)
  <1>1. Core(h, F, K, X, L) /\ Findable(h)
    BY DEF Body
  <1> QED
    BY <1>1, CorePush, KeptFindable DEF Body

\* A block takes over its upper neighbour.
LEMMA BodyAbsorb ==
  ASSUME NEW h, NEW F, NEW K, NEW X, NEW L, Body(h, F, K, X, L), NEW m \in X,
         NEW c \in X, c = h.blk[m].next, NEW n, AbsorbOf(h, n, m, c)
  PROVE  Body(n, F, K, X \ {c}, L) /\ Keep(h, n, K)
  <1>1. /\ IsHeap(h) /\ Chained(h) /\ Linked(h, F) /\ Ranked(h, F) /\ Owned(h, F, K, X, L)
        /\ m \in DOMAIN h.blk /\ c # NULL
    BY Addresses DEF Body, Core, Owned, IsHeap
  <1>2. /\ IsHeap(n) /\ SameRest(h, n) /\ n.freehdrs = h.freehdrs
        /\ DOMAIN n.blk = DOMAIN h.blk \ {c}
        /\ \A a \in F \cup K \cup L :
             /\ a \in DOMAIN n.blk
             /\ n.blk[a].nextfree = h.blk[a].nextfree /\ n.blk[a].prevfree = h.blk[a].prevfree
             /\ n.blk[a].data = h.blk[a].data
             /\ n.blk[a].next = h.blk[a].next /\ n.blk[a].sz = h.blk[a].sz
    BY <1>1 DEF AbsorbOf, Owned
  <1>3. Chained(n) /\ BasesOf(n) = BasesOf(h)
    BY <1>1, AbsorbChained
  <1>4. Linked(n, F) /\ Ranked(n, F)
    BY <1>1, <1>2, KeptLists
  <1>5. Findable(n)
    BY <1>2, <1>3, KeptFindable DEF Body, Core
  <1>6. Owned(n, F, K, X \ {c}, L)
    BY <1>1, <1>2 DEF Owned
  <1>7. Merged(n, F, L) /\ Keep(h, n, K) /\ n.fouled = "no"
    BY <1>2 DEF Body, Core, Merged, Keep, SameRest
  <1> QED
    BY <1>2, <1>3, <1>4, <1>5, <1>6, <1>7 DEF Body, Core

\* A block is split.
LEMMA BodySplit ==
  ASSUME NEW h, NEW F, NEW K, NEW X, NEW L, Body(h, F, K, X, L), NEW m \in X,
         NEW s, CanSplit(h, m, s), NEW n, SplitOf(h, n, m, s)
  PROVE  /\ Body(n, F, K, X \cup {m + s}, L) /\ Keep(h, n, K)
         /\ m + s \notin F \cup K \cup X \cup L
  <1>1. /\ IsHeap(h) /\ Chained(h) /\ Linked(h, F) /\ Ranked(h, F) /\ Owned(h, F, K, X, L)
        /\ m \in DOMAIN h.blk
    BY DEF Body, Core, Owned
  <1>2. /\ IsHeap(n) /\ SameRest(h, n) /\ n.freehdrs = h.freehdrs
        /\ DOMAIN n.blk = DOMAIN h.blk \cup {m + s}
        /\ \A a \in F \cup K \cup L :
             /\ a \in DOMAIN n.blk
             /\ n.blk[a].nextfree = h.blk[a].nextfree /\ n.blk[a].prevfree = h.blk[a].prevfree
             /\ n.blk[a].data = h.blk[a].data
             /\ n.blk[a].next = h.blk[a].next /\ n.blk[a].sz = h.blk[a].sz
    BY <1>1 DEF SplitOf, Owned
  <1>3. m + s \notin DOMAIN h.blk
    BY <1>1, SplitPlace
  <1>4. Chained(n) /\ BasesOf(n) = BasesOf(h)
    BY <1>1, SplitChained
  <1>5. Linked(n, F) /\ Ranked(n, F)
    BY <1>1, <1>2, KeptLists
  <1>6. Findable(n)
    BY <1>2, <1>4, KeptFindable DEF Body, Core
  <1>7. Owned(n, F, K, X \cup {m + s}, L)
    BY <1>1, <1>2, <1>3 DEF Owned
  <1>8. Merged(n, F, L) /\ Keep(h, n, K) /\ n.fouled = "no"
    BY <1>2 DEF Body, Core, Merged, Keep, SameRest
  <1> QED
    BY <1>1, <1>2, <1>3, <1>4, <1>5, <1>6, <1>7, <1>8 DEF Body, Core, Owned

\* The fields of a block that is worked on are set.
LEMMA BodyLinks ==
  ASSUME NEW h, NEW F, NEW K, NEW X, NEW L, Body(h, F, K, X, L), NEW m \in X,
         NEW n, IsHeap(n), LinksOnly(h, n, {m}), n.freehdrs = h.freehdrs
  PROVE  Body(n, F, K, X, L) /\ Keep(h, n, K)
  <1>1. /\ IsHeap(h) /\ Chained(h) /\ Linked(h, F) /\ Ranked(h, F) /\ Owned(h, F, K, X, L)
        /\ Merged(h, F, L) /\ Findable(h) /\ h.fouled = "no"
    BY DEF Body, Core
  <1>2. /\ \A a \in F \cup K \cup L : a \in DOMAIN n.blk /\ n.blk[a] = h.blk[a]
        /\ DOMAIN n.blk = DOMAIN h.blk /\ SameRest(h, n)
    BY <1>1 DEF LinksOnly, Owned
  <1>3. Chained(n)
    BY <1>1, LinksChained
  <1>4. BasesOf(n) = BasesOf(h)
    BY DEF BasesOf, LinksOnly
  <1>5. Linked(n, F) /\ Ranked(n, F)
    BY <1>1, <1>2, KeptLists
  <1>6. Findable(n)
    BY <1>1, <1>2, <1>4, KeptFindable
  <1>7. Owned(n, F, K, X, L) /\ Merged(n, F, L) /\ Keep(h, n, K) /\ n.fouled = "no"
    BY <1>1, <1>2 DEF Owned, Merged, Keep, SameRest
  <1> QED
    BY <1>3, <1>5, <1>6, <1>7 DEF Body, Core

-----------------------------------------------------------------------------
(* Free lists.                                                             *)

LastOf(h) == {h.lastsbrk} \ {NULL}

\* The state between two calls (X is empty then): lastsbrk exists as soon as
\* there is a block.
Whole(h, F, K, X) ==
  /\ Body(h, F, K, X, LastOf(h))
  /\ DOMAIN h.blk # {} => h.lastsbrk # NULL

\* What an operation on m leaves as it is.
SameOf(h, n, m) ==
  /\ n.blk[m].prev = h.blk[m].prev /\ n.blk[m].nextfree = h.blk[m].nextfree
  /\ n.blk[m].data = h.blk[m].data

\* ISFREE finds the blocks in the lists.
LEMMA FreeIs ==
  ASSUME NEW h, NEW F, NEW K, NEW X, NEW L, Body(h, F, K, X, L),
         NEW a \in F \cup K \cup L \cup {NULL}
  PROVE  ISFREE(h, a) <=> a \in F
  <1>1. /\ \A x \in DOMAIN h.blk : x # NULL /\ x # NONE
        /\ Linked(h, F) /\ Owned(h, F, K, X, L)
    BY Addresses DEF Body, Core, IsHeap
  <1>2. ASSUME a \in F
        PROVE  ISFREE(h, a)
    <2>1. /\ a # NULL /\ a # NONE
          /\ h.blk[a].nextfree \in F \cup {NONE} /\ h.blk[a].prevfree \in F \cup {NONE}
      BY <1>1, <1>2 DEF Linked, InList
    <2>2. NONE # NULL /\ NULL \notin F
      BY <1>1 DEF NONE, NULL, Linked
    <2> QED
      BY <2>1, <2>2 DEF ISFREE, NoAddr
  <1>3. ASSUME a \notin F
        PROVE  ~ISFREE(h, a)
    <2>1. a = NULL \/ h.blk[a].nextfree = NULL
      BY <1>1, <1>3 DEF Owned
    <2> QED
      BY <2>1 DEF ISFREE, NoAddr
  <1> QED
    BY <1>2, <1>3

\* The upper neighbour of a block is in the heap, and knows it.
LEMMA NextIs ==
  ASSUME NEW h, NEW F, NEW K, NEW X, NEW L, Body(h, F, K, X, L), NEW m \in DOMAIN h.blk
  PROVE  /\ m # NULL /\ m \in Addr
         /\ h.blk[m].next # m /\ h.blk[m].prev # m
         /\ h.blk[m].next # NULL => h.blk[m].next \in DOMAIN h.blk
                                    /\ h.blk[h.blk[m].next].prev = m
         /\ h.blk[m].prev # NULL => h.blk[m].prev \in DOMAIN h.blk
                                    /\ h.blk[h.blk[m].prev].next = m
  <1>1. IsHeap(h) /\ Chained(h) /\ Placed(h, m) /\ m # NULL /\ m \in Addr /\ m \in Nat
    BY Addresses DEF Body, Core, Chained, IsHeap
  <1>2. h.blk[m].next # NULL => m < h.blk[m].next
    BY <1>1, UpperIs
  <1>3. h.blk[m].next # m
    BY <1>1, <1>2
  <1>4. h.blk[m].prev # m
    BY <1>1, <1>3 DEF Placed
  <1> QED
    BY <1>1, <1>3, <1>4 DEF Placed

\* m took over its free upper neighbour c.
TookUpper(h, n, F, K, m, c) ==
  /\ Whole(n, F \ {c}, K, {m}) /\ Keep(h, n, K) /\ SameOf(h, n, m)
  /\ n.lastsbrk = h.lastsbrk
  /\ n.blk[m].sz = h.blk[m].sz + h.blk[c].sz
  /\ n.blk[m].next \notin F

LEMMA CombineFree ==
  ASSUME NEW h, NEW F, NEW K, NEW m, Whole(h, F, K, {m}),
         NEW c \in F, c = h.blk[m].next
  PROVE  TookUpper(h, combinehi(h, m), F, K, m, c)
  <1> DEFINE L == LastOf(h)
             k == extractfree(h, c)
             n == Absorb(k, m, c)
  <1>1. /\ Body(h, F, K, {m}, L) /\ IsHeap(h) /\ Chained(h) /\ Linked(h, F)
        /\ Owned(h, F, K, {m}, L) /\ Merged(h, F, L)
    BY DEF Whole, Body, Core
  <1>2. m \in DOMAIN h.blk /\ c \in DOMAIN h.blk /\ c # m
    BY <1>1 DEF Owned
  <1>3. c # NULL /\ h.blk[c].prev = m /\ c # h.lastsbrk
    BY <1>1, <1>2, NextIs DEF Owned, LastOf
  <1>4. combinehi(h, m) = n
    BY <1>3 DEF combinehi
  <1>5. Unlinked(h, k, F, c)
    BY <1>1, ExtractUnlinks
  <1>6. Body(k, F \ {c}, K, {m, c}, L) /\ Keep(h, k, K)
    <2>1. {m} \cup {c} = {m, c}
      OBVIOUS
    <2> QED
      BY <1>1, <1>5, <2>1, BodyUnlink
  <1>7. /\ DOMAIN k.blk = DOMAIN h.blk /\ k.blk[m] = h.blk[m] /\ k.lastsbrk = h.lastsbrk
        /\ k.blk[c].next = h.blk[c].next /\ k.blk[c].sz = h.blk[c].sz
    BY <1>1, <1>2, <1>5 DEF Unlinked, LinksOnly, Owned
  <1> HIDE DEF k, L
  <1>8. IsHeap(k) /\ Chained(k)
    BY <1>6 DEF Body, Core
  <1>9. AbsorbOf(k, n, m, c) /\ n.lastsbrk = k.lastsbrk
    BY <1>2, <1>3, <1>7, <1>8, AbsorbIs
  <1> HIDE DEF n
  <1>10. Body(n, F \ {c}, K, {m}, L) /\ Keep(k, n, K)
    <2> DEFINE X == {m, c}
    <2>1. X \ {c} = {m} /\ m \in X /\ c \in X
      BY <1>2
    <2>2. Body(k, F \ {c}, K, X, L)
      BY <1>6
    <2>3. c = k.blk[m].next
      BY <1>7
    <2> HIDE DEF X
    <2> DEFINE G == F \ {c}
    <2>4. Body(k, G, K, X, L)
      BY <2>2
    <2> HIDE DEF G
    <2>5. Body(n, G, K, X \ {c}, L) /\ Keep(k, n, K)
      BY <1>9, <2>1, <2>3, <2>4, BodyAbsorb
    <2> QED
      BY <2>1, <2>5 DEF G
  <1>11. Keep(h, n, K)
    BY <1>6, <1>10, KeepAdd
  <1>12. /\ n.blk[m].next = h.blk[c].next /\ n.blk[m].sz = h.blk[m].sz + h.blk[c].sz
         /\ SameOf(h, n, m)
    BY <1>2, <1>7, <1>9 DEF AbsorbOf, SameOf
  <1>13. h.blk[c].next \notin F
    BY <1>1 DEF Merged
  <1>14. Whole(n, F \ {c}, K, {m})
    BY <1>2, <1>7, <1>9, <1>10, L = LastOf(h) DEF Whole, LastOf, L
  <1> QED
    BY <1>4, <1>7, <1>9, <1>11, <1>12, <1>13, <1>14 DEF TookUpper

\* m takes over lastsbrk: the heap is without one until another is appointed.
LEMMA CombineLast ==
  ASSUME NEW h, NEW F, NEW K, NEW m, Whole(h, F, K, {m}),
         h.lastsbrk # NULL, h.blk[m].next = h.lastsbrk
  PROVE  LET n == combinehi(h, m)
         IN  /\ Body(n, F, K, {m}, {}) /\ Keep(h, n, K) /\ SameOf(h, n, m)
             /\ n.blk[m].sz = h.blk[m].sz + h.blk[h.lastsbrk].sz
             /\ n.blk[m].next = NULL
  <1> DEFINE c == h.lastsbrk
             n == Absorb(h, m, c)
  <1>1. /\ Body(h, F, K, {m}, {c}) /\ IsHeap(h) /\ Chained(h)
        /\ Owned(h, F, K, {m}, {c})
    <2>1. LastOf(h) = {c}
      BY DEF LastOf
    <2> QED
      BY <2>1 DEF Whole, Body, Core
  <1>2. m \in DOMAIN h.blk /\ c \in DOMAIN h.blk /\ c # m /\ h.blk[c].next = NULL
    BY <1>1 DEF Owned
  <1>3. c # NULL /\ h.blk[c].prev = m
    BY <1>1, <1>2, NextIs
  <1>4. combinehi(h, m) = n
    BY <1>3 DEF combinehi
  <1>5. AbsorbOf(h, n, m, c)
    BY <1>1, <1>2, <1>3, AbsorbIs
  <1> HIDE DEF n
  <1>6. Body(h, F, K, {m, c}, {})
    <2>1. {m} \cup {c} = {m, c}
      OBVIOUS
    <2> QED
      BY <1>1, <2>1, BodyRetire
  <1>7. Body(n, F, K, {m}, {}) /\ Keep(h, n, K)
    <2>1. {m, c} \ {c} = {m}
      BY <1>2
    <2> QED
      BY <1>5, <1>6, <2>1, BodyAbsorb, SMTT(60)
  <1>8. /\ n.blk[m].next = NULL /\ n.blk[m].sz = h.blk[m].sz + h.blk[c].sz
        /\ SameOf(h, n, m)
    BY <1>2, <1>5 DEF AbsorbOf, SameOf
  <1> QED
    BY <1>4, <1>7, <1>8

\* TakeUpper leaves no free block above m.
LEMMA TakeUpperIs ==
  ASSUME NEW h, NEW F, NEW K, NEW m, Whole(h, F, K, {m})
  PROVE  LET n == TakeUpper(h, m)
         IN  \E G \in SUBSET F :
               /\ Whole(n, G, K, {m}) /\ Keep(h, n, K) /\ SameOf(h, n, m)
               /\ n.lastsbrk = h.lastsbrk
               /\ n.blk[m].next \notin G
  <1> DEFINE c == h.blk[m].next
  <1>1. Body(h, F, K, {m}, LastOf(h)) /\ Owned(h, F, K, {m}, LastOf(h))
    BY DEF Whole, Body, Core
  <1>2. m \in DOMAIN h.blk
    BY <1>1 DEF Owned
  <1>3. c \in F \cup K \cup LastOf(h) \cup {NULL}
    BY <1>1, <1>2, NextIs DEF Owned
  <1>4. ISFREE(h, c) <=> c \in F
    BY <1>1, <1>3, FreeIs
  <1>5. CASE c \in F
    <2>1. TakeUpper(h, m) = combinehi(h, m)
      BY <1>4, <1>5 DEF TakeUpper
    <2>2. F \ {c} \in SUBSET F
      OBVIOUS
    <2>3. TookUpper(h, combinehi(h, m), F, K, m, c)
      BY <1>5, CombineFree
    <2> QED
      BY <2>1, <2>2, <2>3 DEF TookUpper
  <1>6. CASE c \notin F
    <2>1. TakeUpper(h, m) = h
      BY <1>4, <1>6 DEF TakeUpper
    <2> QED
      BY <1>6, <2>1, KeepSelf DEF SameOf
  <1> QED
    BY <1>5, <1>6

\* Enlist puts a block away that has no free neighbours.
LEMMA EnlistIs ==
  ASSUME NEW h, NEW F, NEW K, NEW m, Whole(h, F, K, {m}),
         h.blk[m].next \notin F, h.blk[m].prev \notin F
  PROVE  \E G : Whole(Enlist(h, m), G, K, {}) /\ Keep(h, Enlist(h, m), K)
  <1>1. /\ Body(h, F, K, {m}, LastOf(h)) /\ Owned(h, F, K, {m}, LastOf(h))
        /\ IsHeap(h) /\ Chained(h) /\ Linked(h, F)
    BY DEF Whole, Body, Core
  <1>2. m \in DOMAIN h.blk /\ m \in Addr /\ m # NULL /\ m \notin F
    BY <1>1, NextIs DEF Owned
  <1>3. NULL \in Link
    BY DEF Link, NoAddr
  <1>4. CASE h.lastsbrk # NULL /\ h.blk[m].next = h.lastsbrk
    <2> DEFINE k == combinehi(h, m)
               l == [k EXCEPT !.lastsbrk = m]
               n == Mark(l, m, NULL)
    <2>1. Enlist(h, m) = n
      BY <1>4 DEF Enlist
    <2>2. /\ Body(k, F, K, {m}, {}) /\ Keep(h, k, K) /\ SameOf(h, k, m)
          /\ k.blk[m].next = NULL
      BY <1>4, CombineLast
    <2> HIDE DEF k
    <2>3. Body(l, F, K, {m}, {}) /\ Keep(k, l, K) /\ l.blk = k.blk /\ l.lastsbrk = m
      BY <1>2, <2>2, BodyLast
    <2> HIDE DEF l
    <2>4. IsHeap(l) /\ m \in DOMAIN l.blk
      BY <2>3 DEF Body, Core, Owned
    <2>5. /\ IsHeap(n) /\ LinksOnly(l, n, {m}) /\ n.freehdrs = l.freehdrs
          /\ n.blk[m].nextfree = NULL
      BY <1>3, <2>4, MarkIs DEF MarkedBy
    <2> HIDE DEF n
    <2>6. Body(n, F, K, {m}, {}) /\ Keep(l, n, K)
      BY <2>3, <2>5, BodyLinks
    <2>7. /\ n.blk[m].next = NULL /\ n.blk[m].prev \notin F /\ n.lastsbrk = m
      BY <2>2, <2>3, <2>4, <2>5 DEF LinksOnly, SameOf
    <2>8. Body(n, F, K, {m} \ {m}, {m})
      BY <2>5, <2>6, <2>7, BodyAppoint
    <2>9. Whole(n, F, K, {})
      <3>1. {m} \ {m} = {} /\ LastOf(n) = {m}
        BY <1>2, <2>7 DEF LastOf
      <3> QED
        BY <1>2, <2>7, <2>8, <3>1 DEF Whole
    <2>10. Keep(h, n, K)
      <3>1. Keep(h, l, K)
        BY <2>2, <2>3, KeepAdd
      <3> QED
        BY <2>6, <3>1, KeepAdd
    <2> QED
      BY <2>1, <2>9, <2>10
  <1>5. CASE ~(h.lastsbrk # NULL /\ h.blk[m].next = h.lastsbrk)
    <2> DEFINE n == Push(h, m, Bucket(h, m))
    <2>1. Enlist(h, m) = n
      BY <1>5 DEF Enlist, Bucket
    <2>2. Pushed(h, n, F, m)
      BY <1>1, <1>2, PushIs
    <2> HIDE DEF n
    <2>3. h.blk[m].next \notin F \cup LastOf(h)
      BY <1>5 DEF LastOf
    <2>4. Body(n, F \cup {m}, K, {m} \ {m}, LastOf(h)) /\ Keep(h, n, K)
      BY <1>1, <2>2, <2>3, BodyPush
    <2>5. n.lastsbrk = h.lastsbrk /\ DOMAIN n.blk = DOMAIN h.blk
      BY <2>2 DEF Pushed, LinksOnly
    <2>6. Whole(n, F \cup {m}, K, {})
      <3>1. {m} \ {m} = {} /\ LastOf(n) = LastOf(h)
        BY <2>5 DEF LastOf
      <3> QED
        BY <2>4, <2>5, <3>1 DEF Whole
    <2> QED
      BY <2>1, <2>4, <2>6
  <1> QED
    BY <1>4, <1>5

LEMMA FreeListIs ==
  ASSUME NEW h, NEW F, NEW K, NEW m, Whole(h, F, K, {m}), h.blk[m].prev \notin F
  PROVE  \E G : Whole(mv2freelist(h, m), G, K, {}) /\ Keep(h, mv2freelist(h, m), K)
  <1> DEFINE k == TakeUpper(h, m)
  <1>1. PICK G \in SUBSET F : /\ Whole(k, G, K, {m}) /\ Keep(h, k, K) /\ SameOf(h, k, m)
                              /\ k.blk[m].next \notin G
    BY TakeUpperIs
  <1>2. m # NULL
    <2>1. Body(h, F, K, {m}, LastOf(h)) /\ m \in DOMAIN h.blk
      BY DEF Whole, Body, Core, Owned
    <2> QED
      BY <2>1, NextIs
  <1>3. mv2freelist(h, m) = Enlist(k, m)
    BY <1>2 DEF mv2freelist
  <1>4. k.blk[m].prev \notin G
    BY <1>1 DEF SameOf
  <1> HIDE DEF k
  <1>5. PICK H : Whole(Enlist(k, m), H, K, {}) /\ Keep(k, Enlist(k, m), K)
    BY <1>1, <1>4, EnlistIs
  <1>6. Keep(h, Enlist(k, m), K)
    BY <1>1, <1>5, KeepAdd
  <1> QED
    BY <1>3, <1>5, <1>6

-----------------------------------------------------------------------------
(* Blocks that are freed.                                                  *)

\* The free block p below m took m over.
TookLower(h, n, F, K, m, p) ==
  /\ Whole(n, F \ {p}, K, {p}) /\ Keep(h, n, K)
  /\ n.blk[p].sz = h.blk[m].sz + h.blk[p].sz
  /\ n.blk[p].nextfree = NULL
  /\ n.blk[p].next = h.blk[m].next
  /\ n.blk[p].prev \notin F

LEMMA CombineLow ==
  ASSUME NEW h, NEW F, NEW K, NEW m, Whole(h, F, K, {m}),
         NEW p \in F, p = h.blk[m].prev
  PROVE  /\ combinelo(h, m) = Absorb(extractfree(h, p), p, m)
         /\ TookLower(h, combinelo(h, m), F, K, m, p)
  <1> DEFINE L == LastOf(h)
             k == extractfree(h, p)
             n == Absorb(k, p, m)
  <1>1. /\ Body(h, F, K, {m}, L) /\ IsHeap(h) /\ Chained(h) /\ Linked(h, F)
        /\ Owned(h, F, K, {m}, L) /\ Merged(h, F, L)
    BY DEF Whole, Body, Core
  <1>2. m \in DOMAIN h.blk /\ p \in DOMAIN h.blk /\ p # m
    BY <1>1 DEF Owned
  <1>3. m # NULL /\ p # NULL /\ h.blk[p].next = m
    BY <1>1, <1>2, NextIs
  <1>4. combinelo(h, m) = n
    BY <1>3 DEF combinelo
  <1>5. Unlinked(h, k, F, p)
    BY <1>1, ExtractUnlinks
  <1>6. Body(k, F \ {p}, K, {m, p}, L) /\ Keep(h, k, K)
    <2>1. {m} \cup {p} = {m, p}
      OBVIOUS
    <2> QED
      BY <1>1, <1>5, <2>1, BodyUnlink
  <1>7. /\ DOMAIN k.blk = DOMAIN h.blk /\ k.blk[m] = h.blk[m] /\ k.lastsbrk = h.lastsbrk
        /\ k.blk[p].next = h.blk[p].next /\ k.blk[p].sz = h.blk[p].sz
        /\ k.blk[p].prev = h.blk[p].prev /\ k.blk[p].nextfree = NULL
    BY <1>1, <1>2, <1>5 DEF Unlinked, LinksOnly, Owned
  <1>8. h.blk[p].prev \notin F
    <2>1. SUFFICES ASSUME h.blk[p].prev \in F PROVE FALSE
      OBVIOUS
    <2>2. h.blk[p].prev # NULL
      BY <1>1, <2>1, NextIs DEF Linked
    <2>3. h.blk[h.blk[p].prev].next = p
      BY <1>1, <1>2, <2>2, NextIs
    <2> QED
      BY <1>1, <2>1, <2>3 DEF Merged
  <1> HIDE DEF k, L
  <1>9. IsHeap(k) /\ Chained(k)
    BY <1>6 DEF Body, Core
  <1>10. AbsorbOf(k, n, p, m) /\ n.lastsbrk = k.lastsbrk
    BY <1>2, <1>3, <1>7, <1>9, AbsorbIs
  <1> HIDE DEF n
  <1>11. Body(n, F \ {p}, K, {p}, L) /\ Keep(k, n, K)
    <2>1. {m, p} \ {m} = {p}
      BY <1>2
    <2> QED
      BY <1>3, <1>6, <1>7, <1>10, <2>1, BodyAbsorb
  <1>12. Keep(h, n, K)
    BY <1>6, <1>11, KeepAdd
  <1>13. /\ n.blk[p].next = h.blk[m].next /\ n.blk[p].sz = h.blk[p].sz + h.blk[m].sz
         /\ n.blk[p].prev = h.blk[p].prev /\ n.blk[p].nextfree = NULL
    BY <1>2, <1>7, <1>10 DEF AbsorbOf
  <1>14. h.blk[p].sz + h.blk[m].sz = h.blk[m].sz + h.blk[p].sz
    <2>1. h.blk[p].sz \in Nat /\ h.blk[m].sz \in Nat
      BY <1>1, <1>2 DEF IsHeap, Block
    <2> QED
      BY <2>1
  <1>15. Whole(n, F \ {p}, K, {p})
    BY <1>2, <1>7, <1>10, <1>11, L = LastOf(h) DEF Whole, LastOf, L
  <1>16. TookLower(h, n, F, K, m, p)
    BY <1>8, <1>12, <1>13, <1>14, <1>15 DEF TookLower
  <1> QED
    BY <1>4, <1>16 DEF n, k

\* Nothing lies above lastsbrk, so the last step of dofree always lists the block.
LEMMA KeepFreeIs ==
  ASSUME NEW h, NEW F, NEW K, NEW m, Whole(h, F, K, {m}), h.blk[m].prev \notin F
  PROVE  \E G : Whole(KeepFree(h, m), G, K, {}) /\ Keep(h, KeepFree(h, m), K)
  <1>1. Body(h, F, K, {m}, LastOf(h)) /\ Owned(h, F, K, {m}, LastOf(h))
    BY DEF Whole, Body, Core
  <1>2. m \in DOMAIN h.blk
    BY <1>1 DEF Owned
  <1>3. ~(h.lastsbrk # NULL /\ h.lastsbrk = h.blk[m].prev)
    <2>1. SUFFICES ASSUME h.lastsbrk # NULL, h.lastsbrk = h.blk[m].prev PROVE FALSE
      OBVIOUS
    <2>2. h.blk[h.lastsbrk].next = m /\ m # NULL
      BY <1>1, <1>2, <2>1, NextIs
    <2>3. h.blk[h.lastsbrk].next = NULL
      BY <1>1, <2>1 DEF Owned, LastOf
    <2> QED
      BY <2>2, <2>3
  <1>4. KeepFree(h, m) = mv2freelist(h, m)
    BY <1>3 DEF KeepFree
  <1> QED
    BY <1>4, FreeListIs

\* dofree puts a block of the program, merged with its neighbours, on a free list
\* or into lastsbrk.
LEMMA DofreeIs ==
  ASSUME NEW h, NEW F, NEW K, Whole(h, F, K, {}), NEW m \in K
  PROVE  \E G : Whole(dofree(h, m), G, K \ {m}, {}) /\ Keep(h, dofree(h, m), K \ {m})
  <1> DEFINE J == K \ {m}
             L == LastOf(h)
             k == Mark(h, m, NONE)
             l == TakeUpper(k, m)
  <1>1. Body(h, F, J, {m}, L)
    <2>1. {} \cup {m} = {m} /\ Body(h, F, K, {}, L)
      BY DEF Whole
    <2> QED
      BY <2>1, BodyTake
  <1>2. IsHeap(h) /\ m \in DOMAIN h.blk
    BY <1>1 DEF Body, Core, Owned
  <1>3. NONE \in Link
    BY DEF Link, NoAddr
  <1>4. IsHeap(k) /\ LinksOnly(h, k, {m}) /\ k.freehdrs = h.freehdrs
    BY <1>2, <1>3, MarkIs DEF MarkedBy
  <1> HIDE DEF k
  <1>5. Body(k, F, J, {m}, L) /\ Keep(h, k, J)
    BY <1>1, <1>4, BodyLinks
  <1>6. k.lastsbrk = h.lastsbrk /\ DOMAIN k.blk = DOMAIN h.blk
    BY <1>4 DEF LinksOnly
  <1>7. Whole(k, F, J, {m})
    BY <1>5, <1>6 DEF Whole, LastOf
  <1>8. PICK G \in SUBSET F : Whole(l, G, J, {m}) /\ Keep(k, l, J)
    BY <1>7, TakeUpperIs
  <1>9. dofree(h, m) = TakeLower(l, m)
    BY DEF dofree, l, k
  <1> HIDE DEF l
  <1>10. Keep(h, l, J)
    BY <1>5, <1>8, KeepAdd
  <1> DEFINE p == l.blk[m].prev
  <1>11. ISFREE(l, p) <=> p \in G
    <2>1. Body(l, G, J, {m}, LastOf(l)) /\ m \in DOMAIN l.blk
      BY <1>8 DEF Whole, Body, Core, Owned
    <2>2. p \in G \cup J \cup LastOf(l) \cup {NULL}
      <3>1. /\ p # NULL => p \in DOMAIN l.blk
            /\ p # m
        BY <2>1, NextIs
      <3>2. DOMAIN l.blk = G \cup J \cup {m} \cup LastOf(l)
        BY <2>1 DEF Body, Core, Owned
      <3> QED
        BY <3>1, <3>2
    <2> QED
      BY <2>1, <2>2, FreeIs
  <1>12. CASE p \in G
    <2> DEFINE n == combinelo(l, m)
    <2>1. /\ Whole(n, G \ {p}, J, {p}) /\ Keep(l, n, J)
          /\ n.blk[p].prev \notin G \ {p}
      <3>1. TookLower(l, n, G, J, m, p)
        BY <1>8, <1>12, CombineLow
      <3> QED
        BY <3>1 DEF TookLower
    <2>2. TakeLower(l, m) = KeepFree(n, p)
      BY <1>11, <1>12 DEF TakeLower
    <2> HIDE DEF n, p
    <2>3. PICK H : Whole(KeepFree(n, p), H, J, {}) /\ Keep(n, KeepFree(n, p), J)
      BY <2>1, KeepFreeIs
    <2>4. Keep(h, n, J)
      BY <1>10, <2>1, KeepAdd
    <2>5. Keep(h, KeepFree(n, p), J)
      BY <2>3, <2>4, KeepAdd
    <2> QED
      BY <1>9, <2>2, <2>3, <2>5
  <1>13. CASE p \notin G
    <2>1. TakeLower(l, m) = KeepFree(l, m)
      BY <1>11, <1>13 DEF TakeLower
    <2>2. PICK H : Whole(KeepFree(l, m), H, J, {}) /\ Keep(l, KeepFree(l, m), J)
      BY <1>8, <1>13, KeepFreeIs
    <2>3. Keep(h, KeepFree(l, m), J)
      BY <1>10, <2>2, KeepAdd
    <2> QED
      BY <1>9, <2>1, <2>2, <2>3
  <1> QED
    BY <1>12, <1>13

\* No check of free fails for a block that the program holds.
LEMMA CallAccepted ==
  ASSUME NEW h, NEW F, NEW K, Whole(h, F, K, {}), NEW m \in K
  PROVE  ~ISFREE(h, m) /\ ~FOULED(h, m)
  <1>1. Body(h, F, K, {}, LastOf(h)) /\ Owned(h, F, K, {}, LastOf(h))
    BY DEF Whole, Body, Core
  <1>2. ~ISFREE(h, m)
    BY <1>1, FreeIs DEF Owned
  <1>3. h.blk[m].nextfree = NULL /\ h.lastsbrk # NULL
    BY <1>1 DEF Owned, Whole
  <1> QED
    BY <1>2, <1>3 DEF FOULED

LEMMA FreeKeeps ==
  ASSUME NEW h, NEW F, NEW K, Whole(h, F, K, {}), NEW m \in K
  PROVE  \E G : Whole(nfree(h, m), G, K \ {m}, {}) /\ Keep(h, nfree(h, m), K \ {m})
  <1>1. nfree(h, m) = dofree(h, m)
    BY CallAccepted DEF nfree
  <1> QED
    BY <1>1, DofreeIs

-----------------------------------------------------------------------------
(* Blocks that are cut to size.                                            *)

\* m was cut to s bytes or a little more, and handed over.
CutTo(h, n, K, m, s) ==
  /\ \E G : Whole(n, G, K \cup {m}, {})
  /\ Keep(h, n, K)
  /\ s <= n.blk[m].sz /\ n.blk[m].data = h.blk[m].data

\* m is cut to s bytes and kept; the rest is freed.
LEMMA CutIs ==
  ASSUME NEW h, NEW F, NEW K, NEW m, Whole(h, F, K, {m}), h.blk[m].nextfree = NULL,
         NEW s, CanSplit(h, m, s)
  PROVE  CutTo(h, mv2freelist(split(h, m, s), m + s), K, m, s)
  <1> DEFINE L == LastOf(h)
             k == split(h, m, s)
             c == m + s
             n == mv2freelist(k, c)
  <1>1. /\ Body(h, F, K, {m}, L) /\ IsHeap(h) /\ Chained(h)
        /\ Owned(h, F, K, {m}, L)
    BY DEF Whole, Body, Core
  <1>2. SplitOf(h, k, m, s) /\ k.lastsbrk = h.lastsbrk
    BY <1>1, SplitIs
  <1> HIDE DEF k
  <1>3. Body(k, F, K, {m, c}, L) /\ Keep(h, k, K) /\ c \notin F \cup K \cup {m} \cup L
    <2> DEFINE X == {m}
    <2>1. X \cup {c} = {m, c} /\ m \in X /\ Body(h, F, K, X, L)
      BY <1>1
    <2> HIDE DEF X, L
    <2>2. /\ Body(k, F, K, X \cup {m + s}, L) /\ Keep(h, k, K)
          /\ m + s \notin F \cup K \cup X \cup L
      BY <1>2, <2>1, BodySplit
    <2> QED
      BY <2>1, <2>2 DEF X
  <1>4. /\ k.blk[m].nextfree = NULL /\ k.blk[m].sz = s /\ k.blk[m].data = h.blk[m].data
        /\ k.blk[c].prev = m
    BY <1>2 DEF SplitOf
  <1>5. Body(k, F, K \cup {m}, {c}, L)
    <2>1. {m, c} \ {m} = {c}
      BY <1>3
    <2> QED
      BY <1>3, <1>4, <2>1, BodyGive
  <1> HIDE DEF c
  <1>6. Whole(k, F, K \cup {m}, {c})
    <2>1. LastOf(k) = L /\ h.lastsbrk # NULL
      BY <1>1, <1>2 DEF LastOf, Whole, Owned
    <2> QED
      BY <1>2, <1>5, <2>1 DEF Whole
  <1>7. k.blk[c].prev \notin F
    BY <1>1, <1>4 DEF Owned
  <1>8. (\E G : Whole(n, G, K \cup {m}, {})) /\ Keep(k, n, K \cup {m})
    BY <1>6, <1>7, FreeListIs
  <1>9. n.blk[m].sz = s /\ n.blk[m].data = h.blk[m].data
    BY <1>4, <1>8 DEF Keep
  <1>10. Keep(h, n, K)
    BY <1>3, <1>8 DEF Keep
  <1>11. s <= s
    BY DEF CanSplit
  <1> QED
    BY <1>8, <1>9, <1>10, <1>11 DEF CutTo, c, k

\* m is cut to s bytes and kept; the rest becomes lastsbrk.
LEMMA CutEnd ==
  ASSUME NEW h, NEW F, NEW K, NEW m, Body(h, F, K, {m}, {}), h.blk[m].nextfree = NULL,
         h.blk[m].next = NULL, NEW s, CanSplit(h, m, s)
  PROVE  CutTo(h, [split(h, m, s) EXCEPT !.lastsbrk = m + s], K, m, s)
  <1> DEFINE k == split(h, m, s)
             c == m + s
             n == [k EXCEPT !.lastsbrk = c]
  <1>1. /\ IsHeap(h) /\ Chained(h) /\ Owned(h, F, K, {m}, {})
    BY DEF Body, Core
  <1>2. SplitOf(h, k, m, s) /\ c \in Addr
    BY <1>1, SplitIs, SplitPlace
  <1> HIDE DEF k
  <1>3. Body(k, F, K, {m, c}, {}) /\ Keep(h, k, K) /\ c \notin F \cup K \cup {m}
    <2> DEFINE X == {m}
    <2>1. X \cup {c} = {m, c} /\ m \in X /\ Body(h, F, K, X, {})
      OBVIOUS
    <2> HIDE DEF X
    <2>2. /\ Body(k, F, K, X \cup {m + s}, {}) /\ Keep(h, k, K)
          /\ m + s \notin F \cup K \cup X \cup {}
      BY <1>2, <2>1, BodySplit
    <2> QED
      BY <2>1, <2>2 DEF X
  <1>4. /\ k.blk[m].nextfree = NULL /\ k.blk[m].sz = s /\ k.blk[m].data = h.blk[m].data
        /\ k.blk[c].prev = m /\ k.blk[c].next = NULL /\ k.blk[c].nextfree = NULL
    BY <1>2 DEF SplitOf
  <1> HIDE DEF c
  <1>5. Body(k, F, K, {m}, {c})
    <2>1. {m, c} \ {c} = {m} /\ m \notin F
      BY <1>1, <1>3 DEF Owned
    <2> QED
      BY <1>3, <1>4, <2>1, BodyAppoint
  <1>6. Body(k, F, K \cup {m}, {}, {c})
    <2>1. {m} \ {m} = {}
      OBVIOUS
    <2> QED
      BY <1>4, <1>5, <2>1, BodyGive
  <1>7. Body(n, F, K \cup {m}, {}, {c}) /\ Keep(k, n, K \cup {m}) /\ n.lastsbrk = c
    BY <1>2, <1>6, BodyLast
  <1>8. Whole(n, F, K \cup {m}, {})
    <2>1. c # NULL
      BY <1>2, Addresses
    <2>2. LastOf(n) = {c}
      BY <1>7, <2>1 DEF LastOf
    <2> QED
      BY <1>7, <2>1, <2>2 DEF Whole
  <1>9. n.blk[m].sz = s /\ n.blk[m].data = h.blk[m].data
    BY <1>4, <1>7 DEF Keep
  <1>10. Keep(h, n, K)
    BY <1>3, <1>7 DEF Keep
  <1>11. s <= s
    BY DEF CanSplit
  <1> HIDE DEF n
  <1>12. CutTo(h, n, K, m, s)
    BY <1>8, <1>9, <1>10, <1>11 DEF CutTo
  <1> QED
    BY <1>12 DEF n, c, k

-----------------------------------------------------------------------------
(* Allocation.                                                             *)

\* What an allocation of s bytes achieves: it leaves the heap alone, or gives the
\* program a block that it did not hold.
Served(h, K, r, s) ==
  \/ r.m = NULL /\ r.h = h
  \/ /\ r.m # NULL /\ r.m \notin K
     /\ \E G : Whole(r.h, G, K \cup {r.m}, {})
     /\ Keep(h, r.h, K)
     /\ s <= r.h.blk[r.m].sz

\* What roundup returns.
Rounding(s) == s \in Nat /\ Aligned(s) /\ MINSAVE <= s

\* The size of a block is a number below half of a word.
LEMMA SizeIs ==
  ASSUME NEW h, IsHeap(h), Chained(h), NEW m \in DOMAIN h.blk
  PROVE  /\ h.blk[m].sz \in Nat /\ DATAOFFSET <= h.blk[m].sz
         /\ h.blk[m].sz < WORD \div 2 /\ h.blk[m].sz < WORD
         /\ m \in Nat /\ m + h.blk[m].sz <= h.brk
  <1>1. /\ h.blk[m] \in Block /\ m \in Addr /\ h.brk \in START..LIMIT
        /\ DATAOFFSET <= h.blk[m].sz /\ m + h.blk[m].sz <= h.brk
    BY DEF IsHeap, Chained, Placed
  <1>2. h.blk[m].sz \in Nat
    BY <1>1 DEF Block
  <1>3. h.blk[m].sz <= LIMIT /\ m \in Nat
    BY <1>1, <1>2, Addresses, Constants
  <1>4. h.blk[m].sz < WORD \div 2
    BY <1>2, <1>3, Constants
  <1>5. h.blk[m].sz < WORD
    BY <1>2, <1>4, Constants
  <1> QED
    BY <1>1, <1>2, <1>3, <1>4, <1>5

\* searchfree finds the head of a list that is large enough.
LEMMA SearchIs ==
  ASSUME NEW h, NEW F, NEW K, NEW X, Whole(h, F, K, X), NEW s, Rounding(s), s < WORD \div 2
  PROVE  LET b == searchfree(h, s)
         IN  b # 0 => /\ b \in Lists /\ h.freehdrs[b] \in F
                      /\ Bucket(h, h.freehdrs[b]) = b
                      /\ s <= h.blk[h.freehdrs[b]].sz
  <1> DEFINE b == size2bucket(s)
             above == {c \in (b + 1)..(NFLISTS - 1) : h.freehdrs[c] # NULL}
  <1>1. IsHeap(h) /\ Chained(h) /\ Linked(h, F)
    BY DEF Whole, Body, Core
  <1>2. s \in Nat /\ s < WORD /\ DATAOFFSET <= s
    BY Constants, AlignSize DEF Rounding, MINSAVE
  <1>3. b \in Lists
    BY <1>2, BucketRange DEF Lists
  <1>4. \A c \in Lists : h.freehdrs[c] # NULL =>
                           /\ h.freehdrs[c] \in F /\ Bucket(h, h.freehdrs[c]) = c
                           /\ h.freehdrs[c] \in DOMAIN h.blk
    BY <1>1 DEF Linked
  <1>5. above \in SUBSET Nat /\ above \subseteq Lists /\ \A c \in above : b < c
    BY <1>3, Constants DEF Lists
  <1>6. CASE h.freehdrs[b] # NULL /\ h.blk[h.freehdrs[b]].sz >= s
    <2>1. searchfree(h, s) = b
      BY <1>6 DEF searchfree
    <2>2. h.blk[h.freehdrs[b]].sz \in Nat
      BY <1>1, <1>3, <1>4, <1>6, SizeIs
    <2> HIDE DEF b
    <2> QED
      BY <1>2, <1>3, <1>4, <1>6, <2>1, <2>2
  <1>7. CASE ~(h.freehdrs[b] # NULL /\ h.blk[h.freehdrs[b]].sz >= s)
    <2>1. searchfree(h, s) = IF above = {} THEN 0
                             ELSE CHOOSE c \in above : \A d \in above : c <= d
      BY <1>7 DEF searchfree
    <2> HIDE DEF above
    <2>2. CASE above # {}
      <3> DEFINE c == CHOOSE c \in above : \A d \in above : c <= d
      <3>1. \E x \in above : \A y \in above : x <= y
        BY <1>5, <2>2, LeastIn
      <3>2. c \in above
        BY <3>1, Zenon
      <3>3. searchfree(h, s) = c
        BY <2>1, <2>2
      <3> HIDE DEF c
      <3>4. c \in Lists /\ b < c /\ h.freehdrs[c] # NULL
        BY <1>5, <3>2 DEF above
      <3>5. /\ h.freehdrs[c] \in F /\ Bucket(h, h.freehdrs[c]) = c
            /\ h.freehdrs[c] \in DOMAIN h.blk
        BY <1>4, <3>4
      <3>6. h.blk[h.freehdrs[c]].sz \in Nat /\ h.blk[h.freehdrs[c]].sz < WORD
        BY <1>1, <3>5, SizeIs
      <3>7. s < h.blk[h.freehdrs[c]].sz
        BY <1>2, <3>4, <3>5, <3>6, BucketOrder DEF Bucket
      <3> QED
        BY <1>2, <3>3, <3>4, <3>5, <3>6, <3>7
    <2>3. CASE above = {}
      BY <2>1, <2>3
    <2> QED
      BY <2>2, <2>3
  <1> QED
    BY <1>6, <1>7

\* A block that is at least MINSAVE too large can be cut.
LEMMA Cuttable ==
  ASSUME NEW h, IsHeap(h), Chained(h), NEW m \in DOMAIN h.blk, NEW s, Rounding(s),
         s + DATAOFFSET <= h.blk[m].sz
  PROVE  CanSplit(h, m, s)
  BY Constants DEF CanSplit, Rounding, MINSAVE

\* A block of a free list is served.
LEMMA TakeFreeIs ==
  ASSUME NEW h, NEW F, NEW K, Whole(h, F, K, {}), NEW s, Rounding(s),
         NEW b \in Lists, h.freehdrs[b] \in F, Bucket(h, h.freehdrs[b]) = b,
         s <= h.blk[h.freehdrs[b]].sz
  PROVE  LET r == TakeFree(h, b, s)
         IN  Served(h, K, r, s) /\ r.m = h.freehdrs[b] /\ r.m # NULL
  <1> DEFINE m == h.freehdrs[b]
             k == rmvfromfree(h, m)
             L == LastOf(h)
  <1>1. /\ Body(h, F, K, {}, L) /\ IsHeap(h) /\ Chained(h) /\ Linked(h, F)
        /\ Owned(h, F, K, {}, L) /\ m \in DOMAIN h.blk
    BY DEF Whole, Body, Core, Linked
  <1>2. m # NULL /\ m \notin K
    BY <1>1, NextIs DEF Owned
  <1>3. h.freehdrs[Bucket(h, m)] = m
    OBVIOUS
  <1> HIDE DEF m
  <1>4. Unlinked(h, k, F, m)
    BY <1>1, <1>3, RemoveUnlinks DEF m
  <1> HIDE DEF k
  <1>5. Body(k, F \ {m}, K, {m}, L) /\ Keep(h, k, K)
    <2>1. {} \cup {m} = {m} /\ m \in F
      BY DEF m
    <2> QED
      BY <1>1, <1>4, <2>1, BodyUnlink
  <1>6. /\ k.lastsbrk = h.lastsbrk /\ DOMAIN k.blk = DOMAIN h.blk
        /\ k.blk[m].sz = h.blk[m].sz /\ k.blk[m].nextfree = NULL
    BY <1>1, <1>4 DEF Unlinked, LinksOnly
  <1>7. Whole(k, F \ {m}, K, {m})
    BY <1>5, <1>6 DEF Whole, LastOf, L
  <1>8. h.blk[m].sz \in Nat /\ s \in Nat /\ s <= h.blk[m].sz
    BY <1>1, SizeIs DEF Rounding, m
  <1>9. CASE h.blk[m].sz < s + MINSAVE
    <2>1. TakeFree(h, b, s) = Result(k, m)
      BY <1>9 DEF TakeFree, m, k
    <2>2. Body(k, F \ {m}, K \cup {m}, {}, L)
      <3>1. {m} \ {m} = {}
        OBVIOUS
      <3> QED
        BY <1>5, <1>6, <3>1, BodyGive
    <2>3. Whole(k, F \ {m}, K \cup {m}, {})
      BY <1>6, <1>7, <2>2 DEF Whole, LastOf, L
    <2> QED
      BY <1>2, <1>5, <1>6, <1>8, <2>1, <2>3 DEF Served, Result, m
  <1>10. CASE ~(h.blk[m].sz < s + MINSAVE)
    <2> DEFINE n == mv2freelist(split(k, m, s), m + s)
    <2>1. TakeFree(h, b, s) = Result(n, m)
      BY <1>10 DEF TakeFree, m, k
    <2>2. IsHeap(k) /\ Chained(k) /\ m \in DOMAIN k.blk
      BY <1>1, <1>5, <1>6 DEF Body, Core
    <2>3. s + DATAOFFSET <= k.blk[m].sz
      BY <1>6, <1>8, <1>10, Constants DEF MINSAVE
    <2>4. CanSplit(k, m, s)
      BY <2>2, <2>3, Cuttable
    <2>5. CutTo(k, n, K, m, s)
      BY <1>6, <1>7, <2>4, CutIs
    <2> HIDE DEF n
    <2>6. Keep(h, n, K)
      BY <1>5, <2>5, KeepAdd DEF CutTo
    <2> QED
      BY <1>2, <1>8, <2>1, <2>5, <2>6 DEF CutTo, Served, Result, m
  <1> QED
    BY <1>9, <1>10

\* The lower part of lastsbrk is served.
LEMMA SplitlastIs ==
  ASSUME NEW h, NEW F, NEW K, Whole(h, F, K, {}), NEW s, Rounding(s),
         h.lastsbrk # NULL, s + DATAOFFSET <= h.blk[h.lastsbrk].sz
  PROVE  CutTo(h, splitlast(h, s), K, h.lastsbrk, s) /\ h.lastsbrk \notin K
  <1> DEFINE l == h.lastsbrk
  <1>1. /\ Body(h, F, K, {}, {l}) /\ IsHeap(h) /\ Chained(h) /\ Owned(h, F, K, {}, {l})
    <2>1. LastOf(h) = {l}
      BY DEF LastOf
    <2> QED
      BY <2>1 DEF Whole, Body, Core
  <1>2. /\ l \in DOMAIN h.blk /\ h.blk[l].nextfree = NULL /\ h.blk[l].next = NULL
        /\ l \notin K
    BY <1>1 DEF Owned
  <1>3. Body(h, F, K, {l}, {})
    <2>1. {} \cup {l} = {l}
      OBVIOUS
    <2> QED
      BY <1>1, <2>1, BodyRetire
  <1>4. CanSplit(h, l, s)
    BY <1>1, <1>2, Cuttable
  <1>5. splitlast(h, s) = [split(h, l, s) EXCEPT !.lastsbrk = l + s]
    BY DEF splitlast
  <1>6. CutTo(h, [split(h, l, s) EXCEPT !.lastsbrk = l + s], K, l, s)
    BY <1>2, <1>3, <1>4, CutEnd
  <1> QED
    BY <1>2, <1>5, <1>6

LEMMA LastServes ==
  ASSUME NEW h, NEW F, NEW K, Whole(h, F, K, {}), NEW s, Rounding(s),
         h.lastsbrk # NULL, s + DATAOFFSET <= h.blk[h.lastsbrk].sz
  PROVE  Served(h, K, Result(splitlast(h, s), h.lastsbrk), s)
  <1>1. CutTo(h, splitlast(h, s), K, h.lastsbrk, s) /\ h.lastsbrk \notin K
    BY SplitlastIs
  <1> QED
    BY <1>1 DEF CutTo, Served, Result

-----------------------------------------------------------------------------
(* Memory from sbrk.                                                       *)

LEMMA ToAlignIs ==
  ASSUME NEW a \in Nat
  PROVE  ToAlign(a) \in 0..(ALIGN - 1) /\ Aligned(a + ToAlign(a))
  <1>1. ALIGN \in Nat \ {0}
    BY Constants, AlignSize
  <1>2. PICK q \in Nat : q = a \div ALIGN
    BY <1>1, Division
  <1>3. PICK r \in 0..(ALIGN - 1) : r = a % ALIGN
    BY <1>1, Division
  <1>4. a = ALIGN * q + r
    BY <1>1, <1>2, <1>3, Division
  <1>5. PICK y \in Nat : y = ALIGN * q
    BY <1>1
  <1>6. Aligned(y) /\ a = y + r
    BY <1>4, <1>5 DEF Aligned
  <1>7. ToAlign(a) = (ALIGN - r) % ALIGN
    BY <1>3 DEF ToAlign
  <1>8. CASE r = 0
    <2>1. ALIGN % ALIGN = 0
      <3>1. Aligned(ALIGN)
        BY AlignSize
      <3> QED
        BY <1>1, <3>1, AlignedMod
    <2>2. ToAlign(a) = 0
      BY <1>1, <1>7, <1>8, <2>1
    <2>3. a + ToAlign(a) = y
      BY <1>5, <1>6, <1>8, <2>2
    <2> QED
      BY <1>1, <1>6, <2>2, <2>3
  <1>9. CASE r # 0
    <2>1. ALIGN - r \in 0..(ALIGN - 1)
      BY <1>1, <1>9
    <2>2. ToAlign(a) = ALIGN - r
      BY <1>1, <1>7, <2>1, SmallMod
    <2>3. a + ToAlign(a) = y + ALIGN
      BY <1>1, <1>5, <1>6, <2>2
    <2>4. Aligned(y + ALIGN)
      BY <1>6, AlignSize, AlignedSum
    <2> QED
      BY <2>1, <2>2, <2>3, <2>4
  <1> QED
    BY <1>8, <1>9

\* sbrk is asked for enough to realign and to leave a header.
LEMMA SbrkSize ==
  ASSUME NEW h, IsHeap(h), Chained(h), h.lastsbrk # NULL => h.lastsbrk \in DOMAIN h.blk,
         NEW s \in Nat
  PROVE  sbrk_size(h, s) \in Nat /\ s + 2 * ALIGN + DATAOFFSET <= sbrk_size(h, s)
  <1>1. Extra(s) \in Nat /\ s + 2 * ALIGN + DATAOFFSET <= Extra(s)
    BY Constants DEF Extra
  <1>2. CASE h.lastsbrk = NULL
    <2>1. sbrk_size(h, s) = Extra(s) + 0
      BY <1>2 DEF sbrk_size
    <2> QED
      BY <1>1, <2>1
  <1>3. CASE h.lastsbrk # NULL
    <2> DEFINE e == h.lastsbrk + h.blk[h.lastsbrk].sz
    <2>1. e \in Nat
      BY <1>3, SizeIs
    <2>2. sbrk_size(h, s) = Extra(s) + ToAlign(e)
      BY <1>3 DEF sbrk_size
    <2> HIDE DEF e
    <2>3. ToAlign(e) \in Nat
      BY <2>1, ToAlignIs, Constants
    <2> QED
      BY <1>1, <2>2, <2>3, Constants
  <1> QED
    BY <1>2, <1>3

\* What extendsbrk achieves: lastsbrk can supply s bytes.
Extended(h, n, K, s) ==
  /\ \E G : Whole(n, G, K, {})
  /\ Keep(h, n, K)
  /\ n.lastsbrk # NULL /\ s + MINSAVE <= n.blk[n.lastsbrk].sz

\* lastsbrk grows.
LEMMA ExtendNear ==
  ASSUME NEW h, NEW F, NEW K, Whole(h, F, K, {}), NEW s \in Nat, h.lastsbrk # NULL,
         h.brk = h.lastsbrk + h.blk[h.lastsbrk].sz,
         ~sbrk_fails(h, sbrk_size(h, s))
  PROVE  Extended(h, extendsbrk(h, s), K, s)
  <1> DEFINE d == sbrk_size(h, s)
             l == h.lastsbrk
             e == h.brk + d
             n == [h EXCEPT !.brk = h.brk + d, !.blk[l].sz = @ + d]
             t == h.blk[l].sz + d
  <1>1. /\ IsHeap(h) /\ Chained(h) /\ Owned(h, F, K, {}, {l}) /\ Linked(h, F)
        /\ Ranked(h, F) /\ Merged(h, F, {l}) /\ Findable(h) /\ h.fouled = "no"
    <2>1. LastOf(h) = {l}
      BY DEF LastOf
    <2> QED
      BY <2>1 DEF Whole, Body, Core
  <1>2. l \in DOMAIN h.blk
    BY <1>1 DEF Owned
  <1>3. /\ d \in Nat /\ s + 2 * ALIGN + DATAOFFSET <= d /\ h.blk[l].sz \in Nat
        /\ l \in Nat /\ DATAOFFSET <= h.blk[l].sz
        /\ h.brk \in START..LIMIT /\ START \in Nat /\ LIMIT \in Nat
    BY <1>1, <1>2, SbrkSize, SizeIs, Constants DEF IsHeap
  <1>4. e \in START..LIMIT /\ h.brk <= e /\ t \in Nat /\ h.blk[l].sz <= t
        /\ l + t = e
    BY <1>3 DEF sbrk_fails
  <1>5. extendsbrk(h, s) = [[h EXCEPT !.brk = h.brk + d] EXCEPT !.blk[l].sz = @ + d]
    BY DEF extendsbrk
  <1>6. extendsbrk(h, s) = n
    BY <1>1, <1>5 DEF IsHeap, Parts
  <1>7. /\ n.blk = [h.blk EXCEPT ![l].sz = t] /\ n.brk = e
        /\ n.freehdrs = h.freehdrs /\ n.lastsbrk = l /\ n.sbrkbgn = h.sbrkbgn
        /\ n.taken = h.taken /\ n.leaked = h.leaked /\ n.fouled = h.fouled
        /\ n = [x \in Parts |-> n[x]]
    BY <1>1 DEF IsHeap, Parts
  <1> HIDE DEF n, d, e, t
  <1>8. /\ DOMAIN n.blk = DOMAIN h.blk
        /\ \A a \in DOMAIN h.blk : a # l => n.blk[a] = h.blk[a]
        /\ n.blk[l] = [h.blk[l] EXCEPT !.sz = t]
        /\ n.blk = [a \in DOMAIN n.blk |-> n.blk[a]]
    BY <1>1, <1>2, <1>7 DEF IsHeap
  <1>9. /\ n.blk[l] \in Block /\ n.blk[l].sz = t
        /\ n.blk[l].prev = h.blk[l].prev /\ n.blk[l].next = h.blk[l].next
        /\ n.blk[l].nextfree = h.blk[l].nextfree /\ n.blk[l].data = h.blk[l].data
    <2>1. h.blk[l] \in Block
      BY <1>1, <1>2 DEF IsHeap
    <2> QED
      BY <1>4, <1>8, <2>1 DEF Block
  <1>10. IsHeap(n)
    BY <1>1, <1>4, <1>7, <1>8, <1>9 DEF IsHeap
  <1>11. h.blk[l].next = NULL /\ h.blk[l].nextfree = NULL
    BY <1>1 DEF Owned
  <1>12. ASSUME NEW a \in DOMAIN n.blk
         PROVE  Placed(n, a)
    <2>1. Placed(h, a) /\ a \in DOMAIN h.blk /\ a \in Nat /\ h.blk[a].sz \in Nat
          /\ a + h.blk[a].sz <= h.brk
      BY <1>1, <1>8, SizeIs DEF Chained
    <2>2. /\ n.blk[a].next # NULL => /\ n.blk[a].next = a + n.blk[a].sz
                                     /\ n.blk[a].next \in DOMAIN n.blk
                                     /\ n.blk[n.blk[a].next].prev = a
          /\ n.blk[a].prev # NULL => /\ n.blk[a].prev \in DOMAIN n.blk
                                     /\ n.blk[n.blk[a].prev].next = a
      <3>1. \A x \in DOMAIN h.blk : n.blk[x].next = h.blk[x].next
                                    /\ n.blk[x].prev = h.blk[x].prev
        BY <1>8, <1>9
      <3>2. n.blk[a].next # NULL => n.blk[a].sz = h.blk[a].sz
        BY <1>8, <1>9, <1>11
      <3> QED
        BY <1>8, <2>1, <3>1, <3>2 DEF Placed
    <2>3. CASE a = l
      <3>1. Aligned(a) /\ DATAOFFSET <= n.blk[a].sz /\ a + n.blk[a].sz <= n.brk
        <4>1. n.blk[a].sz = t /\ a + t = n.brk /\ n.brk \in Nat
          BY <1>3, <1>4, <1>7, <1>9, <2>3
        <4>2. DATAOFFSET <= t
          BY <1>3, <1>4, Constants
        <4> QED
          BY <2>1, <4>1, <4>2 DEF Placed
      <3>2. ASSUME NEW c \in DOMAIN n.blk, c > a
            PROVE  a + n.blk[a].sz <= c
        <4>1. a + h.blk[a].sz <= c
          BY <1>8, <2>1, <3>2 DEF Placed
        <4>2. c \in Nat /\ h.blk[c].sz \in Nat /\ DATAOFFSET <= h.blk[c].sz
              /\ c + h.blk[c].sz <= h.brk
          BY <1>1, <1>8, SizeIs
        <4> QED
          BY <1>3, <2>1, <2>3, <4>1, <4>2, Constants
      <3>3. ASSUME NEW x \in n.taken
            PROVE  x < a \/ a + n.blk[a].sz <= x
        <4>1. (x < a \/ a + h.blk[a].sz <= x) /\ x \in START..(h.brk - 1)
          BY <1>1, <1>7, <2>1 DEF Placed, Chained
        <4> QED
          BY <1>3, <2>1, <2>3, <4>1
      <3> QED
        BY <2>2, <3>1, <3>2, <3>3 DEF Placed
    <2>4. CASE a # l
      <3>1. n.blk[a] = h.blk[a]
        BY <1>8, <2>1, <2>4
      <3>2. a + n.blk[a].sz <= n.brk
        BY <1>3, <1>4, <1>7, <2>1, <3>1
      <3> QED
        BY <1>7, <1>8, <2>1, <2>2, <3>1, <3>2 DEF Placed
    <2> QED
      BY <2>3, <2>4
  <1>13. Chained(n)
    <2>1. n.taken \subseteq START..(n.brk - 1)
      BY <1>1, <1>3, <1>4, <1>7 DEF Chained
    <2> QED
      BY <1>12, <2>1 DEF Chained
  <1>14. \A a \in F \cup K : a \in DOMAIN h.blk /\ n.blk[a] = h.blk[a]
    BY <1>1, <1>8 DEF Owned
  <1>15. Linked(n, F) /\ Ranked(n, F)
    BY <1>1, <1>7, <1>8, <1>14, KeptLists
  <1>16. Owned(n, F, K, {}, {l}) /\ Merged(n, F, {l}) /\ Keep(h, n, K)
    <2>1. Keep(h, n, K)
      BY <1>7, <1>14 DEF Keep
    <2>2. Merged(n, F, {l})
      BY <1>1, <1>14 DEF Merged
    <2>3. Owned(h, F, K, {}, {l})
      BY <1>1
    <2>4. DOMAIN n.blk = F \cup K \cup {} \cup {l}
      BY <1>8, <2>3 DEF Owned
    <2>5. \A a \in K \cup {l} : n.blk[a].nextfree = NULL
      BY <1>9, <1>14, <2>3 DEF Owned
    <2>6. n.blk[l].next = NULL
      BY <1>9, <2>3 DEF Owned
    <2>7. Owned(n, F, K, {}, {l})
      BY <2>3, <2>4, <2>5, <2>6 DEF Owned
    <2> QED
      BY <2>1, <2>2, <2>7
  <1>17. Findable(n)
    <2>1. BasesOf(n) = BasesOf(h)
      BY <1>8, <1>9 DEF BasesOf
    <2> QED
      BY <1>1, <1>7, <2>1 DEF Findable
  <1>18. Whole(n, F, K, {})
    <2>1. LastOf(n) = {l} /\ n.lastsbrk # NULL
      BY <1>7 DEF LastOf
    <2> QED
      BY <1>1, <1>7, <1>10, <1>13, <1>15, <1>16, <1>17, <2>1 DEF Whole, Body, Core
  <1>19. s + MINSAVE <= n.blk[n.lastsbrk].sz
    <2>1. t = h.blk[l].sz + d
      BY DEF t
    <2> QED
      BY <1>3, <1>7, <1>9, <2>1, Constants DEF MINSAVE
  <1> QED
    BY <1>6, <1>7, <1>16, <1>18, <1>19 DEF Extended

\* A block is added above all others.
Fresh(z) == [prev |-> NULL, next |-> NULL, sz |-> z, nextfree |-> NULL, prevfree |-> NULL,
             data |-> "junk"]

AddedTo(h, n, m, z, e) ==
  /\ IsHeap(n) /\ n.freehdrs = h.freehdrs /\ n.lastsbrk = h.lastsbrk
  /\ n.sbrkbgn = h.sbrkbgn /\ n.taken = h.taken /\ n.leaked = h.leaked
  /\ n.fouled = h.fouled /\ n.brk = e
  /\ DOMAIN n.blk = DOMAIN h.blk \cup {m}
  /\ n.blk[m] = Fresh(z)
  /\ \A a \in DOMAIN h.blk \ {m} : n.blk[a] = h.blk[a]

LEMMA AddIs ==
  ASSUME NEW h, IsHeap(h), NEW m \in Addr, NEW z \in Nat, NEW e \in START..LIMIT
  PROVE  AddedTo(h, Add([h EXCEPT !.brk = e], m, Fresh(z)), m, z, e)
  <1> DEFINE g == [h EXCEPT !.brk = e]
             B == [a \in DOMAIN h.blk \cup {m} |-> IF a = m THEN Fresh(z) ELSE h.blk[a]]
             n == [g EXCEPT !.blk = B]
  <1>1. g.blk = h.blk
    BY DEF IsHeap, Parts
  <1>2. Add(g, m, Fresh(z)) = n
    BY <1>1 DEF Add
  <1>3. /\ DOMAIN B = DOMAIN h.blk \cup {m} /\ B[m] = Fresh(z)
        /\ \A a \in DOMAIN h.blk \ {m} : B[a] = h.blk[a]
        /\ B = [a \in DOMAIN B |-> B[a]]
    OBVIOUS
  <1> HIDE DEF B
  <1>4. /\ g.freehdrs = h.freehdrs /\ g.lastsbrk = h.lastsbrk
        /\ g.sbrkbgn = h.sbrkbgn /\ g.taken = h.taken /\ g.leaked = h.leaked
        /\ g.fouled = h.fouled /\ g.brk = e
        /\ g = [x \in Parts |-> g[x]]
    BY DEF IsHeap, Parts
  <1> HIDE DEF g
  <1>5. /\ n.blk = B /\ n.freehdrs = g.freehdrs /\ n.lastsbrk = g.lastsbrk
        /\ n.sbrkbgn = g.sbrkbgn /\ n.taken = g.taken /\ n.leaked = g.leaked
        /\ n.fouled = g.fouled /\ n.brk = g.brk
    BY <1>4 DEF Parts
  <1>6. n = [x \in Parts |-> n[x]]
    BY <1>4
  <1> HIDE DEF n
  <1>7. Fresh(z) \in Block
    BY DEF Fresh, Block, Link, NoAddr
  <1>8. IsHeap(n)
    BY <1>3, <1>4, <1>5, <1>6, <1>7 DEF IsHeap
  <1>9. AddedTo(h, n, m, z, e)
    BY <1>3, <1>4, <1>5, <1>8 DEF AddedTo
  <1> QED
    BY <1>2, <1>9 DEF g

\* n is h with a new block m of z bytes.
Added(h, n, F, K, m, z) ==
  /\ Core(n, F, K, {m}, LastOf(h)) /\ Keep(h, n, K)
  /\ n.lastsbrk = h.lastsbrk /\ n.sbrkbgn = h.sbrkbgn
  /\ n.blk[m] = Fresh(z) /\ m \notin DOMAIN h.blk
  /\ BasesOf(n) = BasesOf(h) \cup {m}

LEMMA AddedCore ==
  ASSUME NEW h, NEW F, NEW K, Whole(h, F, K, {}), NEW m \in Addr, NEW z \in Nat,
         NEW e \in START..LIMIT, h.brk <= m, Aligned(m), DATAOFFSET <= z, m + z = e
  PROVE  Added(h, Add([h EXCEPT !.brk = e], m, Fresh(z)), F, K, m, z)
  <1> DEFINE n == Add([h EXCEPT !.brk = e], m, Fresh(z))
             L == LastOf(h)
  <1>1. /\ IsHeap(h) /\ Chained(h) /\ Owned(h, F, K, {}, L) /\ Linked(h, F)
        /\ Ranked(h, F) /\ Merged(h, F, L) /\ h.fouled = "no"
    BY DEF Whole, Body, Core
  <1>2. /\ IsHeap(n) /\ n.freehdrs = h.freehdrs /\ n.lastsbrk = h.lastsbrk
        /\ n.sbrkbgn = h.sbrkbgn /\ n.taken = h.taken /\ n.leaked = h.leaked
        /\ n.fouled = h.fouled /\ n.brk = e
        /\ DOMAIN n.blk = DOMAIN h.blk \cup {m}
        /\ n.blk[m] = Fresh(z)
        /\ \A a \in DOMAIN h.blk \ {m} : n.blk[a] = h.blk[a]
    <2>1. AddedTo(h, n, m, z, e)
      BY <1>1, AddIs
    <2> HIDE DEF n
    <2> QED
      BY <2>1 DEF AddedTo
  <1> HIDE DEF n
  <1>3. /\ h.brk \in Nat /\ m \in Nat /\ e \in Nat /\ h.brk <= e
        /\ DATAOFFSET \in Nat /\ DATAOFFSET > 0 /\ START \in Nat
    <2>1. h.brk \in START..LIMIT /\ h.brk \in Nat
      <3>1. h.brk \in START..LIMIT
        BY <1>1 DEF IsHeap
      <3> QED
        BY <3>1, Constants
    <2>2. m \in Nat /\ e \in Nat
      BY Constants DEF Addr
    <2>3. h.brk <= e
      BY <2>1, <2>2
    <2> QED
      BY <2>1, <2>2, <2>3, Constants
  <1>4. \A a \in DOMAIN h.blk : /\ a \in Nat /\ h.blk[a].sz \in Nat
                                /\ DATAOFFSET <= h.blk[a].sz
                                /\ a + h.blk[a].sz <= h.brk
    BY <1>1, SizeIs
  <1>5. \A a \in DOMAIN h.blk : a < m /\ a # m /\ n.blk[a] = h.blk[a]
    BY <1>2, <1>3, <1>4
  <1>6. /\ n.blk[m].prev = NULL /\ n.blk[m].next = NULL /\ n.blk[m].sz = z
        /\ n.blk[m].nextfree = NULL
    BY <1>2 DEF Fresh
  <1>7. ASSUME NEW a \in DOMAIN h.blk
        PROVE  Placed(n, a)
    <2>1. Placed(h, a)
      BY <1>1 DEF Chained
    <2>2. a + n.blk[a].sz <= n.brk /\ a + n.blk[a].sz <= m
      BY <1>2, <1>3, <1>4, <1>5
    <2>3. \A c \in DOMAIN n.blk : c > a => a + n.blk[a].sz <= c
      BY <1>2, <1>5, <2>1, <2>2 DEF Placed
    <2> QED
      BY <1>2, <1>5, <2>1, <2>2, <2>3 DEF Placed
  <1>8. Placed(n, m)
    <2>1. ASSUME NEW c \in DOMAIN n.blk, c > m
          PROVE  m + n.blk[m].sz <= c
      <3>1. c = m \/ c < m
        BY <1>2, <1>5
      <3>2. c \in Nat
        BY <1>2, <1>3, <1>4
      <3> QED
        BY <1>3, <2>1, <3>1, <3>2
    <2>2. ASSUME NEW x \in n.taken
          PROVE  x < m \/ m + n.blk[m].sz <= x
      <3>1. x \in START..(h.brk - 1)
        BY <1>1, <1>2 DEF Chained
      <3> QED
        BY <1>3, <3>1
    <2>3. m + n.blk[m].sz <= n.brk
      BY <1>2, <1>3, <1>6
    <2> QED
      BY <1>6, <2>1, <2>2, <2>3 DEF Placed
  <1>9. Chained(n)
    <2>1. n.taken \subseteq START..(n.brk - 1)
      BY <1>1, <1>2, <1>3 DEF Chained
    <2> QED
      BY <1>2, <1>7, <1>8, <2>1 DEF Chained
  <1>10. F \subseteq DOMAIN h.blk /\ K \subseteq DOMAIN h.blk /\ L \subseteq DOMAIN h.blk
    BY <1>1 DEF Owned
  <1>11. Linked(n, F) /\ Ranked(n, F)
    BY <1>1, <1>2, <1>5, <1>10, KeptLists
  <1>12. m \notin DOMAIN h.blk
    BY <1>5
  <1>13. Owned(n, F, K, {m}, L)
    <2>1. DOMAIN n.blk = F \cup K \cup {m} \cup L
      BY <1>1, <1>2 DEF Owned
    <2>2. \A a \in K \cup L : n.blk[a].nextfree = NULL
      BY <1>1, <1>5, <1>10 DEF Owned
    <2>3. \A a \in L : n.blk[a].next = NULL
      BY <1>1, <1>5, <1>10 DEF Owned
    <2> QED
      BY <1>1, <1>10, <1>12, <2>1, <2>2, <2>3 DEF Owned
  <1>14. Merged(n, F, L)
    BY <1>1, <1>5, <1>10 DEF Merged
  <1>15. Keep(h, n, K)
    BY <1>2, <1>5, <1>10 DEF Keep
  <1>16. BasesOf(n) = BasesOf(h) \cup {m}
    BY <1>2, <1>5, <1>6 DEF BasesOf
  <1>17. Core(n, F, K, {m}, L)
    BY <1>1, <1>2, <1>9, <1>11, <1>13, <1>14 DEF Core
  <1>18. Added(h, n, F, K, m, z)
    BY <1>2, <1>12, <1>15, <1>16, <1>17 DEF Added
  <1> QED
    BY <1>18 DEF n

\* The base of a new chain is recorded, unless the table is full.
Recorded(p, n) ==
  /\ IsHeap(n) /\ Findable(n) /\ n.blk = p.blk /\ n.freehdrs = p.freehdrs
  /\ n.lastsbrk = p.lastsbrk /\ n.brk = p.brk /\ n.taken = p.taken
  /\ n.leaked = p.leaked /\ n.fouled = p.fouled

LEMMA BaseRecorded ==
  ASSUME NEW h, IsHeap(h), Findable(h), NEW p, IsHeap(p), p.sbrkbgn = h.sbrkbgn,
         NEW m \in Addr, m \notin BasesOf(h), BasesOf(p) = BasesOf(h) \cup {m}
  PROVE  Recorded(p, recordnewsbrk(p, m))
  <1> DEFINE n == recordnewsbrk(p, m)
             s == h.sbrkbgn
             B == BasesOf(h)
  <1>1. s \in Seq(Addr) /\ Len(s) \in Nat /\ DOMAIN s = 1..Len(s) /\ MAXSBRKS \in Nat
    BY Constants DEF IsHeap
  <1>2. /\ Len(s) < MAXSBRKS
        /\ \A i \in DOMAIN s : s[i] \in B /\ \A j \in 1..(i - 1) : s[j] # s[i]
        /\ Len(s) = Cardinality(B) \/ (Len(s) = MAXSBRKS - 1 /\ Cardinality(B) >= MAXSBRKS)
    <2>1. Len(s) < MAXSBRKS
      BY DEF Findable
    <2>2. \A i \in DOMAIN s : s[i] \in B /\ \A j \in 1..(i - 1) : s[j] # s[i]
      BY <2>1 DEF Findable
    <2>3. Len(s) = Cardinality(B) \/ (Len(s) = MAXSBRKS - 1 /\ Cardinality(B) >= MAXSBRKS)
      BY DEF Findable
    <2> QED
      BY <2>1, <2>2, <2>3
  <1>3. /\ IsFiniteSet(B) /\ Cardinality(B) \in Nat
        /\ Cardinality(B \cup {m}) = Cardinality(B) + 1
    <2>1. B \subseteq START..LIMIT /\ START \in Int /\ LIMIT \in Int
      <3>1. B \subseteq START..LIMIT
        BY Constants DEF BasesOf, IsHeap, Addr
      <3>2. START \in Int
        BY <3>1, Constants DEF BasesOf, IsHeap, Addr
      <3>3. LIMIT \in Int
        BY <3>1, <3>2, Constants DEF BasesOf, IsHeap, Addr
      <3> QED
        BY <3>1, <3>2, <3>3
    <2>2. IsFiniteSet(START..LIMIT)
      BY <2>1, FS_Interval
    <2>3. IsFiniteSet(B)
      BY <2>1, <2>2, FS_Subset
    <2> QED
      BY <2>3, FS_AddElement, FS_CardinalityType
  <1>4. \A i \in DOMAIN s : s[i] # m
    BY <1>2
  <1> HIDE DEF B
  <1>5. CASE Len(s) < MAXSBRKS - 1
    <2>1. n = [p EXCEPT !.sbrkbgn = Append(s, m)]
      BY <1>4, <1>5 DEF recordnewsbrk, IsHeap, Parts
    <2> DEFINE t == Append(s, m)
    <2>2. /\ n.blk = p.blk /\ n.freehdrs = p.freehdrs
          /\ n.lastsbrk = p.lastsbrk /\ n.brk = p.brk /\ n.taken = p.taken
          /\ n.leaked = p.leaked /\ n.fouled = p.fouled /\ n.sbrkbgn = t
          /\ n = [x \in Parts |-> n[x]]
      BY <2>1 DEF IsHeap, Parts
    <2>3. /\ t \in Seq(Addr) /\ Len(t) = Len(s) + 1 /\ DOMAIN t = 1..(Len(s) + 1)
          /\ \A i \in 1..Len(s) : t[i] = s[i]
          /\ t[Len(s) + 1] = m
      BY <1>1
    <2> HIDE DEF n, t
    <2>4. IsHeap(n)
      BY <2>2, <2>3 DEF IsHeap
    <2>5. BasesOf(n) = B \cup {m}
      BY <2>2 DEF BasesOf, B
    <2>6. Len(s) = Cardinality(B)
      BY <1>1, <1>2, <1>5
    <2>7. ASSUME NEW i \in DOMAIN t
          PROVE  t[i] \in B \cup {m} /\ \A j \in 1..(i - 1) : t[j] # t[i]
      <3>1. CASE i \in 1..Len(s)
        <4>1. t[i] = s[i] /\ \A j \in 1..(i - 1) : t[j] = s[j]
          BY <1>1, <2>3, <3>1
        <4> QED
          BY <1>1, <1>2, <3>1, <4>1
      <3>2. CASE i = Len(s) + 1
        <4>1. t[i] = m /\ \A j \in 1..(i - 1) : t[j] = s[j] /\ j \in DOMAIN s
          BY <1>1, <2>3, <3>2
        <4> QED
          BY <1>4, <4>1
      <3> QED
        BY <1>1, <2>3, <3>1, <3>2
    <2>8. Len(t) < MAXSBRKS /\ Len(t) = Cardinality(B \cup {m})
      BY <1>1, <1>3, <1>5, <2>3, <2>6
    <2>9. Findable(n)
      BY <2>2, <2>5, <2>7, <2>8 DEF Findable
    <2> QED
      BY <2>2, <2>4, <2>9 DEF n, Recorded
  <1>6. CASE ~(Len(s) < MAXSBRKS - 1)
    <2>1. n = p
      BY <1>6 DEF recordnewsbrk
    <2>2. Len(s) = MAXSBRKS - 1 /\ Cardinality(B) >= MAXSBRKS - 1
      BY <1>1, <1>2, <1>3, <1>6
    <2>3. Cardinality(B \cup {m}) >= MAXSBRKS
      BY <1>1, <1>3, <2>2
    <2>4. BasesOf(p) = B \cup {m}
      BY DEF B
    <2>5. Findable(p)
      <3>1. /\ Len(p.sbrkbgn) < MAXSBRKS
            /\ Len(p.sbrkbgn) = MAXSBRKS - 1 /\ Cardinality(BasesOf(p)) >= MAXSBRKS
        BY <1>2, <2>2, <2>3, <2>4
      <3>2. \A i \in DOMAIN p.sbrkbgn : p.sbrkbgn[i] \in BasesOf(p)
                /\ \A j \in 1..(i - 1) : p.sbrkbgn[j] # p.sbrkbgn[i]
        BY <1>2, <2>4
      <3> QED
        BY <3>1, <3>2 DEF Findable
    <2> QED
      BY <2>1, <2>5 DEF Recorded
  <1> QED
    BY <1>5, <1>6

\* lastsbrk, the last block of its chain, goes to a free list.
Retired(h, n, K, m) ==
  /\ \E G : Core(n, G, K, {m}, {})
  /\ Keep(h, n, K)
  /\ BasesOf(n) = BasesOf(h) /\ n.sbrkbgn = h.sbrkbgn
  /\ n.blk[m] = h.blk[m]

LEMMA RetireLast ==
  ASSUME NEW h, NEW F, NEW K, NEW m, NEW l, l = h.lastsbrk, l # NULL,
         Core(h, F, K, {m}, {l}), m \notin F, m \notin K
  PROVE  Retired(h, mv2freelist(h, l), K, m)
  <1> DEFINE n == mv2freelist(h, l)
  <1>1. /\ IsHeap(h) /\ Chained(h) /\ Linked(h, F) /\ Ranked(h, F)
        /\ Owned(h, F, K, {m}, {l}) /\ Merged(h, F, {l}) /\ h.fouled = "no"
    BY DEF Core
  <1>2. /\ l \in DOMAIN h.blk /\ h.blk[l].next = NULL /\ l \notin F /\ l # m /\ l \notin K
        /\ m \in DOMAIN h.blk /\ F \subseteq DOMAIN h.blk
    BY <1>1 DEF Owned
  <1>3. NULL \notin F
    BY <1>1, <1>2, Addresses DEF IsHeap
  <1>4. ~ISFREE(h, h.blk[l].next)
    BY <1>2 DEF ISFREE, NoAddr
  <1>5. n = Push(h, l, Bucket(h, l))
    BY <1>2, <1>4 DEF mv2freelist, TakeUpper, Enlist, Bucket
  <1> HIDE DEF n
  <1>6. l \in DOMAIN h.blk \ F
    BY <1>2
  <1>7. Pushed(h, n, F, l)
    BY <1>1, <1>5, <1>6, PushIs
  <1>8. Core(h, F, K, {m, l}, {})
    <2>1. Owned(h, F, K, {m, l}, {})
      BY <1>1 DEF Owned
    <2>2. Merged(h, F, {})
      BY <1>1 DEF Merged
    <2> QED
      BY <1>1, <2>1, <2>2 DEF Core
  <1>9. h.blk[l].prev \notin F
    <2>1. h.blk[l].prev \in F => h.blk[h.blk[l].prev].next = l
      BY <1>1, <1>2, <1>3 DEF Chained, Placed
    <2> QED
      BY <1>1, <2>1 DEF Merged
  <1>10. /\ Core(n, F \cup {l}, K, {m, l} \ {l}, {}) /\ Keep(h, n, K)
         /\ BasesOf(n) = BasesOf(h) /\ SameRest(h, n)
    <2>1. h.blk[l].next \notin F \cup {} /\ l \in {m, l}
      BY <1>2, <1>3
    <2> QED
      BY <1>7, <1>8, <1>9, <2>1, CorePush
  <1>11. {m, l} \ {l} = {m}
    BY <1>2
  <1>12. n.blk[m] = h.blk[m] /\ n.sbrkbgn = h.sbrkbgn
    BY <1>2, <1>7 DEF Pushed, LinksOnly, SameRest
  <1>13. \E G : Core(n, G, K, {m}, {})
    BY <1>10, <1>11, Zenon
  <1>14. Retired(h, n, K, m)
    BY <1>10, <1>12, <1>13 DEF Retired
  <1> QED
    BY <1>14 DEF n

\* lastsbrk becomes the new block m.
NewlyLast(h, n, F, K, m) ==
  Whole(n, F, K, {}) /\ Keep(h, n, K) /\ n.blk = h.blk /\ n.lastsbrk = m

LEMMA NewLast ==
  ASSUME NEW h, NEW F, NEW K, NEW m, Core(h, F, K, {m}, {}), h.blk[m].nextfree = NULL,
         h.blk[m].next = NULL, h.blk[m].prev = NULL,
         NEW g, IsHeap(g), Findable(g), h.sbrkbgn = g.sbrkbgn, m \notin BasesOf(g),
         BasesOf(h) = BasesOf(g) \cup {m}
  PROVE  NewlyLast(h, recordnewsbrk([h EXCEPT !.lastsbrk = m], m), F, K, m)
  <1> DEFINE p == [h EXCEPT !.lastsbrk = m]
             n == recordnewsbrk(p, m)
  <1>1. /\ IsHeap(h) /\ Chained(h) /\ Linked(h, F) /\ Ranked(h, F)
        /\ Owned(h, F, K, {m}, {}) /\ Merged(h, F, {}) /\ h.fouled = "no"
    BY DEF Core
  <1>2. m \in DOMAIN h.blk /\ m \in Addr /\ F \subseteq DOMAIN h.blk
    BY <1>1 DEF Owned, IsHeap
  <1>3. /\ IsHeap(p) /\ p.blk = h.blk /\ p.freehdrs = h.freehdrs /\ p.lastsbrk = m
        /\ SameRest(h, p)
    BY <1>1, <1>2, LastIs
  <1> HIDE DEF p
  <1>4. p.sbrkbgn = g.sbrkbgn /\ BasesOf(p) = BasesOf(g) \cup {m}
    BY <1>3 DEF SameRest, BasesOf
  <1>5. /\ IsHeap(n) /\ Findable(n) /\ n.blk = p.blk /\ n.freehdrs = p.freehdrs
        /\ n.lastsbrk = p.lastsbrk /\ n.brk = p.brk /\ n.taken = p.taken
        /\ n.leaked = p.leaked /\ n.fouled = p.fouled
    <2>1. Recorded(p, n)
      BY <1>2, <1>3, <1>4, BaseRecorded
    <2> HIDE DEF n
    <2> QED
      BY <2>1 DEF Recorded
  <1> HIDE DEF n
  <1>6. /\ n.blk = h.blk /\ n.freehdrs = h.freehdrs /\ n.lastsbrk = m
        /\ n.brk = h.brk /\ n.taken = h.taken /\ n.leaked = h.leaked
        /\ n.fouled = h.fouled
    BY <1>3, <1>5 DEF SameRest
  <1>7. Chained(n)
    BY <1>1, <1>6 DEF Chained, Placed
  <1>8. Linked(n, F) /\ Ranked(n, F)
    BY <1>1, <1>2, <1>6, KeptLists
  <1>9. Owned(n, F, K, {m}, {}) /\ Merged(n, F, {}) /\ Keep(h, n, K)
    BY <1>1, <1>6 DEF Owned, Merged, Keep
  <1>10. Body(n, F, K, {m}, {})
    BY <1>1, <1>5, <1>6, <1>7, <1>8, <1>9 DEF Body, Core
  <1>11. Body(n, F, K, {}, {m})
    <2>1. n.blk[m].prev \notin F
      BY <1>1, <1>2, <1>6, Addresses DEF IsHeap
    <2>2. {m} \ {m} = {} /\ m \in {m}
      OBVIOUS
    <2>3. n.blk[m].nextfree = NULL /\ n.blk[m].next = NULL
      BY <1>6
    <2> QED
      BY <1>10, <2>1, <2>2, <2>3, BodyAppoint
  <1>12. LastOf(n) = {m} /\ m # NULL
    BY <1>2, <1>6, Addresses DEF LastOf
  <1> QED
    <2>1. NewlyLast(h, n, F, K, m)
      BY <1>6, <1>9, <1>11, <1>12 DEF Whole, NewlyLast
    <2> QED
      BY <2>1 DEF n, p

\* A new chain of blocks begins.
LEMMA ExtendNew ==
  ASSUME NEW h, NEW F, NEW K, Whole(h, F, K, {}), NEW s \in Nat,
         ~(h.lastsbrk # NULL /\ h.brk = h.lastsbrk + h.blk[h.lastsbrk].sz),
         ~sbrk_fails(h, sbrk_size(h, s))
  PROVE  Extended(h, extendsbrk(h, s), K, s)
  <1> DEFINE d == sbrk_size(h, s)
             l == h.lastsbrk
             L == LastOf(h)
             m == h.brk + ToAlign(h.brk)
             e == h.brk + d
             z == d - ToAlign(h.brk)
             k == Add([h EXCEPT !.brk = e], m, Fresh(z))
             p == mv2freelist(k, l)
             n == recordnewsbrk([p EXCEPT !.lastsbrk = m], m)
  <1>1. IsHeap(h) /\ Chained(h) /\ Owned(h, F, K, {}, L) /\ Findable(h)
    BY DEF Whole, Body, Core
  <1>2. l # NULL => l \in DOMAIN h.blk
    BY <1>1 DEF Owned, LastOf
  <1>3. d \in Nat /\ s + 2 * ALIGN + DATAOFFSET <= d
    BY <1>1, <1>2, SbrkSize
  <1>4. h.brk \in START..LIMIT /\ START \in Nat /\ LIMIT \in Nat /\ h.brk \in Nat
        /\ ALIGN \in Nat /\ DATAOFFSET \in Nat
    BY <1>1, Constants DEF IsHeap
  <1>5. ToAlign(h.brk) \in 0..(ALIGN - 1) /\ Aligned(m)
    BY <1>4, ToAlignIs
  <1>6. /\ z \in Nat /\ s + MINSAVE <= z /\ DATAOFFSET <= z
        /\ e \in START..LIMIT /\ m + z = e /\ h.brk <= m /\ m \in START..LIMIT
    BY <1>3, <1>4, <1>5 DEF sbrk_fails, MINSAVE
  <1>7. m \in Addr
    BY <1>6 DEF Addr
  <1>8. extendsbrk(h, s) = n
    BY Zenon DEF extendsbrk, Fresh
  <1> HIDE DEF n, d, m, e, z
  <1>9. /\ Core(k, F, K, {m}, L) /\ Keep(h, k, K)
        /\ k.lastsbrk = h.lastsbrk /\ k.sbrkbgn = h.sbrkbgn
        /\ k.blk[m] = Fresh(z) /\ m \notin DOMAIN h.blk
        /\ BasesOf(k) = BasesOf(h) \cup {m}
    <2>1. Added(h, k, F, K, m, z)
      BY <1>5, <1>6, <1>7, AddedCore
    <2> HIDE DEF k
    <2> QED
      BY <2>1 DEF Added
  <1> HIDE DEF k
  <1>10. m \notin F /\ m \notin K
    BY <1>1, <1>9 DEF Owned
  <1>11. Retired(k, p, K, m)
    <2>1. CASE l # NULL
      <3>1. L = {l}
        BY <2>1 DEF LastOf
      <3> QED
        BY <1>9, <1>10, <2>1, <3>1, RetireLast
    <2>2. CASE l = NULL
      <3>1. L = {} /\ p = k
        BY <2>2 DEF LastOf, mv2freelist
      <3> QED
        BY <1>9, <3>1, KeepSelf DEF Retired
    <2> QED
      BY <2>1, <2>2
  <1> HIDE DEF p
  <1>12. PICK G : /\ Core(p, G, K, {m}, {}) /\ Keep(k, p, K)
                  /\ BasesOf(p) = BasesOf(k) /\ p.sbrkbgn = k.sbrkbgn
                  /\ p.blk[m] = k.blk[m]
    BY <1>11 DEF Retired
  <1>13. /\ p.blk[m].nextfree = NULL /\ p.blk[m].next = NULL /\ p.blk[m].prev = NULL
         /\ p.blk[m].sz = z
    BY <1>9, <1>12 DEF Fresh
  <1>14. p.sbrkbgn = h.sbrkbgn /\ BasesOf(p) = BasesOf(h) \cup {m} /\ m \notin BasesOf(h)
    BY <1>9, <1>12 DEF BasesOf
  <1>15. Whole(n, G, K, {}) /\ Keep(p, n, K) /\ n.blk = p.blk /\ n.lastsbrk = m
    <2>1. NewlyLast(p, n, G, K, m)
      BY <1>1, <1>12, <1>13, <1>14, NewLast DEF n
    <2> QED
      BY <2>1 DEF NewlyLast
  <1>16. Keep(h, n, K)
    BY <1>9, <1>12, <1>15, KeepAdd
  <1>17. m # NULL
    BY <1>7, Addresses
  <1> QED
    BY <1>6, <1>8, <1>13, <1>15, <1>16, <1>17 DEF Extended

LEMMA ExtendIs ==
  ASSUME NEW h, NEW F, NEW K, Whole(h, F, K, {}), NEW s \in Nat,
         ~sbrk_fails(h, sbrk_size(h, s))
  PROVE  Extended(h, extendsbrk(h, s), K, s)
  BY ExtendNear, ExtendNew

-----------------------------------------------------------------------------
(* malloc.                                                                 *)

\* A size whose rounding does not wrap.
Fine(size) == size \in Nat /\ AtLeastOne(size) + MINSAVE <= WORD

LEMMA FineRounds ==
  ASSUME NEW size, Fine(size)
  PROVE  LET s == roundup(AtLeastOne(size))
         IN  Rounding(s) /\ size + DATAOFFSET <= s /\ s < AtLeastOne(size) + MINSAVE
  <1> DEFINE n == AtLeastOne(size)
  <1>1. n \in Nat \ {0} /\ size <= n /\ n + MINSAVE <= WORD /\ size \in Nat
    BY DEF AtLeastOne, Fine
  <1> HIDE DEF n
  <1>2. /\ roundup(n) \in Nat /\ Aligned(roundup(n)) /\ n + DATAOFFSET <= roundup(n)
        /\ roundup(n) < n + MINSAVE /\ MINSAVE <= roundup(n)
    BY <1>1, Rounded
  <1>3. size + DATAOFFSET <= roundup(n)
    BY <1>1, <1>2, Constants
  <1> QED
    BY <1>2, <1>3 DEF Rounding, n

\* What a heap grown by sbrk serves, the heap as it was serves.
LEMMA ServedLater ==
  ASSUME NEW h, NEW k, NEW K, NEW s, NEW r, Keep(h, k, K), Served(k, K, r, s), r.m # NULL
  PROVE  Served(h, K, r, s)
  <1>1. Keep(h, r.h, K)
    BY KeepAdd DEF Served
  <1> QED
    BY <1>1 DEF Served

LEMMA FromLastServes ==
  ASSUME NEW h, NEW K, NEW k, NEW s, Rounding(s), Extended(h, k, K, s)
  PROVE  LET r == FromLast(k, s) IN Served(h, K, r, s) /\ r.m # NULL
  <1> DEFINE l == k.lastsbrk
  <1>1. PICK G : Whole(k, G, K, {})
    BY DEF Extended
  <1>2. Keep(h, k, K) /\ l # NULL /\ s + MINSAVE <= k.blk[l].sz
    BY DEF Extended
  <1>3. IsHeap(k) /\ Chained(k) /\ l \in DOMAIN k.blk
    BY <1>1, <1>2 DEF Whole, Body, Core, Owned, LastOf
  <1>4. k.blk[l].sz \in Nat /\ s \in Nat /\ s + DATAOFFSET <= k.blk[l].sz
        /\ ~(k.blk[l].sz < s + MINSAVE)
    BY <1>2, <1>3, SizeIs, Constants DEF Rounding, MINSAVE
  <1>5. FromLast(k, s) = Result(splitlast(k, s), l)
    BY <1>4 DEF FromLast
  <1>6. Served(k, K, Result(splitlast(k, s), l), s)
    BY <1>1, <1>2, <1>4, LastServes
  <1>7. Result(splitlast(k, s), l).m = l
    BY DEF Result
  <1>8. Served(h, K, Result(splitlast(k, s), l), s)
    BY <1>2, <1>6, <1>7, ServedLater
  <1> QED
    BY <1>2, <1>5, <1>7, <1>8

LEMMA MallocServes ==
  ASSUME NEW h, NEW F, NEW K, Whole(h, F, K, {}), NEW size, Fine(size)
  PROVE  Served(h, K, nmalloc(h, size), roundup(AtLeastOne(size)))
  <1> DEFINE s == roundup(AtLeastOne(size))
             b == searchfree(h, s)
             l == h.lastsbrk
  <1>1. Rounding(s) /\ s \in Nat
    BY FineRounds DEF Rounding
  <1>2. CASE s >= MAXREQUEST
    <2>1. nmalloc(h, size) = Result(h, NULL)
      BY <1>2 DEF nmalloc
    <2> QED
      BY <2>1 DEF Served, Result
  <1>3. CASE ~(s >= MAXREQUEST)
    <2>1. s < WORD \div 2
      BY <1>1, <1>3, Constants
    <2>2. b # 0 => /\ b \in Lists /\ h.freehdrs[b] \in F
                   /\ Bucket(h, h.freehdrs[b]) = b
                   /\ s <= h.blk[h.freehdrs[b]].sz
      BY <1>1, <2>1, SearchIs
    <2>3. nmalloc(h, size) =
            IF b # 0 THEN TakeFree(h, b, s)
            ELSE IF l # NULL /\ h.blk[l].sz >= s + DATAOFFSET
              THEN Result(splitlast(h, s), l)
            ELSE IF sbrk_fails(h, sbrk_size(h, s)) THEN Result(h, NULL)
            ELSE FromLast(extendsbrk(h, s), s)
      BY <1>3 DEF nmalloc
    <2> HIDE DEF s, b
    <2>4. CASE b # 0
      BY <1>1, <2>2, <2>3, <2>4, TakeFreeIs DEF s
    <2>5. CASE b = 0 /\ l # NULL /\ h.blk[l].sz >= s + DATAOFFSET
      <3>1. s + DATAOFFSET <= h.blk[l].sz
        BY <2>5
      <3>2. Served(h, K, Result(splitlast(h, s), l), s)
        BY <1>1, <2>5, <3>1, LastServes
      <3> QED
        BY <2>3, <2>5, <3>2 DEF s
    <2>6. CASE b = 0 /\ ~(l # NULL /\ h.blk[l].sz >= s + DATAOFFSET)
      <3>1. CASE sbrk_fails(h, sbrk_size(h, s))
        <4>1. nmalloc(h, size) = Result(h, NULL)
          BY <2>3, <2>6, <3>1
        <4> QED
          BY <4>1 DEF Served, Result
      <3>2. CASE ~sbrk_fails(h, sbrk_size(h, s))
        <4>1. Extended(h, extendsbrk(h, s), K, s)
          BY <1>1, <3>2, ExtendIs
        <4>2. Served(h, K, FromLast(extendsbrk(h, s), s), s)
          BY <1>1, <4>1, FromLastServes
        <4> QED
          BY <2>3, <2>6, <3>2, <4>2 DEF s
      <3> QED
        BY <3>1, <3>2
    <2> QED
      BY <2>4, <2>5, <2>6
  <1> QED
    BY <1>2, <1>3

-----------------------------------------------------------------------------
(* realloc.                                                                *)

\* What a reallocation of m to s bytes achieves: it leaves the heap alone, or the
\* program holds, in place of m, a block with the contents of m.
Reheld(h, K, m, r, s) ==
  \/ r.m = NULL /\ r.h = h
  \/ /\ r.m # NULL /\ r.m \notin K \ {m}
     /\ \E G : Whole(r.h, G, (K \ {m}) \cup {r.m}, {})
     /\ Keep(h, r.h, K \ {m})
     /\ s <= r.h.blk[r.m].sz /\ r.h.blk[r.m].data = h.blk[m].data

\* A block of the program is taken up.
InHand(h, F, K, m) ==
  /\ Whole(h, F, K \ {m}, {m}) /\ h.blk[m].nextfree = NULL
  /\ m \in DOMAIN h.blk /\ m # NULL /\ IsHeap(h) /\ Chained(h)
  /\ m \notin F /\ m \notin LastOf(h)

LEMMA TakenUp ==
  ASSUME NEW h, NEW F, NEW K, Whole(h, F, K, {}), NEW m \in K
  PROVE  InHand(h, F, K, m)
  <1>1. Body(h, F, K, {}, LastOf(h)) /\ {} \cup {m} = {m}
    BY DEF Whole
  <1>2. Body(h, F, K \ {m}, {m}, LastOf(h))
    BY <1>1, BodyTake
  <1>3. /\ IsHeap(h) /\ Chained(h) /\ m \in DOMAIN h.blk /\ h.blk[m].nextfree = NULL
        /\ m \notin F /\ m \notin LastOf(h)
    BY <1>1 DEF Body, Core, Owned
  <1>4. m # NULL
    BY <1>3, Addresses DEF IsHeap
  <1> QED
    BY <1>2, <1>3, <1>4 DEF Whole, InHand

\* A block worked on is handed over.
LEMMA HandedOver ==
  ASSUME NEW h, NEW F, NEW K, NEW m, Whole(h, F, K, {m}), h.blk[m].nextfree = NULL
  PROVE  Whole(h, F, K \cup {m}, {})
  <1>1. Body(h, F, K, {m}, LastOf(h)) /\ {m} \ {m} = {} /\ m \in {m}
    BY DEF Whole
  <1>2. Body(h, F, K \cup {m}, {}, LastOf(h))
    BY <1>1, BodyGive
  <1> QED
    BY <1>2 DEF Whole

LEMMA TrimKeeps ==
  ASSUME NEW h, NEW F, NEW K, NEW m, Whole(h, F, K, {m}), h.blk[m].nextfree = NULL,
         NEW s, Rounding(s), s <= h.blk[m].sz
  PROVE  CutTo(h, Trim(h, m, s), K, m, s)
  <1>1. /\ IsHeap(h) /\ Chained(h) /\ m \in DOMAIN h.blk
    BY DEF Whole, Body, Core, Owned
  <1>2. h.blk[m].sz \in Nat /\ s \in Nat /\ MINSAVE \in Nat /\ DATAOFFSET <= MINSAVE
    BY <1>1, SizeIs, Constants DEF Rounding, MINSAVE
  <1>3. CASE h.blk[m].sz - s >= MINSAVE
    <2>1. Trim(h, m, s) = mv2freelist(split(h, m, s), m + s)
      BY <1>3 DEF Trim
    <2>2. s + DATAOFFSET <= h.blk[m].sz
      BY <1>2, <1>3, Constants
    <2>3. CanSplit(h, m, s)
      BY <1>1, <2>2, Cuttable
    <2>4. CutTo(h, mv2freelist(split(h, m, s), m + s), K, m, s)
      BY <2>3, CutIs
    <2> QED
      BY <2>1, <2>4
  <1>4. CASE ~(h.blk[m].sz - s >= MINSAVE)
    <2>1. Trim(h, m, s) = h
      BY <1>4 DEF Trim
    <2> QED
      BY <2>1, HandedOver, KeepSelf DEF CutTo
  <1> QED
    BY <1>3, <1>4

\* m stays where it is.
LEMMA StaysInPlace ==
  ASSUME NEW h, NEW F, NEW K, Whole(h, F, K, {}), NEW m \in K, NEW s, Rounding(s),
         s <= h.blk[m].sz
  PROVE  Reheld(h, K, m, Result(Trim(h, m, s), m), s)
  <1>1. Whole(h, F, K \ {m}, {m}) /\ h.blk[m].nextfree = NULL /\ m \in DOMAIN h.blk
        /\ m # NULL
    <2>1. InHand(h, F, K, m)
      BY TakenUp
    <2> QED
      BY <2>1 DEF InHand
  <1>2. CutTo(h, Trim(h, m, s), K \ {m}, m, s)
    BY <1>1, TrimKeeps
  <1> QED
    BY <1>1, <1>2 DEF CutTo, Reheld, Result

\* m takes over the free block above it.
LEMMA GrowsUp ==
  ASSUME NEW h, NEW F, NEW K, Whole(h, F, K, {}), NEW m \in K, NEW s, Rounding(s),
         NEW c \in F, c = h.blk[m].next, s <= h.blk[m].sz + h.blk[c].sz
  PROVE  Reheld(h, K, m, Result(Trim(combinehi(h, m), m, s), m), s)
  <1> DEFINE k == combinehi(h, m)
             n == Trim(k, m, s)
  <1>1. Whole(h, F, K \ {m}, {m}) /\ h.blk[m].nextfree = NULL /\ m \in DOMAIN h.blk
        /\ m # NULL
    <2>1. InHand(h, F, K, m)
      BY TakenUp
    <2> QED
      BY <2>1 DEF InHand
  <1>2. /\ Whole(k, F \ {c}, K \ {m}, {m}) /\ Keep(h, k, K \ {m}) /\ SameOf(h, k, m)
        /\ k.blk[m].sz = h.blk[m].sz + h.blk[c].sz
    <2>1. TookUpper(h, k, F, K \ {m}, m, c)
      BY <1>1, CombineFree
    <2> HIDE DEF k
    <2> QED
      BY <2>1 DEF TookUpper
  <1> HIDE DEF k
  <1>3. k.blk[m].nextfree = NULL /\ k.blk[m].data = h.blk[m].data /\ s <= k.blk[m].sz
    BY <1>1, <1>2 DEF SameOf
  <1>4. /\ \E G : Whole(n, G, (K \ {m}) \cup {m}, {})
        /\ Keep(k, n, K \ {m})
        /\ s <= n.blk[m].sz /\ n.blk[m].data = k.blk[m].data
    <2>1. CutTo(k, n, K \ {m}, m, s)
      BY <1>2, <1>3, TrimKeeps
    <2> HIDE DEF n
    <2> QED
      BY <2>1 DEF CutTo
  <1>5. Keep(h, n, K \ {m})
    BY <1>2, <1>4, KeepAdd
  <1> QED
    BY <1>1, <1>3, <1>4, <1>5 DEF Reheld, Result, k

\* m takes over lastsbrk, but for what it does not need.
LEMMA GrowsIntoLast ==
  ASSUME NEW h, NEW F, NEW K, Whole(h, F, K, {}), NEW m \in K, NEW s, Rounding(s),
         h.lastsbrk # NULL, h.blk[m].next = h.lastsbrk,
         s + MINSAVE <= h.blk[m].sz + h.blk[h.lastsbrk].sz
  PROVE  Reheld(h, K, m, UseLast(h, m, s), s)
  <1> DEFINE k == combinehi(h, m)
             n == [split(k, m, s) EXCEPT !.lastsbrk = m + s]
  <1>1. Whole(h, F, K \ {m}, {m}) /\ h.blk[m].nextfree = NULL /\ m \in DOMAIN h.blk
        /\ m # NULL
    <2>1. InHand(h, F, K, m)
      BY TakenUp
    <2> QED
      BY <2>1 DEF InHand
  <1>2. /\ Body(k, F, K \ {m}, {m}, {}) /\ Keep(h, k, K \ {m}) /\ SameOf(h, k, m)
        /\ k.blk[m].sz = h.blk[m].sz + h.blk[h.lastsbrk].sz
        /\ k.blk[m].next = NULL
    BY <1>1, CombineLast
  <1> HIDE DEF k
  <1>3. /\ k.blk[m].nextfree = NULL /\ k.blk[m].data = h.blk[m].data
        /\ s + MINSAVE <= k.blk[m].sz
    BY <1>1, <1>2 DEF SameOf
  <1>4. IsHeap(k) /\ Chained(k) /\ m \in DOMAIN k.blk
    BY <1>2 DEF Body, Core, Owned
  <1>5. s \in Nat /\ s + DATAOFFSET <= k.blk[m].sz
    BY <1>3, <1>4, SizeIs, Constants DEF Rounding, MINSAVE
  <1>6. CanSplit(k, m, s)
    BY <1>4, <1>5, Cuttable
  <1>7. CutTo(k, n, K \ {m}, m, s)
    BY <1>2, <1>3, <1>6, CutEnd
  <1>8. UseLast(h, m, s) = Result(n, m)
    BY DEF UseLast, k
  <1> HIDE DEF n
  <1>9. Keep(h, n, K \ {m})
    BY <1>2, <1>7, KeepAdd DEF CutTo
  <1> QED
    BY <1>1, <1>3, <1>7, <1>8, <1>9 DEF CutTo, Reheld, Result

\* Data is stored in a block that is worked on, or that the program holds.
StoredIn(h, n, F, K, t, d) ==
  /\ Whole(n, F, K, {t}) /\ Keep(h, n, K)
  /\ n.blk[t].data = d /\ n.blk[t].sz = h.blk[t].sz
  /\ n.blk[t].nextfree = h.blk[t].nextfree

LEMMA StoreIn ==
  ASSUME NEW h, NEW F, NEW K, NEW t, Whole(h, F, K, {t}), NEW d \in {"user", "junk"}
  PROVE  StoredIn(h, StoreTo(h, t, d), F, K, t, d)
  <1> DEFINE n == StoreTo(h, t, d)
             L == LastOf(h)
  <1>1. /\ Body(h, F, K, {t}, L) /\ IsHeap(h) /\ t \in DOMAIN h.blk
    BY DEF Whole, Body, Core, Owned
  <1>2. /\ IsHeap(n) /\ LinksOnly(h, n, {t}) /\ n.freehdrs = h.freehdrs
        /\ n.blk[t].nextfree = h.blk[t].nextfree /\ n.blk[t].data = d
    <2>1. StoredBy(h, n, t, d)
      BY <1>1, StoredIs
    <2> HIDE DEF n
    <2> QED
      BY <2>1 DEF StoredBy
  <1> HIDE DEF n
  <1>3. Body(n, F, K, {t}, L) /\ Keep(h, n, K)
    BY <1>1, <1>2, BodyLinks
  <1>4. n.lastsbrk = h.lastsbrk /\ DOMAIN n.blk = DOMAIN h.blk /\ n.blk[t].sz = h.blk[t].sz
    BY <1>1, <1>2 DEF LinksOnly
  <1>5. Whole(n, F, K, {t})
    BY <1>1, <1>3, <1>4 DEF Whole, LastOf, L
  <1>6. StoredIn(h, n, F, K, t, d)
    BY <1>2, <1>3, <1>4, <1>5 DEF StoredIn
  <1> QED
    BY <1>6 DEF n

StoredHeld(h, n, F, K, t, d) ==
  /\ Whole(n, F, K, {}) /\ Keep(h, n, K \ {t})
  /\ n.blk[t].data = d /\ n.blk[t].sz = h.blk[t].sz

LEMMA StoreHeld ==
  ASSUME NEW h, NEW F, NEW K, Whole(h, F, K, {}), NEW t \in K, NEW d \in {"user", "junk"}
  PROVE  StoredHeld(h, StoreTo(h, t, d), F, K, t, d)
  <1> DEFINE n == StoreTo(h, t, d)
  <1>1. Whole(h, F, K \ {t}, {t}) /\ h.blk[t].nextfree = NULL
    <2>1. InHand(h, F, K, t)
      BY TakenUp
    <2> QED
      BY <2>1 DEF InHand
  <1>2. /\ Whole(n, F, K \ {t}, {t}) /\ Keep(h, n, K \ {t})
        /\ n.blk[t].data = d /\ n.blk[t].sz = h.blk[t].sz
        /\ n.blk[t].nextfree = h.blk[t].nextfree
    <2>1. StoredIn(h, n, F, K \ {t}, t, d)
      BY <1>1, StoreIn
    <2> HIDE DEF n
    <2> QED
      BY <2>1 DEF StoredIn
  <1> HIDE DEF n
  <1>3. Whole(n, F, (K \ {t}) \cup {t}, {})
    BY <1>1, <1>2, HandedOver
  <1>4. (K \ {t}) \cup {t} = K
    OBVIOUS
  <1>5. StoredHeld(h, n, F, K, t, d)
    BY <1>2, <1>3, <1>4 DEF StoredHeld
  <1> QED
    BY <1>5 DEF n

\* m and its contents go down into the free block below.
LEMMA GrowsDown ==
  ASSUME NEW h, NEW F, NEW K, Whole(h, F, K, {}), NEW m \in K, NEW s, Rounding(s),
         NEW p \in F, p = h.blk[m].prev, s <= h.blk[m].sz + h.blk[p].sz
  PROVE  Reheld(h, K, m, Result(Trim(MoveDown(h, m, p), p, s), p), s)
  <1> DEFINE a == Absorb(extractfree(h, p), p, m)
             d == h.blk[m].data
             k == StoreTo(a, p, d)
             n == Trim(k, p, s)
             J == K \ {m}
  <1>1. Whole(h, F, J, {m}) /\ m \in DOMAIN h.blk /\ IsHeap(h)
    <2>1. InHand(h, F, K, m)
      BY TakenUp
    <2> QED
      BY <2>1 DEF InHand
  <1>2. d \in {"user", "junk"}
    BY <1>1 DEF IsHeap, Block
  <1>3. p # NULL /\ p \notin J
    BY <1>1, Addresses DEF IsHeap, Whole, Body, Core, Owned
  <1>4. MoveDown(h, m, p) = k
    BY DEF MoveDown, Copy, StoreTo
  <1> HIDE DEF d
  <1>5. /\ Whole(a, F \ {p}, J, {p}) /\ Keep(h, a, J)
        /\ a.blk[p].sz = h.blk[m].sz + h.blk[p].sz
        /\ a.blk[p].nextfree = NULL
    <2>1. combinelo(h, m) = a /\ TookLower(h, combinelo(h, m), F, J, m, p)
      BY <1>1, CombineLow
    <2>2. TookLower(h, a, F, J, m, p)
      BY <2>1
    <2> HIDE DEF a
    <2> QED
      BY <2>2 DEF TookLower
  <1> HIDE DEF a
  <1>6. /\ Whole(k, F \ {p}, J, {p}) /\ Keep(a, k, J)
        /\ k.blk[p].data = d /\ k.blk[p].sz = a.blk[p].sz
        /\ k.blk[p].nextfree = NULL
    <2>1. StoredIn(a, k, F \ {p}, J, p, d)
      BY <1>2, <1>5, StoreIn
    <2> HIDE DEF k
    <2> QED
      BY <1>5, <2>1 DEF StoredIn
  <1> HIDE DEF k
  <1>7. /\ \E G : Whole(n, G, J \cup {p}, {})
        /\ Keep(k, n, J)
        /\ s <= n.blk[p].sz /\ n.blk[p].data = k.blk[p].data
    <2>1. CutTo(k, n, J, p, s)
      BY <1>5, <1>6, TrimKeeps
    <2> HIDE DEF n
    <2> QED
      BY <2>1 DEF CutTo
  <1> HIDE DEF n
  <1>8. Keep(h, n, J)
    BY <1>5, <1>6, <1>7, KeepAdd
  <1>9. Result(Trim(MoveDown(h, m, p), p, s), p) = Result(n, p)
    BY <1>4 DEF n
  <1> QED
    BY <1>3, <1>6, <1>7, <1>8, <1>9 DEF Reheld, Result, d

\* The contents of m go to the block t just obtained in heap k, and m is freed.
LEMMA MovesTo ==
  ASSUME NEW h, NEW k, NEW G, NEW K, NEW m \in K, NEW t, t \notin K, t # NULL,
         Keep(h, k, K), Whole(k, G, K \cup {t}, {}),
         NEW s \in Nat, s <= k.blk[t].sz
  PROVE  Reheld(h, K, m, MoveTo(k, m, t), s)
  <1> DEFINE d == k.blk[m].data
             c == StoreTo(k, t, d)
             n == dofree(c, m)
             J == (K \cup {t}) \ {m}
  <1>1. MoveTo(k, m, t) = Result(n, t)
    BY DEF MoveTo, Copy, StoreTo
  <1>2. d \in {"user", "junk"}
    <2>1. IsHeap(k) /\ m \in DOMAIN k.blk
      BY DEF Whole, Body, Core, Owned
    <2> QED
      BY <2>1 DEF IsHeap, Block
  <1>3. d = h.blk[m].data
    BY DEF Keep
  <1> HIDE DEF d
  <1>4. /\ Whole(c, G, K \cup {t}, {}) /\ Keep(k, c, (K \cup {t}) \ {t})
        /\ c.blk[t].data = d /\ c.blk[t].sz = k.blk[t].sz
    <2>1. t \in K \cup {t}
      OBVIOUS
    <2>2. StoredHeld(k, c, G, K \cup {t}, t, d)
      BY <1>2, <2>1, StoreHeld
    <2> HIDE DEF c
    <2> QED
      BY <2>2 DEF StoredHeld
  <1> HIDE DEF c
  <1>5. (\E H : Whole(n, H, J, {})) /\ Keep(c, n, J)
    <2>1. m \in K \cup {t}
      OBVIOUS
    <2> QED
      BY <1>4, <2>1, DofreeIs
  <1> HIDE DEF n
  <1>6. J = (K \ {m}) \cup {t} /\ (K \cup {t}) \ {t} = K /\ t \in J /\ K \ {m} \subseteq J
    OBVIOUS
  <1>7. n.blk[t].data = d /\ n.blk[t].sz = k.blk[t].sz
    BY <1>4, <1>5, <1>6 DEF Keep
  <1>8. Keep(h, n, K \ {m})
    <2>1. Keep(h, c, K)
      BY <1>4, <1>6, KeepAdd
    <2> QED
      BY <1>5, <1>6, <2>1 DEF Keep
  <1> QED
    BY <1>1, <1>3, <1>5, <1>6, <1>7, <1>8 DEF Reheld, Result

\* m moves to the lower part of lastsbrk, in the heap k that sbrk may have grown.
LEMMA MovesToLast ==
  ASSUME NEW h, NEW k, NEW G, NEW K, NEW m \in K, Keep(h, k, K), Whole(k, G, K, {}),
         NEW s, Rounding(s), k.lastsbrk # NULL, s + DATAOFFSET <= k.blk[k.lastsbrk].sz
  PROVE  Reheld(h, K, m, mv2lastsbrk(k, m, s), s)
  <1> DEFINE l == k.lastsbrk
             n == splitlast(k, s)
  <1>1. CutTo(k, n, K, l, s) /\ l \notin K
    BY SplitlastIs
  <1> HIDE DEF n
  <1>2. Keep(h, n, K)
    BY <1>1, KeepAdd DEF CutTo
  <1>3. s \in Nat /\ s <= n.blk[l].sz
    BY <1>1 DEF CutTo, Rounding
  <1>4. PICK H : Whole(n, H, K \cup {l}, {})
    BY <1>1 DEF CutTo
  <1>5. Reheld(h, K, m, MoveTo(n, m, l), s)
    BY <1>1, <1>2, <1>3, <1>4, MovesTo
  <1> QED
    BY <1>5 DEF mv2lastsbrk, n

\* What a heap grown by sbrk reholds, the heap as it was reholds.
LEMMA ReheldLater ==
  ASSUME NEW h, NEW k, NEW K, NEW m \in K, NEW s, NEW r, Keep(h, k, K),
         Reheld(k, K, m, r, s), r.m # NULL
  PROVE  Reheld(h, K, m, r, s)
  <1>1. Keep(k, r.h, K \ {m}) /\ K \ {m} \subseteq K
    BY DEF Reheld
  <1>2. Keep(h, r.h, K \ {m})
    BY <1>1, KeepAdd
  <1>3. k.blk[m].data = h.blk[m].data
    BY DEF Keep
  <1> QED
    BY <1>2, <1>3 DEF Reheld

LEMMA ExtendedMoves ==
  ASSUME NEW h, NEW k, NEW K, NEW m \in K, NEW s, Rounding(s), Extended(h, k, K, s)
  PROVE  Reheld(h, K, m, IntoExtended(k, m, s), s)
  <1> DEFINE l == k.lastsbrk
  <1>1. PICK G : Whole(k, G, K, {})
    BY DEF Extended
  <1>2. Keep(h, k, K) /\ l # NULL /\ s + MINSAVE <= k.blk[l].sz
    BY DEF Extended
  <1>3. IsHeap(k) /\ Chained(k) /\ l \in DOMAIN k.blk /\ m \in DOMAIN k.blk /\ m # NULL
    <2>1. InHand(k, G, K, m)
      BY <1>1, TakenUp
    <2>2. l \in DOMAIN k.blk
      BY <1>1, <1>2 DEF Whole, Body, Core, Owned, LastOf
    <2> QED
      BY <2>1, <2>2 DEF InHand
  <1>4. /\ k.blk[l].sz \in Nat /\ k.blk[m].sz \in Nat /\ s \in Nat /\ MINSAVE \in Nat
        /\ DATAOFFSET <= MINSAVE
    BY <1>3, SizeIs, Constants DEF Rounding, MINSAVE
  <1>5. CASE k.lastsbrk = k.blk[m].next
    <2>1. IntoExtended(k, m, s) = UseLast(k, m, s)
      BY <1>5 DEF IntoExtended
    <2>2. s + MINSAVE <= k.blk[m].sz + k.blk[l].sz
      BY <1>2, <1>4
    <2>3. Reheld(k, K, m, UseLast(k, m, s), s)
      BY <1>1, <1>2, <1>5, <2>2, GrowsIntoLast
    <2>4. UseLast(k, m, s).m # NULL
      BY <1>3 DEF UseLast, Result
    <2> QED
      BY <1>2, <2>1, <2>3, <2>4, ReheldLater
  <1>6. CASE k.lastsbrk # k.blk[m].next
    <2>1. IntoExtended(k, m, s) = mv2lastsbrk(k, m, s)
      BY <1>6 DEF IntoExtended
    <2>2. s + DATAOFFSET <= k.blk[l].sz
      BY <1>2, <1>4, Constants
    <2> QED
      BY <1>1, <1>2, <2>1, <2>2, MovesToLast
  <1> QED
    BY <1>5, <1>6

LEMMA FreeMoves ==
  ASSUME NEW h, NEW F, NEW K, Whole(h, F, K, {}), NEW m \in K, NEW s, Rounding(s),
         NEW b \in Lists, h.freehdrs[b] \in F, Bucket(h, h.freehdrs[b]) = b,
         s <= h.blk[h.freehdrs[b]].sz
  PROVE  Reheld(h, K, m, MoveTo(TakeFree(h, b, s).h, m, h.freehdrs[b]), s)
  <1> DEFINE r == TakeFree(h, b, s)
  <1>1. Served(h, K, r, s) /\ r.m = h.freehdrs[b] /\ r.m # NULL
    BY TakeFreeIs
  <1> HIDE DEF r
  <1>2. /\ r.m \notin K /\ Keep(h, r.h, K) /\ s <= r.h.blk[r.m].sz
    BY <1>1 DEF Served
  <1>3. PICK G : Whole(r.h, G, K \cup {r.m}, {})
    BY <1>1 DEF Served
  <1>4. s \in Nat
    BY DEF Rounding
  <1>5. Reheld(h, K, m, MoveTo(r.h, m, r.m), s)
    BY <1>1, <1>2, <1>3, <1>4, MovesTo
  <1> QED
    BY <1>1, <1>5 DEF r

LEMMA ReallocKeeps ==
  ASSUME NEW h, NEW F, NEW K, Whole(h, F, K, {}), NEW m \in K, NEW size, Fine(size)
  PROVE  LET s == roundup(AtLeastOne(size))
             r == nrealloc(h, m, size)
         IN  Reheld(h, K, m, r, s) /\ (s <= h.blk[m].sz => r.m = m)
  <1> DEFINE s == roundup(AtLeastOne(size))
             r == nrealloc(h, m, size)
             next == h.blk[m].next
             prev == h.blk[m].prev
             last == h.lastsbrk
             b == searchfree(h, s)
  <1>1. Rounding(s) /\ s \in Nat
    BY FineRounds DEF Rounding
  <1>2. ~ISFREE(h, m) /\ ~FOULED(h, m) /\ last # NULL
    BY CallAccepted DEF FOULED
  <1>3. /\ Body(h, F, K, {}, LastOf(h)) /\ IsHeap(h) /\ Chained(h) /\ m \in DOMAIN h.blk
        /\ last \in DOMAIN h.blk /\ F \subseteq DOMAIN h.blk
        /\ DOMAIN h.blk = F \cup K \cup LastOf(h)
    BY <1>2 DEF Whole, Body, Core, Owned, LastOf
  <1>4. /\ next \in DOMAIN h.blk \cup {NULL} /\ prev \in DOMAIN h.blk \cup {NULL}
    BY <1>3, NextIs
  <1>5. (ISFREE(h, next) => next \in F) /\ (ISFREE(h, prev) => prev \in F)
    BY <1>3, <1>4, FreeIs
  <1>6. r = IF s <= h.blk[m].sz THEN Result(Trim(h, m, s), m)
            ELSE IF s > MAXREQUEST THEN Result(h, NULL)
            ELSE IF ISFREE(h, next) /\ s <= h.blk[m].sz + h.blk[next].sz
              THEN Result(Trim(combinehi(h, m), m, s), m)
            ELSE IF last = next /\ s + MINSAVE <= h.blk[m].sz + h.blk[last].sz
              THEN UseLast(h, m, s)
            ELSE IF ISFREE(h, prev) /\ s <= h.blk[m].sz + h.blk[prev].sz
              THEN Result(Trim(MoveDown(h, m, prev), prev, s), prev)
            ELSE IF b # 0 THEN MoveTo(TakeFree(h, b, s).h, m, h.freehdrs[b])
            ELSE IF last # NULL /\ s + MINSAVE <= h.blk[last].sz
              THEN mv2lastsbrk(h, m, s)
            ELSE IF sbrk_fails(h, sbrk_size(h, s)) THEN Result(h, NULL)
            ELSE IntoExtended(extendsbrk(h, s), m, s)
    BY <1>2 DEF nrealloc
  <1>7. h.blk[last].sz \in Nat /\ MINSAVE \in Nat /\ DATAOFFSET <= MINSAVE /\ h.blk[m].sz \in Nat
        /\ DATAOFFSET \in Nat
    BY <1>3, SizeIs, Constants DEF MINSAVE
  <1> HIDE DEF s, r, next, prev, b
  <1>8. CASE s <= h.blk[m].sz
    <2>1. r = Result(Trim(h, m, s), m)
      BY <1>6, <1>8
    <2> QED
      BY <1>1, <1>8, <2>1, StaysInPlace DEF s, r, Result
  <1>9. CASE ~(s <= h.blk[m].sz)
    <2>1. CASE s > MAXREQUEST
      <3>1. r = Result(h, NULL)
        BY <1>6, <1>9, <2>1
      <3> QED
        BY <1>9, <3>1 DEF Reheld, Result, s, r
    <2>2. CASE ~(s > MAXREQUEST)
      <3> DEFINE up == ISFREE(h, next) /\ s <= h.blk[m].sz + h.blk[next].sz
                 end == last = next /\ s + MINSAVE <= h.blk[m].sz + h.blk[last].sz
                 down == ISFREE(h, prev) /\ s <= h.blk[m].sz + h.blk[prev].sz
                 use == s + MINSAVE <= h.blk[last].sz
                 fails == sbrk_fails(h, sbrk_size(h, s))
      <3>1. r = IF up THEN Result(Trim(combinehi(h, m), m, s), m)
                ELSE IF end THEN UseLast(h, m, s)
                ELSE IF down THEN Result(Trim(MoveDown(h, m, prev), prev, s), prev)
                ELSE IF b # 0 THEN MoveTo(TakeFree(h, b, s).h, m, h.freehdrs[b])
                ELSE IF use THEN mv2lastsbrk(h, m, s)
                ELSE IF fails THEN Result(h, NULL)
                ELSE IntoExtended(extendsbrk(h, s), m, s)
        BY <1>2, <1>6, <1>9, <2>2
      <3>2. s < WORD \div 2
        BY <1>1, <2>2, Constants
      <3>3. up => Reheld(h, K, m, Result(Trim(combinehi(h, m), m, s), m), s)
        BY <1>1, <1>5, GrowsUp DEF next
      <3>4. end => Reheld(h, K, m, UseLast(h, m, s), s)
        BY <1>1, <1>2, GrowsIntoLast DEF next
      <3>5. down => Reheld(h, K, m, Result(Trim(MoveDown(h, m, prev), prev, s), prev), s)
        BY <1>1, <1>5, GrowsDown DEF prev
      <3>6. b # 0 => Reheld(h, K, m, MoveTo(TakeFree(h, b, s).h, m, h.freehdrs[b]), s)
        <4>1. b # 0 => /\ b \in Lists /\ h.freehdrs[b] \in F
                       /\ Bucket(h, h.freehdrs[b]) = b
                       /\ s <= h.blk[h.freehdrs[b]].sz
          BY <1>1, <3>2, SearchIs DEF b
        <4> QED
          BY <1>1, <4>1, FreeMoves
      <3>7. use => Reheld(h, K, m, mv2lastsbrk(h, m, s), s)
        <4>1. use => s + DATAOFFSET <= h.blk[last].sz
          BY <1>1, <1>7
        <4> QED
          BY <1>1, <1>2, <4>1, KeepSelf, MovesToLast
      <3>8. ~fails => Reheld(h, K, m, IntoExtended(extendsbrk(h, s), m, s), s)
        BY <1>1, ExtendIs, ExtendedMoves
      <3>9. Reheld(h, K, m, Result(h, NULL), s)
        BY DEF Reheld, Result
      <3> HIDE DEF up, end, down, use, fails
      <3>10. Reheld(h, K, m, r, s)
        BY <3>1, <3>3, <3>4, <3>5, <3>6, <3>7, <3>8, <3>9
      <3> QED
        BY <1>9, <3>10 DEF s, r
    <2> QED
      BY <2>1, <2>2
  <1> QED
    BY <1>8, <1>9

-----------------------------------------------------------------------------
(* calloc and memalign.                                                    *)

\* What a call for n bytes achieves: it leaves the heap alone, gives up a block, or
\* gives the program a block that it did not hold.
Supplied(h, K, r, n) ==
  \/ r.m = NULL /\ r.h = h
  \/ /\ r.m = NULL
     /\ \E x, G : /\ Whole(r.h, G, K \cup {x}, {}) /\ x \notin K
                  /\ r.h.leaked = h.leaked \cup {x}
     /\ \A a \in K : r.h.blk[a].sz = h.blk[a].sz /\ r.h.blk[a].data = h.blk[a].data
  \/ /\ r.m # NULL /\ r.m \notin K
     /\ \E G : Whole(r.h, G, K \cup {r.m}, {})
     /\ Keep(h, r.h, K)
     /\ n + DATAOFFSET <= r.h.blk[r.m].sz

LEMMA ServedSupplies ==
  ASSUME NEW h, NEW K, NEW r, NEW s \in Nat, Served(h, K, r, s), NEW n \in Nat,
         n + DATAOFFSET <= s
  PROVE  Supplied(h, K, r, n)
  <1>1. CASE r.m = NULL /\ r.h = h
    BY <1>1 DEF Supplied
  <1>2. CASE ~(r.m = NULL /\ r.h = h)
    <2>1. PICK G : Whole(r.h, G, K \cup {r.m}, {})
      BY <1>2 DEF Served
    <2>2. /\ r.m # NULL /\ r.m \notin K /\ Keep(h, r.h, K) /\ s <= r.h.blk[r.m].sz
      BY <1>2 DEF Served
    <2>3. r.m \in K \cup {r.m}
      OBVIOUS
    <2>4. IsHeap(r.h) /\ Chained(r.h) /\ r.m \in DOMAIN r.h.blk
      <3>1. InHand(r.h, G, K \cup {r.m}, r.m)
        BY <2>1, <2>3, TakenUp
      <3> QED
        BY <3>1 DEF InHand
    <2>5. r.h.blk[r.m].sz \in Nat
      BY <2>4, SizeIs
    <2>6. n + DATAOFFSET <= r.h.blk[r.m].sz
      BY <2>2, <2>5, Constants
    <2> QED
      BY <2>1, <2>2, <2>6 DEF Supplied
  <1> QED
    BY <1>1, <1>2

LEMMA MallocSupplies ==
  ASSUME NEW h, NEW F, NEW K, Whole(h, F, K, {}), NEW n, Fine(n)
  PROVE  Supplied(h, K, nmalloc(h, n), n)
  <1>1. roundup(AtLeastOne(n)) \in Nat /\ n + DATAOFFSET <= roundup(AtLeastOne(n))
    BY FineRounds DEF Rounding
  <1>2. n \in Nat
    BY DEF Fine
  <1>3. Served(h, K, nmalloc(h, n), roundup(AtLeastOne(n)))
    BY MallocServes
  <1> QED
    BY <1>1, <1>2, <1>3, ServedSupplies

LEMMA RequestFine ==
  ASSUME NEW n \in Requests
  PROVE  Fine(n)
  <1>1. n \in Nat /\ n + MINSAVE <= WORD /\ MINSAVE < WORD
    BY NMallocAssumption, RequestsAssumption
  <1>2. MINSAVE \in Nat /\ WORD \in Nat
    BY Constants DEF MINSAVE
  <1> QED
    BY <1>1, <1>2 DEF Fine, AtLeastOne

LEMMA CallocSupplies ==
  ASSUME NEW h, NEW F, NEW K, Whole(h, F, K, {}), NEW c \in Counts, NEW n \in Requests
  PROVE  Supplied(h, K, ncalloc(h, c, n), c * n)
  <1>1. c \in Nat /\ n \in Nat
    BY NMallocAssumption
  <1>2. CASE c = 0 \/ (WORD - 1) \div c > n
    <2>1. PICK p \in Nat : p = c * n
      BY <1>1
    <2>2. MINSAVE \in Nat \ {0} /\ WORD \in Nat /\ MINSAVE < WORD
      BY Constants, RequestsAssumption DEF MINSAVE
    <2>3. c # 0 => p + MINSAVE <= WORD
      BY <1>2, <2>1, RequestsAssumption
    <2>4. c = 0 => p = 0
      BY <1>1, <2>1
    <2>5. Fine(p) /\ p < WORD
      BY <2>2, <2>3, <2>4 DEF Fine, AtLeastOne
    <2>6. Word(c * n) = p
      BY <2>1, <2>2, <2>5, SmallMod DEF Word
    <2>7. ncalloc(h, c, n) = nmalloc(h, p)
      BY <1>2, <2>6 DEF ncalloc
    <2> QED
      BY <2>1, <2>5, <2>7, MallocSupplies
  <1>3. CASE ~(c = 0 \/ (WORD - 1) \div c > n)
    <2>1. ncalloc(h, c, n) = Result(h, NULL)
      BY <1>3 DEF ncalloc
    <2> QED
      BY <2>1 DEF Supplied, Result
  <1> QED
    BY <1>2, <1>3

\* A block is given up.
LEMMA LeakIs ==
  ASSUME NEW h, NEW F, NEW K, Whole(h, F, K, {}), NEW x \in Addr
  PROVE  LET n == [h EXCEPT !.leaked = @ \cup {x}]
         IN  Whole(n, F, K, {}) /\ n.blk = h.blk /\ n.leaked = h.leaked \cup {x}
  <1> DEFINE n == [h EXCEPT !.leaked = @ \cup {x}]
             L == LastOf(h)
  <1>1. /\ IsHeap(h) /\ Chained(h) /\ Owned(h, F, K, {}, L) /\ Linked(h, F)
        /\ Ranked(h, F) /\ Merged(h, F, L) /\ Findable(h) /\ h.fouled = "no"
        /\ DOMAIN h.blk # {} => h.lastsbrk # NULL
    BY DEF Whole, Body, Core
  <1>2. /\ n.blk = h.blk /\ n.freehdrs = h.freehdrs /\ n.lastsbrk = h.lastsbrk
        /\ n.sbrkbgn = h.sbrkbgn /\ n.brk = h.brk /\ n.taken = h.taken
        /\ n.fouled = h.fouled /\ n.leaked = h.leaked \cup {x}
        /\ n = [y \in Parts |-> n[y]]
    BY <1>1 DEF IsHeap, Parts
  <1> HIDE DEF n
  <1>3. IsHeap(n)
    BY <1>1, <1>2 DEF IsHeap
  <1>4. Chained(n)
    BY <1>1, <1>2 DEF Chained, Placed
  <1>5. Linked(n, F) /\ Ranked(n, F)
    <2>1. F \subseteq DOMAIN n.blk
      BY <1>1, <1>2 DEF Owned
    <2> QED
      BY <1>1, <1>2, <2>1, KeptLists
  <1>6. Owned(n, F, K, {}, L) /\ Merged(n, F, L) /\ LastOf(n) = L
    BY <1>1, <1>2 DEF Owned, Merged, LastOf
  <1>7. Findable(n)
    BY <1>1, <1>2 DEF Findable, BasesOf
  <1>8. Whole(n, F, K, {})
    BY <1>1, <1>2, <1>3, <1>4, <1>5, <1>6, <1>7 DEF Whole, Body, Core
  <1> QED
    BY <1>2, <1>8 DEF n

\* A block that is aligned is aligned for every smaller power of two.
LEMMA AlignedFor ==
  ASSUME NEW x \in Nat, Aligned(x), NEW i \in 0..16, Pow2[i] <= ALIGN
  PROVE  x % Pow2[i] = 0
  <1>1. PICK k \in 2..16 : ALIGN = Pow2[k]
    BY AlignPower
  <1>2. ALIGN \in Nat \ {0} /\ Pow2[i] \in Nat \ {0}
    <2>1. i \in 0..32 /\ k \in 0..32 /\ i <= i /\ k <= k
      OBVIOUS
    <2> QED
      BY <1>1, <2>1, PowersGrow, Doubles, SMTT(60)
  <1>3. \E c \in Nat : ALIGN = Pow2[i] * c
    <2>1. CASE i <= k
      <3>1. i \in 0..32 /\ k \in 0..32
        OBVIOUS
      <3> QED
        BY <1>1, <2>1, <3>1, PowersDivide
    <2>2. CASE ~(i <= k)
      <3>1. i \in 0..32 /\ k \in 0..32 /\ k <= i
        BY <2>2
      <3>2. Pow2[k] <= Pow2[i]
        BY <3>1, PowersGrow
      <3>3. ALIGN = Pow2[i] * 1
        BY <1>1, <1>2, <3>2
      <3> QED
        BY <3>3
    <2> QED
      BY <2>1, <2>2
  <1>4. PICK a \in Nat \ {0} : a = Pow2[i]
    BY <1>2
  <1>5. PICK c \in Nat : ALIGN = a * c
    BY <1>3, <1>4
  <1>6. PICK j \in Nat : x = ALIGN * j
    BY DEF Aligned
  <1>7. x = a * (c * j) /\ c * j \in Nat
    BY <1>5, <1>6
  <1>8. PICK y \in Nat : y = c * j
    BY <1>7
  <1>9. x = a * y
    BY <1>7, <1>8
  <1>10. x % a = 0
    BY <1>4, <1>8, <1>9, SMTT(60)
  <1> QED
    BY <1>4, <1>10

\* What the program is given is an aligned address.
LEMMA GivenAligned ==
  ASSUME NEW h, NEW F, NEW K, Whole(h, F, K, {}), NEW m \in K
  PROVE  /\ m \in Nat /\ PTR(m) \in Addr /\ PTR(m) \in Nat /\ Aligned(PTR(m))
         /\ PTR(m) % ALIGN = 0
  <1>1. IsHeap(h) /\ Chained(h) /\ m \in DOMAIN h.blk
    <2>1. InHand(h, F, K, m)
      BY TakenUp
    <2> QED
      BY <2>1 DEF InHand
  <1>2. /\ m \in Nat /\ m \in START..LIMIT /\ h.blk[m].sz \in Nat /\ h.brk \in START..LIMIT
        /\ DATAOFFSET <= h.blk[m].sz /\ m + h.blk[m].sz <= h.brk
    BY <1>1, SizeIs DEF IsHeap, Addr
  <1>3. PTR(m) \in Addr /\ PTR(m) \in Nat
    BY <1>2, Constants DEF PTR, Addr
  <1>4. Aligned(m) /\ Aligned(DATAOFFSET)
    BY <1>1, AlignSize DEF Chained, Placed
  <1>5. Aligned(PTR(m))
    BY <1>4, AlignedSum DEF PTR
  <1> QED
    BY <1>2, <1>3, <1>5, AlignedMod

LEMMA CutAlignedSupplies ==
  ASSUME NEW h, NEW F, NEW K, Whole(h, F, K, {}), NEW a \in Nat, NEW size, Fine(size),
         NEW r, NEW t, roundup(AtLeastOne(size)) <= t, t \in Nat,
         Served(h, K, r, t)
  PROVE  LET q == CutAligned(r, a, size)
         IN  Supplied(h, K, q, size) /\ (q.m # NULL => PTR(q.m) % a = 0)
  <1> DEFINE s == roundup(AtLeastOne(size))
             q == CutAligned(r, a, size)
             m == r.m
  <1>1. Rounding(s) /\ s \in Nat /\ size + DATAOFFSET <= s /\ size \in Nat
    BY FineRounds DEF Rounding, Fine
  <1>2. CASE m = NULL
    <2>1. q = r
      BY <1>2 DEF CutAligned
    <2>2. Supplied(h, K, r, size)
      BY <1>2 DEF Served, Supplied
    <2> QED
      BY <1>2, <2>1, <2>2
  <1>3. CASE m # NULL
    <2>1. /\ m \notin K /\ Keep(h, r.h, K) /\ t <= r.h.blk[m].sz
      BY <1>3 DEF Served
    <2>2. PICK G : Whole(r.h, G, K \cup {m}, {})
      BY <1>3 DEF Served
    <2>3. m \in K \cup {m} /\ (K \cup {m}) \ {m} = K
      BY <2>1
    <2>4. IsHeap(r.h) /\ Chained(r.h) /\ m \in DOMAIN r.h.blk
      <3>1. InHand(r.h, G, K \cup {m}, m)
        BY <2>2, <2>3, TakenUp
      <3> QED
        BY <3>1 DEF InHand
    <2>5. s <= r.h.blk[m].sz
      <3>1. r.h.blk[m].sz \in Nat
        BY <2>4, SizeIs
      <3> QED
        BY <1>1, <2>1, <3>1
    <2>6. CASE PTR(m) % a = 0
      <3> DEFINE z == nrealloc(r.h, m, size)
      <3>1. q = z
        BY <1>3, <2>6 DEF CutAligned
      <3>2. Reheld(r.h, K \cup {m}, m, z, s) /\ z.m = m
        BY <2>2, <2>3, <2>5, ReallocKeeps
      <3> HIDE DEF z
      <3>3. /\ \E H : Whole(z.h, H, ((K \cup {m}) \ {m}) \cup {z.m}, {})
            /\ Keep(r.h, z.h, (K \cup {m}) \ {m}) /\ s <= z.h.blk[z.m].sz
        BY <1>3, <3>2 DEF Reheld
      <3>4. /\ \E H : Whole(z.h, H, K \cup {m}, {})
            /\ Keep(r.h, z.h, K) /\ s <= z.h.blk[m].sz
        BY <2>3, <3>2, <3>3
      <3>5. Keep(h, z.h, K)
        BY <2>1, <3>4, KeepAdd
      <3>6. Served(h, K, z, s)
        BY <1>3, <2>1, <3>2, <3>4, <3>5 DEF Served
      <3>7. Supplied(h, K, z, size)
        BY <1>1, <3>6, ServedSupplies
      <3> QED
        BY <2>6, <3>1, <3>2, <3>7
    <2>7. CASE PTR(m) % a # 0
      <3> DEFINE g == [r.h EXCEPT !.leaked = @ \cup {m}]
      <3>1. q = Result(g, NULL)
        BY <1>3, <2>7 DEF CutAligned
      <3>2. m \in Addr
        BY <2>4 DEF IsHeap
      <3>3. /\ Whole(g, G, K \cup {m}, {}) /\ g.blk = r.h.blk
            /\ g.leaked = r.h.leaked \cup {m}
        BY <2>2, <3>2, LeakIs
      <3> HIDE DEF g
      <3>4. \A x \in K : g.blk[x].sz = h.blk[x].sz /\ g.blk[x].data = h.blk[x].data
        BY <2>1, <3>3 DEF Keep
      <3>5. g.leaked = h.leaked \cup {m}
        BY <2>1, <3>3 DEF Keep
      <3>6. q.m = NULL /\ q.h = g
        BY <3>1 DEF Result
      <3> QED
        BY <2>1, <3>3, <3>4, <3>5, <3>6 DEF Supplied
    <2> QED
      BY <2>6, <2>7
  <1> QED
    BY <1>2, <1>3

LEMMA MemalignSupplies ==
  ASSUME NEW h, NEW F, NEW K, Whole(h, F, K, {}), NEW a \in Alignments, NEW n \in Requests
  PROVE  LET q == nmemalign(h, a, n)
         IN  Supplied(h, K, q, n) /\ (q.m # NULL => PTR(q.m) % a = 0)
  <1> DEFINE s == roundup(AtLeastOne(n))
             q == nmemalign(h, a, n)
             v == s + a + 3 * ALIGN
  <1>1. Fine(n) /\ n \in Nat /\ a \in Nat
    BY RequestFine, NMallocAssumption
  <1>2. Rounding(s) /\ s \in Nat /\ n + DATAOFFSET <= s /\ s < AtLeastOne(n) + MINSAVE
        /\ MINSAVE <= s
    BY <1>1, FineRounds DEF Rounding
  <1>3. ALIGN \in Nat /\ MINSAVE \in Nat \ {0} /\ WORD \in Nat /\ MAXREQUEST \in Nat
        /\ DATAOFFSET \in Nat
    BY Constants DEF MINSAVE
  <1>4. CASE n >= MAXREQUEST \/ invalid(a)
    <2>1. q = Result(h, NULL)
      BY <1>4 DEF nmemalign
    <2> QED
      BY <2>1 DEF Supplied, Result
  <1>5. CASE ~(n >= MAXREQUEST \/ invalid(a))
    <2>1. MAXREQUEST + a + 3 * ALIGN + 2 * MINSAVE <= WORD
      BY <1>5, RequestsAssumption
    <2>2. AtLeastOne(n) <= MAXREQUEST /\ AtLeastOne(n) \in Nat
      BY <1>1, <1>3, <1>5 DEF AtLeastOne
    <2>3. v + MINSAVE < WORD /\ s + MINSAVE < WORD /\ v \in Nat /\ s <= v
      BY <1>1, <1>2, <1>3, <2>1, <2>2
    <2>4. q = IF a <= ALIGN THEN nmalloc(h, s) ELSE CutAligned(nmalloc(h, Word(v)), a, n)
      BY <1>5 DEF nmemalign
    <2>5. Fine(s) /\ Fine(v)
      BY <1>2, <1>3, <2>3 DEF Fine, AtLeastOne
    <2>6. Word(v) = v
      BY <1>3, <2>3, SmallMod DEF Word
    <2> HIDE DEF s, v
    <2>7. CASE a <= ALIGN
      <3>1. q = nmalloc(h, s)
        BY <2>4, <2>7
      <3> HIDE DEF q
      <3>2. Served(h, K, q, roundup(AtLeastOne(s)))
        BY <2>5, <3>1, MallocServes
      <3>3. s + DATAOFFSET <= roundup(AtLeastOne(s)) /\ roundup(AtLeastOne(s)) \in Nat
        BY <2>5, FineRounds DEF Rounding
      <3>4. n + DATAOFFSET <= roundup(AtLeastOne(s))
        BY <1>1, <1>2, <1>3, <3>3
      <3>5. Supplied(h, K, q, n)
        BY <1>1, <3>2, <3>3, <3>4, ServedSupplies
      <3>6. ASSUME q.m # NULL
            PROVE  PTR(q.m) % a = 0
        <4>1. PICK G : Whole(q.h, G, K \cup {q.m}, {})
          BY <3>2, <3>6 DEF Served
        <4>2. q.m \in K \cup {q.m}
          OBVIOUS
        <4>3. PTR(q.m) \in Nat /\ Aligned(PTR(q.m))
          BY <4>1, <4>2, GivenAligned
        <4>4. PICK i \in 0..16 : a = Pow2[i]
          BY <1>5 DEF invalid
        <4> QED
          BY <2>7, <4>3, <4>4, AlignedFor
      <3> QED
        BY <3>5, <3>6 DEF q
    <2>8. CASE ~(a <= ALIGN)
      <3>1. q = CutAligned(nmalloc(h, v), a, n)
        BY <2>4, <2>6, <2>8
      <3>2. Served(h, K, nmalloc(h, v), roundup(AtLeastOne(v)))
        BY <2>5, MallocServes
      <3>3. v + DATAOFFSET <= roundup(AtLeastOne(v)) /\ roundup(AtLeastOne(v)) \in Nat
        BY <2>5, FineRounds DEF Rounding
      <3>4. s <= roundup(AtLeastOne(v))
        BY <1>2, <1>3, <2>3, <3>3
      <3> QED
        BY <1>1, <3>1, <3>2, <3>3, <3>4, CutAlignedSupplies DEF s
    <2> QED
      BY <2>7, <2>8
  <1> QED
    BY <1>4, <1>5

\* Others take memory from sbrk.
LEMMA ForeignKeeps ==
  ASSUME NEW h, NEW F, NEW K, Whole(h, F, K, {}), NEW d \in Nat, ~sbrk_fails(h, d)
  PROVE  LET n == [h EXCEPT !.brk = @ + d, !.taken = @ \cup h.brk..(h.brk + d - 1)]
         IN  Whole(n, F, K, {}) /\ n.blk = h.blk /\ n.leaked = h.leaked
  <1> DEFINE n == [h EXCEPT !.brk = @ + d, !.taken = @ \cup h.brk..(h.brk + d - 1)]
             L == LastOf(h)
  <1>1. /\ IsHeap(h) /\ Chained(h) /\ Owned(h, F, K, {}, L) /\ Linked(h, F)
        /\ Ranked(h, F) /\ Merged(h, F, L) /\ Findable(h) /\ h.fouled = "no"
        /\ DOMAIN h.blk # {} => h.lastsbrk # NULL
    BY DEF Whole, Body, Core
  <1>2. /\ n.blk = h.blk /\ n.freehdrs = h.freehdrs /\ n.lastsbrk = h.lastsbrk
        /\ n.sbrkbgn = h.sbrkbgn /\ n.brk = h.brk + d
        /\ n.taken = h.taken \cup h.brk..(h.brk + d - 1)
        /\ n.fouled = h.fouled /\ n.leaked = h.leaked
        /\ n = [y \in Parts |-> n[y]]
    BY <1>1 DEF IsHeap, Parts
  <1> HIDE DEF n
  <1>3. /\ h.brk \in START..LIMIT /\ h.brk + d \in START..LIMIT /\ START \in Nat
        /\ LIMIT \in Nat
    BY <1>1, Constants, SMTT(60) DEF IsHeap, sbrk_fails
  <1>4. n.taken \subseteq START..(n.brk - 1) /\ n.taken \subseteq Addr
    <2>1. ASSUME NEW t \in n.taken
          PROVE  t \in START..(n.brk - 1)
      <3>1. CASE t \in h.taken
        <4>1. t \in START..(h.brk - 1)
          BY <1>1, <3>1 DEF Chained
        <4> QED
          BY <1>2, <1>3, <4>1
      <3>2. CASE t \in h.brk..(h.brk + d - 1)
        BY <1>2, <1>3, <3>2
      <3> QED
        BY <1>2, <2>1, <3>1, <3>2
    <2>2. ASSUME NEW t \in n.taken
          PROVE  t \in Addr
      BY <1>2, <1>3, <2>1 DEF Addr
    <2> QED
      BY <2>1, <2>2
  <1>5. IsHeap(n)
    BY <1>1, <1>2, <1>3, <1>4 DEF IsHeap
  <1>6. ASSUME NEW a \in DOMAIN n.blk
        PROVE  Placed(n, a)
    <2>1. Placed(h, a) /\ a \in Nat /\ h.blk[a].sz \in Nat /\ a + h.blk[a].sz <= h.brk
      BY <1>1, <1>2, SizeIs DEF Chained
    <2>2. a + n.blk[a].sz <= n.brk
      BY <1>2, <1>3, <2>1
    <2>3. ASSUME NEW x \in n.taken
          PROVE  x < a \/ a + n.blk[a].sz <= x
      <3>1. CASE x \in h.taken
        BY <1>2, <2>1, <3>1 DEF Placed
      <3>2. CASE x \in h.brk..(h.brk + d - 1)
        BY <1>2, <1>3, <2>1, <3>2
      <3> QED
        BY <1>2, <3>1, <3>2
    <2> QED
      BY <1>2, <2>1, <2>2, <2>3 DEF Placed
  <1>7. Linked(n, F) /\ Ranked(n, F)
    <2>1. F \subseteq DOMAIN n.blk
      BY <1>1, <1>2 DEF Owned
    <2> QED
      BY <1>1, <1>2, <2>1, KeptLists
  <1>8. Owned(n, F, K, {}, L) /\ Merged(n, F, L) /\ LastOf(n) = L
    BY <1>1, <1>2 DEF Owned, Merged, LastOf
  <1>9. Findable(n)
    BY <1>1, <1>2 DEF Findable, BasesOf
  <1>10. Chained(n)
    BY <1>4, <1>6 DEF Chained
  <1>11. Whole(n, F, K, {})
    BY <1>1, <1>2, <1>5, <1>7, <1>8, <1>9, <1>10 DEF Whole, Body, Core
  <1> QED
    BY <1>2, <1>11 DEF n

-----------------------------------------------------------------------------
(* The inductive invariant.                                                *)

Held == {MEMBLKp(p) : p \in DOMAIN user}

\* Between two calls the heap is whole: its blocks are those of the lists, lastsbrk,
\* those the program holds and those memalign gave up.
IInv ==
  /\ \E F : Whole(heap, F, Held \cup heap.leaked, {})
  /\ Held \cap heap.leaked = {}
  /\ DOMAIN user \subseteq Addr /\ user = [p \in DOMAIN user |-> user[p]]
  /\ \A p \in DOMAIN user : /\ user[p] \in Nat
                            /\ user[p] + DATAOFFSET <= heap.blk[MEMBLKp(p)].sz

LEMMA PointerIs ==
  ASSUME NEW m \in Nat
  PROVE  MEMBLKp(PTR(m)) = m
  BY Constants DEF MEMBLKp, PTR

\* Distinct pointers are distinct blocks.
LEMMA HeldOnce ==
  ASSUME NEW p \in Addr, NEW q \in Addr, MEMBLKp(p) = MEMBLKp(q)
  PROVE  p = q
  BY Constants, Addresses DEF MEMBLKp

LEMMA InitHolds ==
  ASSUME Init
  PROVE  IInv
  <1>1. /\ DOMAIN heap.blk = {} /\ heap.blk = [a \in DOMAIN heap.blk |-> heap.blk[a]]
        /\ heap.freehdrs = [b \in Lists |-> NULL]
        /\ heap.lastsbrk = NULL /\ heap.sbrkbgn = << >> /\ heap.brk = START
        /\ heap.taken = {} /\ heap.leaked = {} /\ heap.fouled = "no"
        /\ heap = [x \in Parts |-> heap[x]]
    BY DEF Init, Parts, Lists
  <1>2. START \in START..LIMIT /\ START \in Nat /\ LIMIT \in Nat
    BY Constants
  <1>3. IsHeap(heap)
    BY <1>1, <1>2 DEF IsHeap
  <1>4. Chained(heap)
    BY <1>1 DEF Chained
  <1>5. Linked(heap, {})
    BY <1>1 DEF Linked
  <1>6. Ranked(heap, {})
    <2>1. [a \in {} |-> 0] \in [{} -> 0..0] /\ Falls(heap, {}, [a \in {} |-> 0])
      BY DEF Falls
    <2> QED
      BY <2>1 DEF Ranked
  <1>7. Owned(heap, {}, {}, {}, {}) /\ Merged(heap, {}, {})
    BY <1>1 DEF Owned, Merged
  <1>8. Findable(heap)
    <2>1. BasesOf(heap) = {}
      BY <1>1 DEF BasesOf
    <2>2. Cardinality(BasesOf(heap)) = 0
      BY <2>1, FS_EmptySet
    <2>3. Len(heap.sbrkbgn) = 0 /\ DOMAIN heap.sbrkbgn = {}
      BY <1>1
    <2> QED
      BY <2>2, <2>3, Constants DEF Findable
  <1>9. LastOf(heap) = {}
    BY <1>1 DEF LastOf
  <1>10. Whole(heap, {}, {}, {})
    BY <1>1, <1>3, <1>4, <1>5, <1>6, <1>7, <1>8, <1>9 DEF Whole, Body, Core
  <1>11. DOMAIN user = {} /\ user = [p \in DOMAIN user |-> user[p]]
    BY DEF Init
  <1>12. Held = {}
    BY <1>11 DEF Held
  <1> QED
    BY <1>1, <1>10, <1>11, <1>12 DEF IInv

\* What a step does to the program's blocks: nothing, one more, or one less.
SameHeld ==
  /\ user' = user
  /\ \A p \in DOMAIN user : heap'.blk[MEMBLKp(p)].data = heap.blk[MEMBLKp(p)].data
MoreHeld(m, n) ==
  /\ PTR(m) \in Addr /\ PTR(m) \notin DOMAIN user
  /\ user' = Hold(PTR(m), n) /\ heap'.blk[m].data = "user"
  /\ \A p \in DOMAIN user : heap'.blk[MEMBLKp(p)].data = heap.blk[MEMBLKp(p)].data

LEMMA GivenKeeps ==
  ASSUME IInv, NEW r, NEW n \in Nat, Supplied(heap, Held \cup heap.leaked, r, n), Given(r, n)
  PROVE  IInv' /\ (SameHeld \/ \E m \in Nat : MoreHeld(m, n))
  <1> DEFINE K == Held \cup heap.leaked
             h == heap'
             m == r.m
  <1>1. /\ DOMAIN user \subseteq Addr /\ user = [p \in DOMAIN user |-> user[p]]
        /\ Held \cap heap.leaked = {}
        /\ \A p \in DOMAIN user : /\ user[p] \in Nat
                                  /\ user[p] + DATAOFFSET <= heap.blk[MEMBLKp(p)].sz
    BY DEF IInv
  <1>2. \A p \in DOMAIN user : MEMBLKp(p) \in Held
    BY DEF Held
  <1>3. CASE m = NULL /\ r.h = heap
    <2>1. h = heap /\ user' = user /\ Held' = Held
      BY <1>3 DEF Given, Held
    <2>2. IInv'
      BY <2>1 DEF IInv
    <2> QED
      BY <2>1, <2>2 DEF SameHeld
  <1>4. CASE /\ m = NULL
             /\ \E x, G : /\ Whole(r.h, G, K \cup {x}, {}) /\ x \notin K
                          /\ r.h.leaked = heap.leaked \cup {x}
             /\ \A a \in K : r.h.blk[a].sz = heap.blk[a].sz /\ r.h.blk[a].data = heap.blk[a].data
    <2>1. h = r.h /\ user' = user /\ Held' = Held
      BY <1>4 DEF Given, Held
    <2>2. PICK x, G : /\ Whole(h, G, K \cup {x}, {}) /\ x \notin K
                      /\ h.leaked = heap.leaked \cup {x}
      BY <1>4, <2>1
    <2>3. Held' \cup h.leaked = K \cup {x} /\ Held' \cap h.leaked = {}
      BY <1>1, <2>1, <2>2
    <2>4. \A p \in DOMAIN user : /\ h.blk[MEMBLKp(p)].sz = heap.blk[MEMBLKp(p)].sz
                                 /\ h.blk[MEMBLKp(p)].data = heap.blk[MEMBLKp(p)].data
      BY <1>2, <1>4, <2>1
    <2>5. IInv'
      BY <1>1, <2>1, <2>2, <2>3, <2>4 DEF IInv
    <2> QED
      BY <2>1, <2>4, <2>5 DEF SameHeld
  <1>5. CASE /\ m # NULL /\ m \notin K
             /\ \E G : Whole(r.h, G, K \cup {m}, {})
             /\ Keep(heap, r.h, K)
             /\ n + DATAOFFSET <= r.h.blk[m].sz
    <2>1. h = Filled(r.h, m) /\ user' = Hold(PTR(m), n)
      BY <1>5 DEF Given
    <2>2. PICK G : Whole(r.h, G, K \cup {m}, {})
      BY <1>5
    <2>3. m \in K \cup {m} /\ (K \cup {m}) \ {m} = K
      BY <1>5
    <2>4. m \in Nat /\ PTR(m) \in Addr /\ PTR(m) \in Nat
      BY <2>2, <2>3, GivenAligned
    <2>5. MEMBLKp(PTR(m)) = m
      BY <2>4, PointerIs
    <2>6. /\ Whole(h, G, K \cup {m}, {}) /\ Keep(r.h, h, (K \cup {m}) \ {m})
          /\ h.blk[m].data = "user" /\ h.blk[m].sz = r.h.blk[m].sz
      <3>1. h = StoreTo(r.h, m, "user")
        BY <2>1 DEF Filled, StoreTo
      <3>2. StoredHeld(r.h, h, G, K \cup {m}, m, "user")
        BY <2>2, <2>3, <3>1, StoreHeld
      <3> HIDE DEF h, K
      <3> QED
        BY <3>2 DEF StoredHeld
    <2>7. Keep(heap, h, K)
      BY <1>5, <2>3, <2>6, KeepAdd
    <2>8. PTR(m) \notin DOMAIN user
      BY <1>2, <1>5, <2>5
    <2>9. /\ DOMAIN user' = DOMAIN user \cup {PTR(m)} /\ user'[PTR(m)] = n
          /\ \A p \in DOMAIN user : user'[p] = user[p]
          /\ user' = [p \in DOMAIN user' |-> user'[p]]
      BY <2>1, <2>8 DEF Hold
    <2>10. Held' = Held \cup {m}
      BY <2>5, <2>9 DEF Held
    <2>11. h.leaked = heap.leaked
      BY <2>7 DEF Keep
    <2>12. Held' \cup h.leaked = K \cup {m} /\ Held' \cap h.leaked = {}
      BY <1>1, <1>5, <2>10, <2>11
    <2>13. \A p \in DOMAIN user : /\ h.blk[MEMBLKp(p)].sz = heap.blk[MEMBLKp(p)].sz
                                  /\ h.blk[MEMBLKp(p)].data = heap.blk[MEMBLKp(p)].data
      BY <1>2, <2>7 DEF Keep
    <2>14. \A p \in DOMAIN user' : /\ user'[p] \in Nat
                                   /\ user'[p] + DATAOFFSET <= h.blk[MEMBLKp(p)].sz
      BY <1>1, <1>5, <2>5, <2>6, <2>9, <2>13
    <2>15. IInv'
      BY <1>1, <2>4, <2>6, <2>9, <2>12, <2>14 DEF IInv
    <2>16. MoreHeld(m, n)
      BY <2>1, <2>4, <2>6, <2>8, <2>13 DEF MoreHeld
    <2> QED
      BY <2>4, <2>15, <2>16
  <1> QED
    BY <1>3, <1>4, <1>5 DEF Supplied

LessHeld(p) ==
  /\ user' = [q \in DOMAIN user \ {p} |-> user[q]]
  /\ \A q \in DOMAIN user \ {p} :
       heap'.blk[MEMBLKp(q)].data = heap.blk[MEMBLKp(q)].data

LEMMA FreeStep ==
  ASSUME IInv, NEW p \in DOMAIN user, heap' = nfree(heap, MEMBLKp(p)),
         user' = [q \in DOMAIN user \ {p} |-> user[q]]
  PROVE  IInv' /\ LessHeld(p)
  <1> DEFINE K == Held \cup heap.leaked
             h == heap'
             m == MEMBLKp(p)
  <1>1. /\ DOMAIN user \subseteq Addr /\ user = [q \in DOMAIN user |-> user[q]]
        /\ Held \cap heap.leaked = {}
        /\ \A q \in DOMAIN user : /\ user[q] \in Nat
                                  /\ user[q] + DATAOFFSET <= heap.blk[MEMBLKp(q)].sz
    BY DEF IInv
  <1>2. m \in Held /\ m \in K
    BY DEF Held
  <1>3. PICK F : Whole(heap, F, K, {})
    BY DEF IInv
  <1>4. (\E G : Whole(h, G, K \ {m}, {})) /\ Keep(heap, h, K \ {m})
    BY <1>2, <1>3, FreeKeeps
  <1>5. /\ DOMAIN user' = DOMAIN user \ {p}
        /\ \A q \in DOMAIN user \ {p} : user'[q] = user[q]
        /\ user' = [q \in DOMAIN user' |-> user'[q]]
    OBVIOUS
  <1>6. \A q \in DOMAIN user \ {p} : MEMBLKp(q) # m /\ MEMBLKp(q) \in Held
    BY <1>1, HeldOnce DEF Held
  <1>7. Held' = Held \ {m}
    BY <1>5, <1>6 DEF Held
  <1>8. h.leaked = heap.leaked
    BY <1>4 DEF Keep
  <1>9. Held' \cup h.leaked = K \ {m} /\ Held' \cap h.leaked = {}
    BY <1>1, <1>2, <1>7, <1>8
  <1>10. \A q \in DOMAIN user \ {p} :
           /\ h.blk[MEMBLKp(q)].sz = heap.blk[MEMBLKp(q)].sz
           /\ h.blk[MEMBLKp(q)].data = heap.blk[MEMBLKp(q)].data
    BY <1>4, <1>6 DEF Keep
  <1>11. \A q \in DOMAIN user' : /\ user'[q] \in Nat
                                 /\ user'[q] + DATAOFFSET <= h.blk[MEMBLKp(q)].sz
    BY <1>1, <1>5, <1>10
  <1>12. IInv'
    BY <1>1, <1>4, <1>5, <1>9, <1>11 DEF IInv
  <1> QED
    BY <1>10, <1>12 DEF LessHeld

MovedHeld(p, m, n) ==
  /\ PTR(m) \in Addr
  /\ user' = [q \in (DOMAIN user \ {p}) \cup {PTR(m)} |-> IF q = PTR(m) THEN n ELSE user[q]]
  /\ PTR(m) \notin DOMAIN user \ {p}
  /\ heap'.blk[m].data = heap.blk[MEMBLKp(p)].data
  /\ \A q \in DOMAIN user \ {p} :
       heap'.blk[MEMBLKp(q)].data = heap.blk[MEMBLKp(q)].data

LEMMA ReallocStep ==
  ASSUME IInv, NEW p \in DOMAIN user, NEW n \in Requests,
         Moved(nrealloc(heap, MEMBLKp(p), n), p, n)
  PROVE  IInv' /\ (SameHeld \/ \E m \in Nat : MovedHeld(p, m, n))
  <1> DEFINE K == Held \cup heap.leaked
             h == heap'
             o == MEMBLKp(p)
             r == nrealloc(heap, o, n)
             m == r.m
             s == roundup(AtLeastOne(n))
  <1>1. /\ DOMAIN user \subseteq Addr /\ user = [q \in DOMAIN user |-> user[q]]
        /\ Held \cap heap.leaked = {}
        /\ \A q \in DOMAIN user : /\ user[q] \in Nat
                                  /\ user[q] + DATAOFFSET <= heap.blk[MEMBLKp(q)].sz
    BY DEF IInv
  <1>2. o \in Held /\ o \in K
    BY DEF Held
  <1>3. PICK F : Whole(heap, F, K, {})
    BY DEF IInv
  <1>4. Fine(n) /\ n \in Nat
    BY RequestFine, NMallocAssumption
  <1>5. s \in Nat /\ n + DATAOFFSET <= s
    BY <1>4, FineRounds DEF Rounding
  <1>6. Reheld(heap, K, o, r, s)
    BY <1>2, <1>3, <1>4, ReallocKeeps
  <1> HIDE DEF r, s
  <1>7. CASE m = NULL /\ r.h = heap
    <2>1. h = heap /\ user' = user /\ Held' = Held
      BY <1>7 DEF Moved, Held, r
    <2>2. IInv'
      BY <2>1 DEF IInv
    <2> QED
      BY <2>1, <2>2 DEF SameHeld
  <1>8. CASE ~(m = NULL /\ r.h = heap)
    <2> DEFINE J == (K \ {o}) \cup {m}
    <2>1. /\ m # NULL /\ m \notin K \ {o} /\ Keep(heap, r.h, K \ {o})
          /\ s <= r.h.blk[m].sz /\ r.h.blk[m].data = heap.blk[o].data
      BY <1>6, <1>8 DEF Reheld
    <2>2. PICK G : Whole(r.h, G, J, {})
      BY <1>6, <1>8 DEF Reheld
    <2>3. h = r.h /\ user' = [q \in (DOMAIN user \ {p}) \cup {PTR(m)} |->
                                IF q = PTR(m) THEN n ELSE user[q]]
      BY <2>1 DEF Moved, r
    <2>4. m \in J
      OBVIOUS
    <2>5. m \in Nat /\ PTR(m) \in Addr /\ PTR(m) \in Nat
      BY <2>2, <2>4, GivenAligned
    <2>6. MEMBLKp(PTR(m)) = m
      BY <2>5, PointerIs
    <2>7. \A q \in DOMAIN user \ {p} : MEMBLKp(q) # o /\ MEMBLKp(q) \in K \ {o}
      BY <1>1, HeldOnce DEF Held
    <2>8. PTR(m) \notin DOMAIN user \ {p}
      BY <2>1, <2>6, <2>7
    <2>9. /\ DOMAIN user' = (DOMAIN user \ {p}) \cup {PTR(m)} /\ user'[PTR(m)] = n
          /\ \A q \in DOMAIN user \ {p} : user'[q] = user[q]
          /\ user' = [q \in DOMAIN user' |-> user'[q]]
      BY <2>3, <2>8
    <2>10. Held' = (Held \ {o}) \cup {m}
      <3>1. Held' = {MEMBLKp(q) : q \in DOMAIN user \ {p}} \cup {m}
        BY <2>6, <2>9 DEF Held
      <3>2. {MEMBLKp(q) : q \in DOMAIN user \ {p}} = Held \ {o}
        BY <2>7 DEF Held
      <3> QED
        BY <3>1, <3>2
    <2>11. h.leaked = heap.leaked
      BY <2>1, <2>3 DEF Keep
    <2>12. Held' \cup h.leaked = J /\ Held' \cap h.leaked = {}
      <3>1. heap.leaked \ {o} = heap.leaked /\ heap.leaked \subseteq K \ {o}
        BY <1>1, <1>2
      <3>2. m \notin heap.leaked
        BY <2>1, <3>1
      <3> QED
        BY <1>1, <2>10, <2>11, <3>1, <3>2
    <2>13. \A q \in DOMAIN user \ {p} :
             /\ h.blk[MEMBLKp(q)].sz = heap.blk[MEMBLKp(q)].sz
             /\ h.blk[MEMBLKp(q)].data = heap.blk[MEMBLKp(q)].data
      BY <2>1, <2>3, <2>7 DEF Keep
    <2>14. n + DATAOFFSET <= h.blk[m].sz
      <3>1. IsHeap(r.h) /\ Chained(r.h) /\ m \in DOMAIN r.h.blk
        <4>1. InHand(r.h, G, J, m)
          BY <2>2, <2>4, TakenUp
        <4> QED
          BY <4>1 DEF InHand
      <3>2. r.h.blk[m].sz \in Nat
        BY <3>1, SizeIs
      <3> QED
        BY <1>4, <1>5, <2>1, <2>3, <3>2, Constants
    <2>15. \A q \in DOMAIN user' : /\ user'[q] \in Nat
                                   /\ user'[q] + DATAOFFSET <= h.blk[MEMBLKp(q)].sz
      BY <1>1, <1>4, <2>6, <2>9, <2>13, <2>14
    <2>16. IInv'
      BY <1>1, <2>2, <2>3, <2>5, <2>9, <2>12, <2>15 DEF IInv
    <2>17. MovedHeld(p, m, n)
      BY <2>1, <2>3, <2>5, <2>8, <2>13 DEF MovedHeld
    <2> QED
      BY <2>5, <2>16, <2>17
  <1> QED
    BY <1>7, <1>8

-----------------------------------------------------------------------------
(* The blocks met when the links of a list are followed.                   *)

\* at is the walk along list b, as ListOf takes it.
WalkOf(at, b) ==
  at = [n \in 0..Cardinality(Blocks) |->
          IF n = 0 THEN heap.freehdrs[b]
          ELSE IF at[n - 1] \in Blocks THEN heap.blk[at[n - 1]].nextfree ELSE NONE]

LEMMA BlocksFinite ==
  ASSUME IsHeap(heap)
  PROVE  IsFiniteSet(Blocks) /\ Cardinality(Blocks) \in Nat
  <1>1. Blocks \subseteq START..LIMIT /\ START \in Int /\ LIMIT \in Int
    <2>1. Blocks \subseteq Addr
      BY DEF Blocks, IsHeap
    <2>2. Addr \subseteq START..LIMIT /\ START \in Int /\ LIMIT \in Int
      BY Constants DEF Addr
    <2> QED
      BY <2>1, <2>2
  <1>2. IsFiniteSet(START..LIMIT)
    BY <1>1, FS_Interval
  <1>3. IsFiniteSet(Blocks)
    BY <1>1, <1>2, FS_Subset
  <1> QED
    BY <1>3, FS_CardinalityType

LEMMA WalkExists ==
  ASSUME IsHeap(heap), NEW b \in Lists
  PROVE  \E at : WalkOf(at, b) /\ ListOf(b) = {at[n] : n \in 0..Cardinality(Blocks)} \ NoAddr
  <1> DEFINE N == Cardinality(Blocks)
  <1>1. N \in Nat
    BY BlocksFinite
  <1> HIDE DEF N
  <1>2. PICK a \in Link : a = heap.freehdrs[b]
    BY DEF IsHeap, Link, NoAddr
  <1>3. PICK e : e = [q \in Link \X (1..N) |->
                        IF q[1] \in Blocks THEN heap.blk[q[1]].nextfree ELSE NONE]
    OBVIOUS
  <1>4. ASSUME NEW r \in Link, NEW i \in 1..N
        PROVE  /\ e[<<r, i>>] = IF r \in Blocks THEN heap.blk[r].nextfree ELSE NONE
               /\ e[<<r, i>>] \in Link
    <2>1. <<r, i>> \in Link \X (1..N) /\ <<r, i>>[1] = r
      OBVIOUS
    <2>2. e[<<r, i>>] = IF r \in Blocks THEN heap.blk[r].nextfree ELSE NONE
      BY <1>3, <2>1
    <2>3. r \in Blocks => heap.blk[r].nextfree \in Link
      BY DEF IsHeap, Blocks, Block
    <2>4. NONE \in Link
      BY DEF Link, NoAddr
    <2> QED
      BY <2>2, <2>3, <2>4
  <1>5. PICK g : LoopOf(g, N, a, e) /\ \A i \in 0..N : g[i] \in Link
    <2>1. \A r \in Link, i \in 1..N : e[<<r, i>>] \in Link
      BY <1>4
    <2> QED
      BY <1>1, <2>1, RunExists, Zenon
  <1>6. WalkOf(g, b)
    <2>1. ASSUME NEW i \in 0..N
          PROVE  (IF i = 0 THEN a ELSE e[<<g[i - 1], i>>])
                 = (IF i = 0 THEN heap.freehdrs[b]
                    ELSE IF g[i - 1] \in Blocks THEN heap.blk[g[i - 1]].nextfree ELSE NONE)
      <3>1. CASE i = 0
        BY <1>2, <3>1
      <3>2. CASE i # 0
        <4>1. i \in 1..N /\ i - 1 \in 0..N
          BY <1>1, <3>2
        <4>2. g[i - 1] \in Link
          BY <1>5, <4>1
        <4>3. e[<<g[i - 1], i>>] = IF g[i - 1] \in Blocks THEN heap.blk[g[i - 1]].nextfree
                                   ELSE NONE
          BY <1>4, <4>1, <4>2
        <4> QED
          BY <3>2, <4>3, Zenon
      <3> QED
        BY <3>1, <3>2
    <2> QED
      BY <1>5, <2>1, Zenon DEF LoopOf, WalkOf, N
  <1> DEFINE at == CHOOSE f : WalkOf(f, b)
  <1>7. WalkOf(at, b)
    BY <1>6, Zenon
  <1>8. ListOf(b) = {at[n] : n \in DOMAIN at} \ NoAddr
    BY Zenon DEF ListOf, WalkOf
  <1> HIDE DEF at
  <1>9. DOMAIN at = 0..N
    BY <1>7 DEF WalkOf, N
  <1> QED
    BY <1>7, <1>8, <1>9 DEF N

LEMMA WalkIs ==
  ASSUME IsHeap(heap), NEW b \in Lists, NEW at, WalkOf(at, b)
  PROVE  /\ at[0] = heap.freehdrs[b]
         /\ \A i \in 1..Cardinality(Blocks) :
              at[i] = IF at[i - 1] \in Blocks THEN heap.blk[at[i - 1]].nextfree ELSE NONE
  <1> DEFINE N == Cardinality(Blocks)
  <1>1. N \in Nat
    BY BlocksFinite
  <1> HIDE DEF N
  <1>2. \A i \in 0..N : at[i] = IF i = 0 THEN heap.freehdrs[b]
                                ELSE IF at[i - 1] \in Blocks THEN heap.blk[at[i - 1]].nextfree
                                ELSE NONE
    BY DEF WalkOf, N
  <1>3. 0 \in 0..N /\ \A i \in 1..N : i \in 0..N /\ i # 0
    BY <1>1
  <1> QED
    BY <1>2, <1>3 DEF N

\* The walk stays in its list, and never comes back to a block.
LEMMA WalkStays ==
  ASSUME IsHeap(heap), NEW b \in Lists, NEW at, WalkOf(at, b), NEW F, Linked(heap, F),
         NEW P \in Nat, NEW r \in [F -> 0..P], Falls(heap, F, r)
  PROVE  \A i \in 0..Cardinality(Blocks) :
           /\ at[i] \in NoAddr \/ (at[i] \in F /\ Bucket(heap, at[i]) = b)
           /\ at[i] \in F => \A j \in 0..(i - 1) : at[j] \in F /\ r[at[i]] < r[at[j]]
  <1> DEFINE N == Cardinality(Blocks)
             Good(i) == /\ at[i] \in NoAddr \/ (at[i] \in F /\ Bucket(heap, at[i]) = b)
                        /\ at[i] \in F => \A j \in 0..(i - 1) :
                                            at[j] \in F /\ r[at[i]] < r[at[j]]
             S == {i \in 0..N : Good(i)}
  <1>1. N \in Nat
    BY BlocksFinite
  <1>2. /\ at[0] = heap.freehdrs[b]
        /\ \A i \in 1..N :
             at[i] = IF at[i - 1] \in Blocks THEN heap.blk[at[i - 1]].nextfree ELSE NONE
    BY WalkIs
  <1>3. F \subseteq Blocks /\ Blocks \subseteq Addr
    BY DEF Linked, Blocks, IsHeap
  <1>4. \A m \in NoAddr : m \notin Blocks
    BY <1>3, Addresses DEF NoAddr
  <1> HIDE DEF N
  <1>5. 0 \in S
    <2>1. Good(0)
      BY <1>2 DEF Linked, NoAddr
    <2> QED
      BY <1>1, <2>1
  <1>6. ASSUME NEW i \in 1..N, i - 1 \in S
        PROVE  i \in S
    <2> DEFINE y == at[i - 1]
    <2>1. Good(i - 1) /\ i \in 0..N /\ i \in Nat
      BY <1>1, <1>6
    <2>2. CASE y \in NoAddr
      <3>1. at[i] = NONE
        BY <1>2, <1>4, <2>2
      <3>2. NONE \in NoAddr /\ NONE \notin F
        BY <1>3, <1>4 DEF NoAddr
      <3> QED
        BY <2>1, <3>1, <3>2
    <2>3. CASE y \in F /\ Bucket(heap, y) = b
      <3>1. at[i] = heap.blk[y].nextfree
        BY <1>2, <1>3, <2>3
      <3>2. /\ heap.blk[y].nextfree \in F \cup {NONE}
            /\ heap.blk[y].nextfree # NONE => Bucket(heap, heap.blk[y].nextfree) = b
        BY <2>3 DEF Linked, InList
      <3>3. NONE \in NoAddr
        BY DEF NoAddr
      <3>4. ASSUME at[i] \in F, NEW j \in 0..(i - 1)
            PROVE  at[j] \in F /\ r[at[i]] < r[at[j]]
        <4>1. r[at[i]] < r[y] /\ r[at[i]] \in Int /\ r[y] \in Int
          BY <1>3, <1>4, <2>3, <3>1, <3>3, <3>4 DEF Falls
        <4>2. CASE j = i - 1
          BY <2>3, <4>1, <4>2
        <4>3. CASE j # i - 1
          <5>1. j \in 0..((i - 1) - 1)
            BY <2>1, <4>3
          <5>2. at[j] \in F /\ r[y] < r[at[j]]
            BY <2>1, <2>3, <5>1
          <5>3. r[at[j]] \in Int
            BY <5>2
          <5> QED
            BY <4>1, <5>2, <5>3
        <4> QED
          BY <4>2, <4>3
      <3>5. Good(i)
        BY <3>1, <3>2, <3>3, <3>4
      <3> QED
        BY <2>1, <3>5
    <2> QED
      BY <2>1, <2>2, <2>3
  <1> HIDE DEF S
  <1>7. \A i \in 0..N : i \in S
    BY <1>1, <1>5, <1>6, TurnByTurn
  <1> QED
    BY <1>7 DEF S, N

\* The walk meets every block of its list.
LEMMA ListIs ==
  ASSUME NEW F, NEW K, NEW X, Whole(heap, F, K, X), NEW b \in Lists
  PROVE  ListOf(b) = {m \in F : Bucket(heap, m) = b}
  <1> DEFINE N == Cardinality(Blocks)
             B == {m \in F : Bucket(heap, m) = b}
  <1>1. /\ IsHeap(heap) /\ Chained(heap) /\ Linked(heap, F) /\ Ranked(heap, F)
    BY DEF Whole, Body, Core
  <1>2. PICK P \in Nat : \E r \in [F -> 0..P] : Falls(heap, F, r)
    BY <1>1 DEF Ranked
  <1>3. PICK r \in [F -> 0..P] : Falls(heap, F, r)
    BY <1>2
  <1>4. PICK at : WalkOf(at, b) /\ ListOf(b) = {at[n] : n \in 0..N} \ NoAddr
    BY <1>1, WalkExists
  <1>5. \A i \in 0..N :
          /\ at[i] \in NoAddr \/ (at[i] \in F /\ Bucket(heap, at[i]) = b)
          /\ at[i] \in F => \A j \in 0..(i - 1) : at[j] \in F /\ r[at[i]] < r[at[j]]
    BY <1>1, <1>3, <1>4, WalkStays
  <1>6. /\ at[0] = heap.freehdrs[b]
        /\ \A i \in 1..N :
             at[i] = IF at[i - 1] \in Blocks THEN heap.blk[at[i - 1]].nextfree ELSE NONE
    BY <1>1, <1>4, WalkIs
  <1>7. N \in Nat /\ IsFiniteSet(Blocks)
    BY <1>1, BlocksFinite
  <1>8. F \subseteq Blocks /\ Blocks \subseteq Addr
    BY <1>1 DEF Linked, Blocks, IsHeap
  <1>9. \A m \in F : m \notin NoAddr
    BY <1>8, Addresses DEF NoAddr
  <1> HIDE DEF N
  <1>10. ListOf(b) \subseteq B
    BY <1>4, <1>5
  <1>11. at[N] \notin F
    <2> SUFFICES ASSUME at[N] \in F PROVE FALSE
      OBVIOUS
    <2>1. N \in 0..N
      BY <1>7
    <2>2. \A i \in 0..N : at[i] \in F
      BY <1>5, <1>7, <2>1
    <2>3. PICK f : f = [i \in 0..N |-> at[i]]
      OBVIOUS
    <2>4. f \in [0..N -> Blocks]
      BY <1>8, <2>2, <2>3
    <2>5. IsFiniteSet(0..N) /\ Cardinality(0..N) = N + 1
      <3>1. N \in Int /\ 0 \in Int /\ ~(0 > N)
        BY <1>7
      <3> QED
        BY <3>1, FS_Interval
    <2>6. Cardinality(Blocks) < Cardinality(0..N)
      BY <1>7, <2>5 DEF N
    <2>7. PICK i \in 0..N, j \in 0..N : i # j /\ f[i] = f[j]
      BY <1>7, <2>4, <2>5, <2>6, FS_PigeonHole
    <2>8. at[i] = at[j] /\ at[i] \in F /\ at[j] \in F
      BY <2>2, <2>3, <2>7
    <2>9. i < j => r[at[j]] < r[at[i]]
      BY <1>5, <2>8
    <2>10. j < i => r[at[i]] < r[at[j]]
      BY <1>5, <2>8
    <2>11. r[at[i]] \in Int /\ r[at[i]] = r[at[j]]
      BY <2>8
    <2> QED
      BY <2>7, <2>9, <2>10, <2>11
  <1>12. B \subseteq ListOf(b)
    <2> DEFINE M == {m \in B : \A n \in 0..N : at[n] # m}
               Q == {P - r[m] : m \in M}
    <2>1. M = {}
      <3> SUFFICES ASSUME M # {} PROVE FALSE
        OBVIOUS
      <3>1. Q \in SUBSET Nat /\ Q # {}
        <4>1. \A m \in M : r[m] \in 0..P
          OBVIOUS
        <4> QED
          BY <4>1
      <3>2. PICK z \in Q : \A y \in Q : z <= y
        BY <3>1, LeastIn
      <3>3. PICK m \in M : z = P - r[m]
        OBVIOUS
      <3>4. m \in F /\ Bucket(heap, m) = b /\ \A n \in 0..N : at[n] # m
        OBVIOUS
      <3>5. InList(heap, F, m)
        BY <1>1, <3>4 DEF Linked
      <3> DEFINE y == heap.blk[m].prevfree
      <3>6. CASE y = NONE
        <4>1. at[0] = m /\ 0 \in 0..N
          BY <1>6, <1>7, <3>4, <3>5, <3>6 DEF InList
        <4> QED
          BY <3>4, <4>1
      <3>7. CASE y # NONE
        <4>1. y \in F /\ heap.blk[y].nextfree = m /\ m # NONE
          BY <1>9, <3>4, <3>5, <3>7 DEF InList, NoAddr
        <4>2. Bucket(heap, y) = b
          BY <1>1, <3>4, <4>1 DEF Linked, InList
        <4>3. r[m] < r[y] /\ r[m] \in 0..P /\ r[y] \in 0..P
          BY <1>3, <3>4, <4>1 DEF Falls
        <4>4. y \notin M
          <5>1. y \in M => P - r[y] \in Q
            OBVIOUS
          <5>2. y \in M => P - r[m] <= P - r[y]
            BY <3>2, <3>3, <5>1
          <5> QED
            BY <4>3, <5>2
        <4>5. PICK n \in 0..N : at[n] = y
          BY <4>1, <4>2, <4>4
        <4>6. n # N
          BY <1>11, <4>1, <4>5
        <4>7. n + 1 \in 1..N /\ n + 1 \in 0..N /\ (n + 1) - 1 = n
          BY <1>7, <4>6
        <4>8. at[n + 1] = m
          BY <1>6, <1>8, <4>1, <4>5, <4>7
        <4> QED
          BY <3>4, <4>7, <4>8
      <3> QED
        BY <3>6, <3>7
    <2>2. ASSUME NEW m \in B
          PROVE  m \in ListOf(b)
      <3>1. PICK n \in 0..N : at[n] = m
        BY <2>1
      <3> QED
        BY <1>4, <1>9, <3>1 DEF N
    <2> QED
      BY <2>2
  <1> QED
    BY <1>10, <1>12

-----------------------------------------------------------------------------
(* Every step keeps the invariant.                                         *)

Asked == Requests \cup {c * n : c \in Counts, n \in Requests}

StepOf ==
  \/ SameHeld
  \/ \E n \in Asked, m \in Nat : MoreHeld(m, n)
  \/ \E p \in DOMAIN user : LessHeld(p)
  \/ \E p \in DOMAIN user, n \in Asked, m \in Nat : MovedHeld(p, m, n)

LEMMA CallsKeep ==
  ASSUME IInv, Next
  PROVE  IInv' /\ StepOf
  <1>1. PICK F : Whole(heap, F, Held \cup heap.leaked, {})
    BY DEF IInv
  <1>2. CASE malloc
    <2>1. PICK n \in Requests : Given(nmalloc(heap, n), n)
      BY <1>2 DEF malloc
    <2>2. Fine(n) /\ n \in Nat /\ n \in Asked
      BY RequestFine, NMallocAssumption DEF Asked
    <2>3. Supplied(heap, Held \cup heap.leaked, nmalloc(heap, n), n)
      BY <1>1, <2>2, MallocSupplies
    <2>4. IInv' /\ (SameHeld \/ \E m \in Nat : MoreHeld(m, n))
      BY <2>1, <2>2, <2>3, GivenKeeps
    <2> QED
      BY <2>2, <2>4 DEF StepOf
  <1>3. CASE calloc
    <2>1. PICK c \in Counts, n \in Requests : Given(ncalloc(heap, c, n), c * n)
      BY <1>3 DEF calloc
    <2>2. c \in Nat /\ n \in Nat
      BY NMallocAssumption
    <2>3. c * n \in Nat /\ c * n \in Asked
      BY <2>2 DEF Asked
    <2>4. Supplied(heap, Held \cup heap.leaked, ncalloc(heap, c, n), c * n)
      BY <1>1, CallocSupplies
    <2>5. IInv' /\ (SameHeld \/ \E m \in Nat : MoreHeld(m, c * n))
      BY <2>1, <2>3, <2>4, GivenKeeps
    <2> QED
      BY <2>3, <2>5 DEF StepOf
  <1>4. CASE memalign
    <2>1. PICK a \in Alignments, n \in Requests : Given(nmemalign(heap, a, n), n)
      BY <1>4 DEF memalign
    <2>2. n \in Nat /\ n \in Asked
      BY NMallocAssumption DEF Asked
    <2>3. Supplied(heap, Held \cup heap.leaked, nmemalign(heap, a, n), n)
      BY <1>1, MemalignSupplies
    <2>4. IInv' /\ (SameHeld \/ \E m \in Nat : MoreHeld(m, n))
      BY <2>1, <2>2, <2>3, GivenKeeps
    <2> QED
      BY <2>2, <2>4 DEF StepOf
  <1>5. CASE free
    <2>1. PICK p \in DOMAIN user : /\ heap' = nfree(heap, MEMBLKp(p))
                                   /\ user' = [q \in DOMAIN user \ {p} |-> user[q]]
      BY <1>5 DEF free
    <2>2. IInv' /\ LessHeld(p)
      BY <2>1, FreeStep
    <2> QED
      BY <2>2 DEF StepOf
  <1>6. CASE realloc
    <2>1. PICK p \in DOMAIN user, n \in Requests :
            Moved(nrealloc(heap, MEMBLKp(p), n), p, n)
      BY <1>6 DEF realloc
    <2>2. IInv' /\ (SameHeld \/ \E m \in Nat : MovedHeld(p, m, n))
      BY <2>1, ReallocStep
    <2>3. n \in Asked
      BY DEF Asked
    <2> QED
      BY <2>2, <2>3 DEF StepOf
  <1>7. CASE foreign_sbrk
    <2>1. PICK n \in Foreign :
            /\ ~sbrk_fails(heap, n)
            /\ heap' = [heap EXCEPT !.brk = @ + n,
                                    !.taken = @ \cup heap.brk..(heap.brk + n - 1)]
            /\ user' = user
      BY <1>7 DEF foreign_sbrk
    <2>2. n \in Nat
      BY NMallocAssumption
    <2>3. /\ Whole(heap', F, Held \cup heap.leaked, {}) /\ heap'.blk = heap.blk
          /\ heap'.leaked = heap.leaked
      BY <1>1, <2>1, <2>2, ForeignKeeps
    <2>4. Held' = Held
      BY <2>1 DEF Held
    <2>5. IInv'
      BY <2>1, <2>3, <2>4 DEF IInv
    <2>6. SameHeld
      BY <2>1, <2>3 DEF SameHeld
    <2> QED
      BY <2>5, <2>6 DEF StepOf
  <1> QED
    BY <1>2, <1>3, <1>4, <1>5, <1>6, <1>7 DEF Next

LEMMA StepKeeps ==
  ASSUME IInv, [Next]_vars
  PROVE  IInv' /\ (StepOf \/ UNCHANGED vars)
  <1>1. CASE Next
    BY <1>1, CallsKeep
  <1>2. CASE UNCHANGED vars
    <2>1. Held' = Held
      BY <1>2 DEF vars, Held
    <2> QED
      BY <1>2, <2>1 DEF vars, IInv
  <1> QED
    BY <1>1, <1>2

LEMMA AlwaysWhole == Spec => []IInv
  BY InitHolds, StepKeeps, PTL DEF Spec

-----------------------------------------------------------------------------
(* The heap is sound.                                                      *)

\* The free blocks are those in the lists.
LEMMA FreeSet ==
  ASSUME NEW F, NEW K, Whole(heap, F, K, {})
  PROVE  Free = F
  <1>1. /\ IsHeap(heap) /\ Owned(heap, F, K, {}, LastOf(heap)) /\ Linked(heap, F)
    BY DEF Whole, Body, Core
  <1>2. \A m \in F : m \in Blocks /\ heap.blk[m].nextfree \in F \cup {NONE}
    BY <1>1 DEF Linked, InList, Blocks
  <1>3. F \subseteq Addr
    BY <1>1, <1>2 DEF IsHeap, Blocks
  <1>4. \A m \in F : heap.blk[m].nextfree # NULL
    BY <1>2, <1>3, Addresses DEF NULL, NONE
  <1>5. \A m \in Blocks \ F : heap.blk[m].nextfree = NULL
    BY <1>1 DEF Owned, Blocks
  <1> QED
    BY <1>2, <1>4, <1>5 DEF Free

LEMMA TypesOf ==
  ASSUME IInv
  PROVE  TypeOK /\ NeverFouled
  <1>1. PICK F : Whole(heap, F, Held \cup heap.leaked, {})
    BY DEF IInv
  <1>2. /\ IsHeap(heap) /\ Chained(heap) /\ Findable(heap) /\ heap.fouled = "no"
    BY <1>1 DEF Whole, Body, Core
  <1>3. ASSUME NEW a \in DOMAIN heap.blk
        PROVE  heap.blk[a] \in Header
    <2>1. heap.blk[a] \in Block
      BY <1>2 DEF IsHeap
    <2>2. /\ heap.blk[a].sz \in Nat /\ a \in Nat /\ a + heap.blk[a].sz <= heap.brk
          /\ heap.brk \in START..LIMIT /\ START \in Nat /\ LIMIT \in Nat
      BY <1>2, SizeIs, Constants DEF IsHeap
    <2>3. heap.blk[a].sz \in 0..LIMIT
      BY <2>2
    <2> QED
      BY <2>1, <2>3 DEF Header, Block, Link
  <1> QED
    BY <1>2, <1>3 DEF TypeOK, NeverFouled, IsHeap, Findable, Lists, IInv

LEMMA TilesOf ==
  ASSUME IInv
  PROVE  Tiled
  <1>1. PICK F : Whole(heap, F, Held \cup heap.leaked, {})
    BY DEF IInv
  <1> DEFINE L == LastOf(heap)
  <1>2. /\ IsHeap(heap) /\ Chained(heap) /\ Owned(heap, F, Held \cup heap.leaked, {}, L)
    BY <1>1 DEF Whole, Body, Core
  <1>3. ASSUME NEW m \in Blocks
        PROVE  LET up == heap.blk[m].next
                   dn == heap.blk[m].prev
               IN  /\ up # NULL => up = m + heap.blk[m].sz /\ up \in Blocks /\ heap.blk[up].prev = m
                   /\ dn # NULL => dn \in Blocks /\ heap.blk[dn].next = m
                   /\ m + heap.blk[m].sz <= heap.brk
                   /\ \A n \in Blocks : n > m => m + heap.blk[m].sz <= n
                   /\ heap.taken \cap m..(m + heap.blk[m].sz - 1) = {}
    <2>1. Placed(heap, m)
      BY <1>2 DEF Chained, Blocks
    <2>2. m \in Nat /\ heap.blk[m].sz \in Nat
      BY <1>2, SizeIs DEF Blocks
    <2>3. heap.taken \cap m..(m + heap.blk[m].sz - 1) = {}
      <3>1. \A t \in heap.taken : t \in Nat /\ (t < m \/ m + heap.blk[m].sz <= t)
        BY <1>2, <2>1, Addresses DEF Placed, IsHeap
      <3> QED
        BY <2>2, <3>1
    <2> QED
      BY <2>1, <2>3 DEF Placed, Blocks
  <1>4. heap.lastsbrk # NULL => heap.blk[heap.lastsbrk].next = NULL
    BY <1>2 DEF Owned, LastOf
  <1> QED
    BY <1>3, <1>4 DEF Tiled

LEMMA ListsOf ==
  ASSUME IInv
  PROVE  ListsSound /\ Coalesced
  <1>1. PICK F : Whole(heap, F, Held \cup heap.leaked, {})
    BY DEF IInv
  <1> DEFINE L == LastOf(heap)
  <1>2. /\ IsHeap(heap) /\ Linked(heap, F) /\ Merged(heap, F, L)
        /\ Owned(heap, F, Held \cup heap.leaked, {}, L)
    BY <1>1 DEF Whole, Body, Core
  <1>3. Free = F
    BY <1>1, FreeSet
  <1>4. F \subseteq Blocks /\ Blocks \subseteq Addr
    BY <1>2 DEF Linked, IsHeap, Blocks
  <1>5. ASSUME NEW b \in Lists
        PROVE  /\ ListOf(b) = {m \in Free : size2bucket(heap.blk[m].sz) = b}
               /\ heap.freehdrs[b] \in Blocks => heap.blk[heap.freehdrs[b]].prevfree = NONE
    <2>1. ListOf(b) = {m \in F : Bucket(heap, m) = b}
      BY <1>1, ListIs
    <2>2. NULL \notin Blocks
      BY <1>4, Addresses
    <2> QED
      BY <1>2, <1>3, <2>1, <2>2 DEF Linked, Bucket
  <1>6. \A m \in Free : heap.blk[m].nextfree # NONE =>
                          heap.blk[heap.blk[m].nextfree].prevfree = m
    BY <1>2, <1>3 DEF Linked, InList
  <1>7. heap.lastsbrk \notin Free
    <2>1. NULL \notin F
      BY <1>4, Addresses
    <2> QED
      BY <1>2, <1>3, <2>1 DEF Owned, LastOf
  <1>8. Coalesced
    BY <1>2, <1>3 DEF Coalesced, Merged, LastOf
  <1> QED
    BY <1>5, <1>6, <1>7, <1>8 DEF ListsSound, Lists

LEMMA BasesFound ==
  ASSUME IInv
  PROVE  AllFindable
  <1>1. Findable(heap)
    BY DEF IInv, Whole, Body
  <1>2. Bases = BasesOf(heap)
    BY DEF Bases, BasesOf, Blocks
  <1> QED
    BY <1>1, <1>2 DEF AllFindable, Findable

LEMMA NoneLost ==
  ASSUME IInv
  PROVE  NothingLeaked
  <1>1. PICK F : Whole(heap, F, Held \cup heap.leaked, {})
    BY DEF IInv
  <1>2. Owned(heap, F, Held \cup heap.leaked, {}, LastOf(heap))
    BY <1>1 DEF Whole, Body, Core
  <1>3. Free = F
    BY <1>1, FreeSet
  <1> QED
    BY <1>2, <1>3 DEF Owned, NothingLeaked, LastOf, Held, Blocks

LEMMA RequestsGranted ==
  ASSUME IInv
  PROVE  RequestsMet
  <1> DEFINE K == Held \cup heap.leaked
  <1>1. PICK F : Whole(heap, F, K, {})
    BY DEF IInv
  <1>2. ASSUME NEW p \in DOMAIN user
        PROVE  /\ MEMBLKp(p) \in Blocks
               /\ user[p] + DATAOFFSET <= heap.blk[MEMBLKp(p)].sz
               /\ p % ALIGN = 0
    <2>1. MEMBLKp(p) \in K
      BY DEF Held
    <2>2. MEMBLKp(p) \in DOMAIN heap.blk /\ PTR(MEMBLKp(p)) % ALIGN = 0
      <3>1. InHand(heap, F, K, MEMBLKp(p))
        BY <1>1, <2>1, TakenUp
      <3>2. PTR(MEMBLKp(p)) % ALIGN = 0
        BY <1>1, <2>1, GivenAligned
      <3> QED
        BY <3>1, <3>2 DEF InHand
    <2>3. PTR(MEMBLKp(p)) = p
      <3>1. p \in Addr
        BY DEF IInv
      <3> QED
        BY <3>1, Addresses, Constants DEF PTR, MEMBLKp
    <2> QED
      BY <2>2, <2>3 DEF IInv, Blocks
  <1>3. FitsRequest
    BY <1>2 DEF FitsRequest
  <1>4. ASSUME NEW a \in Alignments, NEW n \in Requests
        PROVE  LET m == nmemalign(heap, a, n).m IN m # NULL => PTR(m) % a = 0
    BY <1>1, MemalignSupplies
  <1>5. AlignedAsAsked
    BY <1>4 DEF AlignedAsAsked
  <1> QED
    BY <1>3, <1>5 DEF RequestsMet

\* In every state: the header fields hold addresses and sizes, none of the
\* allocator's checks has failed, the blocks tile the memory obtained, the lists hold
\* exactly the free blocks, those are merged, and the bases are recorded.
THEOREM HeapAlwaysSound == Spec => []HeapSound
  <1>1. IInv => HeapSound
    BY TypesOf, TilesOf, ListsOf, BasesFound DEF HeapSound
  <1> QED
    BY <1>1, AlwaysWhole, PTL

\* No block is ever lost but those memalign gives up.
THEOREM NothingEverLeaked == Spec => []NothingLeaked
  BY NoneLost, AlwaysWhole, PTL

\* Every block the program holds has the size and the alignment it asked for.
THEOREM RequestsAlwaysMet == Spec => []RequestsMet
  BY RequestsGranted, AlwaysWhole, PTL

-----------------------------------------------------------------------------
(* The allocator keeps the promise of module Heap.                         *)

Live == [p \in DOMAIN user |->
           [size |-> user[p], intact |-> heap.blk[MEMBLKp(p)].data = "user"]]

LEMMA HeldApart ==
  ASSUME NEW h, NEW F, NEW K, Whole(h, F, K, {}), NEW p \in Addr, NEW q \in Addr, p # q,
         MEMBLKp(p) \in K, MEMBLKp(q) \in K, NEW i \in Nat, NEW j \in Nat,
         i + DATAOFFSET <= h.blk[MEMBLKp(p)].sz, j + DATAOFFSET <= h.blk[MEMBLKp(q)].sz
  PROVE  Promise!Apart(p, i, q, j)
  <1> DEFINE x == MEMBLKp(p)
             y == MEMBLKp(q)
  <1>1. /\ IsHeap(h) /\ Chained(h) /\ x \in DOMAIN h.blk /\ y \in DOMAIN h.blk
    <2>1. InHand(h, F, K, x) /\ InHand(h, F, K, y)
      BY TakenUp
    <2> QED
      BY <2>1 DEF InHand
  <1>2. /\ x \in Nat /\ y \in Nat /\ h.blk[x].sz \in Nat /\ h.blk[y].sz \in Nat
    BY <1>1, SizeIs
  <1>3. x = p - DATAOFFSET /\ y = q - DATAOFFSET /\ p \in Nat /\ q \in Nat
    BY Addresses DEF MEMBLKp
  <1>4. y > x => x + h.blk[x].sz <= y
    BY <1>1 DEF Chained, Placed
  <1>5. x > y => y + h.blk[y].sz <= x
    BY <1>1 DEF Chained, Placed
  <1> HIDE DEF x, y
  <1>6. p + i <= q \/ q + j <= p
    BY <1>2, <1>3, <1>4, <1>5, Constants DEF x, y
  <1> QED
    BY <1>6 DEF Promise!Apart

LEMMA InitPromises == Init => Promise!Init
  <1>1. Init => Live = [p \in {} |-> {}]
    BY DEF Init, Live
  <1> QED
    BY <1>1 DEF Promise!Init, Live

\* What the program holds after a step, besides the block at p.
LEMMA RoomFor ==
  ASSUME IInv', NEW p \in DOMAIN user', NEW n \in Nat, user'[p] = n
  PROVE  /\ p \in Addr /\ p % ALIGN = 0
         /\ \A q \in DOMAIN user' \ {p} : Promise!Apart(p, n, q, user'[q])
  <1> DEFINE K == Held' \cup heap'.leaked
  <1>1. PICK F : Whole(heap', F, K, {})
    BY DEF IInv
  <1>2. /\ DOMAIN user' \subseteq Addr
        /\ \A q \in DOMAIN user' : /\ user'[q] \in Nat /\ MEMBLKp(q) \in K
                                   /\ user'[q] + DATAOFFSET <= heap'.blk[MEMBLKp(q)].sz
    BY DEF IInv, Held
  <1> HIDE DEF K
  <1>3. ASSUME NEW q \in DOMAIN user' \ {p}
        PROVE  Promise!Apart(p, n, q, user'[q])
    BY <1>1, <1>2, HeldApart
  <1>4. p % ALIGN = 0
    <2>1. PTR(MEMBLKp(p)) % ALIGN = 0
      BY <1>1, <1>2, GivenAligned
    <2>2. PTR(MEMBLKp(p)) = p
      BY <1>2, Addresses, Constants DEF PTR, MEMBLKp
    <2> QED
      BY <2>1, <2>2
  <1> QED
    BY <1>2, <1>3, <1>4

LEMMA SamePromises ==
  ASSUME SameHeld
  PROVE  Live' = Live
  BY DEF SameHeld, Live

LEMMA MorePromises ==
  ASSUME IInv, IInv', NEW m \in Nat, NEW n \in Asked, n \in Nat, MoreHeld(m, n)
  PROVE  Promise!Next
  <1> DEFINE p == PTR(m)
             b == [size |-> n, intact |-> TRUE]
  <1>1. /\ p \in Addr /\ p \notin DOMAIN user /\ MEMBLKp(p) = m
        /\ DOMAIN user' = DOMAIN user \cup {p} /\ user'[p] = n
        /\ \A q \in DOMAIN user : user'[q] = user[q] /\ q # p
        /\ heap'.blk[m].data = "user"
        /\ \A q \in DOMAIN user : heap'.blk[MEMBLKp(q)].data = heap.blk[MEMBLKp(q)].data
    BY PointerIs DEF MoreHeld, Hold
  <1> HIDE DEF p
  <1>2. p % ALIGN = 0 /\ \A q \in DOMAIN user : Promise!Apart(p, n, q, user[q])
    <2>1. p \in DOMAIN user' /\ \A q \in DOMAIN user : q \in DOMAIN user' \ {p}
      BY <1>1
    <2>2. /\ p % ALIGN = 0
          /\ \A q \in DOMAIN user' \ {p} : Promise!Apart(p, n, q, user'[q])
      BY <1>1, <2>1, RoomFor
    <2> QED
      BY <1>1, <2>1, <2>2
  <1>3. /\ DOMAIN Live = DOMAIN user /\ DOMAIN Live' = DOMAIN user'
        /\ \A q \in DOMAIN user : Live[q].size = user[q]
        /\ Live'[p] = b
    BY <1>1 DEF Live
  <1>4. ASSUME NEW q \in DOMAIN user
        PROVE  Live'[q] = Live[q]
    BY <1>1 DEF Live
  <1>5. Live' = [q \in DOMAIN Live \cup {p} |-> IF q = p THEN b ELSE Live[q]]
    <2>1. Live' = [q \in DOMAIN user' |-> Live'[q]]
      BY DEF Live
    <2> QED
      BY <1>1, <1>3, <1>4, <2>1
  <1>6. \A q \in DOMAIN Live : Promise!Apart(p, n, q, Live[q].size)
    BY <1>2, <1>3
  <1>7. p \in DOMAIN Live' /\ Live'[p].size = n
    BY <1>1, <1>3
  <1>8. Promise!Malloc(p, Live'[p].size)
    <2> DEFINE k == Live'[p].size
    <2>1. k = n
      BY <1>7
    <2> HIDE DEF k
    <2>2. p \in {a \in Addr : a % ALIGN = 0} /\ k \in Asked
      BY <1>1, <1>2, <2>1
    <2>3. Promise!Available(p, k, {})
      BY <1>6, <2>1 DEF Promise!Available, Live
    <2>4. Live' = Promise!Put(Live, p, [size |-> k, intact |-> TRUE])
      BY <1>5, <2>1 DEF Promise!Put
    <2>5. Promise!Malloc(p, k)
      BY <2>2, <2>3, <2>4 DEF Promise!Malloc, Asked, Live
    <2> QED
      BY <2>5 DEF k
  <1> QED
    BY <1>7, <1>8 DEF Promise!Next, Live

LEMMA LessPromises ==
  ASSUME NEW p \in DOMAIN user, LessHeld(p)
  PROVE  Promise!Next
  <1>1. Live' = [q \in DOMAIN Live \ {p} |-> Live[q]]
    BY DEF LessHeld, Live
  <1>2. Promise!Free(p) /\ p \in DOMAIN Live
    BY <1>1 DEF Promise!Free, Promise!Drop, Live
  <1> QED
    BY <1>2 DEF Promise!Next, Live

LEMMA MovedPromises ==
  ASSUME IInv, IInv', NEW p \in DOMAIN user, NEW m \in Nat, NEW n \in Asked, n \in Nat,
         MovedHeld(p, m, n)
  PROVE  Promise!Next
  <1> DEFINE q == PTR(m)
             D == DOMAIN user \ {p}
             b == [size |-> n, intact |-> Live[p].intact]
  <1>1. /\ q \in Addr /\ q \notin D /\ MEMBLKp(q) = m
        /\ DOMAIN user' = D \cup {q} /\ user'[q] = n
        /\ \A x \in D : user'[x] = user[x] /\ x # q
        /\ heap'.blk[m].data = heap.blk[MEMBLKp(p)].data
        /\ \A x \in D : heap'.blk[MEMBLKp(x)].data = heap.blk[MEMBLKp(x)].data
    BY PointerIs DEF MovedHeld
  <1> HIDE DEF q
  <1>2. q % ALIGN = 0 /\ \A x \in D : Promise!Apart(q, n, x, user[x])
    <2>1. q \in DOMAIN user' /\ \A x \in D : x \in DOMAIN user' \ {q}
      BY <1>1
    <2>2. /\ q % ALIGN = 0
          /\ \A x \in DOMAIN user' \ {q} : Promise!Apart(q, n, x, user'[x])
      BY <1>1, <2>1, RoomFor
    <2> QED
      BY <1>1, <2>1, <2>2
  <1>3. /\ DOMAIN Live = DOMAIN user /\ DOMAIN Live' = DOMAIN user'
        /\ \A x \in DOMAIN user : Live[x].size = user[x]
        /\ Live'[q] = b
    BY <1>1 DEF Live
  <1>4. ASSUME NEW x \in D
        PROVE  Live'[x] = Live[x]
    BY <1>1 DEF Live
  <1>5. Live' = [x \in D \cup {q} |-> IF x = q THEN b ELSE Live[x]]
    <2>1. Live' = [x \in DOMAIN user' |-> Live'[x]]
      BY DEF Live
    <2> QED
      BY <1>1, <1>3, <1>4, <2>1
  <1>6. \A x \in D : Promise!Apart(q, n, x, Live[x].size)
    BY <1>2, <1>3
  <1>7. Promise!Drop(p) = [x \in D |-> Live[x]]
    BY <1>3 DEF Promise!Drop, Live
  <1>8. Live' = Promise!Put(Promise!Drop(p), q, b)
    <2>1. DOMAIN [x \in D |-> Live[x]] = D
      OBVIOUS
    <2>2. Promise!Put(Promise!Drop(p), q, b)
            = [x \in D \cup {q} |-> IF x = q THEN b ELSE [y \in D |-> Live[y]][x]]
      BY <1>7, <2>1 DEF Promise!Put
    <2> QED
      BY <1>5, <2>2
  <1>9. p \in DOMAIN Live /\ q \in DOMAIN Live' /\ Live'[q].size = n
    BY <1>1, <1>3
  <1>10. Promise!Realloc(p, q, Live'[q].size)
    <2> DEFINE k == Live'[q].size
    <2>1. k = n
      BY <1>9
    <2> HIDE DEF k
    <2>2. q \in {a \in Addr : a % ALIGN = 0} /\ k \in Asked
      BY <1>1, <1>2, <2>1
    <2>3. Promise!Available(q, k, {p})
      BY <1>3, <1>6, <2>1 DEF Promise!Available, Live
    <2>4. Live' = Promise!Put(Promise!Drop(p), q, [size |-> k, intact |-> Live[p].intact])
      BY <1>8, <2>1
    <2>5. Promise!Realloc(p, q, k)
      BY <2>2, <2>3, <2>4 DEF Promise!Realloc, Asked, Live
    <2> QED
      BY <2>5 DEF k
  <1> QED
    BY <1>9, <1>10 DEF Promise!Next, Live

LEMMA StepPromises ==
  ASSUME IInv, IInv', StepOf \/ UNCHANGED vars
  PROVE  Promise!Next \/ Live' = Live
  <1>1. \A n \in Asked : n \in Nat
    <2>1. \A c \in Counts, n \in Requests : c * n \in Nat
      BY NMallocAssumption
    <2> QED
      BY <2>1, NMallocAssumption DEF Asked
  <1>2. CASE SameHeld
    BY <1>2, SamePromises
  <1>3. CASE \E n \in Asked, m \in Nat : MoreHeld(m, n)
    BY <1>1, <1>3, MorePromises
  <1>4. CASE \E p \in DOMAIN user : LessHeld(p)
    BY <1>4, LessPromises
  <1>5. CASE \E p \in DOMAIN user, n \in Asked, m \in Nat : MovedHeld(p, m, n)
    BY <1>1, <1>5, MovedPromises
  <1>6. CASE UNCHANGED vars
    BY <1>6 DEF vars, Live
  <1> QED
    BY <1>2, <1>3, <1>4, <1>5, <1>6 DEF StepOf

\* To the program this allocator is the heap of module Heap: what it is given is
\* aligned, as large as asked and apart from all it holds, and realloc keeps what
\* was stored.
THEOREM ImplementsHeap == Spec => KeepsPromise
  <1>1. IInv /\ [Next]_vars => [Promise!Next]_(Live)
    BY StepKeeps, StepPromises
  <1>2. Init => Promise!Init
    BY InitPromises
  <1> QED
    BY <1>1, <1>2, AlwaysWhole, PTL DEF Spec, KeepsPromise, Promise!Spec, Live
=============================================================================
