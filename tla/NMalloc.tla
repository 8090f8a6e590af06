------------------------------- MODULE NMalloc -------------------------------
(***************************************************************************)
(* The allocator of ansi/stdlib/nmalloc.c, compiled as the library does    *)
(* (NDEBUG, SAVEMEMORY).  It is "NOT thread and interrupt safe", so every  *)
(* call is one step.  A helper of the code takes a heap and returns the    *)
(* heap it leaves.                                                         *)
(*                                                                         *)
(* Sizes are machine words of WORD values.  prevfree shares its place with *)
(* the first bytes of the data: it is NULL here while a block is not free, *)
(* and a write to it makes the data junk.  A write to it outside its block *)
(* reaches memory that is not the allocator's, and ends the behaviour.      *)
(***************************************************************************)
EXTENDS Integers, Sequences, FiniteSets

CONSTANTS
  ALIGN, DATAOFFSET, MINSBRK, MAXSBRKS,
  WORD,       \* 2^32 in the code
  MAXREQUEST, \* INT_MAX - 65536
  NFLISTS,    \* bits of a word
  START,      \* first address sbrk returns
  LIMIT,      \* bound: sbrk fails beyond this address
  Requests,   \* bound: sizes the program asks for
  Counts,     \* bound: first arguments of calloc
  Alignments, \* bound: arguments of memalign
  Foreign,    \* bound: sizes of sbrk calls made by others
  MaxLive     \* bound: blocks the program holds

\* The powers of two up to the word size.
Pow2[n \in 0..32] == IF n = 0 THEN 1 ELSE 2 * Pow2[n - 1]

\* sbrk never reaches half of the address space: no block outgrows the last bucket.
ASSUME NMallocAssumption ==
  /\ {ALIGN, DATAOFFSET, MINSBRK, MAXSBRKS, WORD, MAXREQUEST, NFLISTS, START, LIMIT,
      MaxLive} \subseteq Nat
  /\ \E k \in 2..16 : ALIGN = Pow2[k]
  /\ DATAOFFSET > 0 /\ DATAOFFSET % ALIGN = 0
  /\ MINSBRK >= ALIGN + DATAOFFSET /\ MAXSBRKS >= 1
  /\ NFLISTS \in 1..32 /\ WORD = Pow2[NFLISTS]
  /\ MAXREQUEST < WORD \div 2 /\ LIMIT < WORD \div 2
  /\ 1 < START /\ START <= LIMIT
  /\ Requests \subseteq Nat /\ Counts \subseteq Nat
  /\ Alignments \subseteq Nat /\ Foreign \subseteq Nat

MINSAVE == ALIGN + DATAOFFSET
FIELD == 4           \* size of the prevfree field
NULL == 0
NONE == 1            \* &freehdrs[1]
NoAddr == {NULL, NONE}

VARIABLES
  heap,  \* the allocator's memory, see HeapType
  user   \* history: the blocks the program holds, and the sizes it asked for

vars == <<heap, user>>

Addr == START..LIMIT
Header == [prev : Addr \cup NoAddr, next : Addr \cup NoAddr, sz : 0..LIMIT,
           nextfree : Addr \cup NoAddr, prevfree : Addr \cup NoAddr,
           data : {"user", "junk"}]

TypeOK ==
  /\ DOMAIN heap.blk \subseteq Addr /\ \A a \in DOMAIN heap.blk : heap.blk[a] \in Header
  /\ heap.freehdrs \in [2..(NFLISTS - 1) -> Addr \cup {NULL}]
  /\ heap.lastsbrk \in Addr \cup {NULL}
  /\ heap.sbrkbgn \in Seq(Addr) /\ Len(heap.sbrkbgn) < MAXSBRKS
  /\ heap.brk \in START..LIMIT
  /\ heap.taken \subseteq Addr /\ heap.leaked \subseteq Addr
  /\ DOMAIN user \subseteq Addr

\* taken: addresses that sbrk gave to others; leaked: blocks memalign gave up;
\* fouled: the check that failed; outside: a field was written outside its block.
Init ==
  /\ heap = [blk |-> [a \in {} |-> 0], freehdrs |-> [b \in 2..(NFLISTS - 1) |-> NULL],
             lastsbrk |-> NULL, sbrkbgn |-> << >>, brk |-> START, taken |-> {},
             leaked |-> {}, fouled |-> "no", outside |-> FALSE]
  /\ user = [p \in {} |-> 0]

PTR(m) == m + DATAOFFSET
MEMBLKp(p) == p - DATAOFFSET

-----------------------------------------------------------------------------
(* Sizes.                                                                  *)

Word(n) == n % WORD

roundup(sz) == Word((Word(sz + ALIGN - 1) \div ALIGN) * ALIGN + DATAOFFSET)

\* The number of bits of sz.
size2bucket(sz) ==
  CHOOSE b \in 0..NFLISTS : sz < Pow2[b] /\ (b = 0 \/ Pow2[b - 1] <= sz)

AtLeastOne(size) == IF size = 0 THEN 1 ELSE size

-----------------------------------------------------------------------------
(* Headers.                                                                *)

Foul(h, where) == [h EXCEPT !.fouled = where]
Nextfree(h, m, v) == [h EXCEPT !.blk[m].nextfree = v]
Prevfree(h, m, v) == [h EXCEPT !.blk[m].prevfree = v, !.blk[m].data = "junk",
                               !.outside = @ \/ h.blk[m].sz < DATAOFFSET + FIELD]
Remove(h, m) == [h EXCEPT !.blk = [a \in DOMAIN h.blk \ {m} |-> h.blk[a]]]
Add(h, m, header) == [h EXCEPT !.blk = [a \in DOMAIN h.blk \cup {m} |->
                                          IF a = m THEN header ELSE h.blk[a]]]

ISFREE(h, m) == m \notin NoAddr /\ h.blk[m].nextfree # NULL /\ h.blk[m].prevfree # NULL
FOULED(h, m) == h.lastsbrk = NULL \/ h.blk[m].nextfree # NULL

Mark(h, m, v) == Prevfree(Nextfree(h, m, v), m, v)

\* The neighbours nx and pv in list b are linked to each other.
LinkNext(h, nx, pv) == IF nx # NONE THEN Prevfree(h, nx, pv) ELSE h
LinkPrev(h, nx, pv, b) ==
  IF pv # NONE THEN Nextfree(h, pv, nx)
  ELSE [h EXCEPT !.freehdrs[b] = IF nx # NONE THEN nx ELSE NULL]

\* Faulty variant: the header of the list is left alone.
extractfree_keeps_header(h, m) ==
  LET nx == h.blk[m].nextfree
      pv == h.blk[m].prevfree
      h1 == LinkNext(h, nx, pv)
  IN  Mark(IF pv # NONE THEN Nextfree(h1, pv, nx) ELSE h1, m, NULL)

extractfree(h, m) ==
  LET nx == h.blk[m].nextfree
      pv == h.blk[m].prevfree
  IN  Mark(LinkPrev(LinkNext(h, nx, pv), nx, pv, size2bucket(h.blk[m].sz)), m, NULL)

\* Faulty variant: the block above keeps its prev field.
Absorb_one_way(h, m, n) ==
  Remove([h EXCEPT !.blk[m].next = h.blk[n].next, !.blk[m].sz = @ + h.blk[n].sz], n)

\* Block m takes over its upper neighbour n.
Absorb(h, m, n) ==
  LET up == h.blk[n].next
      h1 == [h EXCEPT !.blk[m].next = up, !.blk[m].sz = @ + h.blk[n].sz]
      h2 == IF up # NULL THEN [h1 EXCEPT !.blk[up].prev = m] ELSE h1
  IN  Remove(h2, n)

combinelo(h, m) ==
  LET m1 == h.blk[m].prev
  IN  IF h.blk[m1].next # m THEN Foul(h, "combinelo") ELSE Absorb(extractfree(h, m1), m1, m)

combinehi(h, m) ==
  LET m1 == h.blk[m].next
  IN  IF m1 = NULL THEN h
      ELSE IF h.blk[m1].prev # m THEN Foul(h, "combinehi")
      ELSE Absorb(IF m1 # h.lastsbrk THEN extractfree(h, m1) ELSE h, m, m1)

\* m takes over its upper neighbour if that is free.
TakeUpper(h, m) == IF ISFREE(h, h.blk[m].next) THEN combinehi(h, m) ELSE h

\* m becomes the first of list b.
Push(h, m, b) ==
  LET first == h.freehdrs[b]
      h1 == Nextfree(h, m, IF first = NULL THEN NONE ELSE first)
  IN  [Prevfree(IF first = NULL THEN h1 ELSE Prevfree(h1, first, m), m, NONE)
         EXCEPT !.freehdrs[b] = m]

\* m joins lastsbrk if it is adjacent, else the list of its size.
Enlist(h, m) ==
  IF h.lastsbrk # NULL /\ h.blk[m].next = h.lastsbrk
    THEN Mark([combinehi(h, m) EXCEPT !.lastsbrk = m], m, NULL)
    ELSE Push(h, m, size2bucket(h.blk[m].sz))

\* Faulty variant: a free upper neighbour and lastsbrk are not combined with m.
mv2freelist_alone(h, m) ==
  IF m = NULL THEN h ELSE Push(h, m, size2bucket(h.blk[m].sz))

mv2freelist(h, m) == IF m = NULL THEN h ELSE Enlist(TakeUpper(h, m), m)

rmvfromfree(h, m) ==
  LET b == size2bucket(h.blk[m].sz)
      nx == h.blk[m].nextfree
      h1 == IF nx = NONE THEN [h EXCEPT !.freehdrs[b] = NULL]
            ELSE Prevfree([h EXCEPT !.freehdrs[b] = nx], nx, NONE)
  IN  IF h.freehdrs[b] # m THEN Foul(h, "rmvfromfree") ELSE Nextfree(h1, m, NULL)

\* The bucket to allocate from, zero if there is none.
searchfree(h, szneed) ==
  LET b == size2bucket(szneed)
      above == {c \in (b + 1)..(NFLISTS - 1) : h.freehdrs[c] # NULL}
  IN  IF h.freehdrs[b] # NULL /\ h.blk[h.freehdrs[b]].sz >= szneed THEN b
      ELSE IF above = {} THEN 0
      ELSE CHOOSE c \in above : \A d \in above : c <= d

\* m keeps the lower sz bytes; the higher portion is the block at m + sz.
split(h, m, sz) ==
  LET m1 == m + sz
      up == h.blk[m].next
      hi == [h.blk[m] EXCEPT !.prev = m, !.sz = @ - sz, !.prevfree = NULL, !.data = "junk"]
      lo == [h EXCEPT !.blk[m].next = m1, !.blk[m].sz = sz, !.blk[m].nextfree = NULL]
      h1 == Add(lo, m1, hi)
  IN  IF h.blk[m].sz < sz + DATAOFFSET THEN Foul(h, "memblockpsz")
      ELSE IF up = NULL THEN h1
      ELSE IF h.blk[up].prev # m THEN Foul(h, "memblockpnxt")
      ELSE [h1 EXCEPT !.blk[up].prev = m1]

splitlast(h, sz) == [split(h, h.lastsbrk, sz) EXCEPT !.lastsbrk = h.lastsbrk + sz]

\* Cut a block that is large enough down to szneed.
Trim(h, m, szneed) ==
  IF h.blk[m].sz - szneed >= MINSAVE THEN mv2freelist(split(h, m, szneed), m + szneed) ELSE h

-----------------------------------------------------------------------------
(* sbrk.                                                                   *)

\* Faulty variant: the base of the new chain is not recorded.
recordnewsbrk_forgets(h, m) == h

recordnewsbrk(h, m) ==
  IF /\ Len(h.sbrkbgn) < MAXSBRKS - 1
     /\ \A i \in DOMAIN h.sbrkbgn : h.sbrkbgn[i] # m
    THEN [h EXCEPT !.sbrkbgn = Append(@, m)] ELSE h

sbrk_fails(h, n) == h.brk + n > LIMIT

\* Faulty variant: room to leave a header, but not to realign.
Extra_no_room(szneed) ==
  IF szneed + ALIGN + DATAOFFSET < MINSBRK THEN MINSBRK ELSE szneed + ALIGN + DATAOFFSET

\* Room "to both realign and to leave a header when split".
Extra(szneed) ==
  IF szneed + 2 * ALIGN + DATAOFFSET < MINSBRK THEN MINSBRK
                                               ELSE szneed + 2 * ALIGN + DATAOFFSET

ToAlign(a) == (ALIGN - (a % ALIGN)) % ALIGN

\* What to ask sbrk for, and the heap when it succeeds.
sbrk_size(h, szneed) ==
  Extra(szneed) + IF h.lastsbrk = NULL THEN 0
                  ELSE ToAlign(h.lastsbrk + h.blk[h.lastsbrk].sz)

extendsbrk(h, szneed) ==
  LET n == sbrk_size(h, szneed)
      got == h.brk
      h1 == [h EXCEPT !.brk = got + n]
      m == got + ToAlign(got)
      new == [prev |-> NULL, next |-> NULL, sz |-> n - ToAlign(got), nextfree |-> NULL,
              prevfree |-> NULL, data |-> "junk"]
  IN  IF h.lastsbrk # NULL /\ got = h.lastsbrk + h.blk[h.lastsbrk].sz
        THEN [h1 EXCEPT !.blk[h.lastsbrk].sz = @ + n]
        ELSE recordnewsbrk([mv2freelist(Add(h1, m, new), h.lastsbrk)
                              EXCEPT !.lastsbrk = m], m)

-----------------------------------------------------------------------------
(* malloc, free and realloc.  The result is a heap and a block, NULL if    *)
(* there is none.                                                          *)

Result(h, m) == [h |-> h, m |-> m]

\* Faulty variant: the excess is split off, but not put on a free list.
TakeFree_drops_rest(h, b, szneed) ==
  LET m == h.freehdrs[b]
      h1 == rmvfromfree(h, m)
  IN  Result(IF h.blk[m].sz < szneed + MINSAVE THEN h1 ELSE split(h1, m, szneed), m)

\* The block at the head of list b, cut to size.
TakeFree(h, b, szneed) ==
  LET m == h.freehdrs[b]
      h1 == rmvfromfree(h, m)
  IN  Result(IF h.blk[m].sz < szneed + MINSAVE THEN h1
             ELSE mv2freelist(split(h1, m, szneed), m + szneed), m)

\* What extendsbrk left supplies the memory.
FromLast(h, szneed) ==
  IF h.blk[h.lastsbrk].sz < szneed + MINSAVE THEN Result(Foul(h, "lastsbrk"), h.lastsbrk)
  ELSE Result(splitlast(h, szneed), h.lastsbrk)

nmalloc(h, size) ==
  LET szneed == roundup(AtLeastOne(size))
      b == searchfree(h, szneed)
  IN  IF szneed >= MAXREQUEST THEN Result(h, NULL)
      ELSE IF b # 0 THEN TakeFree(h, b, szneed)
      ELSE IF h.lastsbrk # NULL /\ h.blk[h.lastsbrk].sz >= szneed + DATAOFFSET
        THEN Result(splitlast(h, szneed), h.lastsbrk)
      ELSE IF sbrk_fails(h, sbrk_size(h, szneed)) THEN Result(h, NULL)
      ELSE FromLast(extendsbrk(h, szneed), szneed)

\* The last step of dofree: m was combined with its neighbours.
KeepFree(h, m) ==
  IF h.lastsbrk # NULL /\ h.lastsbrk = h.blk[m].prev THEN h ELSE mv2freelist(h, m)
TakeLower(h, m) ==
  LET lo == ISFREE(h, h.blk[m].prev)
  IN  KeepFree(IF lo THEN combinelo(h, m) ELSE h, IF lo THEN h.blk[m].prev ELSE m)

dofree(h, m) == TakeLower(TakeUpper(Mark(h, m, NONE), m), m)

nfree(h, m) == IF ISFREE(h, m) \/ FOULED(h, m) THEN Foul(h, "free") ELSE dofree(h, m)

\* memcpy to block t of the contents that block m had in heap h.
Copy(h, m, r, t) == [r EXCEPT !.blk[t].data = h.blk[m].data, !.blk[t].prevfree = NULL]

\* Faulty variant: the old block is freed before its contents are copied.
MoveTo_free_first(h, m, t) == LET f == dofree(h, m) IN Result(Copy(f, m, f, t), t)

\* Contents of m to t, then m is freed.
MoveTo(h, m, t) == Result(dofree(Copy(h, m, h, t), m), t)

\* Use the adjacent lastsbrk: it is taken over and split off again.
UseLast(h, m, szneed) ==
  Result([split(combinehi(h, m), m, szneed) EXCEPT !.lastsbrk = m + szneed], m)

mv2lastsbrk(h, m, szneed) == MoveTo(splitlast(h, szneed), m, h.lastsbrk)

\* The data of m to its free lower neighbour, which takes m over.
MoveDown(h, m, prev) == Copy(h, m, Absorb(extractfree(h, prev), prev, m), prev)

\* After extendsbrk: stay in place if lastsbrk is adjacent.
IntoExtended(h, m, szneed) ==
  IF h.lastsbrk = h.blk[m].next THEN UseLast(h, m, szneed) ELSE mv2lastsbrk(h, m, szneed)

nrealloc(h, m, size) ==
  LET szneed == roundup(AtLeastOne(size))
      next == h.blk[m].next
      prev == h.blk[m].prev
      last == h.lastsbrk
      b == searchfree(h, szneed)
  IN  IF ISFREE(h, m) \/ FOULED(h, m) THEN Result(Foul(h, "realloc"), NULL)
      ELSE IF szneed <= h.blk[m].sz THEN Result(Trim(h, m, szneed), m)
      ELSE IF szneed > MAXREQUEST THEN Result(h, NULL)
      ELSE IF ISFREE(h, next) /\ szneed <= h.blk[m].sz + h.blk[next].sz
        THEN Result(Trim(combinehi(h, m), m, szneed), m)
      ELSE IF last = next /\ szneed + MINSAVE <= h.blk[m].sz + h.blk[last].sz
        THEN UseLast(h, m, szneed)
      ELSE IF ISFREE(h, prev) /\ szneed <= h.blk[m].sz + h.blk[prev].sz
        THEN Result(Trim(MoveDown(h, m, prev), prev, szneed), prev)
      ELSE IF b # 0 THEN MoveTo(TakeFree(h, b, szneed).h, m, h.freehdrs[b])
      ELSE IF last # NULL /\ szneed + MINSAVE <= h.blk[last].sz
        THEN mv2lastsbrk(h, m, szneed)
      ELSE IF sbrk_fails(h, sbrk_size(h, szneed)) THEN Result(h, NULL)
      ELSE IntoExtended(extendsbrk(h, szneed), m, szneed)

invalid(alignment) == alignment \notin {Pow2[k] : k \in 0..16}

\* The block nmalloc returned is cut to size, or given up when it is not aligned.
CutAligned(r, alignment, size) ==
  IF r.m = NULL THEN r
  ELSE IF PTR(r.m) % alignment = 0 THEN nrealloc(r.h, r.m, size)
  ELSE Result([r.h EXCEPT !.leaked = @ \cup {r.m}], NULL)

\* Faulty variant: every alignment is left to nmalloc.
nmemalign_ignores(h, alignment, size) == nmalloc(h, size)

nmemalign(h, alignment, size) ==
  LET szneed == roundup(AtLeastOne(size))
  IN  IF size >= MAXREQUEST \/ invalid(alignment) THEN Result(h, NULL)
      ELSE IF alignment <= ALIGN THEN nmalloc(h, szneed)
      ELSE CutAligned(nmalloc(h, Word(szneed + alignment + 3 * ALIGN)), alignment, size)

\* calloc refuses products that wrap.
ncalloc(h, n, s) ==
  IF n = 0 \/ (WORD - 1) \div n > s THEN nmalloc(h, Word(n * s)) ELSE Result(h, NULL)

\* What the program may ask for.  A size within MINSAVE of a whole word would wrap
\* when it is rounded up, which the code does not check; a product that calloc
\* refuses may be of any size.  The size that memalign asks for never wraps.
ASSUME RequestsAssumption ==
  /\ MINSAVE < WORD
  /\ \A n \in Requests : n + MINSAVE <= WORD
  /\ \A c \in Counts, n \in Requests :
       c = 0 \/ (WORD - 1) \div c > n => c * n + MINSAVE <= WORD
  /\ \A a \in Alignments :
       ~invalid(a) => MAXREQUEST + a + 3 * ALIGN + 2 * MINSAVE <= WORD

-----------------------------------------------------------------------------
(* The calls of a program.  It fills a block it is given.                  *)

Works == heap.fouled = "no" /\ ~heap.outside
Hold(p, n) == [q \in DOMAIN user \cup {p} |-> IF q = p THEN n ELSE user[q]]
Filled(h, m) == [h EXCEPT !.blk[m].data = "user", !.blk[m].prevfree = NULL]

Given(r, n) ==
  /\ heap' = IF r.m = NULL THEN r.h ELSE Filled(r.h, r.m)
  /\ user' = IF r.m = NULL THEN user ELSE Hold(PTR(r.m), n)

malloc == \E n \in Requests : Given(nmalloc(heap, n), n)
calloc == \E c \in Counts, n \in Requests : Given(ncalloc(heap, c, n), c * n)
memalign == \E a \in Alignments, n \in Requests : Given(nmemalign(heap, a, n), n)

free ==
  \E p \in DOMAIN user :
    /\ heap' = nfree(heap, MEMBLKp(p))
    /\ user' = [q \in DOMAIN user \ {p} |-> user[q]]

Moved(r, p, n) ==
  /\ heap' = r.h
  /\ user' = IF r.m = NULL THEN user
             ELSE [q \in (DOMAIN user \ {p}) \cup {PTR(r.m)} |->
                     IF q = PTR(r.m) THEN n ELSE user[q]]

realloc ==
  \E p \in DOMAIN user, n \in Requests : Moved(nrealloc(heap, MEMBLKp(p), n), p, n)

foreign_sbrk ==
  \E n \in Foreign :
    /\ ~sbrk_fails(heap, n)
    /\ heap' = [heap EXCEPT !.brk = @ + n, !.taken = @ \cup heap.brk..(heap.brk + n - 1)]
    /\ UNCHANGED user

Next ==
  /\ Works
  /\ \/ Cardinality(DOMAIN user) < MaxLive /\ (malloc \/ calloc \/ memalign)
     \/ free \/ realloc \/ foreign_sbrk

Spec == Init /\ [][Next]_vars

-----------------------------------------------------------------------------
(* Properties.                                                             *)

Blocks == DOMAIN heap.blk
Free == {m \in Blocks : heap.blk[m].nextfree # NULL}

\* None of the allocator's own checks ever fails, and extendsbrk always leaves
\* a lastsbrk that "can supply the memory".
NeverFouled == heap.fouled = "no"

\* "All adjacent blocks, assigned or free, are linked by next/prev fields in
\* order of address", without gap or overlap, and hold none of the memory that
\* sbrk gave to others.
Tiled ==
  Works =>
    /\ \A m \in Blocks :
         LET up == heap.blk[m].next
             dn == heap.blk[m].prev
         IN  /\ up # NULL => up = m + heap.blk[m].sz /\ up \in Blocks /\ heap.blk[up].prev = m
             /\ dn # NULL => dn \in Blocks /\ heap.blk[dn].next = m
             /\ m + heap.blk[m].sz <= heap.brk
             /\ \A n \in Blocks : n > m => m + heap.blk[m].sz <= n
             /\ heap.taken \cap m..(m + heap.blk[m].sz - 1) = {}
    /\ heap.lastsbrk # NULL => heap.blk[heap.lastsbrk].next = NULL

\* The blocks met when the links of bucket b are followed.
ListOf(b) ==
  LET at[n \in 0..Cardinality(Blocks)] ==
        IF n = 0 THEN heap.freehdrs[b]
        ELSE IF at[n - 1] \in Blocks THEN heap.blk[at[n - 1]].nextfree ELSE NONE
  IN  {at[n] : n \in DOMAIN at} \ NoAddr

\* The free lists hold exactly the free blocks, each in the bucket of its size,
\* doubly linked; lastsbrk and the program's blocks are in none.
ListsSound ==
  Works =>
    /\ \A b \in 2..(NFLISTS - 1) :
         /\ ListOf(b) = {m \in Free : size2bucket(heap.blk[m].sz) = b}
         /\ heap.freehdrs[b] \in Blocks => heap.blk[heap.freehdrs[b]].prevfree = NONE
    /\ \A m \in Free : heap.blk[m].nextfree # NONE =>
                         heap.blk[heap.blk[m].nextfree].prevfree = m
    /\ heap.lastsbrk \notin Free

\* Free blocks are merged with their free neighbours and with lastsbrk.
Coalesced ==
  Works => \A m \in Free : heap.blk[m].next \notin Free \cup ({heap.lastsbrk} \ {NULL})

\* Every block is free, lastsbrk, or in the program's hands, but for those that
\* memalign gives up ("just return NULL and have a leak").
NothingLeaked ==
  Works => Blocks = Free \cup ({heap.lastsbrk} \ {NULL}) \cup heap.leaked
                      \cup {MEMBLKp(p) : p \in DOMAIN user}

Bases == {m \in Blocks : heap.blk[m].prev = NULL}

\* The bases of the first MAXSBRKS - 1 chains stay recorded: "This ensures we
\* can find all controlled memory".  No base is lost when blocks are combined.
AllFindable ==
  Works =>
    /\ \A i \in DOMAIN heap.sbrkbgn :
         heap.sbrkbgn[i] \in Bases /\ \A j \in 1..(i - 1) : heap.sbrkbgn[j] # heap.sbrkbgn[i]
    /\ \/ Len(heap.sbrkbgn) = Cardinality(Bases)
       \/ Len(heap.sbrkbgn) = MAXSBRKS - 1 /\ Cardinality(Bases) >= MAXSBRKS

\* What keeps the heap usable over any sequence of calls: the header fields hold
\* addresses and sizes (TypeOK), no check of the allocator fails, the blocks tile
\* the memory obtained, the free lists hold the free blocks, those are merged, and
\* the bases of the chains are recorded.
HeapSound ==
  TypeOK /\ NeverFouled /\ Tiled /\ ListsSound /\ Coalesced /\ AllFindable

\* A block given to the program has room for what was asked, and is aligned.
FitsRequest ==
  \A p \in DOMAIN user :
    /\ MEMBLKp(p) \in Blocks
    /\ user[p] + DATAOFFSET <= heap.blk[MEMBLKp(p)].sz
    /\ p % ALIGN = 0

\* In whatever state calls have left the heap, what memalign returns is aligned:
\* the realloc that gives back the excess never moves the block.
AlignedAsAsked ==
  Works => \A a \in Alignments, n \in Requests :
             LET m == nmemalign(heap, a, n).m IN m # NULL => PTR(m) % a = 0

\* Every request that is met is met in full: size, alignment of every block, and
\* the alignment memalign was asked for.
RequestsMet == FitsRequest /\ AlignedAsAsked

\* The promise to the program, and its implementation by this allocator.
Promise == INSTANCE Heap WITH
  Pointers <- {a \in Addr : a % ALIGN = 0},
  Sizes <- Requests \cup {c * n : c \in Counts, n \in Requests},
  live <- [p \in DOMAIN user |->
             [size |-> user[p], intact |-> heap.blk[MEMBLKp(p)].data = "user"]]
KeepsPromise == Promise!Spec

=============================================================================
