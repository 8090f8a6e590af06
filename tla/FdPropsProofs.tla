--------------------------- MODULE FdPropsProofs ---------------------------
(***************************************************************************)
(* Theorems about FdProps, for every number of descriptors, objects,       *)
(* contexts, names and calls, with and without memory.                     *)
(***************************************************************************)
EXTENDS FdProps, Loops, FiniteSetTheorems, TLAPS

----------------------------------------------------------------------------
(* Choosing the lowest, and counting.                                      *)

\* A set of numbers that is not empty has a lowest member.
LEMMA LowestIn ==
  ASSUME NEW S \in SUBSET Nat, S # {}
  PROVE  Lowest(S) \in S /\ \A y \in S : Lowest(S) <= y
  BY LeastIn DEF Lowest

\* There are NFD descriptors.
LEMMA FdsNat == Fds \in SUBSET Nat /\ IsFiniteSet(Fds) /\ Cardinality(Fds) = NFD
  <1>1. NFD \in Nat /\ NFD >= 1 /\ 0 \in Int /\ NFD - 1 \in Int
    BY FdAssumption
  <1>2. IsFiniteSet(0..(NFD - 1)) /\ Cardinality(0..(NFD - 1)) = NFD
    BY <1>1, FS_Interval
  <1> QED
    BY <1>1, <1>2 DEF Fds

\* The descriptors that table f maps to x.
Uses(f, x) == {fd \in Fds : f[fd] = x}

\* The descriptors that share an entry are counted by a number up to NFD.
LEMMA UsesCount ==
  ASSUME NEW f, NEW x
  PROVE  /\ IsFiniteSet(Uses(f, x))
         /\ Cardinality(Uses(f, x)) \in 0..NFD
         /\ Uses(f, x) = {} <=> Cardinality(Uses(f, x)) = 0
  <1>1. Uses(f, x) \in SUBSET Fds
    BY DEF Uses
  <1>2. IsFiniteSet(Uses(f, x)) /\ Cardinality(Uses(f, x)) <= NFD
    BY <1>1, FdsNat, FS_Subset
  <1>3. Cardinality(Uses(f, x)) \in Nat
    BY <1>2, FS_CardinalityType
  <1>4. NFD \in Nat
    BY FdAssumption
  <1> QED
    BY <1>2, <1>3, <1>4, FS_EmptySet

\* f and g differ at descriptor fd at most.
MovedAt(f, g, fd) == \A i \in Fds \ {fd} : g[i] = f[i]

\* How the counts change when one descriptor's entry does.
LEMMA UsesMove ==
  ASSUME NEW f, NEW g, NEW fd \in Fds, MovedAt(f, g, fd), NEW x
  PROVE  /\ f[fd] = x /\ g[fd] = x => Cardinality(Uses(g, x)) = Cardinality(Uses(f, x))
         /\ f[fd] = x /\ g[fd] # x => Cardinality(Uses(g, x)) = Cardinality(Uses(f, x)) - 1
         /\ f[fd] # x /\ g[fd] = x => Cardinality(Uses(g, x)) = Cardinality(Uses(f, x)) + 1
         /\ f[fd] # x /\ g[fd] # x => Cardinality(Uses(g, x)) = Cardinality(Uses(f, x))
  <1>1. /\ f[fd] = x /\ g[fd] = x => Uses(g, x) = Uses(f, x)
        /\ f[fd] = x /\ g[fd] # x => Uses(g, x) = Uses(f, x) \ {fd} /\ fd \in Uses(f, x)
        /\ f[fd] # x /\ g[fd] = x => Uses(g, x) = Uses(f, x) \cup {fd} /\ fd \notin Uses(f, x)
        /\ f[fd] # x /\ g[fd] # x => Uses(g, x) = Uses(f, x)
    BY DEF Uses, MovedAt
  <1>2. IsFiniteSet(Uses(f, x))
    BY UsesCount
  <1>3. Cardinality(Uses(f, x) \cup {fd}) =
          IF fd \in Uses(f, x) THEN Cardinality(Uses(f, x)) ELSE Cardinality(Uses(f, x)) + 1
    BY <1>2, FS_AddElement
  <1>4. Cardinality(Uses(f, x) \ {fd}) =
          IF fd \in Uses(f, x) THEN Cardinality(Uses(f, x)) - 1 ELSE Cardinality(Uses(f, x))
    BY <1>2, FS_RemoveElement
  <1> QED
    BY <1>1, <1>3, <1>4

----------------------------------------------------------------------------
(* What the operators on the lists and on the objects leave alone.         *)

\* Counts and names are the same in n as in st.
SameObjs(st, n) ==
  \A p \in Objs : /\ n.obj[p].ref = st.obj[p].ref
                  /\ n.obj[p].name = st.obj[p].name

\* So are the temporary flags.
SameTemps(st, n) == \A p \in Objs : n.obj[p].temp = st.obj[p].temp

\* Handles, handlers and contexts are the same in n as in st.
SameTables(st, n) ==
  /\ n.handle = st.handle
  /\ n.fn = st.fn
  /\ n.data = st.data
  /\ n.dupc = st.dupc
  /\ n.nul = st.nul

\* n differs from st in its objects at most.
Kept(st, n) ==
  /\ SameTables(st, n)
  /\ n.props = st.props
  /\ n.made = st.made
  /\ n.active = st.active
  /\ n.cached = st.cached
  /\ n.disk = st.disk
  /\ n.fate = st.fate

\* All objects but o are the same in n as in st.
OthersKept(st, n, o) == \A p \in Objs \ {o} : n.obj[p] = st.obj[p]

\* Objects are the possible links but NULL.
LEMMA SomeNumbers ==
  /\ NULL = 0 /\ NULL \in 0..MaxObjs /\ NULL \notin Objs
  /\ Objs \subseteq 0..MaxObjs
  /\ 0..MaxObjs = Objs \cup {NULL}
  BY FdAssumption DEF NULL, Objs

\* insert_list changes links only.
LEMMA InsertLinks ==
  ASSUME NEW obj \in [Objs -> Obj], NEW head \in 0..MaxObjs, NEW o \in Objs
  PROVE  /\ insert_list(obj, head, o) \in [Objs -> Obj]
         /\ \A p \in Objs : /\ insert_list(obj, head, o)[p].ref = obj[p].ref
                            /\ insert_list(obj, head, o)[p].name = obj[p].name
                            /\ insert_list(obj, head, o)[p].temp = obj[p].temp
  <1> DEFINE nx(p) == IF p = o THEN head ELSE obj[p].next
             pv(p) == IF p = head THEN o ELSE IF p = o THEN NULL ELSE obj[p].prev
             n == insert_list(obj, head, o)
  <1>1. ASSUME NEW p \in Objs
        PROVE  /\ n[p] \in Obj
               /\ n[p].ref = obj[p].ref /\ n[p].name = obj[p].name
               /\ n[p].temp = obj[p].temp
    <2>1. obj[p] \in Obj
      OBVIOUS
    <2>2. nx(p) \in 0..MaxObjs /\ pv(p) \in 0..MaxObjs
      BY <2>1, SomeNumbers DEF Obj
    <2>3. n[p] = [ref |-> obj[p].ref, name |-> obj[p].name,
                  temp |-> obj[p].temp, next |-> nx(p), prev |-> pv(p)]
      BY <2>1 DEF Obj, insert_list
    <2> HIDE DEF n, nx, pv
    <2> QED
      BY <2>1, <2>2, <2>3 DEF Obj
  <1>2. DOMAIN n = Objs /\ n = [p \in Objs |-> n[p]]
    BY DEF insert_list
  <1> HIDE DEF n
  <1>3. n \in [Objs -> Obj]
    BY <1>1, <1>2
  <1> QED
    BY <1>1, <1>3 DEF n

\* remove_list changes links only, whatever the links were.
LEMMA RemoveLinks ==
  ASSUME NEW obj \in [Objs -> Obj], NEW o \in Objs
  PROVE  /\ remove_list(obj, o) \in [Objs -> Obj]
         /\ \A p \in Objs : /\ remove_list(obj, o)[p].ref = obj[p].ref
                            /\ remove_list(obj, o)[p].name = obj[p].name
                            /\ remove_list(obj, o)[p].temp = obj[p].temp
  <1> DEFINE nx(p) == IF p = o THEN NULL
                      ELSE IF p = obj[o].prev THEN obj[o].next ELSE obj[p].next
             pv(p) == IF p \in {o, obj[o].next} THEN NULL ELSE obj[p].prev
             n == remove_list(obj, o)
  <1>1. ASSUME NEW p \in Objs
        PROVE  /\ n[p] \in Obj
               /\ n[p].ref = obj[p].ref /\ n[p].name = obj[p].name
               /\ n[p].temp = obj[p].temp
    <2>1. obj[p] \in Obj /\ obj[o] \in Obj
      OBVIOUS
    <2>2. nx(p) \in 0..MaxObjs /\ pv(p) \in 0..MaxObjs
      BY <2>1, SomeNumbers DEF Obj
    <2>3. n[p] = [ref |-> obj[p].ref, name |-> obj[p].name,
                  temp |-> obj[p].temp, next |-> nx(p), prev |-> pv(p)]
      BY <2>1 DEF Obj, remove_list
    <2> HIDE DEF n, nx, pv
    <2> QED
      BY <2>1, <2>2, <2>3 DEF Obj
  <1>2. DOMAIN n = Objs /\ n = [p \in Objs |-> n[p]]
    BY DEF remove_list
  <1> HIDE DEF n
  <1>3. n \in [Objs -> Obj]
    BY <1>1, <1>2
  <1> QED
    BY <1>1, <1>3 DEF n

\* An object that goes to the cache keeps its count and name.
LEMMA FreeObject ==
  ASSUME NEW st \in State, NEW o \in Objs, NEW n, n = free_fd_properties(st, o)
  PROVE  /\ n \in State /\ SameTables(st, n) /\ SameObjs(st, n)
         /\ n.props = st.props /\ n.made = st.made /\ n.fate = st.fate
         /\ n.disk = st.disk /\ n.cached = o /\ SameTemps(st, n)
  <1>1. st.obj \in [Objs -> Obj] /\ st.cached \in 0..MaxObjs
    BY DEF State
  <1>2. PICK mid : mid = remove_list(st.obj, o)
    OBVIOUS
  <1>3. PICK ob : ob = insert_list(mid, st.cached, o)
    OBVIOUS
  <1>4. PICK h : h = HeadWithout(st.active, o)
    OBVIOUS
  <1>5. /\ mid \in [Objs -> Obj]
        /\ \A p \in Objs : /\ mid[p].ref = st.obj[p].ref
                           /\ mid[p].name = st.obj[p].name
                           /\ mid[p].temp = st.obj[p].temp
    BY <1>1, <1>2, RemoveLinks
  <1>6. /\ ob \in [Objs -> Obj]
        /\ \A p \in Objs : /\ ob[p].ref = mid[p].ref
                           /\ ob[p].name = mid[p].name
                           /\ ob[p].temp = mid[p].temp
    BY <1>1, <1>3, <1>5, InsertLinks
  <1>7. h \in 0..MaxObjs
    BY <1>4, SomeNumbers DEF State, HeadWithout
  <1>8. n = [st EXCEPT !.active = h, !.cached = o, !.obj = ob]
    BY <1>2, <1>3, <1>4 DEF free_fd_properties
  <1>9. n = [handle |-> st.handle, fn |-> st.fn, data |-> st.data,
             dupc |-> st.dupc, nul |-> st.nul, props |-> st.props, obj |-> ob,
             made |-> st.made, active |-> h, cached |-> o,
             disk |-> st.disk, fate |-> st.fate]
    BY <1>8 DEF State
  <1>10. n \in State
    BY <1>6, <1>7, <1>9, SomeNumbers DEF State
  <1>11. SameTables(st, n) /\ SameObjs(st, n) /\ SameTemps(st, n)
    BY <1>5, <1>6, <1>9 DEF SameTables, SameObjs, SameTemps
  <1>12. /\ n.props = st.props /\ n.made = st.made /\ n.fate = st.fate
         /\ n.disk = st.disk /\ n.cached = o
    BY <1>9
  <1> QED
    BY <1>10, <1>11, <1>12

\* Names for the ways in which the operators change objects.
WithObj(st, ob) == [st EXCEPT !.obj = ob]
WithRef(st, o, r) == [st EXCEPT !.obj[o].ref = r]
WithName(st, o, nm) == [st EXCEPT !.obj[o].name = nm]
WithTemp(st, o, b) == [st EXCEPT !.obj[o].temp = b]

\* Replacing the objects keeps the rest of the state.
LEMMA NewObjects ==
  ASSUME NEW st \in State, NEW ob \in [Objs -> Obj], NEW n, n = WithObj(st, ob)
  PROVE  n \in State /\ Kept(st, n) /\ n.obj = ob
  <1>1. n = [handle |-> st.handle, fn |-> st.fn, data |-> st.data,
             dupc |-> st.dupc, nul |-> st.nul, props |-> st.props, obj |-> ob,
             made |-> st.made, active |-> st.active, cached |-> st.cached,
             disk |-> st.disk, fate |-> st.fate]
    BY DEF State, WithObj
  <1>2. n \in State
    BY <1>1 DEF State
  <1> QED
    BY <1>1, <1>2 DEF Kept, SameTables

\* Counting an object, naming it or making it temporary.
LEMMA SetRef ==
  ASSUME NEW st \in State, NEW o \in Objs, NEW r \in 0..NFD,
         NEW n, n = WithRef(st, o, r)
  PROVE  /\ n \in State /\ Kept(st, n)
         /\ n.obj[o].ref = r /\ n.obj[o].name = st.obj[o].name
         /\ n.obj[o].temp = st.obj[o].temp /\ n.obj[o].next = st.obj[o].next
         /\ OthersKept(st, n, o)
  <1>1. PICK ob : ob = [st.obj EXCEPT ![o].ref = r]
    OBVIOUS
  <1>2. st.obj \in [Objs -> Obj]
    BY DEF State
  <1>3. ob \in [Objs -> Obj]
    BY <1>1, <1>2 DEF Obj
  <1>4. /\ ob[o].ref = r /\ ob[o].name = st.obj[o].name
        /\ ob[o].temp = st.obj[o].temp /\ ob[o].next = st.obj[o].next
        /\ \A p \in Objs \ {o} : ob[p] = st.obj[p]
    BY <1>1, <1>2 DEF Obj
  <1>5. n = WithObj(st, ob)
    BY <1>1 DEF WithObj, WithRef, WithName, WithTemp
  <1>6. n \in State /\ Kept(st, n) /\ n.obj = ob
    BY <1>3, <1>5, NewObjects
  <1> QED
    BY <1>4, <1>6 DEF OthersKept

\* Naming an object keeps its count and the other objects.
LEMMA SetName ==
  ASSUME NEW st \in State, NEW o \in Objs, NEW nm \in Names \cup {NoName, Zero, Dir},
         NEW n, n = WithName(st, o, nm)
  PROVE  /\ n \in State /\ Kept(st, n)
         /\ n.obj[o].name = nm /\ n.obj[o].ref = st.obj[o].ref
         /\ OthersKept(st, n, o)
  <1>1. PICK ob : ob = [st.obj EXCEPT ![o].name = nm]
    OBVIOUS
  <1>2. st.obj \in [Objs -> Obj]
    BY DEF State
  <1>3. ob \in [Objs -> Obj]
    BY <1>1, <1>2 DEF Obj
  <1>4. /\ ob[o].name = nm /\ ob[o].ref = st.obj[o].ref
        /\ \A p \in Objs \ {o} : ob[p] = st.obj[p]
    BY <1>1, <1>2 DEF Obj
  <1>5. n = WithObj(st, ob)
    BY <1>1 DEF WithObj, WithRef, WithName, WithTemp
  <1>6. n \in State /\ Kept(st, n) /\ n.obj = ob
    BY <1>3, <1>5, NewObjects
  <1> QED
    BY <1>4, <1>6 DEF OthersKept

\* Wherever find_eq_filename ended.
LEMMA SetTemp ==
  ASSUME NEW st \in State, NEW o, NEW b \in BOOLEAN,
         NEW n, n = WithTemp(st, o, b)
  PROVE  /\ n \in State /\ Kept(st, n) /\ SameObjs(st, n)
         /\ \A p \in Objs : n.obj[p].temp = IF p = o THEN b ELSE st.obj[p].temp
  <1>1. PICK ob : ob = [st.obj EXCEPT ![o].temp = b]
    OBVIOUS
  <1>2. st.obj \in [Objs -> Obj]
    BY DEF State
  <1>3. ob \in [Objs -> Obj]
    BY <1>1, <1>2 DEF Obj
  <1>4. \A p \in Objs : /\ ob[p].name = st.obj[p].name /\ ob[p].ref = st.obj[p].ref
                        /\ ob[p].temp = IF p = o THEN b ELSE st.obj[p].temp
    BY <1>1, <1>2 DEF Obj
  <1>5. n = WithObj(st, ob)
    BY <1>1 DEF WithObj, WithRef, WithName, WithTemp
  <1> QED
    BY <1>3, <1>4, <1>5, NewObjects DEF SameObjs

\* close_fd changes the disk, a temporary flag or the fate, whatever the list holds.
LEMMA CloseObject ==
  ASSUME NEW st \in State, NEW o \in Objs, NEW n, n = close_fd(st, o)
  PROVE  /\ n \in State /\ SameTables(st, n) /\ SameObjs(st, n)
         /\ n.props = st.props /\ n.made = st.made /\ n.cached = st.cached
  <1>1. CASE n = st
    BY <1>1 DEF SameTables, SameObjs
  <1>2. CASE n = WithTemp(st, Found(st, o), TRUE)
    <2>1. n \in State /\ Kept(st, n) /\ SameObjs(st, n)
      BY <1>2, SetTemp
    <2> QED
      BY <2>1 DEF Kept
  <1>3. CASE n = [st EXCEPT !.disk = st.disk \ {st.obj[o].name}]
    <2>1. PICK di : di = st.disk \ {st.obj[o].name}
      OBVIOUS
    <2>2. di \in SUBSET Names
      BY <2>1 DEF State
    <2>3. n = [handle |-> st.handle, fn |-> st.fn, data |-> st.data,
               dupc |-> st.dupc, nul |-> st.nul, props |-> st.props, obj |-> st.obj,
               made |-> st.made, active |-> st.active, cached |-> st.cached,
               disk |-> di, fate |-> st.fate]
      BY <1>3, <2>1 DEF State
    <2>4. n \in State
      BY <2>2, <2>3 DEF State
    <2> QED
      BY <2>3, <2>4 DEF SameTables, SameObjs
  <1>4. ASSUME NEW e \in {"crash", "hang"}, n = [st EXCEPT !.fate = e]
        PROVE  /\ n \in State /\ SameTables(st, n) /\ SameObjs(st, n)
               /\ n.props = st.props /\ n.made = st.made /\ n.cached = st.cached
    <2>3. n = [handle |-> st.handle, fn |-> st.fn, data |-> st.data,
               dupc |-> st.dupc, nul |-> st.nul, props |-> st.props, obj |-> st.obj,
               made |-> st.made, active |-> st.active, cached |-> st.cached,
               disk |-> st.disk, fate |-> e]
      BY <1>4 DEF State
    <2>4. n \in State
      BY <2>3 DEF State
    <2> QED
      BY <2>3, <2>4 DEF SameTables, SameObjs
  <1>5. find_eq_filename(st, o) \in {"hang", "none", "crash", "found"}
    BY DEF find_eq_filename
  <1>6. \/ n = st
        \/ n = WithTemp(st, Found(st, o), TRUE)
        \/ n = [st EXCEPT !.disk = st.disk \ {st.obj[o].name}]
        \/ n = [st EXCEPT !.fate = "crash"]
        \/ n = [st EXCEPT !.fate = "hang"]
    BY <1>5 DEF close_fd, WithTemp
  <1> QED
    BY <1>1, <1>2, <1>3, <1>4, <1>6

----------------------------------------------------------------------------
(* The invariant of the tables, and what each call keeps of it.            *)

\* The count of an object is that of the descriptors that have it.
Counted(st) == \A o \in Objs : st.obj[o].ref = Cardinality(Uses(st.props, o))

\* What NamesAgree says of one descriptor.
NamedAt(st, fd) ==
  Has(st, fd) =>
    /\ st.handle[fd] # Free
    /\ st.obj[st.props[fd]].name \in Names =>
         st.handle[fd] = st.obj[st.props[fd]].name

\* An object that alloc_fd_properties can return belongs to no descriptor.
Fresh(st) ==
  /\ st.cached <= st.made
  /\ \A fd \in Fds : st.props[fd] <= st.made
  /\ st.cached # NULL => Uses(st.props, st.cached) = {}

\* What ContextsAlive says.
Backed(st) == \A d \in Contexts : Cardinality(Uses(st.data, d)) <= st.dupc[d]

\* What fd_props.c keeps while the program has not faulted.
Sound(st) == Counted(st) /\ Fresh(st) /\ \A fd \in Fds : NamedAt(st, fd)

\* The invariant of the library's state.
Good(st) == st \in State /\ Backed(st) /\ (st.fate = "ok" => Sound(st))

WithProps(st, fd, v) == [st EXCEPT !.props[fd] = v]

\* Giving a descriptor an object, or none.
LEMMA SetProps ==
  ASSUME NEW st \in State, NEW fd \in Fds, NEW v \in 0..MaxObjs,
         NEW n, n = WithProps(st, fd, v)
  PROVE  /\ n \in State /\ SameTables(st, n) /\ n.obj = st.obj
         /\ n.props = [st.props EXCEPT ![fd] = v]
         /\ n.made = st.made /\ n.cached = st.cached /\ n.fate = st.fate
         /\ n.disk = st.disk
  <1>1. PICK pr : pr = [st.props EXCEPT ![fd] = v]
    OBVIOUS
  <1>2. pr \in [Fds -> 0..MaxObjs]
    BY <1>1 DEF State
  <1>3. n = [handle |-> st.handle, fn |-> st.fn, data |-> st.data,
             dupc |-> st.dupc, nul |-> st.nul, props |-> pr, obj |-> st.obj,
             made |-> st.made, active |-> st.active, cached |-> st.cached,
             disk |-> st.disk, fate |-> st.fate]
    BY <1>1 DEF State, WithProps
  <1>4. n \in State
    BY <1>2, <1>3 DEF State
  <1> QED
    BY <1>1, <1>3, <1>4 DEF SameTables

\* The state in which clear_fd_properties gives up the descriptor's entry.
uncounted(st, o) == [st EXCEPT !.obj[o].ref = @ - 1]
cleared_state(st, o) ==
  IF uncounted(st, o).obj[o].ref = 0 THEN LastClosed(close_fd(uncounted(st, o), o), o)
  ELSE uncounted(st, o)

ClearedAs(st, o, r, n) ==
  /\ SameTables(st, n) /\ n.props = st.props /\ n.made = st.made
  /\ n.fate = "ok" =>
       /\ \A p \in Objs \ {o} : /\ n.obj[p].ref = st.obj[p].ref
                                /\ n.obj[p].name = st.obj[p].name
       /\ n.obj[o].ref = r
       /\ \/ r # 0 /\ n.obj[o].name = st.obj[o].name /\ n.cached = st.cached
          \/ r = 0 /\ n.cached = o

\* The object loses a reference; with the last one it is closed and cached.
LEMMA Cleared ==
  ASSUME NEW st \in State, st.fate = "ok", NEW fd \in Fds, st.props[fd] \in Objs,
         st.obj[st.props[fd]].ref \in 1..NFD,
         NEW n, n = cleared_state(st, st.props[fd])
  PROVE  n \in State /\ ClearedAs(st, st.props[fd], st.obj[st.props[fd]].ref - 1, n)
  <1>1. PICK o \in Objs : o = st.props[fd]
    OBVIOUS
  <1>2. PICK r \in 0..NFD : r = st.obj[o].ref - 1
    BY <1>1, FdAssumption
  <1>3. PICK dec : dec = WithRef(st, o, r)
    OBVIOUS
  <1>4. /\ dec \in State /\ Kept(st, dec)
        /\ dec.obj[o].ref = r /\ dec.obj[o].name = st.obj[o].name
        /\ OthersKept(st, dec, o)
    BY <1>3, SetRef
  <1>5. n = IF dec.obj[o].ref = 0 THEN LastClosed(close_fd(dec, o), o) ELSE dec
    <2>1. dec = uncounted(st, o)
      BY <1>2, <1>3 DEF WithRef, uncounted
    <2> QED
      BY <1>1, <2>1 DEF cleared_state
  <1>6. CASE r # 0
    <2>1. n = dec
      BY <1>4, <1>5, <1>6
    <2> QED
      BY <1>1, <1>2, <1>4, <1>6, <2>1 DEF ClearedAs, Kept, OthersKept
  <1>7. CASE r = 0
    <2>1. PICK c : c = close_fd(dec, o)
      OBVIOUS
    <2>2. /\ c \in State /\ SameTables(dec, c) /\ SameObjs(dec, c)
          /\ c.props = dec.props /\ c.made = dec.made /\ c.cached = dec.cached
      BY <1>4, <2>1, CloseObject
    <2>3. n = LastClosed(c, o)
      BY <1>4, <1>5, <1>7, <2>1
    <2>4. SameTables(st, c) /\ c.props = st.props /\ c.made = st.made
      BY <1>4, <2>2 DEF Kept, SameTables
    <2>5. CASE c.fate # "ok"
      <3>1. n = c
        BY <2>3, <2>5 DEF LastClosed
      <3> QED
        BY <2>2, <2>4, <2>5, <3>1 DEF ClearedAs
    <2>6. CASE c.fate = "ok"
      <3>1. PICK e : e = WithName(c, o, NoName)
        OBVIOUS
      <3>2. /\ e \in State /\ Kept(c, e)
            /\ e.obj[o].name = NoName /\ e.obj[o].ref = c.obj[o].ref
            /\ OthersKept(c, e, o)
        BY <2>2, <3>1, SetName
      <3>3. n = free_fd_properties(e, o)
        BY <2>3, <2>6, <3>1 DEF LastClosed, WithName
      <3>4. /\ n \in State /\ SameTables(e, n) /\ SameObjs(e, n)
            /\ n.props = e.props /\ n.made = e.made /\ n.fate = e.fate
            /\ n.cached = o
        BY <3>2, <3>3, FreeObject
      <3>5. SameTables(st, n) /\ n.props = st.props /\ n.made = st.made
        BY <2>4, <3>2, <3>4 DEF Kept, SameTables
      <3>6. \A p \in Objs \ {o} : /\ n.obj[p].ref = st.obj[p].ref
                                  /\ n.obj[p].name = st.obj[p].name
        BY <1>4, <2>2, <3>2, <3>4 DEF SameObjs, OthersKept
      <3>7. n.obj[o].ref = r
        BY <1>4, <2>2, <3>2, <3>4 DEF SameObjs, OthersKept
      <3> QED
        BY <1>1, <1>2, <1>7, <3>4, <3>5, <3>6, <3>7 DEF ClearedAs
    <2> QED
      BY <2>5, <2>6
  <1> QED
    BY <1>6, <1>7

\* Giving up properties restores the invariant, whatever file the handle has now.
LEMMA ClearSound ==
  ASSUME NEW st \in State, st.fate = "ok", NEW fd \in Fds, Has(st, fd),
         Counted(st), Fresh(st), \A f \in Fds \ {fd} : NamedAt(st, f),
         NEW n, n = clear_fd_properties(st, fd)
  PROVE  /\ n \in State /\ SameTables(st, n)
         /\ n.fate = "ok" => Sound(n) /\ n.props = [st.props EXCEPT ![fd] = NULL]
  <1>1. st.props \in [Fds -> 0..MaxObjs] /\ st.made \in Nat
    BY FdAssumption DEF State
  <1>2. PICK o \in Objs : o = st.props[fd]
    BY <1>1, SomeNumbers DEF Has
  <1>3. fd \in Uses(st.props, o)
    BY <1>2 DEF Uses
  <1>4. /\ Cardinality(Uses(st.props, o)) \in 1..NFD
        /\ st.obj[o].ref = Cardinality(Uses(st.props, o))
    BY <1>3, UsesCount DEF Counted
  <1>5. PICK r \in 0..NFD : r = st.obj[o].ref - 1
    BY <1>4, FdAssumption
  <1>6. PICK c : c = cleared_state(st, o)
    OBVIOUS
  <1>7. c \in State /\ ClearedAs(st, o, r, c)
    BY <1>2, <1>4, <1>5, <1>6, Cleared
  <1>8. n = WithProps(c, fd, IF c.fate = "ok" THEN NULL ELSE c.props[fd])
    BY <1>2, <1>6 DEF clear_fd_properties, cleared_state, uncounted, WithProps
  <1>9. CASE c.fate # "ok"
    <2>1. c.props[fd] \in 0..MaxObjs
      BY <1>7 DEF State
    <2>2. n = WithProps(c, fd, c.props[fd])
      BY <1>8, <1>9
    <2>3. n \in State /\ SameTables(c, n) /\ n.fate = c.fate
      <3>1. PICK v \in 0..MaxObjs : v = c.props[fd]
        BY <2>1
      <3>2. n = WithProps(c, fd, v)
        BY <2>2, <3>1
      <3>3. /\ n \in State /\ SameTables(c, n) /\ n.obj = c.obj
            /\ n.props = [c.props EXCEPT ![fd] = v]
            /\ n.made = c.made /\ n.cached = c.cached /\ n.fate = c.fate
        BY <1>7, <3>2, SetProps
      <3> QED
        BY <3>3
    <2>4. SameTables(st, n)
      BY <1>7, <2>3 DEF ClearedAs, SameTables
    <2> QED
      BY <1>9, <2>3, <2>4
  <1>10. CASE c.fate = "ok"
    <2>1. n = WithProps(c, fd, NULL)
      BY <1>8, <1>10
    <2>2. /\ n \in State /\ SameTables(c, n) /\ n.obj = c.obj
          /\ n.props = [c.props EXCEPT ![fd] = NULL]
          /\ n.made = c.made /\ n.cached = c.cached /\ n.fate = c.fate
      BY <1>7, <2>1, SomeNumbers, SetProps
    <2>3. SameTables(st, n) /\ n.props = [st.props EXCEPT ![fd] = NULL] /\ n.made = st.made
      BY <1>7, <2>2 DEF ClearedAs, SameTables
    <2>4. /\ \A p \in Objs \ {o} : /\ n.obj[p].ref = st.obj[p].ref
                                   /\ n.obj[p].name = st.obj[p].name
          /\ n.obj[o].ref = r
          /\ \/ r # 0 /\ n.obj[o].name = st.obj[o].name /\ n.cached = st.cached
             \/ r = 0 /\ n.cached = o
      BY <1>7, <1>10, <2>2 DEF ClearedAs
    <2>5. ASSUME NEW p \in Objs
          PROVE  n.obj[p].ref = Cardinality(Uses(n.props, p))
      <3>0. MovedAt(st.props, n.props, fd) /\ n.props[fd] = NULL
        BY <1>1, <2>3 DEF MovedAt
      <3>1. p # NULL
        BY SomeNumbers
      <3>2. st.obj[p].ref = Cardinality(Uses(st.props, p))
        BY DEF Counted
      <3>3. CASE p = o
        <4>1. Cardinality(Uses(n.props, p)) = Cardinality(Uses(st.props, p)) - 1
          BY <1>2, <3>0, <3>1, <3>3, UsesMove
        <4> QED
          BY <1>5, <2>4, <3>2, <3>3, <4>1
      <3>4. CASE p # o
        <4>1. Cardinality(Uses(n.props, p)) = Cardinality(Uses(st.props, p))
          BY <1>2, <3>0, <3>1, <3>4, UsesMove
        <4> QED
          BY <2>4, <3>2, <3>4, <4>1
      <3> QED
        BY <3>3, <3>4
    <2>6. Counted(n)
      BY <2>5 DEF Counted
    <2>7. ASSUME NEW f \in Fds
          PROVE  NamedAt(n, f)
      <3>1. CASE f = fd
        BY <1>1, <2>3, <3>1 DEF NamedAt, Has
      <3>2. CASE f # fd /\ Has(n, f)
        <4>1. n.props[f] = st.props[f] /\ Has(st, f)
          BY <1>1, <2>3, <3>2 DEF Has
        <4>2. st.props[f] \in Objs
          BY <1>1, <4>1, SomeNumbers DEF Has
        <4>3. n.obj[n.props[f]].name = st.obj[st.props[f]].name
          <5>1. CASE st.props[f] # o
            BY <2>4, <4>1, <4>2, <5>1
          <5>2. CASE st.props[f] = o
            <6>1. r # 0
              <7>1. n.props[f] = o
                BY <4>1, <5>2
              <7>2. f \in Uses(n.props, o)
                BY <7>1 DEF Uses
              <7> QED
                BY <2>4, <2>5, <7>2, UsesCount
            <6> QED
              BY <2>4, <4>1, <5>2, <6>1
          <5> QED
            BY <5>1, <5>2
        <4>4. NamedAt(st, f) /\ n.handle = st.handle
          BY <2>3, <3>2 DEF SameTables
        <4> QED
          BY <4>1, <4>3, <4>4 DEF NamedAt
      <3>3. CASE ~Has(n, f)
        BY <3>3 DEF NamedAt
      <3> QED
        BY <3>1, <3>2, <3>3
    <2>8. Fresh(n)
      <3>1. \A f \in Fds : n.props[f] <= n.made
        BY <1>1, <2>3, SomeNumbers DEF Fresh
      <3>2. CASE r # 0
        <4>1. n.cached = st.cached
          BY <2>4, <3>2
        <4>2. Uses(n.props, st.cached) \subseteq Uses(st.props, st.cached) \/ st.cached = NULL
          BY <1>1, <2>3 DEF Uses
        <4> QED
          BY <2>3, <3>1, <4>1, <4>2 DEF Fresh
      <3>3. CASE r = 0
        <4>1. n.cached = o /\ n.obj[o].ref = 0
          BY <2>4, <3>3
        <4>2. Uses(n.props, o) = {}
          BY <2>5, <4>1, UsesCount
        <4>3. o <= n.made
          BY <1>2, <2>3 DEF Fresh
        <4> QED
          BY <3>1, <4>1, <4>2, <4>3 DEF Fresh
      <3> QED
        BY <3>2, <3>3
    <2> QED
      BY <2>2, <2>3, <2>6, <2>7, <2>8 DEF Sound
  <1> QED
    BY <1>9, <1>10

----------------------------------------------------------------------------
(* Handles, handlers and contexts.                                         *)

WithHandle(st, fd, h) == [st EXCEPT !.handle[fd] = h]
WithFn(st, fd, b) == [st EXCEPT !.fn[fd] = b]
WithData(st, fd, d) == [st EXCEPT !.data[fd] = d]
WithCount(st, d, k) == [st EXCEPT !.dupc[d] = k]

\* n and st agree on everything fd_props.c keeps, and no file of st is gone.
SameProps(st, n) ==
  /\ n.props = st.props
  /\ n.obj = st.obj
  /\ n.made = st.made
  /\ n.active = st.active
  /\ n.cached = st.cached
  /\ n.fate = st.fate
  /\ st.disk \subseteq n.disk

Handles == Names \cup {Free, "con", "nul"}

\* Changing a handle keeps the rest of the state.
LEMMA SetHandle ==
  ASSUME NEW st \in State, NEW fd \in Fds, NEW h \in Handles,
         NEW n, n = WithHandle(st, fd, h)
  PROVE  /\ n \in State /\ SameProps(st, n)
         /\ MovedAt(st.handle, n.handle, fd) /\ n.handle[fd] = h
         /\ n.fn = st.fn /\ n.data = st.data /\ n.dupc = st.dupc /\ n.nul = st.nul
  <1>1. PICK t : t = [st.handle EXCEPT ![fd] = h]
    OBVIOUS
  <1>2. st.handle \in [Fds -> Handles]
    BY DEF State, Handles
  <1>3. t \in [Fds -> Handles] /\ MovedAt(st.handle, t, fd) /\ t[fd] = h
    BY <1>1, <1>2 DEF MovedAt
  <1>4. n = [handle |-> t, fn |-> st.fn, data |-> st.data,
             dupc |-> st.dupc, nul |-> st.nul, props |-> st.props, obj |-> st.obj,
             made |-> st.made, active |-> st.active, cached |-> st.cached,
             disk |-> st.disk, fate |-> st.fate]
    BY <1>1 DEF State, WithHandle
  <1>5. n \in State
    BY <1>3, <1>4 DEF State, Handles
  <1> QED
    BY <1>3, <1>4, <1>5 DEF SameProps

\* Changing a handler keeps the rest of the state.
LEMMA SetFn ==
  ASSUME NEW st \in State, NEW fd \in Fds, NEW b \in BOOLEAN,
         NEW n, n = WithFn(st, fd, b)
  PROVE  /\ n \in State /\ SameProps(st, n)
         /\ n.handle = st.handle /\ n.data = st.data /\ n.dupc = st.dupc
         /\ n.nul = st.nul
  <1>1. PICK t : t = [st.fn EXCEPT ![fd] = b]
    OBVIOUS
  <1>2. t \in [Fds -> BOOLEAN]
    BY <1>1 DEF State
  <1>4. n = [handle |-> st.handle, fn |-> t, data |-> st.data,
             dupc |-> st.dupc, nul |-> st.nul, props |-> st.props, obj |-> st.obj,
             made |-> st.made, active |-> st.active, cached |-> st.cached,
             disk |-> st.disk, fate |-> st.fate]
    BY <1>1 DEF State, WithFn
  <1>5. n \in State
    BY <1>2, <1>4 DEF State
  <1> QED
    BY <1>4, <1>5 DEF SameProps

\* Changing a descriptor's context keeps the rest of the state.
LEMMA SetData ==
  ASSUME NEW st \in State, NEW fd \in Fds, NEW d \in 0..MaxData,
         NEW n, n = WithData(st, fd, d)
  PROVE  /\ n \in State /\ SameProps(st, n) /\ n.handle = st.handle
         /\ MovedAt(st.data, n.data, fd) /\ n.data[fd] = d
         /\ n.fn = st.fn /\ n.dupc = st.dupc /\ n.nul = st.nul
  <1>1. PICK t : t = [st.data EXCEPT ![fd] = d]
    OBVIOUS
  <1>2. st.data \in [Fds -> 0..MaxData]
    BY DEF State
  <1>3. t \in [Fds -> 0..MaxData] /\ MovedAt(st.data, t, fd) /\ t[fd] = d
    BY <1>1, <1>2 DEF MovedAt
  <1>4. n = [handle |-> st.handle, fn |-> st.fn, data |-> t,
             dupc |-> st.dupc, nul |-> st.nul, props |-> st.props, obj |-> st.obj,
             made |-> st.made, active |-> st.active, cached |-> st.cached,
             disk |-> st.disk, fate |-> st.fate]
    BY <1>1 DEF State, WithData
  <1>5. n \in State
    BY <1>3, <1>4 DEF State
  <1> QED
    BY <1>3, <1>4, <1>5 DEF SameProps

\* Counting a context keeps the rest of the state.
LEMMA SetCount ==
  ASSUME NEW st \in State, NEW d \in Contexts, NEW k \in Nat,
         NEW n, n = WithCount(st, d, k)
  PROVE  /\ n \in State /\ SameProps(st, n) /\ n.handle = st.handle
         /\ n.fn = st.fn /\ n.data = st.data /\ n.nul = st.nul
         /\ n.dupc[d] = k /\ \A e \in Contexts \ {d} : n.dupc[e] = st.dupc[e]
  <1>1. PICK t : t = [st.dupc EXCEPT ![d] = k]
    OBVIOUS
  <1>2. st.dupc \in [Contexts -> Nat]
    BY DEF State
  <1>3. /\ t \in [Contexts -> Nat] /\ t[d] = k
        /\ \A e \in Contexts \ {d} : t[e] = st.dupc[e]
    BY <1>1, <1>2
  <1>4. n = [handle |-> st.handle, fn |-> st.fn, data |-> st.data,
             dupc |-> t, nul |-> st.nul, props |-> st.props, obj |-> st.obj,
             made |-> st.made, active |-> st.active, cached |-> st.cached,
             disk |-> st.disk, fate |-> st.fate]
    BY <1>1 DEF State, WithCount
  <1>5. n \in State
    BY <1>3, <1>4 DEF State
  <1> QED
    BY <1>3, <1>4, <1>5 DEF SameProps

\* The invariant reads handles only where there are properties.
LEMMA SoundElsewhere ==
  ASSUME NEW st, NEW n, SameProps(st, n), Sound(st),
         \A f \in Fds : Has(st, f) => n.handle[f] = st.handle[f]
  PROVE  Sound(n)
  <1>1. Counted(n) /\ Fresh(n)
    BY DEF SameProps, Sound, Counted, Fresh
  <1>2. \A f \in Fds : NamedAt(n, f)
    BY DEF SameProps, Sound, NamedAt, Has
  <1> QED
    BY <1>1, <1>2 DEF Sound

\* Closing the handle gives up the properties with it.
LEMMA DosCloseGood ==
  ASSUME NEW st, Good(st), st.fate = "ok", NEW fd \in Fds,
         NEW n, n = dos_close(st, fd)
  PROVE  Good(n)
  <1>1. st \in State /\ Sound(st) /\ Backed(st)
    BY DEF Good
  <1>2. CASE n = st
    BY <1>2
  <1>3. CASE n # st
    <2>1. PICK a : a = WithHandle(st, fd, Free)
      OBVIOUS
    <2>2. /\ a \in State /\ SameProps(st, a)
          /\ MovedAt(st.handle, a.handle, fd)
          /\ a.data = st.data /\ a.dupc = st.dupc
      <3>1. Free \in Handles
        BY DEF Handles
      <3>2. /\ a \in State /\ SameProps(st, a)
            /\ MovedAt(st.handle, a.handle, fd) /\ a.handle[fd] = Free
            /\ a.fn = st.fn /\ a.data = st.data /\ a.dupc = st.dupc /\ a.nul = st.nul
        BY <1>1, <2>1, <3>1, SetHandle
      <3> QED
        BY <3>2
    <2>3. Has(a, fd) <=> Has(st, fd)
      BY <2>2 DEF Has, SameProps
    <2>4. CASE Has(st, fd)
      <3>1. n = clear_fd_properties(a, fd)
        BY <1>3, <2>1, <2>4 DEF dos_close, WithHandle
      <3>2. Counted(a) /\ Fresh(a) /\ a.fate = "ok"
        BY <1>1, <2>2 DEF Sound, Counted, Fresh, SameProps
      <3>3. \A f \in Fds \ {fd} : NamedAt(a, f)
        BY <1>1, <2>2 DEF Sound, NamedAt, Has, SameProps, MovedAt
      <3>4. /\ n \in State /\ SameTables(a, n)
            /\ n.fate = "ok" => Sound(n) /\ n.props = [a.props EXCEPT ![fd] = NULL]
        BY <2>2, <2>3, <2>4, <3>1, <3>2, <3>3, ClearSound
      <3> QED
        BY <1>1, <2>2, <3>4 DEF Good, Backed, SameTables
    <2>5. CASE ~Has(st, fd)
      <3>1. n = a
        BY <1>3, <2>1, <2>5 DEF dos_close, WithHandle
      <3>2. \A f \in Fds : Has(st, f) => a.handle[f] = st.handle[f]
        BY <2>2, <2>5 DEF MovedAt
      <3>3. Sound(a)
        BY <1>1, <2>2, <3>2, SoundElsewhere
      <3> QED
        BY <1>1, <2>2, <3>1, <3>3 DEF Good, Backed
    <2> QED
      BY <2>4, <2>5
  <1> QED
    BY <1>2, <1>3

\* Contexts are the possible data pointers but NULL.
LEMMA ContextNumbers ==
  /\ NULL \notin Contexts /\ NULL \in 0..MaxData
  /\ Contexts \subseteq 0..MaxData
  /\ 0..MaxData = Contexts \cup {NULL}
  BY FdAssumption DEF NULL, Contexts

\* What the close handler of the device leaves to _close.
Forgotten(st, fd) ==
  [st EXCEPT !.data[fd] = NULL, !.fn[fd] = FALSE, !.dupc[st.data[fd]] = @ - 1]

\* The close handler of the device forgets a context that is counted for it.
LEMMA DeviceForgotten ==
  ASSUME NEW st, Good(st), st.fate = "ok", NEW fd \in Fds, st.data[fd] # NULL,
         NEW c, c = Forgotten(st, fd)
  PROVE  Good(c) /\ SameProps(st, c)
  <1>1. st \in State /\ Sound(st) /\ Backed(st)
    BY DEF Good
  <1>2. PICK d \in Contexts : d = st.data[fd]
    BY <1>1, ContextNumbers DEF State
  <1>3. fd \in Uses(st.data, d)
    BY <1>2 DEF Uses
  <1>4. st.dupc \in [Contexts -> Nat]
    BY <1>1 DEF State
  <1>5. st.dupc[d] - 1 \in Nat
    <2>1. Cardinality(Uses(st.data, d)) \in Nat /\ Cardinality(Uses(st.data, d)) # 0
      BY <1>3, UsesCount
    <2>2. Cardinality(Uses(st.data, d)) <= st.dupc[d]
      BY <1>1 DEF Backed
    <2> QED
      BY <1>4, <2>1, <2>2
  <1>6. PICK a : a = WithData(st, fd, NULL)
    OBVIOUS
  <1>7. PICK b : b = WithFn(a, fd, FALSE)
    OBVIOUS
  <1>8. PICK k \in Nat : k = st.dupc[d] - 1
    BY <1>5
  <1>9. c = WithCount(b, d, k)
    BY <1>2, <1>6, <1>7, <1>8 DEF Forgotten, WithData, WithFn, WithCount
  <1>10. /\ a \in State /\ SameProps(st, a) /\ a.handle = st.handle
        /\ MovedAt(st.data, a.data, fd) /\ a.data[fd] = NULL
        /\ a.fn = st.fn /\ a.dupc = st.dupc /\ a.nul = st.nul
    BY <1>1, <1>6, ContextNumbers, SetData
  <1>11. /\ b \in State /\ SameProps(a, b)
         /\ b.handle = a.handle /\ b.data = a.data /\ b.dupc = a.dupc
         /\ b.nul = a.nul
    BY <1>7, <1>10, SetFn
  <1>12. /\ c \in State /\ SameProps(b, c) /\ c.handle = b.handle
         /\ c.fn = b.fn /\ c.data = b.data /\ c.nul = b.nul
         /\ c.dupc[d] = k /\ \A e \in Contexts \ {d} : c.dupc[e] = b.dupc[e]
    BY <1>9, <1>11, SetCount
  <1>13. SameProps(st, c) /\ c.handle = st.handle
    BY <1>10, <1>11, <1>12 DEF SameProps
  <1>14. Sound(c) /\ c.fate = "ok"
    <2>1. Sound(c)
      BY <1>1, <1>13, SoundElsewhere
    <2> QED
      BY <1>13, <2>1 DEF SameProps
  <1>15. Backed(c)
    <2>1. ASSUME NEW e \in Contexts
          PROVE  Cardinality(Uses(c.data, e)) <= c.dupc[e]
      <3>1. MovedAt(st.data, c.data, fd) /\ c.data[fd] = NULL /\ e # NULL
        BY <1>10, <1>11, <1>12, ContextNumbers
      <3>2. Cardinality(Uses(st.data, e)) <= st.dupc[e]
        BY <1>1 DEF Backed
      <3>3. Cardinality(Uses(st.data, e)) \in Nat /\ st.dupc[e] \in Nat
        BY <1>4, UsesCount
      <3>4. CASE e = d
        <4>1. Cardinality(Uses(c.data, e)) = Cardinality(Uses(st.data, e)) - 1
          BY <1>2, <3>1, <3>4, UsesMove
        <4> QED
          BY <1>8, <1>12, <3>2, <3>3, <3>4, <4>1
      <3>5. CASE e # d
        <4>1. Cardinality(Uses(c.data, e)) = Cardinality(Uses(st.data, e))
          BY <1>2, <3>1, <3>5, UsesMove
        <4> QED
          BY <1>10, <1>11, <1>12, <3>2, <3>5, <4>1
      <3> QED
        BY <3>4, <3>5
    <2> QED
      BY <2>1 DEF Backed
  <1>16. Good(c)
    BY <1>12, <1>14, <1>15 DEF Good
  <1> QED
    BY <1>13, <1>16

\* _close keeps the invariant, with the close handler of the device and without.
LEMMA CloseGood ==
  ASSUME NEW st, Good(st), st.fate = "ok", NEW fd \in Fds, NEW n, n = _close(st, fd)
  PROVE  Good(n)
  <1>1. st \in State /\ Sound(st) /\ Backed(st)
    BY DEF Good
  <1>2. CASE ~st.fn[fd]
    <2>1. n = dos_close(st, fd)
      BY <1>2 DEF _close
    <2> QED
      BY <2>1, DosCloseGood
  <1>3. CASE st.fn[fd] /\ st.data[fd] = NULL
    <2>1. n = WithFn(st, fd, FALSE)
      BY <1>3 DEF _close, WithFn
    <2>2. /\ n \in State /\ SameProps(st, n)
          /\ n.handle = st.handle /\ n.data = st.data /\ n.dupc = st.dupc
          /\ n.nul = st.nul
      BY <1>1, <2>1, SetFn
    <2>3. Sound(n)
      BY <1>1, <2>2, SoundElsewhere
    <2> QED
      BY <1>1, <2>2, <2>3 DEF Good, Backed
  <1>4. CASE st.fn[fd] /\ st.data[fd] # NULL
    <2>1. PICK c : c = Forgotten(st, fd)
      OBVIOUS
    <2>2. Good(c) /\ SameProps(st, c)
      BY <1>4, <2>1, DeviceForgotten
    <2>3. n = dos_close(c, fd)
      BY <1>4, <2>1 DEF _close, dev_close, Forgotten
    <2>4. c.fate = "ok"
      BY <2>2 DEF SameProps
    <2> QED
      BY <2>2, <2>3, <2>4, DosCloseGood
  <1> QED
    BY <1>2, <1>3, <1>4

\* A copied entry is counted.
LEMMA DupPropsGood ==
  ASSUME NEW st, Good(st), st.fate = "ok", NEW from \in Fds, NEW to \in Fds,
         ~Has(st, to), st.handle[to] = st.handle[from],
         NEW n, n = dup_fd_properties(st, from, to)
  PROVE  Good(n)
  <1>1. st \in State /\ Sound(st) /\ Backed(st)
    BY DEF Good
  <1>2. CASE ~Has(st, from)
    <2>1. n = st
      BY <1>2 DEF dup_fd_properties
    <2> QED
      BY <2>1
  <1>3. CASE Has(st, from)
    <2>1. st.props \in [Fds -> 0..MaxObjs] /\ st.made \in Nat
      BY <1>1, FdAssumption DEF State
    <2>2. PICK o \in Objs : o = st.props[from]
      BY <1>3, <2>1, SomeNumbers DEF Has
    <2>3. st.obj[o].ref = Cardinality(Uses(st.props, o))
      BY <1>1 DEF Sound, Counted
    <2>4. PICK a : a = WithProps(st, to, o)
      OBVIOUS
    <2>5. /\ a \in State /\ SameTables(st, a) /\ a.obj = st.obj
          /\ a.props = [st.props EXCEPT ![to] = o]
          /\ a.made = st.made /\ a.cached = st.cached /\ a.fate = st.fate
      BY <1>1, <2>4, SomeNumbers, SetProps
    <2>6. st.props[to] = NULL /\ from # to
      BY <1>3 DEF Has
    <2>7. MovedAt(st.props, a.props, to) /\ a.props[to] = o
      BY <2>1, <2>5 DEF MovedAt
    <2>8. \A p \in Objs \ {o} : Cardinality(Uses(a.props, p)) = Cardinality(Uses(st.props, p))
      BY <2>6, <2>7, UsesMove, SomeNumbers
    <2>9. Cardinality(Uses(a.props, o)) = Cardinality(Uses(st.props, o)) + 1
      <3>1. o # NULL
        BY SomeNumbers
      <3> QED
        BY <2>6, <2>7, <3>1, UsesMove
    <2>10. PICK r \in 0..NFD : r = Cardinality(Uses(a.props, o))
      BY UsesCount
    <2>11. n = WithRef(a, o, r)
      BY <1>3, <2>2, <2>3, <2>4, <2>9, <2>10 DEF dup_fd_properties, WithProps, WithRef
    <2>12. /\ n \in State /\ Kept(a, n)
           /\ n.obj[o].ref = r /\ n.obj[o].name = a.obj[o].name
           /\ OthersKept(a, n, o)
      BY <2>5, <2>11, SetRef
    <2>13. n.props = a.props /\ n.made = st.made /\ n.cached = st.cached /\ n.fate = st.fate
      BY <2>5, <2>12 DEF Kept
    <2>14. SameTables(st, n)
      BY <2>5, <2>12 DEF Kept, SameTables
    <2>15. Counted(n)
      <3>1. \A p \in Objs \ {o} : n.obj[p].ref = Cardinality(Uses(n.props, p))
        BY <1>1, <2>5, <2>8, <2>12, <2>13 DEF OthersKept, Sound, Counted
      <3> QED
        BY <2>10, <2>12, <2>13, <3>1 DEF Counted
    <2>16. ASSUME NEW f \in Fds
           PROVE  NamedAt(n, f)
      <3>1. \A p \in Objs : n.obj[p].name = st.obj[p].name
        BY <2>5, <2>12 DEF OthersKept
      <3>2. NamedAt(st, f) /\ NamedAt(st, from) /\ n.handle = st.handle
        BY <1>1, <2>14 DEF Sound, SameTables
      <3>3. CASE f = to
        <4>1. n.props[f] = o
          BY <2>7, <2>13, <3>3
        <4> QED
          BY <1>3, <2>2, <3>1, <3>2, <3>3, <4>1 DEF NamedAt
      <3>4. CASE f # to
        <4>1. n.props[f] = st.props[f] /\ (Has(n, f) => Has(st, f))
          BY <2>7, <2>13, <3>4 DEF MovedAt, Has
        <4>2. Has(st, f) => st.props[f] \in Objs
          BY <2>1, SomeNumbers DEF Has
        <4> QED
          BY <3>1, <3>2, <4>1, <4>2 DEF NamedAt
      <3> QED
        BY <3>3, <3>4
    <2>17. Fresh(n)
      <3>1. \A f \in Fds : n.props[f] <= n.made
        BY <1>1, <2>2, <2>7, <2>13 DEF Sound, Fresh, MovedAt
      <3>2. o # st.cached
        BY <1>1, <2>2, SomeNumbers DEF Sound, Fresh, Uses
      <3>3. st.cached # NULL => Uses(n.props, st.cached) = {}
        BY <1>1, <2>6, <2>7, <2>13, <3>2 DEF Sound, Fresh, Uses, MovedAt
      <3> QED
        BY <1>1, <2>13, <3>1, <3>3 DEF Sound, Fresh
    <2>18. Sound(n)
      BY <2>15, <2>16, <2>17 DEF Sound
    <2> QED
      BY <1>1, <2>12, <2>14, <2>18 DEF Good, Backed, SameTables
  <1> QED
    BY <1>2, <1>3

\* The invariant does not read links and temporary flags.
LEMMA SoundSameObjs ==
  ASSUME NEW st \in State, NEW n, Kept(st, n), SameObjs(st, n), Sound(st)
  PROVE  Sound(n)
  <1>1. n.props = st.props /\ n.handle = st.handle
    BY DEF Kept, SameTables
  <1>2. Counted(n)
    BY <1>1 DEF SameObjs, Sound, Counted
  <1>3. Fresh(n)
    BY <1>1 DEF Kept, Sound, Fresh
  <1>4. ASSUME NEW f \in Fds
        PROVE  NamedAt(n, f)
    <2>1. Has(st, f) => st.props[f] \in Objs
      BY SomeNumbers DEF State, Has
    <2> QED
      BY <1>1, <2>1 DEF SameObjs, Sound, NamedAt, Has
  <1> QED
    BY <1>2, <1>3, <1>4 DEF Sound

\* The object that set_fd_properties takes belongs to nobody.
TakenAs(st, o, n) ==
  /\ SameTables(st, n) /\ SameObjs(st, n) /\ SameTemps(st, n)
  /\ n.props = st.props /\ n.fate = st.fate /\ n.disk = st.disk
  /\ n.cached = NULL /\ st.made <= n.made /\ o <= n.made
  /\ Uses(st.props, o) = {}

\* alloc_fd_properties returns an object that no descriptor has.
LEMMA TakeObject ==
  ASSUME NEW st \in State, Sound(st), NEW oom \in BOOLEAN,
         NEW o, o = alloc_fd_properties(st, oom), o # NULL,
         NEW n, n = TakeObj(st, o)
  PROVE  o \in Objs /\ n \in State /\ TakenAs(st, o, n)
  <1>1. /\ st.cached \in 0..MaxObjs /\ st.made \in 0..MaxObjs /\ MaxObjs \in Nat
        /\ st.obj \in [Objs -> Obj] /\ st.props \in [Fds -> 0..MaxObjs]
    BY FdAssumption DEF State
  <1>2. CASE st.cached # NULL
    <2>1. o = st.cached
      BY <1>2 DEF alloc_fd_properties
    <2>2. o \in Objs
      BY <1>1, <1>2, <2>1, SomeNumbers
    <2>3. PICK ob : ob = remove_list(st.obj, o)
      OBVIOUS
    <2>4. /\ ob \in [Objs -> Obj]
          /\ \A p \in Objs : /\ ob[p].ref = st.obj[p].ref
                             /\ ob[p].name = st.obj[p].name
                             /\ ob[p].temp = st.obj[p].temp
      BY <1>1, <2>2, <2>3, RemoveLinks
    <2>5. n = [st EXCEPT !.cached = NULL, !.obj = ob]
      BY <1>2, <2>1, <2>3 DEF TakeObj, HeadWithout
    <2>6. n = [handle |-> st.handle, fn |-> st.fn, data |-> st.data,
               dupc |-> st.dupc, nul |-> st.nul, props |-> st.props, obj |-> ob,
               made |-> st.made, active |-> st.active, cached |-> NULL,
               disk |-> st.disk, fate |-> st.fate]
      BY <2>5 DEF State
    <2>7. n \in State
      BY <2>4, <2>6, SomeNumbers DEF State
    <2>8. SameTables(st, n) /\ SameObjs(st, n) /\ SameTemps(st, n)
      BY <2>4, <2>6 DEF SameTables, SameObjs, SameTemps
    <2>9. o <= st.made /\ Uses(st.props, o) = {}
      BY <1>2, <2>1 DEF Sound, Fresh
    <2>10. /\ n.props = st.props /\ n.fate = st.fate /\ n.cached = NULL
           /\ n.made = st.made /\ n.disk = st.disk
      BY <2>6
    <2> QED
      BY <1>1, <2>2, <2>7, <2>8, <2>9, <2>10 DEF TakenAs
  <1>3. CASE st.cached = NULL
    <2>1. o = st.made + 1 /\ st.made # MaxObjs
      BY <1>3 DEF alloc_fd_properties
    <2>2. o \in Objs /\ o \in 0..MaxObjs
      BY <1>1, <2>1 DEF Objs
    <2>3. n = [st EXCEPT !.made = o]
      BY <1>3 DEF TakeObj
    <2>4. n = [handle |-> st.handle, fn |-> st.fn, data |-> st.data,
               dupc |-> st.dupc, nul |-> st.nul, props |-> st.props, obj |-> st.obj,
               made |-> o, active |-> st.active, cached |-> st.cached,
               disk |-> st.disk, fate |-> st.fate]
      BY <2>3 DEF State
    <2>5. n \in State
      BY <2>2, <2>4 DEF State
    <2>6. SameTables(st, n) /\ SameObjs(st, n) /\ SameTemps(st, n)
      BY <2>4 DEF SameTables, SameObjs, SameTemps
    <2>7. Uses(st.props, o) = {}
      BY <1>1, <2>1 DEF Sound, Fresh, Uses
    <2>8. /\ n.props = st.props /\ n.fate = st.fate /\ n.cached = NULL
          /\ n.made = o /\ n.disk = st.disk
      BY <1>3, <2>4
    <2> QED
      BY <1>1, <2>1, <2>2, <2>5, <2>6, <2>7, <2>8 DEF TakenAs
  <1> QED
    BY <1>2, <1>3

\* Attach counts and names the object before the descriptor gets it.
AttachedAs(st, fd, o, name, n) ==
  /\ SameTables(st, n) /\ n.fate = st.fate
  /\ n.made = st.made /\ n.cached = st.cached /\ n.disk = st.disk
  /\ MovedAt(st.props, n.props, fd) /\ n.props[fd] = o
  /\ n.obj[o].ref = 1 /\ n.obj[o].name = name
  /\ \A p \in Objs \ {o} : /\ n.obj[p].ref = st.obj[p].ref
                           /\ n.obj[p].name = st.obj[p].name
                           /\ n.obj[p].temp = st.obj[p].temp

\* What Attach does to the tables.
LEMMA AttachObject ==
  ASSUME NEW st \in State, NEW fd \in Fds, NEW o \in Objs,
         NEW name \in Names \cup {NoName, Zero, Dir},
         NEW n, n = Attach(st, fd, o, name)
  PROVE  n \in State /\ AttachedAs(st, fd, o, name, n)
  <1>1. /\ st.obj \in [Objs -> Obj] /\ st.props \in [Fds -> 0..MaxObjs]
        /\ st.active \in 0..MaxObjs /\ 1 \in 0..NFD /\ o \in 0..MaxObjs
    BY FdAssumption, SomeNumbers DEF State
  <1>2. PICK ob1 : ob1 = [st.obj EXCEPT ![o].ref = 1]
    OBVIOUS
  <1>3. PICK ob2 : ob2 = [ob1 EXCEPT ![o].name = name]
    OBVIOUS
  <1>4. PICK ob : ob = insert_list(ob2, st.active, o)
    OBVIOUS
  <1>5. PICK pr : pr = [st.props EXCEPT ![fd] = o]
    OBVIOUS
  <1>6. /\ ob1 \in [Objs -> Obj] /\ ob1[o].ref = 1
        /\ \A p \in Objs \ {o} : ob1[p] = st.obj[p]
    BY <1>1, <1>2 DEF Obj
  <1>7. /\ ob2 \in [Objs -> Obj] /\ ob2[o].ref = 1 /\ ob2[o].name = name
        /\ \A p \in Objs \ {o} : ob2[p] = st.obj[p]
    BY <1>1, <1>3, <1>6 DEF Obj
  <1>8. /\ ob \in [Objs -> Obj]
        /\ \A p \in Objs : /\ ob[p].ref = ob2[p].ref
                           /\ ob[p].name = ob2[p].name
                           /\ ob[p].temp = ob2[p].temp
    BY <1>1, <1>4, <1>7, InsertLinks
  <1>9. pr \in [Fds -> 0..MaxObjs] /\ MovedAt(st.props, pr, fd) /\ pr[fd] = o
    BY <1>1, <1>5 DEF MovedAt
  <1>10. n = [st EXCEPT !.obj = ob, !.active = o, !.props = pr]
    BY <1>2, <1>3, <1>4, <1>5 DEF Attach
  <1>11. n = [handle |-> st.handle, fn |-> st.fn, data |-> st.data,
              dupc |-> st.dupc, nul |-> st.nul, props |-> pr, obj |-> ob,
              made |-> st.made, active |-> o, cached |-> st.cached,
              disk |-> st.disk, fate |-> st.fate]
    BY <1>10 DEF State
  <1>12. n \in State
    BY <1>1, <1>8, <1>9, <1>11 DEF State
  <1>13. SameTables(st, n)
    BY <1>11 DEF SameTables
  <1>14. /\ n.fate = st.fate /\ n.made = st.made /\ n.cached = st.cached
         /\ n.props = pr /\ n.obj = ob /\ n.disk = st.disk
    BY <1>11
  <1> QED
    BY <1>7, <1>8, <1>9, <1>12, <1>13, <1>14 DEF AttachedAs

\* open_fd sets a flag, on a descriptor with properties or on the new object.
LEMMA OpenFlagGood ==
  ASSUME NEW st, Good(st), st.fate = "ok", NEW o, NEW temp \in BOOLEAN,
         NEW n, n = open_fd(st, o, temp)
  PROVE  Good(n) /\ n.fate = "ok"
  <1>1. st \in State /\ Sound(st) /\ Backed(st)
    BY DEF Good
  <1>2. PICK b \in BOOLEAN : b = (temp /\ st.obj[o].name # NoName)
    OBVIOUS
  <1>3. n = WithTemp(st, o, b)
    BY <1>2 DEF open_fd, WithTemp
  <1>4. n \in State /\ Kept(st, n) /\ SameObjs(st, n)
    BY <1>1, <1>3, SetTemp
  <1>5. Sound(n)
    BY <1>1, <1>4, SoundSameObjs
  <1> QED
    BY <1>1, <1>4, <1>5 DEF Good, Backed, Kept, SameTables

\* New properties agree with the open handle that gets them.
LEMMA SetPropsGood ==
  ASSUME NEW st, Good(st), st.fate = "ok", NEW fd \in Fds,
         NEW name \in Names \cup {NoName, Zero, Dir},
         NEW temp \in BOOLEAN, NEW oom \in BOOLEAN,
         st.handle[fd] # Free, name \in Names => st.handle[fd] = name,
         NEW n, n = set_fd_properties(st, fd, name, temp, oom)
  PROVE  Good(n) /\ n.fate = "ok"
  <1>1. st \in State /\ Sound(st) /\ Backed(st)
    BY DEF Good
  <1>2. PICK o : o = alloc_fd_properties(st, oom)
    OBVIOUS
  <1>3. CASE Has(st, fd)
    <2>1. n = open_fd(st, st.props[fd], temp)
      BY <1>3 DEF set_fd_properties
    <2> QED
      BY <2>1, OpenFlagGood
  <1>4. CASE ~Has(st, fd) /\ o = NULL
    <2>1. n = st
      BY <1>2, <1>4 DEF set_fd_properties
    <2> QED
      BY <2>1
  <1>5. CASE ~Has(st, fd) /\ o # NULL
    <2>1. PICK t : t = TakeObj(st, o)
      OBVIOUS
    <2>2. PICK a : a = Attach(t, fd, o, name)
      OBVIOUS
    <2>3. n = open_fd(a, o, temp)
      BY <1>2, <1>5, <2>1, <2>2 DEF set_fd_properties
    <2>4. o \in Objs /\ t \in State /\ TakenAs(st, o, t)
      BY <1>1, <1>2, <1>5, <2>1, TakeObject
    <2>5. a \in State /\ AttachedAs(t, fd, o, name, a)
      BY <2>2, <2>4, AttachObject
    <2>6. SameTables(st, a) /\ a.fate = "ok" /\ a.cached = NULL
      BY <2>4, <2>5 DEF TakenAs, AttachedAs, SameTables
    <2>7. /\ MovedAt(st.props, a.props, fd) /\ a.props[fd] = o
          /\ st.props[fd] = NULL
      BY <1>5, <2>4, <2>5 DEF TakenAs, AttachedAs, Has
    <2>8. /\ a.obj[o].ref = 1 /\ a.obj[o].name = name
          /\ \A p \in Objs \ {o} : /\ a.obj[p].ref = st.obj[p].ref
                                   /\ a.obj[p].name = st.obj[p].name
      BY <2>4, <2>5 DEF TakenAs, AttachedAs, SameObjs
    <2>9. Counted(a)
      <3>1. ASSUME NEW p \in Objs
            PROVE  a.obj[p].ref = Cardinality(Uses(a.props, p))
        <4>1. p # NULL
          BY SomeNumbers
        <4>2. CASE p = o
          <5>1. Cardinality(Uses(st.props, p)) = 0
            BY <2>4, <4>2, UsesCount DEF TakenAs
          <5>2. Cardinality(Uses(a.props, p)) = Cardinality(Uses(st.props, p)) + 1
            BY <2>7, <4>1, <4>2, UsesMove
          <5> QED
            BY <2>8, <4>2, <5>1, <5>2
        <4>3. CASE p # o
          <5>1. Cardinality(Uses(a.props, p)) = Cardinality(Uses(st.props, p))
            BY <2>7, <4>1, <4>3, UsesMove
          <5> QED
            BY <1>1, <2>8, <4>3, <5>1 DEF Sound, Counted
        <4> QED
          BY <4>2, <4>3
      <3> QED
        BY <3>1 DEF Counted
    <2>10. Fresh(a)
      <3>1. a.made = t.made /\ st.made <= t.made /\ o <= t.made
        BY <2>4, <2>5 DEF TakenAs, AttachedAs
      <3>2. /\ st.made \in Nat /\ t.made \in Nat /\ st.props \in [Fds -> 0..MaxObjs]
            /\ MaxObjs \in Nat
        BY <1>1, <2>4, FdAssumption DEF State
      <3>3. ASSUME NEW f \in Fds
            PROVE  a.props[f] <= a.made
        <4>1. CASE f = fd
          BY <2>7, <3>1, <4>1
        <4>2. CASE f # fd
          <5>1. a.props[f] = st.props[f] /\ st.props[f] <= st.made /\ st.props[f] \in Nat
            BY <1>1, <2>7, <3>2, <4>2 DEF MovedAt, Sound, Fresh
          <5> QED
            BY <3>1, <3>2, <5>1
        <4> QED
          BY <4>1, <4>2
      <3>4. a.cached <= a.made
        BY <2>6, <3>1, <3>2, SomeNumbers
      <3> QED
        BY <2>6, <3>3, <3>4 DEF Fresh
    <2>11. ASSUME NEW f \in Fds
           PROVE  NamedAt(a, f)
      <3>1. a.handle = st.handle
        BY <2>6 DEF SameTables
      <3>2. CASE f = fd
        BY <2>7, <2>8, <3>1, <3>2 DEF NamedAt
      <3>3. CASE f # fd
        <4>1. a.props[f] = st.props[f] /\ NamedAt(st, f)
          BY <1>1, <2>7, <3>3 DEF MovedAt, Sound
        <4>2. st.props[f] # o
          BY <2>4 DEF TakenAs, Uses
        <4>3. Has(st, f) => st.props[f] \in Objs \ {o}
          BY <1>1, <4>2, SomeNumbers DEF State, Has
        <4>4. Has(st, f) => a.obj[st.props[f]].name = st.obj[st.props[f]].name
          BY <2>8, <4>3
        <4> QED
          BY <3>1, <4>1, <4>4 DEF NamedAt, Has
      <3> QED
        BY <3>2, <3>3
    <2>12. Good(a)
      <3>1. Sound(a)
        BY <2>9, <2>10, <2>11 DEF Sound
      <3>2. Backed(a)
        BY <1>1, <2>6 DEF Backed, SameTables
      <3> QED
        BY <2>5, <3>1, <3>2 DEF Good
    <2> QED
      BY <2>3, <2>6, <2>12, OpenFlagGood
  <1> QED
    BY <1>3, <1>4, <1>5

\* Giving a free handle out, with or without a handler.
LEMMA HandOutGood ==
  ASSUME NEW st, Good(st), st.fate = "ok", NEW fd \in Fds, ~Has(st, fd),
         NEW h \in Handles, NEW b \in BOOLEAN,
         NEW n, n = WithFn(WithHandle(st, fd, h), fd, b)
  PROVE  /\ Good(n) /\ SameProps(st, n)
         /\ MovedAt(st.handle, n.handle, fd) /\ n.handle[fd] = h
         /\ n.data = st.data /\ n.dupc = st.dupc /\ n.nul = st.nul
  <1>1. st \in State /\ Sound(st) /\ Backed(st)
    BY DEF Good
  <1>2. PICK a : a = WithHandle(st, fd, h)
    OBVIOUS
  <1>3. /\ a \in State /\ SameProps(st, a)
        /\ MovedAt(st.handle, a.handle, fd) /\ a.handle[fd] = h
        /\ a.fn = st.fn /\ a.data = st.data /\ a.dupc = st.dupc /\ a.nul = st.nul
    BY <1>1, <1>2, SetHandle
  <1>4. n = WithFn(a, fd, b)
    BY <1>2
  <1>5. /\ n \in State /\ SameProps(a, n)
        /\ n.handle = a.handle /\ n.data = a.data /\ n.dupc = a.dupc
        /\ n.nul = a.nul
    BY <1>3, <1>4, SetFn
  <1>6. SameProps(st, n)
    BY <1>3, <1>5 DEF SameProps
  <1>7. \A f \in Fds : Has(st, f) => n.handle[f] = st.handle[f]
    BY <1>3, <1>5 DEF MovedAt
  <1>8. Sound(n)
    BY <1>1, <1>6, <1>7, SoundElsewhere
  <1>9. Good(n)
    BY <1>1, <1>3, <1>5, <1>8 DEF Good, Backed
  <1> QED
    BY <1>3, <1>5, <1>6, <1>9

\* DOS gives out a handle that was free.
LEMMA LowestFree ==
  ASSUME NEW st, FreeFds(st) # {}
  PROVE  Lowest(FreeFds(st)) \in Fds /\ st.handle[Lowest(FreeFds(st))] = Free
  <1>1. FreeFds(st) \in SUBSET Nat
    BY FdsNat DEF FreeFds
  <1>2. Lowest(FreeFds(st)) \in FreeFds(st)
    BY <1>1, LowestIn
  <1> QED
    BY <1>2 DEF FreeFds

\* A free handle has no properties.
LEMMA FreeHasNone ==
  ASSUME NEW st, Good(st), st.fate = "ok", NEW fd \in Fds, st.handle[fd] = Free
  PROVE  ~Has(st, fd)
  BY DEF Good, Sound, NamedAt

\* dup keeps the invariant.
LEMMA DupGood ==
  ASSUME NEW st, Good(st), st.fate = "ok", NEW fd \in Fds, NEW new \in Fds,
         st.handle[new] = Free, st.handle[fd] # Free, NEW n, n = Dup(st, fd, new)
  PROVE  Good(n)
  <1>1. ~Has(st, new)
    BY FreeHasNone
  <1>2. PICK h \in Handles : h = st.handle[fd]
    BY DEF Good, State, Handles
  <1>3. PICK b \in BOOLEAN : b = st.fn[fd]
    BY DEF Good, State
  <1>4. PICK a : a = WithFn(WithHandle(st, new, h), new, b)
    OBVIOUS
  <1>5. /\ Good(a) /\ SameProps(st, a)
        /\ MovedAt(st.handle, a.handle, new) /\ a.handle[new] = h
        /\ a.data = st.data /\ a.dupc = st.dupc /\ a.nul = st.nul
    BY <1>1, <1>4, HandOutGood
  <1>6. n = dup_fd_properties(a, fd, new)
    BY <1>2, <1>3, <1>4 DEF Dup, WithFn, WithHandle
  <1>7. a.handle[new] = a.handle[fd] /\ ~Has(a, new) /\ a.fate = "ok"
    BY <1>1, <1>2, <1>5 DEF MovedAt, SameProps, Has
  <1> QED
    BY <1>5, <1>6, <1>7, DupPropsGood

\* dup2 up to the point where newfd has the handle, and where it has no properties.
HandedOver(st, fd, newfd) ==
  [st EXCEPT !.handle[newfd] = st.handle[fd], !.fn[newfd] = st.fn[fd]]
Bare(st, t, newfd) == IF Has(st, newfd) THEN clear_fd_properties(t, newfd) ELSE t

\* There newfd and fd have the same handle, and newfd has no properties.
LEMMA Dup2Bare ==
  ASSUME NEW st, Good(st), st.fate = "ok", NEW fd \in Fds, NEW newfd \in Fds,
         fd # newfd, st.handle[fd] # Free,
         NEW t, t = HandedOver(st, fd, newfd), NEW bare, bare = Bare(st, t, newfd)
  PROVE  /\ t \in State /\ SameProps(st, t)
         /\ Good(bare)
         /\ bare.fate = "ok" => ~Has(bare, newfd) /\ bare.handle[newfd] = bare.handle[fd]
  <1>1. st \in State /\ Sound(st) /\ Backed(st)
    BY DEF Good
  <1>2. PICK h \in Handles : h = st.handle[fd]
    BY <1>1 DEF State, Handles
  <1>3. PICK b \in BOOLEAN : b = st.fn[fd]
    BY <1>1 DEF State
  <1>4. PICK a : a = WithHandle(st, newfd, h)
    OBVIOUS
  <1>5. t = WithFn(a, newfd, b)
    BY <1>2, <1>3, <1>4 DEF HandedOver, WithHandle, WithFn
  <1>6. /\ a \in State /\ SameProps(st, a)
        /\ MovedAt(st.handle, a.handle, newfd) /\ a.handle[newfd] = h
        /\ a.fn = st.fn /\ a.data = st.data /\ a.dupc = st.dupc /\ a.nul = st.nul
    BY <1>1, <1>4, SetHandle
  <1>7. /\ t \in State /\ SameProps(a, t)
        /\ t.handle = a.handle /\ t.data = a.data /\ t.dupc = a.dupc
        /\ t.nul = a.nul
    BY <1>5, <1>6, SetFn
  <1>8. /\ SameProps(st, t) /\ Counted(t) /\ Fresh(t) /\ t.fate = "ok"
         /\ t.data = st.data /\ t.dupc = st.dupc
         /\ MovedAt(st.handle, t.handle, newfd) /\ t.handle[newfd] = t.handle[fd]
    <2>1. SameProps(st, t)
      BY <1>6, <1>7 DEF SameProps
    <2>2. Counted(t) /\ Fresh(t) /\ t.fate = "ok"
      BY <1>1, <2>1 DEF Sound, Counted, Fresh, SameProps
    <2> QED
      BY <1>2, <1>6, <1>7, <2>1, <2>2 DEF MovedAt
  <1>9. \A f \in Fds \ {newfd} : NamedAt(t, f)
    BY <1>1, <1>8 DEF Sound, NamedAt, Has, SameProps, MovedAt
  <1>10. CASE Has(st, newfd)
    <2>1. Has(t, newfd)
      BY <1>8, <1>10 DEF Has, SameProps
    <2>2. bare = clear_fd_properties(t, newfd)
      BY <1>10 DEF Bare
    <2>3. /\ bare \in State /\ SameTables(t, bare)
          /\ bare.fate = "ok" => Sound(bare) /\ bare.props = [t.props EXCEPT ![newfd] = NULL]
      BY <1>7, <1>8, <1>9, <2>1, <2>2, ClearSound
    <2>4. Good(bare)
      BY <1>1, <1>8, <2>3 DEF Good, Backed, SameTables
    <2>5. bare.fate = "ok" => ~Has(bare, newfd)
      BY <1>7, <2>3 DEF State, Has
    <2>6. bare.handle[newfd] = bare.handle[fd]
      BY <1>8, <2>3 DEF SameTables
    <2> QED
      BY <1>7, <1>8, <2>4, <2>5, <2>6
  <1>11. CASE ~Has(st, newfd)
    <2>1. bare = t
      BY <1>11 DEF Bare
    <2>2. ~Has(t, newfd)
      BY <1>8, <1>11 DEF Has, SameProps
    <2>3. Sound(t)
      BY <1>8, <1>9, <2>2 DEF Sound, NamedAt
    <2>4. Good(t)
      BY <1>1, <1>7, <1>8, <2>3 DEF Good, Backed
    <2> QED
      BY <1>7, <1>8, <2>1, <2>2, <2>4
  <1> QED
    BY <1>10, <1>11

\* dup2 keeps the invariant: what it takes over is given up before it is shared.
LEMMA Dup2Good ==
  ASSUME NEW st, Good(st), st.fate = "ok", NEW fd \in Fds, NEW newfd \in Fds,
         NEW n, n = dup2(st, fd, newfd)
  PROVE  Good(n)
  <1>1. st \in State /\ Sound(st) /\ Backed(st)
    BY DEF Good
  <1>2. CASE fd = newfd
    <2>1. n = st
      BY <1>2 DEF dup2
    <2> QED
      BY <2>1
  <1>3. CASE fd # newfd /\ st.handle[fd] = Free
    <2>1. n = WithFn(st, newfd, FALSE)
      BY <1>3 DEF dup2, WithFn
    <2>2. /\ n \in State /\ SameProps(st, n)
          /\ n.handle = st.handle /\ n.data = st.data /\ n.dupc = st.dupc
          /\ n.nul = st.nul
      BY <1>1, <2>1, SetFn
    <2>3. Sound(n)
      BY <1>1, <2>2, SoundElsewhere
    <2> QED
      BY <1>1, <2>2, <2>3 DEF Good, Backed
  <1>4. CASE fd # newfd /\ st.handle[fd] # Free
    <2>1. PICK t : t = HandedOver(st, fd, newfd)
      OBVIOUS
    <2>2. PICK bare : bare = Bare(st, t, newfd)
      OBVIOUS
    <2>3. /\ Good(bare)
          /\ bare.fate = "ok" => ~Has(bare, newfd) /\ bare.handle[newfd] = bare.handle[fd]
      BY <1>4, <2>1, <2>2, Dup2Bare
    <2>4. n = IF bare.fate # "ok" THEN bare ELSE dup_fd_properties(bare, fd, newfd)
      BY <1>4, <2>1, <2>2 DEF dup2, HandedOver, Bare
    <2>5. CASE bare.fate # "ok"
      BY <2>3, <2>4, <2>5
    <2>6. CASE bare.fate = "ok"
      <3>1. n = dup_fd_properties(bare, fd, newfd)
        BY <2>4, <2>6
      <3> QED
        BY <2>3, <2>6, <3>1, DupPropsGood
    <2> QED
      BY <2>5, <2>6
  <1> QED
    BY <1>2, <1>3, <1>4

\* The NUL handle of __FSEXT_alloc_fd.
LEMMA WithNulGood ==
  ASSUME NEW st, Good(st), st.fate = "ok", NEW n, n = WithNul(st)
  PROVE  Good(n) /\ SameProps(st, n) /\ n.data = st.data
  <1>1. st \in State /\ Sound(st) /\ Backed(st)
    BY DEF Good
  <1>2. CASE st.nul # -1 \/ FreeFds(st) = {}
    <2>1. n = st
      BY <1>2 DEF WithNul
    <2> QED
      BY <2>1 DEF SameProps
  <1>3. CASE st.nul = -1 /\ FreeFds(st) # {}
    <2>1. PICK fd \in Fds : fd = Lowest(FreeFds(st)) /\ st.handle[fd] = Free
      BY <1>3, LowestFree
    <2>2. ~Has(st, fd)
      BY <2>1, FreeHasNone
    <2>3. n = [st EXCEPT !.nul = fd, !.handle[fd] = "nul"]
      BY <1>3, <2>1 DEF WithNul
    <2>4. PICK t : t = [st.handle EXCEPT ![fd] = "nul"]
      OBVIOUS
    <2>5. st.handle \in [Fds -> Names \cup {Free, "con", "nul"}]
      BY <1>1 DEF State
    <2>6. t \in [Fds -> Names \cup {Free, "con", "nul"}] /\ MovedAt(st.handle, t, fd)
      BY <2>4, <2>5 DEF MovedAt
    <2>7. n = [handle |-> t, fn |-> st.fn, data |-> st.data,
               dupc |-> st.dupc, nul |-> fd, props |-> st.props, obj |-> st.obj,
               made |-> st.made, active |-> st.active, cached |-> st.cached,
               disk |-> st.disk, fate |-> st.fate]
      BY <1>1, <2>3, <2>4 DEF State
    <2>8. n \in State
      BY <1>1, <2>6, <2>7 DEF State
    <2>9. SameProps(st, n) /\ n.handle = t /\ n.data = st.data /\ n.dupc = st.dupc
      BY <2>7 DEF SameProps
    <2>10. \A f \in Fds : Has(st, f) => n.handle[f] = st.handle[f]
      BY <2>2, <2>6, <2>9 DEF MovedAt
    <2>11. Sound(n)
      BY <1>1, <2>9, <2>10, SoundElsewhere
    <2> QED
      BY <1>1, <2>8, <2>9, <2>11 DEF Good, Backed
  <1> QED
    BY <1>2, <1>3

\* __FSEXT_alloc_fd hands out a duplicate of NUL.
LEMMA AllocGood ==
  ASSUME NEW st, Good(st), st.fate = "ok", CanAlloc(st), NEW new \in Fds,
         st.handle[new] = Free, NEW b \in BOOLEAN, NEW n, n = alloc_fd(st, new, b)
  PROVE  /\ Good(n) /\ SameProps(st, n) /\ n.handle[new] # Free
         /\ n.data = st.data /\ n.dupc = st.dupc
  <1>1. st.nul \in Fds /\ st.handle[st.nul] # Free
    BY DEF Good, State, CanAlloc, CanDup
  <1>2. PICK h \in Handles : h = st.handle[st.nul]
    BY <1>1 DEF Good, State, Handles
  <1>3. ~Has(st, new)
    BY FreeHasNone
  <1>4. n = WithFn(WithHandle(st, new, h), new, b)
    BY <1>2 DEF alloc_fd, WithFn, WithHandle
  <1>5. /\ Good(n) /\ SameProps(st, n)
        /\ MovedAt(st.handle, n.handle, new) /\ n.handle[new] = h
        /\ n.data = st.data /\ n.dupc = st.dupc /\ n.nul = st.nul
    BY <1>3, <1>4, HandOutGood
  <1> QED
    BY <1>1, <1>2, <1>5

\* One more descriptor of a context that is counted once more.
LEMMA ShareGood ==
  ASSUME NEW st, Good(st), st.fate = "ok", NEW new \in Fds, NEW d \in Contexts,
         NEW k \in Nat, Cardinality(Uses(st.data, d)) + 1 <= k,
         NEW n, n = WithCount(WithData(st, new, d), d, k)
  PROVE  Good(n) /\ SameProps(st, n) /\ n.handle = st.handle
  <1>1. st \in State /\ Sound(st) /\ Backed(st) /\ st.dupc \in [Contexts -> Nat]
    BY DEF Good, State
  <1>2. PICK a : a = WithData(st, new, d)
    OBVIOUS
  <1>3. /\ a \in State /\ SameProps(st, a) /\ a.handle = st.handle
        /\ MovedAt(st.data, a.data, new) /\ a.data[new] = d
        /\ a.fn = st.fn /\ a.dupc = st.dupc /\ a.nul = st.nul
    BY <1>1, <1>2, ContextNumbers, SetData
  <1>4. n = WithCount(a, d, k)
    BY <1>2
  <1>5. /\ n \in State /\ SameProps(a, n) /\ n.handle = a.handle
        /\ n.fn = a.fn /\ n.data = a.data /\ n.nul = a.nul
        /\ n.dupc[d] = k /\ \A e \in Contexts \ {d} : n.dupc[e] = a.dupc[e]
    BY <1>3, <1>4, SetCount, SMTT(60)
  <1>6. SameProps(st, n) /\ n.handle = st.handle
    BY <1>3, <1>5 DEF SameProps
  <1>7. Sound(n)
    BY <1>1, <1>6, SoundElsewhere
  <1>8. ASSUME NEW e \in Contexts
        PROVE  Cardinality(Uses(n.data, e)) <= n.dupc[e]
    <2>1. /\ Cardinality(Uses(st.data, e)) \in Nat /\ st.dupc[e] \in Nat
          /\ Cardinality(Uses(st.data, e)) <= st.dupc[e]
      BY <1>1, UsesCount DEF Backed
    <2>2. MovedAt(st.data, n.data, new) /\ n.data[new] = d
      BY <1>3, <1>5
    <2>3. CASE e = d
      <3>1. Cardinality(Uses(n.data, e)) <= Cardinality(Uses(st.data, e)) + 1
        BY <2>1, <2>2, <2>3, UsesMove
      <3>2. Cardinality(Uses(n.data, e)) \in Nat
        BY UsesCount
      <3> QED
        BY <1>5, <2>1, <2>3, <3>1, <3>2
    <2>4. CASE e # d
      <3>1. Cardinality(Uses(n.data, e)) <= Cardinality(Uses(st.data, e))
        BY <2>1, <2>2, <2>4, UsesMove
      <3>2. Cardinality(Uses(n.data, e)) \in Nat /\ n.dupc[e] = st.dupc[e]
        BY <1>3, <1>5, <2>4, UsesCount
      <3> QED
        BY <2>1, <3>1, <3>2
    <2> QED
      BY <2>3, <2>4
  <1>9. Good(n)
    BY <1>5, <1>7, <1>8 DEF Good, Backed
  <1> QED
    BY <1>6, <1>9

\* F_DUPFD on a descriptor of the device keeps the invariant.
LEMMA InternalDupGood ==
  ASSUME NEW st, Good(st), st.fate = "ok", CanAlloc(st), NEW fd \in Fds,
         NEW new \in Fds, st.handle[new] = Free,
         NEW n, n = internal_dup(st, fd, new)
  PROVE  Good(n)
  <1>1. st.data \in [Fds -> 0..MaxData] /\ st.dupc \in [Contexts -> Nat] /\ Backed(st)
    BY DEF Good, State
  <1>2. PICK a : a = alloc_fd(st, new, TRUE)
    OBVIOUS
  <1>3. /\ Good(a) /\ SameProps(st, a) /\ a.handle[new] # Free
        /\ a.data = st.data /\ a.dupc = st.dupc
    BY <1>2, AllocGood
  <1>4. a.fate = "ok"
    BY <1>3 DEF SameProps
  <1>5. CASE st.data[fd] = NULL
    <2>1. n = _close(a, new)
      BY <1>2, <1>5 DEF internal_dup
    <2> QED
      BY <1>3, <1>4, <2>1, CloseGood
  <1>6. CASE st.data[fd] # NULL
    <2>1. PICK d \in Contexts : d = st.data[fd]
      BY <1>1, <1>6, ContextNumbers
    <2>2. PICK k \in Nat : k = a.dupc[d] + 1
      BY <1>1, <1>3
    <2>3. Cardinality(Uses(a.data, d)) + 1 <= k
      <3>1. Cardinality(Uses(a.data, d)) <= a.dupc[d]
        BY <1>1, <1>3 DEF Backed
      <3>2. Cardinality(Uses(a.data, d)) \in Nat /\ a.dupc[d] \in Nat
        BY <1>1, <1>3, UsesCount
      <3> QED
        BY <2>2, <3>1, <3>2
    <2>4. n = WithCount(WithData(a, new, d), d, k)
      BY <1>2, <1>6, <2>1, <2>2 DEF internal_dup, WithCount, WithData
    <2>5. Good(n) /\ SameProps(a, n) /\ n.handle = a.handle
      BY <1>3, <1>4, <2>3, <2>4, ShareGood
    <2> QED
      BY <2>5
  <1> QED
    BY <1>5, <1>6

\* open of a file, before its properties.
Opened(st, fd, name) == [st EXCEPT !.handle[fd] = name, !.disk = @ \cup {name}]

\* open gives its file a handle that has no properties yet.
LEMMA OpenFileHandle ==
  ASSUME NEW st, Good(st), st.fate = "ok", NEW fd \in Fds, st.handle[fd] = Free,
         NEW name \in Names,
         NEW a, a = Opened(st, fd, name)
  PROVE  /\ Good(a) /\ SameProps(st, a) /\ a.fate = "ok" /\ ~Has(a, fd)
         /\ a.handle[fd] = name /\ name # Free
  <1>1. st \in State /\ Sound(st) /\ Backed(st)
    BY DEF Good
  <1>2. ~Has(st, fd)
    BY FreeHasNone
  <1>3. PICK t : t = [st.handle EXCEPT ![fd] = name]
    OBVIOUS
  <1>4. st.handle \in [Fds -> Names \cup {Free, "con", "nul"}]
    BY <1>1 DEF State
  <1>5. /\ t \in [Fds -> Names \cup {Free, "con", "nul"}]
        /\ MovedAt(st.handle, t, fd) /\ t[fd] = name
    BY <1>3, <1>4 DEF MovedAt
  <1>6. PICK di : di = st.disk \cup {name}
    OBVIOUS
  <1>7. di \in SUBSET Names
    BY <1>1, <1>6 DEF State
  <1>8. a = [handle |-> t, fn |-> st.fn, data |-> st.data,
              dupc |-> st.dupc, nul |-> st.nul, props |-> st.props, obj |-> st.obj,
              made |-> st.made, active |-> st.active, cached |-> st.cached,
              disk |-> di, fate |-> st.fate]
    BY <1>1, <1>3, <1>6 DEF State, Opened
  <1>9. a \in State
    BY <1>1, <1>5, <1>7, <1>8 DEF State
  <1>10. SameProps(st, a) /\ a.handle = t /\ a.data = st.data /\ a.dupc = st.dupc
    BY <1>6, <1>8 DEF SameProps
  <1>11. \A f \in Fds : Has(st, f) => a.handle[f] = st.handle[f]
    BY <1>2, <1>5, <1>10 DEF MovedAt
  <1>12. Sound(a)
    BY <1>1, <1>10, <1>11, SoundElsewhere
  <1>13. Good(a) /\ a.fate = "ok"
    BY <1>1, <1>9, <1>10, <1>12 DEF Good, Backed, SameProps
  <1>14. a.handle[fd] = name /\ name # Free
    BY <1>5, <1>10, FdAssumption DEF Free
  <1> QED
    BY <1>2, <1>10, <1>13, <1>14 DEF SameProps, Has

\* The file is open on the handle before it gets its properties.
LEMMA OpenFileGood ==
  ASSUME NEW st, Good(st), st.fate = "ok", FreeFds(st) # {},
         NEW name \in Names, NEW temp \in BOOLEAN, NEW oom \in BOOLEAN,
         NEW n, n = OpenFile(st, name, temp, oom)
  PROVE  Good(n) /\ n.fate = "ok"
  <1>1. PICK fd \in Fds : fd = Lowest(FreeFds(st)) /\ st.handle[fd] = Free
    BY LowestFree
  <1>2. PICK a : a = Opened(st, fd, name)
    OBVIOUS
  <1>3. n = set_fd_properties(a, fd, name, temp, oom)
    BY <1>1, <1>2 DEF OpenFile, Opened
  <1>4. /\ Good(a) /\ a.fate = "ok"
        /\ a.handle[fd] = name /\ name # Free
    BY <1>1, <1>2, OpenFileHandle
  <1>5. name \in Names \cup {NoName, Zero, Dir}
    OBVIOUS
  <1> QED
    BY <1>3, <1>4, <1>5, SetPropsGood

\* What is no ordinary file has no name of one.
LEMMA NotNames ==
  NoName \notin Names /\ Zero \notin Names /\ Dir \notin Names
  BY FdAssumption DEF NoName, Zero, Dir

\* The device's open handler in n, after it has given descriptor new its context in b.
DeviceOpened(st, new, b, oom, n) ==
  /\ Good(b) /\ SameProps(st, b) /\ b.fate = "ok"
  /\ b.handle[new] # Free /\ ~Has(b, new)
  /\ n = b \/ n = set_fd_properties(b, new, Zero, FALSE, oom)

\* The device's open handler hands out a handle, and counts a new context once.
LEMMA DeviceHandle ==
  ASSUME NEW st, Good(st), st.fate = "ok", CanAlloc(st),
         NEW oom \in BOOLEAN, NEW oomdata \in BOOLEAN,
         NEW n, n = OpenDevice(st, oom, oomdata)
  PROVE  \E new \in Fds : \E b : DeviceOpened(st, new, b, oom, n)
  <1>1. Backed(st) /\ st.dupc \in [Contexts -> Nat]
    BY DEF Good, State
  <1>2. PICK new \in Fds : new = Lowest(FreeFds(st)) /\ st.handle[new] = Free
    BY LowestFree DEF CanAlloc, CanDup
  <1>3. PICK a : a = alloc_fd(st, new, TRUE)
    OBVIOUS
  <1>4. /\ Good(a) /\ SameProps(st, a) /\ a.handle[new] # Free
        /\ a.data = st.data /\ a.dupc = st.dupc
    <2>1. st.handle[new] = Free
      BY <1>2
    <2> QED
      BY <1>3, <2>1, AllocGood
  <1>5. ~Has(st, new)
    BY <1>2, FreeHasNone
  <1>6. PICK avail : avail = {d \in Contexts : st.dupc[d] = 0}
    OBVIOUS
  <1>7. CASE oomdata \/ avail = {}
    <2>1. n = a
      BY <1>2, <1>3, <1>6, <1>7 DEF OpenDevice
    <2>2. a.fate = "ok" /\ ~Has(a, new)
      BY <1>4, <1>5 DEF SameProps, Has
    <2> QED
      BY <1>4, <2>1, <2>2 DEF DeviceOpened
  <1>8. CASE ~oomdata /\ avail # {}
    <2>1. PICK d \in Contexts : d = Lowest(avail) /\ st.dupc[d] = 0
      <3>1. avail \in SUBSET Nat
        BY <1>6, FdAssumption DEF Contexts
      <3>2. Lowest(avail) \in avail
        BY <1>8, <3>1, LowestIn
      <3> QED
        BY <1>6, <3>2
    <2>2. PICK b : b = WithCount(WithData(a, new, d), d, 1)
      OBVIOUS
    <2>3. Cardinality(Uses(a.data, d)) + 1 <= 1
      <3>1. Cardinality(Uses(a.data, d)) <= 0
        BY <1>1, <1>4, <2>1 DEF Backed
      <3>2. Cardinality(Uses(a.data, d)) \in Nat
        BY UsesCount
      <3> QED
        BY <3>1, <3>2
    <2>4. a.fate = "ok"
      BY <1>4 DEF SameProps
    <2>5. Good(b) /\ SameProps(a, b) /\ b.handle = a.handle
      <3>1. 1 \in Nat
        OBVIOUS
      <3> QED
        BY <1>4, <2>2, <2>3, <2>4, <3>1, ShareGood
    <2>6. n = set_fd_properties(b, new, Zero, FALSE, oom)
      BY <1>2, <1>3, <1>6, <1>8, <2>1, <2>2 DEF OpenDevice, WithCount, WithData
    <2>7. b.fate = "ok" /\ b.handle[new] # Free /\ SameProps(st, b)
      BY <1>4, <2>4, <2>5 DEF SameProps
    <2>8. ~Has(b, new)
      BY <1>5, <2>7 DEF SameProps, Has
    <2> QED
      BY <2>5, <2>6, <2>7, <2>8 DEF DeviceOpened
  <1> QED
    BY <1>7, <1>8

\* The device's open handler, with its context counted once.
LEMMA OpenDeviceGood ==
  ASSUME NEW st, Good(st), st.fate = "ok", CanAlloc(st),
         NEW oom \in BOOLEAN, NEW oomdata \in BOOLEAN,
         NEW n, n = OpenDevice(st, oom, oomdata)
  PROVE  Good(n)
  <1>1. PICK new \in Fds : \E b : DeviceOpened(st, new, b, oom, n)
    BY DeviceHandle
  <1>2. PICK b : DeviceOpened(st, new, b, oom, n)
    BY <1>1
  <1>3. Zero \in Names \cup {NoName, Zero, Dir} /\ Zero \notin Names /\ FALSE \in BOOLEAN
    BY NotNames
  <1>4. CASE n = b
    BY <1>2, <1>4 DEF DeviceOpened
  <1>5. CASE n = set_fd_properties(b, new, Zero, FALSE, oom)
    BY <1>2, <1>3, <1>5, SetPropsGood DEF DeviceOpened
  <1> QED
    BY <1>2, <1>4, <1>5 DEF DeviceOpened

----------------------------------------------------------------------------
(* The list that find_eq_filename walks, turn by turn.                     *)

\* The walk starts at the head and follows the links up to the first NULL.
LEMMA VisitedTurns ==
  ASSUME NEW st \in State
  PROVE  /\ Visited(st)[0] = st.active
         /\ \A i \in 1..MaxObjs :
              Visited(st)[i] = IF Visited(st)[i - 1] = NULL THEN NULL
                               ELSE st.obj[Visited(st)[i - 1]].next
         /\ \A i \in 0..MaxObjs : Visited(st)[i] \in 0..MaxObjs
  <1> DEFINE n == MaxObjs
             a == st.active
             R == 0..MaxObjs
             turn(r) == IF r = NULL THEN NULL ELSE st.obj[r].next
             Is(g) == g = [i \in 0..n |-> IF i = 0 THEN a ELSE turn(g[i - 1])]
  <1>1. n \in Nat /\ a \in R
    BY FdAssumption DEF State
  <1>2. \A r \in R : turn(r) \in R
    <2>1. st.obj \in [Objs -> Obj]
      BY DEF State
    <2>2. \A r \in R \ {NULL} : st.obj[r].next \in R
      BY <2>1, SomeNumbers DEF Obj
    <2> QED
      BY <2>2, SomeNumbers
  <1>3. PICK f : f = [q \in R \X (1..n) |-> turn(q[1])]
    OBVIOUS
  <1> HIDE DEF turn
  <1>4. \A r \in R, i \in 1..n : f[<<r, i>>] = turn(r)
    BY <1>3
  <1>5. PICK h : LoopOf(h, n, a, f) /\ \A i \in 0..n : h[i] \in R
    <2>1. \A r \in R, i \in 1..n : f[<<r, i>>] \in R
      BY <1>2, <1>4, Zenon
    <2> HIDE DEF n, a, R
    <2> QED
      BY <1>1, <2>1, RunExists, Zenon
  <1>6. Is(h)
    <2>1. ASSUME NEW i \in 0..n
          PROVE  (IF i = 0 THEN a ELSE f[<<h[i - 1], i>>])
                 = (IF i = 0 THEN a ELSE turn(h[i - 1]))
      <3>1. CASE i = 0
        BY <3>1, Zenon
      <3>2. CASE i # 0
        <4>1. i \in 1..n /\ i - 1 \in 0..n
          BY <1>1, <3>2
        <4>2. h[i - 1] \in R
          BY <1>5, <4>1
        <4> HIDE DEF n, a, R
        <4> QED
          BY <1>4, <4>1, <4>2, <3>2, Zenon
      <3> QED
        BY <3>1, <3>2
    <2> HIDE DEF n, a, R
    <2>2. h = [i \in 0..n |-> IF i = 0 THEN a ELSE turn(h[i - 1])]
      BY <1>5, <2>1, Zenon DEF LoopOf
    <2> QED
      BY <2>2
  <1> DEFINE g == CHOOSE g : Is(g)
  <1>7. Visited(st) = g
    BY DEF Visited, turn
  <1>8. Is(g)
    BY <1>6, Zenon
  <1> HIDE DEF g
  <1>9. \A i \in 0..n : g[i] = IF i = 0 THEN a ELSE turn(g[i - 1])
    <2> HIDE DEF n, a
    <2> QED
      BY <1>8, Zenon
  <1>10. g[0] = a /\ \A i \in 1..n : g[i] = turn(g[i - 1])
    BY <1>1, <1>9
  <1>11. \A i \in 0..n : g[i] \in R
    <2> DEFINE S == {i \in 0..n : g[i] \in R}
    <2>1. 0 \in S
      BY <1>1, <1>10
    <2>2. \A i \in 1..n : i - 1 \in S => i \in S
      BY <1>2, <1>10
    <2> HIDE DEF S
    <2>3. \A i \in 0..n : i \in S
      BY <1>1, <2>1, <2>2, TurnByTurn
    <2> QED
      BY <2>3 DEF S
  <1> QED
    BY <1>7, <1>10, <1>11 DEF turn

\* Behind the end of the list the walk stays there.
LEMMA VisitedEnds ==
  ASSUME NEW st \in State, NEW i \in 0..MaxObjs, Visited(st)[i] = NULL
  PROVE  \A j \in i..MaxObjs : Visited(st)[j] = NULL
  <1> DEFINE S == {j \in 0..MaxObjs : j < i \/ Visited(st)[j] = NULL}
  <1>1. MaxObjs \in Nat
    BY FdAssumption
  <1>2. 0 \in S
    BY <1>1
  <1>3. \A j \in 1..MaxObjs : j - 1 \in S => j \in S
    BY <1>1, VisitedTurns
  <1> HIDE DEF S
  <1>4. \A j \in 0..MaxObjs : j \in S
    BY <1>1, <1>2, <1>3, TurnByTurn
  <1> QED
    BY <1>1, <1>4 DEF S

\* What ListIntact says, of any state.
Listed(st) ==
  /\ \E i \in 0..MaxObjs : Visited(st)[i] = NULL
  /\ {Visited(st)[i] : i \in 0..MaxObjs} \ {NULL} = {o \in Objs : Uses(st.props, o) # {}}

\* The walk depends on the head and the links only.
LEMMA ListedSame ==
  ASSUME NEW st \in State, NEW n \in State, n.active = st.active, n.props = st.props,
         \A p \in Objs : n.obj[p].next = st.obj[p].next, Listed(st)
  PROVE  Listed(n)
  <1> DEFINE S == {i \in 0..MaxObjs : Visited(n)[i] = Visited(st)[i]}
  <1>1. MaxObjs \in Nat
    BY FdAssumption
  <1>2. 0 \in S
    BY <1>1, VisitedTurns
  <1>3. ASSUME NEW i \in 1..MaxObjs, i - 1 \in S
        PROVE  i \in S
    <2>1. i - 1 \in 0..MaxObjs /\ i \in 0..MaxObjs
      BY <1>1
    <2>2. PICK r \in 0..MaxObjs : r = Visited(st)[i - 1] /\ r = Visited(n)[i - 1]
      BY <1>3, <2>1, VisitedTurns
    <2>3. /\ Visited(st)[i] = IF r = NULL THEN NULL ELSE st.obj[r].next
          /\ Visited(n)[i] = IF r = NULL THEN NULL ELSE n.obj[r].next
      BY <2>2, VisitedTurns
    <2>4. r # NULL => n.obj[r].next = st.obj[r].next
      BY SomeNumbers
    <2> QED
      BY <2>1, <2>3, <2>4
  <1> HIDE DEF S
  <1>4. \A i \in 0..MaxObjs : i \in S
    BY <1>1, <1>2, <1>3, TurnByTurn
  <1>5. \A i \in 0..MaxObjs : Visited(n)[i] = Visited(st)[i]
    BY <1>4 DEF S
  <1> QED
    BY <1>5 DEF Listed

\* What find_eq_filename tells when the list is intact: another object of the
\* same name that a descriptor has, or that there is none.
LEMMA FindsUser ==
  ASSUME NEW st \in State, Listed(st), NEW o \in Objs
  PROVE  /\ find_eq_filename(st, o) = "found" =>
              /\ Found(st, o) \in Objs \ {o}
              /\ st.obj[Found(st, o)].name = st.obj[o].name
              /\ Uses(st.props, Found(st, o)) # {}
         /\ find_eq_filename(st, o) = "none" =>
              \A p \in Objs \ {o} : Uses(st.props, p) # {} =>
                st.obj[p].name # st.obj[o].name
  <1>1. PICK ends : ends = {i \in 0..MaxObjs : EndsAt(st, o, Visited(st)[i])}
    OBVIOUS
  <1>2. MaxObjs \in Nat /\ ends \in SUBSET Nat /\ ends \subseteq 0..MaxObjs
    BY <1>1, FdAssumption
  <1>3. ends # {}
    BY <1>1 DEF Listed, EndsAt
  <1>4. PICK e \in ends : e = Lowest(ends) /\ \A i \in ends : e <= i
    BY <1>2, <1>3, LowestIn
  <1>5. PICK p \in 0..MaxObjs : p = Visited(st)[e]
    BY <1>2, VisitedTurns
  <1>6. EndsAt(st, o, p)
    BY <1>1, <1>4, <1>5
  <1>7. find_eq_filename(st, o) = IF p = NULL THEN "none"
                                  ELSE IF st.obj[p].name = NoName THEN "crash" ELSE "found"
    BY <1>1, <1>3, <1>4, <1>5, Zenon DEF find_eq_filename
  <1>8. Found(st, o) = p
    BY <1>1, <1>4, <1>5, Zenon DEF Found
  <1>9. CASE p = NULL
    <2>1. find_eq_filename(st, o) = "none"
      BY <1>7, <1>9
    <2>2. ASSUME NEW q \in Objs \ {o}, Uses(st.props, q) # {}, st.obj[q].name = st.obj[o].name
          PROVE  FALSE
      <3>1. PICK i \in 0..MaxObjs : Visited(st)[i] = q
        BY <2>2 DEF Listed
      <3>2. i \in ends
        BY <1>1, <2>2, <3>1 DEF EndsAt
      <3>3. i \in e..MaxObjs /\ e \in 0..MaxObjs
        BY <1>2, <1>4, <3>2
      <3>4. Visited(st)[i] = NULL
        BY <1>5, <1>9, <3>3, VisitedEnds
      <3> QED
        BY <3>1, <3>4, SomeNumbers
    <2> QED
      BY <2>1, <2>2
  <1>10. CASE p # NULL
    <2>1. find_eq_filename(st, o) # "none"
      BY <1>7, <1>10
    <2>2. ASSUME find_eq_filename(st, o) = "found"
          PROVE  p \in Objs \ {o} /\ st.obj[p].name = st.obj[o].name /\ Uses(st.props, p) # {}
      <3>1. st.obj[p].name # NoName
        BY <1>7, <2>2
      <3>2. p # o /\ st.obj[p].name = st.obj[o].name
        BY <1>6, <1>10, <3>1 DEF EndsAt
      <3>3. e \in 0..MaxObjs
        BY <1>2, <1>4
      <3>4. p \in {Visited(st)[i] : i \in 0..MaxObjs} \ {NULL}
        BY <1>5, <1>10, <3>3
      <3>5. p \in Objs /\ Uses(st.props, p) # {}
        BY <3>4 DEF Listed
      <3> QED
        BY <3>2, <3>5
    <2> QED
      BY <1>8, <2>1, <2>2
  <1> QED
    BY <1>9, <1>10

----------------------------------------------------------------------------
(* Temporary files: who has to delete them, and when they go.              *)

\* A descriptor of the file with this name has to delete it.
Duty(st, name) == \E fd \in Users(st, name) : st.obj[st.props[fd]].temp

\* What TempGoesWithLast says of a step from st to n, for a step of any kind.
TempKept(st, n) ==
  \A name \in st.disk : /\ name \notin n.disk => Users(n, name) = {}
                        /\ Duty(st, name) /\ name \in n.disk => Duty(n, name)

\* No descriptor loses its properties, and no file goes.
Grows(st, n) ==
  /\ st.disk \subseteq n.disk
  /\ \A f \in Fds : Has(st, f) =>
       /\ n.props[f] = st.props[f]
       /\ n.obj[st.props[f]].name = st.obj[st.props[f]].name
       /\ st.obj[st.props[f]].temp => n.obj[st.props[f]].temp

\* Whatever is closed is the file of descriptor fd; and if the list is intact,
\* it goes with its last user.
Loses(st, fd, n) ==
  /\ \A name \in st.disk : fd \notin Users(st, name) =>
       name \in n.disk /\ (Duty(st, name) => Duty(n, name))
  /\ Listed(st) => TempKept(st, n)

\* A step that only adds keeps files and duties.
LEMMA GrowsKept ==
  ASSUME NEW st, NEW n, Grows(st, n)
  PROVE  /\ \A name \in st.disk : name \in n.disk
         /\ \A name : Duty(st, name) => Duty(n, name)
         /\ TempKept(st, n)
  <1>1. ASSUME NEW name, Duty(st, name)
        PROVE  Duty(n, name)
    <2>1. PICK f \in Users(st, name) : st.obj[st.props[f]].temp
      BY <1>1 DEF Duty
    <2>2. f \in Users(n, name) /\ n.obj[n.props[f]].temp
      BY <2>1 DEF Users, Grows, Has
    <2> QED
      BY <2>2 DEF Duty
  <1>2. \A name \in st.disk : name \in n.disk
    BY DEF Grows
  <1> QED
    BY <1>1, <1>2 DEF TempKept

\* Two such steps are one.
LEMMA GrowsTwice ==
  ASSUME NEW st, NEW a, NEW n, Grows(st, a), Grows(a, n)
  PROVE  Grows(st, n)
  <1>1. st.disk \subseteq n.disk
    BY DEF Grows
  <1>2. ASSUME NEW f \in Fds, Has(st, f)
        PROVE  /\ n.props[f] = st.props[f]
               /\ n.obj[st.props[f]].name = st.obj[st.props[f]].name
               /\ st.obj[st.props[f]].temp => n.obj[st.props[f]].temp
    <2>1. /\ a.props[f] = st.props[f] /\ Has(a, f)
          /\ a.obj[st.props[f]].name = st.obj[st.props[f]].name
          /\ st.obj[st.props[f]].temp => a.obj[st.props[f]].temp
      BY <1>2 DEF Grows, Has
    <2>2. /\ n.props[f] = a.props[f]
          /\ n.obj[a.props[f]].name = a.obj[a.props[f]].name
          /\ a.obj[a.props[f]].temp => n.obj[a.props[f]].temp
      BY <2>1 DEF Grows
    <2> QED
      BY <2>1, <2>2
  <1> QED
    BY <1>1, <1>2 DEF Grows

\* Handles and contexts have nothing to do with it.
LEMMA SamePropsGrows ==
  ASSUME NEW st, NEW n, SameProps(st, n)
  PROVE  Grows(st, n)
  BY DEF SameProps, Grows

\* What a state loses, one that differs in handles and contexts loses too.
LEMMA SamePropsLoses ==
  ASSUME NEW st \in State, NEW a \in State, SameProps(st, a), NEW fd, NEW n, Loses(a, fd, n)
  PROVE  Loses(st, fd, n)
  <1>1. a.props = st.props /\ a.obj = st.obj /\ a.active = st.active /\ st.disk \subseteq a.disk
    BY DEF SameProps
  <1>2. \A name : Users(a, name) = Users(st, name)
    BY <1>1 DEF Users, Has
  <1>3. \A name : Duty(a, name) <=> Duty(st, name)
    BY <1>1, <1>2 DEF Duty
  <1>4. Listed(st) => Listed(a)
    BY <1>1, ListedSame
  <1>5. ASSUME TempKept(a, n)
        PROVE  TempKept(st, n)
    BY <1>1, <1>3, <1>5 DEF TempKept
  <1>6. \A name \in st.disk : fd \notin Users(st, name) =>
          name \in n.disk /\ (Duty(st, name) => Duty(n, name))
    BY <1>1, <1>2, <1>3 DEF Loses
  <1> QED
    BY <1>4, <1>5, <1>6 DEF Loses

\* The new object of set_fd_properties was nobody's.
LEMMA SetPropsGrows ==
  ASSUME NEW st \in State, Sound(st), NEW fd \in Fds, ~Has(st, fd),
         NEW name \in Names \cup {NoName, Zero, Dir},
         NEW temp \in BOOLEAN, NEW oom \in BOOLEAN,
         NEW n, n = set_fd_properties(st, fd, name, temp, oom)
  PROVE  Grows(st, n) /\ n.handle = st.handle
  <1>1. PICK o : o = alloc_fd_properties(st, oom)
    OBVIOUS
  <1>2. CASE o = NULL
    <2>1. n = st
      BY <1>1, <1>2 DEF set_fd_properties
    <2> QED
      BY <2>1 DEF Grows
  <1>3. CASE o # NULL
    <2>1. PICK t : t = TakeObj(st, o)
      OBVIOUS
    <2>2. PICK a : a = Attach(t, fd, o, name)
      OBVIOUS
    <2>3. n = open_fd(a, o, temp)
      BY <1>1, <1>3, <2>1, <2>2 DEF set_fd_properties
    <2>4. o \in Objs /\ t \in State /\ TakenAs(st, o, t)
      BY <1>1, <1>3, <2>1, TakeObject
    <2>5. a \in State /\ AttachedAs(t, fd, o, name, a)
      BY <2>2, <2>4, AttachObject
    <2>6. PICK b \in BOOLEAN : b = (temp /\ a.obj[o].name # NoName)
      OBVIOUS
    <2>7. n = WithTemp(a, o, b)
      BY <2>3, <2>6 DEF open_fd, WithTemp
    <2>8. /\ Kept(a, n) /\ SameObjs(a, n)
          /\ \A p \in Objs : n.obj[p].temp = IF p = o THEN b ELSE a.obj[p].temp
      BY <2>5, <2>7, SetTemp
    <2>9. n.disk = st.disk /\ n.handle = st.handle
      BY <2>4, <2>5, <2>8 DEF TakenAs, AttachedAs, Kept, SameTables
    <2>10. \A f \in Fds \ {fd} : n.props[f] = st.props[f]
      BY <2>4, <2>5, <2>8 DEF TakenAs, AttachedAs, Kept, MovedAt
    <2>11. \A p \in Objs \ {o} : /\ n.obj[p].name = st.obj[p].name
                                 /\ n.obj[p].temp = st.obj[p].temp
      BY <2>4, <2>5, <2>8 DEF TakenAs, AttachedAs, SameObjs, SameTemps
    <2>12. \A f \in Fds : Has(st, f) => f # fd /\ st.props[f] \in Objs \ {o}
      BY <2>4, SomeNumbers DEF State, Has, TakenAs, Uses
    <2> QED
      BY <2>9, <2>10, <2>11, <2>12 DEF Grows
  <1> QED
    BY <1>2, <1>3

\* A copied entry has the file of the original.
LEMMA DupPropsGrows ==
  ASSUME NEW st \in State, Sound(st), NEW from \in Fds, NEW to \in Fds, ~Has(st, to),
         NEW n, n = dup_fd_properties(st, from, to)
  PROVE  /\ Grows(st, n)
         /\ n.disk = st.disk
         /\ \A name : Users(st, name) = {} => Users(n, name) = {}
  <1>1. CASE ~Has(st, from)
    <2>1. n = st
      BY <1>1 DEF dup_fd_properties
    <2> QED
      BY <2>1 DEF Grows
  <1>2. CASE Has(st, from)
    <2>1. st.props \in [Fds -> 0..MaxObjs] /\ st.obj \in [Objs -> Obj]
      BY DEF State
    <2>2. PICK o \in Objs : o = st.props[from]
      BY <1>2, <2>1, SomeNumbers DEF Has
    <2>3. PICK pr : pr = [st.props EXCEPT ![to] = o]
      OBVIOUS
    <2>4. PICK ob : ob = [st.obj EXCEPT ![o].ref = @ + 1]
      OBVIOUS
    <2>5. n = [st EXCEPT !.props = pr, !.obj = ob]
      BY <1>2, <2>2, <2>3, <2>4 DEF dup_fd_properties
    <2>6. n.props = pr /\ n.obj = ob /\ n.disk = st.disk
      BY <2>5 DEF State
    <2>7. \A f \in Fds : pr[f] = IF f = to THEN o ELSE st.props[f]
      BY <2>1, <2>3
    <2>8. \A p \in Objs : ob[p].name = st.obj[p].name /\ ob[p].temp = st.obj[p].temp
      BY <2>1, <2>4 DEF Obj
    <2>9. \A f \in Fds : Has(st, f) => f # to /\ st.props[f] \in Objs
      BY <2>1, SomeNumbers DEF Has
    <2>10. Grows(st, n)
      BY <2>6, <2>7, <2>8, <2>9 DEF Grows
    <2>11. ASSUME NEW name, Users(st, name) = {}, NEW f \in Users(n, name)
           PROVE  FALSE
      <3>1. f \in Fds /\ Has(n, f) /\ n.obj[n.props[f]].name = name
        BY <2>11 DEF Users
      <3>2. CASE f = to
        <4>1. st.obj[st.props[from]].name = name
          BY <2>2, <2>6, <2>7, <2>8, <3>1, <3>2
        <4> QED
          BY <1>2, <2>11, <4>1 DEF Users
      <3>3. CASE f # to
        <4>1. n.props[f] = st.props[f] /\ Has(st, f)
          BY <2>6, <2>7, <3>1, <3>3 DEF Has
        <4>2. st.obj[st.props[f]].name = name
          BY <2>6, <2>8, <2>9, <3>1, <4>1
        <4> QED
          BY <2>11, <3>1, <4>1, <4>2 DEF Users
      <3> QED
        BY <3>2, <3>3
    <2> QED
      BY <2>6, <2>10, <2>11
  <1> QED
    BY <1>1, <1>2

\* Who is left to delete the file of o, when o is closed while the list is intact.
Succeeded(st, o, n) ==
  IF st.obj[o].name \in n.disk
  THEN \E p \in Objs \ {o} : /\ Uses(st.props, p) # {}
                             /\ st.obj[p].name = st.obj[o].name
                             /\ n.obj[p].temp
  ELSE \A p \in Objs \ {o} : Uses(st.props, p) # {} => st.obj[p].name # st.obj[o].name

\* Closing an object deletes its file or passes the duty on.
ClosedFile(st, o, n) ==
  /\ st.disk \ {st.obj[o].name} \subseteq n.disk
  /\ \A p \in Objs \ {o} : st.obj[p].temp => n.obj[p].temp
  /\ ~st.obj[o].temp => n.disk = st.disk
  /\ Listed(st) /\ st.obj[o].temp /\ st.obj[o].name \in st.disk => Succeeded(st, o, n)

\* close_fd of an object, when the program survives it.
LEMMA CloseFile ==
  ASSUME NEW st \in State, NEW o \in Objs, NEW n, n = close_fd(st, o), n.fate = "ok"
  PROVE  ClosedFile(st, o, n)
  <1>1. CASE ~st.obj[o].temp
    <2>1. n = st
      BY <1>1 DEF close_fd
    <2> QED
      BY <1>1, <2>1 DEF ClosedFile
  <1>2. CASE st.obj[o].temp /\ find_eq_filename(st, o) = "found"
    <2>1. n = WithTemp(st, Found(st, o), TRUE)
      BY <1>2 DEF close_fd, WithTemp
    <2>2. /\ Kept(st, n)
          /\ \A p \in Objs : n.obj[p].temp = IF p = Found(st, o) THEN TRUE ELSE st.obj[p].temp
      <3>1. PICK q : q = Found(st, o)
        OBVIOUS
      <3>2. PICK b \in BOOLEAN : b = TRUE
        OBVIOUS
      <3>3. n = WithTemp(st, q, b)
        BY <2>1, <3>1, <3>2
      <3>4. /\ n \in State /\ Kept(st, n) /\ SameObjs(st, n)
            /\ \A p \in Objs : n.obj[p].temp = IF p = q THEN b ELSE st.obj[p].temp
        BY <3>3, SetTemp
      <3> QED
        BY <3>1, <3>2, <3>4
    <2>3. n.disk = st.disk
      BY <2>2 DEF Kept
    <2>4. \A p \in Objs : st.obj[p].temp => n.obj[p].temp
      BY <2>2
    <2>5. ASSUME Listed(st), st.obj[o].name \in n.disk
          PROVE  \E p \in Objs \ {o} : /\ Uses(st.props, p) # {}
                                       /\ st.obj[p].name = st.obj[o].name
                                       /\ n.obj[p].temp
      BY <1>2, <2>2, <2>5, FindsUser
    <2> QED
      BY <1>2, <2>3, <2>4, <2>5 DEF ClosedFile, Succeeded
  <1>3. CASE st.obj[o].temp /\ find_eq_filename(st, o) = "none"
    <2>1. n = [st EXCEPT !.disk = @ \ {st.obj[o].name}]
      BY <1>3 DEF close_fd
    <2>2. n.disk = st.disk \ {st.obj[o].name} /\ n.obj = st.obj
      BY <2>1 DEF State
    <2>3. Listed(st) => \A p \in Objs \ {o} : Uses(st.props, p) # {} =>
                          st.obj[p].name # st.obj[o].name
      BY <1>3, FindsUser
    <2> QED
      BY <1>3, <2>2, <2>3 DEF ClosedFile, Succeeded
  <1>4. CASE st.obj[o].temp /\ find_eq_filename(st, o) \notin {"found", "none"}
    <2>1. n = [st EXCEPT !.fate = find_eq_filename(st, o)]
      BY <1>4 DEF close_fd
    <2>2. n.fate = find_eq_filename(st, o)
      BY <2>1 DEF State
    <2>3. find_eq_filename(st, o) \in {"hang", "crash"}
      BY <1>4 DEF find_eq_filename
    <2> QED
      BY <2>2, <2>3
  <1> QED
    BY <1>1, <1>2, <1>3, <1>4

\* What becomes of files and duties when object o loses a reference.
ClearedFile(st, o, n) ==
  IF st.obj[o].ref = 1 THEN ClosedFile(st, o, n)
  ELSE n.disk = st.disk /\ SameTemps(st, n)

\* The file is closed with the object's last reference, and only then.
LEMMA ClearedLast ==
  ASSUME NEW st \in State, NEW o \in Objs, st.obj[o].ref \in 1..NFD,
         NEW n, n = cleared_state(st, o), n.fate = "ok"
  PROVE  ClearedFile(st, o, n)
  <1>1. PICK r \in 0..NFD : r = st.obj[o].ref - 1
    BY FdAssumption
  <1>2. PICK dec : dec = WithRef(st, o, r)
    OBVIOUS
  <1>3. /\ dec \in State /\ Kept(st, dec)
        /\ dec.obj[o].ref = r /\ dec.obj[o].name = st.obj[o].name
        /\ dec.obj[o].temp = st.obj[o].temp /\ dec.obj[o].next = st.obj[o].next
        /\ OthersKept(st, dec, o)
    BY <1>2, SetRef
  <1>4. n = IF dec.obj[o].ref = 0 THEN LastClosed(close_fd(dec, o), o) ELSE dec
    <2>1. dec = uncounted(st, o)
      BY <1>1, <1>2 DEF WithRef, uncounted
    <2> QED
      BY <2>1 DEF cleared_state
  <1>5. CASE r # 0
    <2>1. n = dec
      BY <1>3, <1>4, <1>5
    <2>2. n.disk = st.disk /\ SameTemps(st, n) /\ st.obj[o].ref # 1
      BY <1>1, <1>3, <1>5, <2>1 DEF Kept, OthersKept, SameTemps
    <2> QED
      BY <2>2 DEF ClearedFile
  <1>6. CASE r = 0
    <2>1. PICK c : c = close_fd(dec, o)
      OBVIOUS
    <2>2. c \in State
      BY <1>3, <2>1, CloseObject
    <2>3. n = LastClosed(c, o)
      BY <1>3, <1>4, <1>6, <2>1
    <2>4. c.fate = "ok"
      BY <2>3 DEF LastClosed
    <2>5. ClosedFile(dec, o, c)
      BY <1>3, <2>1, <2>4, CloseFile
    <2>6. PICK e : e = WithName(c, o, NoName)
      OBVIOUS
    <2>7. /\ e \in State /\ Kept(c, e) /\ OthersKept(c, e, o)
      <3>1. /\ e \in State /\ Kept(c, e)
            /\ e.obj[o].name = NoName /\ e.obj[o].ref = c.obj[o].ref
            /\ OthersKept(c, e, o)
        BY <2>2, <2>6, SetName
      <3> QED
        BY <3>1
    <2>8. n = free_fd_properties(e, o)
      BY <2>3, <2>4, <2>6 DEF LastClosed, WithName
    <2>9. SameTemps(e, n) /\ n.disk = e.disk
      BY <2>7, <2>8, FreeObject
    <2>10. n.disk = c.disk /\ \A p \in Objs \ {o} : n.obj[p].temp = c.obj[p].temp
      BY <2>7, <2>9 DEF Kept, OthersKept, SameTemps
    <2>11. /\ dec.disk = st.disk /\ dec.props = st.props
           /\ \A p \in Objs : /\ dec.obj[p].name = st.obj[p].name
                              /\ dec.obj[p].temp = st.obj[p].temp
                              /\ dec.obj[p].next = st.obj[p].next
      BY <1>3 DEF Kept, OthersKept
    <2>12. Listed(st) => Listed(dec)
      BY <1>3, <2>11, ListedSame DEF Kept
    <2>13. Succeeded(dec, o, c) => Succeeded(st, o, n)
      BY <2>10, <2>11 DEF Succeeded
    <2>14. ClosedFile(st, o, n)
      BY <2>5, <2>10, <2>11, <2>12, <2>13 DEF ClosedFile
    <2> QED
      BY <1>1, <1>6, <2>14 DEF ClearedFile
  <1> QED
    BY <1>5, <1>6

\* Giving up properties loses at most the file they are about.
LEMMA ClearLoses ==
  ASSUME NEW st \in State, st.fate = "ok", NEW fd \in Fds, Has(st, fd), Counted(st),
         NEW n, n = clear_fd_properties(st, fd), n.fate = "ok"
  PROVE  Loses(st, fd, n)
  <1>1. st.props \in [Fds -> 0..MaxObjs] /\ st.obj \in [Objs -> Obj]
    BY DEF State
  <1>2. PICK o \in Objs : o = st.props[fd]
    BY <1>1, SomeNumbers DEF Has
  <1>3. fd \in Uses(st.props, o)
    BY <1>2 DEF Uses
  <1>4. /\ Cardinality(Uses(st.props, o)) \in 1..NFD
        /\ st.obj[o].ref = Cardinality(Uses(st.props, o))
    BY <1>3, UsesCount DEF Counted
  <1>5. PICK c : c = cleared_state(st, o)
    OBVIOUS
  <1>6. c \in State /\ ClearedAs(st, o, st.obj[o].ref - 1, c)
    BY <1>2, <1>4, <1>5, Cleared
  <1>7. n = WithProps(c, fd, IF c.fate = "ok" THEN NULL ELSE c.props[fd])
    BY <1>2, <1>5 DEF clear_fd_properties, cleared_state, uncounted, WithProps
  <1>8. c.fate = "ok"
    BY <1>6, <1>7 DEF State, WithProps
  <1>9. n = WithProps(c, fd, NULL)
    BY <1>7, <1>8
  <1>10. n.obj = c.obj /\ n.props = [c.props EXCEPT ![fd] = NULL] /\ n.disk = c.disk
    BY <1>6, <1>9, SomeNumbers, SetProps
  <1>11. ClearedFile(st, o, c)
    BY <1>4, <1>5, <1>8, ClearedLast
  <1>12. \A f \in Fds : n.props[f] = IF f = fd THEN NULL ELSE st.props[f]
    BY <1>1, <1>6, <1>10 DEF ClearedAs
  <1>13. \A p \in Objs \ {o} : n.obj[p].name = st.obj[p].name
    BY <1>6, <1>8, <1>10 DEF ClearedAs
  <1>14. \A f \in Fds : Has(st, f) => st.props[f] \in Objs
    BY <1>1, SomeNumbers DEF Has
  <1>15. CASE st.obj[o].ref # 1
    <2>1. n.disk = st.disk /\ \A p \in Objs : n.obj[p].temp = st.obj[p].temp
      BY <1>10, <1>11, <1>15 DEF ClearedFile, SameTemps
    <2>2. \A p \in Objs : n.obj[p].name = st.obj[p].name
      BY <1>4, <1>6, <1>8, <1>10, <1>13, <1>15 DEF ClearedAs
    <2>3. PICK g \in Uses(st.props, o) : g # fd
      <3>1. SUFFICES ASSUME Uses(st.props, o) = {fd} PROVE FALSE
        BY <1>3
      <3>2. Cardinality({fd}) = 1
        BY FS_Singleton
      <3> QED
        BY <1>4, <1>15, <3>1, <3>2
    <2>4. ASSUME NEW name, Duty(st, name)
          PROVE  Duty(n, name)
      <3>1. PICK f \in Users(st, name) : st.obj[st.props[f]].temp
        BY <2>4 DEF Duty
      <3>2. PICK h \in Fds : h # fd /\ st.props[h] = st.props[f]
        BY <1>2, <2>3, <3>1 DEF Users, Uses
      <3>3. h \in Users(n, name) /\ n.obj[n.props[h]].temp
        BY <1>12, <1>14, <2>1, <2>2, <3>1, <3>2 DEF Users, Has
      <3> QED
        BY <3>3 DEF Duty
    <2> QED
      BY <2>1, <2>4 DEF Loses, TempKept
  <1>16. CASE st.obj[o].ref = 1
    <2>1. ClosedFile(st, o, n)
      BY <1>10, <1>11, <1>16 DEF ClearedFile, ClosedFile, Succeeded
    <2>2. \A f \in Fds : st.props[f] = o => f = fd
      <3>1. PICK x : Uses(st.props, o) = {x}
        BY <1>4, <1>16, UsesCount, FS_Singleton
      <3> QED
        BY <1>3, <3>1 DEF Uses
    <2>3. ASSUME NEW f \in Fds \ {fd}, Has(st, f)
          PROVE  /\ n.props[f] = st.props[f] /\ st.props[f] \in Objs \ {o}
                 /\ n.obj[st.props[f]].name = st.obj[st.props[f]].name
                 /\ st.obj[st.props[f]].temp => n.obj[st.props[f]].temp
      BY <1>12, <1>13, <1>14, <2>1, <2>2, <2>3 DEF ClosedFile
    <2>4. ASSUME NEW name, NEW f \in Users(st, name), f # fd, st.obj[st.props[f]].temp
          PROVE  Duty(n, name)
      <3>1. f \in Users(n, name) /\ n.obj[n.props[f]].temp
        BY <2>3, <2>4 DEF Users, Has
      <3> QED
        BY <3>1 DEF Duty
    <2>5. ASSUME NEW name \in st.disk, fd \notin Users(st, name)
          PROVE  name \in n.disk /\ (Duty(st, name) => Duty(n, name))
      <3>1. name # st.obj[o].name
        BY <1>2, <2>5 DEF Users
      <3> QED
        BY <2>1, <2>4, <2>5, <3>1 DEF ClosedFile, Duty
    <2>6. ASSUME Listed(st), NEW name \in st.disk, name \notin n.disk
          PROVE  Users(n, name) = {}
      <3>1. name = st.obj[o].name /\ st.obj[o].temp
        BY <2>1, <2>6 DEF ClosedFile
      <3>2. \A p \in Objs \ {o} : Uses(st.props, p) # {} => st.obj[p].name # name
        BY <2>1, <2>6, <3>1 DEF ClosedFile, Succeeded
      <3>3. SUFFICES ASSUME NEW f \in Users(n, name) PROVE FALSE
        OBVIOUS
      <3>4. f # fd /\ f \in Fds /\ Has(st, f)
        BY <1>12, <3>3 DEF Users, Has
      <3>5. st.props[f] \in Objs \ {o} /\ st.obj[st.props[f]].name = name
        BY <2>3, <3>3, <3>4 DEF Users
      <3>6. f \in Uses(st.props, st.props[f])
        BY <3>4 DEF Uses
      <3> QED
        BY <3>2, <3>5, <3>6
    <2>7. ASSUME Listed(st), NEW name \in st.disk, Duty(st, name), name \in n.disk
          PROVE  Duty(n, name)
      <3>1. PICK f \in Users(st, name) : st.obj[st.props[f]].temp
        BY <2>7 DEF Duty
      <3>2. CASE f # fd
        BY <2>4, <3>1, <3>2
      <3>3. CASE f = fd
        <4>1. st.obj[o].name = name /\ st.obj[o].temp
          BY <1>2, <3>1, <3>3 DEF Users
        <4>2. PICK p \in Objs \ {o} : /\ Uses(st.props, p) # {}
                                      /\ st.obj[p].name = name
                                      /\ n.obj[p].temp
          BY <2>1, <2>7, <4>1 DEF ClosedFile, Succeeded
        <4>3. PICK g \in Fds : st.props[g] = p
          BY <4>2 DEF Uses
        <4>4. g # fd /\ Has(st, g)
          BY <1>2, <4>2, <4>3, SomeNumbers DEF Has
        <4>5. g \in Users(n, name) /\ n.obj[n.props[g]].temp
          BY <2>3, <4>2, <4>3, <4>4 DEF Users, Has
        <4> QED
          BY <4>5 DEF Duty
      <3> QED
        BY <3>2, <3>3
    <2> QED
      BY <2>5, <2>6, <2>7 DEF Loses, TempKept
  <1> QED
    BY <1>15, <1>16

\* Closing a descriptor without the device's handler.
LEMMA DosCloseLoses ==
  ASSUME NEW st, Good(st), st.fate = "ok", NEW fd \in Fds,
         NEW n, n = dos_close(st, fd), n.fate = "ok"
  PROVE  Loses(st, fd, n)
  <1>1. st \in State /\ Counted(st)
    BY DEF Good, Sound
  <1>2. CASE st.handle[fd] = Free
    <2>1. n = st
      BY <1>2 DEF dos_close
    <2> QED
      BY <2>1 DEF Loses, TempKept
  <1>3. CASE st.handle[fd] # Free
    <2>1. PICK a : a = WithHandle(st, fd, Free)
      OBVIOUS
    <2>2. a \in State /\ SameProps(st, a)
      <3>1. Free \in Handles
        BY DEF Handles
      <3> QED
        BY <1>1, <2>1, <3>1, SetHandle
    <2>3. Counted(a) /\ a.fate = "ok" /\ (Has(a, fd) <=> Has(st, fd))
      BY <1>1, <2>2 DEF Counted, SameProps, Has
    <2>4. CASE Has(st, fd)
      <3>1. n = clear_fd_properties(a, fd)
        BY <1>3, <2>1, <2>4 DEF dos_close, WithHandle
      <3>2. Loses(a, fd, n)
        BY <2>2, <2>3, <2>4, <3>1, ClearLoses
      <3> QED
        BY <1>1, <2>2, <3>2, SamePropsLoses
    <2>5. CASE ~Has(st, fd)
      <3>1. n = a
        BY <1>3, <2>1, <2>5 DEF dos_close, WithHandle
      <3>2. Grows(st, n)
        BY <2>2, <3>1, SamePropsGrows
      <3> QED
        BY <3>2, GrowsKept DEF Loses
    <2> QED
      BY <2>4, <2>5
  <1> QED
    BY <1>2, <1>3

\* Closing any descriptor.
LEMMA CloseLoses ==
  ASSUME NEW st, Good(st), st.fate = "ok", NEW fd \in Fds,
         NEW n, n = _close(st, fd), n.fate = "ok"
  PROVE  Loses(st, fd, n)
  <1>1. st \in State /\ Sound(st) /\ Backed(st)
    BY DEF Good
  <1>2. CASE ~st.fn[fd]
    <2>1. n = dos_close(st, fd)
      BY <1>2 DEF _close
    <2> QED
      BY <2>1, DosCloseLoses
  <1>3. CASE st.fn[fd] /\ st.data[fd] = NULL
    <2>1. n = WithFn(st, fd, FALSE)
      BY <1>3 DEF _close, WithFn
    <2>2. SameProps(st, n)
      BY <1>1, <2>1, SetFn
    <2>3. Grows(st, n)
      BY <2>2, SamePropsGrows
    <2> QED
      BY <2>3, GrowsKept DEF Loses
  <1>4. CASE st.fn[fd] /\ st.data[fd] # NULL
    <2>1. PICK c : c = Forgotten(st, fd)
      OBVIOUS
    <2>2. Good(c) /\ SameProps(st, c)
      BY <1>4, <2>1, DeviceForgotten
    <2>3. n = dos_close(c, fd)
      BY <1>4, <2>1 DEF _close, dev_close, Forgotten
    <2>4. c \in State /\ c.fate = "ok"
      BY <2>2 DEF Good, SameProps
    <2>5. Loses(c, fd, n)
      BY <2>2, <2>3, <2>4, DosCloseLoses
    <2> QED
      BY <1>1, <2>2, <2>4, <2>5, SamePropsLoses
  <1> QED
    BY <1>2, <1>3, <1>4

\* dup2 gives up the properties of newfd before it shares those of fd.
LEMMA Dup2Kept ==
  ASSUME NEW st, Good(st), st.fate = "ok", Listed(st), NEW fd \in Fds, NEW newfd \in Fds,
         NEW n, n = dup2(st, fd, newfd), n.fate = "ok"
  PROVE  TempKept(st, n)
  <1>1. st \in State /\ Sound(st) /\ Counted(st)
    BY DEF Good, Sound
  <1>2. CASE fd = newfd
    <2>1. n = st
      BY <1>2 DEF dup2
    <2> QED
      BY <2>1 DEF TempKept
  <1>3. CASE fd # newfd /\ st.handle[fd] = Free
    <2>1. n = WithFn(st, newfd, FALSE)
      BY <1>3 DEF dup2, WithFn
    <2>2. SameProps(st, n)
      BY <1>1, <2>1, SetFn
    <2> QED
      BY <2>2, SamePropsGrows, GrowsKept
  <1>4. CASE fd # newfd /\ st.handle[fd] # Free
    <2>1. PICK t : t = HandedOver(st, fd, newfd)
      OBVIOUS
    <2>2. PICK bare : bare = Bare(st, t, newfd)
      OBVIOUS
    <2>3. /\ t \in State /\ SameProps(st, t) /\ Good(bare)
          /\ bare.fate = "ok" => ~Has(bare, newfd)
      BY <1>4, <2>1, <2>2, Dup2Bare
    <2>4. n = IF bare.fate # "ok" THEN bare ELSE dup_fd_properties(bare, fd, newfd)
      BY <1>4, <2>1, <2>2 DEF dup2, HandedOver, Bare
    <2>5. bare.fate = "ok" /\ n = dup_fd_properties(bare, fd, newfd)
      BY <2>4
    <2>6. Grows(bare, n) /\ n.disk = bare.disk
          /\ \A name : Users(bare, name) = {} => Users(n, name) = {}
      BY <2>3, <2>5, DupPropsGrows DEF Good
    <2>7. TempKept(st, bare)
      <3>1. CASE Has(st, newfd)
        <4>1. Has(t, newfd) /\ Counted(t) /\ t.fate = "ok"
          BY <1>1, <2>3, <3>1 DEF SameProps, Has, Counted
        <4>2. Loses(t, newfd, bare)
          BY <2>2, <2>3, <2>5, <3>1, <4>1, ClearLoses DEF Bare
        <4>3. Loses(st, newfd, bare)
          BY <1>1, <2>3, <4>2, SamePropsLoses
        <4> QED
          BY <4>3 DEF Loses
      <3>2. CASE ~Has(st, newfd)
        <4>1. Grows(st, bare)
          BY <2>2, <2>3, <3>2, SamePropsGrows DEF Bare
        <4> QED
          BY <4>1, GrowsKept
      <3> QED
        BY <3>1, <3>2
    <2>8. \A name : Duty(bare, name) => Duty(n, name)
      BY <2>6, GrowsKept
    <2> QED
      BY <2>6, <2>7, <2>8 DEF TempKept
  <1> QED
    BY <1>2, <1>3, <1>4

\* open of a file: its properties are new, and so may be the file.
LEMMA OpenFileGrows ==
  ASSUME NEW st, Good(st), st.fate = "ok", FreeFds(st) # {},
         NEW name \in Names, NEW temp \in BOOLEAN, NEW oom \in BOOLEAN,
         NEW n, n = OpenFile(st, name, temp, oom)
  PROVE  Grows(st, n) /\ n.handle[Lowest(FreeFds(st))] = name
  <1>1. PICK fd \in Fds : fd = Lowest(FreeFds(st)) /\ st.handle[fd] = Free
    BY LowestFree
  <1>2. PICK a : a = Opened(st, fd, name)
    OBVIOUS
  <1>3. n = set_fd_properties(a, fd, name, temp, oom)
    BY <1>1, <1>2 DEF OpenFile, Opened
  <1>4. /\ Good(a) /\ SameProps(st, a) /\ a.fate = "ok" /\ ~Has(a, fd)
        /\ a.handle[fd] = name
    BY <1>1, <1>2, OpenFileHandle
  <1>5. a \in State /\ Sound(a) /\ name \in Names \cup {NoName, Zero, Dir}
    BY <1>4 DEF Good
  <1>6. Grows(a, n) /\ n.handle = a.handle
    BY <1>3, <1>4, <1>5, SetPropsGrows
  <1>7. Grows(st, n)
    BY <1>4, <1>6, SamePropsGrows, GrowsTwice
  <1> QED
    BY <1>1, <1>4, <1>6, <1>7

\* open of the device: its properties, of no file, are new.
LEMMA OpenDeviceGrows ==
  ASSUME NEW st, Good(st), st.fate = "ok", CanAlloc(st),
         NEW oom \in BOOLEAN, NEW oomdata \in BOOLEAN,
         NEW n, n = OpenDevice(st, oom, oomdata)
  PROVE  Grows(st, n)
  <1>1. PICK new \in Fds : \E b : DeviceOpened(st, new, b, oom, n)
    BY DeviceHandle
  <1>2. PICK b : DeviceOpened(st, new, b, oom, n)
    BY <1>1
  <1>3. Grows(st, b)
    BY <1>2, SamePropsGrows DEF DeviceOpened
  <1>4. CASE n = b
    BY <1>3, <1>4
  <1>5. CASE n = set_fd_properties(b, new, Zero, FALSE, oom)
    <2>1. b \in State /\ Sound(b) /\ ~Has(b, new)
      BY <1>2 DEF DeviceOpened, Good
    <2>2. Zero \in Names \cup {NoName, Zero, Dir} /\ FALSE \in BOOLEAN
      OBVIOUS
    <2>3. Grows(b, n)
      BY <1>5, <2>1, <2>2, SetPropsGrows
    <2> QED
      BY <1>3, <2>3, GrowsTwice
  <1> QED
    BY <1>2, <1>4, <1>5 DEF DeviceOpened

\* dup: the copy has the file of the original.
LEMMA DupGrows ==
  ASSUME NEW st, Good(st), st.fate = "ok", NEW fd \in Fds, NEW new \in Fds,
         st.handle[new] = Free, NEW n, n = Dup(st, fd, new)
  PROVE  Grows(st, n)
  <1>1. ~Has(st, new)
    BY FreeHasNone
  <1>2. PICK h \in Handles : h = st.handle[fd]
    BY DEF Good, State, Handles
  <1>3. PICK b \in BOOLEAN : b = st.fn[fd]
    BY DEF Good, State
  <1>4. PICK a : a = WithFn(WithHandle(st, new, h), new, b)
    OBVIOUS
  <1>5. Good(a) /\ SameProps(st, a)
    BY <1>1, <1>4, HandOutGood
  <1>6. n = dup_fd_properties(a, fd, new)
    BY <1>2, <1>3, <1>4 DEF Dup, WithFn, WithHandle
  <1>7. a \in State /\ Sound(a) /\ ~Has(a, new)
    BY <1>1, <1>5 DEF Good, SameProps, Has
  <1>8. Grows(a, n)
    BY <1>6, <1>7, DupPropsGrows
  <1> QED
    BY <1>5, <1>8, SamePropsGrows, GrowsTwice

\* F_DUPFD on a descriptor of the device closes nothing that has a file.
LEMMA InternalDupKept ==
  ASSUME NEW st, Good(st), st.fate = "ok", Listed(st), CanAlloc(st), NEW fd \in Fds,
         NEW new \in Fds, st.handle[new] = Free,
         NEW n, n = internal_dup(st, fd, new), n.fate = "ok"
  PROVE  TempKept(st, n)
  <1>1. PICK a : a = alloc_fd(st, new, TRUE)
    OBVIOUS
  <1>2. Good(a) /\ SameProps(st, a)
    BY <1>1, AllocGood
  <1>3. st \in State /\ a \in State /\ a.fate = "ok"
    BY <1>2 DEF Good, SameProps
  <1>4. CASE st.data[fd] = NULL
    <2>1. n = _close(a, new)
      BY <1>1, <1>4 DEF internal_dup
    <2>2. Loses(a, new, n)
      BY <1>2, <1>3, <2>1, CloseLoses
    <2>3. Loses(st, new, n)
      BY <1>2, <1>3, <2>2, SamePropsLoses
    <2> QED
      BY <2>3 DEF Loses
  <1>5. CASE st.data[fd] # NULL
    <2>1. n = [a EXCEPT !.data[new] = st.data[fd], !.dupc[st.data[fd]] = @ + 1]
      BY <1>1, <1>5 DEF internal_dup
    <2>2. SameProps(a, n)
      BY <1>3, <2>1 DEF State, SameProps
    <2> QED
      BY <1>2, <2>2, SamePropsGrows, GrowsTwice, GrowsKept
  <1> QED
    BY <1>4, <1>5

----------------------------------------------------------------------------
(* The specification.                                                      *)

Inv == /\ Good(s)
       /\ pc \in {"run", "props", "fsext", "done"}
       /\ at \in 0..NFD
       /\ calls \in 0..MaxCalls

\* The invariant holds when the program starts.
LEMMA InitInv == Init => Inv
  <1> SUFFICES ASSUME Init PROVE Inv
    OBVIOUS
  <1>1. s \in State
    <2>1. [ref |-> 0, name |-> NoName, temp |-> FALSE, next |-> NULL, prev |-> NULL] \in Obj
      BY FdAssumption, SomeNumbers DEF Obj
    <2> QED
      BY <2>1, FdAssumption, SomeNumbers, ContextNumbers DEF Init, State
  <1>2. /\ s.fate = "ok" /\ s.made = 0 /\ s.cached = NULL
        /\ \A fd \in Fds : s.props[fd] = NULL /\ s.data[fd] = NULL
        /\ \A o \in Objs : s.obj[o].ref = 0
        /\ \A d \in Contexts : s.dupc[d] = 0
    <2>1. s.fate = "ok" /\ s.made = 0 /\ s.cached = NULL
      BY DEF Init
    <2>2. s.props = [fd \in Fds |-> NULL] /\ s.data = [fd \in Fds |-> NULL]
      BY DEF Init
    <2>3. s.dupc = [d \in Contexts |-> 0]
      BY DEF Init
    <2>4. s.obj = [o \in Objs |-> [ref |-> 0, name |-> NoName, temp |-> FALSE,
                                   next |-> NULL, prev |-> NULL]]
      BY DEF Init
    <2> QED
      BY <2>1, <2>2, <2>3, <2>4
  <1>3. Counted(s)
    <2>1. \A o \in Objs : Uses(s.props, o) = {}
      BY <1>2, SomeNumbers DEF Uses
    <2> QED
      BY <1>2, <2>1, UsesCount DEF Counted
  <1>4. Fresh(s) /\ \A fd \in Fds : NamedAt(s, fd)
    BY <1>2, SomeNumbers DEF Fresh, NamedAt, Has
  <1>5. Backed(s)
    <2>1. \A d \in Contexts : Uses(s.data, d) = {}
      BY <1>2, ContextNumbers DEF Uses
    <2>2. \A d \in Contexts : Cardinality(Uses(s.data, d)) = 0
      BY <2>1, UsesCount
    <2> QED
      BY <1>2, <2>2 DEF Backed
  <1>6. Good(s)
    BY <1>1, <1>3, <1>4, <1>5 DEF Good, Sound
  <1>7. pc = "run" /\ at = 0 /\ calls = 0
    BY DEF Init
  <1> QED
    BY <1>6, <1>7, FdAssumption DEF Inv

\* A call that leaves a good state keeps the invariant.
LEMMA CallInv ==
  ASSUME Inv, NEW st, Good(st), Call(st)
  PROVE  Inv'
  <1>1. s' = st /\ pc' = pc /\ at' = at /\ calls' = calls + 1 /\ calls < MaxCalls
    BY DEF Call
  <1>2. Good(s')
    BY <1>1
  <1>3. calls' \in 0..MaxCalls
    BY <1>1, FdAssumption DEF Inv
  <1> QED
    BY <1>1, <1>2, <1>3 DEF Inv

\* malloc fails or does not.
LEMMA FailBoolean == Fail \subseteq BOOLEAN
  BY DEF Fail

\* pipe opens its file twice, or closes what it opened.
LEMMA PipeInv ==
  ASSUME Inv, NEW name \in Names, pipe(name)
  PROVE  Inv'
  <1>1. PICK oom1 \in Fail, oom2 \in Fail :
          LET st == OpenFile(s, name, TRUE, oom1)
          IN Call(IF FreeFds(st) = {} THEN _close(st, Lowest(FreeFds(s)))
                  ELSE OpenFile(st, name, TRUE, oom2))
    BY DEF pipe
  <1>2. PICK st : st = OpenFile(s, name, TRUE, oom1)
    OBVIOUS
  <1>3. PICK n : n = IF FreeFds(st) = {} THEN _close(st, Lowest(FreeFds(s)))
                     ELSE OpenFile(st, name, TRUE, oom2)
    OBVIOUS
  <1>4. Call(n)
    BY <1>1, <1>2, <1>3
  <1>5. Good(s) /\ s.fate = "ok" /\ FreeFds(s) # {}
    BY <1>4 DEF Inv, Call, Running, pipe
  <1>6. oom1 \in BOOLEAN /\ oom2 \in BOOLEAN /\ TRUE \in BOOLEAN
    BY FailBoolean
  <1>7. Good(st) /\ st.fate = "ok"
    BY <1>2, <1>5, <1>6, OpenFileGood
  <1>8. Good(n)
    <2>1. CASE FreeFds(st) = {}
      <3>1. Lowest(FreeFds(s)) \in Fds
        BY <1>5, LowestFree
      <3>2. n = _close(st, Lowest(FreeFds(s)))
        BY <1>3, <2>1
      <3> QED
        BY <1>7, <3>1, <3>2, CloseGood
    <2>2. CASE FreeFds(st) # {}
      <3>1. n = OpenFile(st, name, TRUE, oom2)
        BY <1>3, <2>2
      <3> QED
        BY <1>6, <1>7, <2>2, <3>1, OpenFileGood
    <2> QED
      BY <2>1, <2>2
  <1> QED
    BY <1>4, <1>8, CallInv

\* What a call starts from.
LEMMA Starts ==
  ASSUME Inv, NEW st, Call(st)
  PROVE  /\ Good(s) /\ s.fate = "ok"
         /\ Good(WithNul(s)) /\ SameProps(s, WithNul(s)) /\ WithNul(s).fate = "ok"
  <1>1. Good(s) /\ s.fate = "ok"
    BY DEF Inv, Call, Running
  <1>2. Good(WithNul(s)) /\ SameProps(s, WithNul(s))
    BY <1>1, WithNulGood
  <1> QED
    BY <1>1, <1>2 DEF SameProps

\* open of a file keeps the invariant.
LEMMA OpenInv ==
  ASSUME Inv, NEW name \in Names, NEW temp \in BOOLEAN, open(name, temp)
  PROVE  Inv'
  <1>1. PICK oom \in Fail : Call(OpenFile(s, name, temp, oom))
    BY DEF open
  <1>2. PICK n : n = OpenFile(s, name, temp, oom)
    OBVIOUS
  <1>3. Call(n) /\ oom \in BOOLEAN
    BY <1>1, <1>2, FailBoolean
  <1>4. Good(s) /\ s.fate = "ok" /\ FreeFds(s) # {}
    BY <1>3 DEF Inv, Call, Running, open
  <1>5. Good(n)
    BY <1>2, <1>3, <1>4, OpenFileGood
  <1> QED
    BY <1>3, <1>5, CallInv

\* open of the device keeps the invariant.
LEMMA OpenDevInv ==
  ASSUME Inv, open_dev
  PROVE  Inv'
  <1>1. CASE ~CanAlloc(WithNul(s))
    <2>1. Call(WithNul(s))
      BY <1>1 DEF open_dev
    <2>2. Good(WithNul(s))
      BY <2>1, Starts
    <2> QED
      BY <2>1, <2>2, CallInv
  <1>2. CASE CanAlloc(WithNul(s))
    <2>1. PICK oom \in Fail, oomdata \in Fail : Call(OpenDevice(WithNul(s), oom, oomdata))
      BY <1>2 DEF open_dev
    <2>2. PICK st : st = WithNul(s)
      OBVIOUS
    <2>3. PICK n : n = OpenDevice(st, oom, oomdata)
      OBVIOUS
    <2>4. Call(n) /\ CanAlloc(st) /\ oom \in BOOLEAN /\ oomdata \in BOOLEAN
      BY <1>2, <2>1, <2>2, <2>3, FailBoolean
    <2>5. Good(st) /\ st.fate = "ok"
      BY <2>2, <2>4, Starts
    <2>6. Good(n)
      BY <2>3, <2>4, <2>5, OpenDeviceGood
    <2> QED
      BY <2>4, <2>6, CallInv
  <1> QED
    BY <1>1, <1>2

\* open of a directory keeps the invariant.
LEMMA OpenDirInv ==
  ASSUME Inv, opendir_as_fd
  PROVE  Inv'
  <1>1. PICK st : st = WithNul(s)
    OBVIOUS
  <1>2. CASE ~(CanAlloc(st) /\ \E fd \in FreeFds(st) : fd >= MinDirFd)
    <2>1. Call(st)
      BY <1>1, <1>2 DEF opendir_as_fd
    <2>2. Good(st)
      BY <1>1, <2>1, Starts
    <2> QED
      BY <2>1, <2>2, CallInv
  <1>3. CASE CanAlloc(st) /\ \E fd \in FreeFds(st) : fd >= MinDirFd
    <2>1. PICK S : S = {f \in FreeFds(st) : f >= MinDirFd}
      OBVIOUS
    <2>2. S \in SUBSET Nat /\ S # {}
      BY <1>3, <2>1, FdsNat DEF FreeFds
    <2>3. Lowest(S) \in S
      BY <2>2, LowestIn
    <2>4. PICK fd \in Fds : fd = Lowest(S)
      BY <2>1, <2>3 DEF FreeFds
    <2>5. st.handle[fd] = Free
      BY <2>1, <2>3, <2>4 DEF FreeFds
    <2>6. PICK a : a = alloc_fd(st, fd, FALSE)
      OBVIOUS
    <2>7. \E oom \in Fail : Call(set_fd_properties(a, fd, Dir, FALSE, oom))
      BY <1>1, <1>3, <2>1, <2>4, <2>6 DEF opendir_as_fd
    <2>8. PICK oom \in Fail : Call(set_fd_properties(a, fd, Dir, FALSE, oom))
      BY <2>7
    <2>9. PICK n : n = set_fd_properties(a, fd, Dir, FALSE, oom)
      OBVIOUS
    <2>10. Call(n) /\ oom \in BOOLEAN
      BY <2>8, <2>9, FailBoolean
    <2>11. Good(st) /\ st.fate = "ok"
      BY <1>1, <2>10, Starts
    <2>12. /\ Good(a) /\ SameProps(st, a) /\ a.handle[fd] # Free
           /\ a.data = st.data /\ a.dupc = st.dupc
      BY <1>3, <2>5, <2>6, <2>11, AllocGood
    <2>13. a.fate = "ok" /\ a.handle[fd] # Free
      BY <2>11, <2>12 DEF SameProps
    <2>14. Dir \in Names \cup {NoName, Zero, Dir} /\ Dir \notin Names /\ FALSE \in BOOLEAN
      BY NotNames
    <2>15. Good(n)
      BY <2>9, <2>10, <2>12, <2>13, <2>14, SetPropsGood
    <2> QED
      BY <2>10, <2>15, CallInv
  <1> QED
    BY <1>2, <1>3

\* dup keeps the invariant of the specification.
LEMMA DupInv ==
  ASSUME Inv, NEW fd \in Fds, dup(fd)
  PROVE  Inv'
  <1>1. PICK new \in Fds : new = Lowest(FreeFds(s)) /\ s.handle[new] = Free
    BY LowestFree DEF dup, CanDup
  <1>2. PICK n : n = Dup(s, fd, new)
    OBVIOUS
  <1>3. Call(n) /\ s.handle[fd] # Free
    BY <1>1, <1>2 DEF dup, CanDup
  <1>4. Good(s) /\ s.fate = "ok" /\ s.handle[new] = Free
    BY <1>1, <1>3 DEF Inv, Call, Running
  <1>5. Good(n)
    BY <1>2, <1>3, <1>4, DupGood
  <1> QED
    BY <1>3, <1>5, CallInv

\* dup2 and the F_DUPFD that calls it keep the invariant of the specification.
LEMMA Dup2Inv ==
  ASSUME Inv, NEW fd \in Fds, NEW newfd \in Fds, Call(dup2(s, fd, newfd))
  PROVE  Inv'
  <1>1. PICK n : n = dup2(s, fd, newfd)
    OBVIOUS
  <1>2. Call(n)
    BY <1>1
  <1>3. Good(s) /\ s.fate = "ok"
    BY <1>2 DEF Inv, Call, Running
  <1>4. Good(n)
    BY <1>1, <1>3, Dup2Good
  <1> QED
    BY <1>2, <1>4, CallInv

\* fcntl(F_DUPFD) keeps the invariant.
LEMMA FcntlInv ==
  ASSUME Inv, NEW fd \in Fds, NEW min, fcntl_DUPFD(fd, min)
  PROVE  Inv'
  <1>1. PICK st : st = WithNul(s)
    OBVIOUS
  <1>2. CASE Call(st)
    <2>1. Good(st)
      BY <1>1, <1>2, Starts
    <2> QED
      BY <1>2, <2>1, CallInv
  <1>3. CASE CanAlloc(st) /\ Call(internal_dup(st, fd, Lowest(FreeFds(st))))
    <2>1. PICK new \in Fds : new = Lowest(FreeFds(st)) /\ st.handle[new] = Free
      BY <1>3, LowestFree DEF CanAlloc, CanDup
    <2>2. PICK n : n = internal_dup(st, fd, new)
      OBVIOUS
    <2>3. Call(n) /\ st.handle[new] = Free
      BY <1>3, <2>1, <2>2
    <2>4. Good(st) /\ st.fate = "ok"
      BY <1>1, <2>3, Starts
    <2>5. Good(n)
      BY <1>3, <2>2, <2>3, <2>4, InternalDupGood
    <2> QED
      BY <2>3, <2>5, CallInv
  <1>4. CASE /\ \E f \in FreeFds(s) : f >= min
             /\ Call(dup2(s, fd, Lowest({f \in FreeFds(s) : f >= min})))
    <2>1. PICK S : S = {f \in FreeFds(s) : f >= min}
      OBVIOUS
    <2>2. S \in SUBSET Nat /\ S # {}
      BY <1>4, <2>1, FdsNat DEF FreeFds
    <2>3. Lowest(S) \in S
      BY <2>2, LowestIn
    <2>4. PICK new \in Fds : new = Lowest(S)
      BY <2>1, <2>3 DEF FreeFds
    <2>5. Call(dup2(s, fd, new))
      BY <1>4, <2>1, <2>4
    <2> QED
      BY <2>5, Dup2Inv
  <1> QED
    BY <1>1, <1>2, <1>3, <1>4 DEF fcntl_DUPFD

\* llseek keeps the invariant when it adds properties without a name.
LEMMA SeekInv ==
  ASSUME Inv, NEW fd \in Fds, llseek(fd)
  PROVE  Inv'
  <1>1. PICK oom \in Fail : Call(set_fd_properties(s, fd, NoName, FALSE, oom))
    BY DEF llseek
  <1>2. PICK n : n = set_fd_properties(s, fd, NoName, FALSE, oom)
    OBVIOUS
  <1>3. Call(n) /\ oom \in BOOLEAN /\ s.handle[fd] # Free
    BY <1>1, <1>2, FailBoolean DEF llseek
  <1>4. Good(s) /\ s.fate = "ok"
    BY <1>3 DEF Inv, Call, Running
  <1>5. NoName \in Names \cup {NoName, Zero, Dir} /\ NoName \notin Names /\ FALSE \in BOOLEAN
    BY NotNames
  <1>6. Good(n)
    BY <1>2, <1>3, <1>4, <1>5, SetPropsGood
  <1> QED
    BY <1>3, <1>6, CallInv

\* close keeps the invariant.
LEMMA CloseInv ==
  ASSUME Inv, NEW fd \in Fds, close(fd)
  PROVE  Inv'
  <1>1. PICK n : n = _close(s, fd)
    OBVIOUS
  <1>2. Call(n)
    BY <1>1 DEF close
  <1>3. Good(s) /\ s.fate = "ok"
    BY <1>2 DEF Inv, Call, Running
  <1>4. Good(n)
    BY <1>1, <1>3, CloseGood
  <1> QED
    BY <1>2, <1>4, CallInv

\* A round of the loops of exit.
LEMMA CloseNextInv ==
  ASSUME Inv, s.fate = "ok", NEW todo \in SUBSET Fds, NEW after \in {"fsext", "done"},
         CloseNext(todo, after), calls' = calls
  PROVE  Inv'
  <1>1. NFD \in Nat
    BY FdAssumption
  <1>2. CASE todo = {}
    <2>1. s' = s /\ pc' = after /\ at' = 0
      BY <1>2 DEF CloseNext
    <2>2. Good(s')
      BY <2>1 DEF Inv
    <2> QED
      BY <1>1, <2>1, <2>2 DEF Inv
  <1>3. CASE todo # {}
    <2>1. todo \in SUBSET Nat
      BY FdsNat
    <2>2. Lowest(todo) \in todo
      BY <1>3, <2>1, LowestIn
    <2>3. PICK fd \in Fds : fd = Lowest(todo)
      BY <2>2
    <2>4. PICK n : n = _close(s, fd)
      OBVIOUS
    <2>5. s' = n /\ at' = fd + 1 /\ pc' = pc
      BY <1>3, <2>3, <2>4 DEF CloseNext
    <2>6. Good(s)
      BY DEF Inv
    <2>7. Good(n)
      BY <2>4, <2>6, CloseGood
    <2>8. Good(s')
      BY <2>5, <2>7
    <2>9. at' \in 0..NFD
      BY <1>1, <2>5 DEF Fds
    <2> QED
      BY <2>5, <2>8, <2>9 DEF Inv
  <1> QED
    BY <1>2, <1>3

\* exit keeps the invariant, descriptor by descriptor.
LEMMA ExitInv ==
  ASSUME Inv, exit \/ exit_cleanup \/ FSEXT_close_all
  PROVE  Inv'
  <1>1. CASE exit
    <2>1. s' = s /\ calls' = calls /\ at' = 0 /\ pc' \in {"fsext", "props"}
      BY <1>1 DEF exit
    <2>2. Good(s')
      BY <2>1 DEF Inv
    <2> QED
      BY <2>1, <2>2, FdAssumption DEF Inv
  <1>2. CASE exit_cleanup
    <2>1. PICK todo \in SUBSET Fds : todo = {fd \in Fds : fd >= at /\ Has(s, fd)}
      OBVIOUS
    <2>2. CloseNext(todo, "fsext") /\ s.fate = "ok" /\ calls' = calls
      BY <1>2, <2>1 DEF exit_cleanup
    <2> QED
      BY <2>2, CloseNextInv
  <1>3. CASE FSEXT_close_all
    <2>1. PICK todo \in SUBSET Fds : todo = {fd \in Fds : fd >= at /\ s.fn[fd]}
      OBVIOUS
    <2>2. CloseNext(todo, "done") /\ s.fate = "ok" /\ calls' = calls
      BY <1>3, <2>1 DEF FSEXT_close_all
    <2> QED
      BY <2>2, CloseNextInv
  <1> QED
    BY <1>1, <1>2, <1>3

\* Every step keeps the invariant.
LEMMA StepInv == Inv /\ [Next]_vars => Inv'
  <1> SUFFICES ASSUME Inv, [Next]_vars
               PROVE  Inv'
    OBVIOUS
  <1>1. CASE UNCHANGED vars
    <2>1. s' = s /\ pc' = pc /\ at' = at /\ calls' = calls
      BY <1>1 DEF vars
    <2>2. Good(s')
      BY <2>1 DEF Inv
    <2> QED
      BY <2>1, <2>2 DEF Inv
  <1>2. ASSUME NEW name \in Names, pipe(name)
        PROVE  Inv'
    BY <1>2, PipeInv
  <1>3. ASSUME NEW name \in Names, NEW temp \in BOOLEAN, open(name, temp)
        PROVE  Inv'
    BY <1>3, OpenInv
  <1>4. ASSUME NEW fd \in Fds, dup(fd) \/ llseek(fd) \/ close(fd) \/ fcntl_DUPFD(fd, 0)
        PROVE  Inv'
    BY <1>4, DupInv, SeekInv, CloseInv, FcntlInv
  <1>5. ASSUME NEW fd \in Fds, NEW newfd \in Fds, Dup2(fd, newfd)
        PROVE  Inv'
    BY <1>5, Dup2Inv DEF Dup2
  <1> QED
    BY <1>1, <1>2, <1>3, <1>4, <1>5, OpenDevInv, OpenDirInv, ExitInv DEF Next

\* The invariant holds throughout.
LEMMA InvAlways == Spec => []Inv
  BY InitInv, StepInv, PTL DEF Spec

\* Over any calls, with any damage to the lists, the reference count of an
\* object is the number of descriptors that share it, and all is in range.
THEOREM CountsAlwaysExact == Spec => []RefCountsExact
  <1>1. Inv => RefCountsExact
    <2> SUFFICES ASSUME Inv PROVE RefCountsExact
      OBVIOUS
    <2>1. s \in State /\ (s.fate = "ok" => Counted(s))
      BY DEF Inv, Good, Sound
    <2>2. TypeOK
      BY <2>1 DEF Inv, TypeOK
    <2>3. \A o \in Objs : Sharers(o) = Uses(s.props, o)
      BY DEF Sharers, Uses
    <2> QED
      BY <2>1, <2>2, <2>3 DEF RefCountsExact, Counted
  <1> QED
    BY <1>1, InvAlways, PTL

\* Properties always belong to an open handle and to the file open there.
THEOREM NamesAlwaysAgree == Spec => []NamesAgree
  <1>1. Inv => NamesAgree
    BY DEF Inv, Good, Sound, NamedAt, NamesAgree
  <1> QED
    BY <1>1, InvAlways, PTL

\* A context of the device is counted at least as often as it is used.
THEOREM ContextsAlwaysAlive == Spec => []ContextsAlive
  <1>1. Inv => ContextsAlive
    BY DEF Inv, Good, Backed, Uses, ContextsAlive
  <1> QED
    BY <1>1, InvAlways, PTL

----------------------------------------------------------------------------
(* Every step keeps temporary files as TempGoesWithLast says.              *)

\* pipe only adds a file, or removes the one it has just added.
LEMMA PipeKept ==
  ASSUME Inv, NEW name \in Names, pipe(name), s'.fate = "ok"
  PROVE  TempKept(s, s')
  <1>1. PICK oom1 \in Fail, oom2 \in Fail :
          LET st == OpenFile(s, name, TRUE, oom1)
          IN Call(IF FreeFds(st) = {} THEN _close(st, Lowest(FreeFds(s)))
                  ELSE OpenFile(st, name, TRUE, oom2))
    BY DEF pipe
  <1>2. PICK st : st = OpenFile(s, name, TRUE, oom1)
    OBVIOUS
  <1>3. PICK n : n = IF FreeFds(st) = {} THEN _close(st, Lowest(FreeFds(s)))
                     ELSE OpenFile(st, name, TRUE, oom2)
    OBVIOUS
  <1>4. Call(n)
    BY <1>1, <1>2, <1>3
  <1>5. Good(s) /\ s.fate = "ok" /\ FreeFds(s) # {} /\ name \notin s.disk
    BY <1>4 DEF Inv, Call, Running, pipe
  <1>6. oom1 \in BOOLEAN /\ oom2 \in BOOLEAN /\ TRUE \in BOOLEAN
    BY FailBoolean
  <1>7. Good(st) /\ st.fate = "ok"
    BY <1>2, <1>5, <1>6, OpenFileGood
  <1>8. PICK fd \in Fds : fd = Lowest(FreeFds(s))
    BY <1>5, LowestFree
  <1>9. Grows(s, st) /\ st.handle[fd] = name
    BY <1>2, <1>5, <1>6, <1>8, OpenFileGrows
  <1>10. s' = n /\ n.fate = "ok"
    BY <1>4 DEF Call
  <1>11. CASE FreeFds(st) = {}
    <2>1. n = _close(st, fd)
      BY <1>3, <1>8, <1>11
    <2>2. Loses(st, fd, n)
      BY <1>7, <1>10, <2>1, CloseLoses
    <2>3. ASSUME NEW nm \in s.disk
          PROVE  nm \in n.disk /\ (Duty(s, nm) => Duty(n, nm))
      <3>1. nm \in Names /\ nm # name
        BY <1>5 DEF Good, State
      <3>2. NamedAt(st, fd)
        BY <1>7 DEF Good, Sound
      <3>3. fd \notin Users(st, nm)
        BY <1>9, <3>1, <3>2 DEF NamedAt, Users
      <3>4. nm \in st.disk /\ (Duty(s, nm) => Duty(st, nm))
        BY <1>9, GrowsKept
      <3> QED
        BY <2>2, <3>3, <3>4 DEF Loses
    <2> QED
      BY <1>10, <2>3 DEF TempKept
  <1>12. CASE FreeFds(st) # {}
    <2>1. n = OpenFile(st, name, TRUE, oom2)
      BY <1>3, <1>12
    <2>2. Grows(st, n)
      BY <1>6, <1>7, <1>12, <2>1, OpenFileGrows
    <2> QED
      BY <1>9, <1>10, <2>2, GrowsTwice, GrowsKept
  <1> QED
    BY <1>11, <1>12

\* open of a file only adds.
LEMMA OpenKept ==
  ASSUME Inv, NEW name \in Names, NEW temp \in BOOLEAN, open(name, temp)
  PROVE  TempKept(s, s')
  <1>1. PICK oom \in Fail : Call(OpenFile(s, name, temp, oom))
    BY DEF open
  <1>2. PICK n : n = OpenFile(s, name, temp, oom)
    OBVIOUS
  <1>3. Call(n) /\ oom \in BOOLEAN
    BY <1>1, <1>2, FailBoolean
  <1>4. Good(s) /\ s.fate = "ok" /\ FreeFds(s) # {}
    BY <1>3 DEF Inv, Call, Running, open
  <1>5. Grows(s, n)
    BY <1>2, <1>3, <1>4, OpenFileGrows
  <1> QED
    BY <1>3, <1>5, GrowsKept DEF Call

\* open of the device only adds.
LEMMA OpenDevKept ==
  ASSUME Inv, open_dev
  PROVE  TempKept(s, s')
  <1>1. PICK st : st = WithNul(s)
    OBVIOUS
  <1>2. CASE ~CanAlloc(st)
    <2>1. Call(st)
      BY <1>1, <1>2 DEF open_dev
    <2>2. SameProps(s, st)
      BY <1>1, <2>1, Starts
    <2> QED
      BY <2>1, <2>2, SamePropsGrows, GrowsKept DEF Call
  <1>3. CASE CanAlloc(st)
    <2>1. PICK oom \in Fail, oomdata \in Fail : Call(OpenDevice(st, oom, oomdata))
      BY <1>1, <1>3 DEF open_dev
    <2>2. PICK n : n = OpenDevice(st, oom, oomdata)
      OBVIOUS
    <2>3. Call(n) /\ oom \in BOOLEAN /\ oomdata \in BOOLEAN
      BY <2>1, <2>2, FailBoolean
    <2>4. Good(st) /\ st.fate = "ok" /\ SameProps(s, st)
      BY <1>1, <2>3, Starts
    <2>5. Grows(st, n)
      BY <1>3, <2>2, <2>3, <2>4, OpenDeviceGrows
    <2> QED
      BY <2>3, <2>4, <2>5, SamePropsGrows, GrowsTwice, GrowsKept DEF Call
  <1> QED
    BY <1>2, <1>3

\* open of a directory only adds.
LEMMA OpenDirKept ==
  ASSUME Inv, opendir_as_fd
  PROVE  TempKept(s, s')
  <1>1. PICK st : st = WithNul(s)
    OBVIOUS
  <1>2. CASE Call(st)
    <2>1. SameProps(s, st)
      BY <1>1, <1>2, Starts
    <2> QED
      BY <1>2, <2>1, SamePropsGrows, GrowsKept DEF Call
  <1>3. CASE /\ CanAlloc(st)
             /\ \E fd \in FreeFds(st) : fd >= MinDirFd
             /\ ~Call(st)
    <2>1. PICK S : S = {f \in FreeFds(st) : f >= MinDirFd}
      OBVIOUS
    <2>2. S \in SUBSET Nat /\ S # {}
      BY <1>3, <2>1, FdsNat DEF FreeFds
    <2>3. Lowest(S) \in S
      BY <2>2, LowestIn
    <2>4. PICK fd \in Fds : fd = Lowest(S) /\ st.handle[fd] = Free
      BY <2>1, <2>3 DEF FreeFds
    <2>5. PICK a : a = alloc_fd(st, fd, FALSE)
      OBVIOUS
    <2>6. \E oom \in Fail : Call(set_fd_properties(a, fd, Dir, FALSE, oom))
      BY <1>1, <1>3, <2>1, <2>4, <2>5 DEF opendir_as_fd
    <2>7. PICK oom \in Fail : Call(set_fd_properties(a, fd, Dir, FALSE, oom))
      BY <2>6
    <2>8. PICK n : n = set_fd_properties(a, fd, Dir, FALSE, oom)
      OBVIOUS
    <2>9. Call(n) /\ oom \in BOOLEAN
      BY <2>7, <2>8, FailBoolean
    <2>10. Good(st) /\ st.fate = "ok" /\ SameProps(s, st)
      BY <1>1, <2>9, Starts
    <2>11. Good(a) /\ SameProps(st, a)
      <3>1. st.handle[fd] = Free /\ FALSE \in BOOLEAN
        BY <2>4
      <3> QED
        BY <1>3, <2>5, <2>10, <3>1, AllocGood
    <2>12. ~Has(st, fd)
      BY <2>4, <2>10, FreeHasNone
    <2>13. a \in State /\ Sound(a) /\ ~Has(a, fd)
      BY <2>10, <2>11, <2>12 DEF Good, SameProps, Has
    <2>14. Dir \in Names \cup {NoName, Zero, Dir} /\ FALSE \in BOOLEAN
      OBVIOUS
    <2>15. Grows(a, n)
      BY <2>8, <2>9, <2>13, <2>14, SetPropsGrows
    <2>16. Grows(s, a)
      BY <2>10, <2>11, SamePropsGrows, GrowsTwice
    <2> QED
      BY <2>9, <2>15, <2>16, GrowsTwice, GrowsKept DEF Call
  <1> QED
    BY <1>1, <1>2, <1>3 DEF opendir_as_fd

\* dup only adds.
LEMMA DupKept ==
  ASSUME Inv, NEW fd \in Fds, dup(fd)
  PROVE  TempKept(s, s')
  <1>1. PICK new \in Fds : new = Lowest(FreeFds(s)) /\ s.handle[new] = Free
    BY LowestFree DEF dup, CanDup
  <1>2. PICK n : n = Dup(s, fd, new)
    OBVIOUS
  <1>3. Call(n)
    BY <1>1, <1>2 DEF dup
  <1>4. Good(s) /\ s.fate = "ok" /\ s.handle[new] = Free
    BY <1>1, <1>3 DEF Inv, Call, Running
  <1>5. Grows(s, n)
    BY <1>2, <1>4, DupGrows
  <1> QED
    BY <1>3, <1>5, GrowsKept DEF Call

\* dup2, and the F_DUPFD that calls it.
LEMMA Dup2CallKept ==
  ASSUME Inv, Listed(s), s'.fate = "ok",
         NEW fd \in Fds, NEW newfd \in Fds, Call(dup2(s, fd, newfd))
  PROVE  TempKept(s, s')
  <1>1. PICK n : n = dup2(s, fd, newfd)
    OBVIOUS
  <1>2. Call(n) /\ n = s' /\ n.fate = "ok"
    BY <1>1 DEF Call
  <1>3. Good(s) /\ s.fate = "ok"
    BY <1>2 DEF Inv, Call, Running
  <1>4. TempKept(s, n)
    BY <1>1, <1>2, <1>3, Dup2Kept
  <1> QED
    BY <1>2, <1>4

\* fcntl(F_DUPFD), on a descriptor of the device and on others.
LEMMA FcntlKept ==
  ASSUME Inv, Listed(s), s'.fate = "ok", NEW fd \in Fds, NEW min, fcntl_DUPFD(fd, min)
  PROVE  TempKept(s, s')
  <1>1. PICK st : st = WithNul(s)
    OBVIOUS
  <1>2. CASE Call(st)
    <2>1. SameProps(s, st)
      BY <1>1, <1>2, Starts
    <2> QED
      BY <1>2, <2>1, SamePropsGrows, GrowsKept DEF Call
  <1>3. CASE CanAlloc(st) /\ Call(internal_dup(st, fd, Lowest(FreeFds(st))))
    <2>1. PICK new \in Fds : new = Lowest(FreeFds(st)) /\ st.handle[new] = Free
      BY <1>3, LowestFree DEF CanAlloc, CanDup
    <2>2. PICK n : n = internal_dup(st, fd, new)
      OBVIOUS
    <2>3. Call(n) /\ n = s' /\ n.fate = "ok" /\ st.handle[new] = Free
      BY <1>3, <2>1, <2>2 DEF Call
    <2>4. Good(s) /\ Good(st) /\ st.fate = "ok" /\ SameProps(s, st)
      BY <1>1, <2>3, Starts
    <2>5. Listed(st)
      BY <2>4, ListedSame DEF Good, SameProps
    <2>6. TempKept(st, n)
      BY <1>3, <2>2, <2>3, <2>4, <2>5, InternalDupKept
    <2>7. s.disk \subseteq st.disk /\ \A name : Duty(s, name) => Duty(st, name)
      BY <2>4, SamePropsGrows, GrowsKept DEF Grows
    <2> QED
      BY <2>3, <2>6, <2>7 DEF TempKept
  <1>4. CASE /\ \E f \in FreeFds(s) : f >= min
             /\ Call(dup2(s, fd, Lowest({f \in FreeFds(s) : f >= min})))
    <2>1. PICK S : S = {f \in FreeFds(s) : f >= min}
      OBVIOUS
    <2>2. S \in SUBSET Nat /\ S # {}
      BY <1>4, <2>1, FdsNat DEF FreeFds
    <2>3. Lowest(S) \in S
      BY <2>2, LowestIn
    <2>4. PICK new \in Fds : new = Lowest(S)
      BY <2>1, <2>3 DEF FreeFds
    <2>5. Call(dup2(s, fd, new))
      BY <1>4, <2>1, <2>4
    <2> QED
      BY <2>5, Dup2CallKept
  <1> QED
    BY <1>1, <1>2, <1>3, <1>4 DEF fcntl_DUPFD

\* llseek only adds properties, of no file.
LEMMA SeekKept ==
  ASSUME Inv, NEW fd \in Fds, llseek(fd)
  PROVE  TempKept(s, s')
  <1>1. PICK oom \in Fail : Call(set_fd_properties(s, fd, NoName, FALSE, oom))
    BY DEF llseek
  <1>2. PICK n : n = set_fd_properties(s, fd, NoName, FALSE, oom)
    OBVIOUS
  <1>3. Call(n) /\ oom \in BOOLEAN /\ ~Has(s, fd)
    BY <1>1, <1>2, FailBoolean DEF llseek
  <1>4. s \in State /\ Sound(s)
    BY <1>3 DEF Inv, Call, Running, Good
  <1>5. NoName \in Names \cup {NoName, Zero, Dir} /\ FALSE \in BOOLEAN
    OBVIOUS
  <1>6. Grows(s, n)
    BY <1>2, <1>3, <1>4, <1>5, SetPropsGrows
  <1> QED
    BY <1>3, <1>6, GrowsKept DEF Call

\* close, by the program or by the loops of exit.
LEMMA CloseKept ==
  ASSUME Inv, Listed(s), s.fate = "ok", NEW fd \in Fds,
         s' = _close(s, fd), s'.fate = "ok"
  PROVE  TempKept(s, s')
  <1>1. PICK n : n = _close(s, fd)
    OBVIOUS
  <1>2. Good(s) /\ n = s' /\ n.fate = "ok"
    BY <1>1 DEF Inv
  <1>3. Loses(s, fd, n)
    BY <1>1, <1>2, CloseLoses
  <1> QED
    BY <1>2, <1>3 DEF Loses

\* A round of the loops of exit closes a descriptor or nothing.
LEMMA CloseNextKept ==
  ASSUME Inv, Listed(s), s.fate = "ok", s'.fate = "ok",
         NEW todo \in SUBSET Fds, NEW after, CloseNext(todo, after)
  PROVE  TempKept(s, s')
  <1>1. CASE todo = {}
    BY <1>1 DEF CloseNext, TempKept
  <1>2. CASE todo # {}
    <2>1. todo \in SUBSET Nat
      BY FdsNat
    <2>2. Lowest(todo) \in todo
      BY <1>2, <2>1, LowestIn
    <2>3. PICK fd \in Fds : fd = Lowest(todo)
      BY <2>2
    <2>4. s' = _close(s, fd)
      BY <1>2, <2>3 DEF CloseNext
    <2> QED
      BY <2>4, CloseKept
  <1> QED
    BY <1>1, <1>2

\* exit, descriptor by descriptor.
LEMMA ExitKept ==
  ASSUME Inv, Listed(s), s'.fate = "ok", exit \/ exit_cleanup \/ FSEXT_close_all
  PROVE  TempKept(s, s')
  <1>1. CASE exit
    BY <1>1 DEF exit, TempKept
  <1>2. CASE exit_cleanup
    <2>1. PICK todo \in SUBSET Fds : todo = {fd \in Fds : fd >= at /\ Has(s, fd)}
      OBVIOUS
    <2>2. CloseNext(todo, "fsext") /\ s.fate = "ok"
      BY <1>2, <2>1 DEF exit_cleanup
    <2> QED
      BY <2>2, CloseNextKept
  <1>3. CASE FSEXT_close_all
    <2>1. PICK todo \in SUBSET Fds : todo = {fd \in Fds : fd >= at /\ s.fn[fd]}
      OBVIOUS
    <2>2. CloseNext(todo, "done") /\ s.fate = "ok"
      BY <1>3, <2>1 DEF FSEXT_close_all
    <2> QED
      BY <2>2, CloseNextKept
  <1> QED
    BY <1>1, <1>2, <1>3

\* Every step that starts with the list intact and does not end in a fault.
LEMMA StepKept ==
  ASSUME Inv, Listed(s), [Next]_vars, s'.fate = "ok"
  PROVE  TempKept(s, s')
  <1>1. CASE UNCHANGED vars
    BY <1>1 DEF vars, TempKept, Duty
  <1>2. ASSUME NEW name \in Names, pipe(name)
        PROVE  TempKept(s, s')
    BY <1>2, PipeKept
  <1>3. ASSUME NEW name \in Names, NEW temp \in BOOLEAN, open(name, temp)
        PROVE  TempKept(s, s')
    BY <1>3, OpenKept
  <1>4. ASSUME NEW fd \in Fds, dup(fd) \/ llseek(fd) \/ fcntl_DUPFD(fd, 0)
        PROVE  TempKept(s, s')
    BY <1>4, DupKept, SeekKept, FcntlKept
  <1>5. ASSUME NEW fd \in Fds, close(fd)
        PROVE  TempKept(s, s')
    <2>1. s' = _close(s, fd) /\ s.fate = "ok"
      BY <1>5 DEF close, Call, Running
    <2> QED
      BY <2>1, CloseKept
  <1>6. ASSUME NEW fd \in Fds, NEW newfd \in Fds, Dup2(fd, newfd)
        PROVE  TempKept(s, s')
    BY <1>6, Dup2CallKept DEF Dup2
  <1> QED
    BY <1>1, <1>2, <1>3, <1>4, <1>5, <1>6, OpenDevKept, OpenDirKept, ExitKept DEF Next

\* While the list is intact, a temporary file goes exactly with the last
\* descriptor that uses it, in every call and in every round of exit.
THEOREM TempAlwaysGoesLast == Spec => TempGoesWithLast
  <1>1. ListIntact => Listed(s)
    BY DEF ListIntact, Listed, Sharers, Uses
  <1>2. Inv /\ [Next]_vars =>
          [ListIntact /\ s'.fate = "ok" =>
             \A name \in s.disk :
               /\ name \notin s'.disk => Users(s', name) = {}
               /\ ( /\ \E fd \in Users(s, name) : s.obj[s.props[fd]].temp
                    /\ name \in s'.disk
                    /\ pc # "run" \/ Users(s', name) # Users(s, name))
                  => \E fd \in Users(s', name) : s'.obj[s'.props[fd]].temp]_vars
    <2> SUFFICES ASSUME Inv, [Next]_vars, ListIntact, s'.fate = "ok", NEW name \in s.disk
                 PROVE  /\ name \notin s'.disk => Users(s', name) = {}
                        /\ Duty(s, name) /\ name \in s'.disk => Duty(s', name)
      BY DEF Duty
    <2>1. TempKept(s, s')
      BY <1>1, StepKept
    <2> QED
      BY <2>1 DEF TempKept
  <1> QED
    BY <1>2, InvAlways, PTL DEF Spec, TempGoesWithLast

============================================================================
