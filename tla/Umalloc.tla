------------------------------ MODULE Umalloc ------------------------------
(***************************************************************************)
(* The allocator of the user library (user/umalloc.c).  Memory is counted  *)
(* in units of ALIGN bytes: a header takes HDR units, the link of the free *)
(* list lies in the first data unit of a free block, and sbrk() hands out  *)
(* whole pages that follow each other (the program does not call sbrk()    *)
(* itself).  The ghost "live" is what the program believes it owns, and    *)
(* "data" is what the memory it owns really holds.                         *)
(***************************************************************************)
EXTENDS Integers, SequencesExt

CONSTANTS Align,      \* ALIGN, in bytes
          Page,       \* PAGE_SIZE, in units
          MaxPages,   \* after which sbrk() fails
          Size,       \* the sizes a program asks for, in bytes
          MaxLive     \* the allocations a program holds at once

HDR == 2              \* sizeof(struct mem_block), in units
MIN_DATA_SIZE == 1    \* in units
NULL == -1
Junk == -1            \* memory whose contents the program may not rely on
Zero == 0

FIRST_FIT == 0
BEST_FIT == 1
WORST_FIT == 2

VARIABLES heap,       \* blk: the headers by address, flist: the free list, data
          brk,        \* the end of the memory given by sbrk(), in units
          fsm,        \* current_fsm
          scribble,   \* scribble_enabled
          live        \* the allocations of the program: pointer -> length, value

vars == <<heap, brk, fsm, scribble, live>>

\* Memory starts at the first block, so head is block 0 once there is one.
head == 0

Init ==
    /\ heap = [blk |-> <<>>, flist |-> <<>>, data |-> <<>>]
    /\ brk = 0
    /\ fsm = FIRST_FIT
    /\ scribble = FALSE
    /\ live = <<>>

align_size(n) == (n + Align - 1) \div Align

Rounded(n) == IF align_size(n) < MIN_DATA_SIZE THEN MIN_DATA_SIZE ELSE align_size(n)

Header(b) == b .. b + HDR - 1
Link(b) == b + HDR
User(b) == b + HDR          \* the pointer malloc() returns
Block(p) == p - HDR
Extent(p, n) == p .. p + n - 1

\* A store to the units U of whatever is not the program's data.
Store(h, U, v) == [h EXCEPT !.data = [u \in DOMAIN @ |-> IF u \in U THEN v ELSE @[u]]]

WithBlock(h, b, rec) ==
    Store([h EXCEPT !.blk = [a \in DOMAIN @ \cup {b} |-> IF a = b THEN rec ELSE @[a]]],
          Header(b), Junk)

add_to_free_list(h, b) ==
    IF fsm = FIRST_FIT \/ h.flist = <<>>
    THEN [Store(h, {Link(b)}, Junk) EXCEPT !.flist = <<b>> \o @]
    ELSE [Store(h, {Link(b), Link(Last(h.flist))}, Junk) EXCEPT !.flist = Append(@, b)]

remove_from_free_list(h, b) ==
    IF Contains(h.flist, b)
    THEN [Store(h, {Link(b)}, Junk) EXCEPT !.flist = Remove(@, b)]
    ELSE h

\* Block a takes over the block that follows it.
Absorb(h, a, free) ==
    LET b == h.blk[a].next
        after == h.blk[b].next
        rec == [h.blk[a] EXCEPT !.size = @ + HDR + h.blk[b].size, !.free = free, !.next = after]
        blk == [c \in DOMAIN h.blk \ {b} |->
                  IF c = a THEN rec
                  ELSE IF c = after THEN [h.blk[c] EXCEPT !.prev = a] ELSE h.blk[c]]
    IN  Store([h EXCEPT !.blk = blk], Header(a), Junk)

IsFree(h, b) == b # NULL /\ h.blk[b].free

coalesce(h, b) ==
    LET h1 == remove_from_free_list(h, b)
        prev == h1.blk[b].prev
        h2 == IF IsFree(h1, prev) THEN Absorb(remove_from_free_list(h1, prev), prev, TRUE) ELSE h1
        c == IF IsFree(h1, prev) THEN prev ELSE b
        next == h2.blk[c].next
        h3 == IF IsFree(h2, next) THEN Absorb(remove_from_free_list(h2, next), c, TRUE) ELSE h2
    IN  add_to_free_list(h3, c)

\* The search goes through the free list from its head; a later block replaces
\* the best one only if it is strictly better.
find_free_block(h, size) ==
    LET Fits == {i \in DOMAIN h.flist : h.blk[h.flist[i]].size >= size}
        S(i) == h.blk[h.flist[i]].size
        Chosen(i) == \A j \in Fits :
            CASE fsm = FIRST_FIT -> i <= j
              [] fsm = BEST_FIT -> S(i) < S(j) \/ (S(i) = S(j) /\ i <= j)
              [] fsm = WORST_FIT -> S(i) > S(j) \/ (S(i) = S(j) /\ i <= j)
    IN  IF Fits = {} THEN NULL ELSE h.flist[CHOOSE i \in Fits : Chosen(i)]

split_block(h, b, size) ==
    LET old == h.blk[b]
        new == b + HDR + size
        h1 == WithBlock(h, new, [size |-> old.size - size - HDR, free |-> TRUE,
                                 prev |-> b, next |-> old.next])
        h2 == IF old.next = NULL THEN h1 ELSE [h1 EXCEPT !.blk[old.next].prev = new]
        h3 == [h2 EXCEPT !.blk[b].next = new, !.blk[b].size = size, !.blk[b].free = FALSE]
    IN  IF old.size < size + HDR + MIN_DATA_SIZE THEN h ELSE add_to_free_list(h3, new)

set_used(h, b) == [h EXCEPT !.blk[b].free = FALSE]

Scribble(h, U) == IF scribble THEN Store(h, U, Junk) ELSE h

Take(h, b, size) ==
    LET h1 == set_used(split_block(h, b, size), b)
    IN  Scribble(h1, Extent(User(b), h1.blk[b].size))

\* The block that sbrk() gives, put behind the last one.
Extended(h, request) ==
    LET last == CHOOSE b \in DOMAIN h.blk : h.blk[b].next = NULL
        tail == IF h.blk = <<>> THEN NULL ELSE last
        h1 == [h EXCEPT !.data = [u \in 0 .. brk + request - 1 |-> IF u < brk THEN @[u] ELSE Junk]]
        h2 == IF tail = NULL THEN h1 ELSE [h1 EXCEPT !.blk[tail].next = brk]
    IN  WithBlock(h2, brk, [size |-> request - HDR, free |-> FALSE, prev |-> tail, next |-> NULL])

\* malloc() of a rounded size: the heap, the pointer and the new break.
malloc_result(h, size) ==
    LET b == find_free_block(h, size)
        request == ((HDR + size + Page - 1) \div Page) * Page
    IN  IF b # NULL
        THEN [h |-> Take(remove_from_free_list(h, b), b, size), p |-> User(b), brk |-> brk]
        ELSE IF brk + request > MaxPages * Page
        THEN [h |-> h, p |-> NULL, brk |-> brk]
        ELSE [h |-> Take(Extended(h, request), brk, size), p |-> User(brk), brk |-> brk + request]

free_result(h, p) ==
    LET h1 == [h EXCEPT !.blk[Block(p)].free = TRUE]
    IN  coalesce(add_to_free_list(h1, Block(p)), Block(p))

\* The program fills what it was given, and forgets what it gave back.
Own(h, lv) ==
    LET Owned == UNION {Extent(p, lv[p].len) : p \in DOMAIN lv}
    IN  [h EXCEPT !.data = [u \in DOMAIN @ |-> IF u \in Owned THEN @[u] ELSE Junk]]

With(lv, p, rec) == [q \in DOMAIN lv \cup {p} |-> IF q = p THEN rec ELSE lv[q]]
Without(lv, p) == [q \in DOMAIN lv \ {p} |-> lv[q]]

Fresh == CHOOSE t \in 1 .. MaxLive : \A p \in DOMAIN live : live[p].val # t

\* malloc(n) and, if it succeeds, the stores to the n bytes.
Allocate(n, v) ==
    LET r == malloc_result(heap, Rounded(n))
        lv == With(live, r.p, [len |-> align_size(n), val |-> v])
    IN  /\ Cardinality(DOMAIN live) < MaxLive
        /\ IF n = 0 \/ r.p = NULL
           THEN UNCHANGED <<heap, brk, live>>
           ELSE /\ live' = lv
                /\ heap' = Own(Store(r.h, Extent(r.p, align_size(n)), v), lv)
                /\ brk' = r.brk
        /\ UNCHANGED <<fsm, scribble>>

malloc(n) == Allocate(n, Fresh)

\* calloc(1, n): it stores the zeroes itself, and the program relies on them.
calloc(n) == Allocate(n, Zero)

free(p) ==
    /\ heap' = Own(free_result(heap, p), Without(live, p))
    /\ live' = Without(live, p)
    /\ UNCHANGED <<brk, fsm, scribble>>

\* memmove(to, from, n) in the data of the program.
Copied(h, to, from, n) ==
    [h EXCEPT !.data = [u \in DOMAIN @ |-> IF u \in Extent(to, n) THEN @[from + u - to] ELSE @[u]]]

\* Error: the old block is freed before it is copied.
Moved_bug(r, p, n) == Copied(free_result(r.h, p), r.p, p, n)

\* The last lines of realloc(): memmove() and free().
Moved(r, p, n) == free_result(Copied(r.h, r.p, p, n), p)

\* realloc(p, n) of a rounded size: the heap, the pointer and the break.
realloc_result(h, p, size) ==
    LET b == Block(p)
        old == h.blk[b].size
        next == h.blk[b].next
        grown == set_used(split_block(Absorb(remove_from_free_list(h, next), b, FALSE), b, size), b)
        r == malloc_result(h, size)
    IN  IF size <= old
        THEN [h |-> split_block(h, b, size), p |-> p, brk |-> brk]
        ELSE IF IsFree(h, next) /\ old + HDR + h.blk[next].size >= size
        THEN [h |-> Scribble(grown, Extent(p + old, grown.blk[b].size - old)), p |-> p, brk |-> brk]
        ELSE IF r.p = NULL
        THEN r
        ELSE [h |-> Moved(r, p, old), p |-> r.p, brk |-> r.brk]

\* realloc(p, n): what the block held stays, the program fills the rest; n = 0 frees it.
realloc(p, n) ==
    LET r == realloc_result(heap, p, Rounded(n))
        was == live[p]
        rec == [was EXCEPT !.len = align_size(n)]
        lv == With(Without(live, p), r.p, rec)
        Rest == Extent(r.p, rec.len) \ Extent(r.p, was.len)
    IN  /\ IF n = 0
           THEN /\ live' = Without(live, p)
                /\ heap' = Own(free_result(heap, p), Without(live, p))
                /\ UNCHANGED brk
           ELSE IF r.p = NULL
           THEN UNCHANGED <<heap, brk, live>>
           ELSE /\ live' = lv
                /\ heap' = Own(Store(r.h, Rest, rec.val), lv)
                /\ brk' = r.brk
        /\ UNCHANGED <<fsm, scribble>>

malloc_setfsm(algo) ==
    /\ fsm' = IF algo \in FIRST_FIT .. WORST_FIT THEN algo ELSE fsm
    /\ UNCHANGED <<heap, brk, scribble, live>>

malloc_scribble(enable) ==
    /\ scribble' = enable
    /\ UNCHANGED <<heap, brk, fsm, live>>

Next ==
    \/ \E n \in Size : malloc(n) \/ calloc(n)
    \/ \E p \in DOMAIN live : free(p)
    \/ \E p \in DOMAIN live, n \in Size : realloc(p, n)
    \/ \E algo \in 0 .. 3 : malloc_setfsm(algo)
    \/ \E enable \in BOOLEAN : malloc_scribble(enable)

Spec == Init /\ [][Next]_vars

----------------------------------------------------------------------------
\* The blocks lie one behind the other without a gap from 0 to the break, and the
\* two links of the block list follow that order.
Tiled ==
    LET blk == heap.blk
        After(b) == b + HDR + blk[b].size
    IN  \A b \in DOMAIN blk :
            /\ blk[b].size >= MIN_DATA_SIZE
            /\ blk[b].next = IF After(b) = brk THEN NULL ELSE After(b)
            /\ blk[b].next # NULL => blk[b].next \in DOMAIN blk /\ blk[blk[b].next].prev = b
            /\ blk[b].prev = NULL <=> b = head

\* The free list holds every free block once and no used block; a block of the
\* program is a used one, large enough for what the program asked for, and its
\* units hold what the program stored in them or calloc() promised, through every
\* split, merge, move, scribble and store of a link or a header.
HeapSound ==
    /\ Tiled
    /\ IsInjective(heap.flist)
    /\ ToSet(heap.flist) = {b \in DOMAIN heap.blk : heap.blk[b].free}
    /\ {User(b) : b \in {c \in DOMAIN heap.blk : ~heap.blk[c].free}} = DOMAIN live
    /\ \A p \in DOMAIN live :
         /\ live[p].len <= heap.blk[Block(p)].size
         /\ \A u \in Extent(p, live[p].len) : heap.data[u] = live[p].val
=============================================================================
