-------------------------------- MODULE Memory --------------------------------
(***************************************************************************)
(* User memory: the page allocator (kernel/kalloc.c), page tables          *)
(* (kernel/vm.c) and the system calls that change them: sbrk(), mmap(),    *)
(* munmap(), fork(), exec(), exit(), and page faults.                      *)
(*                                                                         *)
(* Free pages are alike, so that the free list is its length, and a page   *)
(* table is the set of its page-table pages and of the user pages mapped   *)
(* in it.  Every iteration of a loop that allocates is a step, because     *)
(* processes compete for the last pages; freeing is one step.  Addresses   *)
(* are counted in half pages, so that sizes need not be page-aligned.      *)
(*                                                                         *)
(* A definition whose name ends in _bug is a deliberate error in the one   *)
(* that follows it; each property is shown to fail when such an error is   *)
(* made.                                                                   *)
(***************************************************************************)
EXTENDS Naturals, FiniteSets, FiniteSetsExt, Functions

CONSTANTS Slot,       \* slots of the process table, as numbers
          None,
          NFRAME,     \* pages of physical memory
          MMAP,       \* the page mmap(0) maps, 0x40000000
          TRAPFRAME,  \* the page below the trampoline
          IMAGE,      \* pages of a program: text, guard page and stack
          MAX_MMAPS,
          MaxPage,    \* bound: pages of a process
          Delta       \* arguments of sbrk()

PGSIZE == 2
PGROUNDUP(a) == ((a + PGSIZE - 1) \div PGSIZE) * PGSIZE
PagesOf(from, to) == {v \in 0..MaxPage : /\ PGROUNDUP(from) <= v * PGSIZE
                                         /\ v * PGSIZE < to}

VARIABLES
  nfree,      \* length of kmem.freelist
  pagetable,  \* of each process, or None
  sz,
  mmaps,      \* the addresses in p->mmaps[], None where it is not used
  call        \* the system call a process is in, or the panic it has met

vars == <<nfree, pagetable, sz, mmaps, call>>

User == [kind |-> "user"]

TypeOK ==
  /\ nfree \in 0..NFRAME
  /\ \A s \in Slot : pagetable[s] # None =>
       /\ pagetable[s].map \subseteq 0..MaxPage
       /\ pagetable[s].tab \subseteq {1, 0} \X (0..TRAPFRAME)
  /\ sz \in [Slot -> 0..(MaxPage + 1) * PGSIZE]
  /\ mmaps \in [Slot -> [1..MAX_MMAPS -> 0..MaxPage \cup {None}]]
  /\ \A s \in Slot : call[s].kind \in {"user", "grow", "fork", "new", "exec",
                                       "zombie", "remap", "leaf",
                                       "init exiting"}

-------------------------------------------------------------------------------
(* Page tables.                                                            *)

\* The page-table pages on the way to page v, below the root.
Tables(v) == {<<1, v \div 4>>, <<0, v \div 2>>}

\* walk() with alloc # 0 and n free pages: the first level comes first, and is
\* kept if there is no page for the second.
walk(t, v, n) ==
  LET missing == Tables(v) \ t.tab IN
    IF Cardinality(missing) <= n THEN t.tab \cup missing
    ELSE IF n = 1 THEN t.tab \cup {<<1, v \div 4>>}
    ELSE t.tab


\* A new page mapped at v: kalloc() and mappages(), kfree() if that fails.
map_page(t, v, n) ==
  LET tab == IF n = 0 THEN t.tab ELSE walk(t, v, n - 1)
      ok == n > 0 /\ Tables(v) \subseteq tab
  IN  [ok |-> ok,
       pt |-> [map |-> IF ok THEN t.map \cup {v} ELSE t.map, tab |-> tab],
       n |-> n - Cardinality(tab \ t.tab) - (IF ok THEN 1 ELSE 0)]

\* uvmunmap() with do_free of the pages vs, some of which may not be mapped.
uvmunmap(t, vs) == [t EXCEPT !.map = @ \ vs]

\* The pages of a page table: the root, the tables, and the user pages.
PagesIn(t) == IF t = None THEN 0
              ELSE 1 + Cardinality(t.tab) + Cardinality(t.map)

\* proc_pagetable(): the root, and the tables for trampoline and trapframe.
Empty == [map |-> {}, tab |-> Tables(TRAPFRAME)]

\* The first process has executed a program.
Init ==
  /\ pagetable = [s \in Slot |-> IF s = 1
                   THEN [map |-> 0..(IMAGE - 1),
                         tab |-> UNION {Tables(v) : v \in 0..(IMAGE - 1)}
                                 \cup Tables(TRAPFRAME)]
                   ELSE None]
  /\ nfree = NFRAME - 1 - PagesIn(pagetable[1])
  /\ sz = [s \in Slot |-> IF s = 1 THEN IMAGE * PGSIZE ELSE 0]
  /\ mmaps = [s \in Slot |-> [i \in 1..MAX_MMAPS |-> None]]
  /\ call = [s \in Slot |-> User]

InUser(s) == pagetable[s] # None /\ call[s] = User

-------------------------------------------------------------------------------
(* sbrk() and page faults.                                                 *)

\* SBRK_LAZY: only the size grows.
sbrk_lazy(s, k) ==
  /\ InUser(s) /\ sz[s] + k <= MaxPage * PGSIZE
  /\ sz' = [sz EXCEPT ![s] = @ + k]
  /\ UNCHANGED <<nfree, pagetable, mmaps, call>>

\* SBRK_EAGER: growproc() calls uvmalloc(), which starts at the next page.
sbrk_eager(s, k) ==
  /\ InUser(s) /\ sz[s] + k <= MaxPage * PGSIZE
  /\ call' = [call EXCEPT ![s] = [kind |-> "grow", a |-> PGROUNDUP(sz[s]),
                                  newsz |-> sz[s] + k]]
  /\ UNCHANGED <<nfree, pagetable, sz, mmaps>>

\* One page of uvmalloc(), or its end.  A failure gives back what it has got.
uvmalloc(s) ==
  LET c == call[s]
      v == c.a \div PGSIZE
      r == map_page(pagetable[s], v, nfree)
      grown == PagesOf(sz[s], c.a)
  IN /\ c.kind = "grow"
     /\ IF c.a >= c.newsz
        THEN /\ sz' = [sz EXCEPT ![s] = c.newsz]
             /\ call' = [call EXCEPT ![s] = User]
             /\ UNCHANGED <<nfree, pagetable>>
        ELSE IF nfree > 0 /\ v \in pagetable[s].map
        THEN call' = [call EXCEPT ![s].kind = "remap"]
             /\ UNCHANGED <<nfree, pagetable, sz>>
        ELSE IF r.ok
        THEN /\ pagetable' = [pagetable EXCEPT ![s] = r.pt] /\ nfree' = r.n
             /\ call' = [call EXCEPT ![s].a = @ + PGSIZE]
             /\ UNCHANGED sz
        ELSE /\ pagetable' = [pagetable EXCEPT ![s] = uvmunmap(r.pt, grown)]
             /\ nfree' = r.n + Cardinality(grown)
             /\ call' = [call EXCEPT ![s] = User]
             /\ UNCHANGED sz
     /\ UNCHANGED mmaps

\* growproc() with n < 0.  If n is larger than the size, sz + n wraps around
\* and uvmdealloc() returns the old size.
uvmdealloc(s, k) ==
  LET gone == PagesOf(sz[s] - k, sz[s]) \cap pagetable[s].map IN
    /\ InUser(s) /\ k <= sz[s]
    /\ pagetable' = [pagetable EXCEPT ![s] = uvmunmap(@, gone)]
    /\ nfree' = nfree + Cardinality(gone)
    /\ sz' = [sz EXCEPT ![s] = @ - k]
    /\ UNCHANGED <<mmaps, call>>

\* kexit(): the first process is init.
Exit(s) == IF s = 1 THEN "init exiting" ELSE "zombie"

\* usertrap() kills a process whose fault vmfault() cannot mend.
vmfault(s, v) ==
  LET r == map_page(pagetable[s], v, nfree) IN
    /\ InUser(s) /\ v \notin pagetable[s].map
    /\ IF v * PGSIZE < sz[s]
       THEN pagetable' = [pagetable EXCEPT ![s] = r.pt] /\ nfree' = r.n
       ELSE UNCHANGED <<nfree, pagetable>>
    /\ call' = [call EXCEPT ![s].kind =
                  IF v * PGSIZE < sz[s] /\ r.ok THEN "user" ELSE Exit(s)]
    /\ UNCHANGED <<sz, mmaps>>

-------------------------------------------------------------------------------
(* mmap() and munmap().                                                    *)

\* The first entry of mmaps that is not used is filled, if there is one.
Record(m, v) ==
  LET unused == {i \in 1..MAX_MMAPS : m[i] = None}
  IN  IF unused = {} THEN m ELSE [m EXCEPT ![Min(unused)] = v]

\* p->sz moves up to the end of the page.
NewSize(size, v) == Max({size, (v + 1) * PGSIZE})

kmmap(s, v) ==
  LET r == map_page(pagetable[s], v, nfree) IN
    /\ InUser(s)
    /\ IF nfree > 0 /\ v \in pagetable[s].map
       THEN /\ call' = [call EXCEPT ![s].kind = "remap"]
            /\ UNCHANGED <<nfree, pagetable, sz, mmaps>>
       ELSE /\ pagetable' = [pagetable EXCEPT ![s] = r.pt] /\ nfree' = r.n
            /\ mmaps' = [mmaps EXCEPT ![s] = IF r.ok THEN Record(@, v) ELSE @]
            /\ sz' = [sz EXCEPT ![s] = IF r.ok THEN NewSize(@, v) ELSE @]
            /\ UNCHANGED call

kmunmap(s, v) ==
  LET used == {i \in 1..MAX_MMAPS : mmaps[s][i] = v}
      gone == {v} \cap pagetable[s].map
  IN /\ InUser(s) /\ used # {}
     /\ pagetable' = [pagetable EXCEPT ![s] = uvmunmap(@, gone)]
     /\ nfree' = nfree + Cardinality(gone)
     /\ mmaps' = [mmaps EXCEPT ![s][Min(used)] = None]
     /\ UNCHANGED <<sz, call>>

-------------------------------------------------------------------------------
(* fork(), exec() and exit().                                              *)

Unused == {q \in Slot : pagetable[q] = None}

\* allocproc(): a page for the trapframe and an empty page table.  If there is
\* not enough memory for them, freeproc() gives back what there was.
fork(s) ==
  /\ InUser(s) /\ Unused # {} /\ nfree >= 1 + PagesIn(Empty)
  /\ LET q == Min(Unused) IN
       /\ pagetable' = [pagetable EXCEPT ![q] = Empty]
       /\ mmaps' = [mmaps EXCEPT ![q] = [i \in 1..MAX_MMAPS |-> None]]
       /\ call' = [call EXCEPT ![s] = [kind |-> "fork", child |-> q, v |-> 0],
                               ![q] = [kind |-> "new"]]
  /\ nfree' = nfree - 1 - PagesIn(Empty)
  /\ UNCHANGED sz

\* Error: a last page that is used in part is left out.
Copied_bug(v, size) == (v + 1) * PGSIZE > size

\* The loop of uvmcopy() over the pages below size has ended.
Copied(v, size) == v * PGSIZE >= size

\* One page of uvmcopy(), which skips what is not mapped, or its end.  After a
\* failure the child's memory is freed.
uvmcopy(s) ==
  LET c == call[s]
      q == c.child
      r == IF c.v \in pagetable[s].map
           THEN map_page(pagetable[q], c.v, nfree)
           ELSE [ok |-> TRUE, pt |-> pagetable[q], n |-> nfree]
  IN /\ c.kind = "fork"
     /\ IF Copied(c.v, sz[s])
        THEN /\ sz' = [sz EXCEPT ![q] = sz[s]]
             /\ call' = [call EXCEPT ![s] = User, ![q] = User]
             /\ UNCHANGED <<nfree, pagetable>>
        ELSE /\ IF r.ok
                THEN /\ pagetable' = [pagetable EXCEPT ![q] = r.pt]
                     /\ nfree' = r.n
                     /\ call' = [call EXCEPT ![s].v = @ + 1]
                ELSE /\ pagetable' = [pagetable EXCEPT ![q] = None]
                     /\ nfree' = r.n + 1 + PagesIn(r.pt)
                     /\ call' = [call EXCEPT ![s] = User, ![q] = User]
             /\ UNCHANGED sz
     /\ UNCHANGED mmaps

\* proc_freepagetable(t, size) frees the user pages below size, and then the
\* page-table pages; freewalk() panics if it meets another user page.
Leaf(t, size) == t.map \ PagesOf(0, size) # {}

\* kexec() builds a new page table beside the old one.
exec(s) ==
  /\ InUser(s) /\ nfree >= PagesIn(Empty)
  /\ call' = [call EXCEPT ![s] = [kind |-> "exec", pt |-> Empty, v |-> 0]]
  /\ nfree' = nfree - PagesIn(Empty)
  /\ UNCHANGED <<pagetable, sz, mmaps>>

\* One page of the program or its stack; a failure frees the new page table.
exec_page(s) ==
  LET c == call[s]  r == map_page(c.pt, c.v, nfree) IN
    /\ c.kind = "exec" /\ c.v < IMAGE
    /\ IF r.ok
       THEN /\ call' = [call EXCEPT ![s].pt = r.pt, ![s].v = @ + 1]
            /\ nfree' = r.n
       ELSE /\ call' = [call EXCEPT ![s] = User]
            /\ nfree' = r.n + PagesIn(r.pt)
    /\ UNCHANGED <<pagetable, sz, mmaps>>

\* The new image takes the place of the old one; mmaps stays as it was.
exec_commit(s) ==
  LET c == call[s] IN
    /\ c.kind = "exec" /\ c.v = IMAGE
    /\ IF Leaf(pagetable[s], sz[s])
       THEN /\ call' = [call EXCEPT ![s].kind = "leaf"]
            /\ UNCHANGED <<nfree, pagetable, sz>>
       ELSE /\ nfree' = nfree + PagesIn(pagetable[s])
            /\ pagetable' = [pagetable EXCEPT ![s] = c.pt]
            /\ sz' = [sz EXCEPT ![s] = IMAGE * PGSIZE]
            /\ call' = [call EXCEPT ![s] = User]
    /\ UNCHANGED mmaps

exit(s) ==
  /\ InUser(s)
  /\ call' = [call EXCEPT ![s].kind = Exit(s)]
  /\ UNCHANGED <<nfree, pagetable, sz, mmaps>>

\* freeproc(), in kwait() of the parent.
freeproc(s) ==
  /\ call[s].kind = "zombie"
  /\ IF Leaf(pagetable[s], sz[s])
     THEN /\ call' = [call EXCEPT ![s].kind = "leaf"]
          /\ UNCHANGED <<nfree, pagetable, sz, mmaps>>
     ELSE /\ nfree' = nfree + 1 + PagesIn(pagetable[s])
          /\ pagetable' = [pagetable EXCEPT ![s] = None]
          /\ sz' = [sz EXCEPT ![s] = 0]
          /\ mmaps' = [mmaps EXCEPT ![s] = [i \in 1..MAX_MMAPS |-> None]]
          /\ call' = [call EXCEPT ![s] = User]

\* panic() stays in its last loop.
panic(s) == /\ call[s].kind \in {"remap", "leaf", "init exiting"}
            /\ UNCHANGED vars

Next == \E s \in Slot :
  \/ \E k \in Delta : sbrk_lazy(s, k) \/ sbrk_eager(s, k) \/ uvmdealloc(s, k)
  \/ uvmalloc(s) \/ \E v \in 0..MaxPage : vmfault(s, v)
  \/ kmmap(s, MMAP) \/ kmunmap(s, MMAP)
  \/ fork(s) \/ uvmcopy(s) \/ exec(s) \/ exec_page(s) \/ exec_commit(s)
  \/ exit(s) \/ freeproc(s) \/ panic(s)

Spec == Init /\ [][Next]_vars

-------------------------------------------------------------------------------
(* Properties.                                                             *)


\* What freewalk() relies on when a process exits or executes another program:
\* no user page is mapped at or above p->sz, whatever mmap(), munmap() and
\* sbrk() have done.
SizeCovers ==
  \A s \in Slot :
    /\ call[s].kind # "leaf"
    /\ InUser(s) => pagetable[s].map \subseteq PagesOf(0, sz[s])

\* A child starts with the memory its parent has, lazily allocated pages and
\* pages of mmap() included.
ForkCopies ==
  [][\A s, q \in Slot :
       call[q].kind = "new" /\ call[s].kind = "fork" /\ call[s].child = q
       /\ call'[q].kind = "user" /\ pagetable'[q] # None
         => /\ pagetable'[q].map = pagetable[s].map
            /\ sz'[q] = sz[s]]_vars

\* mmap(0) finds a place for the new page: user/memtest.c maps three pages one
\* after the other, and mappages() must not panic because a page is mapped.
NoRemap == \A s \in Slot : call[s].kind # "remap"
===============================================================================
