---------------------------- MODULE SpinLockProofs ----------------------------
(***************************************************************************)
(* kernel/spinlock.c, and what sched(), scheduler() and the trap handlers  *)
(* do with spin locks, for any number of CPUs, processes and locks.        *)
(***************************************************************************)
EXTENDS SpinLock, Integers, Sequences, TLAPS

(* What a thread has still to execute is annotated, as in a proof outline, *)
(* with what holds before each instruction: the locks held (h), whether    *)
(* interrupts are on, or will be when the last lock is gone (m; "any" if   *)
(* the code may not rely on it), whether the state of the process has been *)
(* changed by itself (r), and the instruction of acquire() or release() in *)
(* the middle of which the thread is (k).                                  *)

Instr == [op : Ops, lk : AnyLock, val : BOOLEAN]

Note == [h : SUBSET AnyLock, m : {"on", "off", "any"}, r : BOOLEAN,
         k : {"none", "swap", "setcpu", "unlock", "pop_off"}]

Before(h, m, r, k) == [h |-> h, m |-> m, r |-> r, k |-> k]

\* Instruction i may take thread t from note a to note b.
Legal(t, i, a, b) ==
  /\ a.k = IF i.op \in {"swap", "setcpu", "unlock", "pop_off"} THEN i.op ELSE "none"
  /\ b.k = "none"
  /\ a.r <=> i.op = "sched"
  /\ b.r <=> i.op \in {"runnable", "sleeping"}
  /\ i.op \in {"acquire", "push_off", "swap"} => i.lk \notin a.h /\ b.h = a.h \cup {i.lk}
  /\ i.op \in {"release", "unlock"} => i.lk \in a.h /\ b.h = a.h \ {i.lk}
  /\ i.op = "setcpu" => i.lk \in a.h /\ b.h = a.h
  /\ i.op = "pop_off" => i.lk \notin a.h /\ b.h = a.h
  /\ i.op \in {"runnable", "sleeping", "sched", "resume"} =>
       t \in Proc /\ i.lk = t /\ a.h = {t} /\ b.h = {t}
  /\ i.op = "pick" => t \in CPU /\ i.lk \in Proc /\ a.h = {i.lk} /\ b.h = {i.lk}
  /\ i.op \in {"intr_off", "sret"} => a.h = {} /\ b.h = {}
  /\ i.op = "push_off" /\ a.h = {} => (a.m = "on" => i.val) /\ (a.m = "off" => ~i.val)
  /\ i.op = "sched" => a.m # "any"
  /\ i.op \in {"pick", "resume"} => a.m = "any"
  /\ i.op = "resume" => b.m = IF i.val THEN "on" ELSE "off"
  /\ i.op = "intr_off" => b.m = "off"
  /\ i.op = "sret" => b.m # "off"
  /\ i.op \notin {"resume", "intr_off", "sret"} => b.m = a.m

\* A process that has nothing left to execute has one lock at most, of the kind
\* that system calls take, and interrupts are on if it has none.
Final(t, a) ==
  /\ ~a.r /\ a.k = "none"
  /\ t \in Proc => a.m = "on" /\ (a.h = {} \/ \E l \in Lock : a.h = {l})
  /\ t \in CPU => a.m = "any" /\ a.h = {}

Leads(t, s, a) ==
  \E A \in [1..(Len(s) + 1) -> Note] :
    /\ A[1] = a /\ Final(t, A[Len(s) + 1])
    /\ \A j \in 1..Len(s) : Legal(t, s[j], A[j], A[j + 1])

\* The note agrees with the interrupt state of the CPU.
Agrees(c, a) ==
  /\ sie[c] => noff[c] = 0
  /\ noff[c] = 0 => (a.m = "on" => sie[c]) /\ (a.m = "off" => ~sie[c])
  /\ noff[c] # 0 => (a.m = "on" => intena[c]) /\ (a.m = "off" => ~intena[c])
  /\ noff[c] = Cardinality(a.h) + (IF a.k \in {"swap", "pop_off"} THEN 1 ELSE 0)

Running(t) == \E c \in CPU : on[c] = t

SpinTypes ==
  /\ sie \in [CPU -> BOOLEAN] /\ intena \in [CPU -> BOOLEAN] /\ noff \in [CPU -> Nat]
  /\ locked \in [AnyLock -> BOOLEAN] /\ owner \in [AnyLock -> CPU \cup {NoCPU}]
  /\ on \in [CPU -> Thread] /\ code \in [Thread -> Seq(Instr)]
  /\ held \in [Thread -> SUBSET AnyLock] /\ state \in [Proc -> {"RUNNABLE", "RUNNING", "SLEEPING"}]

\* A CPU executes its scheduler or a process, and no process is on two.
RunInv ==
  /\ \A c \in CPU : on[c] = c \/ on[c] \in Proc
  /\ \A c, d \in CPU : on[c] = on[d] => c = d

\* Who has which lock, and what lk->cpu says.
HolderInv ==
  /\ \A s, t \in Thread : held[s] \cap held[t] # {} => s = t
  /\ \A t \in Thread : IsFiniteSet(held[t]) /\ (held[t] # {} => Running(t))
  /\ \A l \in AnyLock : locked[l] <=> \E t \in Thread : l \in held[t]
  /\ \A l \in AnyLock : owner[l] # NoCPU => l \in held[on[owner[l]]]
  /\ \A c \in CPU, l \in AnyLock : l \in held[on[c]] =>
       owner[l] = c \/ At(c, "setcpu", l) \/ At(c, "unlock", l)
  /\ \A c \in CPU, l \in AnyLock : At(c, "unlock", l) => owner[l] = NoCPU

\* The thread on a CPU.
OnInv ==
  \A c \in CPU : \E a \in Note :
    /\ Leads(on[c], code[on[c]], a) /\ Agrees(c, a) /\ a.h = held[on[c]]
    /\ on[c] \in Proc => (a.r <=> state[on[c]] # "RUNNING")

\* The processes that are on no CPU, and the schedulers that have switched to
\* one: they go on with p->lock, which is theirs when they run again.
OffInv ==
  /\ \A p \in Proc : ~Running(p) =>
       state[p] # "RUNNING" /\ Leads(p, code[p], Before({p}, "any", FALSE, "none"))
  /\ \A c \in CPU : on[c] # c => Leads(c, code[c], Before({on[c]}, "any", FALSE, "none"))

SpinInv == SpinTypes /\ RunInv /\ HolderInv /\ OnInv /\ OffInv

-------------------------------------------------------------------------------
(* The sizes of sets of locks.  What the lemmas use of them is collected   *)
(* in Sizes, which the library's theorems on finite sets give at the end.  *)

Sizes ==
  /\ \A S : IsFiniteSet(S) => Cardinality(S) \in Nat
  /\ /\ IsFiniteSet({}) /\ Cardinality({}) = 0
     /\ \A S : IsFiniteSet(S) => (Cardinality(S) = 0 <=> S = {})
  /\ \A x : IsFiniteSet({x}) /\ Cardinality({x}) = 1
  /\ \A S, x : IsFiniteSet(S) =>
       /\ IsFiniteSet(S \cup {x})
       /\ Cardinality(S \cup {x}) = IF x \in S THEN Cardinality(S) ELSE Cardinality(S) + 1
  /\ \A S, x : IsFiniteSet(S) =>
       /\ IsFiniteSet(S \ {x})
       /\ Cardinality(S \ {x}) = IF x \in S THEN Cardinality(S) - 1 ELSE Cardinality(S)

\* The size of a finite set is a natural number.
LEMMA SizeNat == ASSUME Sizes, NEW S, IsFiniteSet(S) PROVE Cardinality(S) \in Nat
BY Zenon DEF Sizes

\* Only the empty set has size 0.
LEMMA SizeEmpty == ASSUME Sizes
                   PROVE /\ IsFiniteSet({}) /\ Cardinality({}) = 0
                         /\ \A S : IsFiniteSet(S) => (Cardinality(S) = 0 <=> S = {})
BY Zenon DEF Sizes

\* A set of one lock.
LEMMA SizeOne == ASSUME Sizes PROVE \A x : IsFiniteSet({x}) /\ Cardinality({x}) = 1
BY Zenon DEF Sizes

\* One lock more.
LEMMA SizeAdd ==
  ASSUME Sizes, NEW S, NEW x, IsFiniteSet(S)
  PROVE  /\ IsFiniteSet(S \cup {x})
         /\ Cardinality(S \cup {x}) = IF x \in S THEN Cardinality(S) ELSE Cardinality(S) + 1
BY Zenon DEF Sizes

\* One lock less.
LEMMA SizeRemove ==
  ASSUME Sizes, NEW S, NEW x, IsFiniteSet(S)
  PROVE  /\ IsFiniteSet(S \ {x})
         /\ Cardinality(S \ {x}) = IF x \in S THEN Cardinality(S) - 1 ELSE Cardinality(S)
BY Zenon DEF Sizes

-------------------------------------------------------------------------------
(* Sequences.                                                              *)

\* Sequences with the same elements are the same.
LEMMA SameSeq == ASSUME NEW P, NEW u \in Seq(P), NEW v \in Seq(P), Len(u) = Len(v),
                        \A j \in 1..Len(u) : u[j] = v[j]
                 PROVE u = v
OBVIOUS

\* The elements of a sequence behind another one.
LEMMA Joined == ASSUME NEW P, NEW u \in Seq(P), NEW v \in Seq(P)
                PROVE /\ u \o v \in Seq(P) /\ Len(u \o v) = Len(u) + Len(v)
                      /\ \A j \in 1..(Len(u) + Len(v)) :
                           (u \o v)[j] = IF j <= Len(u) THEN u[j] ELSE v[j - Len(u)]
OBVIOUS

\* Nothing is added by the empty sequence.
LEMMA EmptyJoined == ASSUME NEW P, NEW u \in Seq(P) PROVE u \o <<>> = u /\ <<>> \o u = u
OBVIOUS

\* The first element and the others.
LEMMA FirstRest == ASSUME NEW P, NEW u \in Seq(P), u # <<>>
                   PROVE /\ Head(u) \in P /\ Tail(u) \in Seq(P) /\ Len(Tail(u)) = Len(u) - 1
                         /\ \A j \in 1..Len(Tail(u)) : Tail(u)[j] = u[j + 1]
OBVIOUS

\* A sequence that begins with i.
Cons(i, s) == <<i>> \o s

\* A sequence with i in front.
LEMMA ConsFacts ==
  ASSUME NEW i \in Instr, NEW s \in Seq(Instr)
  PROVE  /\ Cons(i, s) \in Seq(Instr) /\ Cons(i, s) # <<>> /\ Len(Cons(i, s)) = Len(s) + 1
         /\ Cons(i, s)[1] = i /\ \A j \in 1..Len(s) : Cons(i, s)[j + 1] = s[j]
         /\ Head(Cons(i, s)) = i /\ Tail(Cons(i, s)) = s
<1>1. <<i>> \in Seq(Instr) /\ Len(<<i>>) = 1 OBVIOUS
<1>2. Cons(i, s) \in Seq(Instr) /\ Len(Cons(i, s)) = Len(s) + 1 BY <1>1 DEF Cons
<1>3. Cons(i, s)[1] = i BY <1>1 DEF Cons
<1>4. \A j \in 1..Len(s) : Cons(i, s)[j + 1] = s[j] BY <1>1 DEF Cons
<1>5. Cons(i, s) # <<>> BY <1>2
<1>6. Head(Cons(i, s)) = i BY <1>2, <1>3, <1>5, FirstRest
<1>7. Tail(Cons(i, s)) = s
  <2>1. /\ Tail(Cons(i, s)) \in Seq(Instr) /\ Len(Tail(Cons(i, s))) = Len(s)
        /\ \A j \in 1..Len(s) : Tail(Cons(i, s))[j] = Cons(i, s)[j + 1]
    BY <1>2, <1>5, FirstRest
  <2>2. \A j \in 1..Len(s) : Tail(Cons(i, s))[j] = s[j] BY Zenon, <1>4, <2>1
  <2> QED BY Zenon, <2>1, <2>2, SameSeq
<1> QED BY Zenon, <1>2, <1>3, <1>4, <1>5, <1>6, <1>7

\* A sequence is its head and its tail.
LEMMA HeadTail ==
  ASSUME NEW s \in Seq(Instr), s # <<>>
  PROVE  Head(s) \in Instr /\ Tail(s) \in Seq(Instr) /\ s = Cons(Head(s), Tail(s))
<1> DEFINE h == Head(s)
           u == Tail(s)
<1>1. /\ h \in Instr /\ u \in Seq(Instr) /\ Len(s) \in Nat /\ Len(u) = Len(s) - 1
      /\ h = s[1] /\ \A j \in 1..Len(u) : u[j] = s[j + 1]
  BY FirstRest
<1> HIDE DEF h, u
<1>2. /\ Cons(h, u) \in Seq(Instr) /\ Len(Cons(h, u)) = Len(u) + 1 /\ Cons(h, u)[1] = h
      /\ \A j \in 1..Len(u) : Cons(h, u)[j + 1] = u[j]
  BY <1>1, ConsFacts, Zenon
<1>3. ASSUME NEW j \in 1..Len(s) PROVE s[j] = Cons(h, u)[j]
  <2>1. CASE j = 1 BY Zenon, <1>1, <1>2, <2>1
  <2>2. CASE j # 1
    <3>1. j - 1 \in 1..Len(u) /\ (j - 1) + 1 = j BY <1>1, <2>2
    <3>2. Cons(h, u)[(j - 1) + 1] = s[(j - 1) + 1] BY <1>1, <1>2, <3>1, Zenon
    <3> QED BY Zenon, <3>1, <3>2
  <2> QED BY Zenon, <2>1, <2>2
<1>4. Len(s) = Len(Cons(h, u)) BY <1>1, <1>2
<1>5. s = Cons(h, u) BY <1>2, <1>3, <1>4, SameSeq, Zenon
<1> QED BY Zenon, <1>1, <1>5 DEF h, u

\* A proof outline is one for the first instruction and one for the rest.
LEMMA LeadsCons ==
  ASSUME NEW t, NEW i \in Instr, NEW s \in Seq(Instr), NEW a \in Note
  PROVE  Leads(t, Cons(i, s), a) <=> \E b \in Note : Legal(t, i, a, b) /\ Leads(t, s, b)
<1> DEFINE n == Len(s)
<1>n. n \in Nat OBVIOUS
<1>c. /\ Len(Cons(i, s)) = n + 1 /\ Cons(i, s)[1] = i
      /\ \A j \in 1..n : Cons(i, s)[j + 1] = s[j]
  BY Zenon, ConsFacts
<1> HIDE DEF n
<1>1. ASSUME Leads(t, Cons(i, s), a) PROVE \E b \in Note : Legal(t, i, a, b) /\ Leads(t, s, b)
  <2>1. PICK A \in [1..(n + 1 + 1) -> Note] :
          /\ A[1] = a /\ Final(t, A[n + 1 + 1])
          /\ \A j \in 1..(n + 1) : Legal(t, Cons(i, s)[j], A[j], A[j + 1])
    BY Zenon, <1>1, <1>c DEF Leads
  <2> DEFINE C == [j \in 1..(n + 1) |-> A[j + 1]]
  <2>2. C \in [1..(n + 1) -> Note] BY <1>n
  <2>3. C[1] = A[2] /\ A[2] \in Note /\ Legal(t, i, a, A[2])
    <3>1. 1 \in 1..(n + 1) /\ 2 \in 1..(n + 1 + 1) /\ 1 + 1 = 2 BY <1>n
    <3>2. Legal(t, Cons(i, s)[1], A[1], A[1 + 1]) BY Zenon, <2>1, <3>1
    <3>3. Legal(t, i, a, A[2]) BY Zenon, <1>c, <2>1, <3>1, <3>2
    <3> QED BY Zenon, <3>1, <3>3
  <2>4. Final(t, C[n + 1]) BY <1>n, <2>1
  <2>5. ASSUME NEW j \in 1..n PROVE Legal(t, s[j], C[j], C[j + 1])
    <3>1. j + 1 \in 1..(n + 1) /\ j \in 1..(n + 1) BY <1>n
    <3>2. Legal(t, Cons(i, s)[j + 1], A[j + 1], A[j + 1 + 1]) BY Zenon, <2>1, <3>1
    <3>3. C[j] = A[j + 1] /\ C[j + 1] = A[j + 1 + 1] BY Zenon, <3>1
    <3> QED BY Zenon, <1>c, <3>2, <3>3
  <2> HIDE DEF C
  <2>6. Leads(t, s, A[2]) BY Zenon, <2>2, <2>3, <2>4, <2>5 DEF Leads, n
  <2> QED BY Zenon, <2>3, <2>6
<1>2. ASSUME NEW b \in Note, Legal(t, i, a, b), Leads(t, s, b) PROVE Leads(t, Cons(i, s), a)
  <2>1. PICK C \in [1..(n + 1) -> Note] :
          /\ C[1] = b /\ Final(t, C[n + 1])
          /\ \A j \in 1..n : Legal(t, s[j], C[j], C[j + 1])
    BY Zenon, <1>2 DEF Leads, n
  <2> DEFINE A == [j \in 1..(n + 1 + 1) |-> IF j = 1 THEN a ELSE C[j - 1]]
  <2>2. A \in [1..(n + 1 + 1) -> Note]
    <3>1. \A j \in 1..(n + 1 + 1) : j # 1 => j - 1 \in 1..(n + 1) BY <1>n
    <3> QED BY Zenon, <3>1
  <2>3. A[1] = a /\ Final(t, A[n + 1 + 1])
    <3>1. A[n + 1 + 1] = C[n + 1] /\ A[1] = a BY <1>n
    <3> QED BY Zenon, <2>1, <3>1
  <2>4. ASSUME NEW j \in 1..(n + 1) PROVE Legal(t, Cons(i, s)[j], A[j], A[j + 1])
    <3>1. A[j + 1] = C[j] BY <1>n
    <3>2. CASE j = 1 BY <1>2, <1>c, <1>n, <2>1, <3>1, <3>2
    <3>3. CASE j # 1
      <4>1. j - 1 \in 1..n /\ (j - 1) + 1 = j BY <1>n, <3>3
      <4>2. Legal(t, s[j - 1], C[j - 1], C[(j - 1) + 1]) BY Zenon, <2>1, <4>1
      <4>3. Cons(i, s)[(j - 1) + 1] = s[j - 1] BY Zenon, <1>c, <4>1
      <4>4. A[j] = C[j - 1] BY <1>n, <3>3
      <4> QED BY Zenon, <3>1, <4>1, <4>2, <4>3, <4>4
    <3> QED BY Zenon, <3>2, <3>3
  <2> HIDE DEF A
  <2> QED BY <2>2, <2>3, <2>4, <1>c, Zenon DEF Leads
<1> QED BY Zenon, <1>1, <1>2

\* A thread with nothing left to execute.
LEMMA LeadsNil == ASSUME NEW t, NEW a \in Note PROVE Leads(t, <<>>, a) <=> Final(t, a)
<1>1. ASSUME Final(t, a) PROVE Leads(t, <<>>, a)
  <2> DEFINE A == [j \in 1..(0 + 1) |-> a]
  <2>1. A \in [1..(0 + 1) -> Note] /\ A[1] = a /\ A[0 + 1] = a OBVIOUS
  <2> HIDE DEF A
  <2> QED BY <1>1, <2>1 DEF Leads
<1>2. ASSUME Leads(t, <<>>, a) PROVE Final(t, a) BY <1>2 DEF Leads
<1> QED BY Zenon, <1>1, <1>2

\* Threads and locks of different kinds are different.
LEMMA SpinFacts ==
  /\ \A c \in CPU : c \notin Proc /\ c \in Thread
  /\ \A p \in Proc : p \notin CPU /\ p \in Thread /\ p \in AnyLock /\ p \notin Lock
  /\ tickslock \in Lock /\ NoCPU \notin CPU /\ Lock \subseteq AnyLock
BY Zenon, SpinLockAssumption DEF Thread, AnyLock

\* Instructions are instructions.
LEMMA InstrType ==
  ASSUME NEW op \in Ops, NEW l \in AnyLock, NEW v \in BOOLEAN
  PROVE  /\ I(op, l, v) \in Instr
         /\ I(op, l, v).op = op /\ I(op, l, v).lk = l /\ I(op, l, v).val = v
BY Zenon DEF I, Instr

\* What the thread on CPU c knows, a, and will know after its next instruction.
Knows(c, a, b) ==
  LET t == on[c] IN
    /\ Legal(t, Head(code[t]), a, b) /\ Leads(t, Tail(code[t]), b)
    /\ Agrees(c, a) /\ a.h = held[t] /\ (t \in Proc => (a.r <=> state[t] # "RUNNING"))

\* A thread with code on a CPU has a note for its next instruction.
LEMMA HeadNote ==
  ASSUME SpinInv, NEW c \in CPU, code[on[c]] # <<>>
  PROVE  /\ on[c] \in Thread /\ Head(code[on[c]]) \in Instr /\ Tail(code[on[c]]) \in Seq(Instr)
         /\ \E a, b \in Note : Knows(c, a, b)
<1>1. on[c] \in Thread /\ code[on[c]] \in Seq(Instr) BY Zenon DEF SpinInv, SpinTypes
<1>2. PICK a \in Note : /\ Leads(on[c], code[on[c]], a) /\ Agrees(c, a) /\ a.h = held[on[c]]
                        /\ on[c] \in Proc => (a.r <=> state[on[c]] # "RUNNING")
  BY Zenon DEF SpinInv, OnInv
<1>3. /\ Head(code[on[c]]) \in Instr /\ Tail(code[on[c]]) \in Seq(Instr)
      /\ code[on[c]] = Cons(Head(code[on[c]]), Tail(code[on[c]]))
  BY Zenon, <1>1, HeadTail
<1>4. PICK b \in Note : Legal(on[c], Head(code[on[c]]), a, b) /\ Leads(on[c], Tail(code[on[c]]), b)
  BY <1>2, <1>3, LeadsCons, Zenon
<1> QED BY Zenon, <1>1, <1>2, <1>3, <1>4 DEF Knows

\* An instruction that leaves the thread on its CPU, with s to execute, keeps
\* what every other thread knows.
LEMMA StepKeeps ==
  ASSUME SpinInv, NEW c \in CPU, NEW s \in Seq(Instr), NEW a \in Note,
         on' = on, code' = [code EXCEPT ![on[c]] = s],
         \A t \in Thread : t # on[c] => held'[t] = held[t],
         \A d \in CPU : d # c => sie'[d] = sie[d] /\ noff'[d] = noff[d] /\ intena'[d] = intena[d],
         \A p \in Proc : p # on[c] => state'[p] = state[p],
         Leads(on[c], s, a), Agrees(c, a)', a.h = held'[on[c]],
         on[c] \in Proc => (a.r <=> state'[on[c]] # "RUNNING")
  PROVE  RunInv' /\ OnInv' /\ OffInv'
<1>t. on \in [CPU -> Thread] /\ code \in [Thread -> Seq(Instr)] BY Zenon DEF SpinInv, SpinTypes
<1>r. RunInv BY Zenon DEF SpinInv
<1>1. RunInv' BY Zenon, <1>r DEF RunInv
<1>2. OnInv'
  <2> SUFFICES ASSUME NEW d \in CPU
               PROVE  (\E x \in Note : /\ Leads(on[d], code[on[d]], x) /\ Agrees(d, x) /\ x.h = held[on[d]]
                                       /\ on[d] \in Proc => (x.r <=> state[on[d]] # "RUNNING"))'
    BY Zenon DEF OnInv
  <2>1. CASE d = c BY Zenon, <1>t, <2>1
  <2>2. CASE d # c
    <3>1. on[d] # on[c] /\ on[d] \in Thread BY Zenon, <1>t, <1>r, <2>2 DEF RunInv
    <3>2. PICK x \in Note : /\ Leads(on[d], code[on[d]], x) /\ Agrees(d, x) /\ x.h = held[on[d]]
                            /\ on[d] \in Proc => (x.r <=> state[on[d]] # "RUNNING")
      BY Zenon DEF SpinInv, OnInv
    <3>3. code'[on'[d]] = code[on[d]] /\ held'[on'[d]] = held[on[d]] /\ on'[d] = on[d] BY Zenon, <1>t, <3>1
    <3>4. Agrees(d, x)' BY <2>2, <3>2 DEF Agrees
    <3> QED BY <3>1, <3>2, <3>3, <3>4
  <2> QED BY Zenon, <2>1, <2>2
<1>3. OffInv'
  <2>1. \A p : Running(p)' <=> Running(p) BY Zenon DEF Running
  <2>2. ASSUME NEW p \in Proc, ~Running(p)
        PROVE  state'[p] # "RUNNING" /\ Leads(p, code'[p], Before({p}, "any", FALSE, "none"))
    <3>1. p # on[c] BY Zenon, <2>2 DEF Running
    <3>2. code'[p] = code[p] /\ state'[p] = state[p] BY Zenon, <1>t, <3>1, SpinFacts
    <3> QED BY <2>2, <3>2, Zenon DEF SpinInv, OffInv
  <2>3. ASSUME NEW d \in CPU, on[d] # d PROVE Leads(d, code'[d], Before({on[d]}, "any", FALSE, "none"))
    <3>1. d # on[c] BY <1>r, <2>3, SpinFacts DEF RunInv
    <3>2. code'[d] = code[d] BY Zenon, <1>t, <3>1, SpinFacts
    <3> QED BY <2>3, <3>2, Zenon DEF SpinInv, OffInv
  <2> QED BY <2>1, <2>2, <2>3, Zenon DEF OffInv
<1> QED BY Zenon, <1>1, <1>2, <1>3

\* An instruction that touches no lock keeps who has which.
LEMMA HolderSame ==
  ASSUME SpinInv, NEW c \in CPU, NEW s \in Seq(Instr),
         on' = on, code' = [code EXCEPT ![on[c]] = s], UNCHANGED <<locked, owner, held>>,
         \A l \in AnyLock : ~At(c, "setcpu", l) /\ ~At(c, "unlock", l),
         s = <<>> \/ Head(s).op # "unlock"
  PROVE  HolderInv'
<1>t. on \in [CPU -> Thread] /\ code \in [Thread -> Seq(Instr)] BY Zenon DEF SpinInv, SpinTypes
<1>r. RunInv /\ HolderInv BY Zenon DEF SpinInv
<1>1. ASSUME NEW d \in CPU, NEW l \in AnyLock, l \in held[on[d]]
      PROVE  owner[l] = d \/ At(d, "setcpu", l)' \/ At(d, "unlock", l)'
  <2>1. CASE d = c BY Zenon, <1>1, <1>r, <2>1 DEF HolderInv
  <2>2. CASE d # c
    <3>1. on[d] # on[c] /\ on[d] \in Thread BY Zenon, <1>t, <1>r, <2>2 DEF RunInv
    <3>2. code'[on'[d]] = code[on[d]] BY Zenon, <1>t, <3>1
    <3> QED BY <1>1, <1>r, <3>2 DEF HolderInv, At
  <2> QED BY Zenon, <2>1, <2>2
<1>2. ASSUME NEW d \in CPU, NEW l \in AnyLock, At(d, "unlock", l)' PROVE owner[l] = NoCPU
  <2>1. CASE d = c BY Zenon, <1>2, <1>t, <2>1 DEF At
  <2>2. CASE d # c
    <3>1. on[d] # on[c] /\ on[d] \in Thread BY Zenon, <1>t, <1>r, <2>2 DEF RunInv
    <3>2. code'[on'[d]] = code[on[d]] BY Zenon, <1>t, <3>1
    <3> QED BY <1>2, <1>r, <3>2 DEF HolderInv, At
  <2> QED BY Zenon, <2>1, <2>2
<1> QED BY Zenon, <1>r, <1>1, <1>2 DEF HolderInv, Running

\* The next instruction of the thread on c is i, and it has notes a and b.
Does(c, op, l, i, a, b) ==
  LET t == on[c] IN
    /\ i = Head(code[t]) /\ i.op = op /\ i.lk = l
    /\ Legal(t, i, a, b) /\ Leads(t, Tail(code[t]), b)
    /\ Agrees(c, a) /\ a.h = held[t] /\ (t \in Proc => (a.r <=> state[t] # "RUNNING"))

\* The same, where the next instruction is known.
LEMMA AtNote ==
  ASSUME SpinInv, NEW c \in CPU, NEW op, NEW l, At(c, op, l)
  PROVE  /\ on[c] \in Thread /\ Tail(code[on[c]]) \in Seq(Instr)
         /\ held[on[c]] \in SUBSET AnyLock /\ IsFiniteSet(held[on[c]])
         /\ \E i \in Instr, a, b \in Note : Does(c, op, l, i, a, b)
<1>1. code[on[c]] # <<>> /\ Head(code[on[c]]).op = op /\ Head(code[on[c]]).lk = l BY Zenon DEF At
<1>2. /\ on[c] \in Thread /\ Head(code[on[c]]) \in Instr /\ Tail(code[on[c]]) \in Seq(Instr)
      /\ \E a, b \in Note : Knows(c, a, b)
  BY Zenon, <1>1, HeadNote
<1>3. held[on[c]] \in SUBSET AnyLock /\ IsFiniteSet(held[on[c]])
  BY Zenon, <1>2 DEF SpinInv, SpinTypes, HolderInv
<1> QED BY <1>1, <1>2, <1>3, Zenon DEF Knows, Does

\* What is at the head of the code is one thing.
LEMMA OneHead ==
  ASSUME NEW c, NEW op, NEW l, At(c, op, l) PROVE \A x, m : At(c, x, m) => x = op /\ m = l
BY Zenon DEF At

\* The type of code when one thread has something else to execute.
LEMMA CodeType ==
  ASSUME SpinTypes, NEW c \in CPU, NEW s \in Seq(Instr), code' = [code EXCEPT ![on[c]] = s]
  PROVE  code' \in [Thread -> Seq(Instr)]
BY Zenon DEF SpinTypes

\* A thread that is in the middle of no acquire() or release() does not begin
\* with a part of one.
LEMMA LeadsHead ==
  ASSUME NEW t, NEW s \in Seq(Instr), NEW b \in Note, Leads(t, s, b), b.k = "none"
  PROVE  s = <<>> \/ Head(s).op \notin {"swap", "setcpu", "unlock", "pop_off"}
<1>1. ASSUME s # <<>> PROVE Head(s).op \notin {"swap", "setcpu", "unlock", "pop_off"}
  <2>1. Head(s) \in Instr /\ Tail(s) \in Seq(Instr) /\ s = Cons(Head(s), Tail(s)) BY Zenon, <1>1, HeadTail
  <2>2. Leads(t, Cons(Head(s), Tail(s)), b) BY <2>1, Zenon
  <2>3. PICK d \in Note : Legal(t, Head(s), b, d) BY <2>1, <2>2, LeadsCons, Zenon
  <2> QED BY Zenon, <2>3 DEF Legal
<1> QED BY Zenon, <1>1

\* After an instruction that leaves the thread on its CPU, with s to execute.
LEMMA AtKeeps ==
  ASSUME SpinInv, NEW c \in CPU, NEW s \in Seq(Instr), on' = on, code' = [code EXCEPT ![on[c]] = s]
  PROVE  /\ \A d \in CPU : on[d] \in Thread /\ (d # c => on[d] # on[c])
         /\ \A d \in CPU : d # c => \A x, m : At(d, x, m)' <=> At(d, x, m)
         /\ \A x, m : At(c, x, m)' <=> s # <<>> /\ Head(s).op = x /\ Head(s).lk = m
<1>t. on \in [CPU -> Thread] /\ code \in [Thread -> Seq(Instr)] BY Zenon DEF SpinInv, SpinTypes
<1>1. \A d \in CPU : on[d] \in Thread /\ (d # c => on[d] # on[c]) BY Zenon, <1>t DEF SpinInv, RunInv
<1>2. ASSUME NEW d \in CPU, d # c PROVE \A x, m : At(d, x, m)' <=> At(d, x, m)
  <2>1. code'[on'[d]] = code[on[d]] BY Zenon, <1>t, <1>1, <1>2
  <2> QED BY <2>1, Zenon DEF At
<1>3. code'[on'[c]] = s BY Zenon, <1>t, <1>1
<1> QED BY <1>1, <1>2, <1>3, Zenon DEF At

\* A thread that is about to clear lk->locked has the lock.
LEMMA UnlockHolds ==
  ASSUME SpinInv, NEW c \in CPU, NEW l, At(c, "unlock", l) PROVE l \in held[on[c]]
<1>1. PICK i \in Instr, a \in Note, b \in Note : Does(c, "unlock", l, i, a, b) BY AtNote, Zenon
<1> QED BY <1>1, Zenon DEF Does, Legal

(* acquire(): the call.                                                    *)
LEMMA AcquireStep == ASSUME Sizes, SpinInv, NEW c \in CPU, NEW l \in AnyLock, acquire_begin(c, l) PROVE SpinInv'
<1>1. /\ on[c] \in Thread /\ Tail(code[on[c]]) \in Seq(Instr)
      /\ held[on[c]] \in SUBSET AnyLock /\ IsFiniteSet(held[on[c]])
      /\ At(c, "acquire", l)
  BY AtNote, Zenon DEF acquire_begin
<1>2. PICK i \in Instr, a \in Note, b \in Note : Does(c, "acquire", l, i, a, b) BY <1>1, AtNote, Zenon
<1>t. SpinTypes BY Zenon DEF SpinInv
<1>e. /\ sie' = sie
      /\ noff' = noff
      /\ intena' = intena
      /\ locked' = locked
      /\ owner' = owner
      /\ held' = held
      /\ on' = on
      /\ state' = state
  BY <1>2, Zenon DEF acquire_begin, cpuVars, lockVars, Val, Does
<1> DEFINE j == I("push_off", l, sie[c])
           s == Cons(j, Tail(code[on[c]]))
<1>3. j \in Instr /\ j.op = "push_off" /\ j.lk = l /\ j.val = sie[c]
  <2>1. "push_off" \in Ops /\ sie[c] \in BOOLEAN BY Zenon, <1>t DEF Ops, SpinTypes
  <2> QED BY <2>1, InstrType, Zenon
<1>s. s \in Seq(Instr) BY <1>1, <1>3, ConsFacts, Zenon
<1>4. code' = [code EXCEPT ![on[c]] = s] BY Zenon DEF acquire_begin, Then, Do, Cons
<1>h. s = <<>> \/ Head(s) = j BY <1>1, <1>3, ConsFacts, Zenon
<1> HIDE DEF j, s
<1> DEFINE n == a
<1>n. n \in Note BY Zenon
<1>l. Legal(on[c], j, n, b)
  <2>0. Cardinality({}) = 0 BY SizeEmpty, Zenon
  <2>1. a.h = {} => noff[c] = 0
    <3>1. noff[c] = Cardinality(a.h) + (IF a.k \in {"swap", "pop_off"} THEN 1 ELSE 0)
      BY <1>2, Zenon DEF Does, Agrees
    <3>2. a.k = "none"
      <4>1. i.op = "acquire" /\ a.k = IF i.op \in {"swap", "setcpu", "unlock", "pop_off"} THEN i.op ELSE "none"
        BY <1>2, Zenon DEF Does, Legal
      <4> QED BY Zenon, <4>1
    <3> QED BY <2>0, <3>1, <3>2
  <2>2. a.h = {} => (a.m = "on" => sie[c]) /\ (a.m = "off" => ~sie[c]) BY Zenon, <1>2, <2>1 DEF Does, Agrees
  <2> QED BY <1>2, <1>3, <2>2 DEF Does, Legal
<1>5. n \in Note /\ Leads(on[c], s, n)
  <2>1. Leads(on[c], Tail(code[on[c]]), b) BY Zenon, <1>2 DEF Does
  <2> QED BY <1>1, <1>3, <1>n, <1>l, <2>1, LeadsCons, Zenon DEF s
<1>7. RunInv' /\ OnInv' /\ OffInv'
  <2>1. Agrees(c, n)'
    BY Zenon, <1>2, <1>e DEF Does, Agrees
  <2>2. \A t \in Thread : t # on[c] => held'[t] = held[t] BY Zenon, <1>e, <1>t DEF SpinTypes
  <2>3. \A d \in CPU : d # c => sie'[d] = sie[d] /\ noff'[d] = noff[d] /\ intena'[d] = intena[d]
    BY Zenon, <1>e, <1>t DEF SpinTypes
  <2>4. on' = on /\ \A p \in Proc : p # on[c] => state'[p] = state[p] BY Zenon, <1>e, <1>t DEF SpinTypes
  <2>5. n.h = held'[on[c]] /\ (on[c] \in Proc => (n.r <=> state'[on[c]] # "RUNNING"))
    BY Zenon, <1>2, <1>e DEF Does
  <2> QED BY <1>s, <1>4, <1>5, <2>1, <2>2, <2>3, <2>4, <2>5, StepKeeps, Zenon
<1>8. HolderInv'
  <2>1. \A m \in AnyLock : ~At(c, "setcpu", m) /\ ~At(c, "unlock", m) BY <1>1, OneHead, Zenon
  <2>2. s = <<>> \/ Head(s).op # "unlock" BY Zenon, <1>h, <1>3
  <2> QED BY <1>e, <1>s, <1>4, <2>1, <2>2, HolderSame, Zenon
<1>9. SpinTypes'
  <2>1. code' \in [Thread -> Seq(Instr)] BY <1>s, <1>4, <1>t, CodeType, Zenon
  <2> QED BY Zenon, <1>e, <1>t, <2>1 DEF SpinTypes
<1> QED BY Zenon, <1>7, <1>8, <1>9 DEF SpinInv

(* push_off(): interrupts are off, and their old state is kept.            *)
LEMMA PushOffStep == ASSUME Sizes, SpinInv, NEW c \in CPU, NEW l \in AnyLock, push_off(c, l) PROVE SpinInv'
<1>1. /\ on[c] \in Thread /\ Tail(code[on[c]]) \in Seq(Instr)
      /\ held[on[c]] \in SUBSET AnyLock /\ IsFiniteSet(held[on[c]])
      /\ At(c, "push_off", l)
  BY AtNote, Zenon DEF push_off
<1>2. PICK i \in Instr, a \in Note, b \in Note : Does(c, "push_off", l, i, a, b) BY <1>1, AtNote, Zenon
<1>t. SpinTypes BY Zenon DEF SpinInv
<1>e. /\ sie' = [sie EXCEPT ![c] = FALSE]
      /\ intena' = [intena EXCEPT ![c] = IF noff[c] = 0 THEN i.val ELSE intena[c]]
      /\ noff' = [noff EXCEPT ![c] = noff[c] + 1]
      /\ locked' = locked
      /\ owner' = owner
      /\ held' = held
      /\ on' = on
      /\ state' = state
  BY <1>2, Zenon DEF push_off, cpuVars, lockVars, Val, Does
<1> DEFINE j == I("swap", l, FALSE)
           s == Cons(j, Tail(code[on[c]]))
<1>3. j \in Instr /\ j.op = "swap" /\ j.lk = l /\ j.val = FALSE
  <2>1. "swap" \in Ops /\ FALSE \in BOOLEAN BY Zenon, <1>t DEF Ops, SpinTypes
  <2> QED BY <2>1, InstrType, Zenon
<1>s. s \in Seq(Instr) BY <1>1, <1>3, ConsFacts, Zenon
<1>4. code' = [code EXCEPT ![on[c]] = s] BY Zenon DEF push_off, Then, Do, Cons
<1>h. s = <<>> \/ Head(s) = j BY <1>1, <1>3, ConsFacts, Zenon
<1> HIDE DEF j, s
<1> DEFINE n == Before(a.h, a.m, FALSE, "swap")
<1>n. n \in Note /\ n.h = a.h /\ n.m = a.m /\ n.r = FALSE /\ n.k = "swap"
  <2>1. a.h \in SUBSET AnyLock /\ a.m \in {"on", "off", "any"} BY Zenon DEF Note
  <2> QED BY Zenon, <2>1 DEF Before, Note
<1> HIDE DEF n
<1>l. Legal(on[c], j, n, b) BY <1>2, <1>3, <1>n, Zenon DEF Does, Legal
<1>5. n \in Note /\ Leads(on[c], s, n)
  <2>1. Leads(on[c], Tail(code[on[c]]), b) BY Zenon, <1>2 DEF Does
  <2> QED BY <1>1, <1>3, <1>n, <1>l, <2>1, LeadsCons, Zenon DEF s
<1>7. RunInv' /\ OnInv' /\ OffInv'
  <2>1. Agrees(c, n)'
    <3>1. /\ sie'[c] = FALSE /\ noff'[c] = noff[c] + 1 /\ noff[c] \in Nat
          /\ intena'[c] = IF noff[c] = 0 THEN i.val ELSE intena[c]
      BY Zenon, <1>t, <1>e DEF SpinTypes
    <3>2. noff[c] = Cardinality(a.h) /\ Cardinality(a.h) \in Nat BY <1>1, <1>2, SizeNat DEF Does, Agrees, Legal
    <3>3. noff[c] = 0 => a.h = {} BY <1>1, <1>2, <3>2, SizeEmpty, Zenon DEF Does
    <3>4. (a.m = "on" => intena'[c]) /\ (a.m = "off" => ~intena'[c]) BY <1>2, <3>1, <3>3, Zenon DEF Does, Agrees, Legal
    <3> QED BY <1>n, <3>1, <3>2, <3>4 DEF Agrees
  <2>2. \A t \in Thread : t # on[c] => held'[t] = held[t] BY Zenon, <1>e, <1>t DEF SpinTypes
  <2>3. \A d \in CPU : d # c => sie'[d] = sie[d] /\ noff'[d] = noff[d] /\ intena'[d] = intena[d]
    BY Zenon, <1>e, <1>t DEF SpinTypes
  <2>4. on' = on /\ \A p \in Proc : p # on[c] => state'[p] = state[p] BY Zenon, <1>e, <1>t DEF SpinTypes
  <2>5. n.h = held'[on[c]] /\ (on[c] \in Proc => (n.r <=> state'[on[c]] # "RUNNING"))
    BY <1>2, <1>n, <1>e, Zenon DEF Does, Legal
  <2> QED BY <1>s, <1>4, <1>5, <2>1, <2>2, <2>3, <2>4, <2>5, StepKeeps, Zenon
<1>8. HolderInv'
  <2>1. \A m \in AnyLock : ~At(c, "setcpu", m) /\ ~At(c, "unlock", m) BY <1>1, OneHead, Zenon
  <2>2. s = <<>> \/ Head(s).op # "unlock" BY Zenon, <1>h, <1>3
  <2> QED BY <1>e, <1>s, <1>4, <2>1, <2>2, HolderSame, Zenon
<1>9. SpinTypes'
  <2>1. code' \in [Thread -> Seq(Instr)] BY <1>s, <1>4, <1>t, CodeType, Zenon
  <2>2. sie' \in [CPU -> BOOLEAN] BY Zenon, <1>e, <1>t DEF SpinTypes
  <2>3. noff' \in [CPU -> Nat] BY <1>e, <1>t DEF SpinTypes
  <2>4. intena' \in [CPU -> BOOLEAN]
    <3>1. PICK v \in BOOLEAN : intena' = [intena EXCEPT ![c] = v]
      <4>1. i.val \in BOOLEAN /\ intena[c] \in BOOLEAN BY Zenon, <1>t DEF Instr, SpinTypes
      <4> QED BY <1>e, <4>1, Zenon
    <3> QED BY Zenon, <3>1, <1>t DEF SpinTypes
  <2> QED BY Zenon, <1>e, <1>t, <2>1, <2>2, <2>3, <2>4 DEF SpinTypes
<1> QED BY Zenon, <1>7, <1>8, <1>9 DEF SpinInv

(* pop_off(): interrupts are as they were when the last lock is gone.      *)
LEMMA PopOffStep == ASSUME Sizes, SpinInv, NEW c \in CPU, NEW l \in AnyLock, pop_off(c, l) PROVE SpinInv'
<1>1. /\ on[c] \in Thread /\ Tail(code[on[c]]) \in Seq(Instr)
      /\ held[on[c]] \in SUBSET AnyLock /\ IsFiniteSet(held[on[c]])
      /\ At(c, "pop_off", l)
  BY AtNote, Zenon DEF pop_off
<1>2. PICK i \in Instr, a \in Note, b \in Note : Does(c, "pop_off", l, i, a, b) BY <1>1, AtNote, Zenon
<1>t. SpinTypes BY Zenon DEF SpinInv
<1>e. /\ noff[c] >= 1
      /\ noff' = [noff EXCEPT ![c] = noff[c] - 1]
      /\ sie' = [sie EXCEPT ![c] = noff[c] = 1 /\ intena[c]]
      /\ intena' = intena
      /\ locked' = locked
      /\ owner' = owner
      /\ held' = held
      /\ on' = on
      /\ state' = state
  BY <1>2, Zenon DEF pop_off, cpuVars, lockVars, Val, Does
<1> DEFINE s == Tail(code[on[c]])
<1>s. s \in Seq(Instr) BY Zenon, <1>1
<1>4. code' = [code EXCEPT ![on[c]] = s]
  <2>1. code' = [code EXCEPT ![on[c]] = <<>> \o s] BY Zenon DEF pop_off, Then
  <2> QED BY Zenon, <1>s, <2>1, EmptyJoined
<1> DEFINE n == b
<1>5. n \in Note /\ Leads(on[c], s, n) BY Zenon, <1>2 DEF Does
<1>h. s = <<>> \/ Head(s).op # "unlock"
  <2>1. b.k = "none" BY Zenon, <1>2 DEF Does, Legal
  <2> QED BY <1>s, <1>5, <2>1, LeadsHead, Zenon
<1> HIDE DEF s
<1>7. RunInv' /\ OnInv' /\ OffInv'
  <2>1. Agrees(c, n)'
    <3>1. /\ noff[c] \in Nat /\ noff[c] >= 1 /\ noff'[c] = noff[c] - 1
          /\ (sie'[c] <=> noff[c] = 1 /\ intena[c]) /\ intena'[c] = intena[c]
      BY <1>t, <1>e, Zenon DEF SpinTypes
    <3>2. noff[c] = Cardinality(b.h) + 1 /\ Cardinality(b.h) \in Nat /\ b.k = "none" /\ b.m = a.m
      BY <1>1, <1>2, SizeNat, Zenon DEF Does, Agrees, Legal
    <3>3. (b.m = "on" => intena[c]) /\ (b.m = "off" => ~intena[c]) BY <1>2, <3>1, <3>2 DEF Does, Agrees
    <3>4. noff'[c] = Cardinality(b.h) /\ (noff'[c] = 0 <=> noff[c] = 1) BY <3>1, <3>2
    <3> QED BY <3>1, <3>2, <3>3, <3>4 DEF Agrees
  <2>2. \A t \in Thread : t # on[c] => held'[t] = held[t] BY Zenon, <1>e, <1>t DEF SpinTypes
  <2>3. \A d \in CPU : d # c => sie'[d] = sie[d] /\ noff'[d] = noff[d] /\ intena'[d] = intena[d]
    BY Zenon, <1>e, <1>t DEF SpinTypes
  <2>4. on' = on /\ \A p \in Proc : p # on[c] => state'[p] = state[p] BY Zenon, <1>e, <1>t DEF SpinTypes
  <2>5. n.h = held'[on[c]] /\ (on[c] \in Proc => (n.r <=> state'[on[c]] # "RUNNING"))
    BY <1>2, <1>e, Zenon DEF Does, Legal
  <2> QED BY <1>s, <1>4, <1>5, <2>1, <2>2, <2>3, <2>4, <2>5, StepKeeps, Zenon
<1>8. HolderInv'
  <2>1. \A m \in AnyLock : ~At(c, "setcpu", m) /\ ~At(c, "unlock", m) BY <1>1, OneHead, Zenon
  <2>2. s = <<>> \/ Head(s).op # "unlock" BY Zenon, <1>h
  <2> QED BY <1>e, <1>s, <1>4, <2>1, <2>2, HolderSame, Zenon
<1>9. SpinTypes'
  <2>1. code' \in [Thread -> Seq(Instr)] BY <1>s, <1>4, <1>t, CodeType, Zenon
  <2>2. sie' \in [CPU -> BOOLEAN] BY Zenon, <1>e, <1>t DEF SpinTypes
  <2>3. noff' \in [CPU -> Nat] BY <1>e, <1>t DEF SpinTypes
  <2> QED BY Zenon, <1>e, <1>t, <2>1, <2>2, <2>3 DEF SpinTypes
<1> QED BY Zenon, <1>7, <1>8, <1>9 DEF SpinInv

(* The end of sched(): intena is that of the process again.                *)
LEMMA ResumeStep == ASSUME Sizes, SpinInv, NEW c \in CPU, NEW l \in AnyLock, resume(c, l) PROVE SpinInv'
<1>1. /\ on[c] \in Thread /\ Tail(code[on[c]]) \in Seq(Instr)
      /\ held[on[c]] \in SUBSET AnyLock /\ IsFiniteSet(held[on[c]])
      /\ At(c, "resume", l)
  BY AtNote, Zenon DEF resume
<1>2. PICK i \in Instr, a \in Note, b \in Note : Does(c, "resume", l, i, a, b) BY <1>1, AtNote, Zenon
<1>t. SpinTypes BY Zenon DEF SpinInv
<1>e. /\ intena' = [intena EXCEPT ![c] = i.val]
      /\ sie' = sie
      /\ noff' = noff
      /\ locked' = locked
      /\ owner' = owner
      /\ held' = held
      /\ on' = on
      /\ state' = state
  BY <1>2, Zenon DEF resume, cpuVars, lockVars, Val, Does
<1> DEFINE s == Tail(code[on[c]])
<1>s. s \in Seq(Instr) BY Zenon, <1>1
<1>4. code' = [code EXCEPT ![on[c]] = s]
  <2>1. code' = [code EXCEPT ![on[c]] = <<>> \o s] BY Zenon DEF resume, Then
  <2> QED BY Zenon, <1>s, <2>1, EmptyJoined
<1> DEFINE n == b
<1>5. n \in Note /\ Leads(on[c], s, n) BY Zenon, <1>2 DEF Does
<1>h. s = <<>> \/ Head(s).op # "unlock"
  <2>1. b.k = "none" BY Zenon, <1>2 DEF Does, Legal
  <2> QED BY <1>s, <1>5, <2>1, LeadsHead, Zenon
<1> HIDE DEF s
<1>7. RunInv' /\ OnInv' /\ OffInv'
  <2>1. Agrees(c, n)'
    <3>1. sie'[c] = sie[c] /\ noff'[c] = noff[c] /\ intena'[c] = i.val
      BY Zenon, <1>t, <1>e DEF SpinTypes
    <3>2. a.h = {on[c]} /\ b.h = {on[c]} /\ a.k = "none" /\ b.k = "none" /\ (b.m = IF i.val THEN "on" ELSE "off")
      BY <1>2, Zenon DEF Does, Legal
    <3>3. noff[c] = Cardinality(a.h) + 0 /\ (sie[c] => noff[c] = 0) BY Zenon, <1>2, <3>2 DEF Does, Agrees
    <3>4. Cardinality({on[c]}) = 1 BY SizeOne, Zenon
    <3>5. noff[c] = 1 BY <3>2, <3>3, <3>4
    <3> QED BY Zenon, <3>1, <3>2, <3>3, <3>4, <3>5 DEF Agrees
  <2>2. \A t \in Thread : t # on[c] => held'[t] = held[t] BY Zenon, <1>e, <1>t DEF SpinTypes
  <2>3. \A d \in CPU : d # c => sie'[d] = sie[d] /\ noff'[d] = noff[d] /\ intena'[d] = intena[d]
    BY Zenon, <1>e, <1>t DEF SpinTypes
  <2>4. on' = on /\ \A p \in Proc : p # on[c] => state'[p] = state[p] BY Zenon, <1>e, <1>t DEF SpinTypes
  <2>5. n.h = held'[on[c]] /\ (on[c] \in Proc => (n.r <=> state'[on[c]] # "RUNNING"))
    BY <1>2, <1>e, Zenon DEF Does, Legal
  <2> QED BY <1>s, <1>4, <1>5, <2>1, <2>2, <2>3, <2>4, <2>5, StepKeeps, Zenon
<1>8. HolderInv'
  <2>1. \A m \in AnyLock : ~At(c, "setcpu", m) /\ ~At(c, "unlock", m) BY <1>1, OneHead, Zenon
  <2>2. s = <<>> \/ Head(s).op # "unlock" BY Zenon, <1>h
  <2> QED BY <1>e, <1>s, <1>4, <2>1, <2>2, HolderSame, Zenon
<1>9. SpinTypes'
  <2>1. code' \in [Thread -> Seq(Instr)] BY <1>s, <1>4, <1>t, CodeType, Zenon
  <2>2. intena' \in [CPU -> BOOLEAN]
    <3>1. PICK v \in BOOLEAN : intena' = [intena EXCEPT ![c] = v]
      <4>1. i.val \in BOOLEAN /\ intena[c] \in BOOLEAN BY Zenon, <1>t DEF Instr, SpinTypes
      <4> QED BY <1>e, <4>1, Zenon
    <3> QED BY Zenon, <3>1, <1>t DEF SpinTypes
  <2> QED BY Zenon, <1>e, <1>t, <2>1, <2>2 DEF SpinTypes
<1> QED BY Zenon, <1>7, <1>8, <1>9 DEF SpinInv

(* The atomic swap of acquire().                                           *)
LEMMA SwapStep == ASSUME Sizes, SpinInv, NEW c \in CPU, NEW l \in AnyLock, swap(c, l) PROVE SpinInv'
<1>1. /\ on[c] \in Thread /\ Tail(code[on[c]]) \in Seq(Instr)
      /\ held[on[c]] \in SUBSET AnyLock /\ IsFiniteSet(held[on[c]])
      /\ At(c, "swap", l)
  BY AtNote, Zenon DEF swap
<1>2. PICK i \in Instr, a \in Note, b \in Note : Does(c, "swap", l, i, a, b) BY <1>1, AtNote, Zenon
<1>t. SpinTypes BY Zenon DEF SpinInv
<1>e. /\ ~locked[l]
      /\ locked' = [locked EXCEPT ![l] = TRUE]
      /\ held' = [held EXCEPT ![on[c]] = held[on[c]] \cup {l}]
      /\ sie' = sie
      /\ noff' = noff
      /\ intena' = intena
      /\ owner' = owner
      /\ on' = on
      /\ state' = state
  BY <1>2, Zenon DEF swap, cpuVars, lockVars, Val, Does
<1> DEFINE j == I("setcpu", l, FALSE)
           s == Cons(j, Tail(code[on[c]]))
<1>3. j \in Instr /\ j.op = "setcpu" /\ j.lk = l /\ j.val = FALSE
  <2>1. "setcpu" \in Ops /\ FALSE \in BOOLEAN BY Zenon, <1>t DEF Ops, SpinTypes
  <2> QED BY <2>1, InstrType, Zenon
<1>s. s \in Seq(Instr) BY <1>1, <1>3, ConsFacts, Zenon
<1>4. code' = [code EXCEPT ![on[c]] = s] BY Zenon DEF swap, Then, Do, Cons
<1>h. s = <<>> \/ Head(s) = j BY <1>1, <1>3, ConsFacts, Zenon
<1> HIDE DEF j, s
<1> DEFINE n == Before(a.h \cup {l}, a.m, FALSE, "setcpu")
<1>n. n \in Note /\ n.h = a.h \cup {l} /\ n.m = a.m /\ n.r = FALSE /\ n.k = "setcpu"
  <2>1. a.h \cup {l} \in SUBSET AnyLock /\ a.m \in {"on", "off", "any"} BY Zenon DEF Note
  <2> QED BY Zenon, <2>1 DEF Before, Note
<1> HIDE DEF n
<1>l. Legal(on[c], j, n, b) BY <1>2, <1>3, <1>n, Zenon DEF Does, Legal
<1>5. n \in Note /\ Leads(on[c], s, n)
  <2>1. Leads(on[c], Tail(code[on[c]]), b) BY Zenon, <1>2 DEF Does
  <2> QED BY <1>1, <1>3, <1>n, <1>l, <2>1, LeadsCons, Zenon DEF s
<1>7. RunInv' /\ OnInv' /\ OffInv'
  <2>1. Agrees(c, n)'
    <3>1. a.k = "swap" /\ l \notin a.h /\ IsFiniteSet(a.h) BY <1>1, <1>2, Zenon DEF Does, Legal
    <3>2. Cardinality(a.h \cup {l}) = Cardinality(a.h) + 1 BY <3>1, SizeAdd, Zenon
    <3>3. Cardinality(a.h) \in Nat BY <3>1, SizeNat, Zenon
    <3>4. noff[c] = Cardinality(n.h) + 0 BY <1>2, <1>n, <3>1, <3>2, <3>3 DEF Does, Agrees
    <3> QED BY Zenon, <1>2, <1>n, <1>e, <3>4 DEF Does, Agrees
  <2>2. \A t \in Thread : t # on[c] => held'[t] = held[t] BY Zenon, <1>e, <1>t DEF SpinTypes
  <2>3. \A d \in CPU : d # c => sie'[d] = sie[d] /\ noff'[d] = noff[d] /\ intena'[d] = intena[d]
    BY Zenon, <1>e, <1>t DEF SpinTypes
  <2>4. on' = on /\ \A p \in Proc : p # on[c] => state'[p] = state[p] BY Zenon, <1>e, <1>t DEF SpinTypes
  <2>5. n.h = held'[on[c]] /\ (on[c] \in Proc => (n.r <=> state'[on[c]] # "RUNNING"))
    
    <3>1. held'[on[c]] = held[on[c]] \cup {l} BY Zenon, <1>1, <1>e, <1>t DEF SpinTypes
    <3> QED BY <1>2, <1>n, <1>e, <3>1, Zenon DEF Does, Legal
  <2> QED BY <1>s, <1>4, <1>5, <2>1, <2>2, <2>3, <2>4, <2>5, StepKeeps, Zenon
<1>8. HolderInv'
  <2>a. /\ \A d \in CPU : on[d] \in Thread /\ (d # c => on[d] # on[c])
        /\ \A d \in CPU : d # c => \A x, m : At(d, x, m)' <=> At(d, x, m)
        /\ \A x, m : At(c, x, m)' <=> s # <<>> /\ Head(s).op = x /\ Head(s).lk = m
    BY <1>e, <1>s, <1>4, AtKeeps, Zenon
  <2>h. HolderInv BY Zenon DEF SpinInv
  <2>i. \A x, t \in Thread : \A m : m \in held[x] /\ m \in held[t] => x = t BY <2>h, Zenon DEF HolderInv
  <2>b. /\ held'[on[c]] = held[on[c]] \cup {l}
        /\ \A t \in Thread : t # on[c] => held'[t] = held[t]
    BY Zenon, <1>1, <1>e, <1>t DEF SpinTypes
  <2>c. \A t \in Thread : l \notin held[t] BY <1>e, <2>h, Zenon DEF HolderInv
  <2>d. \A m \in AnyLock : ~At(c, "setcpu", m) /\ ~At(c, "unlock", m) BY <1>1, OneHead, Zenon
  <2>1. \A x, t \in Thread : held'[x] \cap held'[t] # {} => x = t
    <3> SUFFICES ASSUME NEW x \in Thread, NEW t \in Thread, NEW m, m \in held'[x], m \in held'[t] PROVE x = t
      BY Zenon
    <3>1. CASE m = l BY <2>b, <2>c, <3>1, Zenon
    <3>2. CASE m # l
      <4>1. m \in held[x] /\ m \in held[t] BY <2>b, <3>2
      <4> QED BY <2>i, <4>1, Zenon
    <3> QED BY Zenon, <3>1, <3>2
  <2>2. \A t \in Thread : IsFiniteSet(held'[t]) /\ (held'[t] # {} => Running(t)')
    <3>1. Running(on[c]) /\ (\A t : Running(t)' <=> Running(t)) BY <1>e, Zenon DEF Running
    <3>2. IsFiniteSet(held[on[c]] \cup {l}) BY <1>1, SizeAdd, Zenon
    <3> QED BY <2>b, <2>h, <3>1, <3>2, Zenon DEF HolderInv
  <2>3. \A m \in AnyLock : locked'[m] <=> \E t \in Thread : m \in held'[t]
    BY <1>1, <1>e, <1>t, <2>b, <2>h DEF HolderInv, SpinTypes
  <2>4. \A m \in AnyLock : owner'[m] # NoCPU => m \in held'[on'[owner'[m]]]
    <3> SUFFICES ASSUME NEW m \in AnyLock, owner'[m] # NoCPU PROVE m \in held'[on'[owner'[m]]] BY Zenon
    <3>1. m \in held[on[owner[m]]] /\ owner[m] \in CPU BY <1>e, <1>t, <2>h DEF HolderInv, SpinTypes
    <3> QED BY <1>e, <2>a, <2>b, <3>1, Zenon
  <2>5. ASSUME NEW d \in CPU, NEW m \in AnyLock, m \in held'[on'[d]]
        PROVE  owner'[m] = d \/ At(d, "setcpu", m)' \/ At(d, "unlock", m)'
    <3>1. CASE d = c
      <4>1. m \in held[on[c]] => owner[m] = c BY <2>h, <2>d, Zenon DEF HolderInv
      <4>2. m = l => At(c, "setcpu", m)' BY <1>1, <1>3, <1>h, <2>a, ConsFacts, Zenon DEF s
      <4> QED BY <1>e, <2>5, <2>a, <2>b, <3>1, <4>1, <4>2, Zenon
    <3>2. CASE d # c
      <4>1. m \in held[on[d]] BY <1>e, <2>5, <2>a, <2>b, <3>2, Zenon
      <4>2. owner[m] = d \/ At(d, "setcpu", m) \/ At(d, "unlock", m) BY <2>h, <4>1, Zenon DEF HolderInv
      <4> QED BY <1>e, <2>a, <3>2, <4>2, Zenon
    <3> QED BY Zenon, <3>1, <3>2
  <2>6. ASSUME NEW d \in CPU, NEW m \in AnyLock, At(d, "unlock", m)' PROVE owner'[m] = NoCPU
    <3>1. d # c BY Zenon, <1>3, <1>h, <2>6, <2>a
    <3> QED BY <1>e, <2>6, <2>a, <2>h, <3>1, Zenon DEF HolderInv
  <2> QED BY <2>1, <2>2, <2>3, <2>4, <2>5, <2>6, Zenon DEF HolderInv
<1>9. SpinTypes'
  <2>1. code' \in [Thread -> Seq(Instr)] BY <1>s, <1>4, <1>t, CodeType, Zenon
  <2>2. locked' \in [AnyLock -> BOOLEAN] BY Zenon, <1>e, <1>t DEF SpinTypes
  <2>3. held' \in [Thread -> SUBSET AnyLock] BY Zenon, <1>e, <1>t DEF SpinTypes
  <2> QED BY Zenon, <1>e, <1>t, <2>1, <2>2, <2>3 DEF SpinTypes
<1> QED BY Zenon, <1>7, <1>8, <1>9 DEF SpinInv

(* lk->cpu = mycpu().                                                      *)
LEMMA SetCpuStep == ASSUME SpinInv, NEW c \in CPU, NEW l \in AnyLock, setcpu(c, l) PROVE SpinInv'
<1>1. /\ on[c] \in Thread /\ Tail(code[on[c]]) \in Seq(Instr)
      /\ held[on[c]] \in SUBSET AnyLock /\ IsFiniteSet(held[on[c]])
      /\ At(c, "setcpu", l)
  BY AtNote, Zenon DEF setcpu
<1>2. PICK i \in Instr, a \in Note, b \in Note : Does(c, "setcpu", l, i, a, b) BY <1>1, AtNote, Zenon
<1>t. SpinTypes BY Zenon DEF SpinInv
<1>e. /\ owner' = [owner EXCEPT ![l] = c]
      /\ sie' = sie
      /\ noff' = noff
      /\ intena' = intena
      /\ locked' = locked
      /\ held' = held
      /\ on' = on
      /\ state' = state
  BY <1>2, Zenon DEF setcpu, cpuVars, lockVars, Val, Does
<1> DEFINE s == Tail(code[on[c]])
<1>s. s \in Seq(Instr) BY Zenon, <1>1
<1>4. code' = [code EXCEPT ![on[c]] = s]
  <2>1. code' = [code EXCEPT ![on[c]] = <<>> \o s] BY Zenon DEF setcpu, Then
  <2> QED BY Zenon, <1>s, <2>1, EmptyJoined
<1> DEFINE n == b
<1>5. n \in Note /\ Leads(on[c], s, n) BY Zenon, <1>2 DEF Does
<1>h. s = <<>> \/ Head(s).op # "unlock"
  <2>1. b.k = "none" BY Zenon, <1>2 DEF Does, Legal
  <2> QED BY <1>s, <1>5, <2>1, LeadsHead, Zenon
<1> HIDE DEF s
<1>7. RunInv' /\ OnInv' /\ OffInv'
  <2>1. Agrees(c, n)'
    <3>1. n.m = a.m /\ n.h = a.h /\ n.k \notin {"swap", "pop_off"} /\ a.k \notin {"swap", "pop_off"}
      BY <1>2, Zenon DEF Does, Legal
    <3>2. Agrees(c, a) BY <1>2, Zenon DEF Does
    <3> QED BY Zenon, <1>e, <3>1, <3>2 DEF Agrees
  <2>2. \A t \in Thread : t # on[c] => held'[t] = held[t] BY Zenon, <1>e, <1>t DEF SpinTypes
  <2>3. \A d \in CPU : d # c => sie'[d] = sie[d] /\ noff'[d] = noff[d] /\ intena'[d] = intena[d]
    BY Zenon, <1>e, <1>t DEF SpinTypes
  <2>4. on' = on /\ \A p \in Proc : p # on[c] => state'[p] = state[p] BY Zenon, <1>e, <1>t DEF SpinTypes
  <2>5. n.h = held'[on[c]] /\ (on[c] \in Proc => (n.r <=> state'[on[c]] # "RUNNING"))
    BY <1>2, <1>e, Zenon DEF Does, Legal
  <2> QED BY <1>s, <1>4, <1>5, <2>1, <2>2, <2>3, <2>4, <2>5, StepKeeps, Zenon
<1>8. HolderInv'
  <2>a. /\ \A d \in CPU : on[d] \in Thread /\ (d # c => on[d] # on[c])
        /\ \A d \in CPU : d # c => \A x, m : At(d, x, m)' <=> At(d, x, m)
        /\ \A x, m : At(c, x, m)' <=> s # <<>> /\ Head(s).op = x /\ Head(s).lk = m
    BY <1>e, <1>s, <1>4, AtKeeps, Zenon
  <2>h. HolderInv BY Zenon DEF SpinInv
  <2>i. \A x, t \in Thread : \A m : m \in held[x] /\ m \in held[t] => x = t BY <2>h, Zenon DEF HolderInv
  <2>b. owner'[l] = c /\ \A m \in AnyLock : m # l => owner'[m] = owner[m] BY Zenon, <1>e, <1>t DEF SpinTypes
  <2>c. l \in held[on[c]] BY <1>2, Zenon DEF Does, Legal
  <2>1. \A x, t \in Thread : held'[x] \cap held'[t] # {} => x = t
    BY <1>e, <2>h, Zenon DEF HolderInv
  <2>2. \A t \in Thread : IsFiniteSet(held'[t]) /\ (held'[t] # {} => Running(t)')
    BY <1>e, <2>h, Zenon DEF HolderInv, Running
  <2>3. \A m \in AnyLock : locked'[m] <=> \E t \in Thread : m \in held'[t]
    BY <1>e, <2>h, Zenon DEF HolderInv
  <2>4. \A m \in AnyLock : owner'[m] # NoCPU => m \in held'[on'[owner'[m]]]
    <3> SUFFICES ASSUME NEW m \in AnyLock, owner'[m] # NoCPU PROVE m \in held[on[owner'[m]]] BY Zenon, <1>e
    <3>1. CASE m = l BY Zenon, <2>b, <2>c, <3>1
    <3>2. CASE m # l BY Zenon, <2>b, <2>h, <3>2 DEF HolderInv
    <3> QED BY Zenon, <3>1, <3>2
  <2>5. ASSUME NEW d \in CPU, NEW m \in AnyLock, m \in held'[on'[d]]
        PROVE  owner'[m] = d \/ At(d, "setcpu", m)' \/ At(d, "unlock", m)'
    <3>1. m \in held[on[d]] /\ on[d] \in Thread BY Zenon, <1>e, <2>5, <2>a
    <3>2. CASE m = l
      <4>1. on[d] = on[c] BY <1>1, <2>c, <2>h, <3>1, <3>2, Zenon DEF HolderInv
      <4> QED BY <2>a, <2>b, <3>2, <4>1, Zenon
    <3>3. CASE m # l
      <4>1. owner'[m] = owner[m] BY Zenon, <2>b, <3>3
      <4>2. ~At(c, "setcpu", m) /\ ~At(c, "unlock", m) BY <1>1, <3>3, OneHead, Zenon
      <4>3. owner[m] = d \/ At(d, "setcpu", m) \/ At(d, "unlock", m) BY <2>h, <3>1, Zenon DEF HolderInv
      <4> QED BY <2>a, <4>1, <4>2, <4>3, Zenon
    <3> QED BY Zenon, <3>2, <3>3
  <2>6. ASSUME NEW d \in CPU, NEW m \in AnyLock, At(d, "unlock", m)' PROVE owner'[m] = NoCPU
    <3>1. d # c BY Zenon, <1>h, <2>6, <2>a
    <3>2. At(d, "unlock", m) BY <2>6, <2>a, <3>1, Zenon
    <3>3. m # l
      <4>1. m \in held[on[d]] BY <3>2, UnlockHolds, Zenon
      <4>2. on[d] \in Thread /\ on[c] \in Thread /\ on[d] # on[c] BY <2>a, <3>1, Zenon
      <4> QED BY Zenon, <2>c, <2>i, <4>1, <4>2
    <3> QED BY <2>b, <2>h, <3>2, <3>3, Zenon DEF HolderInv
  <2> QED BY <2>1, <2>2, <2>3, <2>4, <2>5, <2>6, Zenon DEF HolderInv
<1>9. SpinTypes'
  <2>1. code' \in [Thread -> Seq(Instr)] BY <1>s, <1>4, <1>t, CodeType, Zenon
  <2>2. owner' \in [AnyLock -> CPU \cup {NoCPU}] BY Zenon, <1>e, <1>t DEF SpinTypes
  <2> QED BY Zenon, <1>e, <1>t, <2>1, <2>2 DEF SpinTypes
<1> QED BY Zenon, <1>7, <1>8, <1>9 DEF SpinInv

(* release(): the check, and lk->cpu = 0.                                  *)
LEMMA ReleaseStep == ASSUME SpinInv, NEW c \in CPU, NEW l \in AnyLock, release_begin(c, l) PROVE SpinInv'
<1>1. /\ on[c] \in Thread /\ Tail(code[on[c]]) \in Seq(Instr)
      /\ held[on[c]] \in SUBSET AnyLock /\ IsFiniteSet(held[on[c]])
      /\ At(c, "release", l)
  BY AtNote, Zenon DEF release_begin
<1>2. PICK i \in Instr, a \in Note, b \in Note : Does(c, "release", l, i, a, b) BY <1>1, AtNote, Zenon
<1>t. SpinTypes BY Zenon DEF SpinInv
<1>e. /\ owner' = [owner EXCEPT ![l] = NoCPU]
      /\ sie' = sie
      /\ noff' = noff
      /\ intena' = intena
      /\ locked' = locked
      /\ held' = held
      /\ on' = on
      /\ state' = state
  BY <1>2, Zenon DEF release_begin, cpuVars, lockVars, Val, Does
<1> DEFINE j == I("unlock", l, FALSE)
           s == Cons(j, Tail(code[on[c]]))
<1>3. j \in Instr /\ j.op = "unlock" /\ j.lk = l /\ j.val = FALSE
  <2>1. "unlock" \in Ops /\ FALSE \in BOOLEAN BY Zenon, <1>t DEF Ops, SpinTypes
  <2> QED BY <2>1, InstrType, Zenon
<1>s. s \in Seq(Instr) BY <1>1, <1>3, ConsFacts, Zenon
<1>4. code' = [code EXCEPT ![on[c]] = s] BY Zenon DEF release_begin, Then, Do, Cons
<1>h. s = <<>> \/ Head(s) = j BY <1>1, <1>3, ConsFacts, Zenon
<1> HIDE DEF j, s
<1> DEFINE n == Before(a.h, a.m, FALSE, "unlock")
<1>n. n \in Note /\ n.h = a.h /\ n.m = a.m /\ n.r = FALSE /\ n.k = "unlock"
  <2>1. a.h \in SUBSET AnyLock /\ a.m \in {"on", "off", "any"} BY Zenon DEF Note
  <2> QED BY Zenon, <2>1 DEF Before, Note
<1> HIDE DEF n
<1>l. Legal(on[c], j, n, b) BY <1>2, <1>3, <1>n, Zenon DEF Does, Legal
<1>5. n \in Note /\ Leads(on[c], s, n)
  <2>1. Leads(on[c], Tail(code[on[c]]), b) BY Zenon, <1>2 DEF Does
  <2> QED BY <1>1, <1>3, <1>n, <1>l, <2>1, LeadsCons, Zenon DEF s
<1>7. RunInv' /\ OnInv' /\ OffInv'
  <2>1. Agrees(c, n)'
    <3>1. n.m = a.m /\ n.h = a.h /\ n.k \notin {"swap", "pop_off"} /\ a.k \notin {"swap", "pop_off"}
      BY <1>2, <1>n, Zenon DEF Does, Legal
    <3>2. Agrees(c, a) BY <1>2, Zenon DEF Does
    <3> QED BY Zenon, <1>e, <3>1, <3>2 DEF Agrees
  <2>2. \A t \in Thread : t # on[c] => held'[t] = held[t] BY Zenon, <1>e, <1>t DEF SpinTypes
  <2>3. \A d \in CPU : d # c => sie'[d] = sie[d] /\ noff'[d] = noff[d] /\ intena'[d] = intena[d]
    BY Zenon, <1>e, <1>t DEF SpinTypes
  <2>4. on' = on /\ \A p \in Proc : p # on[c] => state'[p] = state[p] BY Zenon, <1>e, <1>t DEF SpinTypes
  <2>5. n.h = held'[on[c]] /\ (on[c] \in Proc => (n.r <=> state'[on[c]] # "RUNNING"))
    BY <1>2, <1>n, <1>e, Zenon DEF Does, Legal
  <2> QED BY <1>s, <1>4, <1>5, <2>1, <2>2, <2>3, <2>4, <2>5, StepKeeps, Zenon
<1>8. HolderInv'
  <2>a. /\ \A d \in CPU : on[d] \in Thread /\ (d # c => on[d] # on[c])
        /\ \A d \in CPU : d # c => \A x, m : At(d, x, m)' <=> At(d, x, m)
        /\ \A x, m : At(c, x, m)' <=> s # <<>> /\ Head(s).op = x /\ Head(s).lk = m
    BY <1>e, <1>s, <1>4, AtKeeps, Zenon
  <2>h. HolderInv BY Zenon DEF SpinInv
  <2>i. \A x, t \in Thread : \A m : m \in held[x] /\ m \in held[t] => x = t BY <2>h, Zenon DEF HolderInv
  <2>b. owner'[l] = NoCPU /\ \A m \in AnyLock : m # l => owner'[m] = owner[m] BY Zenon, <1>e, <1>t DEF SpinTypes
  <2>c. l \in held[on[c]] BY <1>2, Zenon DEF Does, Legal
  <2>d. \A m \in AnyLock : ~At(c, "setcpu", m) /\ ~At(c, "unlock", m) BY <1>1, OneHead, Zenon
  <2>e. s # <<>> /\ Head(s).op = "unlock" /\ Head(s).lk = l BY <1>1, <1>3, ConsFacts, Zenon DEF s
  <2>1. \A x, t \in Thread : held'[x] \cap held'[t] # {} => x = t
    BY <1>e, <2>h, Zenon DEF HolderInv
  <2>2. \A t \in Thread : IsFiniteSet(held'[t]) /\ (held'[t] # {} => Running(t)')
    BY <1>e, <2>h, Zenon DEF HolderInv, Running
  <2>3. \A m \in AnyLock : locked'[m] <=> \E t \in Thread : m \in held'[t]
    BY <1>e, <2>h, Zenon DEF HolderInv
  <2>4. \A m \in AnyLock : owner'[m] # NoCPU => m \in held'[on'[owner'[m]]]
    <3> SUFFICES ASSUME NEW m \in AnyLock, owner'[m] # NoCPU PROVE m \in held[on[owner'[m]]] BY Zenon, <1>e
    <3>1. m # l BY Zenon, <2>b
    <3> QED BY Zenon, <2>b, <2>h, <3>1 DEF HolderInv
  <2>5. ASSUME NEW d \in CPU, NEW m \in AnyLock, m \in held'[on'[d]]
        PROVE  owner'[m] = d \/ At(d, "setcpu", m)' \/ At(d, "unlock", m)'
    <3>1. m \in held[on[d]] /\ on[d] \in Thread BY Zenon, <1>e, <2>5, <2>a
    <3>2. CASE m = l
      <4>1. on[d] = on[c] BY <1>1, <2>c, <2>h, <3>1, <3>2, Zenon DEF HolderInv
      <4>2. d = c BY Zenon, <2>a, <4>1
      <4> QED BY <2>a, <2>e, <3>2, <4>2, Zenon
    <3>3. CASE m # l
      <4>1. owner'[m] = owner[m] BY Zenon, <2>b, <3>3
      <4>2. ~At(c, "setcpu", m) /\ ~At(c, "unlock", m) BY Zenon, <2>d
      <4>3. owner[m] = d \/ At(d, "setcpu", m) \/ At(d, "unlock", m) BY <2>h, <3>1, Zenon DEF HolderInv
      <4> QED BY <2>a, <4>1, <4>2, <4>3, Zenon
    <3> QED BY Zenon, <3>2, <3>3
  <2>6. ASSUME NEW d \in CPU, NEW m \in AnyLock, At(d, "unlock", m)' PROVE owner'[m] = NoCPU
    <3>1. CASE m = l BY Zenon, <2>b, <3>1
    <3>2. CASE m # l
      <4>1. d # c BY <2>6, <2>a, <2>e, <3>2, Zenon
      <4>2. At(d, "unlock", m) BY <2>6, <2>a, <4>1, Zenon
      <4> QED BY <2>b, <2>h, <3>2, <4>2, Zenon DEF HolderInv
    <3> QED BY Zenon, <3>1, <3>2
  <2> QED BY <2>1, <2>2, <2>3, <2>4, <2>5, <2>6, Zenon DEF HolderInv
<1>9. SpinTypes'
  <2>1. code' \in [Thread -> Seq(Instr)] BY <1>s, <1>4, <1>t, CodeType, Zenon
  <2>2. owner' \in [AnyLock -> CPU \cup {NoCPU}] BY Zenon, <1>e, <1>t DEF SpinTypes
  <2> QED BY Zenon, <1>e, <1>t, <2>1, <2>2 DEF SpinTypes
<1> QED BY Zenon, <1>7, <1>8, <1>9 DEF SpinInv

(* lk->locked = 0.                                                         *)
LEMMA UnlockStep == ASSUME Sizes, SpinInv, NEW c \in CPU, NEW l \in AnyLock, unlock(c, l) PROVE SpinInv'
<1>1. /\ on[c] \in Thread /\ Tail(code[on[c]]) \in Seq(Instr)
      /\ held[on[c]] \in SUBSET AnyLock /\ IsFiniteSet(held[on[c]])
      /\ At(c, "unlock", l)
  BY AtNote, Zenon DEF unlock
<1>2. PICK i \in Instr, a \in Note, b \in Note : Does(c, "unlock", l, i, a, b) BY <1>1, AtNote, Zenon
<1>t. SpinTypes BY Zenon DEF SpinInv
<1>e. /\ locked' = [locked EXCEPT ![l] = FALSE]
      /\ held' = [held EXCEPT ![on[c]] = held[on[c]] \ {l}]
      /\ sie' = sie
      /\ noff' = noff
      /\ intena' = intena
      /\ owner' = owner
      /\ on' = on
      /\ state' = state
  BY <1>2, Zenon DEF unlock, cpuVars, lockVars, Val, Does
<1> DEFINE j == I("pop_off", l, FALSE)
           s == Cons(j, Tail(code[on[c]]))
<1>3. j \in Instr /\ j.op = "pop_off" /\ j.lk = l /\ j.val = FALSE
  <2>1. "pop_off" \in Ops /\ FALSE \in BOOLEAN BY Zenon, <1>t DEF Ops, SpinTypes
  <2> QED BY <2>1, InstrType, Zenon
<1>s. s \in Seq(Instr) BY <1>1, <1>3, ConsFacts, Zenon
<1>4. code' = [code EXCEPT ![on[c]] = s] BY Zenon DEF unlock, Then, Do, Cons
<1>h. s = <<>> \/ Head(s) = j BY <1>1, <1>3, ConsFacts, Zenon
<1> HIDE DEF j, s
<1> DEFINE n == Before(a.h \ {l}, a.m, FALSE, "pop_off")
<1>n. n \in Note /\ n.h = a.h \ {l} /\ n.m = a.m /\ n.r = FALSE /\ n.k = "pop_off"
  <2>1. a.h \ {l} \in SUBSET AnyLock /\ a.m \in {"on", "off", "any"} BY Zenon DEF Note
  <2> QED BY Zenon, <2>1 DEF Before, Note
<1> HIDE DEF n
<1>l. Legal(on[c], j, n, b) BY <1>2, <1>3, <1>n, Zenon DEF Does, Legal
<1>5. n \in Note /\ Leads(on[c], s, n)
  <2>1. Leads(on[c], Tail(code[on[c]]), b) BY Zenon, <1>2 DEF Does
  <2> QED BY <1>1, <1>3, <1>n, <1>l, <2>1, LeadsCons, Zenon DEF s
<1>7. RunInv' /\ OnInv' /\ OffInv'
  <2>1. Agrees(c, n)'
    <3>1. a.k = "unlock" /\ l \in a.h /\ IsFiniteSet(a.h) BY <1>1, <1>2, Zenon DEF Does, Legal
    <3>2. Cardinality(a.h \ {l}) = Cardinality(a.h) - 1 BY <3>1, SizeRemove, Zenon
    <3>3. Cardinality(a.h) \in Nat BY <3>1, SizeNat, Zenon
    <3>4. noff[c] = Cardinality(n.h) + 1 BY <1>2, <1>n, <3>1, <3>2, <3>3 DEF Does, Agrees
    <3> QED BY Zenon, <1>2, <1>n, <1>e, <3>4 DEF Does, Agrees
  <2>2. \A t \in Thread : t # on[c] => held'[t] = held[t] BY Zenon, <1>e, <1>t DEF SpinTypes
  <2>3. \A d \in CPU : d # c => sie'[d] = sie[d] /\ noff'[d] = noff[d] /\ intena'[d] = intena[d]
    BY Zenon, <1>e, <1>t DEF SpinTypes
  <2>4. on' = on /\ \A p \in Proc : p # on[c] => state'[p] = state[p] BY Zenon, <1>e, <1>t DEF SpinTypes
  <2>5. n.h = held'[on[c]] /\ (on[c] \in Proc => (n.r <=> state'[on[c]] # "RUNNING"))
    
    <3>1. held'[on[c]] = held[on[c]] \ {l} BY Zenon, <1>1, <1>e, <1>t DEF SpinTypes
    <3> QED BY <1>2, <1>n, <1>e, <3>1, Zenon DEF Does, Legal
  <2> QED BY <1>s, <1>4, <1>5, <2>1, <2>2, <2>3, <2>4, <2>5, StepKeeps, Zenon
<1>8. HolderInv'
  <2>a. /\ \A d \in CPU : on[d] \in Thread /\ (d # c => on[d] # on[c])
        /\ \A d \in CPU : d # c => \A x, m : At(d, x, m)' <=> At(d, x, m)
        /\ \A x, m : At(c, x, m)' <=> s # <<>> /\ Head(s).op = x /\ Head(s).lk = m
    BY <1>e, <1>s, <1>4, AtKeeps, Zenon
  <2>h. HolderInv BY Zenon DEF SpinInv
  <2>i. \A x, t \in Thread : \A m : m \in held[x] /\ m \in held[t] => x = t BY <2>h, Zenon DEF HolderInv
  <2>b. /\ held'[on[c]] = held[on[c]] \ {l}
        /\ \A t \in Thread : t # on[c] => held'[t] = held[t]
    BY Zenon, <1>1, <1>e, <1>t DEF SpinTypes
  <2>c. l \in held[on[c]] BY <1>2, Zenon DEF Does, Legal
  <2>d. owner[l] = NoCPU BY <1>1, <2>h, Zenon DEF HolderInv
  <2>1. \A x, t \in Thread : held'[x] \cap held'[t] # {} => x = t
    <3> SUFFICES ASSUME NEW x \in Thread, NEW t \in Thread, NEW m, m \in held'[x], m \in held'[t] PROVE x = t
      BY Zenon
    <3> QED BY <2>b, <2>i, Zenon
  <2>2. \A t \in Thread : IsFiniteSet(held'[t]) /\ (held'[t] # {} => Running(t)')
    <3>1. Running(on[c]) /\ (\A t : Running(t)' <=> Running(t)) BY <1>e, Zenon DEF Running
    <3>2. IsFiniteSet(held[on[c]] \ {l}) BY <1>1, SizeRemove, Zenon
    <3> QED BY <2>b, <2>h, <3>1, <3>2, Zenon DEF HolderInv
  <2>3. \A m \in AnyLock : locked'[m] <=> \E t \in Thread : m \in held'[t]
    <3> SUFFICES ASSUME NEW m \in AnyLock PROVE locked'[m] <=> \E t \in Thread : m \in held'[t] BY Zenon
    <3>1. CASE m = l
      <4>1. ~locked'[l] BY Zenon, <1>e, <1>t DEF SpinTypes
      <4>2. \A t \in Thread : l \notin held'[t] BY <1>1, <2>b, <2>c, <2>h, Zenon DEF HolderInv
      <4> QED BY Zenon, <3>1, <4>1, <4>2
    <3>2. CASE m # l
      <4>1. locked'[m] <=> locked[m] BY Zenon, <1>e, <1>t, <3>2 DEF SpinTypes
      <4>2. \A t \in Thread : m \in held'[t] <=> m \in held[t] BY <2>b, <3>2, Zenon
      <4> QED BY <2>h, <4>1, <4>2, Zenon DEF HolderInv
    <3> QED BY Zenon, <3>1, <3>2
  <2>4. \A m \in AnyLock : owner'[m] # NoCPU => m \in held'[on'[owner'[m]]]
    <3> SUFFICES ASSUME NEW m \in AnyLock, owner'[m] # NoCPU PROVE m \in held'[on'[owner'[m]]] BY Zenon
    <3>1. m \in held[on[owner[m]]] /\ owner[m] \in CPU BY Zenon, <1>e, <1>t, <2>h DEF HolderInv, SpinTypes
    <3>2. m # l BY Zenon, <1>e, <2>d
    <3> QED BY <1>e, <2>a, <2>b, <3>1, <3>2, Zenon
  <2>5. ASSUME NEW d \in CPU, NEW m \in AnyLock, m \in held'[on'[d]]
        PROVE  owner'[m] = d \/ At(d, "setcpu", m)' \/ At(d, "unlock", m)'
    <3>1. CASE d = c
      <4>1. m \in held[on[c]] /\ m # l BY <1>e, <2>5, <2>b, <3>1, Zenon
      <4>2. ~At(c, "setcpu", m) /\ ~At(c, "unlock", m) BY <1>1, <4>1, OneHead, Zenon
      <4> QED BY <1>e, <2>h, <3>1, <4>1, <4>2, Zenon DEF HolderInv
    <3>2. CASE d # c
      <4>1. m \in held[on[d]] BY <1>e, <2>5, <2>a, <2>b, <3>2, Zenon
      <4>2. owner[m] = d \/ At(d, "setcpu", m) \/ At(d, "unlock", m) BY <2>h, <4>1, Zenon DEF HolderInv
      <4> QED BY <1>e, <2>a, <3>2, <4>2, Zenon
    <3> QED BY Zenon, <3>1, <3>2
  <2>6. ASSUME NEW d \in CPU, NEW m \in AnyLock, At(d, "unlock", m)' PROVE owner'[m] = NoCPU
    <3>1. d # c BY Zenon, <1>3, <1>h, <2>6, <2>a
    <3> QED BY <1>e, <2>6, <2>a, <2>h, <3>1, Zenon DEF HolderInv
  <2> QED BY <2>1, <2>2, <2>3, <2>4, <2>5, <2>6, Zenon DEF HolderInv
<1>9. SpinTypes'
  <2>1. code' \in [Thread -> Seq(Instr)] BY <1>s, <1>4, <1>t, CodeType, Zenon
  <2>2. locked' \in [AnyLock -> BOOLEAN] BY Zenon, <1>e, <1>t DEF SpinTypes
  <2>3. held' \in [Thread -> SUBSET AnyLock] BY Zenon, <1>e, <1>t DEF SpinTypes
  <2> QED BY Zenon, <1>e, <1>t, <2>1, <2>2, <2>3 DEF SpinTypes
<1> QED BY Zenon, <1>7, <1>8, <1>9 DEF SpinInv

(* prepare_return(): intr_off().                                           *)
LEMMA IntrOffStep == ASSUME Sizes, SpinInv, NEW c \in CPU, NEW l \in AnyLock, At(c, "intr_off", l), return(c, l) PROVE SpinInv'
<1>1. /\ on[c] \in Thread /\ Tail(code[on[c]]) \in Seq(Instr)
      /\ held[on[c]] \in SUBSET AnyLock /\ IsFiniteSet(held[on[c]])
      /\ At(c, "intr_off", l)
  BY AtNote, Zenon
<1>2. PICK i \in Instr, a \in Note, b \in Note : Does(c, "intr_off", l, i, a, b) BY <1>1, AtNote, Zenon
<1>t. SpinTypes BY Zenon DEF SpinInv
<1>e. /\ sie' = [sie EXCEPT ![c] = FALSE]
      /\ noff' = noff
      /\ intena' = intena
      /\ locked' = locked
      /\ owner' = owner
      /\ held' = held
      /\ on' = on
      /\ state' = state
  <2>1. \A x, m : At(c, x, m) => x = "intr_off" /\ m = l BY <1>1, OneHead, Zenon
  <2> QED BY <2>1 DEF return, cpuVars, lockVars
<1> DEFINE s == Tail(code[on[c]])
<1>s. s \in Seq(Instr) BY Zenon, <1>1
<1>4. code' = [code EXCEPT ![on[c]] = s]
  <2>1. code' = [code EXCEPT ![on[c]] = <<>> \o s] BY Zenon DEF return, Then
  <2> QED BY Zenon, <1>s, <2>1, EmptyJoined
<1> DEFINE n == b
<1>5. n \in Note /\ Leads(on[c], s, n) BY Zenon, <1>2 DEF Does
<1>h. s = <<>> \/ Head(s).op # "unlock"
  <2>1. b.k = "none" BY <1>2, Zenon DEF Does, Legal
  <2> QED BY <1>s, <1>5, <2>1, LeadsHead, Zenon
<1> HIDE DEF s
<1>7. RunInv' /\ OnInv' /\ OffInv'
  <2>1. Agrees(c, n)'
    <3>1. a.h = {} /\ b.h = {} /\ a.k = "none" /\ b.k = "none" BY <1>2, Zenon DEF Does, Legal
    <3>0. Agrees(c, a) /\ Cardinality({}) = 0 BY <1>2, SizeEmpty, Zenon DEF Does
    <3>2. noff[c] = 0 /\ noff'[c] = 0 BY <1>e, <3>0, <3>1 DEF Agrees
    <3>3. b.m = "off" /\ sie'[c] = FALSE BY <1>1, <1>2, <1>e, <1>t, Zenon DEF Does, Legal, SpinTypes
    <3> QED BY <3>1, <3>2, <3>3, SizeEmpty DEF Agrees
  <2>2. \A t \in Thread : t # on[c] => held'[t] = held[t] BY Zenon, <1>e, <1>t DEF SpinTypes
  <2>3. \A d \in CPU : d # c => sie'[d] = sie[d] /\ noff'[d] = noff[d] /\ intena'[d] = intena[d]
    BY Zenon, <1>e, <1>t DEF SpinTypes
  <2>4. on' = on /\ \A p \in Proc : p # on[c] => state'[p] = state[p] BY Zenon, <1>e, <1>t DEF SpinTypes
  <2>5. n.h = held'[on[c]] /\ (on[c] \in Proc => (n.r <=> state'[on[c]] # "RUNNING"))
    BY <1>2, <1>e, Zenon DEF Does, Legal
  <2> QED BY <1>s, <1>4, <1>5, <2>1, <2>2, <2>3, <2>4, <2>5, StepKeeps, Zenon
<1>8. HolderInv'
  <2>1. \A m \in AnyLock : ~At(c, "setcpu", m) /\ ~At(c, "unlock", m) BY <1>1, OneHead, Zenon
  <2>2. s = <<>> \/ Head(s).op # "unlock" BY Zenon, <1>h
  <2> QED BY <1>e, <1>s, <1>4, <2>1, <2>2, HolderSame, Zenon
<1>9. SpinTypes'
  <2>1. code' \in [Thread -> Seq(Instr)] BY <1>s, <1>4, <1>t, CodeType, Zenon
  <2>2. sie' \in [CPU -> BOOLEAN] BY Zenon, <1>e, <1>t DEF SpinTypes
  <2> QED BY Zenon, <1>e, <1>t, <2>1, <2>2 DEF SpinTypes
<1> QED BY Zenon, <1>7, <1>8, <1>9 DEF SpinInv

(* sret: interrupts are on again.                                          *)
LEMMA SretStep == ASSUME Sizes, SpinInv, NEW c \in CPU, NEW l \in AnyLock, At(c, "sret", l), return(c, l) PROVE SpinInv'
<1>1. /\ on[c] \in Thread /\ Tail(code[on[c]]) \in Seq(Instr)
      /\ held[on[c]] \in SUBSET AnyLock /\ IsFiniteSet(held[on[c]])
      /\ At(c, "sret", l)
  BY AtNote, Zenon
<1>2. PICK i \in Instr, a \in Note, b \in Note : Does(c, "sret", l, i, a, b) BY <1>1, AtNote, Zenon
<1>t. SpinTypes BY Zenon DEF SpinInv
<1>e. /\ sie' = [sie EXCEPT ![c] = TRUE]
      /\ noff' = noff
      /\ intena' = intena
      /\ locked' = locked
      /\ owner' = owner
      /\ held' = held
      /\ on' = on
      /\ state' = state
  <2>1. \A x, m : At(c, x, m) => x = "sret" /\ m = l BY <1>1, OneHead, Zenon
  <2> QED BY <2>1 DEF return, cpuVars, lockVars
<1> DEFINE s == Tail(code[on[c]])
<1>s. s \in Seq(Instr) BY Zenon, <1>1
<1>4. code' = [code EXCEPT ![on[c]] = s]
  <2>1. code' = [code EXCEPT ![on[c]] = <<>> \o s] BY Zenon DEF return, Then
  <2> QED BY Zenon, <1>s, <2>1, EmptyJoined
<1> DEFINE n == b
<1>5. n \in Note /\ Leads(on[c], s, n) BY Zenon, <1>2 DEF Does
<1>h. s = <<>> \/ Head(s).op # "unlock"
  <2>1. b.k = "none" BY <1>2, Zenon DEF Does, Legal
  <2> QED BY <1>s, <1>5, <2>1, LeadsHead, Zenon
<1> HIDE DEF s
<1>7. RunInv' /\ OnInv' /\ OffInv'
  <2>1. Agrees(c, n)'
    <3>1. a.h = {} /\ b.h = {} /\ a.k = "none" /\ b.k = "none" BY <1>2, Zenon DEF Does, Legal
    <3>0. Agrees(c, a) /\ Cardinality({}) = 0 BY <1>2, SizeEmpty, Zenon DEF Does
    <3>2. noff[c] = 0 /\ noff'[c] = 0 BY <1>e, <3>0, <3>1 DEF Agrees
    <3>3. b.m # "off" /\ sie'[c] = TRUE BY <1>1, <1>2, <1>e, <1>t, Zenon DEF Does, Legal, SpinTypes
    <3> QED BY <3>1, <3>2, <3>3, SizeEmpty DEF Agrees
  <2>2. \A t \in Thread : t # on[c] => held'[t] = held[t] BY Zenon, <1>e, <1>t DEF SpinTypes
  <2>3. \A d \in CPU : d # c => sie'[d] = sie[d] /\ noff'[d] = noff[d] /\ intena'[d] = intena[d]
    BY Zenon, <1>e, <1>t DEF SpinTypes
  <2>4. on' = on /\ \A p \in Proc : p # on[c] => state'[p] = state[p] BY Zenon, <1>e, <1>t DEF SpinTypes
  <2>5. n.h = held'[on[c]] /\ (on[c] \in Proc => (n.r <=> state'[on[c]] # "RUNNING"))
    BY <1>2, <1>e, Zenon DEF Does, Legal
  <2> QED BY <1>s, <1>4, <1>5, <2>1, <2>2, <2>3, <2>4, <2>5, StepKeeps, Zenon
<1>8. HolderInv'
  <2>1. \A m \in AnyLock : ~At(c, "setcpu", m) /\ ~At(c, "unlock", m) BY <1>1, OneHead, Zenon
  <2>2. s = <<>> \/ Head(s).op # "unlock" BY Zenon, <1>h
  <2> QED BY <1>e, <1>s, <1>4, <2>1, <2>2, HolderSame, Zenon
<1>9. SpinTypes'
  <2>1. code' \in [Thread -> Seq(Instr)] BY <1>s, <1>4, <1>t, CodeType, Zenon
  <2>2. sie' \in [CPU -> BOOLEAN] BY Zenon, <1>e, <1>t DEF SpinTypes
  <2> QED BY Zenon, <1>e, <1>t, <2>1, <2>2 DEF SpinTypes
<1> QED BY Zenon, <1>7, <1>8, <1>9 DEF SpinInv

(* p->state = RUNNABLE, under p->lock.                                     *)
LEMMA RunnableStep == ASSUME SpinInv, NEW c \in CPU, NEW l \in AnyLock, At(c, "runnable", l), setstate(c, l) PROVE SpinInv'
<1>1. /\ on[c] \in Thread /\ Tail(code[on[c]]) \in Seq(Instr)
      /\ held[on[c]] \in SUBSET AnyLock /\ IsFiniteSet(held[on[c]])
      /\ At(c, "runnable", l)
  BY AtNote, Zenon
<1>2. PICK i \in Instr, a \in Note, b \in Note : Does(c, "runnable", l, i, a, b) BY <1>1, AtNote, Zenon
<1>t. SpinTypes BY Zenon DEF SpinInv
<1>e. /\ state' = [state EXCEPT ![l] = "RUNNABLE"]
      /\ l = on[c] /\ l \in Proc
      /\ sie' = sie
      /\ noff' = noff
      /\ intena' = intena
      /\ locked' = locked
      /\ owner' = owner
      /\ held' = held
      /\ on' = on
  <2>1. \A x, m : At(c, x, m) => x = "runnable" /\ m = l BY <1>1, OneHead, Zenon
  <2>2. l = on[c] /\ l \in Proc BY <1>2, Zenon DEF Does, Legal
  <2> QED BY <2>1, <2>2 DEF setstate, cpuVars, lockVars
<1> DEFINE s == Tail(code[on[c]])
<1>s. s \in Seq(Instr) BY Zenon, <1>1
<1>4. code' = [code EXCEPT ![on[c]] = s]
  <2>1. code' = [code EXCEPT ![on[c]] = <<>> \o s] BY Zenon DEF setstate, Then
  <2> QED BY Zenon, <1>s, <2>1, EmptyJoined
<1> DEFINE n == b
<1>5. n \in Note /\ Leads(on[c], s, n) BY Zenon, <1>2 DEF Does
<1>h. s = <<>> \/ Head(s).op # "unlock"
  <2>1. b.k = "none" BY <1>2, Zenon DEF Does, Legal
  <2> QED BY <1>s, <1>5, <2>1, LeadsHead, Zenon
<1> HIDE DEF s
<1>7. RunInv' /\ OnInv' /\ OffInv'
  <2>1. Agrees(c, n)'
    <3>1. n.m = a.m /\ n.h = a.h /\ n.k \notin {"swap", "pop_off"} /\ a.k \notin {"swap", "pop_off"}
      BY <1>2, Zenon DEF Does, Legal
    <3>2. Agrees(c, a) BY <1>2, Zenon DEF Does
    <3> QED BY Zenon, <1>e, <3>1, <3>2 DEF Agrees
  <2>2. \A t \in Thread : t # on[c] => held'[t] = held[t] BY Zenon, <1>e, <1>t DEF SpinTypes
  <2>3. \A d \in CPU : d # c => sie'[d] = sie[d] /\ noff'[d] = noff[d] /\ intena'[d] = intena[d]
    BY Zenon, <1>e, <1>t DEF SpinTypes
  <2>4. on' = on /\ \A p \in Proc : p # on[c] => state'[p] = state[p] BY Zenon, <1>e, <1>t DEF SpinTypes
  <2>5. n.h = held'[on[c]] /\ (on[c] \in Proc => (n.r <=> state'[on[c]] # "RUNNING"))
    
    <3>1. state'[on[c]] = "RUNNABLE" BY Zenon, <1>e, <1>t DEF SpinTypes
    <3>2. b.r /\ b.h = a.h BY <1>2, Zenon DEF Does, Legal
    <3> QED BY Zenon, <1>2, <1>e, <3>1, <3>2 DEF Does
  <2> QED BY <1>s, <1>4, <1>5, <2>1, <2>2, <2>3, <2>4, <2>5, StepKeeps, Zenon
<1>8. HolderInv'
  <2>1. \A m \in AnyLock : ~At(c, "setcpu", m) /\ ~At(c, "unlock", m) BY <1>1, OneHead, Zenon
  <2>2. s = <<>> \/ Head(s).op # "unlock" BY Zenon, <1>h
  <2> QED BY <1>e, <1>s, <1>4, <2>1, <2>2, HolderSame, Zenon
<1>9. SpinTypes'
  <2>1. code' \in [Thread -> Seq(Instr)] BY <1>s, <1>4, <1>t, CodeType, Zenon
  <2>2. state' \in [Proc -> {"RUNNABLE", "RUNNING", "SLEEPING"}] BY Zenon, <1>e, <1>t DEF SpinTypes
  <2> QED BY Zenon, <1>e, <1>t, <2>1, <2>2 DEF SpinTypes
<1> QED BY Zenon, <1>7, <1>8, <1>9 DEF SpinInv

(* p->state = SLEEPING, under p->lock.                                     *)
LEMMA SleepingStep == ASSUME SpinInv, NEW c \in CPU, NEW l \in AnyLock, At(c, "sleeping", l), setstate(c, l) PROVE SpinInv'
<1>1. /\ on[c] \in Thread /\ Tail(code[on[c]]) \in Seq(Instr)
      /\ held[on[c]] \in SUBSET AnyLock /\ IsFiniteSet(held[on[c]])
      /\ At(c, "sleeping", l)
  BY AtNote, Zenon
<1>2. PICK i \in Instr, a \in Note, b \in Note : Does(c, "sleeping", l, i, a, b) BY <1>1, AtNote, Zenon
<1>t. SpinTypes BY Zenon DEF SpinInv
<1>e. /\ state' = [state EXCEPT ![l] = "SLEEPING"]
      /\ l = on[c] /\ l \in Proc
      /\ sie' = sie
      /\ noff' = noff
      /\ intena' = intena
      /\ locked' = locked
      /\ owner' = owner
      /\ held' = held
      /\ on' = on
  <2>1. \A x, m : At(c, x, m) => x = "sleeping" /\ m = l BY <1>1, OneHead, Zenon
  <2>2. l = on[c] /\ l \in Proc BY <1>2, Zenon DEF Does, Legal
  <2> QED BY <2>1, <2>2 DEF setstate, cpuVars, lockVars
<1> DEFINE s == Tail(code[on[c]])
<1>s. s \in Seq(Instr) BY Zenon, <1>1
<1>4. code' = [code EXCEPT ![on[c]] = s]
  <2>1. code' = [code EXCEPT ![on[c]] = <<>> \o s] BY Zenon DEF setstate, Then
  <2> QED BY Zenon, <1>s, <2>1, EmptyJoined
<1> DEFINE n == b
<1>5. n \in Note /\ Leads(on[c], s, n) BY Zenon, <1>2 DEF Does
<1>h. s = <<>> \/ Head(s).op # "unlock"
  <2>1. b.k = "none" BY Zenon, <1>2 DEF Does, Legal
  <2> QED BY <1>s, <1>5, <2>1, LeadsHead, Zenon
<1> HIDE DEF s
<1>7. RunInv' /\ OnInv' /\ OffInv'
  <2>1. Agrees(c, n)'
    <3>1. n.m = a.m /\ n.h = a.h /\ n.k \notin {"swap", "pop_off"} /\ a.k \notin {"swap", "pop_off"}
      BY <1>2, Zenon DEF Does, Legal
    <3>2. Agrees(c, a) BY <1>2, Zenon DEF Does
    <3> QED BY Zenon, <1>e, <3>1, <3>2 DEF Agrees
  <2>2. \A t \in Thread : t # on[c] => held'[t] = held[t] BY Zenon, <1>e, <1>t DEF SpinTypes
  <2>3. \A d \in CPU : d # c => sie'[d] = sie[d] /\ noff'[d] = noff[d] /\ intena'[d] = intena[d]
    BY Zenon, <1>e, <1>t DEF SpinTypes
  <2>4. on' = on /\ \A p \in Proc : p # on[c] => state'[p] = state[p] BY Zenon, <1>e, <1>t DEF SpinTypes
  <2>5. n.h = held'[on[c]] /\ (on[c] \in Proc => (n.r <=> state'[on[c]] # "RUNNING"))
    
    <3>1. state'[on[c]] = "SLEEPING" BY Zenon, <1>e, <1>t DEF SpinTypes
    <3>2. b.r /\ b.h = a.h BY <1>2, Zenon DEF Does, Legal
    <3> QED BY Zenon, <1>2, <1>e, <3>1, <3>2 DEF Does
  <2> QED BY <1>s, <1>4, <1>5, <2>1, <2>2, <2>3, <2>4, <2>5, StepKeeps, Zenon
<1>8. HolderInv'
  <2>1. \A m \in AnyLock : ~At(c, "setcpu", m) /\ ~At(c, "unlock", m) BY <1>1, OneHead, Zenon
  <2>2. s = <<>> \/ Head(s).op # "unlock" BY Zenon, <1>h
  <2> QED BY <1>e, <1>s, <1>4, <2>1, <2>2, HolderSame, Zenon
<1>9. SpinTypes'
  <2>1. code' \in [Thread -> Seq(Instr)] BY <1>s, <1>4, <1>t, CodeType, Zenon
  <2>2. state' \in [Proc -> {"RUNNABLE", "RUNNING", "SLEEPING"}] BY Zenon, <1>e, <1>t DEF SpinTypes
  <2> QED BY Zenon, <1>e, <1>t, <2>1, <2>2 DEF SpinTypes
<1> QED BY Zenon, <1>7, <1>8, <1>9 DEF SpinInv

(* scheduler() passes over a process that is not RUNNABLE.                 *)
LEMMA PassStep == ASSUME SpinInv, NEW c \in CPU, NEW l \in AnyLock, pick(c, l), state[l] # "RUNNABLE" PROVE SpinInv'
<1>1. /\ on[c] \in Thread /\ Tail(code[on[c]]) \in Seq(Instr)
      /\ held[on[c]] \in SUBSET AnyLock /\ IsFiniteSet(held[on[c]])
      /\ At(c, "pick", l)
  BY AtNote, Zenon DEF pick
<1>2. PICK i \in Instr, a \in Note, b \in Note : Does(c, "pick", l, i, a, b) BY <1>1, AtNote, Zenon
<1>t. SpinTypes BY Zenon DEF SpinInv
<1>e. /\ sie' = sie
      /\ noff' = noff
      /\ intena' = intena
      /\ locked' = locked
      /\ owner' = owner
      /\ held' = held
      /\ on' = on
      /\ state' = state
  BY <1>2, Zenon DEF pick, cpuVars, lockVars, Val, Does
<1> DEFINE s == Tail(code[on[c]])
<1>s. s \in Seq(Instr) BY Zenon, <1>1
<1>4. code' = [code EXCEPT ![on[c]] = s]
  <2>1. code' = [code EXCEPT ![on[c]] = <<>> \o s] BY Zenon DEF pick, Then
  <2> QED BY Zenon, <1>s, <2>1, EmptyJoined
<1> DEFINE n == b
<1>5. n \in Note /\ Leads(on[c], s, n) BY Zenon, <1>2 DEF Does
<1>h. s = <<>> \/ Head(s).op # "unlock"
  <2>1. b.k = "none" BY Zenon, <1>2 DEF Does, Legal
  <2> QED BY <1>s, <1>5, <2>1, LeadsHead, Zenon
<1> HIDE DEF s
<1>7. RunInv' /\ OnInv' /\ OffInv'
  <2>1. Agrees(c, n)'
    <3>1. n.m = a.m /\ n.h = a.h /\ n.k \notin {"swap", "pop_off"} /\ a.k \notin {"swap", "pop_off"}
      BY Zenon, <1>2 DEF Does, Legal
    <3>2. Agrees(c, a) BY <1>2, Zenon DEF Does
    <3> QED BY Zenon, <1>e, <3>1, <3>2 DEF Agrees
  <2>2. \A t \in Thread : t # on[c] => held'[t] = held[t] BY Zenon, <1>e, <1>t DEF SpinTypes
  <2>3. \A d \in CPU : d # c => sie'[d] = sie[d] /\ noff'[d] = noff[d] /\ intena'[d] = intena[d]
    BY Zenon, <1>e, <1>t DEF SpinTypes
  <2>4. on' = on /\ \A p \in Proc : p # on[c] => state'[p] = state[p] BY Zenon, <1>e, <1>t DEF SpinTypes
  <2>5. n.h = held'[on[c]] /\ (on[c] \in Proc => (n.r <=> state'[on[c]] # "RUNNING"))
    BY <1>2, <1>e, Zenon DEF Does, Legal
  <2> QED BY <1>s, <1>4, <1>5, <2>1, <2>2, <2>3, <2>4, <2>5, StepKeeps, Zenon
<1>8. HolderInv'
  <2>1. \A m \in AnyLock : ~At(c, "setcpu", m) /\ ~At(c, "unlock", m) BY <1>1, OneHead, Zenon
  <2>2. s = <<>> \/ Head(s).op # "unlock" BY Zenon, <1>h
  <2> QED BY <1>e, <1>s, <1>4, <2>1, <2>2, HolderSame, Zenon
<1>9. SpinTypes'
  <2>1. code' \in [Thread -> Seq(Instr)] BY <1>s, <1>4, <1>t, CodeType, Zenon
  <2> QED BY Zenon, <1>e, <1>t, <2>1 DEF SpinTypes
<1> QED BY Zenon, <1>7, <1>8, <1>9 DEF SpinInv

\* The elements of a concatenation.
LEMMA Concat ==
  ASSUME NEW r \in Seq(Instr), NEW s \in Seq(Instr)
  PROVE  /\ r \o s \in Seq(Instr) /\ Len(r \o s) = Len(r) + Len(s) /\ Len(r) \in Nat /\ Len(s) \in Nat
         /\ \A j \in 1..Len(r) : (r \o s)[j] = r[j]
         /\ \A j \in 1..Len(s) : (r \o s)[Len(r) + j] = s[j]
BY Joined

\* Concatenation is associative.
LEMMA Assoc ==
  ASSUME NEW r \in Seq(Instr), NEW s \in Seq(Instr), NEW u \in Seq(Instr)
  PROVE  (r \o s) \o u = r \o (s \o u)
<1> DEFINE v == r \o s
           w == s \o u
           x == v \o u
           y == r \o w
<1>1. /\ v \in Seq(Instr) /\ Len(v) = Len(r) + Len(s) /\ Len(r) \in Nat /\ Len(s) \in Nat
      /\ (\A j \in 1..Len(r) : v[j] = r[j]) /\ \A j \in 1..Len(s) : v[Len(r) + j] = s[j]
  BY Concat, Zenon
<1>2. /\ w \in Seq(Instr) /\ Len(w) = Len(s) + Len(u) /\ Len(u) \in Nat
      /\ (\A j \in 1..Len(s) : w[j] = s[j]) /\ \A j \in 1..Len(u) : w[Len(s) + j] = u[j]
  BY Concat, Zenon
<1> HIDE DEF v, w
<1>4. /\ x \in Seq(Instr) /\ Len(x) = Len(v) + Len(u)
      /\ (\A j \in 1..Len(v) : x[j] = v[j]) /\ \A j \in 1..Len(u) : x[Len(v) + j] = u[j]
  BY <1>1, Concat, Zenon
<1>5. /\ y \in Seq(Instr) /\ Len(y) = Len(r) + Len(w)
      /\ (\A j \in 1..Len(r) : y[j] = r[j]) /\ \A j \in 1..Len(w) : y[Len(r) + j] = w[j]
  BY <1>2, Concat, Zenon
<1> HIDE DEF x, y
<1>6. ASSUME NEW j \in 1..Len(x) PROVE x[j] = y[j]
  <2>1. CASE j <= Len(r)
    <3>1. j \in 1..Len(r) /\ j \in 1..Len(v)
      <4>1. Len(r) \in Nat /\ Len(s) \in Nat /\ Len(v) = Len(r) + Len(s) /\ Len(x) = Len(v) + Len(u) /\ Len(u) \in Nat
        BY <1>1, <1>2, <1>4, Zenon
      <4> QED BY <2>1, <4>1
    <3> QED BY <1>1, <1>4, <1>5, <3>1, Zenon
  <2>2. CASE j > Len(r) /\ j <= Len(v)
    <3>1. PICK k \in 1..Len(s) : j = Len(r) + k
      <4>1. j - Len(r) \in 1..Len(s) /\ j = Len(r) + (j - Len(r)) BY <1>1, <1>2, <1>4, <2>2
      <4> QED BY <4>1, Zenon
    <3>0. j \in 1..Len(v)
      <4>1. Len(r) \in Nat /\ Len(s) \in Nat /\ Len(v) = Len(r) + Len(s) BY <1>1, Zenon
      <4> QED BY <2>2, <3>1, <4>1
    <3>2. x[j] = s[k] BY <1>1, <1>4, <3>0, <3>1, Zenon
    <3>3. k \in 1..Len(w) BY <1>1, <1>2, <3>1
    <3> QED BY Zenon, <1>2, <1>5, <3>1, <3>2, <3>3
  <2>3. CASE j > Len(v)
    <3>1. PICK k \in 1..Len(u) : j = Len(v) + k
      <4>1. j - Len(v) \in 1..Len(u) /\ j = Len(v) + (j - Len(v)) BY <1>1, <1>2, <1>4, <2>3
      <4> QED BY <4>1, Zenon
    <3>2. Len(s) + k \in 1..Len(w) /\ j = Len(r) + (Len(s) + k) BY <1>1, <1>2, <3>1
    <3>3. y[j] = w[Len(s) + k] BY Zenon, <1>5, <3>2
    <3>4. w[Len(s) + k] = u[k] BY Zenon, <1>2, <3>1
    <3>5. x[j] = u[k] BY Zenon, <1>4, <3>1
    <3> QED BY Zenon, <3>3, <3>4, <3>5
  <2> QED BY <1>1, <1>4, <2>1, <2>2, <2>3
<1>7. x = y
  <2>1. Len(x) = Len(y) BY <1>1, <1>2, <1>4, <1>5
  <2> QED BY <1>4, <1>5, <1>6, <2>1, SameSeq, Zenon
<1> QED BY Zenon, <1>7 DEF v, w, x, y

\* Code s takes thread t from note a to note b.
Links(t, s, a, b) ==
  /\ s \in Seq(Instr) /\ a \in Note /\ b \in Note
  /\ \A u \in Seq(Instr) : Leads(t, u, b) => Leads(t, s \o u, a)

\* One instruction,
LEMMA LinksOne ==
  ASSUME NEW t, NEW i \in Instr, NEW a \in Note, NEW b \in Note, Legal(t, i, a, b)
  PROVE  Links(t, <<i>>, a, b)
<1>1. <<i>> \in Seq(Instr) OBVIOUS
<1>2. ASSUME NEW u \in Seq(Instr), Leads(t, u, b) PROVE Leads(t, <<i>> \o u, a)
  BY <1>2, LeadsCons, Zenon DEF Cons
<1> QED BY <1>1, <1>2, Zenon DEF Links

\* one piece of code after another,
LEMMA LinksTwo ==
  ASSUME NEW t, NEW r, NEW s, NEW a, NEW b, NEW d, Links(t, r, a, b), Links(t, s, b, d)
  PROVE  Links(t, r \o s, a, d)
<1>1. r \in Seq(Instr) /\ s \in Seq(Instr) /\ a \in Note /\ d \in Note BY Zenon DEF Links
<1>2. r \o s \in Seq(Instr) BY <1>1
<1>3. ASSUME NEW u \in Seq(Instr), Leads(t, u, d) PROVE Leads(t, (r \o s) \o u, a)
  <2>1. s \o u \in Seq(Instr) BY <1>1
  <2>2. Leads(t, s \o u, b) BY Zenon, <1>3 DEF Links
  <2>3. Leads(t, r \o (s \o u), a) BY <2>1, <2>2, Zenon DEF Links
  <2>4. (r \o s) \o u = r \o (s \o u) BY <1>1, <1>3, Assoc, Zenon
  <2> QED BY Zenon, <2>3, <2>4
<1> QED BY Zenon, <1>1, <1>2, <1>3 DEF Links

\* and code that ends where it should.
LEMMA LinksEnd ==
  ASSUME NEW t, NEW s, NEW a, NEW b, Links(t, s, a, b), Final(t, b)
  PROVE  s \in Seq(Instr) /\ a \in Note /\ Leads(t, s, a)
<1>1. s \in Seq(Instr) /\ a \in Note /\ b \in Note BY Zenon DEF Links
<1>2. <<>> \in Seq(Instr) /\ Leads(t, <<>>, b) BY <1>1, LeadsNil
<1>3. Leads(t, s \o <<>>, a) BY <1>2, Zenon DEF Links
<1> QED BY Zenon, <1>1, <1>3, EmptyJoined

\* A note outside acquire() and release().
At0(h, m, r) == Before(h, m, r, "none")

\* acquire() and release() of a lock.
LEMMA LinksAcquire ==
  ASSUME NEW t, NEW h \in SUBSET AnyLock, NEW m \in {"on", "off", "any"},
         NEW l \in AnyLock, l \notin h
  PROVE  Links(t, acquire(l), At0(h, m, FALSE), At0(h \cup {l}, m, FALSE))
<1> DEFINE i == I("acquire", l, FALSE)
           a == At0(h, m, FALSE)
           b == At0(h \cup {l}, m, FALSE)
<1>1. i \in Instr /\ i.op = "acquire" /\ i.lk = l BY Zenon DEF I, Instr, Ops
<1>2. a \in Note /\ a.h = h /\ a.m = m /\ ~a.r /\ a.k = "none" BY Zenon DEF At0, Before, Note
<1>3. b \in Note /\ b.h = h \cup {l} /\ b.m = m /\ ~b.r /\ b.k = "none" BY Zenon DEF At0, Before, Note
<1> HIDE DEF i, a, b
<1>4. Legal(t, i, a, b) BY Zenon, <1>1, <1>2, <1>3 DEF Legal
<1>5. acquire(l) = <<i>> BY Zenon DEF acquire, i
<1>6. Links(t, <<i>>, a, b) BY <1>1, <1>2, <1>3, <1>4, LinksOne, Zenon
<1> QED BY <1>5, <1>6, Zenon DEF a, b

\* release() of a lock that is held.
LEMMA LinksRelease ==
  ASSUME NEW t, NEW h \in SUBSET AnyLock, NEW m \in {"on", "off", "any"}, NEW l \in h
  PROVE  Links(t, release(l), At0(h, m, FALSE), At0(h \ {l}, m, FALSE))
<1> DEFINE i == I("release", l, FALSE)
           a == At0(h, m, FALSE)
           b == At0(h \ {l}, m, FALSE)
<1>1. i \in Instr /\ i.op = "release" /\ i.lk = l BY Zenon DEF I, Instr, Ops
<1>2. a \in Note /\ a.h = h /\ a.m = m /\ ~a.r /\ a.k = "none" BY Zenon DEF At0, Before, Note
<1>3. b \in Note /\ b.h = h \ {l} /\ b.m = m /\ ~b.r /\ b.k = "none" BY Zenon DEF At0, Before, Note
<1> HIDE DEF i, a, b
<1>4. Legal(t, i, a, b) BY Zenon, <1>1, <1>2, <1>3 DEF Legal
<1>5. release(l) = <<i>> BY Zenon DEF release, i
<1>6. Links(t, <<i>>, a, b) BY <1>1, <1>2, <1>3, <1>4, LinksOne, Zenon
<1> QED BY <1>5, <1>6, Zenon DEF a, b

\* The state of the process is set, and the process switches away.
LEMMA LinksState ==
  ASSUME NEW t \in Proc, NEW m \in {"on", "off", "any"}, NEW op \in {"runnable", "sleeping"}
  PROVE  Links(t, Do(op, t), At0({t}, m, FALSE), At0({t}, m, TRUE))
<1> DEFINE i == I(op, t, FALSE)
           a == At0({t}, m, FALSE)
           b == At0({t}, m, TRUE)
<1>0. t \in AnyLock /\ {t} \in SUBSET AnyLock BY Zenon, SpinFacts
<1>1. i \in Instr /\ i.op = op /\ i.lk = t BY Zenon, <1>0 DEF I, Instr, Ops
<1>2. a \in Note /\ a.h = {t} /\ a.m = m /\ ~a.r /\ a.k = "none" BY Zenon, <1>0 DEF At0, Before, Note
<1>3. b \in Note /\ b.h = {t} /\ b.m = m /\ b.r /\ b.k = "none" BY Zenon, <1>0 DEF At0, Before, Note
<1> HIDE DEF i, a, b
<1>4. Legal(t, i, a, b) BY Zenon, <1>1, <1>2, <1>3 DEF Legal
<1>5. Do(op, t) = <<i>> BY Zenon DEF Do, i
<1>6. Links(t, <<i>>, a, b) BY <1>1, <1>2, <1>3, <1>4, LinksOne, Zenon
<1> QED BY <1>5, <1>6, Zenon DEF a, b

\* sched(), with interrupts known to be on or off.
LEMMA LinksSched ==
  ASSUME NEW t \in Proc, NEW m \in {"on", "off"}
  PROVE  Links(t, Do("sched", t), At0({t}, m, TRUE), At0({t}, m, FALSE))
<1> DEFINE i == I("sched", t, FALSE)
           a == At0({t}, m, TRUE)
           b == At0({t}, m, FALSE)
<1>0. t \in AnyLock /\ {t} \in SUBSET AnyLock /\ m \in {"on", "off", "any"} BY Zenon, SpinFacts
<1>1. i \in Instr /\ i.op = "sched" /\ i.lk = t BY Zenon, <1>0 DEF I, Instr, Ops
<1>2. a \in Note /\ a.h = {t} /\ a.m = m /\ a.r /\ a.k = "none" BY Zenon, <1>0 DEF At0, Before, Note
<1>3. b \in Note /\ b.h = {t} /\ b.m = m /\ ~b.r /\ b.k = "none" BY Zenon, <1>0 DEF At0, Before, Note
<1> HIDE DEF i, a, b
<1>4. Legal(t, i, a, b) BY Zenon, <1>1, <1>2, <1>3 DEF Legal
<1>5. Do("sched", t) = <<i>> BY Zenon DEF Do, i
<1>6. Links(t, <<i>>, a, b) BY <1>1, <1>2, <1>3, <1>4, LinksOne, Zenon
<1> QED BY <1>5, <1>6, Zenon DEF a, b

\* scheduler() has p->lock when it looks at p->state.
LEMMA LinksPick ==
  ASSUME NEW t \in CPU, NEW p \in Proc
  PROVE  Links(t, Do("pick", p), At0({p}, "any", FALSE), At0({p}, "any", FALSE))
<1> DEFINE i == I("pick", p, FALSE)
           a == At0({p}, "any", FALSE)
<1>0. p \in AnyLock /\ {p} \in SUBSET AnyLock BY Zenon, SpinFacts
<1>1. i \in Instr /\ i.op = "pick" /\ i.lk = p BY Zenon, <1>0 DEF I, Instr, Ops
<1>2. a \in Note /\ a.h = {p} /\ a.m = "any" /\ ~a.r /\ a.k = "none" BY Zenon, <1>0 DEF At0, Before, Note
<1> HIDE DEF i, a
<1>4. Legal(t, i, a, a) BY Zenon, <1>1, <1>2 DEF Legal
<1>5. Do("pick", p) = <<i>> BY Zenon DEF Do, i
<1>6. Links(t, <<i>>, a, a) BY <1>1, <1>2, <1>4, LinksOne, Zenon
<1> QED BY <1>5, <1>6, Zenon DEF a

\* Interrupts off, and on again with the return from a trap.
LEMMA LinksReturn ==
  ASSUME NEW t, NEW l \in AnyLock, NEW m \in {"on", "off", "any"}, NEW n \in {"on", "off", "any"},
         NEW op \in {"intr_off", "sret"}, op = "intr_off" => n = "off", op = "sret" => n # "off"
  PROVE  Links(t, Do(op, l), At0({}, m, FALSE), At0({}, n, FALSE))
<1> DEFINE i == I(op, l, FALSE)
           a == At0({}, m, FALSE)
           b == At0({}, n, FALSE)
<1>1. i \in Instr /\ i.op = op /\ i.lk = l BY Zenon DEF I, Instr, Ops
<1>2. a \in Note /\ a.h = {} /\ a.m = m /\ ~a.r /\ a.k = "none" BY Zenon DEF At0, Before, Note
<1>3. b \in Note /\ b.h = {} /\ b.m = n /\ ~b.r /\ b.k = "none" BY Zenon DEF At0, Before, Note
<1> HIDE DEF i, a, b
<1>4. Legal(t, i, a, b) BY Zenon, <1>1, <1>2, <1>3 DEF Legal
<1>5. Do(op, l) = <<i>> BY Zenon DEF Do, i
<1>6. Links(t, <<i>>, a, b) BY <1>1, <1>2, <1>3, <1>4, LinksOne, Zenon
<1> QED BY <1>5, <1>6, Zenon DEF a, b

\* yield(), sleep(), where a new process starts, and a look at a process.
LEMMA LinksYield ==
  ASSUME NEW t \in Proc, NEW m \in {"on", "off"}
  PROVE  Links(t, yield(t), At0({}, m, FALSE), At0({}, m, FALSE))
<1>0. /\ t \in AnyLock /\ {t} \in SUBSET AnyLock /\ {} \in SUBSET AnyLock /\ t \notin {} /\ t \in {t}
      /\ m \in {"on", "off", "any"} /\ "runnable" \in {"runnable", "sleeping"}
      /\ {} \cup {t} = {t} /\ {t} \ {t} = {}
  BY Zenon, SpinFacts
<1>1. Links(t, acquire(t), At0({}, m, FALSE), At0({} \cup {t}, m, FALSE)) BY <1>0, LinksAcquire, Zenon
<1>2. Links(t, Do("runnable", t), At0({t}, m, FALSE), At0({t}, m, TRUE)) BY <1>0, LinksState, Zenon
<1>3. Links(t, Do("sched", t), At0({t}, m, TRUE), At0({t}, m, FALSE)) BY LinksSched, Zenon
<1>4. Links(t, release(t), At0({t}, m, FALSE), At0({t} \ {t}, m, FALSE)) BY <1>0, LinksRelease, Zenon
<1>5. Links(t, acquire(t) \o Do("runnable", t), At0({}, m, FALSE), At0({t}, m, TRUE))
  BY <1>0, <1>1, <1>2, LinksTwo, Zenon
<1>6. Links(t, acquire(t) \o Do("runnable", t) \o Do("sched", t), At0({}, m, FALSE), At0({t}, m, FALSE))
  BY <1>3, <1>5, LinksTwo, Zenon
<1>7. Links(t, acquire(t) \o Do("runnable", t) \o Do("sched", t) \o release(t),
            At0({}, m, FALSE), At0({}, m, FALSE))
  BY <1>0, <1>4, <1>6, LinksTwo, Zenon
<1> QED BY <1>7, Zenon DEF yield

\* sleep() gives back the lock it was called with, and takes it again.
LEMMA LinksSleep ==
  ASSUME NEW t \in Proc, NEW l \in Lock
  PROVE  Links(t, sleep(t, l), At0({l}, "on", FALSE), At0({l}, "on", FALSE))
<1>0. /\ t \in AnyLock /\ l \in AnyLock /\ {t} \in SUBSET AnyLock /\ {l} \in SUBSET AnyLock
      /\ {} \in SUBSET AnyLock /\ {l} \cup {t} \in SUBSET AnyLock
      /\ t \notin {l} /\ l \in {l} \cup {t} /\ t \in {t} /\ l \notin {}
      /\ "on" \in {"on", "off", "any"} /\ "on" \in {"on", "off"}
      /\ "sleeping" \in {"runnable", "sleeping"}
      /\ ({l} \cup {t}) \ {l} = {t} /\ {t} \ {t} = {} /\ {} \cup {l} = {l}
  BY Zenon, SpinFacts
<1> DEFINE N(h, r) == At0(h, "on", r)
<1>1. Links(t, acquire(t), N({l}, FALSE), N({l} \cup {t}, FALSE)) BY <1>0, LinksAcquire, Zenon
<1>2. Links(t, release(l), N({l} \cup {t}, FALSE), N(({l} \cup {t}) \ {l}, FALSE)) BY <1>0, LinksRelease, Zenon
<1>3. Links(t, Do("sleeping", t), N({t}, FALSE), N({t}, TRUE)) BY <1>0, LinksState, Zenon
<1>4. Links(t, Do("sched", t), N({t}, TRUE), N({t}, FALSE)) BY <1>0, LinksSched, Zenon
<1>5. Links(t, release(t), N({t}, FALSE), N({t} \ {t}, FALSE)) BY <1>0, LinksRelease, Zenon
<1>6. Links(t, acquire(l), N({}, FALSE), N({} \cup {l}, FALSE)) BY <1>0, LinksAcquire, Zenon
<1> HIDE DEF N
<1> DEFINE x2 == acquire(t) \o release(l)
           x3 == x2 \o Do("sleeping", t)
           x4 == x3 \o Do("sched", t)
           x5 == x4 \o release(t)
           x6 == x5 \o acquire(l)
<1>7. Links(t, x2, N({l}, FALSE), N({t}, FALSE)) BY <1>0, <1>1, <1>2, LinksTwo, Zenon
<1> HIDE DEF x2
<1>8. Links(t, x3, N({l}, FALSE), N({t}, TRUE)) BY <1>3, <1>7, LinksTwo, Zenon
<1> HIDE DEF x3
<1>9. Links(t, x4, N({l}, FALSE), N({t}, FALSE)) BY <1>4, <1>8, LinksTwo, Zenon
<1> HIDE DEF x4
<1>10. Links(t, x5, N({l}, FALSE), N({}, FALSE)) BY <1>0, <1>5, <1>9, LinksTwo, Zenon
<1> HIDE DEF x5
<1>11. Links(t, x6, N({l}, FALSE), N({l}, FALSE)) BY <1>0, <1>6, <1>10, LinksTwo, Zenon
<1> QED BY <1>11, Zenon DEF sleep, x2, x3, x4, x5, x6, N

\* forkret() begins with p->lock, and interrupts in any state.
LEMMA LinksForkret ==
  ASSUME NEW t \in Proc
  PROVE  Links(t, forkret(t), At0({t}, "any", FALSE), At0({}, "on", FALSE))
<1>0. /\ t \in AnyLock /\ {t} \in SUBSET AnyLock /\ t \in {t} /\ {t} \ {t} = {}
      /\ "on" \in {"on", "off", "any"} /\ "off" \in {"on", "off", "any"} /\ "any" \in {"on", "off", "any"}
      /\ "intr_off" \in {"intr_off", "sret"} /\ "sret" \in {"intr_off", "sret"}
      /\ "intr_off" # "sret" /\ "on" # "off"
  BY Zenon, SpinFacts
<1>1. Links(t, release(t), At0({t}, "any", FALSE), At0({t} \ {t}, "any", FALSE)) BY <1>0, LinksRelease, Zenon
<1>2. Links(t, Do("intr_off", t), At0({}, "any", FALSE), At0({}, "off", FALSE)) BY <1>0, LinksReturn, Zenon
<1>3. Links(t, Do("sret", t), At0({}, "off", FALSE), At0({}, "on", FALSE)) BY <1>0, LinksReturn, Zenon
<1>4. Links(t, release(t) \o Do("intr_off", t), At0({t}, "any", FALSE), At0({}, "off", FALSE))
  BY <1>0, <1>1, <1>2, LinksTwo, Zenon
<1>5. Links(t, release(t) \o Do("intr_off", t) \o Do("sret", t), At0({t}, "any", FALSE), At0({}, "on", FALSE))
  BY <1>3, <1>4, LinksTwo, Zenon
<1> QED BY <1>5, Zenon DEF forkret

\* scheduler() takes p->lock, looks and gives it back.
LEMMA LinksLook ==
  ASSUME NEW c \in CPU, NEW p \in Proc
  PROVE  Links(c, acquire(p) \o Do("pick", p) \o release(p), At0({}, "any", FALSE), At0({}, "any", FALSE))
<1>0. /\ p \in AnyLock /\ {p} \in SUBSET AnyLock /\ {} \in SUBSET AnyLock /\ p \notin {} /\ p \in {p}
      /\ "any" \in {"on", "off", "any"} /\ {} \cup {p} = {p} /\ {p} \ {p} = {}
  BY Zenon, SpinFacts
<1>1. Links(c, acquire(p), At0({}, "any", FALSE), At0({} \cup {p}, "any", FALSE)) BY <1>0, LinksAcquire, Zenon
<1>2. Links(c, Do("pick", p), At0({p}, "any", FALSE), At0({p}, "any", FALSE)) BY LinksPick, Zenon
<1>3. Links(c, release(p), At0({p}, "any", FALSE), At0({p} \ {p}, "any", FALSE)) BY <1>0, LinksRelease, Zenon
<1>4. Links(c, acquire(p) \o Do("pick", p), At0({}, "any", FALSE), At0({p}, "any", FALSE))
  BY <1>0, <1>1, <1>2, LinksTwo, Zenon
<1> QED BY <1>0, <1>3, <1>4, LinksTwo, Zenon

\* The handler of an interrupt of thread t; m is what t knew of interrupts.
handler(t, timer) ==
  acquire(tickslock) \o release(tickslock)
  \o (IF timer /\ t \in Proc THEN yield(t) ELSE <<>>) \o Do("sret", tickslock)

\* An interrupt leaves interrupts as they were for the thread.
LEMMA LinksHandler ==
  ASSUME NEW t, NEW timer \in BOOLEAN, NEW m \in {"on", "any"}
  PROVE  Links(t, handler(t, timer), At0({}, "off", FALSE), At0({}, m, FALSE))
<1> DEFINE l == tickslock
<1>0. /\ l \in AnyLock /\ {l} \in SUBSET AnyLock /\ {} \in SUBSET AnyLock /\ l \notin {} /\ l \in {l}
      /\ "off" \in {"on", "off", "any"} /\ "off" \in {"on", "off"} /\ m \in {"on", "off", "any"} /\ m # "off"
      /\ "sret" \in {"intr_off", "sret"} /\ "sret" # "intr_off"
      /\ {} \cup {l} = {l} /\ {l} \ {l} = {}
  BY Zenon, SpinFacts
<1> HIDE DEF l
<1> DEFINE N == At0({}, "off", FALSE)
           y == IF timer /\ t \in Proc THEN yield(t) ELSE <<>>
           x2 == acquire(l) \o release(l)
           x3 == x2 \o y
<1>1. Links(t, acquire(l), N, At0({} \cup {l}, "off", FALSE)) BY <1>0, LinksAcquire, Zenon
<1>2. Links(t, release(l), At0({l}, "off", FALSE), At0({l} \ {l}, "off", FALSE)) BY <1>0, LinksRelease, Zenon
<1>3. Links(t, x2, N, N) BY <1>0, <1>1, <1>2, LinksTwo, Zenon
<1> HIDE DEF x2
<1>4. Links(t, x3, N, N)
  <2>1. CASE timer /\ t \in Proc
    <3>1. Links(t, yield(t), N, N) BY <1>0, <2>1, LinksYield, Zenon
    <3> QED BY <1>3, <2>1, <3>1, LinksTwo, Zenon
  <2>2. CASE ~(timer /\ t \in Proc)
    <3>1. x2 \in Seq(Instr) /\ x3 = x2 \o <<>> BY Zenon, <1>3, <2>2 DEF Links
    <3>2. x3 = x2 BY Zenon, <3>1, EmptyJoined
    <3> QED BY <1>3, <3>2, Zenon
  <2> QED BY <2>1, <2>2, Zenon
<1> HIDE DEF x3
<1>5. Links(t, Do("sret", l), N, At0({}, m, FALSE)) BY <1>0, LinksReturn, Zenon
<1>6. Links(t, x3 \o Do("sret", l), N, At0({}, m, FALSE)) BY <1>4, <1>5, LinksTwo, Zenon
<1> QED BY <1>6, Zenon DEF handler, x3, x2, l

\* A thread that gets new code s where it is in no acquire() or release().
LEMMA NewCode ==
  ASSUME SpinInv, NEW c \in CPU, NEW s \in Seq(Instr), NEW n \in Note, n.k = "none",
         Leads(on[c], s, n), code' = [code EXCEPT ![on[c]] = s],
         UNCHANGED <<on, locked, owner, held, state, noff, intena>>,
         sie' \in [CPU -> BOOLEAN], \A d \in CPU : d # c => sie'[d] = sie[d],
         Agrees(c, n)', n.h = held[on[c]], on[c] \in Proc => (n.r <=> state[on[c]] # "RUNNING"),
         \A l \in AnyLock : ~At(c, "setcpu", l) /\ ~At(c, "unlock", l)
  PROVE  SpinInv'
<1>t. SpinTypes BY Zenon DEF SpinInv
<1>1. RunInv' /\ OnInv' /\ OffInv'
  <2>1. \A t \in Thread : t # on[c] => held'[t] = held[t] BY Zenon
  <2>2. \A d \in CPU : d # c => sie'[d] = sie[d] /\ noff'[d] = noff[d] /\ intena'[d] = intena[d] BY Zenon
  <2>3. \A p \in Proc : p # on[c] => state'[p] = state[p] BY Zenon
  <2>4. on' = on /\ n.h = held'[on[c]] /\ (on[c] \in Proc => (n.r <=> state'[on[c]] # "RUNNING")) BY Zenon
  <2> QED BY <2>1, <2>2, <2>3, <2>4, StepKeeps, Zenon
<1>2. HolderInv'
  <2>1. s = <<>> \/ Head(s).op # "unlock"
    <3>1. s = <<>> \/ Head(s).op \notin {"swap", "setcpu", "unlock", "pop_off"} BY LeadsHead, Zenon
    <3> QED BY Zenon, <3>1
  <2> QED BY <2>1, HolderSame, Zenon
<1>3. SpinTypes'
  <2>1. code' \in [Thread -> Seq(Instr)] BY <1>t, CodeType, Zenon
  <2> QED BY Zenon, <1>t, <2>1 DEF SpinTypes
<1> QED BY Zenon, <1>1, <1>2, <1>3 DEF SpinInv

\* A note outside acquire() and release().
LEMMA NoteIs == ASSUME NEW a \in Note, ~a.r, a.k = "none" PROVE a = At0(a.h, a.m, FALSE)
BY Zenon DEF At0, Before, Note

\* What a thread with nothing left to execute knows.
LEMMA EndNote ==
  ASSUME SpinInv, NEW c \in CPU, code[on[c]] = <<>>
  PROVE  /\ \A x, l : ~At(c, x, l)
         /\ \E a \in Note : /\ Final(on[c], a) /\ Agrees(c, a) /\ a.h = held[on[c]]
                            /\ on[c] \in Proc => (a.r <=> state[on[c]] # "RUNNING")
<1>1. PICK a \in Note : /\ Leads(on[c], code[on[c]], a) /\ Agrees(c, a) /\ a.h = held[on[c]]
                        /\ on[c] \in Proc => (a.r <=> state[on[c]] # "RUNNING")
  BY Zenon DEF SpinInv, OnInv
<1>2. Final(on[c], a) BY Zenon, <1>1, LeadsNil
<1>3. \A x, l : ~At(c, x, l) BY Zenon DEF At
<1> QED BY <1>1, <1>2, <1>3, Zenon

\* The top of the loop of scheduler().
LEMMA LoopStep == ASSUME Sizes, SpinInv, NEW c \in CPU, loop(c) PROVE SpinInv'
<1>t. SpinTypes BY Zenon DEF SpinInv
<1>1. on[c] = c /\ code[on[c]] = <<>> BY Zenon DEF loop
<1>2. PICK a \in Note : Final(on[c], a) /\ Agrees(c, a) /\ a.h = held[on[c]] BY <1>1, EndNote, Zenon
<1>3. a.h = {} /\ a.m = "any" /\ a.k = "none" BY Zenon, <1>1, <1>2 DEF Final
<1>4. /\ UNCHANGED <<on, locked, owner, held, state, noff, intena, code>>
      /\ sie' = [sie EXCEPT ![c] = TRUE]
  BY Zenon DEF loop, lockVars
<1>5. sie' \in [CPU -> BOOLEAN] /\ (\A d \in CPU : d # c => sie'[d] = sie[d]) /\ sie'[c]
  BY Zenon, <1>4, <1>t DEF SpinTypes
<1>6. Agrees(c, a)' BY <1>2, <1>3, <1>4, <1>5, SizeEmpty DEF Agrees
<1>7. code' = [code EXCEPT ![on[c]] = <<>>] BY Zenon, <1>1, <1>4, <1>t, SpinFacts DEF SpinTypes
<1>8. <<>> \in Seq(Instr) /\ Leads(on[c], <<>>, a) BY <1>2, LeadsNil
<1>9. on[c] \notin Proc /\ \A l \in AnyLock : ~At(c, "setcpu", l) /\ ~At(c, "unlock", l)
  BY Zenon, <1>1, EndNote, SpinFacts
<1> QED BY <1>2, <1>3, <1>4, <1>5, <1>6, <1>7, <1>8, <1>9, NewCode, Zenon

\* It looks at a process.
LEMMA LookStep == ASSUME SpinInv, NEW c \in CPU, NEW p \in Proc, look(c, p) PROVE SpinInv'
<1>t. SpinTypes BY Zenon DEF SpinInv
<1>1. on[c] = c /\ code[on[c]] = <<>> BY Zenon DEF look
<1>2. PICK a \in Note : Final(on[c], a) /\ Agrees(c, a) /\ a.h = held[on[c]] BY <1>1, EndNote, Zenon
<1>3. a.h = {} /\ a.m = "any" /\ a.k = "none" /\ ~a.r BY Zenon, <1>1, <1>2 DEF Final
<1> DEFINE s == acquire(p) \o Do("pick", p) \o release(p)
<1>4. /\ UNCHANGED <<on, locked, owner, held, state, noff, intena, sie>>
      /\ code' = [code EXCEPT ![on[c]] = s]
  BY <1>1, Zenon DEF look, lockVars, cpuVars
<1>5. s \in Seq(Instr) /\ Leads(on[c], s, a)
  <2>1. a = At0({}, "any", FALSE) BY <1>3, NoteIs, Zenon
  <2> QED BY <1>1, <1>2, <2>1, LinksLook, LinksEnd, Zenon
<1> HIDE DEF s
<1>6. Agrees(c, a)' BY <1>2, <1>4, Zenon DEF Agrees
<1>7. sie' \in [CPU -> BOOLEAN] /\ \A d \in CPU : d # c => sie'[d] = sie[d] BY <1>4, <1>t, Zenon DEF SpinTypes
<1>8. on[c] \notin Proc /\ \A l \in AnyLock : ~At(c, "setcpu", l) /\ ~At(c, "unlock", l)
  BY <1>1, EndNote, SpinFacts, Zenon
<1> QED BY <1>2, <1>3, <1>4, <1>5, <1>6, <1>7, <1>8, NewCode, Zenon

\* A system call takes a lock, gives it back, or sleeps.
LEMMA CallStep ==
  ASSUME SpinInv, NEW c \in CPU, NEW p \in Proc, NEW s \in Calls(p), call(c, p, s)
  PROVE  SpinInv'
<1>t. SpinTypes BY Zenon DEF SpinInv
<1>1. on[c] = p /\ code[on[c]] = <<>> BY Zenon DEF call
<1>2. PICK a \in Note : /\ Final(on[c], a) /\ Agrees(c, a) /\ a.h = held[on[c]]
                        /\ on[c] \in Proc => (a.r <=> state[on[c]] # "RUNNING")
  BY <1>1, EndNote, Zenon
<1>3. /\ a.m = "on" /\ a.k = "none" /\ ~a.r /\ (a.h = {} \/ \E l \in Lock : a.h = {l}) /\ a.h = held[p]
  BY Zenon, <1>1, <1>2 DEF Final
<1>a. a = At0(a.h, "on", FALSE) BY <1>3, NoteIs, Zenon
<1>4. /\ UNCHANGED <<on, locked, owner, held, state, noff, intena, sie>>
      /\ code' = [code EXCEPT ![on[c]] = s]
  BY <1>1, Zenon DEF call, lockVars, cpuVars
<1>f. ASSUME NEW h \in SUBSET AnyLock, h = {} \/ \E l \in Lock : h = {l}
      PROVE  Final(p, At0(h, "on", FALSE))
  <2>1. "on" \in {"on", "off", "any"} /\ FALSE \in BOOLEAN /\ p \notin CPU BY Zenon, SpinFacts
  <2> DEFINE n == At0(h, "on", FALSE)
  <2>2. n.h = h /\ n.m = "on" /\ ~n.r /\ n.k = "none" BY Zenon DEF At0, Before
  <2> HIDE DEF n
  <2>3. Final(p, n) BY Zenon, <1>f, <2>1, <2>2 DEF Final
  <2> QED BY <2>3, Zenon DEF n
<1>5. s \in Seq(Instr) /\ Leads(p, s, a)
  <2>0. "on" \in {"on", "off", "any"} /\ {} \in SUBSET AnyLock /\ Lock \subseteq AnyLock BY Zenon, SpinFacts
  <2>1. CASE \E l \in Lock : held[p] = {} /\ s = acquire(l)
    <3>1. PICK l \in Lock : held[p] = {} /\ s = acquire(l) BY Zenon, <2>1
    <3>2. l \in AnyLock /\ l \notin {} /\ {} \cup {l} = {l} /\ {l} \in SUBSET AnyLock BY Zenon, <2>0
    <3>3. Links(p, s, At0({}, "on", FALSE), At0({} \cup {l}, "on", FALSE)) BY <2>0, <3>1, <3>2, LinksAcquire, Zenon
    <3>4. Final(p, At0({l}, "on", FALSE)) BY <1>f, <3>2, Zenon
    <3>5. a = At0({}, "on", FALSE) BY Zenon, <1>a, <1>3, <3>1
    <3> QED BY <3>2, <3>3, <3>4, <3>5, LinksEnd, Zenon
  <2>2. CASE \E l \in held[p] : s = release(l) \/ s = sleep(p, l)
    <3>1. PICK l \in held[p] : s = release(l) \/ s = sleep(p, l) BY Zenon, <2>2
    <3>2. l \in Lock /\ held[p] = {l} BY Zenon, <1>3
    <3>3. l \in {l} /\ {l} \in SUBSET AnyLock /\ {l} \ {l} = {} BY Zenon, <2>0, <3>2
    <3>4. a = At0({l}, "on", FALSE) BY Zenon, <1>a, <1>3, <3>2
    <3>5. CASE s = release(l)
      <4>1. Links(p, s, At0({l}, "on", FALSE), At0({l} \ {l}, "on", FALSE)) BY <2>0, <3>3, <3>5, LinksRelease, Zenon
      <4>2. Final(p, At0({}, "on", FALSE)) BY <1>f, <2>0, Zenon
      <4> QED BY <3>3, <3>4, <4>1, <4>2, LinksEnd, Zenon
    <3>6. CASE s = sleep(p, l)
      <4>1. Links(p, s, At0({l}, "on", FALSE), At0({l}, "on", FALSE)) BY <3>2, <3>6, LinksSleep, Zenon
      <4>2. Final(p, At0({l}, "on", FALSE)) BY <1>f, <3>2, <3>3, Zenon
      <4> QED BY <3>4, <4>1, <4>2, LinksEnd, Zenon
    <3> QED BY Zenon, <3>1, <3>5, <3>6
  <2> QED
    <3>1. \/ s \in {acquire(l) : l \in IF held[p] = {} THEN Lock ELSE {}}
          \/ s \in {release(l) : l \in held[p]} \/ s \in {sleep(p, l) : l \in held[p]}
      BY Zenon DEF Calls
    <3> QED BY Zenon, <2>1, <2>2, <3>1
<1>6. Agrees(c, a)' BY <1>2, <1>4, Zenon DEF Agrees
<1>7. sie' \in [CPU -> BOOLEAN] /\ \A d \in CPU : d # c => sie'[d] = sie[d] BY <1>4, <1>t, Zenon DEF SpinTypes
<1>8. \A l \in AnyLock : ~At(c, "setcpu", l) /\ ~At(c, "unlock", l) BY <1>1, EndNote, Zenon
<1> QED BY <1>1, <1>2, <1>3, <1>4, <1>5, <1>6, <1>7, <1>8, NewCode, Zenon

\* What a thread that can be interrupted knows.
LEMMA OpenNote ==
  ASSUME Sizes, SpinInv, NEW c \in CPU, sie[c]
  PROVE  /\ held[on[c]] = {} /\ noff[c] = 0
         /\ \E m \in {"on", "any"} : Leads(on[c], code[on[c]], At0({}, m, FALSE))
         /\ on[c] \in Proc => state[on[c]] = "RUNNING"
         /\ \A l \in AnyLock : ~At(c, "setcpu", l) /\ ~At(c, "unlock", l)
<1>1. PICK a \in Note : /\ Leads(on[c], code[on[c]], a) /\ Agrees(c, a) /\ a.h = held[on[c]]
                        /\ on[c] \in Proc => (a.r <=> state[on[c]] # "RUNNING")
  BY Zenon DEF SpinInv, OnInv
<1>2. on[c] \in Thread /\ code[on[c]] \in Seq(Instr) /\ IsFiniteSet(a.h)
  BY Zenon, <1>1 DEF SpinInv, SpinTypes, HolderInv
<1>3. Cardinality(a.h) \in Nat BY Zenon, <1>2, SizeNat
<1>4. noff[c] = 0 /\ Cardinality(a.h) = 0 /\ a.k \notin {"swap", "pop_off"} /\ a.m # "off"
  BY <1>1, <1>3 DEF Agrees
<1>5. a.h = {} BY <1>2, <1>4, SizeEmpty, Zenon
<1>6. a.k = "none" /\ ~a.r
  <2>1. CASE code[on[c]] = <<>>
    <3>1. Final(on[c], a) BY Zenon, <1>1, <2>1, LeadsNil
    <3> QED BY Zenon, <3>1 DEF Final
  <2>2. CASE code[on[c]] # <<>>
    <3> DEFINE i == Head(code[on[c]])
               u == Tail(code[on[c]])
    <3>1. i \in Instr /\ u \in Seq(Instr) /\ code[on[c]] = Cons(i, u) BY <1>2, <2>2, HeadTail, Zenon
    <3> HIDE DEF i, u
    <3>2. Leads(on[c], Cons(i, u), a) BY <1>1, <3>1, Zenon
    <3>3. PICK b \in Note : Legal(on[c], i, a, b) BY <3>1, <3>2, LeadsCons, Zenon
    <3> QED BY Zenon, <1>4, <1>5, <3>3 DEF Legal
  <2> QED BY Zenon, <2>1, <2>2
<1>7. a = At0({}, a.m, FALSE) /\ a.m \in {"on", "any"}
  <2>1. a.m \in {"on", "any"} BY Zenon, <1>4 DEF Note
  <2> QED BY <1>5, <1>6, <2>1, NoteIs, Zenon
<1>8. on[c] \in Proc => state[on[c]] = "RUNNING" BY Zenon, <1>1, <1>6
<1>9. ASSUME NEW l \in AnyLock, At(c, "setcpu", l) \/ At(c, "unlock", l) PROVE FALSE
  <2>1. PICK op \in {"setcpu", "unlock"} : At(c, op, l) BY Zenon, <1>9
  <2>2. PICK i \in Instr, x \in Note, b \in Note : Does(c, op, l, i, x, b) BY <2>1, AtNote, Zenon
  <2>3. l \in held[on[c]] BY <2>2, Zenon DEF Does, Legal
  <2> QED BY Zenon, <1>1, <1>5, <2>3
<1> QED BY <1>1, <1>4, <1>5, <1>7, <1>8, <1>9, Zenon

\* An interrupt.
LEMMA TrapStep ==
  ASSUME Sizes, SpinInv, NEW c \in CPU, NEW timer \in BOOLEAN, trap(c, timer) PROVE SpinInv'
<1>t. SpinTypes BY Zenon DEF SpinInv
<1>1. /\ held[on[c]] = {} /\ noff[c] = 0 /\ (on[c] \in Proc => state[on[c]] = "RUNNING")
      /\ \A l \in AnyLock : ~At(c, "setcpu", l) /\ ~At(c, "unlock", l)
  BY OpenNote, Zenon DEF trap
<1>2. PICK m \in {"on", "any"} : Leads(on[c], code[on[c]], At0({}, m, FALSE)) BY OpenNote, Zenon DEF trap
<1>3. on[c] \in Thread /\ code[on[c]] \in Seq(Instr) BY Zenon, <1>t DEF SpinTypes
<1> DEFINE s == handler(on[c], timer) \o code[on[c]]
           n == At0({}, "off", FALSE)
<1>4. Links(on[c], handler(on[c], timer), n, At0({}, m, FALSE)) BY LinksHandler, Zenon
<1>5. n \in Note /\ s \in Seq(Instr) /\ Leads(on[c], s, n)
  <2>1. handler(on[c], timer) \in Seq(Instr) BY <1>4, Zenon DEF Links
  <2>2. s \in Seq(Instr) BY <1>3, <2>1, Concat, Zenon
  <2> QED BY <1>2, <1>3, <1>4, <2>2, Zenon DEF Links
<1>6. n.h = {} /\ n.m = "off" /\ ~n.r /\ n.k = "none" BY Zenon DEF At0, Before
<1>7. /\ UNCHANGED <<on, locked, owner, held, state, noff, intena>>
      /\ sie' = [sie EXCEPT ![c] = FALSE] /\ code' = [code EXCEPT ![on[c]] = s]
  BY Zenon DEF trap, lockVars, handler
<1> HIDE DEF s, n
<1>8. /\ sie' \in [CPU -> BOOLEAN] /\ sie'[c] = FALSE
      /\ \A d \in CPU : d # c => sie'[d] = sie[d]
  BY Zenon, <1>7, <1>t DEF SpinTypes
<1>9. Agrees(c, n)' BY <1>1, <1>6, <1>7, <1>8, SizeEmpty DEF Agrees
<1>10. n.h = held[on[c]] /\ (on[c] \in Proc => (n.r <=> state[on[c]] # "RUNNING")) BY Zenon, <1>1, <1>6
<1> QED BY <1>1, <1>5, <1>6, <1>7, <1>8, <1>9, <1>10, NewCode, Zenon

\* wakeup().
LEMMA WakeupStep == ASSUME SpinInv, NEW p \in Proc, wakeup(p) PROVE SpinInv'
<1>1. /\ UNCHANGED <<on, locked, owner, held, code, noff, intena, sie>>
      /\ state[p] = "SLEEPING" /\ state' = [state EXCEPT ![p] = "RUNNABLE"]
  BY Zenon DEF wakeup, lockVars, cpuVars
<1>2. SpinTypes' BY Zenon, <1>1 DEF SpinInv, SpinTypes
<1>3. RunInv' BY Zenon, <1>1 DEF SpinInv, RunInv
<1>4. HolderInv' BY <1>1, Zenon DEF SpinInv, HolderInv, Running, At
<1>5. \A q \in Proc : state'[q] = "RUNNING" <=> state[q] = "RUNNING" BY Zenon, <1>1 DEF SpinInv, SpinTypes
<1>6. OnInv'
  <2> SUFFICES ASSUME NEW c \in CPU
               PROVE  (\E a \in Note : /\ Leads(on[c], code[on[c]], a) /\ Agrees(c, a) /\ a.h = held[on[c]]
                                       /\ on[c] \in Proc => (a.r <=> state[on[c]] # "RUNNING"))'
    BY Zenon DEF OnInv
  <2>1. PICK a \in Note : /\ Leads(on[c], code[on[c]], a) /\ Agrees(c, a) /\ a.h = held[on[c]]
                          /\ on[c] \in Proc => (a.r <=> state[on[c]] # "RUNNING")
    BY Zenon DEF SpinInv, OnInv
  <2>2. Agrees(c, a)' BY <1>1, <2>1, Zenon DEF Agrees
  <2> QED BY <1>1, <1>5, <2>1, <2>2, Zenon
<1>7. OffInv' BY <1>1, <1>5, Zenon DEF SpinInv, OffInv, Running
<1> QED BY Zenon, <1>2, <1>3, <1>4, <1>6, <1>7 DEF SpinInv

\* At the start every process is to run forkret(), with its lock held.
LEMMA SpinInitInv == ASSUME Sizes, Init PROVE SpinInv
<1>1. /\ sie = [c \in CPU |-> FALSE] /\ intena = [c \in CPU |-> FALSE] /\ noff = [c \in CPU |-> 0]
      /\ locked = [l \in AnyLock |-> FALSE] /\ owner = [l \in AnyLock |-> NoCPU]
      /\ on = [c \in CPU |-> c] /\ held = [t \in Thread |-> {}] /\ state = [p \in Proc |-> "RUNNABLE"]
      /\ code = [t \in Thread |-> IF t \in Proc THEN forkret(t) ELSE <<>>]
  BY SpinFacts, Zenon DEF Init
<1>2. ASSUME NEW p \in Proc
      PROVE  forkret(p) \in Seq(Instr) /\ Leads(p, forkret(p), Before({p}, "any", FALSE, "none"))
  <2> DEFINE n == At0({}, "on", FALSE)
  <2>1. n.h = {} /\ n.m = "on" /\ ~n.r /\ n.k = "none" BY Zenon DEF At0, Before
  <2> HIDE DEF n
  <2>2. Final(p, n) BY Zenon, <2>1, SpinFacts DEF Final
  <2> QED BY <2>2, LinksForkret, LinksEnd, Zenon DEF n, At0
<1>3. \A c \in CPU : on[c] = c /\ c \in Thread /\ c \notin Proc /\ code[c] = <<>> BY Zenon, <1>1, SpinFacts
<1>4. \A p \in Proc : p \in Thread /\ code[p] = forkret(p) BY Zenon, <1>1, SpinFacts
<1>5. SpinTypes
  <2>1. code \in [Thread -> Seq(Instr)]
    <3>1. <<>> \in Seq(Instr) OBVIOUS
    <3>2. \A t \in Thread : (IF t \in Proc THEN forkret(t) ELSE <<>>) \in Seq(Instr) BY <1>2, <3>1, Zenon
    <3> QED BY <1>1, <3>2, Zenon
  <2>2. on \in [CPU -> Thread] BY Zenon, <1>1, SpinFacts
  <2> QED BY Zenon, <1>1, <2>1, <2>2 DEF SpinTypes
<1>6. RunInv BY Zenon, <1>3 DEF RunInv
<1>7. HolderInv
  <2>1. \A t \in Thread : held[t] = {} BY Zenon, <1>1
  <2>2. \A l \in AnyLock : ~locked[l] /\ owner[l] = NoCPU BY Zenon, <1>1
  <2> QED BY <1>3, <2>1, <2>2, SizeEmpty, Zenon DEF HolderInv
<1>8. OnInv
  <2> DEFINE n == At0({}, "any", FALSE)
  <2>1. n \in Note /\ n.h = {} /\ n.m = "any" /\ ~n.r /\ n.k = "none" BY Zenon DEF At0, Before, Note
  <2> HIDE DEF n
  <2>2. ASSUME NEW c \in CPU
        PROVE  /\ Leads(on[c], code[on[c]], n) /\ Agrees(c, n) /\ n.h = held[on[c]] /\ on[c] \notin Proc
    <3>1. Final(c, n) BY Zenon, <2>1, SpinFacts DEF Final
    <3>2. Leads(c, <<>>, n) BY Zenon, <2>1, <3>1, LeadsNil
    <3>3. noff[c] = 0 /\ ~sie[c] /\ held[c] = {} BY Zenon, <1>1, SpinFacts
    <3>4. Agrees(c, n) BY <2>1, <3>3, SizeEmpty DEF Agrees
    <3> QED BY Zenon, <1>3, <2>1, <3>2, <3>3, <3>4
  <2> QED BY <2>1, <2>2, Zenon DEF OnInv
<1>9. OffInv
  <2>1. \A p \in Proc : state[p] = "RUNNABLE" BY Zenon, <1>1
  <2> QED BY <1>2, <1>3, <1>4, <2>1, Zenon DEF OffInv
<1> QED BY Zenon, <1>5, <1>6, <1>7, <1>8, <1>9 DEF SpinInv

\* A process that has changed its own state has its lock.
LEMMA StateHeld ==
  ASSUME SpinInv, NEW c \in CPU, on[c] \in Proc, state[on[c]] # "RUNNING" PROVE on[c] \in held[on[c]]
<1>1. PICK a \in Note : /\ Leads(on[c], code[on[c]], a) /\ a.h = held[on[c]] /\ a.r
  BY Zenon DEF SpinInv, OnInv
<1>2. code[on[c]] \in Seq(Instr) BY Zenon DEF SpinInv, SpinTypes
<1>3. code[on[c]] # <<>>
  <2>1. CASE code[on[c]] = <<>>
    <3>1. Final(on[c], a) BY Zenon, <1>1, <2>1, LeadsNil
    <3> QED BY Zenon, <1>1, <3>1 DEF Final
  <2> QED BY Zenon, <2>1
<1> DEFINE i == Head(code[on[c]])
           u == Tail(code[on[c]])
<1>4. i \in Instr /\ u \in Seq(Instr) /\ code[on[c]] = Cons(i, u) BY <1>2, <1>3, HeadTail, Zenon
<1> HIDE DEF i, u
<1>5. Leads(on[c], Cons(i, u), a) BY <1>1, <1>4, Zenon
<1>6. PICK b \in Note : Legal(on[c], i, a, b) BY <1>4, <1>5, LeadsCons, Zenon
<1> QED BY Zenon, <1>1, <1>6 DEF Legal

\* A switch on CPU c from thread x to thread y, which hands over the lock p.
\* s is what x has to execute when it runs again.
Switch(c, x, y, p, s) ==
  /\ on[c] = x /\ on' = [on EXCEPT ![c] = y] /\ code' = [code EXCEPT ![x] = s]
  /\ held' = [held EXCEPT ![x] = held[x] \ {p}, ![y] = held[y] \cup {p}]
  /\ UNCHANGED <<sie, noff, intena, locked, owner>>

\* After a switch p->lock has one holder, the thread that now runs on c.
LEMMA SwitchHolder ==
  ASSUME Sizes, SpinInv, NEW c \in CPU, NEW x \in Thread, NEW y \in Thread, NEW p \in AnyLock,
         NEW s \in Seq(Instr), Switch(c, x, y, p, s), x # y, ~Running(y), held[x] = {p},
         \A l \in AnyLock : ~At(c, "setcpu", l) /\ ~At(c, "unlock", l),
         code[y] = <<>> \/ Head(code[y]).op # "unlock"
  PROVE  /\ held' \in [Thread -> SUBSET AnyLock] /\ held'[x] = {} /\ held'[y] = {p}
         /\ on' \in [CPU -> Thread] /\ on'[c] = y /\ (\A d \in CPU : d # c => on'[d] = on[d] /\ on[d] # x /\ on[d] # y)
         /\ \A t \in Thread : t # x => code'[t] = code[t]
         /\ \A t \in Thread : t # x /\ t # y => held'[t] = held[t]
         /\ HolderInv'
<1>t. /\ held \in [Thread -> SUBSET AnyLock] /\ on \in [CPU -> Thread] /\ code \in [Thread -> Seq(Instr)]
      /\ owner \in [AnyLock -> CPU \cup {NoCPU}]
  BY Zenon DEF SpinInv, SpinTypes
<1>h. HolderInv /\ RunInv BY Zenon DEF SpinInv
<1>s. /\ on[c] = x /\ on' = [on EXCEPT ![c] = y] /\ code' = [code EXCEPT ![x] = s]
      /\ held' = [held EXCEPT ![x] = held[x] \ {p}, ![y] = held[y] \cup {p}]
      /\ locked' = locked /\ owner' = owner
  BY Zenon DEF Switch
<1>1. held[y] = {} BY <1>h, Zenon DEF HolderInv
<1>2. held' \in [Thread -> SUBSET AnyLock] /\ held'[x] = {} /\ held'[y] = {p} BY <1>s, <1>t, <1>1, Zenon
<1>3. on' \in [CPU -> Thread] /\ on'[c] = y BY Zenon, <1>s, <1>t
<1>4. \A d \in CPU : d # c => on'[d] = on[d] /\ on[d] # x /\ on[d] # y BY Zenon, <1>s, <1>t, <1>h DEF RunInv, Running
<1>5. \A t \in Thread : t # x => code'[t] = code[t] BY Zenon, <1>s, <1>t
<1>6. \A t \in Thread : t # x /\ t # y => held'[t] = held[t] BY Zenon, <1>s, <1>t
<1>p. owner[p] = c BY Zenon, <1>h, <1>s DEF HolderInv
<1>i. \A v, t \in Thread : \A m : m \in held[v] /\ m \in held[t] => v = t BY <1>h, Zenon DEF HolderInv
<1>7. HolderInv'
  <2>1. \A v, t \in Thread : held'[v] \cap held'[t] # {} => v = t
    <3> SUFFICES ASSUME NEW v \in Thread, NEW t \in Thread, NEW m, m \in held'[v], m \in held'[t] PROVE v = t
      BY Zenon
    <3>1. CASE m = p
      <4>1. \A w \in Thread : m \in held'[w] => w = y
        <5> SUFFICES ASSUME NEW w \in Thread, m \in held'[w], w # y PROVE FALSE BY Zenon
        <5>1. w # x /\ m \in held[w] BY Zenon, <1>2, <1>6
        <5> QED BY Zenon, <1>i, <3>1, <5>1
      <4> QED BY Zenon, <4>1
    <3>2. CASE m # p
      <4>1. \A w \in Thread : m \in held'[w] => m \in held[w] BY Zenon, <1>2, <1>6, <3>2
      <4> QED BY Zenon, <1>i, <4>1
    <3> QED BY Zenon, <3>1, <3>2
  <2>2. \A t \in Thread : IsFiniteSet(held'[t]) /\ (held'[t] # {} => Running(t)')
    <3> SUFFICES ASSUME NEW t \in Thread PROVE IsFiniteSet(held'[t]) /\ (held'[t] # {} => Running(t)') BY Zenon
    <3>1. CASE t = x BY <1>2, <3>1, SizeEmpty, Zenon
    <3>2. CASE t = y
      <4>1. IsFiniteSet({p}) BY SizeOne, Zenon
      <4> QED BY <1>2, <1>3, <3>2, <4>1, Zenon DEF Running
    <3>3. CASE t # x /\ t # y
      <4>1. held'[t] = held[t] BY Zenon, <1>6, <3>3
      <4>2. IsFiniteSet(held[t]) /\ (held[t] # {} => Running(t)) BY <1>h, Zenon DEF HolderInv
      <4>3. Running(t) => Running(t)'
        <5> SUFFICES ASSUME NEW d \in CPU, on[d] = t PROVE Running(t)' BY Zenon DEF Running
        <5>1. on'[d] = t BY Zenon, <1>4, <1>s, <3>3
        <5> QED BY Zenon, <5>1 DEF Running
      <4> QED BY Zenon, <4>1, <4>2, <4>3
    <3> QED BY Zenon, <3>1, <3>2, <3>3
  <2>3. \A m \in AnyLock : locked'[m] <=> \E t \in Thread : m \in held'[t]
    <3> SUFFICES ASSUME NEW m \in AnyLock PROVE locked'[m] <=> \E t \in Thread : m \in held'[t] BY Zenon
    <3>1. locked'[m] <=> \E t \in Thread : m \in held[t] BY <1>h, <1>s, Zenon DEF HolderInv
    <3>2. (\E t \in Thread : m \in held[t]) <=> (\E t \in Thread : m \in held'[t])
      <4>1. CASE m = p BY Zenon, <1>2, <4>1
      <4>2. CASE m # p
        <5>1. \A t \in Thread : m \in held[t] <=> m \in held'[t] BY <1>1, <1>2, <1>6, <4>2
        <5> QED BY <5>1, Zenon
      <4> QED BY Zenon, <4>1, <4>2
    <3> QED BY Zenon, <3>1, <3>2
  <2>4. ASSUME NEW m \in AnyLock, owner'[m] # NoCPU PROVE m \in held'[on'[owner'[m]]]
    <3>1. owner'[m] = owner[m] /\ owner[m] \in CPU /\ m \in held[on[owner[m]]] BY <2>4, <1>h, <1>s, <1>t DEF HolderInv
    <3>2. CASE m = p BY <1>2, <1>3, <1>p, <3>1, <3>2, Zenon
    <3>3. CASE m # p
      <4>1. owner[m] # c BY Zenon, <1>s, <3>1, <3>3
      <4>2. on[owner[m]] \in Thread BY Zenon, <1>t, <3>1
      <4>3. on'[owner[m]] = on[owner[m]] BY Zenon, <1>4, <3>1, <4>1
      <4>4. m \in held'[on[owner[m]]] BY Zenon, <1>1, <1>2, <1>6, <3>1, <3>3, <4>2
      <4> QED BY <3>1, <4>3, <4>4, Zenon
    <3> QED BY Zenon, <3>2, <3>3
  <2>a. ASSUME NEW d \in CPU, d # c PROVE \A z, m : At(d, z, m)' <=> At(d, z, m)
    <3>1. on[d] \in Thread /\ on'[d] = on[d] /\ on[d] # x BY Zenon, <1>t, <1>4, <2>a
    <3>2. code'[on'[d]] = code[on[d]] BY Zenon, <1>5, <3>1
    <3> QED BY <3>2, Zenon DEF At
  <2>5. ASSUME NEW d \in CPU, NEW m \in AnyLock, m \in held'[on'[d]]
        PROVE  owner'[m] = d \/ At(d, "setcpu", m)' \/ At(d, "unlock", m)'
    <3>1. CASE d = c BY <1>2, <1>3, <1>p, <1>s, <2>5, <3>1
    <3>2. CASE d # c
      <4>1. on[d] \in Thread /\ on'[d] = on[d] /\ on[d] # x /\ on[d] # y BY Zenon, <1>t, <1>4, <3>2
      <4>2. m \in held[on[d]] BY Zenon, <1>6, <2>5, <4>1
      <4>3. owner[m] = d \/ At(d, "setcpu", m) \/ At(d, "unlock", m) BY <1>h, <4>2, Zenon DEF HolderInv
      <4> QED BY <1>s, <2>a, <3>2, <4>3, Zenon
    <3> QED BY Zenon, <3>1, <3>2
  <2>6. ASSUME NEW d \in CPU, NEW m \in AnyLock, At(d, "unlock", m)' PROVE owner'[m] = NoCPU
    <3>1. d # c
      <4>1. CASE d = c
        <5>1. code'[on'[c]] = code[y] BY Zenon, <1>3, <1>5
        <5> QED BY Zenon, <2>6, <4>1, <5>1 DEF At
      <4> QED BY Zenon, <4>1
    <3>2. At(d, "unlock", m) BY <2>6, <2>a, <3>1, Zenon
    <3> QED BY <1>h, <1>s, <3>2, Zenon DEF HolderInv
  <2> QED BY <2>1, <2>2, <2>3, <2>4, <2>5, <2>6, Zenon DEF HolderInv
<1> QED BY <1>2, <1>3, <1>4, <1>5, <1>6, <1>7, Zenon

\* After a switch the other CPUs know what they knew, and c knows n.
LEMMA SwitchOn ==
  ASSUME SpinInv, NEW c \in CPU, UNCHANGED <<sie, noff, intena>>,
         \A d \in CPU : d # c => /\ on'[d] = on[d] /\ code'[on[d]] = code[on[d]] /\ held'[on[d]] = held[on[d]]
                                 /\ on[d] \in Proc => state'[on[d]] = state[on[d]],
         NEW n \in Note, Leads(on'[c], code'[on'[c]], n), Agrees(c, n), n.h = held'[on'[c]],
         on'[c] \in Proc => (n.r <=> state'[on'[c]] # "RUNNING")
  PROVE  OnInv'
<1> SUFFICES ASSUME NEW d \in CPU
             PROVE  (\E a \in Note : /\ Leads(on[d], code[on[d]], a) /\ Agrees(d, a) /\ a.h = held[on[d]]
                                     /\ on[d] \in Proc => (a.r <=> state[on[d]] # "RUNNING"))'
  BY Zenon DEF OnInv
<1>1. CASE d = c
  <2>1. Agrees(c, n)' BY Zenon DEF Agrees
  <2> QED BY <1>1, <2>1, Zenon
<1>2. CASE d # c
  <2>1. PICK a \in Note : /\ Leads(on[d], code[on[d]], a) /\ Agrees(d, a) /\ a.h = held[on[d]]
                          /\ on[d] \in Proc => (a.r <=> state[on[d]] # "RUNNING")
    BY Zenon DEF SpinInv, OnInv
  <2>2. Agrees(d, a)' BY <2>1, Zenon DEF Agrees
  <2>3. on'[d] = on[d] /\ code'[on'[d]] = code[on[d]] /\ held'[on'[d]] = held[on[d]] BY <1>2, Zenon
  <2>4. on[d] \in Proc => state'[on[d]] = state[on[d]] BY <1>2, Zenon
  <2>5. on'[d] \in Proc => (a.r <=> state'[on'[d]] # "RUNNING") BY <2>1, <2>3, <2>4, Zenon
  <2> QED BY <2>1, <2>2, <2>3, <2>5, Zenon
<1> QED BY Zenon, <1>1, <1>2

\* sched(): the process waits for its turn, with p->lock handed to the scheduler.
LEMMA SchedStep == ASSUME Sizes, SpinInv, NEW c \in CPU, NEW p \in Proc, sched(c, p) PROVE SpinInv'
<1>t. SpinTypes BY Zenon DEF SpinInv
<1>0. /\ p \in AnyLock /\ p \in Thread /\ c \in Thread /\ p # c /\ p \notin CPU /\ c \notin Proc
  BY Zenon, SpinFacts
<1>1. /\ At(c, "sched", p) /\ on[c] = p /\ noff[c] = 1 /\ state[p] # "RUNNING" /\ ~sie[c]
  BY Zenon DEF sched, SchedOK
<1>2. /\ Tail(code[p]) \in Seq(Instr)
      /\ \E i \in Instr, a \in Note, b \in Note : Does(c, "sched", p, i, a, b)
  BY <1>1, AtNote, Zenon
<1>3. PICK i \in Instr, a \in Note, b \in Note : Does(c, "sched", p, i, a, b) BY Zenon, <1>2
<1>4. /\ a.h = {p} /\ held[p] = {p} /\ b.h = {p} /\ a.m # "any" /\ b.m = a.m /\ ~b.r /\ b.k = "none"
      /\ Leads(p, Tail(code[p]), b)
  BY <1>1, <1>3, Zenon DEF Does, Legal
<1>5. b.m = IF intena[c] THEN "on" ELSE "off"
  <2>0. Agrees(c, a) BY <1>3, Zenon DEF Does
  <2>1. (a.m = "on" => intena[c]) /\ (a.m = "off" => ~intena[c]) BY <1>1, <2>0 DEF Agrees
  <2>2. a.m \in {"on", "off", "any"} BY Zenon DEF Note
  <2> QED BY Zenon, <1>4, <2>1, <2>2
<1> DEFINE j == I("resume", p, intena[c])
           s == Cons(j, Tail(code[p]))
           n == At0({p}, "any", FALSE)
<1>6. j \in Instr /\ j.op = "resume" /\ j.lk = p /\ (j.val <=> intena[c])
  <2>1. intena[c] \in BOOLEAN /\ "resume" \in Ops BY Zenon, <1>t DEF SpinTypes, Ops
  <2> QED BY <1>0, <2>1, InstrType, Zenon
<1>n. n \in Note /\ n.h = {p} /\ n.m = "any" /\ ~n.r /\ n.k = "none" BY Zenon, <1>0 DEF At0, Before, Note
<1>w. Switch(c, p, c, p, s)
  BY <1>1, Zenon DEF sched, Then, HandOver, cpuVars, Switch, Cons
<1>u. /\ on' = [on EXCEPT ![c] = c] /\ code' = [code EXCEPT ![p] = s]
      /\ UNCHANGED <<sie, noff, intena, locked, owner, state>>
  BY <1>w, Zenon DEF Switch, sched
<1>s. s \in Seq(Instr) BY <1>2, <1>6, ConsFacts, Zenon
<1> HIDE DEF j
<1>7. Leads(p, s, n)
  <2>1. Legal(p, j, n, b) BY <1>4, <1>5, <1>6, <1>n, Zenon DEF Legal
  <2> QED BY <1>2, <1>4, <1>6, <1>n, <2>1, LeadsCons, Zenon
<1> HIDE DEF s
<1>8. Leads(c, code[c], n)
  <2>1. on[c] # c BY Zenon, <1>0, <1>1
  <2>2. Leads(c, code[c], Before({on[c]}, "any", FALSE, "none")) BY <2>1, Zenon DEF SpinInv, OffInv
  <2> QED BY <1>1, <2>2, Zenon DEF At0
<1> HIDE DEF n
<1>r. ~Running(c)
  <2>1. \A d \in CPU : on[d] # c BY Zenon, <1>0, <1>1, SpinFacts DEF SpinInv, RunInv
  <2> QED BY <2>1, Zenon DEF Running
<1>9. /\ held' \in [Thread -> SUBSET AnyLock] /\ held'[p] = {} /\ held'[c] = {p}
      /\ on' \in [CPU -> Thread] /\ on'[c] = c /\ (\A d \in CPU : d # c => on'[d] = on[d] /\ on[d] # p /\ on[d] # c)
      /\ \A t \in Thread : t # p => code'[t] = code[t]
      /\ \A t \in Thread : t # p /\ t # c => held'[t] = held[t]
      /\ HolderInv'
  <2>1. code[c] \in Seq(Instr) BY Zenon, <1>0, <1>t DEF SpinTypes
  <2>2. code[c] = <<>> \/ Head(code[c]).op # "unlock"
    <3>1. code[c] = <<>> \/ Head(code[c]).op \notin {"swap", "setcpu", "unlock", "pop_off"}
      BY <1>8, <1>n, <2>1, LeadsHead, Zenon
    <3> QED BY Zenon, <3>1
  <2>3. \A l \in AnyLock : ~At(c, "setcpu", l) /\ ~At(c, "unlock", l) BY <1>1, OneHead, Zenon
  <2> QED BY <1>0, <1>w, <1>s, <1>r, <1>4, <2>2, <2>3, SwitchHolder, Zenon
<1>10. SpinTypes'
  <2>1. code' \in [Thread -> Seq(Instr)] BY <1>u, <1>s, <1>t, Zenon DEF SpinTypes
  <2> QED BY Zenon, <1>9, <1>u, <1>t, <2>1 DEF SpinTypes
<1>11. RunInv' BY <1>9 DEF SpinInv, RunInv
<1>12. OnInv'
  <2>1. ASSUME NEW d \in CPU, d # c
        PROVE  /\ on'[d] = on[d] /\ code'[on[d]] = code[on[d]] /\ held'[on[d]] = held[on[d]]
               /\ on[d] \in Proc => state'[on[d]] = state[on[d]]
    <3>1. on[d] \in Thread BY Zenon, <1>t DEF SpinTypes
    <3> QED BY <1>9, <1>u, <2>1, <3>1, Zenon
  <2>2. Leads(on'[c], code'[on'[c]], n) /\ n.h = held'[on'[c]] /\ on'[c] \notin Proc
    BY <1>0, <1>8, <1>9, <1>n
  <2>3. Agrees(c, n)
    <3>1. Cardinality({p}) = 1 BY SizeOne, Zenon
    <3> QED BY <1>1, <1>n, <3>1 DEF Agrees
  <2>4. UNCHANGED <<sie, noff, intena>> BY Zenon, <1>u
  <2> QED BY <1>n, <2>1, <2>2, <2>3, <2>4, SwitchOn, Zenon
<1>13. OffInv'
  <2>1. ASSUME NEW q \in Proc, ~Running(q)'
        PROVE  state'[q] # "RUNNING" /\ Leads(q, code'[q], Before({q}, "any", FALSE, "none"))
    <3>1. CASE q = p
      <4>1. code'[p] = s BY Zenon, <1>0, <1>t, <1>u DEF SpinTypes
      <4> QED BY <1>1, <1>7, <1>u, <3>1, <4>1, Zenon DEF n, At0
    <3>2. CASE q # p
      <4>1. ~Running(q)
        <5> SUFFICES ASSUME NEW d \in CPU, on[d] = q PROVE FALSE BY Zenon DEF Running
        <5>1. on'[d] = q BY Zenon, <1>1, <1>9, <3>2
        <5> QED BY Zenon, <2>1, <5>1 DEF Running
      <4>2. code'[q] = code[q] BY Zenon, <1>9, <3>2, SpinFacts
      <4> QED BY <1>u, <4>1, <4>2, Zenon DEF SpinInv, OffInv
    <3> QED BY <3>1, <3>2, Zenon
  <2>2. ASSUME NEW d \in CPU, on'[d] # d PROVE Leads(d, code'[d], Before({on'[d]}, "any", FALSE, "none"))
    <3>1. d # c /\ on'[d] = on[d] /\ d # p BY Zenon, <1>0, <1>9, <2>2
    <3>2. code'[d] = code[d] BY Zenon, <1>9, <3>1, SpinFacts
    <3> QED BY <2>2, <3>1, <3>2, Zenon DEF SpinInv, OffInv
  <2> QED BY <2>1, <2>2, Zenon DEF OffInv
<1> QED BY Zenon, <1>9, <1>10, <1>11, <1>12, <1>13 DEF SpinInv

\* scheduler() finds the process RUNNABLE and switches to it.
LEMMA PickStep ==
  ASSUME Sizes, SpinInv, NEW c \in CPU, NEW p \in Proc, pick(c, p), state[p] = "RUNNABLE" PROVE SpinInv'
<1>t. SpinTypes BY Zenon DEF SpinInv
<1>0. /\ p \in AnyLock /\ p \in Thread /\ c \in Thread /\ p # c /\ p \notin CPU /\ c \notin Proc
  BY Zenon, SpinFacts
<1>1. At(c, "pick", p) BY Zenon DEF pick
<1>2. PICK i \in Instr, a \in Note, b \in Note : Does(c, "pick", p, i, a, b) BY <1>1, AtNote, Zenon
<1>3. on[c] = c
  <2>1. on[c] \in CPU BY <1>2, Zenon DEF Does, Legal
  <2> QED BY Zenon, <2>1, SpinFacts DEF SpinInv, RunInv
<1> DEFINE s == Tail(code[c])
           n == At0({p}, "any", FALSE)
<1>n. n \in Note /\ n.h = {p} /\ n.m = "any" /\ ~n.r /\ n.k = "none" BY Zenon, <1>0 DEF At0, Before, Note
<1>s. s \in Seq(Instr) BY <1>1, <1>3, AtNote, Zenon
<1>4. /\ a.h = {p} /\ held[c] = {p} /\ a.m = "any" /\ a.k = "none"
      /\ b.h = {p} /\ b.m = "any" /\ ~b.r /\ b.k = "none" /\ Leads(c, s, b) /\ Agrees(c, a)
  BY <1>2, <1>3, Zenon DEF Does, Legal
<1>7. Leads(c, s, n)
  <2>1. b = n BY <1>4, NoteIs, Zenon
  <2> QED BY <1>4, <2>1, Zenon
<1>w. Switch(c, c, p, p, s) /\ state' = [state EXCEPT ![p] = "RUNNING"]
  <2>1. code' = [code EXCEPT ![c] = <<>> \o s] BY Zenon, <1>3 DEF pick, Then
  <2>2. code' = [code EXCEPT ![c] = s] BY Zenon, <1>s, <2>1, EmptyJoined
  <2> QED BY Zenon, <1>3, <2>2 DEF pick, HandOver, cpuVars, Switch
<1>u. /\ on' = [on EXCEPT ![c] = p] /\ code' = [code EXCEPT ![c] = s]
      /\ UNCHANGED <<sie, noff, intena, locked, owner>>
  BY <1>w, Zenon DEF Switch
<1> HIDE DEF s
<1>r. ~Running(p)
  <2> SUFFICES ASSUME NEW d \in CPU, on[d] = p PROVE FALSE BY Zenon DEF Running
  <2>1. p \in held[p] BY Zenon, StateHeld
  <2>2. held[p] \cap held[c] # {} BY Zenon, <1>4, <2>1
  <2> QED BY <1>0, <2>2, Zenon DEF SpinInv, HolderInv
<1>8. Leads(p, code[p], n) BY <1>r, Zenon DEF SpinInv, OffInv, At0
<1> HIDE DEF n
<1>9. /\ held' \in [Thread -> SUBSET AnyLock] /\ held'[c] = {} /\ held'[p] = {p}
      /\ on' \in [CPU -> Thread] /\ on'[c] = p /\ (\A d \in CPU : d # c => on'[d] = on[d] /\ on[d] # c /\ on[d] # p)
      /\ \A t \in Thread : t # c => code'[t] = code[t]
      /\ \A t \in Thread : t # c /\ t # p => held'[t] = held[t]
      /\ HolderInv'
  <2>1. code[p] \in Seq(Instr) BY Zenon, <1>0, <1>t DEF SpinTypes
  <2>2. code[p] = <<>> \/ Head(code[p]).op # "unlock"
    <3>1. code[p] = <<>> \/ Head(code[p]).op \notin {"swap", "setcpu", "unlock", "pop_off"}
      BY <1>8, <1>n, <2>1, LeadsHead, Zenon
    <3> QED BY Zenon, <3>1
  <2>3. \A l \in AnyLock : ~At(c, "setcpu", l) /\ ~At(c, "unlock", l) BY <1>1, OneHead, Zenon
  <2> QED BY <1>0, <1>w, <1>s, <1>r, <1>4, <2>2, <2>3, SwitchHolder, Zenon
<1>10. SpinTypes'
  <2>1. code' \in [Thread -> Seq(Instr)] BY <1>u, <1>s, <1>t, Zenon DEF SpinTypes
  <2>2. state' \in [Proc -> {"RUNNABLE", "RUNNING", "SLEEPING"}] BY Zenon, <1>w, <1>t DEF SpinTypes
  <2> QED BY Zenon, <1>9, <1>u, <1>t, <2>1, <2>2 DEF SpinTypes
<1>11. RunInv'
  <2>1. RunInv BY Zenon DEF SpinInv
  <2>2. on'[c] = p /\ (\A d \in CPU : d # c => on'[d] = on[d] /\ on[d] # c /\ on[d] # p) BY Zenon, <1>9
  <2> QED BY Zenon, <1>0, <2>1, <2>2 DEF RunInv
<1>v. \A q \in Proc : q # p => state'[q] = state[q] BY Zenon, <1>w, <1>t DEF SpinTypes
<1>12. OnInv'
  <2>1. ASSUME NEW d \in CPU, d # c
        PROVE  /\ on'[d] = on[d] /\ code'[on[d]] = code[on[d]] /\ held'[on[d]] = held[on[d]]
               /\ on[d] \in Proc => state'[on[d]] = state[on[d]]
    <3>1. on[d] \in Thread BY Zenon, <1>t DEF SpinTypes
    <3> QED BY <1>9, <1>v, <2>1, <3>1, Zenon
  <2>2. Leads(on'[c], code'[on'[c]], n) /\ n.h = held'[on'[c]] BY Zenon, <1>0, <1>8, <1>9, <1>n
  <2>3. on'[c] \in Proc => (n.r <=> state'[on'[c]] # "RUNNING") BY Zenon, <1>9, <1>n, <1>t, <1>w DEF SpinTypes
  <2>4. Agrees(c, n) BY Zenon, <1>4, <1>n DEF Agrees
  <2>5. UNCHANGED <<sie, noff, intena>> BY Zenon, <1>u
  <2> QED BY <1>n, <2>1, <2>2, <2>3, <2>4, <2>5, SwitchOn, Zenon
<1>13. OffInv'
  <2>1. ASSUME NEW q \in Proc, ~Running(q)'
        PROVE  state'[q] # "RUNNING" /\ Leads(q, code'[q], Before({q}, "any", FALSE, "none"))
    <3>1. q # p BY Zenon, <1>9, <2>1 DEF Running
    <3>2. ~Running(q)
      <4> SUFFICES ASSUME NEW d \in CPU, on[d] = q PROVE FALSE BY Zenon DEF Running
      <4>1. on'[d] = q BY Zenon, <1>0, <1>3, <1>9
      <4> QED BY Zenon, <2>1, <4>1 DEF Running
    <3>3. code'[q] = code[q] BY Zenon, <1>0, <1>9, SpinFacts
    <3> QED BY <1>v, <3>1, <3>2, <3>3, Zenon DEF SpinInv, OffInv
  <2>2. ASSUME NEW d \in CPU, on'[d] # d PROVE Leads(d, code'[d], Before({on'[d]}, "any", FALSE, "none"))
    <3>1. CASE d = c
      <4>1. code'[c] = s BY Zenon, <1>0, <1>t, <1>u DEF SpinTypes
      <4> QED BY <1>7, <1>9, <3>1, <4>1, Zenon DEF n, At0
    <3>2. CASE d # c
      <4>1. on'[d] = on[d] /\ code'[d] = code[d] BY Zenon, <1>9, <3>2, SpinFacts
      <4> QED BY <2>2, <4>1, Zenon DEF SpinInv, OffInv
    <3> QED BY <3>1, <3>2, Zenon
  <2> QED BY <2>1, <2>2, Zenon DEF OffInv
<1> QED BY Zenon, <1>9, <1>10, <1>11, <1>12, <1>13 DEF SpinInv

\* A step in which nothing changes.
LEMMA SpinStutter == ASSUME SpinInv, UNCHANGED vars PROVE SpinInv'
<1>1. UNCHANGED <<sie, noff, intena, locked, owner, on, code, held, state>> BY Zenon DEF vars, cpuVars, lockVars
<1>2. SpinTypes' BY Zenon, <1>1 DEF SpinInv, SpinTypes
<1>3. RunInv' BY Zenon, <1>1 DEF SpinInv, RunInv
<1>4. HolderInv' BY <1>1, Zenon DEF SpinInv, HolderInv, Running, At
<1>5. OnInv'
  <2>1. \A c \in CPU : \A a \in Note : Agrees(c, a)' <=> Agrees(c, a) BY <1>1 DEF Agrees
  <2> QED BY <1>1, <2>1, Zenon DEF SpinInv, OnInv
<1>6. OffInv' BY <1>1, Zenon DEF SpinInv, OffInv, Running
<1> QED BY Zenon, <1>2, <1>3, <1>4, <1>5, <1>6 DEF SpinInv

\* Every step of a kernel thread, of an interrupt and of wakeup() keeps the invariant.
LEMMA SpinNext == ASSUME Sizes, SpinInv, Next PROVE SpinInv'
<1>1. ASSUME NEW c \in CPU, Step(c) PROVE SpinInv'
  <2>1. ASSUME NEW l \in AnyLock,
               \/ acquire_begin(c, l) \/ push_off(c, l) \/ swap(c, l) \/ setcpu(c, l)
               \/ release_begin(c, l) \/ unlock(c, l) \/ pop_off(c, l) \/ return(c, l)
        PROVE  SpinInv'
    <3>1. CASE return(c, l)
      <4>1. At(c, "intr_off", l) \/ At(c, "sret", l) BY <3>1, Zenon DEF return
      <4> QED BY <3>1, <4>1, IntrOffStep, SretStep, Zenon
    <3> QED BY Zenon, <2>1, <3>1, AcquireStep, PushOffStep, SwapStep, SetCpuStep, ReleaseStep, UnlockStep,
               PopOffStep, Zenon
  <2>2. ASSUME NEW p \in Proc, setstate(c, p) \/ sched(c, p) \/ resume(c, p) \/ pick(c, p)
        PROVE  SpinInv'
    <3>0. p \in AnyLock BY Zenon, SpinFacts
    <3>1. CASE setstate(c, p)
      <4>1. At(c, "runnable", p) \/ At(c, "sleeping", p) BY <3>1, Zenon DEF setstate
      <4> QED BY <3>0, <3>1, <4>1, RunnableStep, SleepingStep, Zenon
    <3> QED BY <2>2, <3>0, <3>1, SchedStep, ResumeStep, PickStep, PassStep, Zenon
  <2> QED BY <1>1, <2>1, <2>2, SpinFacts, Zenon DEF Step
<1> QED BY <1>1, LoopStep, LookStep, CallStep, TrapStep, WakeupStep, Zenon DEF Next

F == INSTANCE FiniteSetTheorems

\* The library speaks of the same finite sets.
LEMMA LibraryFinite == \A S : F!IsFiniteSet(S) <=> IsFiniteSet(S) BY Zenon DEF F!IsFiniteSet, IsFiniteSet

\* The same cardinalities.
LEMMA LibrarySize == \A S : F!Cardinality(S) = Cardinality(S) BY Zenon DEF F!Cardinality, Cardinality

\* What has been assumed of the sizes of sets.
LEMMA SizesHold == Sizes
<1>1. \A S : IsFiniteSet(S) => Cardinality(S) \in Nat
  BY Zenon, F!FS_CardinalityType, LibraryFinite, LibrarySize
<1>2. /\ IsFiniteSet({}) /\ Cardinality({}) = 0
      /\ \A S : IsFiniteSet(S) => (Cardinality(S) = 0 <=> S = {})
  BY Zenon, F!FS_EmptySet, LibraryFinite, LibrarySize
<1>3. \A x : IsFiniteSet({x}) /\ Cardinality({x}) = 1
  BY Zenon, F!FS_Singleton, LibraryFinite, LibrarySize
<1>4. \A S, x : IsFiniteSet(S) =>
        /\ IsFiniteSet(S \cup {x})
        /\ Cardinality(S \cup {x}) = IF x \in S THEN Cardinality(S) ELSE Cardinality(S) + 1
  BY Zenon, F!FS_AddElement, LibraryFinite, LibrarySize
<1>5. \A S, x : IsFiniteSet(S) =>
        /\ IsFiniteSet(S \ {x})
        /\ Cardinality(S \ {x}) = IF x \in S THEN Cardinality(S) - 1 ELSE Cardinality(S)
  BY Zenon, F!FS_RemoveElement, LibraryFinite, LibrarySize
<1> QED BY <1>1, <1>2, <1>3, <1>4, <1>5, Zenon DEF Sizes

\* acquire(), release(), push_off(), pop_off(), sched(), scheduler() and the
\* handler of interrupts keep the proof outline of every kernel thread.
THEOREM SpinInvariant == Spec => []SpinInv
<1>1. Init => SpinInv BY Zenon, SpinInitInv, SizesHold DEF Init
<1>2. SpinInv /\ [Next]_vars => SpinInv'
  <2> SUFFICES ASSUME SpinInv, [Next]_vars PROVE SpinInv' BY Zenon
  <2> QED BY SpinNext, SpinStutter, SizesHold, Zenon
<1> QED BY <1>1, <1>2, PTL DEF Spec

\* acquire() and release(): at most one thread has a spin lock, across
\* preemption, migration and the hand-over of p->lock at a context switch, and a
\* CPU whose thread has one takes no interrupt.
THEOREM MutualExclusionHolds == Spec => []MutualExclusion
<1>1. ASSUME SpinInv PROVE MutualExclusion
  <2>t. SpinTypes /\ HolderInv BY Zenon, <1>1 DEF SpinInv
  <2>1. TypeOK BY <2>t, SpinFacts, Zenon DEF TypeOK, SpinTypes, Instr
  <2>2. \A s, t \in Thread : held[s] \cap held[t] # {} => s = t BY <2>t, SpinFacts, Zenon DEF HolderInv
  <2>3. \A c \in CPU : sie[c] => noff[c] = 0 /\ held[on[c]] = {} BY <1>1, OpenNote, SizesHold, Zenon
  <2> QED BY <2>1, <2>2, <2>3, Zenon DEF MutualExclusion
<1> QED BY <1>1, SpinInvariant, PTL

\* No panic of acquire(), release(), pop_off() or sched() is reached, and a
\* process that holds no lock runs with interrupts on, wherever it was preempted
\* or put to sleep.
THEOREM NoPanicHolds == Spec => []NoPanic
<1>1. ASSUME SpinInv, NEW c \in CPU, NEW l \in AnyLock
      PROVE  /\ At(c, "push_off", l) => ~holding(c, l)
             /\ At(c, "release", l) => holding(c, l)
             /\ At(c, "pop_off", l) => ~sie[c] /\ noff[c] >= 1
             /\ At(c, "sched", l) => SchedOK(c, l)
  <2>t. SpinTypes /\ HolderInv BY Zenon, <1>1 DEF SpinInv
  <2>0. NoCPU # c /\ on[c] \in Thread BY Zenon, <2>t, SpinFacts DEF SpinTypes
  <2>h. ASSUME l \in held[on[c]], ~At(c, "setcpu", l), ~At(c, "unlock", l) PROVE holding(c, l)
    <3>1. owner[l] = c BY <2>h, <2>t, Zenon DEF HolderInv
    <3>2. locked[l] BY <2>0, <2>h, <2>t, Zenon DEF HolderInv
    <3> QED BY <3>1, <3>2, Zenon DEF holding
  <2>1. ASSUME At(c, "push_off", l), holding(c, l) PROVE FALSE
    <3>1. PICK i \in Instr, a \in Note, b \in Note : Does(c, "push_off", l, i, a, b) BY <1>1, <2>1, AtNote, Zenon
    <3>2. l \notin held[on[c]] BY <3>1, Zenon DEF Does, Legal
    <3>3. owner[l] = c BY <2>1, Zenon DEF holding
    <3> QED BY Zenon, <2>0, <2>t, <3>2, <3>3 DEF HolderInv
  <2>2. ASSUME At(c, "release", l) PROVE holding(c, l)
    <3>1. PICK i \in Instr, a \in Note, b \in Note : Does(c, "release", l, i, a, b) BY <1>1, <2>2, AtNote, Zenon
    <3>2. l \in held[on[c]] BY <3>1, Zenon DEF Does, Legal
    <3>3. ~At(c, "setcpu", l) /\ ~At(c, "unlock", l) BY <2>2, OneHead, Zenon
    <3> QED BY <2>h, <3>2, <3>3, Zenon
  <2>3. ASSUME At(c, "pop_off", l) PROVE ~sie[c] /\ noff[c] >= 1
    <3>1. PICK i \in Instr, a \in Note, b \in Note : Does(c, "pop_off", l, i, a, b) BY <1>1, <2>3, AtNote, Zenon
    <3>2. IsFiniteSet(a.h) BY <2>0, <2>t, <3>1, Zenon DEF Does, HolderInv
    <3>3. Cardinality(a.h) \in Nat BY <3>2, SizeNat, SizesHold, Zenon
    <3>4. a.k = "pop_off" /\ Agrees(c, a) BY <3>1, Zenon DEF Does, Legal
    <3> QED BY <3>3, <3>4 DEF Agrees
  <2>4. ASSUME At(c, "sched", l) PROVE SchedOK(c, l)
    <3>1. PICK i \in Instr, a \in Note, b \in Note : Does(c, "sched", l, i, a, b) BY <1>1, <2>4, AtNote, Zenon
    <3>2. on[c] \in Proc /\ l = on[c] /\ a.h = {l} /\ a.r /\ a.k = "none" /\ Agrees(c, a) BY <3>1, Zenon DEF Does, Legal
    <3>3. held[on[c]] = {l} /\ state[l] # "RUNNING" BY Zenon, <3>1, <3>2 DEF Does
    <3>4. Cardinality({l}) = 1 BY SizeOne, SizesHold, Zenon
    <3>5. noff[c] = 1 /\ ~sie[c] BY <3>2, <3>4 DEF Agrees
    <3>6. ~At(c, "setcpu", l) /\ ~At(c, "unlock", l) BY <2>4, OneHead, Zenon
    <3>7. holding(c, l) BY Zenon, <2>h, <3>3, <3>6
    <3> QED BY <3>3, <3>5, <3>7, Zenon DEF SchedOK
  <2> QED BY <2>1, <2>2, <2>3, <2>4, Zenon
<1>2. ASSUME SpinInv, NEW c \in CPU, on[c] \in Proc, code[on[c]] = <<>>
      PROVE  noff[c] = Cardinality(held[on[c]]) /\ (sie[c] <=> held[on[c]] = {})
  <2>1. PICK a \in Note : Final(on[c], a) /\ Agrees(c, a) /\ a.h = held[on[c]] BY <1>2, EndNote, Zenon
  <2>2. IsFiniteSet(a.h) BY <2>1, <1>2, Zenon DEF SpinInv, SpinTypes, HolderInv
  <2>3. Cardinality(a.h) \in Nat /\ (Cardinality(a.h) = 0 <=> a.h = {})
    BY <2>2, SizeNat, SizeEmpty, SizesHold, Zenon
  <2>4. a.m = "on" /\ a.k = "none" BY Zenon, <1>2, <2>1 DEF Final
  <2>5. noff[c] = Cardinality(a.h) BY <2>1, <2>3, <2>4 DEF Agrees
  <2>6. (noff[c] = 0 => sie[c]) /\ (sie[c] => noff[c] = 0) BY <2>1, <2>4, Zenon DEF Agrees
  <2> QED BY Zenon, <2>1, <2>3, <2>5, <2>6
<1>3. SpinInv => NoPanic
  <2>1. SpinInv => InterruptsRestored BY <1>2, Zenon DEF InterruptsRestored
  <2> QED BY <1>1, <2>1, Zenon DEF NoPanic
<1> QED BY <1>3, SpinInvariant, PTL
===============================================================================
