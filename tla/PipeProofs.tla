------------------------------ MODULE PipeProofs ------------------------------
(***************************************************************************)
(* kernel/pipe.c for any number of readers and writers, any size of the    *)
(* ring and any width of its counters.                                     *)
(***************************************************************************)
EXTENDS Pipe, Integers, TLAPS

Open(p) == IF p \in Writer THEN writeopen ELSE readopen

\* Who holds pi->lock, who has a descriptor, and who closes an end.
HolderInv ==
  /\ \A p \in Proc : lock = p <=> ppc[p] \in {"loop", "sleep", "copy"}
  /\ \A p \in Proc : ppc[p] = "copy" => p \in Reader
  /\ \A p \in Proc : ppc[p] \notin {"out", "close"} => p \in fd
  /\ \A p \in Proc : p \in fd \/ ppc[p] = "close" => Open(p)
  /\ \A p \in Proc : ppc[p] = "close" =>
       /\ fd \cap End(p) = {}
       /\ \A q \in End(p) : ppc[q] = "close" => q = p
  /\ freed <=> ~readopen /\ ~writeopen

\* A process about to sleep has just looked; one that sleeps has nothing to go on
\* with, or the process that changed this is on its way to a wakeup().
PipeSleepInv ==
  /\ \A p \in Proc : ppc[p] = "sleep" =>
       IF p \in Reader THEN Empty /\ writeopen ELSE Full /\ readopen
  /\ \A p \in Reader : ppc[p] = "asleep" =>
       writeopen /\ (Empty \/ \E w \in Writer : ppc[w] = "loop")
  /\ \A p \in Writer : ppc[p] = "asleep" =>
       readopen /\ (Full \/ \E r \in Reader : ppc[r] = "copy")

PipeInv == PipeTypeOK /\ HolderInv

-------------------------------------------------------------------------------
(* The counters stay in their range.                                       *)
LEMMA CounterType == ASSUME NEW x \in 0..(UINT - 1) PROVE (x + 1) % UINT \in 0..(UINT - 1)
<1>1. UINT \in Nat \ {0} /\ x + 1 \in Nat BY PipeAssumption
<1> DEFINE w == x + 1
<1> HIDE DEF w
<1>2. w \in Nat BY Zenon, <1>1 DEF w
<1>3. w % UINT \in 0..(UINT - 1) BY <1>1, <1>2
<1> QED BY Zenon, <1>3 DEF w

(* The lengths and counts of calls are numbers.                            *)
LEMMA CallTypes ==
  ASSUME PipeTypeOK PROVE \A q \in Proc : i[q] \in Nat /\ n[q] \in Nat /\ i[q] <= n[q]
<1>1. Length \cup {0} \subseteq Nat BY PipeAssumption
<1>2. n \in [Proc -> Length \cup {0}] /\ i \in [Proc -> Nat] /\ \A q \in Proc : i[q] <= n[q]
  BY Zenon DEF PipeTypeOK
<1>3. \A q \in Proc : n[q] \in Length \cup {0} /\ i[q] \in Nat BY Zenon, <1>2
<1> QED BY Zenon, <1>1, <1>2, <1>3

(* Steps of the pipe keep the types.                                       *)
LEMMA PipeTypeStep == ASSUME PipeTypeOK, HolderInv, [PipeNext]_pipeVars PROVE PipeTypeOK'
<1> USE PipeAssumption DEF Proc
<1> DEFINE States == {"out", "acquire", "loop", "sleep", "asleep", "copy", "close"}
<1>1. ASSUME NEW S PROVE Wake(S) \in [Proc -> States] BY Zenon DEF PipeTypeOK, Wake
<1>2. ASSUME NEW p \in Proc, NEW k \in Length, call(p, k) PROVE PipeTypeOK'
  BY <1>2 DEF call, PipeTypeOK, piVars
<1>3. ASSUME NEW p \in Proc, NEW S, Return(p, S)
      PROVE  /\ lock' \in Proc \cup {Nobody} /\ ppc' \in [Proc -> States]
             /\ n' \in [Proc -> Length \cup {0}] /\ i' \in [Proc -> Nat]
             /\ \A q \in Proc : i'[q] <= n'[q]
  BY <1>1, <1>3 DEF Return, PipeTypeOK
<1>4. ASSUME NEW p \in Proc, acquire(p) \/ sleep(p) PROVE PipeTypeOK'
  BY <1>4 DEF acquire, sleep, PipeTypeOK, piVars
<1>5. ASSUME NEW p \in Proc, write_fail(p) \/ write_done(p) \/ read_fail(p) \/ read_done(p)
      PROVE PipeTypeOK'
  BY Zenon, <1>3, <1>5 DEF write_fail, write_done, read_fail, read_done, PipeTypeOK, piVars
<1>6. ASSUME NEW p \in Proc, write_full(p) \/ read_empty(p) \/ read_start(p) PROVE PipeTypeOK'
  <2>1. ppc' \in [Proc -> States]
    <3>1. CASE write_full(p) BY Zenon, <1>1, <3>1 DEF write_full
    <3>2. CASE read_empty(p) \/ read_start(p) BY <3>2 DEF read_empty, read_start, PipeTypeOK
    <3> QED BY Zenon, <1>6, <3>1, <3>2
  <2>2. UNCHANGED <<piVars, freed, lock, n, i, pkilled, fd>>
    BY <1>6, Zenon DEF write_full, read_empty, read_start
  <2> QED BY Zenon, <2>1, <2>2 DEF PipeTypeOK, piVars
<1>7. ASSUME NEW p \in Proc, NEW b \in Byte, write_byte(p, b) PROVE PipeTypeOK'
  <2>1. nwrite' \in 0..(UINT - 1) BY Zenon, <1>7, CounterType DEF write_byte, PipeTypeOK
  <2>2. data' \in [0..(PIPESIZE - 1) -> Byte] BY Zenon, <1>7 DEF write_byte, PipeTypeOK
  <2>3. i' \in [Proc -> Nat] /\ \A q \in Proc : i'[q] <= n'[q]
    <3>1. i' = [i EXCEPT ![p] = i[p] + 1] /\ n' = n /\ i[p] < n[p] BY Zenon, <1>7 DEF write_byte, More
    <3>2. \A q \in Proc : i[q] \in Nat /\ n[q] \in Nat /\ i[q] <= n[q] BY Zenon, CallTypes
    <3>3. i' \in [Proc -> Nat] BY <3>1, <3>2 DEF PipeTypeOK
    <3>4. ASSUME NEW q \in Proc PROVE i'[q] <= n'[q]
      <4>1. CASE q = p BY <3>1, <3>2, <4>1 DEF PipeTypeOK
      <4>2. CASE q # p BY Zenon, <3>1, <3>2, <4>2 DEF PipeTypeOK
      <4> QED BY Zenon, <4>1, <4>2
    <3> QED BY Zenon, <3>3, <3>4
  <2> QED BY Zenon, <1>7, <2>1, <2>2, <2>3 DEF write_byte, PipeTypeOK
<1>8. ASSUME NEW p \in Proc, read_byte(p) PROVE PipeTypeOK'
  <2>1. nread' \in 0..(UINT - 1) BY Zenon, <1>8, CounterType DEF read_byte, PipeTypeOK
  <2>2. i' \in [Proc -> Nat] /\ \A q \in Proc : i'[q] <= n'[q]
    <3>1. i' = [i EXCEPT ![p] = i[p] + 1] /\ n' = n /\ i[p] < n[p] BY Zenon, <1>8 DEF read_byte, More
    <3>2. \A q \in Proc : i[q] \in Nat /\ n[q] \in Nat /\ i[q] <= n[q] BY Zenon, CallTypes
    <3>3. i' \in [Proc -> Nat] BY <3>1, <3>2 DEF PipeTypeOK
    <3>4. ASSUME NEW q \in Proc PROVE i'[q] <= n'[q]
      <4>1. CASE q = p BY <3>1, <3>2, <4>1 DEF PipeTypeOK
      <4>2. CASE q # p BY Zenon, <3>1, <3>2, <4>2 DEF PipeTypeOK
      <4> QED BY Zenon, <4>1, <4>2
    <3> QED BY Zenon, <3>3, <3>4
  <2> QED BY Zenon, <1>8, <2>1, <2>2 DEF read_byte, PipeTypeOK
<1>9. ASSUME NEW p \in Proc, read_fault(p) PROVE PipeTypeOK'
  <2>1. nread' \in 0..(UINT - 1) BY Zenon, <1>9, CounterType DEF read_fault, PipeTypeOK
  <2> QED BY Zenon, <1>3, <1>9, <2>1 DEF read_fault, PipeTypeOK
<1>10. ASSUME NEW p \in Proc, fileclose(p) PROVE PipeTypeOK' BY Zenon, <1>10 DEF fileclose, PipeTypeOK, piVars
<1>11. ASSUME NEW p \in Proc, pipeclose(p) PROVE PipeTypeOK'
  <2>1. ppc' \in [Proc -> States] BY Zenon, <1>1, <1>11 DEF pipeclose
  <2>2. writeopen' \in BOOLEAN /\ readopen' \in BOOLEAN /\ freed' \in BOOLEAN
    BY <1>11, Zenon DEF pipeclose
  <2> QED BY Zenon, <1>11, <2>1, <2>2 DEF pipeclose, PipeTypeOK
<1>12. ASSUME NEW p \in Proc, kkill(p) PROVE PipeTypeOK' BY Zenon, <1>1, <1>12 DEF kkill, PipeTypeOK, piVars
<1>13. CASE UNCHANGED pipeVars BY Zenon, <1>13 DEF pipeVars, piVars, PipeTypeOK
<1> HIDE DEF Proc
<1> QED BY Zenon, <1>2, <1>4, <1>5, <1>6, <1>7, <1>8, <1>9, <1>10, <1>11, <1>12, <1>13
        DEF PipeNext, Inside, write, read

-------------------------------------------------------------------------------
(* A process that has its descriptor moves on, and may wake others.        *)
LEMMA HolderMove ==
  ASSUME PipeTypeOK, HolderInv, NEW p \in Proc, p \in fd,
         UNCHANGED <<fd, readopen, writeopen, freed>>,
         \A q \in Proc \ {p} : ppc'[q] = ppc[q] \/ (ppc[q] = "asleep" /\ ppc'[q] = "acquire"),
         ppc'[p] # "close", ppc'[p] = "copy" => p \in Reader,
         lock' = p <=> ppc'[p] \in {"loop", "sleep", "copy"},
         \A q \in Proc \ {p} : lock' = q <=> lock = q
  PROVE  HolderInv'
<1>1. \A q \in Proc : lock' = q <=> ppc'[q] \in {"loop", "sleep", "copy"} BY Zenon DEF HolderInv
<1>2. \A q \in Proc : ppc'[q] = "copy" => q \in Reader BY Zenon DEF HolderInv
<1>3. \A q \in Proc : ppc'[q] \notin {"out", "close"} => q \in fd' BY Zenon DEF HolderInv
<1>4. \A q \in Proc : ppc'[q] = "close" => ppc[q] = "close" BY Zenon
<1>5. \A q \in Proc : q \in fd' \/ ppc'[q] = "close" => Open(q)' BY Zenon, <1>4 DEF HolderInv, Open
<1>6. ASSUME NEW q \in Proc, ppc'[q] = "close"
      PROVE  /\ fd' \cap End(q) = {}
             /\ \A r \in End(q) : ppc'[r] = "close" => r = q
  <2>1. End(q) \subseteq Proc BY Zenon DEF End, Proc
  <2> QED BY Zenon, <1>4, <1>6, <2>1 DEF HolderInv
<1>7. freed' <=> ~readopen' /\ ~writeopen' BY Zenon DEF HolderInv
<1> QED BY Zenon, <1>1, <1>2, <1>3, <1>5, <1>6, <1>7 DEF HolderInv

(* Every step keeps the bookkeeping of the lock and the descriptors.       *)
LEMMA HolderStep == ASSUME PipeTypeOK, HolderInv, [PipeNext]_pipeVars PROVE HolderInv'
<1> USE DEF piVars
<1>a. Nobody \notin Proc /\ ppc \in [Proc -> {"out", "acquire", "loop", "sleep", "asleep", "copy", "close"}]
  BY Zenon, PipeAssumption DEF PipeTypeOK, Proc
<1>b. ASSUME NEW p \in Proc, NEW S, Return(p, S), ppc[p] \in {"loop", "copy"},
             UNCHANGED <<fd, readopen, writeopen, freed>>
      PROVE  HolderInv'
  <2>1. p \in fd /\ lock = p /\ lock' = Nobody BY Zenon, <1>b DEF HolderInv, Return
  <2>2. ppc' = [Wake(S) EXCEPT ![p] = "out"] BY Zenon, <1>b DEF Return
  <2>3. \A q \in Proc \ {p} : ppc'[q] = ppc[q] \/ (ppc[q] = "asleep" /\ ppc'[q] = "acquire")
    BY Zenon, <1>a, <2>2 DEF Wake
  <2>4. ppc'[p] = "out" BY Zenon, <1>a, <2>2 DEF Wake
  <2> QED BY Zenon, <1>a, <1>b, <2>1, <2>3, <2>4, HolderMove
<1>1. ASSUME NEW p \in Proc, NEW k \in Length, call(p, k) PROVE HolderInv'
  BY Zenon, <1>a, <1>1, HolderMove DEF call, HolderInv
<1>2. ASSUME NEW p \in Proc, acquire(p) PROVE HolderInv'
  BY <1>a, <1>2, HolderMove DEF acquire, HolderInv
<1>3. ASSUME NEW p \in Proc, sleep(p) PROVE HolderInv'
  BY Zenon, <1>a, <1>3, HolderMove DEF sleep, HolderInv
<1>4. ASSUME NEW p \in Proc,
             \/ write_fail(p) \/ write_done(p) \/ read_fail(p) \/ read_fault(p) \/ read_done(p)
      PROVE  HolderInv'
  BY Zenon, <1>b, <1>4 DEF write_fail, write_done, read_fail, read_fault, read_done
<1>5. ASSUME NEW p \in Proc, write_full(p) PROVE HolderInv'
  <2>1. p \in fd /\ lock = p /\ lock' = lock BY Zenon, <1>5 DEF HolderInv, write_full
  <2>2. ppc' = [Wake(Reader) EXCEPT ![p] = "sleep"] BY Zenon, <1>5 DEF write_full
  <2>3. \A q \in Proc \ {p} : ppc'[q] = ppc[q] \/ (ppc[q] = "asleep" /\ ppc'[q] = "acquire")
    BY Zenon, <1>a, <2>2 DEF Wake
  <2>4. ppc'[p] = "sleep" BY Zenon, <1>a, <2>2 DEF Wake
  <2> QED BY Zenon, <1>5, <2>1, <2>3, <2>4, HolderMove DEF write_full
<1>6. ASSUME NEW p \in Proc, read_empty(p) \/ read_start(p) PROVE HolderInv'
  BY Zenon, <1>a, <1>6, HolderMove DEF read_empty, read_start, HolderInv
<1>7. ASSUME NEW p \in Proc, (\E b \in Byte : write_byte(p, b)) \/ read_byte(p) PROVE HolderInv'
  BY Zenon, <1>a, <1>7, HolderMove DEF write_byte, read_byte, HolderInv
<1>8. ASSUME NEW p \in Proc, kkill(p) PROVE HolderInv'
  <2>1. UNCHANGED <<fd, readopen, writeopen, freed, lock>> /\ ppc' = Wake({p}) BY Zenon, <1>8 DEF kkill
  <2>2. CASE ppc[p] = "asleep"
    BY Zenon, <1>a, <2>1, <2>2, HolderMove DEF HolderInv, Wake
  <2>3. CASE ppc[p] # "asleep"
    <3>1. ppc' = ppc BY Zenon, <1>a, <2>1, <2>3 DEF Wake
    <3> QED BY Zenon, <2>1, <3>1 DEF HolderInv, Open
  <2> QED BY Zenon, <2>2, <2>3
<1>9. ASSUME NEW p \in Proc, fileclose(p) PROVE HolderInv'
  <2>1. /\ ppc[p] = "out" /\ p \in fd /\ fd' = fd \ {p} /\ UNCHANGED <<readopen, writeopen, freed, lock>>
        /\ ppc' = [ppc EXCEPT ![p] = IF fd' \cap End(p) = {} THEN "close" ELSE "out"]
    BY Zenon, <1>9 DEF fileclose
  <2>2. p \in End(p) /\ \A q \in Proc : End(q) \subseteq Proc BY Zenon DEF End, Proc
  <2>3. \A q \in Proc : lock' = q <=> ppc'[q] \in {"loop", "sleep", "copy"} BY Zenon, <1>a, <2>1 DEF HolderInv
  <2>4. \A q \in Proc : ppc'[q] = "copy" => q \in Reader BY Zenon, <1>a, <2>1 DEF HolderInv
  <2>5. \A q \in Proc : ppc'[q] \notin {"out", "close"} => q \in fd' BY Zenon, <1>a, <2>1 DEF HolderInv
  <2>6. \A q \in Proc : q \in fd' \/ ppc'[q] = "close" => Open(q)' BY Zenon, <1>a, <2>1 DEF HolderInv, Open
  <2>7. ASSUME NEW q \in Proc, ppc'[q] = "close"
        PROVE  /\ fd' \cap End(q) = {}
               /\ \A r \in End(q) : ppc'[r] = "close" => r = q
    <3>1. \A r \in End(p) : ppc[r] # "close"
      <4>1. \A r \in End(p) : p \in End(r) BY Zenon, PipeAssumption DEF End, Proc
      <4> QED BY Zenon, <2>1, <2>2, <4>1 DEF HolderInv
    <3>2. CASE q = p BY Zenon, <1>a, <2>1, <2>2, <2>7, <3>1, <3>2
    <3>3. CASE q # p
      <4>1. ppc[q] = "close" BY Zenon, <1>a, <2>1, <2>7, <3>3
      <4>2. p \notin End(q) BY Zenon, <2>1, <4>1 DEF HolderInv
      <4> QED BY Zenon, <1>a, <2>1, <2>2, <4>1, <4>2 DEF HolderInv
    <3> QED BY Zenon, <3>2, <3>3
  <2>8. freed' <=> ~readopen' /\ ~writeopen' BY Zenon, <2>1 DEF HolderInv
  <2> QED BY Zenon, <2>3, <2>4, <2>5, <2>6, <2>7, <2>8 DEF HolderInv
<1>10. ASSUME NEW p \in Proc, pipeclose(p) PROVE HolderInv'
  <2>1. /\ ppc[p] = "close" /\ lock = Nobody /\ UNCHANGED <<fd, lock>>
        /\ writeopen' = (writeopen /\ p \notin Writer) /\ readopen' = (readopen /\ p \in Writer)
        /\ freed' = (~readopen' /\ ~writeopen') /\ ppc' = [Wake(Proc \ End(p)) EXCEPT ![p] = "out"]
    BY Zenon, <1>10 DEF pipeclose
  <2>2. ppc'[p] = "out" BY Zenon, <1>a, <2>1 DEF Wake
  <2>3. \A q \in Proc \ {p} : ppc'[q] = ppc[q] \/ (ppc[q] = "asleep" /\ ppc'[q] = "acquire")
    BY Zenon, <1>a, <2>1 DEF Wake
  <2>4. \A q \in Proc : ppc'[q] = "close" => ppc[q] = "close" /\ q # p BY Zenon, <2>2, <2>3
  <2>5. \A q \in Proc : lock' = q <=> ppc'[q] \in {"loop", "sleep", "copy"}
    BY Zenon, <1>a, <2>1, <2>2, <2>3 DEF HolderInv
  <2>6. \A q \in Proc : ppc'[q] = "copy" => q \in Reader BY Zenon, <2>2, <2>3 DEF HolderInv
  <2>7. \A q \in Proc : ppc'[q] \notin {"out", "close"} => q \in fd' BY Zenon, <2>1, <2>2, <2>3 DEF HolderInv
  <2>8. ASSUME NEW q \in Proc, q \in fd' \/ ppc'[q] = "close" PROVE Open(q)'
    <3>1. Open(q) BY Zenon, <2>1, <2>4, <2>8 DEF HolderInv
    <3>2. q \notin End(p) BY Zenon, <2>1, <2>4, <2>8 DEF HolderInv
    <3>3. q \in Writer <=> p \notin Writer BY Zenon, <3>2, PipeAssumption DEF End, Proc
    <3> QED BY Zenon, <2>1, <3>1, <3>3 DEF Open
  <2>9. ASSUME NEW q \in Proc, ppc'[q] = "close"
        PROVE  /\ fd' \cap End(q) = {}
               /\ \A r \in End(q) : ppc'[r] = "close" => r = q
    <3>1. End(q) \subseteq Proc BY Zenon DEF End, Proc
    <3> QED BY Zenon, <2>1, <2>4, <2>9, <3>1 DEF HolderInv
  <2>10. freed' <=> ~readopen' /\ ~writeopen' BY Zenon, <2>1
  <2> QED BY Zenon, <2>5, <2>6, <2>7, <2>8, <2>9, <2>10 DEF HolderInv
<1>11. CASE UNCHANGED pipeVars BY Zenon, <1>11 DEF pipeVars, HolderInv, Open
<1> QED BY Zenon, <1>1, <1>2, <1>3, <1>4, <1>5, <1>6, <1>7, <1>8, <1>9, <1>10, <1>11
        DEF PipeNext, Inside, write, read

(* pipealloc() leaves an empty pipe with both ends open.                   *)
LEMMA PipeInitial == PipeInit => PipeInv /\ PipeSleepInv
<1> SUFFICES ASSUME PipeInit PROVE PipeInv /\ PipeSleepInv BY Zenon
<1> USE PipeAssumption DEF PipeInit
<1>1. PipeTypeOK
  <2>1. data \in [0..(PIPESIZE - 1) -> Byte] BY Zenon
  <2>2. nread \in 0..(UINT - 1) /\ nwrite \in 0..(UINT - 1) OBVIOUS
  <2>3. n \in [Proc -> Length \cup {0}] /\ i \in [Proc -> Nat] /\ \A p \in Proc : i[p] <= n[p]
    OBVIOUS
  <2>4. pkilled \in [Proc -> BOOLEAN] BY Zenon
  <2>5. ppc \in [Proc -> {"out", "acquire", "loop", "sleep", "asleep", "copy", "close"}] BY Zenon
  <2>6. readopen \in BOOLEAN /\ writeopen \in BOOLEAN /\ freed \in BOOLEAN BY Zenon
  <2>7. lock \in Proc \cup {Nobody} /\ fd \in SUBSET Proc BY Zenon
  <2> QED BY <2>1, <2>2, <2>3, <2>4, <2>5, <2>6, <2>7, Zenon DEF PipeTypeOK
<1>2. HolderInv BY Zenon DEF HolderInv, Open, Proc
<1>3. PipeSleepInv BY Zenon DEF PipeSleepInv, Proc
<1> QED BY Zenon, <1>1, <1>2, <1>3 DEF PipeInv

(* The invariant of the lock and the descriptors holds in every state.     *)
THEOREM PipeInvariant == PipeSpec => []PipeInv
<1>1. PipeInv /\ [PipeNext]_pipeVars => PipeInv' BY Zenon, PipeTypeStep, HolderStep DEF PipeInv
<1> QED BY <1>1, PipeInitial, PTL DEF PipeSpec

(* kfree() of the page comes when nobody is inside, and each end is closed *)
(* by one process only.                                                    *)
THEOREM PipeNoUseAfterFree == PipeSpec => []NoUseAfterFree
<1>1. PipeInv => NoUseAfterFree
  <2> SUFFICES ASSUME PipeInv PROVE NoUseAfterFree BY Zenon
  <2>1. ASSUME freed, NEW p \in Proc PROVE ppc[p] = "out"
    <3>1. ~Open(p) BY Zenon, <2>1 DEF PipeInv, HolderInv, Open
    <3> QED BY Zenon, <3>1 DEF PipeInv, HolderInv
  <2>2. ASSUME NEW p \in Proc, ppc[p] = "close" PROVE IF p \in Writer THEN writeopen ELSE readopen
    BY Zenon, <2>2 DEF PipeInv, HolderInv, Open
  <2> QED BY Zenon, <2>1, <2>2 DEF PipeInv, NoUseAfterFree
<1> QED BY <1>1, PipeInvariant, PTL

-------------------------------------------------------------------------------
(* Sleeping and waking.                                                    *)

WritersLive == \A w \in Writer : ~pkilled[w]

(* A step that touches neither the ring nor the flags, that lets nobody    *)
(* leave the section in which a wakeup() is due, and puts nobody to sleep. *)
LEMMA SleepQuiet ==
  ASSUME PipeSleepInv, UNCHANGED <<nread, nwrite, readopen, writeopen>>,
         \A q \in Proc : ppc'[q] \in {"sleep", "asleep"} => ppc'[q] = ppc[q],
         \A q \in Writer : ppc[q] = "loop" => ppc'[q] = "loop",
         \A q \in Reader : ppc[q] = "copy" => ppc'[q] = "copy"
  PROVE  PipeSleepInv'
<1> USE DEF Empty, Full
<1>1. \A p \in Proc : ppc'[p] = "sleep" =>
        IF p \in Reader THEN Empty' /\ writeopen' ELSE Full' /\ readopen'
  BY Zenon DEF PipeSleepInv
<1>2. \A p \in Reader : ppc'[p] = "asleep" =>
        writeopen' /\ (Empty' \/ \E w \in Writer : ppc'[w] = "loop")
  BY Zenon DEF PipeSleepInv, Proc
<1>3. \A p \in Writer : ppc'[p] = "asleep" =>
        readopen' /\ (Full' \/ \E r \in Reader : ppc'[r] = "copy")
  BY Zenon DEF PipeSleepInv, Proc
<1> QED BY Zenon, <1>1, <1>2, <1>3 DEF PipeSleepInv

(* While p holds the lock nobody else is in a section under it.            *)
LEMMA Alone ==
  ASSUME PipeInv, NEW p \in Proc, ppc[p] \in {"loop", "sleep", "copy"}
  PROVE  \A q \in Proc : ppc[q] \in {"loop", "sleep", "copy"} => q = p
BY Zenon DEF PipeInv, HolderInv

(* The steps of pipewrite() under the lock.                                *)
LEMMA WriteSleep ==
  ASSUME PipeInv, PipeSleepInv, WritersLive, NEW p \in Proc, write(p) PROVE PipeSleepInv'
<1> USE DEF Proc
<1>1. p \in Writer /\ p \notin Reader /\ ppc[p] = "loop"
  BY Zenon, PipeAssumption DEF write, write_fail, write_full, write_done, write_byte
<1>2. \A q \in Proc : ppc[q] \in {"loop", "sleep", "copy"} => q = p BY Zenon, <1>1, Alone
<1>3. ppc \in [Proc -> {"out", "acquire", "loop", "sleep", "asleep", "copy", "close"}] BY Zenon DEF PipeInv, PipeTypeOK
<1>4. \A q \in Writer : ppc[q] = "asleep" => readopen /\ Full
  <2>1. \A r \in Reader : ppc[r] # "copy" BY Zenon, <1>1, <1>2
  <2> QED BY Zenon, <2>1 DEF PipeSleepInv
<1>5. CASE write_fail(p)
  <2>1. ~readopen /\ ppc' = [Wake({}) EXCEPT ![p] = "out"]
    BY Zenon, <1>1, <1>5 DEF write_fail, Return, WritersLive
  <2>2. \A q \in Proc : ppc[q] # "asleep"
    <3>1. \A q \in Reader : q \notin fd BY Zenon, <2>1, PipeAssumption DEF PipeInv, HolderInv, Open
    <3> QED BY Zenon, <1>4, <2>1, <3>1 DEF PipeInv, HolderInv
  <2>3. \A q \in Proc : ppc'[q] \notin {"sleep", "asleep"} BY Zenon, <1>2, <1>3, <2>1, <2>2 DEF Wake
  <2> QED BY Zenon, <2>3 DEF PipeSleepInv
<1>6. CASE write_full(p)
  <2>1. /\ readopen /\ Full /\ UNCHANGED <<nread, nwrite, readopen, writeopen>>
        /\ ppc' = [Wake(Reader) EXCEPT ![p] = "sleep"]
    BY Zenon, <1>6 DEF write_full, piVars
  <2>2. \A q \in Proc : ppc'[q] = "sleep" => q = p BY Zenon, <1>2, <1>3, <2>1 DEF Wake
  <2>3. \A q \in Reader : ppc'[q] # "asleep" BY Zenon, <1>1, <1>3, <2>1 DEF Wake
  <2>4. readopen' /\ Full' BY Zenon, <2>1 DEF Full
  <2> QED BY Zenon, <1>1, <2>2, <2>3, <2>4 DEF PipeSleepInv
<1>7. CASE write_done(p)
  <2>1. /\ UNCHANGED <<nread, nwrite, readopen, writeopen>>
        /\ ppc' = [Wake(Reader) EXCEPT ![p] = "out"]
    BY Zenon, <1>7 DEF write_done, Return, piVars
  <2>2. \A q \in Proc : ppc'[q] # "sleep" BY Zenon, <1>2, <1>3, <2>1 DEF Wake
  <2>3. \A q \in Reader : ppc'[q] # "asleep" BY Zenon, <1>1, <1>3, <2>1 DEF Wake
  <2>4. \A q \in Writer : ppc'[q] = "asleep" => ppc[q] = "asleep" BY Zenon, <1>3, <2>1 DEF Wake
  <2>5. \A q \in Writer : ppc'[q] = "asleep" => readopen' /\ Full' BY Zenon, <1>4, <2>1, <2>4 DEF Full
  <2> QED BY Zenon, <2>2, <2>3, <2>5 DEF PipeSleepInv
<1>8. ASSUME NEW b \in Byte, write_byte(p, b) PROVE PipeSleepInv'
  <2>1. ~Full /\ UNCHANGED <<ppc, readopen, writeopen>> BY Zenon, <1>8 DEF write_byte
  <2>2. \A q \in Proc : ppc'[q] # "sleep" BY Zenon, <1>1, <1>2, <2>1
  <2>3. \A q \in Writer : ppc'[q] # "asleep" BY Zenon, <1>4, <2>1
  <2>4. \A q \in Reader : ppc'[q] = "asleep" => writeopen' BY Zenon, <2>1 DEF PipeSleepInv
  <2>5. ppc'[p] = "loop" BY Zenon, <1>1, <2>1
  <2> QED BY Zenon, <1>1, <2>2, <2>3, <2>4, <2>5 DEF PipeSleepInv
<1> QED BY Zenon, <1>5, <1>6, <1>7, <1>8 DEF write

(* The steps of piperead() under the lock.                                 *)
LEMMA ReadSleep == ASSUME PipeInv, PipeSleepInv, NEW p \in Proc, read(p) PROVE PipeSleepInv'
<1> USE DEF Proc
<1>1. p \in Reader /\ p \notin Writer /\ ppc[p] \in {"loop", "copy"}
  BY Zenon, PipeAssumption DEF read, read_fail, read_empty, read_start, read_byte, read_fault, read_done, PipeInv, HolderInv
<1>2. \A q \in Proc : ppc[q] \in {"loop", "sleep", "copy"} => q = p BY Zenon, <1>1, Alone
<1>3. ppc \in [Proc -> {"out", "acquire", "loop", "sleep", "asleep", "copy", "close"}] BY Zenon DEF PipeInv, PipeTypeOK
<1>4. \A q \in Reader : ppc[q] = "asleep" => writeopen /\ Empty
  <2>1. \A w \in Writer : ppc[w] # "loop" BY Zenon, <1>1, <1>2
  <2> QED BY Zenon, <2>1 DEF PipeSleepInv
<1>5. CASE read_fail(p)
  <2>1. /\ ppc[p] = "loop" /\ UNCHANGED <<nread, nwrite, readopen, writeopen>>
        /\ ppc' = [Wake({}) EXCEPT ![p] = "out"]
    BY Zenon, <1>5 DEF read_fail, Return, piVars
  <2> QED BY Zenon, <1>1, <1>3, <2>1, SleepQuiet DEF Wake
<1>6. CASE read_empty(p)
  <2>1. /\ writeopen /\ Empty /\ UNCHANGED <<nread, nwrite, readopen, writeopen>>
        /\ ppc' = [ppc EXCEPT ![p] = "sleep"] /\ ppc[p] = "loop"
    BY Zenon, <1>6 DEF read_empty, piVars
  <2>2. \A q \in Proc : ppc'[q] = "sleep" => q = p BY Zenon, <1>2, <1>3, <2>1
  <2>3. \A q \in Proc : ppc'[q] = "asleep" => ppc[q] = "asleep" BY Zenon, <1>3, <2>1
  <2>4. writeopen' /\ Empty' /\ Full' = Full BY Zenon, <2>1 DEF Empty, Full
  <2>5. \A q \in Writer : ppc'[q] = "asleep" => readopen' /\ Full'
    <3>1. \A r \in Reader : ppc[r] # "copy" BY Zenon, <1>2, <2>1
    <3> QED BY Zenon, <2>1, <2>3, <2>4, <3>1 DEF PipeSleepInv
  <2> QED BY Zenon, <1>1, <2>2, <2>4, <2>5 DEF PipeSleepInv
<1>7. CASE read_start(p)
  <2>1. /\ UNCHANGED <<nread, nwrite, readopen, writeopen>>
        /\ ppc' = [ppc EXCEPT ![p] = "copy"]
    BY Zenon, <1>7 DEF read_start, piVars
  <2> QED BY Zenon, <1>1, <1>3, <2>1, SleepQuiet
<1>8. CASE read_byte(p)
  <2>1. ppc[p] = "copy" /\ ~Empty /\ UNCHANGED <<ppc, readopen, writeopen>> BY Zenon, <1>8 DEF read_byte
  <2>2. \A q \in Proc : ppc'[q] # "sleep" BY Zenon, <1>2, <2>1
  <2>3. \A q \in Reader : ppc'[q] # "asleep" BY Zenon, <1>4, <2>1
  <2>4. \A q \in Writer : ppc'[q] = "asleep" => readopen' BY Zenon, <2>1 DEF PipeSleepInv
  <2>5. ppc'[p] = "copy" BY Zenon, <2>1
  <2> QED BY Zenon, <1>1, <2>2, <2>3, <2>4, <2>5 DEF PipeSleepInv
<1>9. CASE read_fault(p) \/ read_done(p)
  <2>1. /\ UNCHANGED <<readopen, writeopen, nwrite>> /\ (~Empty \/ nread' = nread)
        /\ ppc' = [Wake(Writer) EXCEPT ![p] = "out"]
    BY Zenon, <1>9 DEF read_fault, read_done, Return, piVars
  <2>2. \A q \in Proc : ppc'[q] # "sleep" BY Zenon, <1>2, <1>3, <2>1 DEF Wake
  <2>3. \A q \in Writer : ppc'[q] # "asleep" BY Zenon, <1>1, <1>3, <2>1 DEF Wake
  <2>4. \A q \in Reader : ppc'[q] = "asleep" => ppc[q] = "asleep" BY Zenon, <1>3, <2>1 DEF Wake
  <2>5. \A q \in Reader : ppc'[q] = "asleep" => writeopen' /\ Empty'
    BY Zenon, <1>4, <2>1, <2>4 DEF Empty
  <2> QED BY Zenon, <2>2, <2>3, <2>5 DEF PipeSleepInv
<1> QED BY Zenon, <1>5, <1>6, <1>7, <1>8, <1>9 DEF read

(* sleep() lets go of the lock after the look.                             *)
LEMMA GoToSleep == ASSUME PipeInv, PipeSleepInv, NEW p \in Proc, sleep(p) PROVE PipeSleepInv'
<1> USE DEF Proc
<1>1. /\ ppc[p] = "sleep" /\ UNCHANGED <<nread, nwrite, readopen, writeopen>>
      /\ ppc' = [ppc EXCEPT ![p] = "asleep"]
  BY Zenon DEF sleep, piVars
<1>2. \A q \in Proc : ppc[q] \in {"loop", "sleep", "copy"} => q = p BY Zenon, <1>1, Alone
<1>3. ppc \in [Proc -> {"out", "acquire", "loop", "sleep", "asleep", "copy", "close"}] BY Zenon DEF PipeInv, PipeTypeOK
<1>4. \A q \in Proc : ppc'[q] # "sleep" BY Zenon, <1>1, <1>2, <1>3
<1>5. \A q \in Proc : ppc'[q] = "asleep" => q = p \/ ppc[q] = "asleep" BY Zenon, <1>1, <1>3
<1>6. \A q \in Proc : ppc[q] \notin {"loop", "copy"} BY Zenon, <1>1, <1>2
<1>7. \A q \in Reader : ppc'[q] = "asleep" => writeopen' /\ Empty'
  BY Zenon, <1>1, <1>5, <1>6 DEF PipeSleepInv, Empty
<1>8. \A q \in Writer : ppc'[q] = "asleep" => readopen' /\ Full'
  BY Zenon, <1>1, <1>5, <1>6, PipeAssumption DEF PipeSleepInv, Full
<1> QED BY Zenon, <1>4, <1>7, <1>8 DEF PipeSleepInv

(* pipeclose() wakes all who sleep at the other end.                       *)
LEMMA CloseSleep == ASSUME PipeInv, PipeSleepInv, NEW p \in Proc, pipeclose(p) PROVE PipeSleepInv'
<1> USE DEF Proc
<1>1. /\ ppc[p] = "close" /\ lock = Nobody /\ UNCHANGED <<nread, nwrite>>
      /\ writeopen' = (writeopen /\ p \notin Writer) /\ readopen' = (readopen /\ p \in Writer)
      /\ ppc' = [Wake(Proc \ End(p)) EXCEPT ![p] = "out"]
  BY Zenon DEF pipeclose
<1>2. \A q \in Proc : ppc[q] \notin {"loop", "sleep", "copy"}
  BY Zenon, <1>1, PipeAssumption DEF PipeInv, HolderInv
<1>3. ppc \in [Proc -> {"out", "acquire", "loop", "sleep", "asleep", "copy", "close"}] BY Zenon DEF PipeInv, PipeTypeOK
<1>4. \A q \in Proc : ppc'[q] = "asleep" => ppc[q] = "asleep" /\ q \in End(p)
  BY Zenon, <1>1, <1>3 DEF Wake
<1>5. \A q \in Proc : ppc'[q] # "sleep" BY Zenon, <1>1, <1>2, <1>3 DEF Wake
<1>6. \A q \in Reader : ppc'[q] = "asleep" => writeopen' /\ Empty'
  BY Zenon, <1>1, <1>2, <1>4, PipeAssumption DEF PipeSleepInv, Empty, End
<1>7. \A q \in Writer : ppc'[q] = "asleep" => readopen' /\ Full'
  BY Zenon, <1>1, <1>2, <1>4, PipeAssumption DEF PipeSleepInv, Full, End
<1> QED BY Zenon, <1>5, <1>6, <1>7 DEF PipeSleepInv

(* Every step keeps SleepInv, if no writer is killed.                      *)
LEMMA PipeSleepStep == ASSUME PipeInv, PipeSleepInv, WritersLive, [PipeNext]_pipeVars PROVE PipeSleepInv'
<1>1. ppc \in [Proc -> {"out", "acquire", "loop", "sleep", "asleep", "copy", "close"}] BY Zenon DEF PipeInv, PipeTypeOK
<1>2. ASSUME NEW p \in Proc,
             (\E k \in Length : call(p, k)) \/ acquire(p) \/ fileclose(p) \/ kkill(p)
      PROVE  PipeSleepInv'
  <2>1. UNCHANGED <<nread, nwrite, readopen, writeopen>>
    BY Zenon, <1>2 DEF call, acquire, fileclose, kkill, piVars
  <2>2. \A q \in Proc : ppc'[q] \in {"sleep", "asleep"} => ppc'[q] = ppc[q]
    BY Zenon, <1>1, <1>2 DEF call, acquire, fileclose, kkill, Wake
  <2>3. \A q \in Proc : ppc[q] \in {"loop", "copy"} => ppc'[q] = ppc[q]
    BY Zenon, <1>1, <1>2 DEF call, acquire, fileclose, kkill, Wake
  <2> QED BY Zenon, <2>1, <2>2, <2>3, SleepQuiet DEF Proc
<1>3. CASE UNCHANGED pipeVars BY Zenon, <1>3, SleepQuiet DEF pipeVars, piVars
<1> QED BY Zenon, <1>2, <1>3, WriteSleep, ReadSleep, GoToSleep, CloseSleep DEF PipeNext, Inside

(* If no writer is killed, no reader or writer sleeps for something that   *)
(* is already there, whatever the number of processes at either end.       *)
THEOREM PipeNoLostWakeup ==
  ASSUME Killable \cap Writer = {}
  PROVE  PipeSpec => []NoLostWakeup
<1>1. PipeInit => WritersLive BY Zenon DEF PipeInit, WritersLive, Proc
<1>2. PipeInv /\ WritersLive /\ [PipeNext]_pipeVars => WritersLive'
  <2> SUFFICES ASSUME PipeInv, WritersLive, [PipeNext]_pipeVars PROVE WritersLive' BY Zenon
  <2>1. pkilled' = pkilled \/ \E p \in Killable : pkilled' = [pkilled EXCEPT ![p] = TRUE]
    BY DEF PipeNext, Inside, write, read, pipeVars, call, acquire, sleep, write_fail, write_full, write_byte,
           write_done, read_fail, read_empty, read_start, read_byte, read_fault, read_done, fileclose,
           pipeclose, kkill
  <2>2. pkilled \in [Proc -> BOOLEAN] BY Zenon DEF PipeInv, PipeTypeOK
  <2> QED BY Zenon, <2>1, <2>2 DEF WritersLive, Proc
<1>3. PipeInv /\ PipeSleepInv => NoLostWakeup
  <2> SUFFICES ASSUME PipeInv, PipeSleepInv, lock = Nobody, NEW p \in Proc, ppc[p] = "asleep"
               PROVE IF p \in Reader THEN Empty /\ writeopen ELSE Full /\ readopen
    BY Zenon DEF NoLostWakeup
  <2>1. \A q \in Proc : ppc[q] \notin {"loop", "copy"} BY Zenon, PipeAssumption DEF PipeInv, HolderInv, Proc
  <2> QED BY Zenon, <2>1 DEF PipeSleepInv, Proc
<1> QED BY <1>1, <1>2, <1>3, PipeSleepStep, PipeInitial, PipeInvariant, PTL DEF PipeSpec

-------------------------------------------------------------------------------
(* The ring of kernel/pipe.c, with counters that wrap, implements a queue. *)

(* A product of a positive number lies outside the open interval from -P   *)
(* to P unless the other factor is zero.                                   *)
LEMMA ProductBound ==
  ASSUME NEW P \in Nat \ {0}, NEW d \in Int, -P < P * d, P * d < P PROVE d = 0
<1>1. CASE d >= 1
  <2>1. d - 1 \in Nat BY <1>1
  <2>2. P * (d - 1) >= 0 BY <2>1
  <2>3. P * d = P * (d - 1) + P OBVIOUS
  <2> QED BY <2>2, <2>3
<1>2. CASE d <= -1
  <2>1. -d - 1 \in Nat BY <1>2
  <2>2. P * (-d - 1) >= 0 BY <2>1
  <2>3. P * (-d - 1) = -(P * d) - P OBVIOUS
  <2> QED BY <2>2, <2>3
<1> QED BY <1>1, <1>2

(* Division with remainder.                                                *)
LEMMA Division ==
  ASSUME NEW P \in Nat \ {0}, NEW y \in Nat
  PROVE  y \div P \in Int /\ y % P \in 0..(P - 1) /\ y = P * (y \div P) + (y % P)
OBVIOUS

(* The remainder is unique.                                                *)
LEMMA RemainderUnique ==
  ASSUME NEW P \in Nat \ {0}, NEW y \in Nat, NEW q \in Int, NEW r \in 0..(P - 1), y = P * q + r
  PROVE  y % P = r
<1> DEFINE e == y \div P
           s == y % P
<1>1. e \in Int /\ s \in 0..(P - 1) /\ y = P * e + s BY Zenon, Division
<1> HIDE DEF e, s
<1>2. P * (q - e) = s - r BY <1>1
<1>3. q - e = 0 BY <1>1, <1>2, ProductBound
<1>4. P * (q - e) = 0 BY <1>3
<1>5. s = r BY <1>1, <1>2, <1>4
<1> QED BY Zenon, <1>5 DEF s

(* A multiple of the modulus may be taken away.                            *)
LEMMA Shift ==
  ASSUME NEW P \in Nat \ {0}, NEW U \in Nat, U % P = 0, NEW y \in Nat, y >= U
  PROVE  (y - U) % P = y % P
<1> DEFINE e == y \div P
           s == y % P
           c == U \div P
           z == y - U
<1>1. e \in Int /\ s \in 0..(P - 1) /\ y = P * e + s BY Zenon, Division
<1>2. c \in Int /\ U = P * c + (U % P) BY Zenon, Division
<1> HIDE DEF e, s, c
<1>3. U = P * c BY <1>2
<1>4. z \in Nat /\ z = P * (e - c) + s BY <1>1, <1>2, <1>3
<1> DEFINE g == e - c
<1>5. g \in Int /\ z = P * g + s BY <1>1, <1>2, <1>4
<1> HIDE DEF g, z
<1>6. z % P = s BY Zenon, <1>1, <1>4, <1>5, RemainderUnique
<1> QED BY Zenon, <1>6 DEF z, s

(* Numbers that differ by less than the modulus have different remainders. *)
LEMMA Distinct ==
  ASSUME NEW P \in Nat \ {0}, NEW y \in Nat, NEW d \in 1..(P - 1)
  PROVE  (y + d) % P # y % P
<1> DEFINE e == y \div P
           s == y % P
           z == y + d
           f == z \div P
           t == z % P
<1>1. e \in Int /\ s \in 0..(P - 1) /\ y = P * e + s BY Zenon, Division
<1>2. z \in Nat OBVIOUS
<1> HIDE DEF z
<1>3. f \in Int /\ t \in 0..(P - 1) /\ z = P * f + t BY Zenon, <1>2, Division
<1> HIDE DEF e, s, f, t
<1>4. ASSUME s = t PROVE FALSE
  <2>1. d = P * (f - e) BY <1>1, <1>3, <1>4 DEF z
  <2>2. f - e = 0 BY <1>1, <1>3, <2>1, ProductBound
  <2>3. P * (f - e) = 0 BY <2>2
  <2> QED BY <2>1, <2>3
<1>5. s # t BY Zenon, <1>4
<1> QED BY Zenon, <1>5 DEF s, t, z

-------------------------------------------------------------------------------
(* Readings r and w of nread and nwrite.                                   *)

Filled(r, w) == (w + UINT - r) % UINT

Uint == 0..(UINT - 1)

(* The constants of the ring.                                              *)
LEMMA RingConstants ==
  /\ PIPESIZE \in Nat \ {0} /\ UINT \in Nat \ {0} /\ UINT > PIPESIZE
  /\ UINT % PIPESIZE = 0
BY PipeAssumption

(* A number below twice UINT, as a uint.                                   *)
LEMMA WrapOnce ==
  ASSUME NEW T \in Nat \ {0}, NEW x \in 0..(2 * T - 1)
  PROVE  x % T = IF x < T THEN x ELSE x - T
OBVIOUS

(* A counter that moves on by d.                                           *)
LEMMA IndexAdvance ==
  ASSUME NEW x \in Uint, NEW d \in 0..UINT
  PROVE  (x + d) % UINT = IF x + d < UINT THEN x + d ELSE x + d - UINT
<1> DEFINE z == x + d
<1>1. z \in 0..(2 * UINT - 1) BY RingConstants DEF Uint
<1> HIDE DEF z
<1>2. z % UINT = IF z < UINT THEN z ELSE z - UINT BY Zenon, <1>1, RingConstants, WrapOnce
<1>3. CASE z < UINT BY Zenon, <1>2, <1>3 DEF z
<1>4. CASE ~(z < UINT)
  <2>1. z - UINT = x + d - UINT BY RingConstants DEF z, Uint
  <2> QED BY Zenon, <1>2, <1>4, <2>1 DEF z
<1> QED BY Zenon, <1>3, <1>4

(* Unsigned subtraction gives the distance.                                *)
LEMMA CountValue ==
  ASSUME NEW r \in Uint, NEW w \in Uint
  PROVE  Filled(r, w) = IF w < r THEN w + UINT - r ELSE w - r
<1> DEFINE z == w + UINT - r
<1>1. UINT \in Nat \ {0} BY Zenon, RingConstants
<1>2. z \in 0..(2 * UINT - 1) BY <1>1 DEF Uint
<1> HIDE DEF z
<1>3. z % UINT = IF z < UINT THEN z ELSE z - UINT BY Zenon, <1>1, <1>2, WrapOnce
<1>4. Filled(r, w) = IF z < UINT THEN z ELSE z - UINT BY Zenon, <1>3 DEF Filled, z
<1> QED BY <1>1, <1>4 DEF z, Uint

(* Empty, full, and what a byte more or less does to the distance.         *)
LEMMA CountFacts ==
  ASSUME NEW r \in Uint, NEW w \in Uint
  PROVE  /\ Filled(r, w) \in Nat
         /\ r = w <=> Filled(r, w) = 0
         /\ w = (r + PIPESIZE) % UINT <=> Filled(r, w) = PIPESIZE
         /\ Filled(r, w) < PIPESIZE => Filled(r, (w + 1) % UINT) = Filled(r, w) + 1
         /\ Filled(r, w) > 0 => Filled((r + 1) % UINT, w) = Filled(r, w) - 1
<1>0. UINT \in Nat /\ PIPESIZE \in Nat \ {0} /\ UINT > PIPESIZE BY Zenon, RingConstants
<1> DEFINE c == Filled(r, w)
           w1 == (w + 1) % UINT
           r1 == (r + 1) % UINT
           rp == (r + PIPESIZE) % UINT
<1>1. c = IF w < r THEN w + UINT - r ELSE w - r BY Zenon, CountValue
<1>2. w1 = IF w + 1 < UINT THEN w + 1 ELSE w + 1 - UINT
  <2>1. 1 \in 0..UINT BY <1>0
  <2> QED BY Zenon, <2>1, IndexAdvance
<1>3. r1 = IF r + 1 < UINT THEN r + 1 ELSE r + 1 - UINT
  <2>1. 1 \in 0..UINT BY <1>0
  <2> QED BY Zenon, <2>1, IndexAdvance
<1>4. rp = IF r + PIPESIZE < UINT THEN r + PIPESIZE ELSE r + PIPESIZE - UINT
  <2>1. PIPESIZE \in 0..UINT BY <1>0
  <2> QED BY Zenon, <2>1, IndexAdvance
<1> HIDE DEF c, w1, r1, rp
<1>5. w1 \in Uint /\ r1 \in Uint BY <1>0, <1>2, <1>3 DEF Uint
<1> DEFINE cw == Filled(r, w1)
           cr == Filled(r1, w)
<1>6. cw = IF w1 < r THEN w1 + UINT - r ELSE w1 - r BY Zenon, <1>5, CountValue
<1>7. cr = IF w < r1 THEN w + UINT - r1 ELSE w - r1 BY Zenon, <1>5, CountValue
<1> HIDE DEF cw, cr
<1>8. c \in Nat /\ (r = w <=> c = 0) BY <1>0, <1>1 DEF Uint
<1>9. w = rp <=> c = PIPESIZE BY <1>0, <1>1, <1>4 DEF Uint
<1>10. c < PIPESIZE => cw = c + 1 BY <1>0, <1>1, <1>2, <1>6 DEF Uint
<1>11. c > 0 => cr = c - 1 BY <1>0, <1>1, <1>3, <1>7 DEF Uint
<1> QED BY Zenon, <1>8, <1>9, <1>10, <1>11 DEF c, cw, cr, w1, r1, rp

(* The slot that is written next.                                          *)
LEMMA WriteIndex ==
  ASSUME NEW r \in Uint, NEW w \in Uint
  PROVE  w % PIPESIZE = (r + Filled(r, w)) % PIPESIZE
<1> DEFINE c == Filled(r, w)
           y == r + c
<1>0. UINT \in Nat BY Zenon, RingConstants
<1>1. c = IF w < r THEN w + UINT - r ELSE w - r BY Zenon, CountValue
<1> HIDE DEF c
<1>2. y \in Nat /\ (w = y \/ (y >= UINT /\ w = y - UINT)) BY <1>0, <1>1 DEF Uint
<1> HIDE DEF y
<1>3. CASE w = y BY Zenon, <1>3 DEF y, c
<1>4. CASE y >= UINT /\ w = y - UINT
  <2>1. (y - UINT) % PIPESIZE = y % PIPESIZE BY Zenon, <1>0, <1>2, <1>4, RingConstants, Shift
  <2> QED BY Zenon, <1>4, <2>1 DEF y, c
<1> QED BY Zenon, <1>2, <1>3, <1>4

(* The slots that are read after the next one.                             *)
LEMMA ReadIndex ==
  ASSUME NEW r \in Uint, NEW k \in Nat \ {0}
  PROVE  (((r + 1) % UINT) + k - 1) % PIPESIZE = (r + k) % PIPESIZE
<1> DEFINE r1 == (r + 1) % UINT
           x == r1 + k - 1
           y == r + k
<1>0. UINT \in Nat \ {0} BY Zenon, RingConstants
<1>1. r1 = IF r + 1 < UINT THEN r + 1 ELSE r + 1 - UINT
  <2>1. 1 \in 0..UINT BY <1>0
  <2> QED BY Zenon, <2>1, IndexAdvance
<1> HIDE DEF r1
<1>2. y \in Nat /\ (x = y \/ (y >= UINT /\ x = y - UINT)) BY <1>0, <1>1 DEF Uint
<1> HIDE DEF x, y
<1>3. CASE x = y BY Zenon, <1>3 DEF x, y, r1
<1>4. CASE y >= UINT /\ x = y - UINT
  <2>1. (y - UINT) % PIPESIZE = y % PIPESIZE BY Zenon, <1>0, <1>2, <1>4, RingConstants, Shift
  <2> QED BY Zenon, <1>4, <2>1 DEF x, y, r1
<1> QED BY Zenon, <1>2, <1>3, <1>4

-------------------------------------------------------------------------------
(* The refinement.                                                         *)

RingInv == Filled(nread, nwrite) <= PIPESIZE

Entry(r, k) == data[(r + k - 1) % PIPESIZE]

(* queue in terms of the two readings.                                     *)
LEMMA QueueIs ==
  ASSUME PipeTypeOK
  PROVE  /\ queue = [k \in 1..Filled(nread, nwrite) |-> Entry(nread, k)]
         /\ queue \in Seq(Byte) /\ Len(queue) = Filled(nread, nwrite)
<1>1. queue = [k \in 1..Filled(nread, nwrite) |-> Entry(nread, k)] BY Zenon DEF queue, Filled, Entry
<1>2. Filled(nread, nwrite) \in Nat BY Zenon, CountFacts DEF PipeTypeOK, Uint
<1>3. ASSUME NEW k \in 1..Filled(nread, nwrite) PROVE Entry(nread, k) \in Byte
  <2> DEFINE y == nread + k - 1
  <2>1. y \in Nat BY <1>2 DEF PipeTypeOK
  <2> HIDE DEF y
  <2>2. y % PIPESIZE \in 0..(PIPESIZE - 1) BY Zenon, <2>1, RingConstants, Division
  <2> QED BY Zenon, <2>2 DEF Entry, PipeTypeOK, y
<1>4. queue \in [1..Filled(nread, nwrite) -> Byte] BY Zenon, <1>1, <1>3
<1> HIDE DEF queue
<1>5. queue \in Seq(Byte) /\ Len(queue) = Filled(nread, nwrite) BY <1>2, <1>4
<1> QED BY Zenon, <1>1, <1>5

(* A byte is put in at the end.                                            *)
LEMMA PutStep ==
  ASSUME PipeTypeOK, PipeTypeOK', HolderInv, RingInv, NEW p \in Proc, NEW b \in Byte, write_byte(p, b)
  PROVE  RingInv' /\ BQ!Put(b)
<1> DEFINE c == Filled(nread, nwrite)
<1>1. /\ p \in Writer /\ ppc[p] = "loop" /\ readopen /\ ~Full
      /\ data' = [data EXCEPT ![nwrite % PIPESIZE] = b] /\ nwrite' = (nwrite + 1) % UINT
      /\ nread' = nread /\ UNCHANGED <<readopen, writeopen>>
  BY Zenon DEF write_byte
<1>2. nread \in Uint /\ nwrite \in Uint BY Zenon DEF PipeTypeOK, Uint
<1>3. c \in Nat /\ c < PIPESIZE
  BY <1>1, <1>2, CountFacts, RingConstants DEF Full, RingInv
<1>4. Filled(nread', nwrite') = c + 1 BY Zenon, <1>1, <1>2, <1>3, CountFacts
<1>5. RingInv'
  <2>1. c + 1 <= PIPESIZE BY <1>3, RingConstants
  <2> QED BY Zenon, <1>4, <2>1 DEF RingInv, Filled
<1>6. nwrite % PIPESIZE = (nread + c) % PIPESIZE BY Zenon, <1>2, WriteIndex
<1> HIDE DEF c
<1>7. data \in [0..(PIPESIZE - 1) -> Byte] BY Zenon DEF PipeTypeOK
<1>8. nread \in Nat /\ PIPESIZE \in Nat \ {0} BY <1>2, RingConstants DEF Uint
<1>9. ASSUME NEW k \in 1..c PROVE Entry(nread, k)' = Entry(nread, k)
  <2> DEFINE y == nread + k - 1
             d == c - k + 1
             z == nread + c
  <2>1. y \in Nat /\ d \in 1..(PIPESIZE - 1) /\ z = y + d BY <1>3, <1>8
  <2> HIDE DEF y, d, z
  <2>2. (y + d) % PIPESIZE # y % PIPESIZE BY Zenon, <1>8, <2>1, Distinct
  <2>3. z % PIPESIZE # y % PIPESIZE BY Zenon, <2>1, <2>2
  <2>4. y % PIPESIZE # nwrite % PIPESIZE BY Zenon, <1>6, <2>3 DEF z
  <2>5. data'[y % PIPESIZE] = data[y % PIPESIZE] BY Zenon, <1>1, <1>7, <1>8, <2>1, <2>4, Division
  <2> QED BY Zenon, <1>1, <2>5 DEF Entry, y
<1>10. (nread + (c + 1) - 1) % PIPESIZE = nwrite % PIPESIZE
  <2>1. nread + (c + 1) - 1 = nread + c BY <1>3, <1>8
  <2> QED BY Zenon, <1>6, <2>1
<1>11. data'[(nread + (c + 1) - 1) % PIPESIZE] = b
  <2>1. nwrite % PIPESIZE \in 0..(PIPESIZE - 1) BY <1>2, <1>8, Division DEF Uint
  <2>2. data'[nwrite % PIPESIZE] = b BY Zenon, <1>1, <1>7, <2>1
  <2> QED BY Zenon, <1>10, <2>2
<1>12. queue = [k \in 1..c |-> Entry(nread, k)] /\ queue \in Seq(Byte) /\ Len(queue) = c
  BY Zenon, QueueIs DEF c
<1>13. queue' = [k \in 1..(c + 1) |-> data'[(nread + k - 1) % PIPESIZE]]
  <2>1. (nwrite' + UINT - nread') % UINT = c + 1 BY Zenon, <1>4 DEF Filled
  <2> QED BY <1>1, <2>1 DEF queue
<1>14. queue' = Append(queue, b)
  <2>1. ASSUME NEW k \in 1..c PROVE queue'[k] = queue[k]
    <3>1. queue'[k] = data'[(nread + k - 1) % PIPESIZE] BY <1>3, <1>13
    <3>2. queue[k] = data[(nread + k - 1) % PIPESIZE] BY Zenon, <1>12 DEF Entry
    <3> QED BY Zenon, <1>1, <1>9, <3>1, <3>2 DEF Entry
  <2>2. queue'[c + 1] = b BY <1>3, <1>11, <1>13
  <2> HIDE DEF queue
  <2>3. queue' = [k \in 1..(c + 1) |-> IF k <= c THEN queue[k] ELSE b]
    <3> DEFINE f(k) == data'[(nread + k - 1) % PIPESIZE]
    <3>1. queue' = [k \in 1..(c + 1) |-> f(k)] BY Zenon, <1>13
    <3> HIDE DEF f
    <3>2. ASSUME NEW k \in 1..(c + 1) PROVE f(k) = IF k <= c THEN queue[k] ELSE b
      <4>1. queue'[k] = f(k) BY Zenon, <3>1
      <4>2. CASE k \in 1..c BY <1>3, <2>1, <4>1, <4>2
      <4>3. CASE k = c + 1 BY <1>3, <2>2, <4>1, <4>3
      <4> QED BY <1>3, <4>2, <4>3
    <3> QED BY Zenon, <3>1, <3>2
  <2> QED BY <1>3, <1>12, <2>3
<1>15. writeopen BY Zenon, <1>1 DEF HolderInv, Open
<1> QED BY Zenon, <1>1, <1>3, <1>5, <1>12, <1>14, <1>15 DEF BQ!Put

(* A byte is taken from the front, and reaches the reader or is lost.      *)
LEMMA GetStep ==
  ASSUME PipeTypeOK, PipeTypeOK', HolderInv, RingInv, NEW p \in Proc, read_byte(p) \/ read_fault(p)
  PROVE  RingInv' /\ BQ!Get
<1> DEFINE c == Filled(nread, nwrite)
<1>1. /\ ppc[p] = "copy" /\ ~Empty /\ nread' = (nread + 1) % UINT
      /\ UNCHANGED <<data, nwrite, readopen, writeopen>>
  BY Zenon DEF read_byte, read_fault
<1>2. nread \in Uint /\ nwrite \in Uint BY Zenon DEF PipeTypeOK, Uint
<1>3. c \in Nat /\ c > 0 /\ c <= PIPESIZE BY <1>1, <1>2, CountFacts DEF Empty, RingInv
<1>4. Filled(nread', nwrite') = c - 1 BY Zenon, <1>1, <1>2, <1>3, CountFacts
<1>5. RingInv'
  <2>1. c - 1 <= PIPESIZE BY <1>3, RingConstants
  <2> QED BY Zenon, <1>4, <2>1 DEF RingInv, Filled
<1> HIDE DEF c
<1>6. queue = [k \in 1..c |-> Entry(nread, k)] /\ queue \in Seq(Byte) /\ Len(queue) = c
  BY Zenon, QueueIs DEF c
<1>7. queue' = [k \in 1..(c - 1) |-> data[(nread' + k - 1) % PIPESIZE]]
  <2>1. (nwrite' + UINT - nread') % UINT = c - 1 BY Zenon, <1>4 DEF Filled
  <2> QED BY Zenon, <1>1, <2>1 DEF queue
<1>8. queue' = Tail(queue)
  <2> DEFINE f(k) == data[(nread' + k - 1) % PIPESIZE]
  <2>1. ASSUME NEW k \in 1..(c - 1) PROVE f(k) = queue[k + 1]
    <3>1. k \in Nat \ {0} /\ k + 1 \in 1..c /\ nread \in Nat BY <1>2, <1>3 DEF Uint
    <3>2. (nread' + k - 1) % PIPESIZE = (nread + k) % PIPESIZE BY Zenon, <1>1, <1>2, <3>1, ReadIndex
    <3>3. queue[k + 1] = data[(nread + (k + 1) - 1) % PIPESIZE] BY Zenon, <1>6, <3>1 DEF Entry
    <3>4. nread + (k + 1) - 1 = nread + k BY <3>1
    <3> QED BY Zenon, <3>2, <3>3, <3>4
  <2>2. queue' = [k \in 1..(c - 1) |-> f(k)] BY Zenon, <1>7
  <2> HIDE DEF f, queue
  <2>3. queue' = [k \in 1..(c - 1) |-> queue[k + 1]] BY Zenon, <2>1, <2>2
  <2> QED BY <1>3, <1>6, <2>3
<1>9. queue # <<>> BY <1>3, <1>6
<1>10. readopen
  <2>1. p \in Reader /\ p \in fd BY Zenon, <1>1 DEF HolderInv
  <2> QED BY Zenon, <2>1, PipeAssumption DEF HolderInv, Open, Proc
<1> QED BY Zenon, <1>1, <1>5, <1>8, <1>9, <1>10 DEF BQ!Get

(* The last close of an end.                                               *)
LEMMA CloseStep ==
  ASSUME PipeTypeOK, HolderInv, RingInv, NEW p \in Proc, pipeclose(p)
  PROVE  RingInv' /\ (BQ!CloseWrite \/ BQ!CloseRead)
<1>1. /\ ppc[p] = "close" /\ UNCHANGED <<data, nread, nwrite>>
      /\ writeopen' = (writeopen /\ p \notin Writer) /\ readopen' = (readopen /\ p \in Writer)
  BY Zenon DEF pipeclose
<1>2. queue' = queue /\ RingInv' BY Zenon, <1>1 DEF queue, RingInv, Filled
<1>3. Open(p) BY Zenon, <1>1 DEF HolderInv
<1>4. CASE p \in Writer
  <2>1. writeopen /\ writeopen' = FALSE /\ readopen' = readopen
    BY Zenon, <1>1, <1>3, <1>4 DEF Open, PipeTypeOK
  <2> QED BY Zenon, <1>2, <2>1 DEF BQ!CloseWrite
<1>5. CASE p \notin Writer
  <2>1. readopen /\ readopen' = FALSE /\ writeopen' = writeopen
    BY Zenon, <1>1, <1>3, <1>5 DEF Open, PipeTypeOK
  <2> QED BY Zenon, <1>2, <2>1 DEF BQ!CloseRead
<1> QED BY Zenon, <1>4, <1>5

(* Every step is a step of ByteQueue or a stutter.                         *)
LEMMA RingStep == PipeInv /\ PipeInv' /\ RingInv /\ [PipeNext]_pipeVars => RingInv' /\ [BQ!Next]_BQ!vars
<1> SUFFICES ASSUME PipeInv, PipeInv', RingInv, [PipeNext]_pipeVars PROVE RingInv' /\ [BQ!Next]_BQ!vars BY Zenon
<1> USE DEF PipeInv
<1>1. ASSUME UNCHANGED piVars PROVE RingInv' /\ UNCHANGED BQ!vars
  BY Zenon, <1>1 DEF piVars, RingInv, Filled, BQ!vars, queue
<1>2. ASSUME NEW p \in Proc, write(p) PROVE RingInv' /\ [BQ!Next]_BQ!vars
  <2>1. ASSUME NEW b \in Byte, write_byte(p, b) PROVE RingInv' /\ [BQ!Next]_BQ!vars
    BY Zenon, <2>1, PutStep DEF BQ!Next
  <2>2. CASE write_fail(p) \/ write_full(p) \/ write_done(p)
    BY Zenon, <1>1, <2>2 DEF write_fail, write_full, write_done
  <2> QED BY Zenon, <1>2, <2>1, <2>2 DEF write
<1>3. ASSUME NEW p \in Proc, read(p) PROVE RingInv' /\ [BQ!Next]_BQ!vars
  <2>1. CASE read_byte(p) \/ read_fault(p) BY Zenon, <2>1, GetStep DEF BQ!Next
  <2>2. CASE read_fail(p) \/ read_empty(p) \/ read_start(p) \/ read_done(p)
    BY Zenon, <1>1, <2>2 DEF read_fail, read_empty, read_start, read_done
  <2> QED BY Zenon, <1>3, <2>1, <2>2 DEF read
<1>4. ASSUME NEW p \in Proc, pipeclose(p) PROVE RingInv' /\ [BQ!Next]_BQ!vars
  BY Zenon, <1>4, CloseStep DEF BQ!Next
<1>5. ASSUME NEW p \in Proc,
             \/ \E k \in Length : call(p, k)
             \/ acquire(p) \/ sleep(p) \/ fileclose(p) \/ kkill(p)
      PROVE  RingInv' /\ [BQ!Next]_BQ!vars
  BY Zenon, <1>1, <1>5 DEF call, acquire, sleep, fileclose, kkill
<1>6. CASE UNCHANGED pipeVars BY Zenon, <1>1, <1>6 DEF pipeVars
<1> QED BY Zenon, <1>2, <1>3, <1>4, <1>5, <1>6 DEF PipeNext, Inside

(* An empty ring is an empty queue.                                        *)
LEMMA RingInitial == PipeInit => RingInv /\ BQ!Init
<1> SUFFICES ASSUME PipeInit PROVE RingInv /\ BQ!Init BY Zenon
<1>1. nread \in Uint /\ nwrite \in Uint /\ nread = nwrite BY RingConstants DEF PipeInit, Uint
<1>2. Filled(nread, nwrite) = 0 BY Zenon, <1>1, CountFacts
<1>3. RingInv BY <1>2, RingConstants DEF RingInv
<1>4. PipeTypeOK BY Zenon, PipeInitial DEF PipeInv
<1>5. queue \in Seq(Byte) /\ Len(queue) = 0 BY Zenon, <1>2, <1>4, QueueIs
<1>6. queue = <<>> BY <1>5
<1> QED BY Zenon, <1>3, <1>6 DEF PipeInit, BQ!Init

(* The pipe is a bounded queue of bytes: every byte comes out once and in  *)
(* order, for any number of readers and writers, any PIPESIZE, and         *)
(* counters that wrap at any multiple of it.                               *)
THEOREM PipeImplementsQueue == PipeSpec => Fifo
BY RingInitial, RingStep, PipeInvariant, PTL DEF PipeSpec, Fifo, BQ!Spec
===============================================================================
