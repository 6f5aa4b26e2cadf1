----------------------------- MODULE FifoProofs -----------------------------
(* Theorems about the FIFO for any number of blocks and any length of the   *)
(* stream, with their proofs.                                               *)
EXTENDS Fifo, TLAPS

(* What the assumptions say of the constants, in the form the steps use. *)
LEMMA Constants ==
    /\ NULL \notin Buf /\ Blocks \in Nat /\ Spurious \in BOOLEAN
    /\ Gps \in Thread /\ Sdr \in Thread /\ Main \in Thread
    /\ Gps # Sdr /\ Gps # Main /\ Sdr # Main
    /\ \A t \in Thread : t = Gps \/ t = Sdr \/ t = Main
BY BufAssumption, ThreadAssumption, BlocksAssumption, SpuriousAssumption DEF Thread

-----------------------------------------------------------------------------
(* Type correctness.                                                        *)

(* What an operation does to the lists keeps their types. *)
LEMMA SignalType ==
    ASSUME TypeOK, NEW c, Signal(c)
    PROVE  woken' \subseteq Thread
BY DEF Signal, Waiting, TypeOK

LEMMA ListTypes ==
    ASSUME TypeOK, NEW t \in Thread,
           AcquireResult(t) \/ DequeueResult(t)
    PROVE  /\ head' \in Ref /\ tail' \in Ref /\ freelist' \in Ref
           /\ nxt' \in [Buf -> Ref] /\ held' \in [Thread -> Ref]
           /\ payload' \in [Buf -> 0..Blocks] /\ taken' \in 0..Blocks
           /\ crashed' \in BOOLEAN
<1>1. CASE UNCHANGED <<ptrs, held, payload, taken>> /\ crashed' \in BOOLEAN
  BY <1>1 DEF TypeOK, ptrs
<1>2. CASE freelist # NULL /\ PopFree(t)
  BY <1>2, Constants DEF TypeOK, PopFree, Ref
<1>3. CASE head # NULL /\ PopHead(t)
  BY <1>3, Constants DEF TypeOK, PopHead, Ref
<1> QED
  BY <1>1, <1>2, <1>3 DEF AcquireResult, DequeueResult, Crash, ptrs, TypeOK

LEMMA TypeStep == TypeOK /\ [Next]_fifoVars => TypeOK'
<1> SUFFICES ASSUME TypeOK, [Next]_fifoVars PROVE TypeOK'
  OBVIOUS
<1> USE Constants
<1>1. ASSUME NEW t \in Thread, Acquire(t) PROVE TypeOK'
  <2>1. CASE ~halted /\ freelist = NULL
    <3>1. woken' \subseteq Thread
      BY <1>1, <2>1, SignalType DEF Acquire
    <3> QED
      BY <1>1, <2>1, <3>1 DEF Acquire, Wait, TypeOK, ptrs, Call, Blocking
  <2>2. CASE ~(~halted /\ freelist = NULL)
    BY <1>1, <2>2, ListTypes DEF Acquire, TypeOK
  <2> QED BY <2>1, <2>2
<1>2. ASSUME NEW t \in Thread, AcquireResume(t) PROVE TypeOK'
  BY <1>2, ListTypes DEF AcquireResume, TypeOK, Call
<1>3. ASSUME NEW t \in Thread, sent < Blocks, Enqueue(t) PROVE TypeOK'
  <2>1. held[t] \in Buf /\ held' \in [Thread -> Ref]
    BY <1>3 DEF Enqueue, TypeOK, Ref
  <2>2. sent' \in 0..Blocks /\ payload' \in [Buf -> 0..Blocks]
    <3>1. sent \in Nat /\ sent + 1 \in 0..Blocks
      BY <1>3 DEF TypeOK
    <3> QED BY <1>3, <3>1 DEF Enqueue, TypeOK
  <2>3. CASE EnqueueHalted(t)
    BY <1>3, <2>1, <2>2, <2>3 DEF Enqueue, EnqueueHalted, TypeOK, Ref
  <2>4. CASE EnqueueFirst(t)
    <3>1. woken' \subseteq Thread
      BY <2>4, SignalType DEF EnqueueFirst
    <3> QED BY <1>3, <2>1, <2>2, <2>4, <3>1 DEF Enqueue, EnqueueFirst, TypeOK, Ref
  <2>5. CASE EnqueueBehind(t)
    BY <1>3, <2>1, <2>2, <2>5 DEF Enqueue, EnqueueBehind, TypeOK, Ref
  <2> QED BY <1>3, <2>3, <2>4, <2>5 DEF Enqueue
<1>4. ASSUME NEW t \in Thread, Dequeue(t) PROVE TypeOK'
  <2>1. CASE head = NULL /\ ~halted
    BY <1>4, <2>1 DEF Dequeue, Wait, TypeOK, ptrs, Call, Blocking
  <2>2. CASE ~(head = NULL /\ ~halted)
    BY <1>4, <2>2, ListTypes DEF Dequeue, TypeOK, WokenByEmpty, Waiting
  <2> QED BY <2>1, <2>2
<1>5. ASSUME NEW t \in Thread, DequeueResume(t) PROVE TypeOK'
  BY <1>5, ListTypes DEF DequeueResume, TypeOK, WokenByEmpty, Waiting, Call
<1>6. ASSUME NEW t \in Thread, Release(t) PROVE TypeOK'
  <2>1. woken' \subseteq Thread
    BY <1>6, SignalType DEF Release, TypeOK
  <2> QED BY <1>6, <2>1 DEF Release, TypeOK, Ref
<1>7. ASSUME NEW t \in Thread, WaitFull(t) \/ WaitFullResume(t) PROVE TypeOK'
  BY <1>7 DEF WaitFull, WaitFullResume, Wait, TypeOK, ptrs, Call, Blocking
<1>8. ASSUME NEW t \in Thread, WaitNext(t) \/ WaitNextResume(t) PROVE TypeOK'
  BY <1>8 DEF WaitNext, WaitNextResume, Wait, TypeOK, ptrs, Call, Blocking
<1>9. ASSUME NEW t \in Thread, HaltBegin(t) PROVE TypeOK'
  BY <1>9 DEF HaltBegin, TypeOK, ptrs, Call
<1>10. ASSUME NEW t \in Thread, HaltDrain(t) PROVE TypeOK'
  BY <1>10 DEF HaltDrain, TypeOK, Ref
<1>11. ASSUME NEW t \in Thread, HaltEnd(t) PROVE TypeOK'
  BY <1>11 DEF HaltEnd, TypeOK, Ref, Call
<1>12. ASSUME Retire PROVE TypeOK'
  BY <1>12 DEF Retire, Destroy, TypeOK, Ref
<1>13. ASSUME NEW t \in Thread, SpuriousWakeup(t) PROVE TypeOK'
  BY <1>13 DEF SpuriousWakeup, TypeOK, ptrs
<1>14. CASE UNCHANGED fifoVars
  BY <1>14 DEF fifoVars, TypeOK
<1> QED
  BY <1>1, <1>2, <1>3, <1>4, <1>5, <1>6, <1>7, <1>8, <1>9, <1>10, <1>11, <1>12, <1>13, <1>14
  DEF Next, GpsStep, SdrStep, MainCalls, MainReturns, Stopped

LEMMA TypeInit == Init => TypeOK
<1>1. 0 \in 0..Blocks
  BY Constants
<1>2. Buf \subseteq Ref /\ NULL \in Ref /\ "out" \in Call
  BY DEF Ref, Call
<1> QED BY <1>1, <1>2 DEF Init, TypeOK

(* Type correctness: every variable of fifo.c keeps its type. *)
THEOREM TypeCorrect == Spec => []TypeOK
BY TypeInit, TypeStep, PTL DEF Spec

-----------------------------------------------------------------------------
(* Exclusive ownership.  First the references: each operation moves one of  *)
(* them, and overwrites a next pointer only with a reference that it takes  *)
(* away elsewhere.                                                          *)

RefVars == <<head, freelist, nxt, held>>

LEMMA PopFreeRefs ==
    ASSUME TypeOK, SoleReference, NEW t \in Thread,
           freelist # NULL, held[t] = NULL, PopFree(t)
    PROVE  SoleReference'
<1> USE Constants
<1>1. freelist \in Buf /\ nxt[freelist] \in Ref
  BY DEF TypeOK, Ref
<1>2. \A a \in Buf : nxt'[a] = IF a = freelist THEN NULL ELSE nxt[a]
  BY <1>1 DEF PopFree, TypeOK
<1>3. \A u \in Thread : held'[u] = IF u = t THEN freelist ELSE held[u]
  BY DEF PopFree, TypeOK
<1>4. head' = head /\ freelist' = nxt[freelist]
  BY DEF PopFree
<1>5. NextInjective'
  BY <1>2 DEF SoleReference, NextInjective
<1>6. RootsUnlinked'
  BY <1>1, <1>2, <1>3, <1>4 DEF SoleReference, NextInjective, RootsUnlinked
<1>7. RootsDistinct'
  BY <1>1, <1>2, <1>3, <1>4 DEF SoleReference, RootsUnlinked, RootsDistinct
<1> QED BY <1>5, <1>6, <1>7 DEF SoleReference

LEMMA PopHeadRefs ==
    ASSUME TypeOK, SoleReference, NEW t \in Thread,
           head # NULL, held[t] = NULL, PopHead(t)
    PROVE  SoleReference'
<1> USE Constants
<1>1. head \in Buf /\ nxt[head] \in Ref
  BY DEF TypeOK, Ref
<1>2. \A a \in Buf : nxt'[a] = IF a = head THEN NULL ELSE nxt[a]
  BY <1>1 DEF PopHead, TypeOK
<1>3. \A u \in Thread : held'[u] = IF u = t THEN head ELSE held[u]
  BY DEF PopHead, TypeOK
<1>4. head' = nxt[head] /\ freelist' = freelist
  BY DEF PopHead
<1>5. NextInjective'
  BY <1>2 DEF SoleReference, NextInjective
<1>6. RootsUnlinked'
  BY <1>1, <1>2, <1>3, <1>4 DEF SoleReference, NextInjective, RootsUnlinked
<1>7. RootsDistinct'
  BY <1>1, <1>2, <1>3, <1>4 DEF SoleReference, RootsUnlinked, RootsDistinct
<1> QED BY <1>5, <1>6, <1>7 DEF SoleReference

(* The block handed on goes to the front of the freelist. *)
LEMMA PushFreeRefs ==
    ASSUME TypeOK, SoleReference, NEW t \in Thread, held[t] # NULL,
           head' = head, freelist' = held[t],
           nxt' = [nxt EXCEPT ![held[t]] = freelist],
           held' = [held EXCEPT ![t] = NULL]
    PROVE  SoleReference'
<1> USE Constants
<1>1. held[t] \in Buf
  BY DEF TypeOK, Ref
<1>2. \A a \in Buf : nxt'[a] = IF a = held[t] THEN freelist ELSE nxt[a]
  BY <1>1 DEF TypeOK
<1>3. \A u \in Thread : held'[u] = IF u = t THEN NULL ELSE held[u]
  BY DEF TypeOK
<1>5. NextInjective'
  BY <1>2 DEF SoleReference, NextInjective, RootsUnlinked
<1>6. RootsUnlinked'
  BY <1>1, <1>2, <1>3 DEF SoleReference, RootsUnlinked, RootsDistinct
<1>7. RootsDistinct'
  BY <1>1, <1>2, <1>3 DEF SoleReference, RootsUnlinked, RootsDistinct
<1> QED BY <1>5, <1>6, <1>7 DEF SoleReference

LEMMA EnqueueRefs ==
    ASSUME TypeOK, SoleReference, NEW t \in Thread, Enqueue(t)
    PROVE  SoleReference'
<1> USE Constants
<1>1. held[t] # NULL /\ held[t] \in Buf /\ held' = [held EXCEPT ![t] = NULL]
  BY DEF Enqueue, TypeOK, Ref
<1>2. \A u \in Thread : held'[u] = IF u = t THEN NULL ELSE held[u]
  BY <1>1 DEF TypeOK
<1>3. CASE EnqueueHalted(t)
  BY <1>1, <1>3, PushFreeRefs DEF EnqueueHalted
<1>4. CASE EnqueueFirst(t)
  <2>1. \A a \in Buf : nxt'[a] = IF a = held[t] THEN NULL ELSE nxt[a]
    BY <1>1, <1>4 DEF EnqueueFirst, TypeOK
  <2>2. head' = held[t] /\ freelist' = freelist
    BY <1>4 DEF EnqueueFirst
  <2>3. NextInjective'
    BY <2>1 DEF SoleReference, NextInjective
  <2>4. RootsUnlinked'
    BY <1>1, <1>2, <2>1, <2>2 DEF SoleReference, RootsUnlinked
  <2>5. RootsDistinct'
    BY <1>1, <1>2, <2>1, <2>2 DEF SoleReference, RootsDistinct
  <2> QED BY <2>3, <2>4, <2>5 DEF SoleReference
<1>5. CASE EnqueueBehind(t)
  <2>1. head' = head /\ freelist' = freelist
    BY <1>5 DEF EnqueueBehind
  <2>2. \A a \in Buf : \/ nxt'[a] = nxt[a] \/ nxt'[a] = NULL
                       \/ a = tail /\ nxt'[a] = held[t]
    BY <1>1, <1>5 DEF EnqueueBehind, TypeOK, Ref
  <2>3. NextInjective'
    BY <1>1, <2>2 DEF SoleReference, NextInjective, RootsUnlinked
  <2>4. RootsUnlinked'
    BY <1>1, <1>2, <2>1, <2>2 DEF SoleReference, RootsUnlinked, RootsDistinct
  <2>5. RootsDistinct'
    BY <1>1, <1>2, <2>1 DEF SoleReference, RootsDistinct
  <2> QED BY <2>3, <2>4, <2>5 DEF SoleReference
<1> QED BY <1>3, <1>4, <1>5 DEF Enqueue

LEMMA HaltDrainRefs ==
    ASSUME TypeOK, SoleReference, NEW t \in Thread, HaltDrain(t)
    PROVE  SoleReference'
<1> USE Constants
<1>1. head \in Buf /\ nxt[head] \in Ref
  BY DEF HaltDrain, TypeOK, Ref
<1>2. \A a \in Buf : nxt'[a] = IF a = head THEN freelist ELSE nxt[a]
  BY <1>1 DEF HaltDrain, TypeOK
<1>3. head' = nxt[head] /\ freelist' = head /\ held' = held
  BY DEF HaltDrain
<1>4. NextInjective'
  BY <1>2 DEF SoleReference, NextInjective, RootsUnlinked
<1>5. RootsUnlinked'
  BY <1>1, <1>2, <1>3 DEF SoleReference, NextInjective, RootsUnlinked, RootsDistinct
<1>6. RootsDistinct'
  BY <1>1, <1>2, <1>3 DEF SoleReference, RootsUnlinked, RootsDistinct
<1> QED BY <1>4, <1>5, <1>6 DEF SoleReference

LEMMA SameRefs ==
    ASSUME SoleReference, UNCHANGED RefVars
    PROVE  SoleReference'
BY DEF RefVars, SoleReference, NextInjective, RootsUnlinked, RootsDistinct

(* In fifo_acquire and fifo_dequeue the caller holds no block. *)
LEMMA SoleReferenceStep ==
    TypeOK /\ Roles /\ SoleReference /\ [Next]_fifoVars => SoleReference'
<1> SUFFICES ASSUME TypeOK, Roles, SoleReference, [Next]_fifoVars PROVE SoleReference'
  OBVIOUS
<1> USE Constants
<1>1. ASSUME NEW t \in Thread, held[t] = NULL, AcquireResult(t) PROVE SoleReference'
  BY <1>1, PopFreeRefs, SameRefs DEF AcquireResult, Crash, RefVars, ptrs
<1>2. ASSUME NEW t \in Thread, held[t] = NULL, DequeueResult(t) PROVE SoleReference'
  BY <1>2, PopHeadRefs, SameRefs DEF DequeueResult, Crash, RefVars, ptrs
<1>3. ASSUME NEW t \in Thread, Acquire(t) \/ AcquireResume(t) PROVE SoleReference'
  <2>1. held[t] = NULL
    BY <1>3 DEF Acquire, AcquireResume, Roles
  <2> QED BY <1>1, <1>3, <2>1, SameRefs DEF Acquire, AcquireResume, RefVars, ptrs
<1>4. ASSUME NEW t \in Thread, Dequeue(t) \/ DequeueResume(t) PROVE SoleReference'
  <2>1. held[t] = NULL
    BY <1>4 DEF Dequeue, DequeueResume, Roles
  <2> QED BY <1>2, <1>4, <2>1, SameRefs DEF Dequeue, DequeueResume, RefVars, ptrs
<1>5. ASSUME NEW t \in Thread, Release(t) PROVE SoleReference'
  BY <1>5, PushFreeRefs DEF Release
<1>6. ASSUME Retire PROVE SoleReference'
  BY <1>6 DEF Retire, Destroy, SoleReference, NextInjective, RootsUnlinked, RootsDistinct
<1>7. ASSUME NEW t \in Thread,
             \/ WaitFull(t) \/ WaitFullResume(t) \/ WaitNext(t) \/ WaitNextResume(t)
             \/ HaltBegin(t) \/ HaltEnd(t) \/ SpuriousWakeup(t)
      PROVE SoleReference'
  BY <1>7, SameRefs DEF WaitFull, WaitFullResume, WaitNext, WaitNextResume,
     HaltBegin, HaltEnd, SpuriousWakeup, RefVars, ptrs
<1>8. CASE UNCHANGED fifoVars
  BY <1>8, SameRefs DEF fifoVars, RefVars
<1> QED
  BY <1>3, <1>4, <1>5, <1>6, <1>7, <1>8, EnqueueRefs, HaltDrainRefs
  DEF Next, GpsStep, SdrStep, MainCalls, MainReturns, Stopped

(* A list follows the next pointers. *)
LEMMA ChainClosed ==
    ASSUME TypeOK, NEW p \in Buf, NEW x \in Chain(p), nxt[x] # NULL
    PROVE  nxt[x] \in Chain(p)
<1> USE Constants
<1>1. p # NULL
  OBVIOUS
<1>2. \A T \in SUBSET Buf : p \in T /\ Closed(T) => nxt[x] \in T
  BY <1>1 DEF Chain, Closed
<1>3. nxt[x] \in Buf
  BY <1>1 DEF Chain, TypeOK, Ref
<1> QED BY <1>1, <1>2, <1>3 DEF Chain

(* From references to lists: if two roots are referenced from nowhere else  *)
(* and every block has at most one predecessor, the lists are disjoint.     *)
(* Removing a block without predecessor in the list from a list's least     *)
(* closed set leaves a closed set, so the least set cannot contain it.      *)
LEMMA NoForeignMember ==
    ASSUME TypeOK, NEW p \in Buf, NEW y \in Chain(p), y # p,
           \A z \in Chain(p) : nxt[z] # y
    PROVE  FALSE
<1> USE Constants
<1> DEFINE S == Chain(p) \ {y}
<1>1. p # NULL
  OBVIOUS
<1>2. p \in S
  BY <1>1 DEF Chain
<1>3. \A x \in Chain(p) : nxt[x] # NULL => nxt[x] \in Chain(p)
  BY ChainClosed
<1>4. Closed(S)
  BY <1>3 DEF Closed
<1>5. S \in SUBSET Buf
  BY <1>1 DEF Chain
<1>6. y \in S
  BY <1>1, <1>2, <1>4, <1>5 DEF Chain
<1> QED BY <1>6

(* A root without predecessors is on no list but its own. *)
LEMMA RootNotOnList ==
    ASSUME TypeOK, SoleReference, NEW p \in Buf, NEW r \in Buf, p # r,
           \A a \in Buf : nxt[a] # r
    PROVE  r \notin Chain(p)
<1>1. Chain(p) \subseteq Buf
  BY Constants DEF Chain
<1> QED BY <1>1, NoForeignMember

LEMMA ListsDisjoint ==
    ASSUME TypeOK, SoleReference, NEW p \in Buf, NEW q \in Buf, p # q,
           \A a \in Buf : nxt[a] # p /\ nxt[a] # q
    PROVE  Chain(p) \cap Chain(q) = {}
<1> USE Constants
<1> DEFINE S == Chain(p) \ Chain(q)
<1>1. p # NULL /\ Chain(p) \subseteq Buf /\ Chain(q) \subseteq Buf
  BY DEF Chain
<1>2. p \in S
  <2>1. p \in Chain(p)
    BY <1>1 DEF Chain
  <2> QED BY <2>1, RootNotOnList
<1>3. Closed(S)
  <2> SUFFICES ASSUME NEW x \in S, nxt[x] # NULL PROVE nxt[x] \in S
    BY DEF Closed
  <2>1. nxt[x] \in Chain(p)
    BY ChainClosed
  <2>2. ASSUME nxt[x] \in Chain(q) PROVE FALSE
    <3>1. nxt[x] # q
      BY <1>1
    <3>2. \A z \in Chain(q) : nxt[z] # nxt[x]
      BY <1>1 DEF SoleReference, NextInjective
    <3> QED BY <2>2, <3>1, <3>2, NoForeignMember
  <2> QED BY <2>1, <2>2
<1>4. \A b \in Chain(p) : b \in S
  BY <1>1, <1>2, <1>3 DEF Chain
<1> QED BY <1>4

LEMMA SoleReferenceOwns == TypeOK /\ SoleReference => ExclusiveOwnership
<1> SUFFICES ASSUME TypeOK, SoleReference PROVE ExclusiveOwnership
  OBVIOUS
<1> USE Constants
<1>1. head \in Ref /\ freelist \in Ref /\ \A t \in Thread : held[t] \in Ref
  BY DEF TypeOK
<1>2. Chain(NULL) = {}
  BY DEF Chain
<1>3. Chain(head) \cap Chain(freelist) = {}
  BY <1>1, <1>2, ListsDisjoint DEF Ref, SoleReference, RootsUnlinked, RootsDistinct
<1>4. ASSUME NEW t \in Thread, NEW p \in {head, freelist} PROVE held[t] \notin Chain(p)
  <2>1. Chain(p) \subseteq Buf
    BY DEF Chain
  <2>2. CASE p = NULL \/ held[t] = NULL
    BY <1>2, <2>1, <2>2
  <2>3. CASE p # NULL /\ held[t] # NULL
    <3>1. p \in Buf /\ held[t] \in Buf /\ p # held[t]
      BY <1>1, <1>4, <2>3 DEF Ref, SoleReference, RootsDistinct
    <3>2. \A a \in Buf : nxt[a] # held[t]
      BY <2>3 DEF SoleReference, RootsUnlinked
    <3> QED BY <3>1, <3>2, RootNotOnList
  <2> QED BY <2>2, <2>3
<1> QED
  BY <1>3, <1>4 DEF ExclusiveOwnership, SoleReference, RootsDistinct

-----------------------------------------------------------------------------
(* Who is where in the FIFO.                                                *)

LEMMA RolesStep == TypeOK /\ Roles /\ [Next]_fifoVars => Roles'
<1> SUFFICES ASSUME TypeOK, Roles, [Next]_fifoVars PROVE Roles'
  OBVIOUS
<1> USE Constants
<1>1. CASE Acquire(Gps)
  <2>1. CASE ~halted /\ freelist = NULL
    BY <1>1, <2>1 DEF Acquire, Wait, Signal, Waiting, Roles, TypeOK, Blocking
  <2>2. CASE ~(~halted /\ freelist = NULL)
    BY <1>1, <2>2 DEF Acquire, AcquireResult, PopFree, Crash, Roles, TypeOK
  <2> QED BY <2>1, <2>2
<1>2. CASE AcquireResume(Gps)
  BY <1>2 DEF AcquireResume, AcquireResult, PopFree, Crash, Roles, TypeOK
<1>3. CASE Enqueue(Gps)
  BY <1>3 DEF Enqueue, EnqueueHalted, EnqueueFirst, EnqueueBehind, Signal, Waiting,
     Roles, TypeOK, Blocking
<1>4. CASE Dequeue(Sdr)
  <2>1. CASE head = NULL /\ ~halted
    BY <1>4, <2>1 DEF Dequeue, Wait, Roles, TypeOK, Blocking
  <2>2. CASE ~(head = NULL /\ ~halted)
    BY <1>4, <2>2 DEF Dequeue, DequeueResult, PopHead, Crash, WokenByEmpty, Waiting,
       Roles, TypeOK, Blocking
  <2> QED BY <2>1, <2>2
<1>5. CASE DequeueResume(Sdr)
  BY <1>5 DEF DequeueResume, DequeueResult, PopHead, Crash, WokenByEmpty, Waiting,
     Roles, TypeOK, Blocking
<1>6. CASE Release(Sdr)
  BY <1>6 DEF Release, Signal, Waiting, Roles, TypeOK, Blocking
<1>7. CASE MainCalls
  BY <1>7 DEF MainCalls, WaitFull, WaitNext, HaltBegin, Wait, Roles, TypeOK, Blocking
<1>8. CASE MainReturns
  BY <1>8 DEF MainReturns, WaitFullResume, WaitNextResume, HaltDrain, HaltEnd, Roles,
     TypeOK, Blocking
<1>9. CASE Retire
  BY <1>9 DEF Retire, Destroy, Roles
<1>10. ASSUME NEW t \in Thread, SpuriousWakeup(t) PROVE Roles'
  BY <1>10 DEF SpuriousWakeup, Roles
<1>11. CASE UNCHANGED fifoVars
  BY <1>11 DEF fifoVars, Roles
<1> QED
  BY <1>1, <1>2, <1>3, <1>4, <1>5, <1>6, <1>7, <1>8, <1>9, <1>10, <1>11
  DEF Next, GpsStep, SdrStep, Stopped

LEMMA InitRefs == Init => Roles /\ SoleReference
<1> SUFFICES ASSUME Init PROVE Roles /\ SoleReference
  OBVIOUS
<1> USE Constants
<1>1. Roles
  BY DEF Init, Roles
<1>2. SoleReference
  BY DEF Init, IsFreelist, SoleReference, NextInjective, RootsUnlinked, RootsDistinct
<1> QED BY <1>1, <1>2

LEMMA OwnershipStep == OwnershipInv /\ [Next]_fifoVars => OwnershipInv'
BY TypeStep, RolesStep, SoleReferenceStep DEF OwnershipInv

(* A block is never in two places, for any number of blocks, spurious       *)
(* wakeups and the stale tail notwithstanding: no thread writes into a      *)
(* block that another one reads, and fifo_destroy frees no block twice.     *)
THEOREM Ownership == Spec => []ExclusiveOwnership
<1>1. Init => OwnershipInv
  BY TypeInit, InitRefs DEF OwnershipInv
<1>2. OwnershipInv /\ [Next]_fifoVars => OwnershipInv'
  BY OwnershipStep
<1>3. OwnershipInv => ExclusiveOwnership
  BY SoleReferenceOwns DEF OwnershipInv
<1> QED
  BY <1>1, <1>2, <1>3, PTL DEF Spec

-----------------------------------------------------------------------------
(* The producer and the consumer do not sleep on each other.  When the GPS  *)
(* thread goes to sleep there is no free block and it holds none; then one  *)
(* is queued or with the SDR thread, because an enqueue that drops its      *)
(* block leaves another one queued.                                         *)

LEMMA CirculatesStep == TypeOK /\ Roles /\ Circulates /\ [Next]_fifoVars => Circulates'
<1> SUFFICES ASSUME TypeOK, Roles, Circulates, [Next]_fifoVars PROVE Circulates'
  OBVIOUS
<1> USE Constants
<1>1. CASE Acquire(Gps) \/ AcquireResume(Gps)
  BY <1>1 DEF Acquire, AcquireResume, AcquireResult, PopFree, Crash, ptrs, Circulates, TypeOK
<1>2. CASE Enqueue(Gps)
  BY <1>2 DEF Enqueue, EnqueueHalted, EnqueueFirst, EnqueueBehind, Circulates
<1>3. CASE Dequeue(Sdr) \/ DequeueResume(Sdr)
  BY <1>3 DEF Dequeue, DequeueResume, DequeueResult, PopHead, Crash, ptrs, Circulates, TypeOK
<1>4. CASE Release(Sdr)
  BY <1>4 DEF Release, Circulates
<1>5. CASE MainCalls
  BY <1>5 DEF MainCalls, WaitFull, WaitNext, HaltBegin, ptrs, Circulates
<1>6. CASE MainReturns
  BY <1>6 DEF MainReturns, WaitFullResume, WaitNextResume, HaltDrain, HaltEnd, ptrs, Circulates
<1>7. CASE Retire
  BY <1>7 DEF Retire, Destroy, Circulates
<1>8. ASSUME NEW t \in Thread, SpuriousWakeup(t) PROVE Circulates'
  BY <1>8 DEF SpuriousWakeup, ptrs, Circulates
<1>9. CASE UNCHANGED fifoVars
  BY <1>9 DEF fifoVars, Circulates
<1> QED
  BY <1>1, <1>2, <1>3, <1>4, <1>5, <1>6, <1>7, <1>8, <1>9
  DEF Next, GpsStep, SdrStep, Stopped

Sleep == SleepersHaveReason /\ NoStandoff

LEMMA SleepStep ==
    TypeOK /\ Roles /\ Circulates /\ Sleep /\ [Next]_fifoVars => Sleep'
<1> SUFFICES ASSUME TypeOK, Roles, Circulates, Sleep, [Next]_fifoVars PROVE Sleep'
  OBVIOUS
<1> USE Constants DEF Sleep, SleepersHaveReason, NoStandoff, Sleeping, GpsSleeps, SdrSleeps,
        Running, Unlocked
<1>1. CASE Acquire(Gps)
  <2>1. CASE ~halted /\ freelist = NULL
    <3>1. ~SdrSleeps
      BY <1>1, <2>1 DEF Acquire, Usable, Roles, Circulates
    <3>2. Sdr \in woken => Sdr \in woken'
      BY <1>1, <2>1 DEF Acquire, Signal
    <3> QED BY <1>1, <2>1, <3>1, <3>2 DEF Acquire, Wait, TypeOK, ptrs, Usable
  <2>2. CASE ~(~halted /\ freelist = NULL)
    BY <1>1, <2>2 DEF Acquire, AcquireResult, PopFree, Crash, ptrs, Usable
  <2> QED BY <2>1, <2>2
<1>2. CASE AcquireResume(Gps)
  BY <1>2 DEF AcquireResume, AcquireResult, PopFree, Crash, ptrs, Usable, TypeOK
<1>3. CASE Enqueue(Gps)
  <2>1. CASE EnqueueHalted(Gps)
    BY <1>3, <2>1 DEF Enqueue, EnqueueHalted
  <2>2. CASE EnqueueFirst(Gps)
    <3>1. SdrSleeps => Sdr \in woken'
      BY <2>2 DEF EnqueueFirst, Signal, Waiting, Roles
    <3>2. \A t \in Thread : t \in woken => t \in woken'
      BY <2>2 DEF EnqueueFirst, Signal
    <3> QED BY <1>3, <2>2, <3>1, <3>2 DEF Enqueue, EnqueueFirst
  <2>3. CASE EnqueueBehind(Gps)
    BY <1>3, <2>3 DEF Enqueue, EnqueueBehind
  <2> QED BY <1>3, <2>1, <2>2, <2>3 DEF Enqueue
<1>4. CASE Dequeue(Sdr)
  <2>1. CASE head = NULL /\ ~halted
    <3>1. ~GpsSleeps
      BY <1>4, <2>1 DEF Dequeue, Usable, Roles, Circulates
    <3> QED BY <1>4, <2>1, <3>1 DEF Dequeue, Wait, TypeOK, ptrs, Usable
  <2>2. CASE ~(head = NULL /\ ~halted)
    BY <1>4, <2>2 DEF Dequeue, DequeueResult, PopHead, Crash, ptrs, Usable
  <2> QED BY <2>1, <2>2
<1>5. CASE DequeueResume(Sdr)
  BY <1>5 DEF DequeueResume, DequeueResult, PopHead, Crash, ptrs, Usable, TypeOK
<1>6. CASE Release(Sdr)
  <2>1. \A t \in Thread : t \in woken => t \in woken'
    BY <1>6 DEF Release, Signal
  <2>2. freelist = NULL /\ GpsSleeps => Gps \in woken'
    BY <1>6 DEF Release, Signal, Waiting, Roles
  <2> QED BY <1>6, <2>1, <2>2 DEF Release, Usable
<1>7. CASE MainCalls
  BY <1>7 DEF MainCalls, WaitFull, WaitNext, HaltBegin, Wait, ptrs, TypeOK, Usable
<1>8. CASE MainReturns
  BY <1>8 DEF MainReturns, WaitFullResume, WaitNextResume, HaltDrain, HaltEnd, ptrs, TypeOK, Usable
<1>9. CASE Retire
  BY <1>9 DEF Retire, Destroy
<1>10. ASSUME NEW t \in Thread, SpuriousWakeup(t) PROVE Sleep'
  BY <1>10 DEF SpuriousWakeup, ptrs
<1>11. CASE UNCHANGED fifoVars
  BY <1>11 DEF fifoVars
<1> QED
  BY <1>1, <1>2, <1>3, <1>4, <1>5, <1>6, <1>7, <1>8, <1>9, <1>10, <1>11
  DEF Next, GpsStep, SdrStep, Stopped

(* The GPS thread and the SDR thread never sleep on each other while the    *)
(* FIFO runs, with any number of blocks left in circulation.                *)
THEOREM Standoff == Spec => []NoStandoff
<1>1. Init => StandoffInv
  <2> SUFFICES ASSUME Init PROVE Circulates /\ Sleep
    BY TypeInit, InitRefs DEF StandoffInv, Sleep
  <2> QED BY Constants DEF Init, Circulates, Sleep, SleepersHaveReason, NoStandoff,
             Sleeping, GpsSleeps, SdrSleeps
<1>2. StandoffInv /\ [Next]_fifoVars => StandoffInv'
  BY TypeStep, RolesStep, CirculatesStep, SleepStep DEF StandoffInv, Sleep
<1>3. StandoffInv => NoStandoff
  BY DEF StandoffInv
<1> QED
  BY <1>1, <1>2, <1>3, PTL DEF Spec

-----------------------------------------------------------------------------
(* No lost wakeup.                                                          *)

LEMMA EndAwaitedStep == TypeOK /\ Roles /\ EndAwaited /\ [Next]_fifoVars => EndAwaited'
<1> SUFFICES ASSUME TypeOK, Roles, EndAwaited, [Next]_fifoVars PROVE EndAwaited'
  OBVIOUS
<1> USE Constants DEF EndAwaited, Sleeping, Running, Unlocked
<1>1. CASE Acquire(Gps)
  <2>1. CASE ~halted /\ freelist = NULL
    BY <1>1, <2>1 DEF Acquire, Wait, Signal, TypeOK, ptrs, Usable
  <2>2. CASE ~(~halted /\ freelist = NULL)
    BY <1>1, <2>2 DEF Acquire, AcquireResult, PopFree, Crash, ptrs, Usable
  <2> QED BY <2>1, <2>2
<1>2. CASE AcquireResume(Gps)
  BY <1>2 DEF AcquireResume, AcquireResult, PopFree, Crash, ptrs, Usable, TypeOK
<1>3. CASE Enqueue(Gps)
  <2>1. held[Gps] # NULL
    BY <1>3 DEF Enqueue
  <2> QED BY <1>3, <2>1 DEF Enqueue, EnqueueHalted, EnqueueFirst, EnqueueBehind, Signal, Usable
<1>4. CASE Dequeue(Sdr)
  <2>1. CASE head = NULL /\ ~halted
    BY <1>4, <2>1 DEF Dequeue, Wait, TypeOK, ptrs, Usable
  <2>2. CASE ~(head = NULL /\ ~halted)
    BY <1>4, <2>2 DEF Dequeue, DequeueResult, PopHead, Crash, WokenByEmpty, Waiting, ptrs, Usable
  <2> QED BY <2>1, <2>2
<1>5. CASE DequeueResume(Sdr)
  BY <1>5 DEF DequeueResume, DequeueResult, PopHead, Crash, WokenByEmpty, Waiting, ptrs,
     Usable, TypeOK
<1>6. CASE Release(Sdr)
  BY <1>6 DEF Release, Signal, Usable
<1>7. CASE MainCalls
  BY <1>7 DEF MainCalls, WaitFull, WaitNext, HaltBegin, Wait, ptrs, TypeOK, Usable
<1>8. CASE MainReturns
  BY <1>8 DEF MainReturns, WaitFullResume, WaitNextResume, HaltDrain, HaltEnd, ptrs, TypeOK, Usable
<1>9. CASE Retire
  BY <1>9 DEF Retire, Destroy
<1>10. ASSUME NEW t \in Thread, SpuriousWakeup(t) PROVE EndAwaited'
  BY <1>10 DEF SpuriousWakeup, ptrs
<1>11. CASE UNCHANGED fifoVars
  BY <1>11 DEF fifoVars
<1> QED
  BY <1>1, <1>2, <1>3, <1>4, <1>5, <1>6, <1>7, <1>8, <1>9, <1>10, <1>11
  DEF Next, GpsStep, SdrStep, Stopped

(* A halt is for good, and whoever enters the FIFO after it does not wait.  *)
LEMMA AwakeStep == TypeOK /\ Roles /\ AwakeAfterHalt /\ [Next]_fifoVars => AwakeAfterHalt'
<1> SUFFICES ASSUME TypeOK, Roles, AwakeAfterHalt, [Next]_fifoVars PROVE AwakeAfterHalt'
  OBVIOUS
<1> USE Constants DEF AwakeAfterHalt
<1>1. CASE Acquire(Gps)
  BY <1>1 DEF Acquire, Signal
<1>2. CASE AcquireResume(Gps)
  BY <1>2 DEF AcquireResume, TypeOK, Blocking
<1>3. CASE Enqueue(Gps)
  BY <1>3 DEF Enqueue, EnqueueHalted, EnqueueFirst, EnqueueBehind
<1>4. CASE Dequeue(Sdr)
  BY <1>4 DEF Dequeue
<1>5. CASE DequeueResume(Sdr)
  BY <1>5 DEF DequeueResume, TypeOK, Blocking
<1>6. CASE Release(Sdr)
  BY <1>6 DEF Release, Signal
<1>7. CASE MainCalls
  BY <1>7 DEF MainCalls, WaitFull, WaitNext, HaltBegin, TypeOK, Blocking
<1>8. CASE MainReturns
  BY <1>8 DEF MainReturns, WaitFullResume, WaitNextResume, HaltDrain, HaltEnd, TypeOK, Blocking
<1>9. CASE Retire
  BY <1>9 DEF Retire, Destroy
<1>10. ASSUME NEW t \in Thread, SpuriousWakeup(t) PROVE AwakeAfterHalt'
  BY <1>10 DEF SpuriousWakeup
<1>11. CASE UNCHANGED fifoVars
  BY <1>11 DEF fifoVars
<1> QED
  BY <1>1, <1>2, <1>3, <1>4, <1>5, <1>6, <1>7, <1>8, <1>9, <1>10, <1>11
  DEF Next, GpsStep, SdrStep, Stopped

LEMMA WakeupStep == WakeupInv /\ [Next]_fifoVars => WakeupInv'
<1> SUFFICES ASSUME WakeupInv, [Next]_fifoVars PROVE WakeupInv'
  OBVIOUS
<1>1. TypeOK /\ Roles /\ Circulates /\ Sleep
  BY DEF WakeupInv, StandoffInv, Sleep
<1>2. TypeOK' /\ Roles' /\ Circulates' /\ Sleep'
  BY <1>1, TypeStep, RolesStep, CirculatesStep, SleepStep
<1>3. EndAwaited' /\ AwakeAfterHalt'
  BY <1>1, EndAwaitedStep, AwakeStep DEF WakeupInv, NoLostWakeup
<1> QED
  BY <1>2, <1>3 DEF WakeupInv, StandoffInv, NoLostWakeup, Sleep

(* No wakeup is lost, for any number of blocks and with spurious wakeups:   *)
(* a sleeper's reason lasts as long as its sleep, and after fifo_halt       *)
(* nobody sleeps.  What HaltReleasesAll, StreamDrains and WaitNextReturns   *)
(* need besides is only that threads which can run do run.                  *)
THEOREM Wakeups == Spec => []NoLostWakeup
<1>1. Init => WakeupInv
  <2> SUFFICES ASSUME Init PROVE Circulates /\ Sleep /\ NoLostWakeup
    BY TypeInit, InitRefs DEF WakeupInv, StandoffInv, Sleep
  <2> QED BY Constants DEF Init, Circulates, Sleep, SleepersHaveReason, NoStandoff, NoLostWakeup,
             EndAwaited, AwakeAfterHalt, Sleeping, GpsSleeps, SdrSleeps, Blocking
<1>2. WakeupInv => NoLostWakeup
  BY DEF WakeupInv
<1> QED
  BY <1>1, <1>2, WakeupStep, PTL DEF Spec

-----------------------------------------------------------------------------
(* No null block, as long as waits return only when signalled.              *)

Woken == WokenHaveReason /\ TailSet /\ NoNullBlock

LEMMA WokenStep ==
    ASSUME Spurious = FALSE
    PROVE  TypeOK /\ Roles /\ Sleep /\ Woken /\ [Next]_fifoVars => Woken'
<1> SUFFICES ASSUME TypeOK, Roles, Sleep, Woken, [Next]_fifoVars PROVE Woken'
  OBVIOUS
<1> USE Constants DEF Woken, WokenHaveReason, TailSet, NoNullBlock, Running, Unlocked
<1>1. CASE Acquire(Gps)
  <2>1. CASE ~halted /\ freelist = NULL
    <3>1. Gps \notin woken'
      BY <1>1, <2>1 DEF Acquire, Signal, Waiting, Roles, Blocking
    <3>2. Sdr \in woken' => Sdr \in woken
      BY <1>1, <2>1 DEF Acquire, Signal, Waiting, Roles
    <3> QED BY <1>1, <2>1, <3>1, <3>2 DEF Acquire, Wait, TypeOK, ptrs, Usable
  <2>2. CASE ~(~halted /\ freelist = NULL)
    BY <1>1, <2>2 DEF Acquire, AcquireResult, PopFree, ptrs, Usable
  <2> QED BY <2>1, <2>2
<1>2. CASE AcquireResume(Gps)
  BY <1>2 DEF AcquireResume, AcquireResult, PopFree, Usable, TypeOK, ptrs
<1>3. CASE Enqueue(Gps)
  <2>1. CASE EnqueueHalted(Gps)
    BY <1>3, <2>1 DEF Enqueue, EnqueueHalted
  <2>2. CASE EnqueueFirst(Gps)
    BY <1>3, <2>2 DEF Enqueue, EnqueueFirst
  <2>3. CASE EnqueueBehind(Gps)
    BY <1>3, <2>3 DEF Enqueue, EnqueueBehind
  <2> QED BY <1>3, <2>1, <2>2, <2>3 DEF Enqueue
<1>4. CASE Dequeue(Sdr)
  <2>1. CASE head = NULL /\ ~halted
    BY <1>4, <2>1 DEF Dequeue, Wait, Roles, Blocking, TypeOK, ptrs, Usable
  <2>2. CASE ~(head = NULL /\ ~halted)
    <3>1. \A t \in {Gps, Sdr} : t \in woken' => t \in woken
      BY <1>4, <2>2 DEF Dequeue, WokenByEmpty, Waiting, Roles
    <3> QED BY <1>4, <2>2, <3>1 DEF Dequeue, DequeueResult, PopHead, ptrs, Usable
  <2> QED BY <2>1, <2>2
<1>5. CASE DequeueResume(Sdr)
  <2>1. \A t \in {Gps, Sdr} : t \in woken' => t \in woken
    BY <1>5 DEF DequeueResume, WokenByEmpty, Waiting, Roles
  <2> QED BY <1>5, <2>1 DEF DequeueResume, DequeueResult, PopHead, ptrs, Usable, TypeOK
<1>6. CASE Release(Sdr)
  <2>1. Sdr \in woken' => Sdr \in woken
    BY <1>6 DEF Release, Signal, Waiting, Roles
  <2> QED BY <1>6, <2>1 DEF Release, Usable
<1>7. CASE MainCalls
  BY <1>7 DEF MainCalls, WaitFull, WaitNext, HaltBegin, Wait, ptrs, TypeOK, Usable
<1>8. CASE MainReturns
  BY <1>8 DEF MainReturns, WaitFullResume, WaitNextResume, HaltDrain, HaltEnd, ptrs, TypeOK, Usable, Roles
<1>9. CASE Retire
  BY <1>9 DEF Retire, Destroy
<1>10. ASSUME NEW t \in Thread, SpuriousWakeup(t) PROVE Woken'
  BY <1>10 DEF SpuriousWakeup
<1>11. CASE UNCHANGED fifoVars
  BY <1>11 DEF fifoVars
<1> QED
  BY <1>1, <1>2, <1>3, <1>4, <1>5, <1>6, <1>7, <1>8, <1>9, <1>10, <1>11
  DEF Next, GpsStep, SdrStep, Stopped

(* Without spurious wakeups no call of the FIFO dereferences a null block,  *)
(* although fifo_acquire and fifo_dequeue test their condition only once.   *)
THEOREM NullFree == ASSUME Spurious = FALSE PROVE Spec => []NoNullBlock
<1>1. Init => WokenInv
  <2> SUFFICES ASSUME Init PROVE Circulates /\ Sleep /\ Woken
    BY TypeInit, InitRefs DEF WokenInv, StandoffInv, Woken, Sleep, NoNullBlock
  <2> QED BY Constants DEF Init, Circulates, Sleep, SleepersHaveReason, NoStandoff,
             Sleeping, GpsSleeps, SdrSleeps, Woken, WokenHaveReason, TailSet, NoNullBlock
<1>2. WokenInv /\ [Next]_fifoVars => WokenInv'
  BY TypeStep, RolesStep, CirculatesStep, SleepStep, WokenStep
  DEF WokenInv, StandoffInv, Woken, Sleep, NoNullBlock
<1>3. WokenInv => NoNullBlock
  BY DEF WokenInv, NoNullBlock
<1> QED
  BY <1>1, <1>2, <1>3, PTL DEF Spec

-----------------------------------------------------------------------------
(* Order.  The queue is at most two blocks long, so its numbers ascend when *)
(* the second is younger than the first.                                    *)

LEMMA QueueShapeStep == OwnershipInv /\ QueueShape /\ [Next]_fifoVars => QueueShape'
<1> SUFFICES ASSUME TypeOK, Roles, SoleReference, QueueShape, [Next]_fifoVars
             PROVE  QueueShape'
  BY DEF OwnershipInv
<1> USE Constants DEF QueueShape
<1>1. ASSUME PopFree(Gps), held[Gps] = NULL, freelist # NULL PROVE QueueShape'
  BY <1>1 DEF PopFree, TypeOK, Ref, SoleReference, RootsUnlinked, RootsDistinct
<1>2. ASSUME PopHead(Sdr), head # NULL PROVE QueueShape'
  BY <1>2 DEF PopHead, TypeOK, Ref, SoleReference, RootsUnlinked
<1>3. CASE Acquire(Gps) \/ AcquireResume(Gps)
  BY <1>1, <1>3 DEF Acquire, AcquireResume, AcquireResult, Crash, ptrs, Roles
<1>4. CASE Enqueue(Gps)
  <2>1. held[Gps] \in Buf /\ held[Gps] # head
    BY <1>4 DEF Enqueue, TypeOK, Ref, SoleReference, RootsDistinct
  <2>2. CASE EnqueueHalted(Gps)
    BY <2>1, <2>2 DEF EnqueueHalted, TypeOK, Ref, SoleReference, RootsUnlinked
  <2>3. CASE EnqueueFirst(Gps)
    BY <2>1, <2>3 DEF EnqueueFirst, TypeOK
  <2>4. CASE EnqueueBehind(Gps)
    BY <2>1, <2>4 DEF EnqueueBehind, TypeOK, Ref, SoleReference, RootsUnlinked
  <2> QED BY <1>4, <2>2, <2>3, <2>4 DEF Enqueue
<1>5. CASE Dequeue(Sdr) \/ DequeueResume(Sdr)
  BY <1>2, <1>5 DEF Dequeue, DequeueResume, DequeueResult, Crash, ptrs
<1>6. CASE Release(Sdr)
  <2>1. held[Sdr] \in Buf /\ held[Sdr] # head
    BY <1>6 DEF Release, TypeOK, Ref, SoleReference, RootsDistinct
  <2> QED BY <1>6, <2>1 DEF Release, TypeOK, Ref, SoleReference, RootsUnlinked
<1>7. CASE MainCalls
  BY <1>7 DEF MainCalls, WaitFull, WaitNext, HaltBegin, ptrs
<1>8. CASE WaitFullResume(Main) \/ WaitNextResume(Main) \/ HaltEnd(Main)
  BY <1>8 DEF WaitFullResume, WaitNextResume, HaltEnd, ptrs
<1>9. CASE HaltDrain(Main)
  BY <1>9 DEF HaltDrain, TypeOK, Ref, SoleReference, RootsUnlinked
<1>10. CASE Retire
  BY <1>10 DEF Retire, Destroy
<1>11. ASSUME NEW t \in Thread, SpuriousWakeup(t) PROVE QueueShape'
  BY <1>11 DEF SpuriousWakeup, ptrs
<1>12. CASE UNCHANGED fifoVars
  BY <1>12 DEF fifoVars
<1> QED
  BY <1>3, <1>4, <1>5, <1>6, <1>7, <1>8, <1>9, <1>10, <1>11, <1>12
  DEF Next, GpsStep, SdrStep, MainReturns, Stopped

LEMMA QueueAscendsStep ==
    OwnershipInv /\ QueueShape /\ QueueAscends /\ [Next]_fifoVars => QueueAscends'
<1> SUFFICES ASSUME TypeOK, Roles, SoleReference, QueueShape, QueueAscends, [Next]_fifoVars
             PROVE  QueueAscends'
  BY DEF OwnershipInv
<1> USE Constants DEF QueueAscends
<1>1. ASSUME PopFree(Gps), UNCHANGED sent, freelist # NULL PROVE QueueAscends'
  BY <1>1 DEF PopFree, TypeOK, Ref, SoleReference, RootsUnlinked, RootsDistinct
<1>2. ASSUME PopHead(Sdr), UNCHANGED sent, head # NULL PROVE QueueAscends'
  BY <1>2 DEF PopHead, TypeOK, Ref, SoleReference, RootsUnlinked, QueueShape
<1>3. CASE Acquire(Gps) \/ AcquireResume(Gps)
  BY <1>1, <1>3 DEF Acquire, AcquireResume, AcquireResult, Crash, ptrs
<1>4. CASE Enqueue(Gps)
  <2>1. held[Gps] \in Buf /\ held[Gps] # head
    BY <1>4 DEF Enqueue, TypeOK, Ref, SoleReference, RootsDistinct
  <2>2. /\ sent \in Nat /\ taken \in Nat /\ \A b \in Buf : payload[b] \in Nat
        /\ sent' = sent + 1 /\ taken' = taken
        /\ \A b \in Buf : payload'[b] = IF b = held[Gps] THEN sent + 1 ELSE payload[b]
    BY <1>4 DEF Enqueue, TypeOK
  <2>3. taken' <= sent' /\ \A b \in Buf : payload'[b] <= sent'
    BY <2>2
  <2>4. CASE EnqueueHalted(Gps)
    BY <2>1, <2>2, <2>3, <2>4 DEF EnqueueHalted, TypeOK, Ref, SoleReference, RootsUnlinked
  <2>5. CASE EnqueueFirst(Gps)
    BY <2>1, <2>2, <2>3, <2>5 DEF EnqueueFirst, TypeOK
  <2>6. CASE EnqueueBehind(Gps)
    BY <2>1, <2>2, <2>3, <2>6 DEF EnqueueBehind, TypeOK, Ref, SoleReference, RootsUnlinked,
       QueueShape
  <2> QED BY <1>4, <2>4, <2>5, <2>6 DEF Enqueue
<1>5. CASE Dequeue(Sdr) \/ DequeueResume(Sdr)
  BY <1>2, <1>5 DEF Dequeue, DequeueResume, DequeueResult, Crash, ptrs
<1>6. CASE Release(Sdr)
  <2>1. held[Sdr] \in Buf /\ held[Sdr] # head
    BY <1>6 DEF Release, TypeOK, Ref, SoleReference, RootsDistinct
  <2> QED BY <1>6, <2>1 DEF Release, TypeOK, Ref, SoleReference, RootsUnlinked
<1>7. CASE MainCalls
  BY <1>7 DEF MainCalls, WaitFull, WaitNext, HaltBegin, ptrs
<1>8. CASE WaitFullResume(Main) \/ WaitNextResume(Main) \/ HaltEnd(Main)
  BY <1>8 DEF WaitFullResume, WaitNextResume, HaltEnd, ptrs
<1>9. CASE HaltDrain(Main)
  BY <1>9 DEF HaltDrain, TypeOK, Ref, SoleReference, RootsUnlinked, QueueShape
<1>10. CASE Retire
  BY <1>10 DEF Retire, Destroy
<1>11. ASSUME NEW t \in Thread, SpuriousWakeup(t) PROVE QueueAscends'
  BY <1>11 DEF SpuriousWakeup, ptrs
<1>12. CASE UNCHANGED fifoVars
  BY <1>12 DEF fifoVars
<1> QED
  BY <1>3, <1>4, <1>5, <1>6, <1>7, <1>8, <1>9, <1>10, <1>11, <1>12
  DEF Next, GpsStep, SdrStep, MainReturns, Stopped

(* A dequeue takes a younger block than the one before it. *)
LEMMA DequeueAscends ==
    TypeOK /\ QueueAscends /\ [Next]_fifoVars => (taken' # taken => taken' > taken)
<1> SUFFICES ASSUME TypeOK, QueueAscends, [Next]_fifoVars, taken' # taken
             PROVE  taken' > taken
  OBVIOUS
<1>1. CASE Dequeue(Sdr) \/ DequeueResume(Sdr)
  BY <1>1 DEF Dequeue, DequeueResume, DequeueResult, PopHead, Crash, QueueAscends
<1>2. CASE GpsStep
  BY <1>2 DEF GpsStep, Acquire, AcquireResume, AcquireResult, PopFree, Crash, Enqueue
<1>3. CASE Release(Sdr) \/ MainCalls \/ MainReturns
  BY <1>3 DEF Release, MainCalls, WaitFull, WaitNext, HaltBegin, MainReturns, WaitFullResume,
     WaitNextResume, HaltDrain, HaltEnd
<1>4. CASE Retire \/ (\E t \in Thread : SpuriousWakeup(t)) \/ UNCHANGED fifoVars
  BY <1>4 DEF Retire, Destroy, SpuriousWakeup, fifoVars
<1> QED
  BY <1>1, <1>2, <1>3, <1>4 DEF Next, SdrStep, Stopped

(* Blocks are transmitted in the order in which they were generated and     *)
(* none twice, for any number of blocks.                                    *)
THEOREM Order == Spec => InOrder
<1>1. Init => OrderInv
  <2> SUFFICES ASSUME Init PROVE QueueShape /\ QueueAscends
    BY TypeInit, InitRefs DEF OrderInv, OwnershipInv
  <2> QED BY DEF Init, QueueShape, QueueAscends
<1>2. OrderInv /\ [Next]_fifoVars => OrderInv'
  BY OwnershipStep, QueueShapeStep, QueueAscendsStep DEF OrderInv
<1>3. OrderInv /\ [Next]_fifoVars => [taken' # taken => taken' > taken]_fifoVars
  BY DequeueAscends DEF OrderInv, OwnershipInv
<1> QED
  BY <1>1, <1>2, <1>3, PTL DEF Spec, InOrder

=============================================================================
