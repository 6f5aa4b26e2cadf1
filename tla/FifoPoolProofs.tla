--------------------------- MODULE FifoPoolProofs ---------------------------
(* The pointer-level FIFO implements the block pool, for any number of      *)
(* blocks: proof of RefinesPool.                                            *)
EXTENDS FifoPool, FifoProofs

-----------------------------------------------------------------------------
(* Lists.  Reach(f, p) is the list that starts at p when the next pointers  *)
(* are f; the lemmas say what an operation on f does to it.                 *)

Follows(f, S) == \A x \in S : f[x] # NULL => f[x] \in S
Reach(f, p) == IF p = NULL THEN {}
               ELSE {b \in Buf : \A S \in SUBSET Buf : p \in S /\ Follows(f, S) => b \in S}

LEMMA ChainReach == \A p : Chain(p) = Reach(nxt, p) /\ Chain(p)' = Reach(nxt', p)
BY DEF Chain, Closed, Reach, Follows

LEMMA ReachNull == ASSUME NEW f PROVE Reach(f, NULL) = {}
BY DEF Reach

LEMMA ReachInBuf == ASSUME NEW f, NEW p PROVE Reach(f, p) \subseteq Buf
BY DEF Reach

(* The list is the least set that has p and follows the pointers.           *)
LEMMA ReachLeast ==
    ASSUME NEW f, NEW p \in Buf, NEW S \in SUBSET Buf, p \in S, Follows(f, S)
    PROVE  Reach(f, p) \subseteq S
BY Constants DEF Reach

LEMMA ReachFollows ==
    ASSUME NEW f \in [Buf -> Ref], NEW p \in Buf
    PROVE  p \in Reach(f, p) /\ Follows(f, Reach(f, p))
<1> USE Constants
<1>1. p # NULL /\ p \in Reach(f, p)
  BY DEF Reach
<1> SUFFICES ASSUME NEW x \in Reach(f, p), f[x] # NULL PROVE f[x] \in Reach(f, p)
  BY <1>1 DEF Follows
<1>2. x \in Buf /\ f[x] \in Buf
  BY DEF Reach, Ref
<1>3. \A S \in SUBSET Buf : p \in S /\ Follows(f, S) => f[x] \in S
  BY <1>1 DEF Reach, Follows
<1> QED BY <1>1, <1>2, <1>3 DEF Reach

(* A list is its first block and the list behind it.                        *)
LEMMA ReachUnfold ==
    ASSUME NEW f \in [Buf -> Ref], NEW p \in Buf
    PROVE  Reach(f, p) = {p} \cup Reach(f, f[p])
<1> USE Constants
<1> DEFINE R == Reach(f, f[p])
<1>1. R \subseteq Buf /\ f[p] \in Ref /\ p \in Reach(f, p) /\ Follows(f, Reach(f, p))
  BY ReachInBuf, ReachFollows
<1>2. CASE f[p] = NULL
  <2>1. R = {} /\ Follows(f, {p})
    BY <1>2, ReachNull DEF Follows
  <2>2. Reach(f, p) \subseteq {p}
    BY <2>1, ReachLeast
  <2> QED BY <1>1, <2>1, <2>2
<1>3. CASE f[p] # NULL
  <2>1. f[p] \in Buf /\ f[p] \in R /\ Follows(f, R)
    BY <1>1, <1>3, ReachFollows DEF Ref
  <2>2. Follows(f, {p} \cup R)
    BY <2>1 DEF Follows
  <2>3. Reach(f, p) \subseteq {p} \cup R
    BY <1>1, <2>2, ReachLeast
  <2>4. f[p] \in Reach(f, p) /\ Reach(f, p) \in SUBSET Buf
    BY <1>1, <1>3, ReachInBuf DEF Follows
  <2>5. R \subseteq Reach(f, p)
    BY <1>1, <2>1, <2>4, ReachLeast
  <2> QED BY <1>1, <2>3, <2>5
<1> QED BY <1>2, <1>3

(* Pointers of blocks that are not on a list do not matter to it.           *)
LEMMA ReachSame ==
    ASSUME NEW f \in [Buf -> Ref], NEW g \in [Buf -> Ref], NEW p \in Ref,
           \A x \in Reach(f, p) : g[x] = f[x]
    PROVE  Reach(g, p) = Reach(f, p)
<1> USE Constants
<1>1. CASE p = NULL
  BY <1>1, ReachNull
<1>2. CASE p # NULL
  <2>1. p \in Buf /\ Reach(f, p) \in SUBSET Buf /\ Reach(g, p) \in SUBSET Buf
    BY <1>2, ReachInBuf DEF Ref
  <2>2. /\ p \in Reach(f, p) /\ Follows(f, Reach(f, p))
        /\ p \in Reach(g, p) /\ Follows(g, Reach(g, p))
    BY <2>1, ReachFollows
  <2>3. Follows(g, Reach(f, p))
    BY <2>2 DEF Follows
  <2>4. Reach(g, p) \subseteq Reach(f, p)
    BY <2>1, <2>2, <2>3, ReachLeast
  <2>5. Follows(f, Reach(g, p))
    BY <2>2, <2>4 DEF Follows
  <2>6. Reach(f, p) \subseteq Reach(g, p)
    BY <2>1, <2>2, <2>5, ReachLeast
  <2> QED BY <2>4, <2>6
<1> QED BY <1>1, <1>2

(* Pop: the first block, which nothing points to, leaves its list.          *)
LEMMA ReachPop ==
    ASSUME NEW f \in [Buf -> Ref], NEW g \in [Buf -> Ref], NEW p \in Buf,
           \A a \in Buf : f[a] # p,
           \A a \in Buf : a # p => g[a] = f[a]
    PROVE  Reach(g, f[p]) = Reach(f, p) \ {p}
<1> USE Constants
<1> DEFINE R == Reach(f, f[p])
<1>1. Reach(f, p) = {p} \cup R
  BY ReachUnfold
<1>2. p \notin R /\ f[p] \in Ref
  <2>1. CASE f[p] = NULL
    BY <2>1, ReachNull DEF Ref
  <2>2. CASE f[p] # NULL
    <3>1. f[p] \in Buf /\ R \in SUBSET Buf
      BY <2>2, ReachInBuf DEF Ref
    <3>2. f[p] \in R /\ Follows(f, R)
      BY <3>1, ReachFollows
    <3>3. f[p] # p
      OBVIOUS
    <3>4. f[p] \in R \ {p} /\ R \ {p} \in SUBSET Buf /\ Follows(f, R \ {p})
      BY <3>1, <3>2, <3>3 DEF Follows
    <3>5. R \subseteq R \ {p}
      BY <3>1, <3>4, ReachLeast
    <3> QED BY <3>1, <3>5 DEF Ref
  <2> QED BY <2>1, <2>2
<1>3. \A x \in R : g[x] = f[x]
  BY <1>2, ReachInBuf
<1>4. Reach(g, f[p]) = R
  BY <1>2, <1>3, ReachSame
<1> QED BY <1>1, <1>2, <1>4

(* Push: block b, which is on no list, is put before the list of p.         *)
LEMMA ReachPush ==
    ASSUME NEW f \in [Buf -> Ref], NEW g \in [Buf -> Ref], NEW p \in Ref, NEW b \in Buf,
           b \notin Reach(f, p), g[b] = p, \A a \in Buf : a # b => g[a] = f[a]
    PROVE  Reach(g, b) = {b} \cup Reach(f, p)
<1>1. \A x \in Reach(f, p) : g[x] = f[x]
  BY ReachInBuf
<1>2. Reach(g, p) = Reach(f, p)
  BY <1>1, ReachSame
<1> QED BY <1>2, ReachUnfold

(* Cut: block y of the list gets a new successor b that has none.  What was *)
(* behind y may be lost, b is on the list now.                              *)
LEMMA ReachCut ==
    ASSUME NEW f \in [Buf -> Ref], NEW g \in [Buf -> Ref], NEW p \in Buf,
           NEW y \in Reach(f, p), NEW b \in Buf, b \notin Reach(f, p),
           g[y] = b, g[b] = NULL,
           \A a \in Buf : a # y /\ a # b => g[a] = f[a]
    PROVE  /\ b \in Reach(g, p) /\ p \in Reach(g, p)
           /\ Reach(g, p) \subseteq Reach(f, p) \cup {b}
<1> USE Constants
<1> DEFINE R == Reach(f, p)
           T == Reach(g, p)
<1>1. R \in SUBSET Buf /\ T \in SUBSET Buf /\ R \cup {b} \in SUBSET Buf
  BY ReachInBuf
<1>2. p \in R /\ Follows(f, R) /\ p \in T /\ Follows(g, T)
  BY ReachFollows
<1>3. Follows(g, R \cup {b})
  BY <1>1, <1>2 DEF Follows
<1>4. T \subseteq R \cup {b}
  BY <1>1, <1>2, <1>3, ReachLeast
<1>5. y \in T
  <2> SUFFICES ASSUME y \notin T PROVE FALSE
    OBVIOUS
  <2>1. Follows(f, T \ {b})
    <3> SUFFICES ASSUME NEW x \in T \ {b}, f[x] # NULL PROVE f[x] \in T \ {b}
      BY DEF Follows
    <3>1. g[x] = f[x] /\ x \in R
      BY <1>1, <1>4
    <3>2. f[x] \in T /\ f[x] \in R
      BY <1>2, <3>1 DEF Follows
    <3> QED BY <3>2
  <2>2. R \subseteq T \ {b}
    BY <1>1, <1>2, <2>1, ReachLeast
  <2> QED BY <2>2
<1>6. g[y] # NULL /\ g[y] \in T
  BY <1>2, <1>5 DEF Follows
<1> QED BY <1>2, <1>4, <1>6

-----------------------------------------------------------------------------
(* Places.  As no block is in two of them, a block's place is read off the  *)
(* holders g and s, the queue Q and the freelist F, in any order.           *)

Spot(g, s, Q, F, b) == IF b = g THEN "gps"
                       ELSE IF b = s THEN "sdr"
                       ELSE IF b \in Q THEN "queued"
                       ELSE IF b \in F THEN "free" ELSE "lost"

LEMMA PlaceIs ==
    ASSUME ExclusiveOwnership, NEW b \in Buf
    PROVE  PlaceOf(b) = Spot(held[Gps], held[Sdr], Reach(nxt, head), Reach(nxt, freelist), b)
BY ChainReach, Constants DEF ExclusiveOwnership, PlaceOf, Spot

LEMMA PlaceWillBe ==
    ASSUME ExclusiveOwnership', NEW b \in Buf
    PROVE  PlaceOf(b)' = Spot(held'[Gps], held'[Sdr], Reach(nxt', head'), Reach(nxt', freelist'), b)
BY ChainReach, Constants DEF ExclusiveOwnership, PlaceOf, Spot

(* The facts about a state that the steps use.                              *)
Apart(g, s, Q, F) ==
    /\ Q \subseteq Buf /\ F \subseteq Buf /\ Q \cap F = {}
    /\ g \notin Q \cup F /\ s \notin Q \cup F /\ (g # NULL => g # s)

LEMMA SpotIs ==
    ASSUME NEW g, NEW s, NEW Q, NEW F, Apart(g, s, Q, F)
    PROVE  /\ {b \in Buf : Spot(g, s, Q, F, b) = "gps"} = Buf \cap {g}
           /\ {b \in Buf : Spot(g, s, Q, F, b) = "sdr"} = Buf \cap {s}
           /\ {b \in Buf : Spot(g, s, Q, F, b) = "queued"} = Q
           /\ {b \in Buf : Spot(g, s, Q, F, b) = "free"} = F
BY Constants DEF Apart, Spot

LEMMA Ground ==
    ASSUME OwnershipInv
    PROVE  /\ Apart(held[Gps], held[Sdr], Reach(nxt, head), Reach(nxt, freelist))
           /\ ExclusiveOwnership /\ nxt \in [Buf -> Ref] /\ head \in Ref /\ freelist \in Ref
           /\ held[Gps] \in Ref /\ held[Sdr] \in Ref
<1>1. ExclusiveOwnership
  BY SoleReferenceOwns DEF OwnershipInv
<1>2. Apart(held[Gps], held[Sdr], Reach(nxt, head), Reach(nxt, freelist))
  BY <1>1, ChainReach, ReachInBuf, Constants DEF ExclusiveOwnership, Apart
<1> QED BY <1>1, <1>2, Constants DEF OwnershipInv, TypeOK

LEMMA NextGround ==
    OwnershipInv /\ [Next]_fifoVars
        => /\ ExclusiveOwnership' /\ nxt' \in [Buf -> Ref]
           /\ head' \in Ref /\ freelist' \in Ref
<1>1. OwnershipInv => ExclusiveOwnership
  BY SoleReferenceOwns DEF OwnershipInv
<1>2. OwnershipInv' => ExclusiveOwnership'
  BY <1>1, PTL
<1> QED BY <1>2, OwnershipStep DEF OwnershipInv, TypeOK

(* Where the pool sees the blocks.                                          *)
LEMMA PoolAt ==
    ASSUME OwnershipInv
    PROVE  /\ Pool!At("gps") = Buf \cap {held[Gps]}
           /\ Pool!At("sdr") = Buf \cap {held[Sdr]}
           /\ Pool!At("queued") = Reach(nxt, head)
           /\ Pool!At("free") = Reach(nxt, freelist)
<1> DEFINE Q == Reach(nxt, head)
           F == Reach(nxt, freelist)
<1>1. Apart(held[Gps], held[Sdr], Q, F)
  BY Ground
<1>2. \A p : Pool!At(p) = {b \in Buf : Spot(held[Gps], held[Sdr], Q, F, b) = p}
  <2>1. \A b \in Buf : PlaceOf(b) = Spot(held[Gps], held[Sdr], Q, F, b)
    BY Ground, PlaceIs
  <2> QED BY <2>1 DEF Pool!At
<1> HIDE DEF Q, F
<1>3. /\ {b \in Buf : Spot(held[Gps], held[Sdr], Q, F, b) = "gps"} = Buf \cap {held[Gps]}
      /\ {b \in Buf : Spot(held[Gps], held[Sdr], Q, F, b) = "sdr"} = Buf \cap {held[Sdr]}
      /\ {b \in Buf : Spot(held[Gps], held[Sdr], Q, F, b) = "queued"} = Q
      /\ {b \in Buf : Spot(held[Gps], held[Sdr], Q, F, b) = "free"} = F
  BY <1>1, SpotIs
<1>4. /\ Pool!At("gps") = Buf \cap {held[Gps]}
      /\ Pool!At("sdr") = Buf \cap {held[Sdr]}
      /\ Pool!At("queued") = Q /\ Pool!At("free") = F
  BY <1>2, <1>3
<1> QED BY <1>4 DEF Q, F

(* A step moves block b to p and drops the blocks in L, if that is so for   *)
(* the holders and the lists.                                               *)
LEMMA PoolMove ==
    ASSUME OwnershipInv, [Next]_fifoVars, NEW b, NEW p, NEW L,
           \A x \in Buf :
               Spot(held'[Gps], held'[Sdr], Reach(nxt', head'), Reach(nxt', freelist'), x)
                   = IF x = b THEN p ELSE IF x \in L THEN "lost"
                     ELSE Spot(held[Gps], held[Sdr], Reach(nxt, head), Reach(nxt, freelist), x)
    PROVE  Pool!Move(b, p, L)
<1>1. \A x \in Buf : PlaceOf(x)' = IF x = b THEN p ELSE IF x \in L THEN "lost" ELSE PlaceOf(x)
  BY Ground, NextGround, PlaceIs, PlaceWillBe
<1> QED BY <1>1 DEF Pool!Move

-----------------------------------------------------------------------------
(* The operations that move blocks.                                         *)

(* fifo_acquire takes the first free block.                                 *)
LEMMA PoolTake ==
    ASSUME OwnershipInv, [Next]_fifoVars, held[Gps] = NULL, freelist # NULL, PopFree(Gps)
    PROVE  Pool!Take
<1> USE Constants
<1> DEFINE Q == Reach(nxt, head)
           F == Reach(nxt, freelist)
           g == held[Gps]
           s == held[Sdr]
<1>1. /\ Apart(g, s, Q, F) /\ nxt \in [Buf -> Ref] /\ nxt' \in [Buf -> Ref]
      /\ freelist \in Buf /\ head \in Ref
  BY Ground, NextGround DEF Ref
<1>2. freelist \in F
  BY <1>1, ReachFollows
<1>3. \A a \in Buf : nxt[a] # freelist /\ (a # freelist => nxt'[a] = nxt[a])
  BY <1>1 DEF PopFree, OwnershipInv, SoleReference, RootsUnlinked
<1>4. Reach(nxt', freelist') = F \ {freelist}
  BY <1>1, <1>3, ReachPop DEF PopFree
<1>5. Reach(nxt', head') = Q
  <2>1. \A x \in Q : nxt'[x] = nxt[x]
    BY <1>1, <1>2, <1>3 DEF Apart
  <2>2. Reach(nxt', head) = Q
    BY <1>1, <2>1, ReachSame
  <2>3. head' = head
    BY DEF PopFree
  <2> QED BY <2>2, <2>3
<1>6. held'[Gps] = freelist /\ held'[Sdr] = s
  BY DEF PopFree, OwnershipInv, TypeOK
<1>7. \A x \in Buf : Spot(freelist, s, Q, F \ {freelist}, x)
                        = IF x = freelist THEN "gps" ELSE Spot(g, s, Q, F, x)
  BY <1>1, <1>2 DEF Apart, Spot
<1>8. Pool!Move(freelist, "gps", {})
  BY <1>4, <1>5, <1>6, <1>7, PoolMove
<1>9. Pool!At("free") = F /\ Pool!At("gps") = {}
  BY PoolAt
<1> QED BY <1>2, <1>8, <1>9 DEF Pool!Take

(* fifo_dequeue takes the first block of the queue.                         *)
LEMMA PoolGet ==
    ASSUME OwnershipInv, [Next]_fifoVars, held[Sdr] = NULL, head # NULL, PopHead(Sdr)
    PROVE  Pool!Get
<1> USE Constants
<1> DEFINE Q == Reach(nxt, head)
           F == Reach(nxt, freelist)
           g == held[Gps]
           s == held[Sdr]
<1>1. /\ Apart(g, s, Q, F) /\ nxt \in [Buf -> Ref] /\ nxt' \in [Buf -> Ref]
      /\ head \in Buf /\ freelist \in Ref
  BY Ground, NextGround DEF Ref
<1>2. head \in Q
  BY <1>1, ReachFollows
<1>3. \A a \in Buf : nxt[a] # head /\ (a # head => nxt'[a] = nxt[a])
  BY <1>1 DEF PopHead, OwnershipInv, SoleReference, RootsUnlinked
<1>4. Reach(nxt', head') = Q \ {head}
  BY <1>1, <1>3, ReachPop DEF PopHead
<1>5. Reach(nxt', freelist') = F
  <2>1. \A x \in F : nxt'[x] = nxt[x]
    BY <1>1, <1>2, <1>3 DEF Apart
  <2>2. Reach(nxt', freelist) = F
    BY <1>1, <2>1, ReachSame
  <2>3. freelist' = freelist
    BY DEF PopHead
  <2> QED BY <2>2, <2>3
<1>6. held'[Gps] = g /\ held'[Sdr] = head
  BY DEF PopHead, OwnershipInv, TypeOK
<1>7. \A x \in Buf : Spot(g, head, Q \ {head}, F, x)
                        = IF x = head THEN "sdr" ELSE Spot(g, s, Q, F, x)
  BY <1>1, <1>2 DEF Apart, Spot
<1>8. Pool!Move(head, "sdr", {})
  BY <1>4, <1>5, <1>6, <1>7, PoolMove
<1>9. Pool!At("queued") = Q /\ Pool!At("sdr") = {}
  BY PoolAt
<1> QED BY <1>2, <1>8, <1>9 DEF Pool!Get

(* fifo_release puts the block before the free ones.                        *)
LEMMA PoolGiveBack ==
    ASSUME OwnershipInv, [Next]_fifoVars, Release(Sdr)
    PROVE  Pool!GiveBack
<1> USE Constants
<1> DEFINE Q == Reach(nxt, head)
           F == Reach(nxt, freelist)
           g == held[Gps]
           s == held[Sdr]
<1>1. /\ Apart(g, s, Q, F) /\ nxt \in [Buf -> Ref] /\ nxt' \in [Buf -> Ref]
      /\ s \in Buf /\ freelist \in Ref /\ head \in Ref
  BY Ground, NextGround DEF Release, Ref
<1>2. nxt'[s] = freelist /\ \A a \in Buf : a # s => nxt'[a] = nxt[a]
  BY <1>1 DEF Release
<1>3. Reach(nxt', freelist') = {s} \cup F
  <2>1. s \notin F /\ freelist' = s
    BY <1>1 DEF Release, Apart
  <2> QED BY <1>1, <1>2, <2>1, ReachPush
<1>4. Reach(nxt', head') = Q
  <2>1. \A x \in Q : nxt'[x] = nxt[x]
    BY <1>1, <1>2 DEF Apart
  <2>2. Reach(nxt', head) = Q
    BY <1>1, <2>1, ReachSame
  <2>3. head' = head
    BY DEF Release
  <2> QED BY <2>2, <2>3
<1>5. held'[Gps] = g /\ held'[Sdr] = NULL
  BY DEF Release, OwnershipInv, TypeOK
<1>6. \A x \in Buf : Spot(g, NULL, Q, {s} \cup F, x)
                        = IF x = s THEN "free" ELSE Spot(g, s, Q, F, x)
  BY <1>1 DEF Apart, Spot
<1>7. Pool!Move(s, "free", {})
  BY <1>3, <1>4, <1>5, <1>6, PoolMove
<1>8. s \in Pool!At("sdr")
  BY <1>1, PoolAt
<1> QED BY <1>7, <1>8 DEF Pool!GiveBack

(* One iteration of fifo_halt moves the first queued block to the freelist. *)
LEMMA PoolDrain ==
    ASSUME OwnershipInv, [Next]_fifoVars, HaltDrain(Main)
    PROVE  Pool!Drain
<1> USE Constants
<1> DEFINE Q == Reach(nxt, head)
           F == Reach(nxt, freelist)
           g == held[Gps]
           s == held[Sdr]
<1>1. /\ Apart(g, s, Q, F) /\ nxt \in [Buf -> Ref] /\ nxt' \in [Buf -> Ref]
      /\ head \in Buf /\ freelist \in Ref
  BY Ground, NextGround DEF HaltDrain, Ref
<1>2. head \in Q
  BY <1>1, ReachFollows
<1>3. /\ nxt'[head] = freelist
      /\ \A a \in Buf : nxt[a] # head /\ (a # head => nxt'[a] = nxt[a])
  BY <1>1 DEF HaltDrain, OwnershipInv, SoleReference, RootsUnlinked
<1>4. Reach(nxt', head') = Q \ {head}
  BY <1>1, <1>3, ReachPop DEF HaltDrain
<1>5. Reach(nxt', freelist') = {head} \cup F
  <2>1. head \notin F /\ freelist' = head
    BY <1>1, <1>2 DEF HaltDrain, Apart
  <2> QED BY <1>1, <1>3, <2>1, ReachPush
<1>6. held' = held
  BY DEF HaltDrain
<1>7. \A x \in Buf : Spot(g, s, Q \ {head}, {head} \cup F, x)
                        = IF x = head THEN "free" ELSE Spot(g, s, Q, F, x)
  BY <1>1, <1>2 DEF Apart, Spot
<1>8. Pool!Move(head, "free", {})
  BY <1>4, <1>5, <1>6, <1>7, PoolMove
<1>9. head \in Pool!At("queued")
  BY <1>2, PoolAt
<1> QED BY <1>8, <1>9 DEF Pool!Drain

(* fifo_enqueue behind other blocks, where tail may be stale.  If tail is   *)
(* on the queue the block is queued and what was behind tail is dropped; if *)
(* it is on the freelist the block ends there; otherwise the block is lost. *)
LEMMA PoolBehind ==
    ASSUME OwnershipInv, [Next]_fifoVars, Enqueue(Gps), EnqueueBehind(Gps)
    PROVE  Pool!PutQueued \/ Pool!PutFree \/ Pool!PutLost
<1> USE Constants
<1> DEFINE Q == Reach(nxt, head)
           F == Reach(nxt, freelist)
           Qn == Reach(nxt', head')
           Fn == Reach(nxt', freelist')
           g == held[Gps]
           s == held[Sdr]
<1>1. /\ Apart(g, s, Q, F) /\ nxt \in [Buf -> Ref] /\ nxt' \in [Buf -> Ref]
      /\ g \in Buf /\ freelist \in Ref /\ head \in Buf
      /\ head' = head /\ freelist' = freelist
  BY Ground, NextGround DEF Enqueue, EnqueueBehind, Ref
<1>2. head \in Q /\ g \notin Q /\ g \notin F
  BY <1>1, ReachFollows DEF Apart
<1>3. held'[Gps] = NULL /\ held'[Sdr] = s
  BY DEF Enqueue, OwnershipInv, TypeOK
<1>4. /\ \A a \in Buf : a # tail /\ a # g => nxt'[a] = nxt[a]
      /\ tail \in Buf => nxt'[tail] = g
      /\ tail \in Buf /\ tail # g => nxt'[g] = NULL
  BY <1>1 DEF EnqueueBehind
<1>5. /\ Pool!At("gps") = Buf \cap {g} /\ g \in Pool!At("gps")
      /\ Pool!At("queued") = Q /\ Pool!At("free") = F
  BY <1>1, PoolAt
<1>6. ASSUME tail \notin F PROVE Fn = F
  <2>1. \A x \in F : nxt'[x] = nxt[x]
    BY <1>2, <1>4, <1>6, ReachInBuf
  <2> QED BY <1>1, <2>1, ReachSame
<1>7. ASSUME tail \notin Q PROVE Qn = Q
  <2>1. \A x \in Q : nxt'[x] = nxt[x]
    BY <1>2, <1>4, <1>7, ReachInBuf
  <2>2. head \in Ref
    BY <1>1 DEF Ref
  <2> QED BY <1>1, <2>1, <2>2, ReachSame
<1>8. CASE tail \in Q
  <2>1. g \in Qn /\ Qn \subseteq Q \cup {g}
    <3>1. tail \in Buf /\ tail # g /\ nxt'[tail] = g /\ nxt'[g] = NULL
      BY <1>2, <1>4, <1>8, ReachInBuf
    <3>2. \A a \in Buf : a # tail /\ a # g => nxt'[a] = nxt[a]
      BY <1>4
    <3>3. g \in Reach(nxt', head) /\ Reach(nxt', head) \subseteq Q \cup {g}
      BY <1>1, <1>2, <1>8, <3>1, <3>2, ReachCut
    <3> QED BY <1>1, <3>3
  <2>2. Fn = F
    BY <1>1, <1>6, <1>8 DEF Apart
  <2>3. \A x \in Buf : Spot(NULL, s, Qn, F, x)
                  = IF x = g THEN "queued" ELSE IF x \in Q \ Qn THEN "lost" ELSE Spot(g, s, Q, F, x)
    BY <1>1, <2>1 DEF Apart, Spot
  <2>4. Pool!Move(g, "queued", Q \ Qn)
    BY <1>3, <2>2, <2>3, PoolMove
  <2>5. Q \ Qn \in SUBSET Pool!At("queued")
    BY <1>5
  <2> QED BY <1>5, <2>4, <2>5 DEF Pool!PutQueued
<1>9. CASE tail \in F
  <2>1. g \in Fn /\ Fn \subseteq F \cup {g}
    <3>1. tail \in Buf /\ tail # g /\ freelist \in Buf
      BY <1>1, <1>2, <1>9, ReachInBuf, ReachNull DEF Ref
    <3> QED BY <1>1, <1>2, <1>4, <1>9, <3>1, ReachCut
  <2>2. Qn = Q
    BY <1>1, <1>7, <1>9 DEF Apart
  <2>3. \A x \in Buf : Spot(NULL, s, Q, Fn, x)
                  = IF x = g THEN "free" ELSE IF x \in F \ Fn THEN "lost" ELSE Spot(g, s, Q, F, x)
    BY <1>1, <2>1 DEF Apart, Spot
  <2>4. Pool!Move(g, "free", F \ Fn)
    BY <1>3, <2>2, <2>3, PoolMove
  <2>5. F \ Fn \in SUBSET Pool!At("free")
    BY <1>5
  <2> QED BY <1>5, <2>4, <2>5 DEF Pool!PutFree
<1>10. CASE tail \notin Q \cup F
  <2>1. Qn = Q /\ Fn = F
    BY <1>6, <1>7, <1>10
  <2>2. \A x \in Buf : Spot(NULL, s, Q, F, x) = IF x = g THEN "lost" ELSE Spot(g, s, Q, F, x)
    BY <1>1 DEF Apart, Spot
  <2>3. Pool!Move(g, "lost", {})
    BY <1>3, <2>1, <2>2, PoolMove
  <2> QED BY <1>2, <1>5, <2>3 DEF Pool!PutLost
<1> QED BY <1>8, <1>9, <1>10

(* fifo_enqueue in general.                                                 *)
LEMMA PoolEnqueue ==
    ASSUME OwnershipInv, [Next]_fifoVars, Enqueue(Gps)
    PROVE  Pool!PutQueued \/ Pool!PutFree \/ Pool!PutLost
<1> USE Constants
<1> DEFINE Q == Reach(nxt, head)
           F == Reach(nxt, freelist)
           g == held[Gps]
           s == held[Sdr]
<1>1. /\ Apart(g, s, Q, F) /\ nxt \in [Buf -> Ref] /\ nxt' \in [Buf -> Ref]
      /\ g \in Buf /\ freelist \in Ref /\ head \in Ref
  BY Ground, NextGround DEF Enqueue, Ref
<1>2. held'[Gps] = NULL /\ held'[Sdr] = s
  BY DEF Enqueue, OwnershipInv, TypeOK
<1>3. /\ g \in Pool!At("gps") /\ g \notin Q /\ g \notin F
      /\ {} \in SUBSET Pool!At("queued") /\ {} \in SUBSET Pool!At("free")
  BY <1>1, PoolAt DEF Apart
<1>4. CASE EnqueueHalted(Gps)
  <2>1. /\ nxt'[g] = freelist /\ \A a \in Buf : a # g => nxt'[a] = nxt[a]
        /\ freelist' = g /\ head' = head
    BY <1>1, <1>4 DEF EnqueueHalted
  <2>2. Reach(nxt', freelist') = {g} \cup F
    BY <1>1, <1>3, <2>1, ReachPush
  <2>3. Reach(nxt', head') = Q
    <3>1. \A x \in Q : nxt'[x] = nxt[x]
      BY <1>3, <2>1, ReachInBuf
    <3> QED BY <1>1, <2>1, <3>1, ReachSame
  <2>4. \A x \in Buf : Spot(NULL, s, Q, {g} \cup F, x)
                          = IF x = g THEN "free" ELSE Spot(g, s, Q, F, x)
    BY <1>1 DEF Apart, Spot
  <2>5. Pool!Move(g, "free", {})
    BY <1>2, <2>2, <2>3, <2>4, PoolMove
  <2> QED BY <1>3, <2>5 DEF Pool!PutFree
<1>5. CASE EnqueueFirst(Gps)
  <2>1. /\ nxt'[g] = NULL /\ \A a \in Buf : a # g => nxt'[a] = nxt[a]
        /\ freelist' = freelist /\ head' = g /\ head = NULL
    BY <1>1, <1>5 DEF EnqueueFirst
  <2>2. Q = {}
    BY <2>1, ReachNull
  <2>3. Reach(nxt', head') = {g}
    BY <1>1, <2>1, ReachUnfold, ReachNull
  <2>4. Reach(nxt', freelist') = F
    <3>1. \A x \in F : nxt'[x] = nxt[x]
      BY <1>3, <2>1, ReachInBuf
    <3> QED BY <1>1, <2>1, <3>1, ReachSame
  <2>5. \A x \in Buf : Spot(NULL, s, {g}, F, x)
                          = IF x = g THEN "queued" ELSE Spot(g, s, Q, F, x)
    BY <1>1, <2>2 DEF Apart, Spot
  <2>6. Pool!Move(g, "queued", {})
    BY <1>2, <2>3, <2>4, <2>5, PoolMove
  <2> QED BY <1>3, <2>6 DEF Pool!PutQueued
<1>6. CASE EnqueueBehind(Gps)
  BY <1>6, PoolBehind
<1> QED BY <1>4, <1>5, <1>6 DEF Enqueue

(* fifo_destroy frees what is on the two lists; the SDR thread has no block *)
(* any more.                                                                *)
LEMMA PoolDiscard ==
    ASSUME OwnershipInv, [Next]_fifoVars, Retire
    PROVE  Pool!Discard
<1> USE Constants
<1> DEFINE Q == Reach(nxt, head)
           F == Reach(nxt, freelist)
           g == held[Gps]
           s == held[Sdr]
<1>1. Apart(g, s, Q, F) /\ s = NULL
  BY Ground DEF Retire, UsersDone
<1>2. held' = held /\ Reach(nxt', head') = {} /\ Reach(nxt', freelist') = {}
  BY ReachNull DEF Retire, Destroy
<1>3. \A x \in Buf : Spot(g, s, {}, {}, x) = IF Spot(g, s, Q, F, x) \in {"free", "queued"}
                                              THEN "lost" ELSE Spot(g, s, Q, F, x)
  BY <1>1 DEF Apart, Spot
<1>4. \A x \in Buf : PlaceOf(x)' = IF PlaceOf(x) \in {"free", "queued"}
                                    THEN "lost" ELSE PlaceOf(x)
  BY <1>2, <1>3, Ground, NextGround, PlaceIs, PlaceWillBe
<1>5. Pool!At("sdr") = {}
  BY <1>1, PoolAt
<1> QED BY <1>4, <1>5 DEF Pool!Discard

(* All other steps leave every block where it is.                           *)
LEMMA PoolStutter ==
    ASSUME UNCHANGED <<head, freelist, nxt, held>>
    PROVE  UNCHANGED [b \in Buf |-> PlaceOf(b)]
<1>1. Chain(head)' = Chain(head) /\ Chain(freelist)' = Chain(freelist)
  BY ChainReach
<1>2. \A b \in Buf : PlaceOf(b)' = PlaceOf(b)
  BY <1>1 DEF PlaceOf
<1> QED BY <1>2

LEMMA PoolStep ==
    OwnershipInv /\ [Next]_fifoVars => [Pool!PoolNext]_[b \in Buf |-> PlaceOf(b)]
<1> SUFFICES ASSUME OwnershipInv, [Next]_fifoVars
             PROVE  [Pool!PoolNext]_[b \in Buf |-> PlaceOf(b)]
  OBVIOUS
<1> USE DEF Pool!PoolNext
<1>1. CASE Acquire(Gps) \/ AcquireResume(Gps)
  <2>1. held[Gps] = NULL
    BY <1>1, Constants DEF Acquire, AcquireResume, OwnershipInv, Roles
  <2>2. CASE freelist # NULL /\ PopFree(Gps)
    BY <2>1, <2>2, PoolTake
  <2>3. CASE UNCHANGED <<ptrs, held>>
    BY <2>3, PoolStutter DEF ptrs
  <2> QED BY <1>1, <2>2, <2>3 DEF Acquire, AcquireResume, AcquireResult, Crash
<1>2. CASE Enqueue(Gps)
  BY <1>2, PoolEnqueue
<1>3. CASE Dequeue(Sdr) \/ DequeueResume(Sdr)
  <2>1. held[Sdr] = NULL
    BY <1>3, Constants DEF Dequeue, DequeueResume, OwnershipInv, Roles
  <2>2. CASE head # NULL /\ PopHead(Sdr)
    BY <2>1, <2>2, PoolGet
  <2>3. CASE UNCHANGED <<ptrs, held>>
    BY <2>3, PoolStutter DEF ptrs
  <2> QED BY <1>3, <2>2, <2>3 DEF Dequeue, DequeueResume, DequeueResult, Crash
<1>4. CASE Release(Sdr)
  BY <1>4, PoolGiveBack
<1>5. CASE HaltDrain(Main)
  BY <1>5, PoolDrain
<1>6. CASE Retire
  BY <1>6, PoolDiscard
<1>7. CASE UNCHANGED <<head, freelist, nxt, held>>
  BY <1>7, PoolStutter
<1>8. CASE MainCalls \/ WaitFullResume(Main) \/ WaitNextResume(Main) \/ HaltEnd(Main)
  BY <1>7, <1>8 DEF MainCalls, WaitFull, WaitNext, HaltBegin, WaitFullResume,
     WaitNextResume, HaltEnd, ptrs
<1>9. CASE (\E t \in Thread : SpuriousWakeup(t)) \/ UNCHANGED fifoVars
  BY <1>7, <1>9 DEF SpuriousWakeup, fifoVars, ptrs
<1> QED
  BY <1>1, <1>2, <1>3, <1>4, <1>5, <1>6, <1>8, <1>9
  DEF Next, GpsStep, SdrStep, MainReturns, Stopped

LEMMA PoolStart == Init => Pool!PoolInit
<1> SUFFICES ASSUME Init PROVE \A b \in Buf : PlaceOf(b) = "free"
  BY DEF Pool!PoolInit
<1> SUFFICES ASSUME NEW b \in Buf PROVE PlaceOf(b) = "free"
  OBVIOUS
<1>1. Chain(head) = {} /\ Chain(freelist) = Buf
  BY DEF Init, IsFreelist, Chain
<1>2. held[Gps] = NULL /\ held[Sdr] = NULL /\ b # NULL
  BY Constants DEF Init
<1> QED BY <1>1, <1>2 DEF PlaceOf

(* The FIFO of fifo.c keeps the promise of the block pool, for any number   *)
(* of blocks: only its holder moves a block on, fifo_dequeue and            *)
(* fifo_acquire hand out the block they take from a list and no other, only *)
(* fifo_enqueue drops blocks, and no dropped block ever comes back.         *)
THEOREM PoolRefined == Spec => RefinesPool
<1>1. Init => OwnershipInv
  BY TypeInit, InitRefs DEF OwnershipInv
<1>2. OwnershipInv /\ [Next]_fifoVars => OwnershipInv'
  BY OwnershipStep
<1> QED
  BY <1>1, <1>2, PoolStart, PoolStep, PTL DEF Spec, RefinesPool, Pool!PoolSpec

=============================================================================
