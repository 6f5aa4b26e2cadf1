----------------------------- MODULE NavProofs -----------------------------
(* Theorems about the navigation message, for any start time, any travel    *)
(* times from 51 ms to 5.5 s, and a receiver that runs for any time.        *)
EXTENDS NavMessage, TLAPS

(* A data bit reference time: week may end, but is not passed. *)
Reference == [week : Nat, sec : 0..Week]

(* A week is 20160 frames. *)
LEMMA WeekValue == Week \in Nat /\ Week = 20160 * 30000
BY SMT DEF Week

LEMMA WeekRange == 0 \in 0..Week /\ \A x \in 0..Week : x \in Nat
<1>1. Week \in Nat  BY WeekValue
<1> QED  BY <1>1

LEMMA WeekSplit ==
    ASSUME NEW t \in Nat
    PROVE  /\ WeekOf(t) \in Nat /\ SecOf(t) \in Nat
           /\ SecOf(t) < Week /\ t = WeekOf(t) * Week + SecOf(t)
<1>1. Week \in Nat /\ Week > 0  BY SMT, WeekValue
<1> QED  BY SMT, <1>1 DEF WeekOf, SecOf

(* Weeks are whole frames. *)
LEMMA WeekFrames ==
    ASSUME NEW w \in Nat
    PROVE  /\ w * 20160 \in Nat /\ w * Week \in Nat
           /\ w * Week = (w * 20160) * 30000
BY SMT, WeekValue

LEMMA Frames ==
    ASSUME NEW x \in Nat, x % 30000 = 0
    PROVE  \E n \in Nat : x = n * 30000
<1>1. x \div 30000 \in Nat /\ x = (x \div 30000) * 30000  BY SMT
<1> QED  BY <1>1

(* The reference time is a multiple of a frame, at most half a second ahead.*)
LEMMA AlignFacts ==
    ASSUME NEW t \in Nat
    PROVE  /\ Align(t) \in Reference /\ Align(t).sec % 30000 = 0
           /\ Abs(Align(t)) - 500 <= t
           /\ t < Abs(Align(t)) + 29500
<1> DEFINE s == SecOf(t)
           q == ((s + 500) \div 1000) \div 30
<1>1. /\ WeekOf(t) \in Nat /\ s \in Nat
      /\ s < Week /\ t = WeekOf(t) * Week + s /\ Week \in Nat
  BY WeekSplit, WeekValue
<1>2. WeekOf(t) * Week \in Nat  BY <1>1, WeekFrames
<1>3. Align(t) = [week |-> WeekOf(t), sec |-> q * 30000]  BY DEF Align
<1> HIDE DEF s
<1>4. q \in Nat /\ q * 30000 <= s + 500 /\ s + 500 < q * 30000 + 30000  BY SMT, <1>1
<1> HIDE DEF q
<1>5. q <= 20160  BY SMT, <1>1, <1>4, WeekValue
<1>6. q * 30000 <= Week /\ (q * 30000) % 30000 = 0 /\ q * 30000 \in Nat  BY SMT, <1>4, <1>5, WeekValue
<1>7. Abs(Align(t)) = WeekOf(t) * Week + q * 30000  BY <1>3 DEF Abs
<1>8. Align(t) \in Reference  BY SMT, <1>1, <1>3, <1>6 DEF Reference
<1> QED  BY SMT, <1>1, <1>2, <1>3, <1>4, <1>6, <1>7, <1>8

(* A reference time modulo a week and modulo a frame.                       *)
LEMMA ReferenceFacts ==
    ASSUME NEW g \in Reference, g.sec % 30000 = 0
    PROVE  /\ Abs(g) \in Nat /\ Abs(g) % 30000 = 0
           /\ g.sec \div 6000 \in Nat
           /\ (Abs(g) \div 6000) % 100800 = (g.sec \div 6000) % 100800
<1>1. g.week \in Nat /\ g.sec \in Nat
  <2>1. g.week \in Nat /\ g.sec \in 0..Week  BY DEF Reference
  <2> QED  BY <2>1, WeekRange
<1>2. PICK n \in Nat : g.sec = n * 30000  BY <1>1, Frames
<1>3. PICK w \in Nat : w = g.week  BY <1>1
<1>4. Abs(g) = (w * 20160) * 30000 + n * 30000  BY <1>2, <1>3, WeekFrames DEF Abs
<1>5. PICK a \in Nat : a = Abs(g)  BY SMT, <1>4
<1>6. a \div 6000 = w * 100800 + n * 5 /\ a % 30000 = 0  BY SMT, <1>4, <1>5
<1>7. (w * 100800 + n * 5) % 100800 = (n * 5) % 100800  BY SMT
<1>8. g.sec \div 6000 = n * 5  BY SMT, <1>2
<1> QED  BY SMT, <1>5, <1>6, <1>7, <1>8

(* When a message is due: within 50 ms of a frame. *)
LEMMA DueFacts ==
    ASSUME NEW t \in Nat
    PROVE  Due(t) <=> (t + 50) % 30000 < 100
<1> DEFINE s == SecOf(t)
           w == WeekOf(t)
<1>1. w \in Nat /\ s \in Nat /\ t = w * Week + s  BY WeekSplit
<1>2. Due(t) <=> ((s + 50) \div 100) % 300 = 0  BY DEF Due, Igrx
<1> HIDE DEF s, w
<1>3. t = (w * 20160) * 30000 + s  BY <1>1, WeekFrames
<1>4. (t + 50) % 30000 = (s + 50) % 30000  BY SMT, <1>1, <1>3
<1>5. ((s + 50) \div 100) % 300 = 0 <=> (s + 50) % 30000 < 100  BY SMT, <1>1
<1> QED  BY <1>2, <1>4, <1>5

(* A message is replaced before the frame after it ends, by one for the     *)
(* same or the next frame.                                                  *)
LEMMA NextReference ==
    ASSUME NEW g \in Reference, g.sec % 30000 = 0, NEW t \in Nat,
           Abs(g) - 500 <= t, t < Abs(g) + 30050
    PROVE  /\ ~Due(t) => t < Abs(g) + 29950
           /\ Due(t) => /\ Abs(Align(t)) = Abs(g) \/ Abs(Align(t)) = Abs(g) + 30000
                        /\ Abs(Align(t)) - 50 <= t /\ t < Abs(Align(t)) + 50
<1> DEFINE a == Abs(g)
           b == Abs(Align(t))
<1>1. a \in Nat /\ a % 30000 = 0  BY ReferenceFacts
<1>2. b \in Nat /\ b % 30000 = 0 /\ b - 500 <= t /\ t < b + 29500
  <2>1. Align(t) \in Reference /\ Align(t).sec % 30000 = 0 /\ b - 500 <= t /\ t < b + 29500
    BY AlignFacts
  <2> HIDE DEF b
  <2>2. b \in Nat /\ b % 30000 = 0  BY <2>1, ReferenceFacts DEF b
  <2> QED  BY <2>1, <2>2
<1>3. Due(t) <=> (t + 50) % 30000 < 100  BY DueFacts
<1> HIDE DEF a, b
<1>4. ~Due(t) => t < a + 29950  BY <1>1, <1>3 DEF a
<1>5. Due(t) => /\ b = a \/ b = a + 30000
                /\ b - 50 <= t /\ t < b + 50
  BY <1>1, <1>2, <1>3 DEF a
<1> QED  BY <1>4, <1>5 DEF a, b

(* Five subframes later a frame later. *)
LEMMA FrameLater ==
    ASSUME NEW g \in Reference, g.sec % 30000 = 0, NEW h \in Reference, h.sec % 30000 = 0,
           Abs(h) = Abs(g) + 30000
    PROVE  (g.sec \div 6000 + 5) % 100800 = (h.sec \div 6000) % 100800
<1> DEFINE i == g.sec \div 6000
           j == h.sec \div 6000
           a == Abs(g)
<1>1. a \in Nat /\ i \in Nat /\ (a \div 6000) % 100800 = i % 100800  BY ReferenceFacts
<1>2. j \in Nat /\ ((a + 30000) \div 6000) % 100800 = j % 100800  BY ReferenceFacts
<1> HIDE DEF i, j, a
<1>3. (a + 30000) \div 6000 = a \div 6000 + 5  BY <1>1
<1>4. PICK n \in Nat : n = a \div 6000  BY <1>1
<1>5. (n + 5) % 100800 = (i + 5) % 100800  BY <1>1, <1>4
<1>6. (i + 5) % 100800 = j % 100800  BY <1>2, <1>3, <1>4, <1>5
<1> QED  BY <1>6 DEF i, j

-----------------------------------------------------------------------------
(* A message generated for time t, behind a first subframe. *)
LEMMA FrameFacts ==
    ASSUME NEW t \in Nat, NEW p \in Int, NEW f \in SubframeType
    PROVE  /\ Frame(t, p, f) \in [0..5 -> SubframeType]
           /\ Frame(t, p, f)[0] = f
           /\ \A k \in 1..5 : /\ Frame(t, p, f)[k].sub = k
                              /\ Frame(t, p, f)[k].tow = Align(t).sec \div 6000 + k
<1>1. Align(t).sec \div 6000 \in Nat  BY AlignFacts, ReferenceFacts
<1>2. WeekOf(t) % 1024 \in 0..1023  BY DEF WeekOf, Week
<1>3. \A k \in 0..5 : Subframe(k, t, k, p) \in SubframeType
  BY <1>1, <1>2 DEF Subframe, SubframeType, Tow
<1> QED  BY <1>1, <1>3 DEF Frame, Subframe, Tow

LEMMA FirstSubframe ==
    ASSUME NEW t \in Nat, NEW p \in Int
    PROVE  /\ Subframe(5, t, 0, p) \in SubframeType
           /\ Subframe(5, t, 0, p).sub = 5
           /\ Subframe(5, t, 0, p).tow = Align(t).sec \div 6000
<1>1. Align(t).sec \div 6000 \in Nat  BY AlignFacts, ReferenceFacts
<1>2. WeekOf(t) % 1024 \in 0..1023  BY DEF WeekOf, Week
<1> QED  BY <1>1, <1>2 DEF Subframe, SubframeType, Tow

LEMMA BitType ==
    ASSUME NEW d \in [0..5 -> SubframeType], NEW w \in 0..59, NEW b \in 0..29
    PROVE  Bit(d, w, b) \in [sub : 0..5, tow : Nat, word : 0..9, bit : 0..29]
<1>1. w \div 10 \in 0..5 /\ w % 10 \in 0..9  OBVIOUS
<1>2. d[w \div 10] \in SubframeType  BY <1>1
<1>3. d[w \div 10].sub \in 0..5 /\ d[w \div 10].tow \in Nat  BY <1>2 DEF SubframeType
<1> QED  BY <1>1, <1>3 DEF Bit

LEMMA InitHolds == Init => NavInv
<1> SUFFICES ASSUME Init PROVE NavInv  OBVIOUS
<1>0. PICK t \in Starts, p \in Pages, l \in Lags :
      /\ pc = "compute" /\ grx = t + 100
      /\ \/ /\ used = TRUE /\ g0 = Align(t) /\ ipage = NextPage(p)
            /\ dwrd = Frame(t, p, Subframe(5, t, 0, p))
         \/ /\ used = FALSE /\ g0 = [week |-> 0, sec |-> 0] /\ ipage = p
            /\ dwrd = [k \in 0..5 |-> NoSubframe]
      /\ rho0 = [g |-> t, lag |-> l]
      /\ iword = 0 /\ ibit = 0 /\ icode = 0
      /\ dataBit = Bit([k \in 0..5 |-> NoSubframe], 0, 0)
      /\ codes = 0 /\ tx = 0 /\ again = FALSE
  BY DEF Init
<1>1. t \in Nat /\ p \in Int  BY TimesAssumption
<1>2. [k \in 0..5 |-> NoSubframe] \in [0..5 -> SubframeType]  BY DEF NoSubframe, SubframeType
<1>3. g0 \in Reference /\ g0.sec % 30000 = 0
  <2>1. [week |-> 0, sec |-> 0] \in Reference  BY WeekRange DEF Reference
  <2> QED  BY <1>0, <1>1, <2>1, AlignFacts
<1>4a. dwrd \in [0..5 -> SubframeType] /\ ipage \in Int
  <2>1. NextPage(p) \in Int  BY <1>1 DEF NextPage, MaxPage
  <2>2. Frame(t, p, Subframe(5, t, 0, p)) \in [0..5 -> SubframeType]
    BY <1>1, FrameFacts, FirstSubframe
  <2> QED  BY <1>0, <1>1, <1>2, <2>1, <2>2
<1>4. dataBit \in [sub : 0..5, tow : Nat, word : 0..9, bit : 0..29]
  <2> DEFINE d == [k \in 0..5 |-> NoSubframe]
  <2>1. d \in [0..5 -> SubframeType] /\ dataBit = Bit(d, 0, 0)  BY <1>0, <1>2
  <2> HIDE DEF d
  <2>2. 0 \in 0..59 /\ 0 \in 0..29  OBVIOUS
  <2> QED  BY <2>1, <2>2, BitType
<1>5. TypeOK
  <2>1. rho0 \in [g : Nat, lag : Lags]
    <3>1. rho0 = [g |-> t, lag |-> l]  BY <1>0
    <3> QED  BY <1>1, <3>1
  <2>2. used \in BOOLEAN /\ again \in BOOLEAN  BY <1>0
  <2>3. grx \in Nat /\ pc \in {"compute", "samples"} /\ tx \in Int  BY <1>0, <1>1
  <2>4. iword \in 0..59 /\ ibit \in 0..29 /\ icode \in 0..19 /\ codes \in 0..101  BY <1>0
  <2>5. g0 \in [week : Nat, sec : 0..Week]  BY <1>3 DEF Reference
  <2> QED  BY <1>4a, <1>4, <2>1, <2>2, <2>3, <2>4, <2>5 DEF TypeOK
<1>6. MessageFresh
  <2> SUFFICES ASSUME used PROVE MessageFresh  BY DEF MessageFresh
  <2>1. g0 = Align(t) /\ Abs(Align(t)) - 500 <= t /\ t < Abs(Align(t)) + 29500
    BY <1>0, <1>1, AlignFacts
  <2>2. Abs(g0) \in Nat  BY <1>3, ReferenceFacts
  <2> QED  BY <1>0, <1>1, <2>1, <2>2 DEF MessageFresh
<1>7. PositionRight  BY <1>0 DEF PositionRight
<1>8. MessageRight
  <2> SUFFICES ASSUME used PROVE MessageRight  BY DEF MessageRight
  <2> QED  BY <1>0, <1>1, FrameFacts, FirstSubframe DEF MessageRight
<1> QED  BY <1>3, <1>5, <1>6, <1>7, <1>8 DEF NavInv, Aligned

(* The position of time x in a message with reference a, *)
At(w, b, c, x, a) == /\ w \in 0..59 /\ b \in 0..29 /\ c \in 0..19 /\ x \in Int
                     /\ w * 600 + b * 20 + c = x - a + 6000

(* as found from receiver time r and travel time l. *)
Ims(r, a, l) == r - a + 6000 - l
InTime(r, a) == r \in Nat /\ a \in Nat /\ a - 500 <= r /\ r < a + 29950
UnderWay(l) == l \in Nat /\ 51 <= l /\ l <= 5500

LEMMA Place ==
    ASSUME NEW r, NEW a, NEW l, InTime(r, a), UnderWay(l)
    PROVE  /\ At(Ims(r, a, l) \div 600, (Ims(r, a, l) % 600) \div 20, Ims(r, a, l) % 20, r - l, a)
           /\ r - l <= r - 51
<1>1. r \in Nat /\ a \in Nat /\ a - 500 <= r /\ r < a + 29950  BY DEF InTime
<1>2. l \in Nat /\ 51 <= l /\ l <= 5500  BY DEF UnderWay
<1> DEFINE ims == Ims(r, a, l)
<1>3. ims \in Nat /\ ims <= 35898 /\ ims = r - l - a + 6000  BY SMT, <1>1, <1>2 DEF Ims
<1> HIDE DEF ims
<1>4. /\ ims \div 600 \in 0..59 /\ (ims % 600) \div 20 \in 0..29 /\ ims % 20 \in 0..19
      /\ (ims \div 600) * 600 + ((ims % 600) \div 20) * 20 + (ims % 20) = ims
  BY SMT, <1>3
<1>5. r - l \in Int /\ r - l <= r - 51  BY SMT, <1>1, <1>2
<1> QED  BY SMT, <1>3, <1>4, <1>5 DEF At, ims

LEMMA ComputeHolds == NavInv /\ Compute => NavInv'
<1> SUFFICES ASSUME NavInv, Compute PROVE NavInv'  OBVIOUS
<1> DEFINE r == rho0.g
           l == rho0.lag
           a == Abs(g0)
<1>1. a \in Nat  BY ReferenceFacts DEF NavInv, TypeOK, Aligned, Reference
<1>2. r \in Nat /\ UnderWay(l)
  <2>1. rho0 \in [g : Nat, lag : Lags]  BY DEF NavInv, TypeOK
  <2>2. r \in Nat /\ l \in Lags  BY <2>1
  <2>3. \A x \in Lags : UnderWay(x)  BY LagsAssumption DEF UnderWay
  <2> QED  BY <2>2, <2>3
<1>3. grx \in Nat /\ r = grx - 100 /\ a - 500 <= grx - 100 /\ grx - 100 < a + 29950
  BY DEF NavInv, TypeOK, MessageFresh, Compute
<1>4. InTime(r, a)
  <2> HIDE DEF r, a
  <2> QED  BY SMT, <1>1, <1>2, <1>3 DEF InTime
<1>5. /\ iword' = Ims(r, a, l) \div 600 /\ ibit' = (Ims(r, a, l) % 600) \div 20
      /\ icode' = Ims(r, a, l) % 20 /\ tx' = r - l
      /\ dataBit' = Bit(dwrd, iword', ibit')
      /\ codes' = 0 /\ pc' = "samples" /\ used
      /\ \E m \in Lags : rho0' = [g |-> grx, lag |-> m]
      /\ UNCHANGED <<grx, used, g0, dwrd, ipage, again>>
  BY DEF Compute, nav, Ims
<1>6. At(iword', ibit', icode', tx', a) /\ tx' <= r - 51
  <2>1. /\ At(Ims(r, a, l) \div 600, (Ims(r, a, l) % 600) \div 20, Ims(r, a, l) % 20, r - l, a)
        /\ r - l <= r - 51
    <3> HIDE DEF r, l, a
    <3> QED  BY <1>2, <1>4, Place
  <2> DEFINE w == Ims(r, a, l) \div 600
             b == (Ims(r, a, l) % 600) \div 20
             c == Ims(r, a, l) % 20
             x == r - l
  <2>2. iword' = w /\ ibit' = b /\ icode' = c /\ tx' = x  BY <1>5
  <2>3. At(w, b, c, x, a) /\ x <= r - 51  BY <2>1
  <2> HIDE DEF w, b, c, x, r, l, a
  <2> QED  BY <2>2, <2>3
<1>7. /\ iword' \in 0..59 /\ ibit' \in 0..29 /\ icode' \in 0..19 /\ tx' \in Int
      /\ iword' * 600 + ibit' * 20 + icode' = tx' - a + 6000
  <2> HIDE DEF a
  <2> QED  BY SMT, <1>6 DEF At
<1>8. TypeOK'
  <2>1. dataBit' \in [sub : 0..5, tow : Nat, word : 0..9, bit : 0..29]
    <3>1. dwrd \in [0..5 -> SubframeType]  BY DEF NavInv, TypeOK
    <3>2. dataBit' = Bit(dwrd, iword', ibit') /\ iword' \in 0..59 /\ ibit' \in 0..29
      BY <1>5, <1>7
    <3> HIDE <1>5, <1>6, <1>7
    <3> QED  BY Zenon, <3>1, <3>2, BitType
  <2>2. codes' \in 0..101 /\ pc' \in {"compute", "samples"}  BY <1>5
  <2>3. rho0' \in [g : Nat, lag : Lags]
    <3>1. PICK m \in Lags : rho0' = [g |-> grx, lag |-> m]  BY <1>5
    <3> QED  BY <1>3, <3>1
  <2> QED  BY <1>5, <1>7, <2>1, <2>2, <2>3 DEF NavInv, TypeOK
<1>9. MessageFresh'
  <2>1. Abs(g0') = a /\ rho0'.g = grx /\ grx' = grx /\ pc' = "samples"  BY <1>5
  <2> HIDE DEF a, r
  <2> QED  BY SMT, <1>3, <2>1 DEF MessageFresh
<1>10. PositionRight'
  <2>1. Abs(g0') = a /\ dwrd' = dwrd /\ grx' = grx /\ codes' = 0  BY <1>5
  <2>2. tx' <= grx' - 100 - 51 + codes'
    <3> HIDE DEF a, r
    <3> QED  BY SMT, <1>2, <1>3, <1>6, <2>1
  <2>3. dataBit' = Bit(dwrd', iword', ibit')  BY <1>5
  <2> HIDE DEF a, r
  <2> QED  BY SMT, <1>7, <2>1, <2>2, <2>3 DEF PositionRight
<1>11. Aligned' /\ MessageRight'  BY <1>5 DEF NavInv, Aligned, MessageRight
<1> QED  BY <1>8, <1>9, <1>10, <1>11 DEF NavInv

LEMMA SkipHolds == NavInv /\ Skip => NavInv'
<1> SUFFICES ASSUME NavInv, Skip PROVE NavInv'  OBVIOUS
<1>1. ~used /\ used' = used /\ pc' = "samples"
      /\ UNCHANGED <<grx, g0, dwrd, ipage, again, rho0, iword, ibit, icode, dataBit, codes, tx>>
  BY DEF Skip, nav, position
<1> QED  BY <1>1 DEF NavInv, TypeOK, MessageFresh, Aligned, PositionRight, MessageRight

LEMMA NextCodeHolds == NavInv /\ NextCode => NavInv'
<1> SUFFICES ASSUME NavInv, NextCode PROVE NavInv'  OBVIOUS
<1> DEFINE a == Abs(g0)
<1>1. a \in Nat  BY ReferenceFacts DEF NavInv, TypeOK, Aligned, Reference
<1>2. /\ iword \in 0..59 /\ ibit \in 0..29 /\ icode \in 0..19 /\ codes \in 0..100
      /\ tx \in Int /\ grx \in Nat /\ dwrd \in [0..5 -> SubframeType]
  BY DEF NavInv, TypeOK, NextCode
<1>3. /\ iword * 600 + ibit * 20 + icode = tx - a + 6000 /\ tx <= grx - 100 - 51 + codes
      /\ dataBit = Bit(dwrd, iword, ibit) /\ grx - 100 < a + 29950
  BY DEF NavInv, PositionRight, MessageFresh, NextCode
<1>4. /\ pc = "samples" /\ pc' = pc /\ used /\ codes' = codes + 1 /\ tx' = tx + 1
      /\ UNCHANGED <<grx, used, g0, dwrd, ipage, again, rho0>>
  BY DEF NextCode, nav
<1>5. Abs(g0') = a  BY <1>4
<1> HIDE DEF a
<1>6. iword * 600 + ibit * 20 + icode + 1 < 36000  BY <1>1, <1>2, <1>3
<1>7. /\ iword' \in 0..59 /\ ibit' \in 0..29 /\ icode' \in 0..19
      /\ iword' * 600 + ibit' * 20 + icode' = iword * 600 + ibit * 20 + icode + 1
      /\ dataBit' = Bit(dwrd, iword', ibit')
  <2>1. CASE icode + 1 >= 20
    <3>1. /\ icode' = 0 /\ ibit' = (IF ibit + 1 >= 30 THEN 0 ELSE ibit + 1)
          /\ iword' = (IF ibit + 1 >= 30 THEN iword + 1 ELSE iword)
          /\ dataBit' = Bit(dwrd, iword', ibit')
      BY <2>1 DEF NextCode, WordFull
    <3> QED  BY <1>2, <1>6, <2>1, <3>1
  <2>2. CASE ~(icode + 1 >= 20)
    <3>1. icode' = icode + 1 /\ iword' = iword /\ ibit' = ibit /\ dataBit' = dataBit
      BY <2>2 DEF NextCode
    <3> QED  BY <1>2, <1>3, <2>2, <3>1
  <2> QED  BY <2>1, <2>2
<1>8. TypeOK'
  <2>1. dataBit' \in [sub : 0..5, tow : Nat, word : 0..9, bit : 0..29]
    <3>1. dwrd \in [0..5 -> SubframeType]  BY <1>2
    <3>2. dataBit' = Bit(dwrd, iword', ibit')  BY <1>7
    <3>3. iword' \in 0..59 /\ ibit' \in 0..29  BY <1>7
    <3> QED  BY <3>1, <3>2, <3>3, BitType
  <2> QED  BY <1>2, <1>4, <1>7, <2>1 DEF NavInv, TypeOK
<1>9. PositionRight'
  <2>1. tx' <= grx' - 100 - 51 + codes' /\ tx' - a + 6000 = tx - a + 6000 + 1  BY <1>1, <1>2, <1>3, <1>4
  <2> QED  BY <1>3, <1>4, <1>5, <1>7, <2>1 DEF PositionRight
<1>10. MessageFresh' /\ Aligned' /\ MessageRight'
  BY <1>4, <1>5 DEF NavInv, MessageFresh, Aligned, MessageRight, a
<1> QED  BY <1>8, <1>9, <1>10 DEF NavInv

(* allocateChannel gives the channel to a satellite. *)
LEMMA AllocateHolds ==
    ASSUME NavInv, NEW p \in Int, Allocate(grx, p), used' = TRUE,
           grx' = grx + 100, pc' = "compute", UNCHANGED <<position, codes, tx>>
    PROVE  NavInv'
<1>1. grx \in Nat  BY DEF NavInv, TypeOK
<1>2. g0' = Align(grx) /\ ipage' = NextPage(p) /\ again' = FALSE
      /\ dwrd' = Frame(grx, p, Subframe(5, grx, 0, p))
      /\ \E l \in Lags : rho0' = [g |-> grx, lag |-> l]
  BY DEF Allocate
<1>3. g0' \in Reference /\ Abs(g0') - 500 <= grx /\ grx < Abs(g0') + 29500 /\ g0'.sec % 30000 = 0
  BY <1>1, <1>2, AlignFacts
<1>4. Abs(g0') \in Nat  BY <1>3, ReferenceFacts
<1>5. ipage' \in Int /\ dwrd' \in [0..5 -> SubframeType]
  BY <1>1, <1>2, FrameFacts, FirstSubframe DEF NextPage, MaxPage
<1>6. TypeOK'
  <2>1. rho0' \in [g : Nat, lag : Lags]
    <3>1. PICK l \in Lags : rho0' = [g |-> grx, lag |-> l]  BY <1>2
    <3> QED  BY <1>1, <3>1
  <2>2. g0' \in [week : Nat, sec : 0..Week]  BY <1>3 DEF Reference
  <2>3a. grx' \in Nat /\ pc' \in {"compute", "samples"}  BY <1>1
  <2>3b. used' \in BOOLEAN  OBVIOUS
  <2>3c. again' \in BOOLEAN  BY <1>2
  <2>4. UNCHANGED <<iword, ibit, icode, dataBit, codes, tx>>  BY DEF position
  <2> QED  BY <1>5, <2>1, <2>2, <2>3a, <2>3b, <2>3c, <2>4 DEF NavInv, TypeOK
<1>7. MessageFresh'  BY <1>1, <1>2, <1>3, <1>4 DEF MessageFresh
<1>8. MessageRight'  BY <1>1, <1>2, FrameFacts, FirstSubframe DEF MessageRight
<1>9. PositionRight' /\ Aligned'  BY <1>3 DEF PositionRight, Aligned
<1> QED  BY <1>6, <1>7, <1>8, <1>9 DEF NavInv

(* A new message for the same satellite. *)
LEMMA RenewHolds ==
    ASSUME NavInv, used, Renew, Due(grx), used' \in BOOLEAN,
           grx' = grx + 100, pc = "samples", pc' = "compute", UNCHANGED <<position, codes, tx>>
    PROVE  NavInv'
<1> DEFINE a == Abs(g0)
           b == Abs(g0')
<1>1. grx \in Nat /\ ipage \in Int /\ dwrd \in [0..5 -> SubframeType]
      /\ g0 \in Reference /\ g0.sec % 30000 = 0
  BY DEF NavInv, TypeOK, Aligned, Reference
<1>2. g0' = Align(grx) /\ ipage' = NextPage(ipage) /\ again' = (b = a) /\ rho0' = rho0
      /\ dwrd' = Frame(grx, ipage, dwrd[5])
  BY DEF Renew, Last
<1>3. a - 500 <= grx - 100 /\ grx - 100 < a + 29950 /\ rho0.g = grx
  BY DEF NavInv, MessageFresh
<1>4. a \in Nat  BY <1>1, ReferenceFacts
<1>5. g0' \in Reference /\ g0'.sec % 30000 = 0  BY <1>1, <1>2, AlignFacts
<1>6. b \in Nat  BY <1>5, ReferenceFacts
<1>7. (b = a \/ b = a + 30000) /\ b - 50 <= grx /\ grx < b + 50
  <2>1. a - 500 <= grx /\ grx < a + 30050
    <3> HIDE DEF a
    <3> QED  BY <1>1, <1>3, <1>4
  <2> QED  BY <1>1, <1>2, <2>1, NextReference
<1>8. dwrd[5] \in SubframeType /\ dwrd[5].sub = 5 /\ dwrd[5].tow = g0.sec \div 6000 + 5
  BY <1>1 DEF NavInv, MessageRight
<1>9. TypeOK'
  <2>1. dwrd' \in [0..5 -> SubframeType] /\ ipage' \in Int
    BY <1>1, <1>2, <1>8, FrameFacts DEF NextPage, MaxPage
  <2>2. again' \in BOOLEAN  BY <1>2
  <2> QED  BY <1>1, <1>2, <1>5, <2>1, <2>2 DEF NavInv, TypeOK, Reference, position
<1>10. MessageFresh'
  <2> HIDE DEF b
  <2>1. b - 500 <= grx' - 100 /\ grx' - 100 < b + 29950 /\ grx = grx' - 100  BY <1>1, <1>6, <1>7
  <2> QED  BY <1>2, <1>3, <2>1 DEF MessageFresh, b
<1>11. MessageRight'
  <2>1. b = a \/ (g0.sec \div 6000 + 5) % 100800 = (g0'.sec \div 6000) % 100800
    <3>1. CASE b = a  BY <3>1
    <3>2. CASE b = a + 30000  BY <1>1, <1>5, <3>2, FrameLater
    <3> QED  BY <1>7, <3>1, <3>2
  <2>1a. b = a => again'  BY <1>2
  <2>2. dwrd'[0] = dwrd[5] /\ \A k \in 1..5 : dwrd'[k].sub = k /\ dwrd'[k].tow = g0'.sec \div 6000 + k
    BY <1>1, <1>2, <1>8, FrameFacts
  <2> QED  BY <1>8, <2>1, <2>1a, <2>2 DEF MessageRight
<1>12. PositionRight' /\ Aligned'  BY <1>5 DEF PositionRight, Aligned
<1> QED  BY <1>9, <1>10, <1>11, <1>12 DEF NavInv

LEMMA EndRoundHolds == NavInv /\ EndRound => NavInv'
<1> SUFFICES ASSUME NavInv, EndRound PROVE NavInv'  OBVIOUS
<1>1. /\ grx' = grx + 100 /\ pc = "samples" /\ pc' = "compute" /\ UNCHANGED <<position, codes, tx>>
      /\ grx \in Nat /\ ipage \in Int
  BY DEF EndRound, NavInv, TypeOK
<1>2. CASE ~Due(grx)
  <2>1. UNCHANGED <<used, g0, dwrd, ipage, again, rho0>>  BY <1>2 DEF EndRound, nav
  <2>2. TypeOK'  BY <1>1, <2>1 DEF NavInv, TypeOK, position
  <2>3. MessageFresh'
    <3> SUFFICES ASSUME used PROVE MessageFresh'  BY <2>1 DEF MessageFresh
    <3> DEFINE a == Abs(g0)
    <3>1. g0 \in Reference /\ g0.sec % 30000 = 0  BY DEF NavInv, TypeOK, Aligned, Reference
    <3>2. a \in Nat  BY <3>1, ReferenceFacts
    <3>3. a - 500 <= grx - 100 /\ grx - 100 < a + 29950 /\ rho0.g = grx
      BY <1>1 DEF NavInv, MessageFresh
    <3>4. a - 500 <= grx /\ grx < a + 30050
      <4> HIDE DEF a
      <4> QED  BY <1>1, <3>2, <3>3
    <3>5. grx < a + 29950  BY <1>1, <1>2, <3>1, <3>4, NextReference
    <3>6. Abs(g0') = a  BY <2>1
    <3> HIDE DEF a
    <3>7. grx' - 100 = grx  BY <1>1
    <3> QED  BY <1>1, <2>1, <3>3, <3>4, <3>5, <3>6, <3>7 DEF MessageFresh
  <2>4. Aligned' /\ MessageRight' /\ PositionRight'
    BY <1>1, <2>1 DEF NavInv, Aligned, MessageRight, PositionRight
  <2> QED  BY <2>2, <2>3, <2>4 DEF NavInv
<1>3. CASE Due(grx)
  <2>0. NextPage(ipage) \in Int  BY <1>1 DEF NextPage, MaxPage
  <2>1. CASE Continue \/ Clear
    <3>1. used /\ Renew  BY <2>1 DEF Continue, Clear
    <3>2. used' \in BOOLEAN
      <4>1. CASE Continue  BY <4>1 DEF Continue, NavInv, TypeOK
      <4>2. CASE Clear  BY <4>2 DEF Clear
      <4> QED  BY <2>1, <4>1, <4>2
    <3> QED  BY <1>1, <1>3, <3>1, <3>2, RenewHolds
  <2>2. CASE Replace  BY <1>1, <2>0, <2>2, AllocateHolds DEF Replace, NavInv, TypeOK
  <2>3. CASE Occupy  BY <1>1, <2>3, AllocateHolds DEF Occupy
  <2>4. CASE StayUnused
    <3>1. ~used /\ UNCHANGED <<used, g0, dwrd, ipage, again, rho0>>  BY <2>4 DEF StayUnused, nav
    <3> QED  BY <1>1, <3>1 DEF NavInv, TypeOK, MessageFresh, Aligned, MessageRight, PositionRight, position
  <2> QED  BY <1>3, <2>1, <2>2, <2>3, <2>4 DEF EndRound
<1> QED  BY <1>2, <1>3

LEMMA NavInvariant == Spec => []NavInv
<1>1. NavInv /\ [Next]_vars => NavInv'
  <2> SUFFICES ASSUME NavInv, [Next]_vars PROVE NavInv'  OBVIOUS
  <2>1. CASE Next  BY <2>1, ComputeHolds, SkipHolds, NextCodeHolds, EndRoundHolds DEF Next
  <2>2. CASE UNCHANGED vars
    BY <2>2 DEF vars, nav, position, NavInv, TypeOK, MessageFresh, Aligned, PositionRight, MessageRight
  <2> QED  BY <2>1, <2>2
<1> QED  BY <1>1, InitHolds, PTL DEF Spec

-----------------------------------------------------------------------------
(* Nothing leaves its range; the word index is inside dwrd[].               *)
THEOREM WordInside == Spec => []TypeOK
<1>1. NavInv => TypeOK  BY DEF NavInv
<1> QED  BY <1>1, NavInvariant, PTL

(* Every bit sent is the one that is due.                                   *)
THEOREM BitsRight == Spec => []RightBit
<1>1. NavInv => RightBit
  <2> SUFFICES ASSUME NavInv, pc = "samples", used, ~(again /\ iword < 10)
               PROVE  [dataBit EXCEPT !.tow = @ % 100800] = BitAt(tx)
    BY DEF RightBit
  <2> DEFINE a == Abs(g0)
             c == g0.sec \div 6000
             k == iword \div 10
  <2>1. g0 \in Reference /\ g0.sec % 30000 = 0  BY DEF NavInv, TypeOK, Aligned, Reference
  <2>2. a \in Nat /\ a % 30000 = 0 /\ c \in Nat /\ (a \div 6000) % 100800 = c % 100800
    BY <2>1, ReferenceFacts
  <2>3. /\ iword \in 0..59 /\ ibit \in 0..29 /\ icode \in 0..19 /\ tx \in Int
        /\ dwrd \in [0..5 -> SubframeType]
    BY DEF NavInv, TypeOK
  <2>4. iword * 600 + ibit * 20 + icode = tx - a + 6000 /\ dataBit = Bit(dwrd, iword, ibit)
    BY DEF NavInv, PositionRight
  <2>5. k \in 0..5 /\ iword = k * 10 + (iword % 10) /\ iword % 10 \in 0..9  BY <2>3
  <2>6. /\ k \in 1..5 => dwrd[k].sub = k /\ dwrd[k].tow = c + k
        /\ k = 0 => dwrd[k].sub = 5 /\ dwrd[k].tow % 100800 = c % 100800
    <3>1. k = 0 => iword < 10  BY <2>3, <2>5
    <3> QED  BY <2>5, <3>1 DEF NavInv, MessageRight
  <2>7. dataBit = [sub |-> dwrd[k].sub, tow |-> dwrd[k].tow, word |-> iword % 10, bit |-> ibit]
    BY <2>3, <2>4 DEF Bit
  <2>8. [dataBit EXCEPT !.tow = @ % 100800]
           = [sub |-> dwrd[k].sub, tow |-> dwrd[k].tow % 100800, word |-> iword % 10, bit |-> ibit]
    BY <2>7
  <2> HIDE DEF a, c, k
  <2>9. PICK n \in Nat : a = n * 30000
    <3>1. a \div 30000 \in Nat /\ a = (a \div 30000) * 30000  BY <2>2
    <3> QED  BY <3>1
  <2>10. tx = n * 30000 - 6000 + k * 6000 + (iword % 10) * 600 + ibit * 20 + icode
    BY <2>2, <2>3, <2>4, <2>5, <2>9
  <2> DEFINE w == iword % 10
  <2>11. w \in 0..9  BY <2>5
  <2> HIDE DEF w
  <2>12. tx = (n * 5 - 1 + k) * 6000 + w * 600 + ibit * 20 + icode
    BY <2>5, <2>9, <2>10, <2>11 DEF w
  <2>13. PICK m \in Int : m = n * 5 - 1 + k  BY <2>5, <2>9
  <2>14. tx \div 6000 = m /\ tx % 6000 = w * 600 + ibit * 20 + icode
    <3>1. PICK r \in Nat : r = w * 600 + ibit * 20 + icode /\ r < 6000  BY <2>3, <2>11
    <3>2. tx = m * 6000 + r
      <4>1. tx = (n * 5 - 1 + k) * 6000 + (w * 600 + ibit * 20 + icode)
        BY <2>3, <2>5, <2>9, <2>11, <2>12
      <4>2. n * 5 - 1 + k = m /\ w * 600 + ibit * 20 + icode = r  BY <2>13, <3>1
      <4> QED  BY <4>1, <4>2
    <3>3. tx \div 6000 = m /\ tx % 6000 = r  BY <2>13, <3>1, <3>2
    <3> QED  BY <3>1, <3>3
  <2>15. (tx % 6000) \div 600 = w  BY <2>3, <2>11, <2>14
  <2>16. (tx % 600) \div 20 = ibit
    <3>1. tx % 600 = ibit * 20 + icode
      <4>1. tx = (m * 10 + w) * 600 + (ibit * 20 + icode)  BY <2>3, <2>11, <2>12, <2>13
      <4> QED  BY <2>3, <2>11, <4>1
    <3> QED  BY <2>3, <3>1
  <2>17. (m % 5) + 1 = dwrd[k].sub
    <3>1. CASE k = 0  BY <2>6, <2>9, <2>13, <3>1
    <3>2. CASE k \in 1..5
      <4>1. m = n * 5 + (k - 1)  BY <2>9, <2>13, <3>2
      <4>2. m % 5 = k - 1  BY <2>9, <3>2, <4>1
      <4> QED  BY <2>6, <3>2, <4>2
    <3> QED  BY <2>5, <3>1, <3>2
  <2>18. (m + 1) % 100800 = dwrd[k].tow % 100800
    <3>1. m + 1 = n * 5 + k /\ a \div 6000 = n * 5  BY <2>5, <2>9, <2>13
    <3>2. (n * 5 + k) % 100800 = (c + k) % 100800
      <4>1. PICK x \in Nat : x = n * 5  BY <2>9
      <4>2. x % 100800 = c % 100800  BY <2>2, <3>1, <4>1
      <4>3. (x + k) % 100800 = (c + k) % 100800  BY <2>2, <2>5, <4>1, <4>2
      <4> QED  BY <4>1, <4>3
    <3>3. CASE k = 0  BY <2>2, <2>6, <3>1, <3>2, <3>3
    <3>4. CASE k \in 1..5  BY <2>6, <3>1, <3>2, <3>4
    <3> QED  BY <2>5, <3>3, <3>4
  <2> QED  BY <2>8, <2>14, <2>15, <2>16, <2>17, <2>18 DEF BitAt, w
<1> QED  BY <1>1, NavInvariant, PTL

-----------------------------------------------------------------------------
(* Pages.  A page in range is followed by one in range, and the subframes   *)
(* that follow a first one are of the same page.                            *)
LEMMA PageFacts ==
    ASSUME NEW p \in ValidPages
    PROVE  /\ NextPage(p) \in ValidPages
           /\ \A t, f : f.page \in ValidPages =>
                  \A k \in 0..5 : Frame(t, p, f)[k].page \in ValidPages
           /\ \A t : Subframe(5, t, 0, p).page \in ValidPages
<1>1. p \in 0..24 /\ NextPage(p) \in 0..24  BY DEF ValidPages, NextPage, MaxPage
<1>2. \A t, f, k : k \in 0..5 => Frame(t, p, f)[k] = IF k = 0 THEN f ELSE Subframe(k, t, k, p)
  BY DEF Frame
<1>3. \A t, k, n : Subframe(k, t, n, p).page = p  BY DEF Subframe
<1> QED  BY <1>1, <1>2, <1>3 DEF ValidPages, MaxPage

LEMMA PagesStep == PagesRight /\ [Next]_vars => PagesRight'
<1> SUFFICES ASSUME PagesRight, [Next]_vars PROVE PagesRight'  OBVIOUS
<1>1. ipage \in ValidPages /\ NextPage(ipage) \in ValidPages /\ dwrd[5].page \in ValidPages
  BY PageFacts DEF PagesRight
<1>2. CASE UNCHANGED <<ipage, dwrd>>  BY <1>2 DEF PagesRight
<1>3. CASE Renew
  BY <1>1, <1>3, PageFacts DEF Renew, Last, PagesRight
<1>4. ASSUME NEW p \in ValidPages, Allocate(grx, p) PROVE PagesRight'
  BY <1>4, PageFacts DEF Allocate, PagesRight
<1>5. CASE EndRound
  BY <1>1, <1>2, <1>3, <1>4, <1>5 DEF EndRound, Continue, Clear, Replace, Occupy, StayUnused, nav
<1> QED
  BY <1>2, <1>5 DEF Next, Compute, Skip, NextCode, vars, nav

(* Once the page counter and the subframes of a channel are of pages that   *)
(* exist, they stay so, whatever the memory of ipage, which the code does   *)
(* not initialise, held at first.                                           *)
THEOREM PagesKept == Spec => PagesStay
<1>1. [Next]_vars => [PagesRight => PagesRight']_vars
  <2> SUFFICES ASSUME Next, PagesRight PROVE PagesRight'  OBVIOUS
  <2> QED  BY PagesStep
<1> QED  BY <1>1, PTL DEF Spec, PagesStay

=============================================================================
