--------------------------- MODULE ChannelsProofs ---------------------------
(* Theorems about the channel tables, for any number of channels,           *)
(* satellites and sets of ephemerides and for all navigation files.         *)
EXTENDS Channels, FiniteSetTheorems, TLAPS

(* The set that was in use precedes the one it was changed for. *)
LEMMA PrecedingSet == ASSUME NEW i \in Set
                      PROVE  LET n == IF i + 1 >= Sets THEN 0 ELSE i + 1
                             IN  n \in Set /\ i \in Before(n)
<1>1. Sets \in Nat /\ Sets > 0 /\ i \in 0..(Sets - 1)  BY SizeAssumption DEF Set
<1>2. CASE i + 1 >= Sets
  <2>1. i + 1 = Sets  BY <1>1, <1>2
  <2>2. Sets % Sets = 0  BY <1>1
  <2> QED  BY <1>1, <2>1, <2>2 DEF Set, Before
<1>3. CASE ~(i + 1 >= Sets)
  <2>1. (i + 1) % Sets = i + 1  BY <1>1, <1>3
  <2> QED  BY <1>1, <1>3, <2>1 DEF Set, Before
<1> QED  BY <1>2, <1>3

LEMMA InitHolds == Init => ChannelsInv
<1> SUFFICES ASSUME Init PROVE ChannelsInv  OBVIOUS
<1> USE SizeAssumption DEF Init
<1>1. TypeOK  BY FilesAssumption DEF TypeOK, From, Nothing, Chan, Sat, Set
<1>2. TablesAgree  BY DEF TablesAgree, Chan, Sat
<1>3. SubframesCurrent /\ ValidSoFar /\ MessageFollows
  BY DEF SubframesCurrent, ValidSoFar, MessageFollows
<1> QED  BY <1>1, <1>2, <1>3 DEF ChannelsInv

LEMMA GenerateHolds == ChannelsInv /\ GenerateMessages => ChannelsInv'
<1> SUFFICES ASSUME ChannelsInv, GenerateMessages PROVE ChannelsInv'  OBVIOUS
<1> USE DEF ChannelsInv, GenerateMessages
<1>1. TypeOK'  BY DEF TypeOK
<1>2. TablesAgree'  BY DEF TablesAgree
<1>3. SubframesCurrent' /\ ValidSoFar'  BY DEF SubframesCurrent, ValidSoFar
<1>4. MessageFollows'
  BY DEF MessageFollows, SubframesCurrent, TypeOK
<1> QED  BY <1>1, <1>2, <1>3, <1>4

LEMMA RefreshHolds == ChannelsInv /\ Refresh => ChannelsInv'
<1> SUFFICES ASSUME ChannelsInv, Refresh PROVE ChannelsInv'  OBVIOUS
<1> USE DEF ChannelsInv, Refresh
<1>0. TablesAgree'  BY DEF TablesAgree
<1>1. ValidSoFar'  BY DEF ValidSoFar, TypeOK
<1>2. CASE KeepSet
  <2>1. TypeOK'  BY <1>2, SizeAssumption DEF TypeOK, KeepSet
  <2>2. SubframesCurrent'  BY <1>2 DEF SubframesCurrent, KeepSet
  <2>3. MessageFollows'  BY <1>2 DEF MessageFollows, KeepSet, Before
  <2> QED  BY <1>0, <1>1, <2>1, <2>2, <2>3
<1>3. CASE NextSet
  <2>1. ieph' \in Set /\ ieph \in Before(ieph')
    BY <1>3, PrecedingSet DEF NextSet, TypeOK
  <2>2. TypeOK'
    <3>1. sbf' \in [Chan -> From]
      BY <1>3, <2>1, SizeAssumption DEF NextSet, Subframes, TypeOK, From, Sat
    <3> QED  BY <2>1, <3>1, SizeAssumption DEF TypeOK
  <2>3. SubframesCurrent'  BY <1>3 DEF SubframesCurrent, NextSet, Subframes
  <2>4. MessageFollows'  BY <2>1 DEF MessageFollows
  <2> QED  BY <1>0, <1>1, <2>2, <2>3, <2>4
<1> QED  BY <1>2, <1>3

(* The loop of allocateChannel, one satellite. *)
LEMMA AllocateHolds == ChannelsInv /\ AllocateChannel => ChannelsInv'
<1> SUFFICES ASSUME ChannelsInv, AllocateChannel PROVE ChannelsInv'  OBVIOUS
<1> USE DEF ChannelsInv, AllocateChannel
<1>1. sv \in Sat /\ sv' = sv + 1 /\ sv' \in 0..MaxSat /\ pc = "allocate" /\ pc' = pc
  BY SizeAssumption DEF TypeOK, Sat
<1>2. CASE AllocateNew
  <2> PICK c \in Chan :
        /\ Free(c)
        /\ prn' = [prn EXCEPT ![c] = sv + 1]
        /\ sbf' = [sbf EXCEPT ![c] = [set |-> ieph, sv |-> sv]]
        /\ msg' = [msg EXCEPT ![c] = [set |-> ieph, sv |-> sv]]
        /\ allocatedSat' = [allocatedSat EXCEPT ![sv] = c]
    BY <1>2 DEF AllocateNew
  <2>1. prn[c] = 0 /\ sv \in vflg[ieph] /\ allocatedSat[sv] = -1
    BY <1>2 DEF AllocateNew, Free, Visible
  <2>2. TypeOK'
    <3>1. sv + 1 \in 0..MaxSat /\ [set |-> ieph, sv |-> sv] \in From
      BY <1>1 DEF TypeOK, From
    <3> QED  BY <1>1, <3>1 DEF TypeOK
  <2>3. TablesAgree'
    <3> SUFFICES ASSUME NEW s \in Sat, NEW d \in Chan
                 PROVE  allocatedSat'[s] = d <=> prn'[d] = s + 1
      BY DEF TablesAgree
    <3>1. allocatedSat[s] = d <=> prn[d] = s + 1  BY DEF TablesAgree
    <3> QED  BY <1>1, <2>1, <3>1 DEF TypeOK, Sat, Chan
  <2>4. SubframesCurrent'  BY <1>1 DEF SubframesCurrent, TypeOK, Sat
  <2>5. ValidSoFar'
    <3> SUFFICES ASSUME NEW d \in Chan, prn'[d] # 0, prn'[d] - 1 < sv'
                 PROVE  prn'[d] - 1 \in vflg[ieph]
      BY <1>1 DEF ValidSoFar
    <3>1. CASE d = c  BY <1>1, <2>1, <3>1 DEF TypeOK, Sat
    <3>2. CASE d # c
      <4>1. prn'[d] = prn[d] /\ prn[d] # sv + 1
        BY <1>1, <2>1, <3>2 DEF TypeOK, TablesAgree, Chan
      <4> QED  BY <1>1, <4>1 DEF ValidSoFar, TypeOK, Sat
    <3> QED  BY <3>1, <3>2
  <2>6. MessageFollows'  BY <1>1 DEF MessageFollows, TypeOK, Sat
  <2> QED  BY <2>2, <2>3, <2>4, <2>5, <2>6
<1>3. CASE ClearChannel
  <2> DEFINE a == allocatedSat[sv]
  <2>1. a \in Chan /\ prn[a] = sv + 1
    BY <1>1, <1>3 DEF ClearChannel, TypeOK, TablesAgree, Chan
  <2>2. /\ prn' = [prn EXCEPT ![a] = 0]
        /\ allocatedSat' = [allocatedSat EXCEPT ![sv] = -1]
        /\ UNCHANGED <<sbf, msg>>
    BY <1>3 DEF ClearChannel
  <2> HIDE DEF a
  <2>3. TypeOK'  BY <1>1, <2>1, <2>2, SizeAssumption DEF TypeOK
  <2>4. TablesAgree'
    <3> SUFFICES ASSUME NEW s \in Sat, NEW d \in Chan
                 PROVE  allocatedSat'[s] = d <=> prn'[d] = s + 1
      BY DEF TablesAgree
    <3>1. allocatedSat[s] = d <=> prn[d] = s + 1  BY DEF TablesAgree
    <3>2. allocatedSat[sv] = a  BY DEF a
    <3> QED  BY <1>1, <2>1, <2>2, <3>1, <3>2 DEF TypeOK, Sat, Chan
  <2>5. SubframesCurrent' /\ MessageFollows'
    BY <1>1, <2>1, <2>2 DEF SubframesCurrent, MessageFollows, TypeOK
  <2>6. ValidSoFar'
    <3> SUFFICES ASSUME NEW d \in Chan, prn'[d] # 0, prn'[d] - 1 < sv'
                 PROVE  prn'[d] - 1 \in vflg[ieph]
      BY <1>1 DEF ValidSoFar
    <3>1. d # a /\ prn'[d] = prn[d]  BY <2>1, <2>2 DEF TypeOK
    <3>2. prn[d] # sv + 1
      BY <1>1, <2>1, <3>1 DEF TypeOK, TablesAgree, a
    <3> QED  BY <1>1, <3>1, <3>2 DEF ValidSoFar, TypeOK, Sat
  <2> QED  BY <2>3, <2>4, <2>5, <2>6
<1>4. CASE LeaveAsIs
  <2>1. UNCHANGED <<prn, sbf, msg, allocatedSat>>  BY <1>4 DEF LeaveAsIs
  <2>2. TypeOK' /\ TablesAgree' /\ SubframesCurrent' /\ MessageFollows'
    BY <1>1, <2>1 DEF TypeOK, TablesAgree, SubframesCurrent, MessageFollows
  <2>3. ValidSoFar'
    <3> SUFFICES ASSUME NEW d \in Chan, prn[d] # 0, prn[d] - 1 < sv + 1
                 PROVE  prn[d] - 1 \in vflg[ieph]
      BY <1>1, <2>1 DEF ValidSoFar
    <3>1. CASE prn[d] # sv + 1  BY <1>1, <3>1 DEF ValidSoFar, TypeOK, Sat
    <3>2. CASE prn[d] = sv + 1
      <4>1. allocatedSat[sv] = d  BY <1>1, <3>2 DEF TablesAgree
      <4>2. sv \in Visible  BY <1>4, <4>1, SizeAssumption DEF LeaveAsIs, Chan
      <4> QED  BY <1>1, <3>2, <4>2 DEF Visible, Sat
    <3> QED  BY <3>1, <3>2
  <2> QED  BY <2>2, <2>3
<1> QED  BY <1>2, <1>3, <1>4

LEMMA AllocatedHolds == ChannelsInv /\ Allocated => ChannelsInv'
<1> SUFFICES ASSUME ChannelsInv, Allocated PROVE ChannelsInv'  OBVIOUS
<1> USE DEF ChannelsInv, Allocated
<1>1. TypeOK'  BY DEF TypeOK, Visible
<1>2. TablesAgree' /\ SubframesCurrent' /\ MessageFollows'
  BY DEF TablesAgree, SubframesCurrent, MessageFollows
<1>3. ValidSoFar'
  BY SizeAssumption DEF ValidSoFar, TypeOK
<1> QED  BY <1>1, <1>2, <1>3

LEMMA ChannelsStep == ChannelsInv /\ [Next]_vars => ChannelsInv'
<1> SUFFICES ASSUME ChannelsInv, [Next]_vars PROVE ChannelsInv'  OBVIOUS
<1>1. CASE Next
  BY <1>1, GenerateHolds, RefreshHolds, AllocateHolds, AllocatedHolds DEF Next
<1>2. CASE UNCHANGED vars
  BY <1>2 DEF vars, ChannelsInv, TypeOK, TablesAgree, SubframesCurrent, ValidSoFar,
              MessageFollows, Before
<1> QED BY <1>1, <1>2

LEMMA ChannelsInvariant == Spec => []ChannelsInv
BY InitHolds, ChannelsStep, PTL DEF Spec

-----------------------------------------------------------------------------
(* Every variable keeps its type; the set in use is inside the array.       *)
THEOREM ChannelTypes == Spec => []TypeOK
<1>1. ChannelsInv => TypeOK  BY DEF ChannelsInv
<1> QED  BY <1>1, ChannelsInvariant, PTL

(* chan[] and allocatedSat[] agree.                                         *)
THEOREM Tables == Spec => []TablesAgree
<1>1. ChannelsInv => TablesAgree  BY DEF ChannelsInv
<1> QED  BY <1>1, ChannelsInvariant, PTL

(* computeRange is only called on valid ephemerides.                        *)
THEOREM Ephemerides == Spec => []HasEphemeris
<1>1. ChannelsInv => HasEphemeris  BY DEF ChannelsInv, ValidSoFar, HasEphemeris
<1> QED  BY <1>1, ChannelsInvariant, PTL

(* A message is at most one set behind.                                     *)
THEOREM Messages == Spec => []MessageNearlyCurrent
<1>1. ChannelsInv => MessageNearlyCurrent
  BY DEF ChannelsInv, MessageFollows, MessageNearlyCurrent
<1> QED  BY <1>1, ChannelsInvariant, PTL

-----------------------------------------------------------------------------
(* Allocation settles.  When the loop meets a visible satellite that finds  *)
(* every channel taken, the channels carry as many others, all of them      *)
(* visible: more satellites are visible than there are channels.            *)
LEMMA ChannelsTaken ==
    ASSUME TypeOK, TablesAgree, NEW V \in SUBSET Sat, NEW s \in V, allocatedSat[s] = -1,
           \A c \in Chan : prn[c] # 0 /\ prn[c] - 1 \in V
    PROVE  Cardinality(V) > MaxChan
<1> DEFINE f == [c \in Chan |-> prn[c] - 1]
<1>1. MaxChan \in Nat /\ MaxSat \in Nat  BY SizeAssumption
<1>2. IsFiniteSet(Chan) /\ Cardinality(Chan) = MaxChan
  <2>1. 0 \in Int /\ MaxChan - 1 \in Int /\ ~(0 > MaxChan - 1) /\ (MaxChan - 1) - 0 + 1 = MaxChan
    BY SizeAssumption
  <2>2. /\ IsFiniteSet(0..(MaxChan - 1))
        /\ Cardinality(0..(MaxChan - 1)) = IF 0 > MaxChan - 1 THEN 0 ELSE (MaxChan - 1) - 0 + 1
    BY <2>1, FS_Interval
  <2> QED  BY <2>1, <2>2 DEF Chan
<1>3. IsFiniteSet(V)
  <2>1. IsFiniteSet(Sat)  BY <1>1, FS_Interval DEF Sat
  <2> QED  BY <2>1, FS_Subset
<1>4. \A c \in Chan : f[c] \in V \ {s}
  <2> SUFFICES ASSUME NEW c \in Chan PROVE prn[c] - 1 \in V \ {s}  OBVIOUS
  <2>1. prn[c] # s + 1  BY DEF TypeOK, TablesAgree, Chan
  <2>2. prn[c] \in Int /\ s \in Int  BY DEF TypeOK, Sat
  <2> QED  BY <2>1, <2>2
<1>5. f \in [Chan -> V \ {s}]  BY <1>4
<1>6. \A c, d \in Chan : f[c] = f[d] => c = d
  <2> SUFFICES ASSUME NEW c \in Chan, NEW d \in Chan, prn[c] - 1 = prn[d] - 1 PROVE c = d
    OBVIOUS
  <2>1. prn[c] \in Int /\ prn[d] = prn[c]  BY DEF TypeOK
  <2>2. prn[c] - 1 \in Sat  OBVIOUS
  <2>3. prn[c] = (prn[c] - 1) + 1  BY <2>1
  <2> QED  BY <2>1, <2>2, <2>3 DEF TablesAgree
<1>7. IsFiniteSet(V \ {s}) /\ Cardinality(V \ {s}) = Cardinality(V) - 1
  BY <1>3, FS_RemoveElement
<1> HIDE DEF f
<1>8. ~(Cardinality(V \ {s}) < Cardinality(Chan))
  BY <1>2, <1>5, <1>6, <1>7, FS_PigeonHole
<1>9. Cardinality(V) \in Nat  BY <1>3, FS_CardinalityType
<1> QED  BY <1>1, <1>2, <1>7, <1>8, <1>9

LEMMA SettleInit == Init => SettleInv
<1> SUFFICES ASSUME Init PROVE InSightSoFar /\ ServedSoFar
  BY InitHolds DEF SettleInv
<1>1. InSightSoFar  BY DEF Init, InSightSoFar
<1>2. ServedSoFar  BY DEF Init, ServedSoFar, Visible
<1> QED  BY <1>1, <1>2

(* One satellite of the loop; what is visible and seen does not change.     *)
LEMMA SettleAllocate ==
    SettleInv /\ AllocateChannel => InSightSoFar' /\ ServedSoFar'
<1> SUFFICES ASSUME SettleInv, AllocateChannel PROVE InSightSoFar' /\ ServedSoFar'  OBVIOUS
<1>1. /\ sv \in Sat /\ sv' = sv + 1 /\ pc = "allocate" /\ pc' = pc
      /\ Visible' = Visible /\ seen' = seen /\ Visible \subseteq Sat
      /\ \A x \in Sat : x \in Int
  BY SizeAssumption DEF SettleInv, ChannelsInv, TypeOK, AllocateChannel, Visible, Sat
<1>2. \A c \in Chan : prn[c] \in Int /\ prn'[c] \in Int
  BY AllocateHolds DEF SettleInv, ChannelsInv, TypeOK
<1>3. /\ \A c \in Chan : prn[c] # 0 /\ prn[c] - 1 < sv => prn[c] - 1 \in Visible
      /\ seen = Visible => \A c \in Chan : prn[c] # 0 => prn[c] - 1 \in seen
  BY <1>1 DEF SettleInv, InSightSoFar
<1>4. SUFFICES ASSUME \A c \in Chan : prn'[c] # 0 =>
                         \/ prn'[c] = prn[c] /\ prn[c] # sv + 1
                         \/ prn'[c] = sv + 1 /\ sv \in Visible,
                      sv \in Visible /\ seen = Visible /\ Cardinality(Visible) <= MaxChan
                         => allocatedSat'[sv] # -1,
                      \A s \in Sat : s # sv => allocatedSat'[s] = allocatedSat[s]
               PROVE  InSightSoFar' /\ ServedSoFar'
  <2>1. CASE AllocateNew
    <3> PICK c \in Chan : /\ prn[c] = 0 /\ prn' = [prn EXCEPT ![c] = sv + 1]
                          /\ allocatedSat' = [allocatedSat EXCEPT ![sv] = c]
      BY <2>1 DEF AllocateNew, Free
    <3>1. sv \in Visible /\ allocatedSat[sv] = -1  BY <2>1 DEF AllocateNew
    <3>2. c # -1 /\ \A d \in Chan : prn[d] # sv + 1
      BY <1>1, <3>1 DEF SettleInv, ChannelsInv, TablesAgree, TypeOK, Chan
    <3>3. allocatedSat'[sv] = c /\ \A s \in Sat : s # sv => allocatedSat'[s] = allocatedSat[s]
      BY <1>1 DEF SettleInv, ChannelsInv, TypeOK
    <3>4. \A d \in Chan : prn'[d] = IF d = c THEN sv + 1 ELSE prn[d]
      BY DEF SettleInv, ChannelsInv, TypeOK
    <3> QED  BY <1>4, <3>1, <3>2, <3>3, <3>4
  <2>2. CASE ClearChannel
    <3> DEFINE a == allocatedSat[sv]
    <3>1. /\ sv \notin Visible /\ prn' = [prn EXCEPT ![a] = 0]
          /\ allocatedSat' = [allocatedSat EXCEPT ![sv] = -1]
      BY <2>2 DEF ClearChannel
    <3>2. a \in Chan /\ prn[a] = sv + 1 /\ \A d \in Chan : prn[d] = sv + 1 => d = a
      BY <1>1, <2>2 DEF ClearChannel, SettleInv, ChannelsInv, TypeOK, TablesAgree, Chan
    <3>3. \A s \in Sat : s # sv => allocatedSat'[s] = allocatedSat[s]
      BY <3>1 DEF SettleInv, ChannelsInv, TypeOK
    <3>4. \A d \in Chan : prn'[d] = IF d = a THEN 0 ELSE prn[d]
      BY <3>1, <3>2 DEF SettleInv, ChannelsInv, TypeOK
    <3> QED  BY <1>4, <3>1, <3>2, <3>3, <3>4
  <2>3. CASE LeaveAsIs
    <3>1. prn' = prn /\ allocatedSat' = allocatedSat  BY <2>3 DEF LeaveAsIs
    <3>2. ASSUME NEW c \in Chan, prn[c] = sv + 1 PROVE sv \in Visible
      <4>1. allocatedSat[sv] = c  BY <1>1, <3>2 DEF SettleInv, ChannelsInv, TablesAgree
      <4> QED  BY <2>3, <4>1, SizeAssumption DEF LeaveAsIs, Chan
    <3>3. ASSUME sv \in Visible, seen = Visible, Cardinality(Visible) <= MaxChan
          PROVE  allocatedSat[sv] # -1
      <4> SUFFICES ASSUME allocatedSat[sv] = -1 PROVE FALSE  OBVIOUS
      <4>1. \A c \in Chan : prn[c] # 0  BY <2>3, <3>3 DEF LeaveAsIs
      <4>2. \A c \in Chan : prn[c] # 0 /\ prn[c] - 1 \in Visible  BY <1>3, <3>3, <4>1
      <4>3. Cardinality(Visible) > MaxChan
        BY <1>1, <3>3, <4>2, ChannelsTaken DEF SettleInv, ChannelsInv
      <4>4. Cardinality(Visible) \in Nat /\ MaxChan \in Nat
        <5>1. IsFiniteSet(Sat)  BY SizeAssumption, FS_Interval DEF Sat
        <5> QED  BY <1>1, <5>1, FS_Subset, FS_CardinalityType, SizeAssumption
      <4> QED  BY <3>3, <4>3, <4>4
    <3>4. \A c \in Chan : prn'[c] # 0 =>
                         \/ prn'[c] = prn[c] /\ prn[c] # sv + 1
                         \/ prn'[c] = sv + 1 /\ sv \in Visible
      BY <3>1, <3>2
    <3> QED  BY <1>4, <3>1, <3>3, <3>4
  <2> QED  BY <2>1, <2>2, <2>3 DEF AllocateChannel
<1>5. InSightSoFar'
  <2> SUFFICES ASSUME NEW c \in Chan, prn'[c] # 0
               PROVE  /\ prn'[c] - 1 < sv + 1 => prn'[c] - 1 \in Visible
                      /\ seen = Visible => prn'[c] - 1 \in seen
    BY <1>1 DEF InSightSoFar
  <2>1. CASE prn'[c] = prn[c] /\ prn[c] # sv + 1  BY <1>1, <1>2, <1>3, <2>1
  <2>2. CASE prn'[c] = sv + 1 /\ sv \in Visible  BY <1>1, <2>2
  <2> QED  BY <1>4, <2>1, <2>2
<1>6. ServedSoFar'
  <2> SUFFICES ASSUME seen = Visible, Cardinality(Visible) <= MaxChan,
                      NEW s \in Visible, s < sv + 1
               PROVE  allocatedSat'[s] # -1
    BY <1>1 DEF ServedSoFar
  <2>1. CASE s = sv  BY <1>4, <2>1
  <2>2. CASE s # sv
    <3>1. s < sv  BY <1>1, <2>2
    <3> QED  BY <1>1, <1>4, <2>2, <3>1 DEF SettleInv, ServedSoFar
  <2> QED  BY <2>1, <2>2
<1> QED  BY <1>5, <1>6

LEMMA SettleStep == SettleInv /\ [Next]_vars => SettleInv'
<1> SUFFICES ASSUME SettleInv, [Next]_vars PROVE InSightSoFar' /\ ServedSoFar'
  BY ChannelsStep DEF SettleInv
<1>1. CASE GenerateMessages
  BY <1>1 DEF GenerateMessages, SettleInv, InSightSoFar, ServedSoFar
<1>2. CASE Refresh
  <2>1. /\ pc = "refresh" /\ pc' = "allocate" /\ sv' = 0 /\ seen' = seen /\ prn' = prn
        /\ \A c \in Chan : prn[c] \in Nat
    BY <1>2 DEF Refresh, SettleInv, ChannelsInv, TypeOK
  <2>2. InSightSoFar'
    BY <2>1 DEF SettleInv, InSightSoFar
  <2>3. ServedSoFar'
    <3>1. Visible' \subseteq Sat
      BY <1>2, ChannelsStep DEF SettleInv, ChannelsInv, TypeOK, Visible
    <3> QED  BY <2>1, <3>1, SizeAssumption DEF ServedSoFar, Sat
  <2> QED  BY <2>2, <2>3
<1>3. CASE AllocateChannel
  BY <1>3, SettleAllocate
<1>4. CASE Allocated
  <2>1. /\ pc = "allocate" /\ pc' = "samples" /\ seen' = Visible /\ prn' = prn /\ sv = MaxSat
        /\ \A c \in Chan : prn[c] \in 0..MaxSat
    BY <1>4 DEF Allocated, SettleInv, ChannelsInv, TypeOK
  <2>2. \A c \in Chan : prn[c] # 0 => prn[c] - 1 \in Visible
    BY <2>1, SizeAssumption DEF SettleInv, InSightSoFar
  <2> QED  BY <2>1, <2>2 DEF InSightSoFar, ServedSoFar
<1>5. CASE UNCHANGED vars
  BY <1>5 DEF vars, SettleInv, InSightSoFar, ServedSoFar, Visible
<1> QED  BY <1>1, <1>2, <1>3, <1>4, <1>5 DEF Next

(* A sky that does not change gets its channels by the second update, for   *)
(* any number of channels and satellites: a visible satellite waits for a   *)
(* channel once at most, or there are too few of them.                      *)
THEOREM Settles == Spec => AllocationSettles
<1>1. SettleInv /\ [Next]_vars =>
        [pc = "allocate" /\ pc' = "samples" /\ seen = Visible /\ Cardinality(Visible) <= MaxChan
            => \A s \in Visible : allocatedSat[s] # -1]_vars
  <2> SUFFICES ASSUME SettleInv, [Next]_vars, pc = "allocate", pc' = "samples",
                      seen = Visible, Cardinality(Visible) <= MaxChan, NEW s \in Visible
               PROVE  allocatedSat[s] # -1
    OBVIOUS
  <2>1. sv = MaxSat
    BY DEF Next, GenerateMessages, Refresh, AllocateChannel, Allocated, vars
  <2>2. s \in Sat
    BY DEF SettleInv, ChannelsInv, TypeOK, Visible
  <2>3. s < sv
    BY <2>1, <2>2, SizeAssumption DEF Sat
  <2> QED  BY <2>3 DEF SettleInv, ServedSoFar
<1> QED  BY <1>1, SettleInit, SettleStep, PTL DEF Spec, AllocationSettles

=============================================================================
