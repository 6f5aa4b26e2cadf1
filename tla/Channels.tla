------------------------------ MODULE Channels ------------------------------
(* The channel tables of the GPS thread: chan[], allocatedSat[] and ieph,   *)
(* the set of ephemerides in use, through the update that the main loop of  *)
(* gps_thread_ep makes every 30 seconds.                                    *)
(*                                                                          *)
(* An update generates the navigation messages of the used channels,        *)
(* changes to the next set of ephemerides if that is due, and runs          *)
(* allocateChannel, one action per satellite of its loop.  Where satellites *)
(* stand in the sky is free at each update.                                 *)
(*                                                                          *)
(* Words and bits of a message are the subject of module NavMessage; here a *)
(* message is the set and the satellite it was made from.  An operator      *)
(* whose comment starts with "Fault" is a slip the code could contain.      *)
EXTENDS Integers, FiniteSets

CONSTANTS MaxChan,  \* MAX_CHAN
          MaxSat,   \* MAX_SAT
          Sets,     \* EPHEM_ARRAY_SIZE
          Files     \* navigation files: which satellites each set holds

Chan == 0..(MaxChan - 1)
Sat == 0..(MaxSat - 1)
Set == 0..(Sets - 1)

ASSUME SizeAssumption == /\ MaxChan \in Nat \ {0} /\ MaxSat \in Nat \ {0}
                         /\ Sets \in Nat \ {0}
ASSUME FilesAssumption == Files \subseteq [Set -> SUBSET Sat]

VARIABLES pc,            \* what the GPS thread does next
          sv,            \* loop counter of allocateChannel
          prn,           \* prn[i] is chan[i].prn, 0 for an unused channel
          sbf,           \* what eph2sbf made chan[i].sbf from
          msg,           \* what the frame in chan[i].dwrd was made from
          allocatedSat,  \* channel of a satellite, or -1
          ieph,          \* set of ephemerides in use
          vflg,          \* vflg[i]: satellites with a valid ephemeris in set i
          up,            \* satellites above the horizon
          seen           \* satellites visible at the previous update

vars == <<pc, sv, prn, sbf, msg, allocatedSat, ieph, vflg, up, seen>>

From == [set : Set \cup {-1}, sv : Sat \cup {-1}]
Nothing == [set |-> -1, sv |-> -1]

(* The loop `for (i = 0; i < MAX_CHAN; i++) chan[i].prn = 0' and its like;  *)
(* a start needs a set with a valid ephemeris.                              *)
Init == /\ pc = "allocate" /\ sv = 0
        /\ prn = [c \in Chan |-> 0]
        /\ sbf = [c \in Chan |-> Nothing] /\ msg = [c \in Chan |-> Nothing]
        /\ allocatedSat = [s \in Sat |-> -1]
        /\ vflg \in Files
        /\ ieph \in {i \in Set : vflg[i] # {}}
        /\ up \in SUBSET Sat
        /\ seen = {}

-----------------------------------------------------------------------------
(* generateNavMsg for every used channel. *)
GenerateMessages ==
    /\ pc = "samples"
    /\ msg' = [c \in Chan |-> IF prn[c] > 0 THEN sbf[c] ELSE msg[c]]
    /\ pc' = "refresh"
    /\ UNCHANGED <<sv, prn, sbf, allocatedSat, ieph, vflg, up, seen>>

(* The test of line 2890 is made on set ieph + 1.  Past the end of the      *)
(* array it reads other data, which may look like a valid ephemeris or not. *)
NextSetValid == ieph + 1 < Sets => vflg[ieph + 1] # {}

(* Subframes of set i for the used channels. *)
Subframes(i) == [c \in Chan |-> IF prn[c] # 0 THEN [set |-> i, sv |-> prn[c] - 1] ELSE sbf[c]]

KeepSet == UNCHANGED <<ieph, sbf>>

(* Fault: the index is not tested. *)
NextSetUnbounded ==
    /\ NextSetValid
    /\ ieph' = ieph + 1
    /\ sbf' = Subframes(ieph')

(* Fault: the channels keep the subframes they have. *)
NextSetAlone ==
    /\ NextSetValid
    /\ ieph' = IF ieph + 1 >= Sets THEN 0 ELSE ieph + 1
    /\ UNCHANGED sbf

NextSet ==
    /\ NextSetValid
    /\ ieph' = IF ieph + 1 >= Sets THEN 0 ELSE ieph + 1
    /\ sbf' = Subframes(ieph')

(* Refresh of ephemeris and subframes; whether the next set is due is for   *)
(* module Ephemeris to say.                                                 *)
Refresh ==
    /\ pc = "refresh"
    /\ KeepSet \/ NextSet
    /\ up' \in SUBSET Sat
    /\ sv' = 0 /\ pc' = "allocate"
    /\ UNCHANGED <<prn, msg, allocatedSat, vflg, seen>>

-----------------------------------------------------------------------------
(* allocateChannel *)

(* Fault: satellites without an ephemeris count as visible. *)
AboveHorizon == up

(* checkSatVisibility returns 1 for these. *)
Visible == vflg[ieph] \cap up

Free(c) == prn[c] = 0 /\ \A d \in Chan : d < c => prn[d] # 0

(* A visible satellite gets the first unused channel. *)
AllocateNew ==
    /\ sv \in Visible /\ allocatedSat[sv] = -1
    /\ \E c \in Chan :
        /\ Free(c)
        /\ prn' = [prn EXCEPT ![c] = sv + 1]
        /\ sbf' = [sbf EXCEPT ![c] = [set |-> ieph, sv |-> sv]]
        /\ msg' = [msg EXCEPT ![c] = [set |-> ieph, sv |-> sv]]
        /\ allocatedSat' = [allocatedSat EXCEPT ![sv] = c]

(* Fault: the satellite keeps its entry. *)
ClearChannelOnly ==
    /\ sv \notin Visible /\ allocatedSat[sv] >= 0
    /\ prn' = [prn EXCEPT ![allocatedSat[sv]] = 0]
    /\ UNCHANGED <<sbf, msg, allocatedSat>>

(* Fault: the channel stays in use. *)
ClearSatelliteOnly ==
    /\ sv \notin Visible /\ allocatedSat[sv] >= 0
    /\ allocatedSat' = [allocatedSat EXCEPT ![sv] = -1]
    /\ UNCHANGED <<prn, sbf, msg>>

ClearChannel ==
    /\ sv \notin Visible /\ allocatedSat[sv] >= 0
    /\ prn' = [prn EXCEPT ![allocatedSat[sv]] = 0]
    /\ allocatedSat' = [allocatedSat EXCEPT ![sv] = -1]
    /\ UNCHANGED <<sbf, msg>>

(* Visible and allocated, neither of them, or no channel is unused. *)
LeaveAsIs ==
    /\ \/ sv \in Visible /\ allocatedSat[sv] # -1
       \/ sv \in Visible /\ \A c \in Chan : prn[c] # 0
       \/ sv \notin Visible /\ allocatedSat[sv] < 0
    /\ UNCHANGED <<prn, sbf, msg, allocatedSat>>

AllocateChannel ==
    /\ pc = "allocate" /\ sv < MaxSat
    /\ AllocateNew \/ ClearChannel \/ LeaveAsIs
    /\ sv' = sv + 1
    /\ UNCHANGED <<pc, ieph, vflg, up, seen>>

(* allocateChannel returns; samples are computed until the next update. *)
Allocated ==
    /\ pc = "allocate" /\ sv = MaxSat
    /\ pc' = "samples" /\ seen' = Visible
    /\ UNCHANGED <<sv, prn, sbf, msg, allocatedSat, ieph, vflg, up>>

Next == GenerateMessages \/ Refresh \/ AllocateChannel \/ Allocated

Spec == Init /\ [][Next]_vars

-----------------------------------------------------------------------------
(* Properties.                                                              *)

(* Type invariant; in particular ieph stays inside the array. *)
TypeOK == /\ pc \in {"samples", "refresh", "allocate"}
          /\ sv \in 0..MaxSat
          /\ prn \in [Chan -> 0..MaxSat]
          /\ sbf \in [Chan -> From] /\ msg \in [Chan -> From]
          /\ allocatedSat \in [Sat -> Chan \cup {-1}]
          /\ ieph \in Set
          /\ vflg \in [Set -> SUBSET Sat] /\ up \subseteq Sat /\ seen \subseteq Sat

(* The two tables agree: a satellite's entry is the channel that carries    *)
(* its PRN, so no satellite is on two channels and none is forgotten.       *)
TablesAgree == \A s \in Sat, c \in Chan : allocatedSat[s] = c <=> prn[c] = s + 1

(* When samples are computed, each used channel has a valid ephemeris in    *)
(* the set in use: computeRange reads it without a test.  A change to a set *)
(* that lacks the satellite takes its channel away before the next sample.  *)
HasEphemeris ==
    pc = "samples" => \A c \in Chan : prn[c] # 0 => prn[c] - 1 \in vflg[ieph]

(* What a satellite broadcasts is about itself, and from the set that its   *)
(* position is computed from or the one before: the messages are generated  *)
(* before the set changes and so lag one update behind, never more.  (The   *)
(* first ten words of a message are the last of the one before.)            *)
Before(i) == {j \in Set : (j + 1) % Sets = i}
MessageNearlyCurrent ==
    pc = "samples" => \A c \in Chan : prn[c] # 0 =>
        /\ msg[c].sv = prn[c] - 1
        /\ msg[c].set \in {ieph} \cup Before(ieph)

(* Whoever is visible at two updates in a row has a channel after the       *)
(* second, if the same satellites are visible and there are enough          *)
(* channels.  After one update that need not be so: a satellite whose turn  *)
(* comes before a channel is cleared has to wait.                           *)
AllocationSettles ==
    [][pc = "allocate" /\ pc' = "samples" /\ seen = Visible /\ Cardinality(Visible) <= MaxChan
          => \A s \in Visible : allocatedSat[s] # -1]_vars

(* Subframes are those of the satellite on the channel and of the set in    *)
(* use; and what the loop of allocateChannel has done so far.  With         *)
(* TablesAgree this is inductive.                                           *)
SubframesCurrent == \A c \in Chan : prn[c] # 0 => sbf[c] = [set |-> ieph, sv |-> prn[c] - 1]
ValidSoFar ==
    \A c \in Chan : prn[c] # 0 /\ (pc = "allocate" => prn[c] - 1 < sv) => prn[c] - 1 \in vflg[ieph]
MessageFollows == \A c \in Chan : prn[c] # 0 =>
    /\ msg[c].sv = prn[c] - 1
    /\ msg[c].set \in {ieph} \cup (IF pc = "refresh" THEN {} ELSE Before(ieph))
ChannelsInv == TypeOK /\ TablesAgree /\ SubframesCurrent /\ ValidSoFar /\ MessageFollows

(* For AllocationSettles: whom the loop has passed has a channel only if    *)
(* visible; as long as the sky is that of the previous update nobody has a  *)
(* channel who was not visible then, so none is cleared;                    *)
InSightSoFar == \A c \in Chan : prn[c] # 0 =>
    /\ pc = "allocate" /\ prn[c] - 1 < sv => prn[c] - 1 \in Visible
    /\ pc # "allocate" \/ seen = Visible => prn[c] - 1 \in seen

(* and whoever is visible and was passed by the loop has a channel.         *)
ServedSoFar ==
    pc = "allocate" /\ seen = Visible /\ Cardinality(Visible) <= MaxChan
        => \A s \in Visible : s < sv => allocatedSat[s] # -1
SettleInv == ChannelsInv /\ InSightSoFar /\ ServedSoFar

=============================================================================
