----------------------------- MODULE MCChannels -----------------------------
(* Small instances of the channel tables for TLC. *)
EXTENDS Channels

(* At most one satellite is missing from a set, or the last set is empty. *)
SmallFiles == {f \in [Set -> SUBSET Sat] :
                   \A i \in Set : Cardinality(f[i]) >= MaxSat - 1 \/ (i = Sets - 1 /\ f[i] = {})}

=============================================================================
