------------------------------ MODULE MCUpdateTZ ------------------------------
(***************************************************************************)
(* Values of the constants of UpdateTZ for TLC: three releases, of which   *)
(* the second drops one zone and brings another.  The binary has no zone   *)
(* of its own, which is the worst case.                                    *)
(***************************************************************************)
EXTENDS UpdateTZ, TLC

MCRelease == <<{"Amsterdam", "Nuuk", "Godthab"}, {"Amsterdam", "Nuuk", "Kyiv"}, {"Amsterdam", "Nuuk", "Kyiv"}>>

Config(b, m, r) == [base |-> b, max |-> m, retries |-> r]
MCConfigs == {Config(1, 5, 9), Config(3, 5, 9), Config(1, 3, 2)}
=============================================================================
