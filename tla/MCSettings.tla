----------------------------- MODULE MCSettings -----------------------------
(***************************************************************************)
(* TLC instance of Settings with 12 bits for 64 and days of 7 seconds: the *)
(* values lie on both sides of every limit (292 and 585 days are the last  *)
(* that fit in 2^11 and 2^12; 40 * 100 < 2^12 < 41 * 100).  Either the     *)
(* file sets everything, or the environment meets a typical file.          *)
(***************************************************************************)
EXTENDS Settings

MCEntries ==
    [last_accessed : {0, 1, 4, 5, 1999}, ttl_seconds : {NULL, -1, 0, 1, 5}]

Unset == [f \in Field |-> Missing]

Typical == [Unset EXCEPT !["default_ttl_days"] = 1, !["global_quota_bytes"] = 40]

MCInit ==
    /\ \/ /\ env = Unset
          /\ file \in {l \in Layer : /\ l["interval_secs"] \in {0, 1, Missing}
                                    /\ \A f \in Field : l[f] # Malformed}
       \/ /\ file \in {Typical, Unset, [Typical EXCEPT !["interval_secs"] = Malformed]}
          /\ env \in {[Unset EXCEPT ![f] = v] : f \in Field, v \in {0, 1, Missing, Malformed}}
    /\ SettingsInit

MCSpec == MCInit /\ [][SettingsNext]_settingsVars
=============================================================================
