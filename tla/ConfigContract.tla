---------------------------- MODULE ConfigContract ----------------------------
(***************************************************************************)
(* The inventory of administered knobs, the contract of each, and the     *)
(* defaults readers fall back to.  A value is a record of its JSON type t  *)
(* and its content v; the lengths of strings and arrays are left out.      *)
(***************************************************************************)
EXTENDS Integers, Sequences, TLC

IntIn(min, max) == [t |-> "int", min |-> min, max |-> max]
Bool          == [t |-> "boolean"]
Str           == [t |-> "string"]
Enum(values)  == [t |-> "enum", values |-> values]
ArrayOf(c)    == [t |-> "array", element |-> c]
Obj           == [t |-> "object"]

\* No number of the contracts is larger: an element with a minimum only.
Unbounded == 1000000000

IngestKnobs ==
    "event_name_cap_per_game" :> IntIn(1, 100000) @@
    "property_key_cap_per_event" :> IntIn(1, 10000) @@
    "top_n_events" :> IntIn(1, 1000) @@
    "pii_prop_denylist" :> ArrayOf(Str) @@
    "pii_prop_value_scrubber" :> Enum({"off", "hash", "redact"}) @@
    "pii_prop_hash" :> Bool @@
    "dedup_window_hours" :> IntIn(1, 168) @@
    "day_seal_grace_hours" :> IntIn(0, 168) @@
    "flush_interval_seconds" :> IntIn(5, 3600) @@
    "drop_counter_visible" :> Bool

SessionKnobs ==
    "session_inactivity_timeout_min" :> IntIn(1, 1440) @@
    "session_max_duration_cap_min" :> IntIn(1, 10080) @@
    "session_min_duration_ms" :> IntIn(0, 600000)

EconomyKnobs ==
    "economy_currency_allowlist" :> ArrayOf(Str) @@
    "economy_depth_capture_mode" :> Enum({"off", "shallow", "full"}) @@
    "economy_top_n_reasons" :> IntIn(1, 1000) @@
    "economy_ratio_min_events" :> IntIn(0, 1000000) @@
    "economy_currency_cap_per_game" :> IntIn(1, 100000) @@
    "level_bucket_boundaries" :> ArrayOf(IntIn(0, Unbounded))

RetentionKnobs ==
    "retention_day_targets" :> ArrayOf(IntIn(0, 3650)) @@
    "retention_min_cohort_size" :> IntIn(0, 1000000)

MonetizationKnobs ==
    "monetization_dimensions" :> ArrayOf(Str) @@
    "monetization_dimension_value_cap" :> IntIn(1, 100000) @@
    "payer_tier_rule" :> Obj @@
    "fx_table" :> Obj @@
    "fx_staleness_max_days" :> IntIn(0, 3650) @@
    "mau_window_days" :> IntIn(1, 3650) @@
    "whale_min_payers" :> IntIn(1, 1000000) @@
    "whale_top_percents" :> ArrayOf(IntIn(1, 50)) @@
    "partial_window_mask" :> Bool @@
    "arppu_first_purchase_denominator" :> Enum({"active_users", "new_users"})

StorageKnobs ==
    "cold_storage_enabled" :> Bool @@
    "cold_storage_bucket" :> Str @@
    "cold_storage_credentials" :> Str @@
    "cold_storage_local_retention_days" :> IntIn(0, 3650) @@
    "cold_storage_upload_schedule" :> Str @@
    "raw_file_compression" :> Enum({"none", "gzip", "zstd"}) @@
    "raw_retention_days" :> IntIn(0, 3650) @@
    "erasure_purchase_mode" :> Enum({"detach", "delete"}) @@
    "strict_raw_rewrite" :> Bool @@
    "ingest_events_per_sec_cap" :> IntIn(0, 10000000)

\* Read from the environment: the administration refuses to set them per game.
PlatformKnobs ==
    "reporting_offset" :> IntIn(-720, 840) @@
    "operator_login_max_attempts" :> IntIn(1, 100) @@
    "operator_lockout_min" :> IntIn(1, 1440) @@
    "operator_mfa_required" :> Bool @@
    "operator_session_timeout_min" :> IntIn(1, 10080) @@
    "worker_config_cache_refresh_sec" :> IntIn(1, 3600)

PerGameKnobs == IngestKnobs @@ SessionKnobs @@ EconomyKnobs @@ RetentionKnobs
                @@ MonetizationKnobs @@ StorageKnobs

\* Kept encrypted in the game's row.
InfraSecretKnobs == {"cold_storage_credentials", "fx_table"}

ElementConforms(c, e) ==
    \/ c.t = "string"
    \/ c.t = "int" /\ e \in c.min..c.max

Conforms(c, x) ==
    \/ c.t \in {"boolean", "string", "object"} /\ x.t = c.t
    \/ c.t = "int" /\ x.t = "int" /\ x.v >= c.min /\ x.v <= c.max
    \/ c.t = "enum" /\ x.t = "string" /\ x.v \in c.values
    \/ c.t = "array" /\ x.t = "array" /\ \A i \in DOMAIN x.v : ElementConforms(c.element, x.v[i])

Num(n) == [t |-> "int", v |-> n]
Flag(b) == [t |-> "boolean", v |-> b]
Text(s) == [t |-> "string", v |-> s]
List(s) == [t |-> "array", v |-> s]
Object(o) == [t |-> "object", v |-> o]

Defaults ==
    "event_name_cap_per_game" :> Num(500) @@ "property_key_cap_per_event" :> Num(50) @@
    "top_n_events" :> Num(10) @@ "dedup_window_hours" :> Num(24) @@ "day_seal_grace_hours" :> Num(48) @@
    "flush_interval_seconds" :> Num(300) @@ "cold_storage_enabled" :> Flag(TRUE) @@
    "drop_counter_visible" :> Flag(TRUE) @@ "ingest_events_per_sec_cap" :> Num(200) @@
    "raw_retention_days" :> Num(90) @@ "erasure_purchase_mode" :> Text("detach") @@
    "strict_raw_rewrite" :> Flag(FALSE) @@ "session_inactivity_timeout_min" :> Num(30) @@
    "session_max_duration_cap_min" :> Num(720) @@ "session_min_duration_ms" :> Num(0) @@
    "retention_day_targets" :> List(<<1, 7, 30>>) @@ "retention_min_cohort_size" :> Num(30) @@
    "economy_top_n_reasons" :> Num(10) @@ "economy_ratio_min_events" :> Num(100) @@
    "economy_currency_allowlist" :> List(<<>>) @@ "economy_currency_cap_per_game" :> Num(500) @@
    "economy_depth_capture_mode" :> Text("full") @@
    "monetization_dimensions" :> List(<<"level_bucket", "region", "in_game_state", "payer_tier">>) @@
    "monetization_dimension_value_cap" :> Num(50) @@ "payer_tier_rule" :> Object("dollar thresholds") @@
    "fx_staleness_max_days" :> Num(7) @@ "whale_min_payers" :> Num(20) @@
    "whale_top_percents" :> List(<<1, 5, 10>>) @@ "mau_window_days" :> Num(30) @@
    "partial_window_mask" :> Flag(TRUE) @@ "arppu_first_purchase_denominator" :> Text("active_users")

\* "every new key has a matching CONFIG_CONTRACTS row", and its default is a
\* value the administration would accept.
ASSUME DefaultsConform ==
    \A k \in DOMAIN Defaults : k \in DOMAIN PerGameKnobs /\ Conforms(PerGameKnobs[k], Defaults[k])

\* No knob is both per game and of the platform; every secret is per game.
ASSUME InventoryIsConsistent ==
    /\ DOMAIN PerGameKnobs \cap DOMAIN PlatformKnobs = {}
    /\ InfraSecretKnobs \subseteq DOMAIN PerGameKnobs
===============================================================================
