------------------------------ MODULE Settings ------------------------------
(***************************************************************************)
(* The settings and the arithmetic done on them.  Config::load             *)
(* (marmotte-core/src/config.rs) takes each field from the environment,    *)
(* the file or a default, and checks no ranges.  The collector (gc.rs),    *)
(* the PUT handler (routes/yocto.rs) and the ticker (lib.rs) then compute  *)
(* with the values in u64 and i64: a debug build panics on overflow, a     *)
(* release build wraps, and `as' wraps in both.                            *)
(*                                                                         *)
(* Modulus stands for 2^64 and Day for 86_400.  The two default TTLs go    *)
(* through the same code, one kind after the other, and are one field.     *)
(***************************************************************************)
EXTENDS Integers, FiniteSets

CONSTANTS
    Modulus,        \* 2^64, scaled down
    Day,            \* 86_400, scaled down
    U64Val,         \* values given to the u64 fields
    U8Val,          \* values given to trigger_threshold_pct
    UsageVal,       \* totals of the blobs table
    Clock,          \* values of now_unix()
    IdleEntry,      \* entries: last_accessed, and ttl_seconds of their project
    Missing,        \* a field that is not set
    Malformed,      \* a value that is not of the field's type
    NULL            \* nothing yet, and SQL NULL

Half == Modulus \div 2

U64 == 0..(Modulus - 1)

I64 == (-Half)..(Half - 1)

ASSUME WidthAssumption ==
    /\ Modulus \in Nat /\ Modulus = 2 * Half /\ Modulus > 300
    /\ Day \in Nat \ {0}

ASSUME ValueAssumption ==
    /\ U64Val \subseteq U64
    /\ U8Val \subseteq 0..255
    /\ UsageVal \subseteq 0..(Half - 1)
    /\ Clock \subseteq 0..(Half - 1)
    /\ IdleEntry \subseteq [last_accessed : Nat, ttl_seconds : Int \cup {NULL}]

ASSUME MissingAssumption ==
    /\ {Missing, Malformed, NULL} \cap Int = {}
    /\ NULL \notin {"sweep", "none", "panic"}

VARIABLES
    file,           \* the TOML file: [Field -> value]
    env,            \* the MARMOTTE_* variables: [Field -> value]
    checked,        \* overflow-checks: TRUE in a debug build
    phase,          \* "start", "serving" or "refused"
    config,         \* what load returned
    ticker,         \* the task of spawn_gc_ticker: "none", "alive" or "dead"
    usage,          \* the total of the blobs table
    put,            \* the trigger of the last PUT: NULL, "sweep", "none" or "panic"
    sweep           \* what the last sweep of this usage selected, or NULL

inputs == <<file, env, checked>>

settingsVars == <<inputs, phase, config, ticker, usage, put, sweep>>

Field == {"interval_secs", "default_ttl_days", "global_quota_bytes", "trigger_threshold_pct"}

Values(f) == IF f = "trigger_threshold_pct" THEN U8Val ELSE U64Val

Layer == {l \in [Field -> U64Val \cup U8Val \cup {Missing, Malformed}] :
             \A f \in Field : l[f] \in Values(f) \cup {Missing, Malformed}}

-----------------------------------------------------------------------------
(* config.rs *)

(* #[serde(default = ...)]; the other fields are required. *)
Default(f) ==
    CASE f = "interval_secs"                                -> 300
      [] f = "trigger_threshold_pct"                        -> 90
      [] f \in {"default_ttl_days", "global_quota_bytes"}   -> Missing

(* The value of f: the environment is merged over the file. *)
Setting(f) ==
    CASE env[f] # Missing                          -> env[f]
      [] env[f] = Missing /\ file[f] # Missing     -> file[f]
      [] env[f] = Missing /\ file[f] = Missing     -> Default(f)

(* Mutant of Complete: a required field may be missing. *)
CompleteLenient == \A f \in Field : Setting(f) # Malformed

(* extract() finds every field, of its type. *)
Complete == \A f \in Field : Setting(f) \notin {Missing, Malformed}

-----------------------------------------------------------------------------
(* The arithmetic. *)

(* x as i64, and what a release build makes of an i64 result. *)
AsI64(x) == ((x + Half) % Modulus) - Half

(* default_secs *)
DefaultSecs == AsI64((config["default_ttl_days"] * Day) % Modulus)

(* cutoff_default at time n *)
CutoffDefault(n) == AsI64(n - DefaultSecs)

(* The two lines panic. *)
TtlPanics(n) ==
    /\ checked
    /\ config["default_ttl_days"] * Day >= Modulus \/ n - DefaultSecs \notin I64

(* Mutant of Expired: the default applies to a project with its own TTL too. *)
ExpiredBoth(n, e) ==
    /\ e.last_accessed < n - (IF e.ttl_seconds = NULL THEN 0 ELSE e.ttl_seconds)
    /\ e.last_accessed < CutoffDefault(n)

(* The WHERE clause of ttl_phase. *)
Expired(n, e) ==
    /\ e.last_accessed < n - (IF e.ttl_seconds = NULL THEN 0 ELSE e.ttl_seconds)
    /\ e.ttl_seconds # NULL \/ e.last_accessed < CutoffDefault(n)

(* global_phase goes past its first return. *)
OverGlobalQuota == usage > AsI64(config["global_quota_bytes"])

QuotaTimesPct == config["global_quota_bytes"] * config["trigger_threshold_pct"]

(* Mutants of Threshold: no division, and the division first. *)
ThresholdUndivided == QuotaTimesPct % Modulus

ThresholdDividedFirst ==
    (config["global_quota_bytes"] \div 100) * config["trigger_threshold_pct"]

(* threshold of do_put *)
Threshold == (QuotaTimesPct % Modulus) \div 100

-----------------------------------------------------------------------------
(* Mutant of TickerOf: the interval is taken in minutes. *)
TickerOfMinutes(secs) == IF secs \div 60 = 0 THEN "dead" ELSE "alive"

(* tokio::time::interval panics on a period of zero, inside the task. *)
TickerOf(secs) == IF secs = 0 THEN "dead" ELSE "alive"

(* `marmotte serve': load, then build_app with its ticker. *)
Serve ==
    /\ phase = "start"
    /\ Complete
    /\ phase' = "serving"
    /\ config' = [f \in Field |-> Setting(f)]
    /\ ticker' = TickerOf(Setting("interval_secs"))
    /\ UNCHANGED <<inputs, usage, put, sweep>>

(* load returns CoreError::Config. *)
ServeRefused ==
    /\ phase = "start"
    /\ ~Complete
    /\ phase' = "refused"
    /\ UNCHANGED <<inputs, config, ticker, usage, put, sweep>>

(* A PUT brings the total to u and looks at the threshold.  A panic ends    *)
(* the request, whose entry is stored, without an answer.                   *)
PutDone(u) ==
    /\ phase = "serving"
    /\ usage' = u
    /\ put' = CASE checked /\ QuotaTimesPct >= Modulus                        -> "panic"
                [] ~(checked /\ QuotaTimesPct >= Modulus) /\ u > Threshold    -> "sweep"
                [] ~(checked /\ QuotaTimesPct >= Modulus) /\ u <= Threshold   -> "none"
    /\ sweep' = NULL
    /\ UNCHANGED <<inputs, phase, config, ticker>>

(* GcSvc::run at time n, up to what its TTL and global phases select. *)
Run(n) ==
    sweep' = IF TtlPanics(n) THEN NULL
             ELSE [now |-> n, expired |-> {e \in IdleEntry : Expired(n, e)},
                   over |-> OverGlobalQuota]

(* The ticker runs the sweep in its own task: a panic is the end of it. *)
TickerSweep(n) ==
    /\ phase = "serving" /\ ticker = "alive"
    /\ Run(n)
    /\ ticker' = IF TtlPanics(n) THEN "dead" ELSE "alive"
    /\ UNCHANGED <<inputs, phase, config, usage, put>>

(* A sweep of the soft trigger or of the admin route, in a task of its own. *)
OtherSweep(n) ==
    /\ phase = "serving"
    /\ Run(n)
    /\ UNCHANGED <<inputs, phase, config, ticker, usage, put>>

SettingsInit ==
    /\ file \in Layer
    /\ env \in Layer
    /\ checked \in BOOLEAN
    /\ phase = "start"
    /\ config = NULL
    /\ ticker = "none"
    /\ usage = 0
    /\ put = NULL
    /\ sweep = NULL

SettingsNext ==
    \/ Serve
    \/ ServeRefused
    \/ \E u \in UsageVal : PutDone(u)
    \/ \E n \in Clock : TickerSweep(n)
    \/ \E n \in Clock : OtherSweep(n)

SettingsSpec == SettingsInit /\ [][SettingsNext]_settingsVars

-----------------------------------------------------------------------------
(* Properties *)

(* The server only ever serves with a complete configuration, whatever the   *)
(* layers leave out or get wrong (Config::load).                             *)
SettingsTypeOK ==
    /\ file \in Layer /\ env \in Layer /\ checked \in BOOLEAN
    /\ phase \in {"start", "serving", "refused"}
    /\ ticker \in {"none", "alive", "dead"}
    /\ put \in {NULL, "sweep", "none", "panic"}
    /\ usage \in Nat
    /\ phase = "serving" =>
          /\ \A f \in Field \ {"trigger_threshold_pct"} : config[f] \in U64
          /\ config["trigger_threshold_pct"] \in 0..255

Swept == phase = "serving" /\ sweep # NULL

(* The idle time of e at time n exceeds the TTL that applies to it. *)
IdleTooLong(n, e) ==
    n - e.last_accessed > (IF e.ttl_seconds = NULL
                           THEN config["default_ttl_days"] * Day ELSE e.ttl_seconds)

(* As long as the default TTL in seconds is below 2^63, a sweep expires      *)
(* exactly the entries that were idle for longer than the TTL of their       *)
(* project or, failing that, the default (gc.rs:189-219: wrapping, casting   *)
(* and COALESCE included).                                                   *)
TtlExact ==
    Swept /\ config["default_ttl_days"] * Day < Half =>
        sweep.expired = {e \in IdleEntry : IdleTooLong(sweep.now, e)}

(* No setting hides a store that is over its quota: up to a threshold of     *)
(* 100 % the PUT that sees it starts a sweep unless it panics, and a sweep   *)
(* evicts, however the product (yocto.rs:270) and the cast (gc.rs:292) wrap. *)
OverQuotaIsSwept ==
    phase = "serving" /\ usage > config["global_quota_bytes"] =>
        /\ config["trigger_threshold_pct"] <= 100 => put # "none"
        /\ Swept => sweep.over

(* Nothing is swept early: below 2^63 a sweep evicts for the global quota    *)
(* only over it, and a PUT whose product fits starts one only above the      *)
(* percentage (a larger quota, meant as unlimited, evicts everything).       *)
SweptOnlyIfOver ==
    phase = "serving" =>
        /\ Swept /\ config["global_quota_bytes"] < Half /\ sweep.over =>
              usage > config["global_quota_bytes"]
        /\ put = "sweep" /\ QuotaTimesPct < Modulus => usage * 100 > QuotaTimesPct

(* The ticker lives for ever unless its interval is zero or, in a debug      *)
(* build, the default TTL leaves i64 (lib.rs:33, gc.rs:203-204).             *)
TickerLives ==
    ticker = "dead" =>
        \/ config["interval_secs"] = 0
        \/ checked /\ config["default_ttl_days"] * Day >= Half
=============================================================================
