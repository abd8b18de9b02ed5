--------------------------- MODULE SettingsProofs ---------------------------
(***************************************************************************)
(* The arithmetic on settings, proved for every width of the integers,     *)
(* every length of a day and every value of a setting: where it is exact,  *)
(* and that it errs on the safe side elsewhere.                            *)
(***************************************************************************)
EXTENDS Settings, TLAPS

(* What a loaded configuration is. *)
ConfigOK ==
    /\ config["interval_secs"] \in U64
    /\ config["default_ttl_days"] \in U64
    /\ config["global_quota_bytes"] \in U64
    /\ config["trigger_threshold_pct"] \in 0..255

(* The sweep on record selected what the present configuration and usage     *)
(* select.                                                                   *)
SweepCurrent ==
    sweep # NULL =>
        /\ sweep.now \in Clock
        /\ sweep.expired = {e \in IdleEntry : Expired(sweep.now, e)}
        /\ sweep.over <=> OverGlobalQuota

(* The answers on record are the ones the present configuration and usage    *)
(* give.                                                                     *)
AnswersCurrent ==
    /\ put = "sweep" => usage > Threshold
    /\ put = "none" => usage <= Threshold
    /\ SweepCurrent

(* The inductive invariant. *)
SettingsInv ==
    /\ file \in Layer /\ env \in Layer /\ checked \in BOOLEAN
    /\ phase \in {"start", "serving", "refused"}
    /\ ticker \in {"none", "alive", "dead"}
    /\ put \in {NULL, "sweep", "none", "panic"}
    /\ usage \in Nat
    /\ phase = "serving" => ConfigOK /\ AnswersCurrent
    /\ phase # "serving" => put = NULL /\ sweep = NULL /\ ticker = "none"
    /\ TickerLives

-----------------------------------------------------------------------------
(* Arithmetic. *)

(* A number below the modulus is its own remainder. *)
LEMMA ModSmall == \A m \in Nat \ {0} : \A a \in 0..(m - 1) : a % m = a
  BY SMT

(* A remainder is a natural number not above the number. *)
LEMMA ModLe == \A m \in Nat \ {0} : \A a \in Nat : a % m \in Nat /\ a % m <= a
  BY SMT

(* A percentage up to 100 of q, however large the product, is at most q. *)
LEMMA PercentLe ==
    ASSUME NEW m \in Nat \ {0}, NEW q \in Nat, NEW p \in 0..100
    PROVE  /\ q * p \in Nat
           /\ ((q * p) % m) \div 100 \in Nat
           /\ ((q * p) % m) \div 100 <= q
<1> DEFINE x == q * p
<1>1. x \in Nat /\ x <= q * 100
  BY SMT
<1> HIDE DEF x
<1>2. x % m \in Nat /\ x % m <= x
  BY <1>1, ModLe, Zenon
<1>3. \A y \in Nat : y <= q * 100 => y \div 100 \in Nat /\ y \div 100 <= q
  BY SMT
<1>4. x % m <= q * 100
  BY <1>1, <1>2
<1>5. (x % m) \div 100 \in Nat /\ (x % m) \div 100 <= q
  BY <1>2, <1>3, <1>4, Zenon
<1> QED
  BY <1>1, <1>5 DEF x

(* The constants in the form the lemmas use. *)
LEMMA Widths ==
    /\ Modulus \in Nat \ {0} /\ Half \in Nat \ {0} /\ Modulus = 2 * Half
  BY WidthAssumption DEF Half

(* `as i64' keeps what fits ... *)
LEMMA AsI64Small == \A x \in 0..(Half - 1) : AsI64(x) = x
<1> TAKE x \in 0..(Half - 1)
<1>1. x + Half \in 0..(Modulus - 1)
  BY Widths
<1>2. (x + Half) % Modulus = x + Half
  BY <1>1, Widths, ModSmall
<1> QED
  BY <1>2, Widths DEF AsI64

(* ... and never makes a number larger. *)
LEMMA AsI64Le == \A x \in U64 : AsI64(x) \in Int /\ AsI64(x) <= x
<1> TAKE x \in U64
<1>1. x + Half \in Nat
  BY Widths DEF U64
<1>2. (x + Half) % Modulus \in Nat /\ (x + Half) % Modulus <= x + Half
  BY <1>1, Widths, ModLe, Zenon
<1> QED
  BY <1>2, Widths DEF AsI64, U64

(* A signed number in the negative half keeps its value as well. *)
LEMMA AsI64Signed == \A x \in I64 : AsI64(x) = x
<1> TAKE x \in I64
<1>1. x + Half \in 0..(Modulus - 1)
  BY Widths DEF I64
<1>2. (x + Half) % Modulus = x + Half
  BY <1>1, Widths, ModSmall
<1> QED
  BY <1>2, Widths DEF AsI64, I64

-----------------------------------------------------------------------------
(* The parts of the invariant. *)

(* As long as it fits, the default TTL is computed exactly, and the cutoff    *)
(* neither overflows nor wraps.                                               *)
LEMMA DefaultTtlExact ==
    ASSUME ConfigOK, config["default_ttl_days"] * Day < Half, NEW n \in Clock
    PROVE  /\ DefaultSecs = config["default_ttl_days"] * Day
           /\ DefaultSecs \in Nat
           /\ n - DefaultSecs \in I64
           /\ CutoffDefault(n) = n - DefaultSecs
<1> DEFINE s == config["default_ttl_days"] * Day
<1>1. s \in 0..(Half - 1) /\ s \in 0..(Modulus - 1)
  <2>1. config["default_ttl_days"] \in Nat /\ Day \in Nat
    BY Widths, WidthAssumption DEF ConfigOK, U64
  <2>2. s \in Nat
    BY <2>1
  <2> QED
    BY <2>2, Widths
<1>2. s % Modulus = s
  BY <1>1, Widths, ModSmall, Zenon
<1>3. DefaultSecs = s
  BY <1>1, <1>2, AsI64Small, Zenon DEF DefaultSecs
<1>4. n \in 0..(Half - 1)
  BY ValueAssumption
<1> HIDE DEF s
<1>5. n - s \in I64
  BY <1>1, <1>4, Widths DEF I64
<1>6. AsI64(n - s) = n - s
  BY <1>5, AsI64Signed, Zenon
<1> QED
  BY <1>1, <1>3, <1>5, <1>6 DEF CutoffDefault, s

(* A panic of the TTL phase means that the default TTL leaves i64. *)
LEMMA PanicMeansOverflow ==
    ASSUME ConfigOK, NEW n \in Clock, TtlPanics(n)
    PROVE  checked /\ config["default_ttl_days"] * Day >= Half
<1>1. config["default_ttl_days"] * Day \in Nat
  BY Widths, WidthAssumption DEF ConfigOK, U64
<1>2. CASE config["default_ttl_days"] * Day >= Modulus
  BY <1>1, <1>2, Widths DEF TtlPanics
<1>3. CASE n - DefaultSecs \notin I64
  <2>1. ~(config["default_ttl_days"] * Day < Half)
    BY <1>3, DefaultTtlExact
  <2> QED
    BY <1>1, <2>1, Widths DEF TtlPanics
<1> QED
  BY <1>2, <1>3 DEF TtlPanics

(* load returns values of the fields' types. *)
LEMMA LoadedIsTyped ==
    ASSUME file \in Layer, env \in Layer, Complete
    PROVE  /\ \A f \in Field \ {"trigger_threshold_pct"} : Setting(f) \in U64
           /\ Setting("trigger_threshold_pct") \in 0..255
<1>1. \A f \in Field : /\ file[f] \in Values(f) \cup {Missing, Malformed}
                       /\ env[f] \in Values(f) \cup {Missing, Malformed}
  BY DEF Layer
<1>2. \A f \in Field : Setting(f) \in Values(f) \cup {Default(f)}
  BY <1>1 DEF Setting, Complete
<1>3. \A f \in Field : Setting(f) # Missing
  BY DEF Complete
<1>4. 300 \in U64
  BY WidthAssumption DEF U64
<1>5. ASSUME NEW f \in Field \ {"trigger_threshold_pct"}
      PROVE  Setting(f) \in U64
  <2>1. Default(f) \in {300, Missing}
    BY DEF Field, Default
  <2>2. Values(f) \subseteq U64
    BY ValueAssumption DEF Values
  <2> QED
    BY <1>2, <1>3, <1>4, <2>1, <2>2
<1>6. Setting("trigger_threshold_pct") \in 0..255
  <2>1. Default("trigger_threshold_pct") = 90
    BY DEF Default
  <2>2. Values("trigger_threshold_pct") \subseteq 0..255
    BY ValueAssumption DEF Values
  <2>3. "trigger_threshold_pct" \in Field
    BY DEF Field
  <2> QED
    BY <1>2, <2>1, <2>2, <2>3
<1> QED
  BY <1>5, <1>6

(* The threshold of a PUT is a number, whatever the settings. *)
LEMMA ThresholdIsInt ==
    ASSUME ConfigOK
    PROVE  QuotaTimesPct \in Nat /\ Threshold \in Int
<1>1. QuotaTimesPct \in Nat
  <2>1. config["global_quota_bytes"] \in Nat /\ config["trigger_threshold_pct"] \in Nat
    BY Widths DEF ConfigOK, U64
  <2> QED
    BY <2>1 DEF QuotaTimesPct
<1>2. QuotaTimesPct % Modulus \in Nat
  BY <1>1, Widths, ModLe, Zenon
<1> QED
  BY <1>1, <1>2 DEF Threshold

(* A sweep records the answers of the present configuration and usage. *)
LEMMA RunIsCurrent ==
    ASSUME NEW n \in Clock, Run(n), UNCHANGED <<config, usage>>
    PROVE  SweepCurrent'
<1>1. SUFFICES ASSUME sweep' # NULL
      PROVE  /\ sweep'.now \in Clock
             /\ sweep'.expired = {e \in IdleEntry : Expired(sweep.now, e)}'
             /\ sweep'.over <=> OverGlobalQuota'
  BY DEF SweepCurrent
<1>2. sweep' = [now |-> n, expired |-> {e \in IdleEntry : Expired(n, e)},
                over |-> OverGlobalQuota]
  BY <1>1 DEF Run
<1>3. sweep'.now = n
  BY <1>2
<1>4. OverGlobalQuota' <=> OverGlobalQuota
  BY DEF OverGlobalQuota
<1>5. sweep'.over <=> OverGlobalQuota
  BY <1>2
<1>6. \A e \in IdleEntry : Expired(sweep.now, e)' <=> Expired(n, e)
  BY <1>3 DEF Expired, CutoffDefault, DefaultSecs
<1>7. {e \in IdleEntry : Expired(sweep.now, e)}' = {e \in IdleEntry : Expired(n, e)}
  BY <1>6, Zenon
<1>8. sweep'.expired = {e \in IdleEntry : Expired(n, e)}
  BY <1>2
<1> QED
  BY <1>3, <1>4, <1>5, <1>7, <1>8

(* The initial states satisfy the invariant. *)
LEMMA SettingsInitInv == SettingsInit => SettingsInv
  BY DEF SettingsInit, SettingsInv, TickerLives

(* Every step of the server keeps the invariant. *)
LEMMA SettingsStepInv == SettingsInv /\ [SettingsNext]_settingsVars => SettingsInv'
<1> SUFFICES ASSUME SettingsInv, [SettingsNext]_settingsVars
             PROVE  SettingsInv'
  OBVIOUS
<1>1. CASE Serve
  <2>1. UNCHANGED <<file, env, checked, usage, put, sweep>> /\ phase' = "serving"
    BY <1>1 DEF Serve, inputs
  <2>2. ConfigOK'
    <3>1. \A f \in Field : config'[f] = Setting(f)
      BY <1>1 DEF Serve
    <3>2. /\ \A f \in Field \ {"trigger_threshold_pct"} : Setting(f) \in U64
          /\ Setting("trigger_threshold_pct") \in 0..255
      BY <1>1, LoadedIsTyped DEF Serve, SettingsInv
    <3> QED
      BY <3>1, <3>2 DEF ConfigOK, Field
  <2>3. AnswersCurrent'
    BY <1>1, <2>1, MissingAssumption DEF Serve, SettingsInv, AnswersCurrent, SweepCurrent
  <2>4. ticker' \in {"alive", "dead"} /\ TickerLives'
    BY <1>1 DEF Serve, TickerOf, TickerLives, Field
  <2> QED
    BY <2>1, <2>2, <2>3, <2>4 DEF SettingsInv
<1>2. CASE ServeRefused
  BY <1>2 DEF ServeRefused, SettingsInv, TickerLives, inputs
<1>3. ASSUME NEW u \in UsageVal, PutDone(u)
      PROVE  SettingsInv'
  <2>1. /\ UNCHANGED <<file, env, checked, phase, config, ticker>>
        /\ phase = "serving" /\ usage' = u /\ sweep' = NULL
    BY <1>3 DEF PutDone, inputs
  <2>2. ConfigOK /\ ConfigOK'
    BY <2>1 DEF SettingsInv, ConfigOK
  <2>3. u \in Nat
    BY ValueAssumption, Widths
  <2>4. Threshold \in Int /\ Threshold' = Threshold
    BY <2>1, <2>2, ThresholdIsInt DEF Threshold, QuotaTimesPct
  <2>5. /\ put' \in {"sweep", "none", "panic"}
        /\ put' = "sweep" => u > Threshold
        /\ put' = "none" => u <= Threshold
    <3> DEFINE over == checked /\ QuotaTimesPct >= Modulus
    <3>1. put' = CASE over                        -> "panic"
                   [] ~over /\ u > Threshold      -> "sweep"
                   [] ~over /\ u <= Threshold     -> "none"
      BY <1>3 DEF PutDone
    <3> HIDE DEF over
    <3>2. CASE over
      BY <3>1, <3>2
    <3>3. CASE ~over /\ u > Threshold
      <4>1. ~(u <= Threshold)
        BY <3>3, <2>3, <2>4
      <4> QED
        BY <3>1, <3>3, <4>1
    <3>4. CASE ~over /\ u <= Threshold
      <4>1. ~(u > Threshold)
        BY <3>4, <2>3, <2>4
      <4> QED
        BY <3>1, <3>4, <4>1
    <3> QED
      BY <3>2, <3>3, <3>4, <2>3, <2>4
  <2>6. AnswersCurrent'
    BY <2>1, <2>4, <2>5 DEF AnswersCurrent, SweepCurrent
  <2>7. TickerLives'
    BY <2>1 DEF SettingsInv, TickerLives
  <2> QED
    BY <2>1, <2>2, <2>3, <2>5, <2>6, <2>7 DEF SettingsInv
<1>4. ASSUME NEW n \in Clock, Run(n), phase = "serving",
             UNCHANGED <<file, env, checked, phase, config, usage, put>>
      PROVE  ConfigOK' /\ AnswersCurrent'
  <2>1. ConfigOK'
    BY <1>4 DEF SettingsInv, ConfigOK
  <2>2. Threshold' = Threshold
    BY <1>4 DEF Threshold, QuotaTimesPct
  <2>3. /\ put' = "sweep" => usage' > Threshold'
        /\ put' = "none" => usage' <= Threshold'
    BY <1>4, <2>2 DEF SettingsInv, AnswersCurrent
  <2> QED
    BY <1>4, <2>1, <2>3, RunIsCurrent DEF AnswersCurrent
<1>5. ASSUME NEW n \in Clock, TickerSweep(n)
      PROVE  SettingsInv'
  <2>1. ConfigOK' /\ AnswersCurrent'
    BY <1>4, <1>5 DEF TickerSweep, inputs
  <2>2. TtlPanics(n) => checked /\ config["default_ttl_days"] * Day >= Half
    BY <1>5, PanicMeansOverflow DEF TickerSweep, SettingsInv
  <2>3. TickerLives'
    BY <1>5, <2>2 DEF TickerSweep, TickerLives, inputs
  <2> QED
    BY <1>5, <2>1, <2>3 DEF TickerSweep, SettingsInv, inputs
<1>6. ASSUME NEW n \in Clock, OtherSweep(n)
      PROVE  SettingsInv'
  <2>1. ConfigOK' /\ AnswersCurrent'
    BY <1>4, <1>6 DEF OtherSweep, inputs
  <2> QED
    BY <1>6, <2>1 DEF OtherSweep, SettingsInv, TickerLives, inputs
<1>7. CASE UNCHANGED settingsVars
  <2>1. /\ UNCHANGED <<file, env, checked, phase, ticker, put, usage, sweep>>
        /\ ConfigOK' <=> ConfigOK
        /\ AnswersCurrent' <=> AnswersCurrent
        /\ TickerLives' <=> TickerLives
    BY <1>7 DEF settingsVars, inputs, ConfigOK, AnswersCurrent, SweepCurrent, TickerLives,
                Threshold, QuotaTimesPct, Expired, CutoffDefault, DefaultSecs,
                OverGlobalQuota
  <2> QED
    BY <2>1 DEF SettingsInv
<1> QED
  BY <1>1, <1>2, <1>3, <1>5, <1>6, <1>7 DEF SettingsNext

(* Whatever the two layers hold and whatever the build, the server computes  *)
(* with a complete, typed configuration, and every answer of a PUT and of a  *)
(* sweep is the one its arithmetic gives for it.                             *)
THEOREM SettingsInvariant == SettingsSpec => []SettingsInv
  BY SettingsInitInv, SettingsStepInv, PTL DEF SettingsSpec

-----------------------------------------------------------------------------
(* What follows from it. *)

(* The server only ever serves with a complete, typed configuration          *)
(* (Config::load).                                                           *)
THEOREM SettingsTyped == SettingsSpec => []SettingsTypeOK
<1>1. SettingsInv => SettingsTypeOK
  BY DEF SettingsInv, SettingsTypeOK, ConfigOK, Field
<1> QED
  BY <1>1, SettingsInvariant, PTL

(* While the default TTL in seconds is below 2^63, a sweep expires exactly   *)
(* the entries idle for longer than the TTL that applies (gc.rs, ttl_phase). *)
THEOREM TtlIsExact == SettingsSpec => []TtlExact
<1>1. SettingsInv => TtlExact
  <2> SUFFICES ASSUME SettingsInv, Swept, config["default_ttl_days"] * Day < Half
               PROVE  sweep.expired = {e \in IdleEntry : IdleTooLong(sweep.now, e)}
    BY DEF TtlExact
  <2>1. /\ ConfigOK
        /\ sweep.now \in Clock
        /\ sweep.expired = {e \in IdleEntry : Expired(sweep.now, e)}
    BY DEF SettingsInv, AnswersCurrent, SweepCurrent, Swept
  <2> DEFINE n == sweep.now
             s == config["default_ttl_days"] * Day
  <2>2. n \in Nat /\ s \in Nat /\ CutoffDefault(n) = n - s
    <3>1. CutoffDefault(n) = n - s /\ s \in Nat
      BY <2>1, DefaultTtlExact
    <3>2. 0..(Half - 1) \subseteq Nat
      BY Widths
    <3>3. n \in Nat
      BY <2>1, <3>2, ValueAssumption, Zenon
    <3> QED
      BY <3>1, <3>3, Zenon
  <2>3. ASSUME NEW e \in IdleEntry
        PROVE  Expired(n, e) <=> IdleTooLong(n, e)
    <3>1. e.last_accessed \in Nat /\ e.ttl_seconds \in Int \cup {NULL} /\ NULL \notin Int
      BY ValueAssumption, MissingAssumption
    <3>2. /\ Expired(n, e) <=>
               /\ e.last_accessed < n - (IF e.ttl_seconds = NULL THEN 0 ELSE e.ttl_seconds)
               /\ e.ttl_seconds # NULL \/ e.last_accessed < n - s
          /\ IdleTooLong(n, e) <=>
               n - e.last_accessed > (IF e.ttl_seconds = NULL THEN s ELSE e.ttl_seconds)
      BY <2>2 DEF Expired, IdleTooLong
    <3> HIDE DEF n, s
    <3>3. CASE e.ttl_seconds = NULL
      BY <2>2, <3>1, <3>2, <3>3
    <3>4. CASE e.ttl_seconds # NULL
      BY <2>2, <3>1, <3>2, <3>4
    <3> QED
      BY <3>3, <3>4
  <2> QED
    BY <2>1, <2>3
<1> QED
  BY <1>1, SettingsInvariant, PTL

(* No setting hides a store that is over its quota from the PUT's threshold  *)
(* (routes/yocto.rs) or from the sweep (gc.rs, global_phase).                *)
THEOREM NothingHidesOverQuota == SettingsSpec => []OverQuotaIsSwept
<1>1. SettingsInv => OverQuotaIsSwept
  <2> SUFFICES ASSUME SettingsInv, phase = "serving", usage > config["global_quota_bytes"]
               PROVE  /\ config["trigger_threshold_pct"] <= 100 => put # "none"
                      /\ Swept => sweep.over
    BY DEF OverQuotaIsSwept
  <2>1. ConfigOK /\ AnswersCurrent /\ usage \in Nat
    BY DEF SettingsInv
  <2>2. config["global_quota_bytes"] \in U64 /\ config["global_quota_bytes"] \in Nat
    BY <2>1, Widths DEF ConfigOK, U64
  <2>3. ASSUME config["trigger_threshold_pct"] <= 100
        PROVE  put # "none"
    <3>1. config["trigger_threshold_pct"] \in 0..100
      BY <2>1, <2>3 DEF ConfigOK
    <3>2. Threshold \in Nat /\ Threshold <= config["global_quota_bytes"]
      BY <2>2, <3>1, Widths, PercentLe, Zenon DEF Threshold, QuotaTimesPct
    <3>3. ~(usage <= Threshold)
      BY <2>1, <2>2, <3>2
    <3> QED
      BY <2>1, <3>3 DEF AnswersCurrent
  <2>4. ASSUME Swept
        PROVE  sweep.over
    <3>1. OverGlobalQuota
      BY <2>1, <2>2, AsI64Le DEF OverGlobalQuota
    <3> QED
      BY <2>1, <2>4, <3>1 DEF Swept, AnswersCurrent, SweepCurrent
  <2> QED
    BY <2>3, <2>4
<1> QED
  BY <1>1, SettingsInvariant, PTL

(* Nothing is swept early while quota and product fit their types.           *)
THEOREM NothingSweptEarly == SettingsSpec => []SweptOnlyIfOver
<1>1. SettingsInv => SweptOnlyIfOver
  <2> SUFFICES ASSUME SettingsInv, phase = "serving"
               PROVE  /\ Swept /\ config["global_quota_bytes"] < Half /\ sweep.over =>
                            usage > config["global_quota_bytes"]
                      /\ put = "sweep" /\ QuotaTimesPct < Modulus =>
                            usage * 100 > QuotaTimesPct
    BY DEF SweptOnlyIfOver
  <2>1. ConfigOK /\ AnswersCurrent /\ usage \in Nat
    BY DEF SettingsInv
  <2>2. ASSUME Swept, config["global_quota_bytes"] < Half, sweep.over
        PROVE  usage > config["global_quota_bytes"]
    <3>1. config["global_quota_bytes"] \in 0..(Half - 1)
      BY <2>1, <2>2, Widths DEF ConfigOK, U64
    <3>2. AsI64(config["global_quota_bytes"]) = config["global_quota_bytes"]
      BY <3>1, AsI64Small
    <3> QED
      BY <2>1, <2>2, <3>2 DEF Swept, AnswersCurrent, SweepCurrent, OverGlobalQuota
  <2>3. ASSUME put = "sweep", QuotaTimesPct < Modulus
        PROVE  usage * 100 > QuotaTimesPct
    <3>1. QuotaTimesPct \in Nat
      BY <2>1, ThresholdIsInt
    <3>2. QuotaTimesPct \in 0..(Modulus - 1)
      BY <2>3, <3>1, Widths
    <3>3. QuotaTimesPct % Modulus = QuotaTimesPct
      BY <3>2, Widths, ModSmall, Zenon
    <3>4. usage > QuotaTimesPct \div 100
      BY <2>1, <2>3, <3>3 DEF AnswersCurrent, Threshold
    <3>5. \A x, y \in Nat : y > x \div 100 => y * 100 > x
      BY SMT
    <3> QED
      BY <2>1, <3>1, <3>4, <3>5, Zenon
  <2> QED
    BY <2>2, <2>3
<1> QED
  BY <1>1, SettingsInvariant, PTL

(* The ticker's task ends only by an interval of zero or, with overflow      *)
(* checks, by a default TTL beyond i64 (lib.rs, gc.rs).                      *)
THEOREM TickerStaysAlive == SettingsSpec => []TickerLives
<1>1. SettingsInv => TickerLives
  BY DEF SettingsInv
<1> QED
  BY <1>1, SettingsInvariant, PTL
=============================================================================
