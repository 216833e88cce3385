------------------------------ MODULE RewardRules ------------------------------
(***************************************************************************)
(* The rules that compute without writing: the tier of a member, the       *)
(* welfare score of an award, and the lookups in the three effective-dated *)
(* configuration tables (earn rates, tier caps, exchange rates).           *)
(***************************************************************************)
EXTENDS Integers

CONSTANTS
    WgsMedium, WgsHigh, WgsCritical,    \* WGS_THRESHOLD_MEDIUM, _HIGH, _CRITICAL
    ConfigKeys,     \* what a row is looked up by: tenant, merchant, tier, ...
    NotSuperseded   \* superseded_at: null

ASSUME ThresholdsAssumption == {WgsMedium, WgsHigh, WgsCritical} \subseteq Nat
ASSUME SupersededAssumption == NotSuperseded \notin Nat

-----------------------------------------------------------------------------
(* TierEngineService.                                                       *)

OrderedTiers == <<"RED_DESIRE", "RED_PASSION", "RED_OBSESSION", "RED_REIGN">>
TierThresholds == <<0, 5000, 25000, 100000>>
TierCount == 4

\* Math.max(0, totalPoints)
Effective(total) == IF total > 0 THEN total ELSE 0

\* The loop goes up the thresholds and breaks at the first one not reached.
StopsAt(points, i) ==
    /\ \A j \in 1..i : points >= TierThresholds[j]
    /\ i < TierCount => points < TierThresholds[i + 1]
TierIndex(total) == CHOOSE i \in 1..TierCount : StopsAt(Effective(total), i)
CurrentTier(total) == OrderedTiers[TierIndex(total)]

PointsToNextTier(total) ==
    IF TierIndex(total) = TierCount THEN 0
    ELSE TierThresholds[TierIndex(total) + 1] - Effective(total)

-----------------------------------------------------------------------------
(* WelfareGuardianScoreService.                                             *)

\* The rule table, mildest row first.
Verdicts == <<
    [fraudRisk |-> 5,  welfareRisk |-> 10, tier |-> "LOW",      action |-> "PASS"],
    [fraudRisk |-> 15, welfareRisk |-> 22, tier |-> "LOW",      action |-> "PASS"],
    [fraudRisk |-> 30, welfareRisk |-> 40, tier |-> "MEDIUM",   action |-> "REVIEW"],
    [fraudRisk |-> 55, welfareRisk |-> 65, tier |-> "HIGH",     action |-> "SOFT_DECLINE"],
    [fraudRisk |-> 80, welfareRisk |-> 90, tier |-> "CRITICAL", action |-> "HARD_DECLINE"]>>

\* The first comparison that succeeds decides, so the order of the environment's
\* thresholds matters.
Band(amount) ==
    IF amount >= WgsCritical THEN 5
    ELSE IF amount >= WgsHigh THEN 4
    ELSE IF amount >= WgsMedium THEN 3
    ELSE IF amount >= 1000 THEN 2
    ELSE 1
Verdict(amount) == Verdicts[Band(amount)]

-----------------------------------------------------------------------------
(* Effective-dated rows.  A row is never deleted: a change inserts a new    *)
(* row and stamps superseded_at on the one before.                          *)

Row == [key: ConfigKeys, effective: Nat, superseded: Nat \cup {NotSuperseded},
        value: Nat, zeroEarn: BOOLEAN]

\* What MerchantPairConfig documents: effective_at <= T < superseded_at.
InForce(row, t) ==
    /\ row.effective <= t
    /\ row.superseded = NotSuperseded \/ t < row.superseded

\* getExchangeRate asks for a row without superseded_at whose time has come.
PairRows(rows, key, now) ==
    {r \in rows : r.key = key /\ r.effective <= now /\ r.superseded = NotSuperseded}
DefaultExchangeRate == 1
\* findOne returns any of the rows that match.
ExchangeRates(rows, key, now) ==
    IF PairRows(rows, key, now) = {} THEN {DefaultExchangeRate}
    ELSE {r.value : r \in PairRows(rows, key, now)}

\* calculateEarnRate and validateTierCap ask for the newest row without
\* superseded_at, whether or not its time has come.
OpenRows(rows, key) == {r \in rows : r.key = key /\ r.superseded = NotSuperseded}
NewestRows(rows, key) ==
    {r \in OpenRows(rows, key) :
        \A s \in OpenRows(rows, key) : s.effective <= r.effective}

\* Points for an amount spent, an empty set when the lookup throws; value is
\* base_points_per_unit * inferno_multiplier.
EarnedPoints(rows, key, amount, diamondConcierge) ==
    {IF diamondConcierge /\ r.zeroEarn THEN 0 ELSE r.value * amount :
        r \in NewestRows(rows, key)}

\* A redemption passes if some cap row is found and value per cent of the
\* transaction covers it.
WithinTierCap(rows, key, transactionValue, redemption) ==
    \E r \in NewestRows(rows, key) : redemption * 100 <= r.value * transactionValue
=============================================================================
