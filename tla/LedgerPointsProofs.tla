--------------------------- MODULE LedgerPointsProofs ---------------------------
(***************************************************************************)
(* Proofs about LedgerPoints, for any number of accounts, calls, rows and  *)
(* awards.  Most steps touch one call and no entry: QuietStep says once    *)
(* why the invariant survives them.  What is left are the steps that read  *)
(* a balance, insert an entry or move the clock.                           *)
(***************************************************************************)
EXTENDS LedgerPoints, SumTheorems, FiniteSetTheorems, TLAPS


-----------------------------------------------------------------------------
(* The rules of RewardRules, for every number of points and every set of    *)
(* configuration rows.  Tiers.                                              *)

LEMMA Thresholds ==
    /\ TierThresholds[1] = 0      /\ TierThresholds[2] = 5000
    /\ TierThresholds[3] = 25000  /\ TierThresholds[4] = 100000
BY DEF TierThresholds

\* The loop of calculateTier stops, and at one place only.
LEMMA StopsOnce ==
    ASSUME NEW points \in Nat
    PROVE  /\ \E i \in 1..TierCount : StopsAt(points, i)
           /\ \A i, j \in 1..TierCount : StopsAt(points, i) /\ StopsAt(points, j) => i = j
<1>1. 1..TierCount = {1, 2, 3, 4}
  BY DEF TierCount
<1>2. /\ StopsAt(points, 1) <=> points < 5000
      /\ StopsAt(points, 2) <=> points >= 5000 /\ points < 25000
      /\ StopsAt(points, 3) <=> points >= 25000 /\ points < 100000
      /\ StopsAt(points, 4) <=> points >= 100000
  <2>1. 1..1 = {1} /\ 1..2 = {1, 2} /\ 1..3 = {1, 2, 3} /\ 1..4 = {1, 2, 3, 4}
    OBVIOUS
  <2> QED
    BY <2>1, Thresholds DEF StopsAt, TierCount
<1> QED
  BY <1>1, <1>2

\* calculateTier gives the highest tier whose threshold is reached.
THEOREM HighestTierReached ==
    ASSUME NEW total \in Int, NEW i \in 1..TierCount
    PROVE  i <= TierIndex(total) <=> Effective(total) >= TierThresholds[i]
<1> DEFINE points == Effective(total)
           k == TierIndex(total)
<1>1. points \in Nat
  BY DEF Effective
<1>2. k \in 1..TierCount /\ StopsAt(points, k)
  BY <1>1, StopsOnce DEF TierIndex
<1>3. 1..TierCount = {1, 2, 3, 4} /\ k \in {1, 2, 3, 4} /\ i \in {1, 2, 3, 4}
  BY <1>2 DEF TierCount
<1> HIDE DEF points, k
<1>4. i <= k => points >= TierThresholds[i]
  BY <1>2, <1>3 DEF StopsAt
<1>5. ASSUME i > k PROVE points < TierThresholds[i]
  <2>1. points < TierThresholds[k + 1]
    BY <1>2, <1>3, <1>5 DEF StopsAt, TierCount
  <2>2. TierThresholds[k + 1] <= TierThresholds[i]
    BY <1>3, <1>5, Thresholds
  <2> QED
    BY <1>1, <1>3, <1>5, <2>1, <2>2, Thresholds
<1> QED
  BY <1>1, <1>3, <1>4, <1>5, Thresholds DEF points, k

\* A member never loses a tier by gaining points (calculateTier).
THEOREM TierMonotone ==
    ASSUME NEW total \in Int, NEW gained \in Nat
    PROVE  TierIndex(total) <= TierIndex(total + gained)
<1>1. TierIndex(total) \in 1..TierCount
  BY StopsOnce DEF TierIndex, Effective
<1>2. TierIndex(total + gained) \in 1..TierCount
  BY StopsOnce DEF TierIndex, Effective
<1>3. Effective(total) >= TierThresholds[TierIndex(total)]
  <2>1. TierIndex(total) <= TierIndex(total)
    BY <1>1 DEF TierCount
  <2> QED
    BY <1>1, <2>1, HighestTierReached
<1>4. TierThresholds[TierIndex(total)] \in Nat
  BY <1>1, Thresholds DEF TierCount
<1>5. Effective(total + gained) >= Effective(total)
      /\ Effective(total + gained) \in Nat /\ Effective(total) \in Nat
  BY DEF Effective
<1>6. Effective(total + gained) >= TierThresholds[TierIndex(total)]
  BY <1>3, <1>4, <1>5
<1> QED
  BY <1>1, <1>6, HighestTierReached

\* pointsToNextTier is exactly what a member lacks: gaining as much reaches a
\* higher tier, gaining less does not.
THEOREM NextTierExact ==
    ASSUME NEW total \in Nat, NEW gained \in Nat, TierIndex(total) < TierCount
    PROVE  TierIndex(total) < TierIndex(total + gained) <=> gained >= PointsToNextTier(total)
<1> DEFINE k == TierIndex(total)
           n == TierIndex(total + gained)
<1>1. Effective(total) = total /\ Effective(total + gained) = total + gained
  BY DEF Effective
<1>2. k \in 1..TierCount /\ n \in 1..TierCount
  BY <1>1, StopsOnce DEF TierIndex
<1>3. k + 1 \in 1..TierCount /\ TierThresholds[k + 1] \in Nat /\ k \in Nat /\ n \in Nat
  BY <1>2, Thresholds DEF TierCount
<1>4. k + 1 <= n <=> total + gained >= TierThresholds[k + 1]
  <2>1. total + gained \in Int
    OBVIOUS
  <2> QED
    BY <1>1, <1>3, <2>1, HighestTierReached
<1>5. PointsToNextTier(total) = TierThresholds[k + 1] - total
  BY <1>1, <1>2 DEF PointsToNextTier, TierCount
<1>6. k < n <=> k + 1 <= n
  BY <1>3
<1> HIDE DEF k, n
<1>7. k < n <=> gained >= PointsToNextTier(total)
  BY <1>3, <1>4, <1>5, <1>6
<1> QED
  BY <1>7 DEF k, n

-----------------------------------------------------------------------------
(* The welfare score.                                                       *)

\* Only an award of the critical size is declined, in whatever order the
\* environment sets the other thresholds (scoreTransaction).
THEOREM DeclinesFromCritical ==
    ASSUME NEW amount \in Int
    PROVE  Verdict(amount).action = "HARD_DECLINE" <=> amount >= WgsCritical
<1>1. Band(amount) \in 1..5 /\ (Band(amount) = 5 <=> amount >= WgsCritical)
  BY DEF Band
<1>2. \A b \in 1..5 : Verdicts[b].action = "HARD_DECLINE" <=> b = 5
  BY DEF Verdicts
<1> QED
  BY <1>1, <1>2 DEF Verdict

\* When the thresholds are in order, a larger award is never judged more mildly.
THEOREM VerdictMonotone ==
    ASSUME NEW a \in Int, NEW b \in Int, a <= b,
           1000 <= WgsMedium, WgsMedium <= WgsHigh, WgsHigh <= WgsCritical
    PROVE  /\ Verdict(a).fraudRisk <= Verdict(b).fraudRisk
           /\ Verdict(a).welfareRisk <= Verdict(b).welfareRisk
<1>1. Band(a) \in 1..5 /\ Band(b) \in 1..5 /\ Band(a) <= Band(b)
  BY ThresholdsAssumption DEF Band
<1>2. \A i, j \in 1..5 : i <= j => /\ Verdicts[i].fraudRisk <= Verdicts[j].fraudRisk
                                   /\ Verdicts[i].welfareRisk <= Verdicts[j].welfareRisk
  BY DEF Verdicts
<1> QED
  BY <1>1, <1>2 DEF Verdict

-----------------------------------------------------------------------------
(* Effective-dated rows.                                                    *)

\* The rows of a key that are in force, as MerchantPairConfig documents it.
RowsInForce(rows, key, at) == {r \in rows : r.key = key /\ InForce(r, at)}

\* While no row is superseded at a date that is still to come, getExchangeRate
\* answers the rate in force, or the default when there is none.
THEOREM ExchangeRateInForce ==
    ASSUME NEW rows \in SUBSET Row, NEW key \in ConfigKeys, NEW at \in Nat,
           \A r \in rows : r.superseded # NotSuperseded => r.superseded <= at
    PROVE  ExchangeRates(rows, key, at) =
               IF RowsInForce(rows, key, at) = {} THEN {DefaultExchangeRate}
               ELSE {r.value : r \in RowsInForce(rows, key, at)}
<1>1. \A r \in rows : InForce(r, at) <=>
          r.effective <= at /\ r.superseded = NotSuperseded
  BY DEF InForce, Row
<1>2. PairRows(rows, key, at) = RowsInForce(rows, key, at)
  BY <1>1 DEF PairRows, RowsInForce
<1> QED
  BY <1>2 DEF ExchangeRates

\* A change that is scheduled, by a date in superseded_at and a row that starts
\* then, takes the rate away at once: the default is answered although a row is in
\* force until then (getExchangeRate).
THEOREM ScheduledRateLost ==
    ASSUME NEW old \in Row, NEW new \in Row, NEW at \in Nat,
           old.key = new.key, InForce(old, at),
           old.superseded = new.effective, new.superseded = NotSuperseded
    PROVE  /\ RowsInForce({old, new}, old.key, at) = {old}
           /\ ExchangeRates({old, new}, old.key, at) = {DefaultExchangeRate}
<1>1. new.effective \in Nat /\ old.superseded # NotSuperseded /\ new.effective > at
  BY SupersededAssumption DEF Row, InForce
<1>2. ~InForce(new, at)
  BY <1>1 DEF InForce, Row
<1>3. RowsInForce({old, new}, old.key, at) = {old}
  BY <1>2 DEF RowsInForce
<1>4. PairRows({old, new}, old.key, at) = {}
  BY <1>1 DEF PairRows, Row
<1> QED
  BY <1>3, <1>4 DEF ExchangeRates

\* An earn rate or a tier cap inserted for a later date applies at once: the
\* lookup takes the newest row and never looks at the clock (calculateEarnRate,
\* validateTierCap).
THEOREM LaterRowAppliesAtOnce ==
    ASSUME NEW rows \in SUBSET Row, NEW new \in Row, new.superseded = NotSuperseded,
           \A r \in OpenRows(rows, new.key) : r.effective < new.effective,
           NEW amount \in Nat, NEW redemption \in Nat
    PROVE  /\ EarnedPoints(rows \cup {new}, new.key, amount, FALSE) = {new.value * amount}
           /\ WithinTierCap(rows \cup {new}, new.key, amount, redemption) <=>
                  redemption * 100 <= new.value * amount
<1> DEFINE all == OpenRows(rows \cup {new}, new.key)
<1>1. all = OpenRows(rows, new.key) \cup {new}
  BY DEF OpenRows
<1>2. \A r \in all : r.effective \in Nat /\ (r = new \/ r.effective < new.effective)
  BY <1>1 DEF OpenRows, Row
<1> HIDE DEF all
<1>3. \A r \in all : (\A s \in all : s.effective <= r.effective) <=> r = new
  BY <1>1, <1>2
<1>4. {r \in all : \A s \in all : s.effective <= r.effective} = {new}
  BY <1>1, <1>3
<1>5. NewestRows(rows \cup {new}, new.key) = {new}
  BY <1>4 DEF NewestRows, all
<1> QED
  BY <1>5 DEF EarnedPoints, WithinTierCap

-----------------------------------------------------------------------------
(* The ledger.                                                              *)

USE LedgerAmountsAssumption, LedgerBoundsAssumption, LedgerNullAssumption

Ind == TypeOK /\ IInv

-----------------------------------------------------------------------------
(* The helpers.                                                             *)

\* getBalanceSnapshot returns an integer, and 0 for an account without entries.
LEMMA SnapshotType ==
    ASSUME TypeOK, NEW a \in Accounts
    PROVE  Snapshots(a) \subseteq Int
  BY DEF TypeOK, Snapshots, Balances, Latest, Entry

\* The sum of no entries is 0.
LEMMA SumOfNothing == SumOf({}) = 0
  <1> DEFINE F == [e \in {} |-> e.amount]
  <1>1. SumOf({}) = SumFunctionOnSet(F, {})
    BY DEF SumOf, SumFunction
  <1> HIDE DEF F
  <1> QED BY <1>1, SumEmpty

LEMMA NothingSummed == Credits({}) = 0 /\ Debits({}) = 0
  <1>1. {e \in {} : e.amount > 0} = {} /\ {e \in {} : e.amount < 0} = {}
    OBVIOUS
  <1> QED BY <1>1, SumOfNothing DEF Credits, Debits

\* The points of a finite number of entries are an integer, and a new entry adds
\* its own.
LEMMA SumOfType ==
    ASSUME NEW S \in SUBSET Entry, IsFiniteSet(S)
    PROVE  SumOf(S) \in Int
  <1> DEFINE F == [e \in S |-> e.amount]
  <1>1. SumOf(S) = SumFunctionOnSet(F, S)
    BY DEF SumOf, SumFunction
  <1>2. \A e \in S : F[e] \in Int
    BY DEF Entry
  <1> HIDE DEF F
  <1> QED BY <1>1, <1>2, SumType

LEMMA SumOfAdded ==
    ASSUME NEW S \in SUBSET Entry, IsFiniteSet(S), NEW e \in Entry, e \notin S
    PROVE  SumOf(S \cup {e}) = SumOf(S) + e.amount
  <1> DEFINE F == [f \in S |-> f.amount]
             G == [f \in S \cup {e} |-> f.amount]
  <1>1. /\ SumOf(S) = SumFunctionOnSet(F, S)
        /\ SumOf(S \cup {e}) = SumFunctionOnSet(G, S \cup {e})
    BY DEF SumOf, SumFunction
  <1>2. /\ \A f \in S \cup {e} : G[f] \in Int
        /\ \A f \in S : G[f] = F[f]
        /\ G[e] = e.amount /\ e.amount \in Int
    BY DEF Entry
  <1> HIDE DEF F, G
  <1>3. SumFunctionOnSet(G, S) = SumFunctionOnSet(F, S)
    BY <1>2, SumEqual
  <1>4. SumFunctionOnSet(G, S \cup {e}) = G[e] + SumFunctionOnSet(G, S)
    BY <1>2, SumAdd
  <1>5. SumOf(S) \in Int
    BY SumOfType
  <1> QED BY <1>1, <1>2, <1>3, <1>4, <1>5

LEMMA TotalType ==
    ASSUME TypeOK, NEW a \in Accounts
    PROVE  Total(a) \in Int
  <1>1. /\ {e \in entries : e.account = a} \in SUBSET Entry
        /\ IsFiniteSet({e \in entries : e.account = a})
    BY FS_Subset DEF TypeOK
  <1> QED BY <1>1, SumOfType DEF Total

\* As long as the entries stay, so do the totals; they begin at 0.
LEMMA TotalKept ==
    ASSUME entries' = entries
    PROVE  \A a \in Accounts : Total(a)' = Total(a)
  <1> SUFFICES ASSUME NEW a \in Accounts PROVE Total(a)' = Total(a)
    OBVIOUS
  <1> QED BY DEF Total, SumOf

LEMMA TotalInit ==
    ASSUME entries = {}
    PROVE  \A a \in Accounts : Total(a) = 0
  <1> SUFFICES ASSUME NEW a \in Accounts PROVE Total(a) = 0
    OBVIOUS
  <1>1. {e \in entries : e.account = a} = {}
    OBVIOUS
  <1> QED BY <1>1, SumOfNothing DEF Total

\* Inserting an entry moves the total of its account alone.
LEMMA InsertTotal ==
    ASSUME TypeOK, NEW e \in Entry, entries' = entries \cup {e}, NEW a \in Accounts
    PROVE  /\ a = e.account /\ e \notin entries => Total(a)' = Total(a) + e.amount
           /\ a # e.account => Total(a)' = Total(a)
  <1> DEFINE S == {f \in entries : f.account = a}
  <1>1. S \in SUBSET Entry /\ IsFiniteSet(S)
    BY FS_Subset DEF TypeOK
  <1>2. ASSUME a = e.account, e \notin entries PROVE Total(a)' = Total(a) + e.amount
    <2>1. {f \in entries' : f.account = a} = S \cup {e} /\ e \notin S
      BY <1>2
    <2>2. Total(a) = SumOf(S) /\ Total(a)' = SumOf(S \cup {e})
      BY <2>1 DEF Total, SumOf
    <2> HIDE DEF S
    <2> QED BY <1>1, <2>1, <2>2, SumOfAdded
  <1>3. ASSUME a # e.account PROVE Total(a)' = Total(a)
    <2>1. {f \in entries' : f.account = a} = {f \in entries : f.account = a}
      BY <1>3
    <2> QED BY <2>1 DEF Total, SumOf
  <1> QED BY <1>2, <1>3

\* An entry younger than all of its account is not among them.
LEMMA InOrderIsNew ==
    ASSUME NEW e \in Entry, ~OutOfOrder(e)
    PROVE  e \notin entries
  BY DEF OutOfOrder, Entry

\* No entry carries a tenant, so a report has nothing to add up.
LEMMA NothingReported ==
    ASSUME NEW a, NEW until
    PROVE  FoundEntries(a, until) = {}
  BY DEF FoundEntries, TenantOf

\* The result of an upload keeps its type as long as a row is left.
LEMMA CountedType ==
    ASSUME NEW u \in Upload, u.left > 0, NEW good \in BOOLEAN, NEW unsure \in BOOLEAN
    PROVE  Counted(u, good, unsure) \in Upload
  BY DEF Upload, Counted

\* The step is one of c.
Alone(c) ==
    \A d \in Calls \ {c} :
        /\ pc'[d] = pc[d] /\ req'[d] = req[d] /\ seen'[d] = seen[d]
        /\ stamp'[d] = stamp[d] /\ upload'[d] = upload[d]

\* What the end of an award or a debit leaves behind.
Ended(c, good, unsure) ==
    /\ pc' \in [Calls -> Steps] /\ req' \in [Calls -> Request]
    /\ seen' \in [Calls -> Int] /\ stamp' \in [Calls -> Nat]
    /\ upload' \in [Calls -> Upload]
    /\ pc'[c] = IF req[c].kind = "upload" THEN "row"
                ELSE IF good THEN "returned" ELSE "thrown"
    /\ req'[c] = [kind |-> req[c].kind, account |-> Null, amount |-> 0, key |-> Null]
    /\ stamp'[c] = 0
    /\ upload'[c] = IF req[c].kind = "upload"
                    THEN Counted(upload[c], good, unsure) ELSE upload[c]
    /\ Alone(c)

LEMMA EndEffect ==
    ASSUME Ind, NEW c \in Calls, pc[c] \in {"read", "commit"}, NEW good \in BOOLEAN,
           NEW unsure \in BOOLEAN, End(c, good, unsure)
    PROVE  Ended(c, good, unsure)
  <1>1. [kind |-> req[c].kind, account |-> Null, amount |-> 0, key |-> Null] \in Request
    BY DEF Ind, TypeOK, Request, AnyAccount
  <1>2. req[c].kind = "upload" => Counted(upload[c], good, unsure) \in Upload
    BY CountedType DEF Ind, TypeOK, IInv, LeftInv, Awarding
  <1>3. upload' \in [Calls -> Upload] /\ pc' \in [Calls -> Steps]
    BY <1>2 DEF Ind, TypeOK, End, Goto, Steps
  <1> QED BY <1>1, <1>3 DEF Ind, TypeOK, End, Goto, Steps, Ended, Alone

\* An account stays in turn while its entries and pending inserts stay.
LEMMA TurnKept ==
    ASSUME NEW a \in Accounts, InTurn(a), Total(a)' = Total(a),
           PendingCalls(a)' = PendingCalls(a), PendingAwards(a)' = PendingAwards(a),
           \A d \in PendingCalls(a) : seen'[d] = seen[d]
    PROVE  InTurn(a)'
  BY DEF InTurn

-----------------------------------------------------------------------------
(* Steps that touch one call and no entry.                                  *)

\* How such a step may change the upload of its call.
RowsKept(c) ==
    LET u == upload[c]  v == upload'[c]
    IN  /\ v.left <= u.left
        /\ v.ok + v.unsure = u.ok + u.unsure
        /\ v.ok + v.failed + v.left = u.ok + u.failed + u.left
        /\ v.of = u.of
        /\ v.failed - v.unsure >= u.failed - u.unsure
RowsStarted(c) ==
    LET v == upload'[c]
    IN  v.ok = 0 /\ v.failed = 0 /\ v.unsure = 0 /\ v.left = v.of

\* A step of one call that inserts nothing keeps the invariant, whatever the other
\* calls are about to do.
LEMMA QuietStep ==
    ASSUME Ind, TypeOK', NEW c \in Calls, Alone(c),
           entries' = entries, upset' = upset, now' = now, awarding' = awarding, ReportInv',
           stamp'[c] <= now, pc'[c] # "commit", CallOK(c)',
           Awarding(c)' => upload'[c].left > 0,
           \/ req'[c].kind = req[c].kind /\ req[c].kind # "none" /\ RowsKept(c)
           \/ req[c].kind = "none" /\ (req'[c].kind = "upload" => RowsStarted(c))
    PROVE  IInv'
  <1>1. ClockInv'
    BY DEF Ind, IInv, ClockInv, Alone
  <1>2. CallInv'
    <2> SUFFICES ASSUME NEW d \in Calls PROVE CallOK(d)'
      BY DEF CallInv
    <2>1. CASE d = c
      BY <2>1
    <2>2. CASE d # c
      BY <2>2 DEF Alone, Ind, IInv, CallInv, CallOK, Covers
    <2> QED BY <2>1, <2>2
  <1>3. PendingInv'
    <2> SUFFICES ASSUME NEW a \in Accounts \ upset PROVE InTurn(a)'
      BY DEF PendingInv
    <2>1. InTurn(a) /\ Total(a)' = Total(a) /\ PendingAwards(a)' = PendingAwards(a)
      BY TotalKept DEF Ind, IInv, PendingInv, PendingAwards
    <2>2. CASE c \in PendingCalls(a)
      <3>1. PendingCalls(a) = {c} /\ PendingCalls(a)' = {} /\ PendingAwards(a) = {}
        BY <2>1, <2>2 DEF InTurn, PendingCalls, Alone
      <3> QED BY <2>1, <3>1 DEF InTurn
    <2>3. CASE c \notin PendingCalls(a)
      <3>1. /\ PendingCalls(a)' = PendingCalls(a)
            /\ \A d \in PendingCalls(a) : seen'[d] = seen[d]
        BY <2>3 DEF PendingCalls, Alone
      <3> QED BY <2>1, <3>1, TurnKept
    <2> QED BY <2>2, <2>3
  <1>4. RowInv'
    BY DEF Ind, TypeOK, IInv, RowInv, Alone, RowsKept, Entry, Upload
  <1>5. LeftInv'
    BY DEF Ind, IInv, LeftInv, Awarding, Alone
  <1>6. SnapshotIsTotal'
    BY TotalKept DEF Ind, IInv, SnapshotIsTotal, Snapshots, Balances, Latest
  <1>7. UploadCounts'
    <2> SUFFICES ASSUME NEW d \in Calls, req'[d].kind = "upload" PROVE RowsCounted(d)'
      BY DEF UploadCounts
    <2>1. CASE d # c
      BY <2>1 DEF Alone, Ind, IInv, UploadCounts, RowsCounted
    <2> /\ upload[c] \in Upload /\ upload'[c] \in Upload
        /\ {e \in entries' : e.by = c} = {e \in entries : e.by = c}
      BY DEF Ind, TypeOK
    <2>2. CASE d = c /\ req[c].kind # "none"
      <3>1. RowsCounted(c)
        BY <2>2 DEF Ind, IInv, UploadCounts
      <3> QED BY <2>2, <3>1 DEF RowsKept, Upload, RowsCounted
    <2>3. CASE d = c /\ req[c].kind = "none"
      <3>1. {e \in entries : e.by = c} = {}
        BY <2>3 DEF Ind, TypeOK, IInv, RowInv
      <3>2. Cardinality({e \in entries' : e.by = c}) = 0
        BY <3>1, FS_EmptySet
      <3> QED BY <2>3, <3>2 DEF RowsStarted, Upload, RowsCounted
    <2> QED BY <2>1, <2>2, <2>3
  <1> QED BY <1>1, <1>2, <1>3, <1>4, <1>5, <1>6, <1>7 DEF IInv
-----------------------------------------------------------------------------
(* Entering and checking.                                                   *)

\* Amounts, keys and kinds of a request.
LEMMA RequestTypes ==
    ASSUME NEW kind \in Kinds, NEW a \in AnyAccount, NEW n \in Int,
           NEW k \in Keys \cup {Null}
    PROVE  [kind |-> kind, account |-> a, amount |-> n, key |-> k] \in Request
  BY DEF Request

LEMMA GuardedAmount ==
    ASSUME NEW n \in Amounts \cup {0}, NEW kind
    PROVE  /\ n \in Nat
           /\ \/ AfterGuard(n, kind) = "thrown"
              \/ AfterGuard(n, kind) = "read" /\ n > 0
  BY DEF AfterGuard

LEMMA CallWalletStep ==
    ASSUME Ind, NEW c \in Calls, CallWallet(c) PROVE Ind'
  <1>1. PICK kind \in {"credit", "debit"}, a \in Accounts, n \in Nat,
             k \in Keys \cup {Null}, step \in {"read", "thrown"} :
             /\ req' = [req EXCEPT ![c] = [kind |-> kind, account |-> a,
                                           amount |-> n, key |-> k]]
             /\ pc' = [pc EXCEPT ![c] = step]
             /\ step = "read" => n > 0
    <2>1. PICK kind \in {"credit", "debit"}, a \in Accounts, n \in Amounts \cup {0},
               k \in Keys \cup {Null} :
               /\ req' = [req EXCEPT ![c] = [kind |-> kind, account |-> a,
                                             amount |-> n, key |-> k]]
               /\ pc' = [pc EXCEPT ![c] = AfterGuard(n, kind)]
      BY DEF CallWallet, Goto
    <2> QED BY <2>1, GuardedAmount
  <1> [kind |-> kind, account |-> a, amount |-> n, key |-> k] \in Request
    BY <1>1, RequestTypes DEF AnyAccount, Kinds, Crediting
  <1>2. TypeOK'
    BY <1>1 DEF Ind, TypeOK, CallWallet, Steps
  <1>3. CallOK(c)' /\ pc'[c] # "commit" /\ req'[c].kind # "upload"
    BY <1>1 DEF Ind, TypeOK, CallOK, Crediting
  <1>4. req[c].kind = "none"
    BY DEF Ind, IInv, CallInv, CallOK, CallWallet, At
  <1> QED BY <1>1, <1>2, <1>3, <1>4, QuietStep
      DEF CallWallet, Ind, TypeOK, Alone, Awarding, IInv, ClockInv, ReportInv

LEMMA CallAwardStep ==
    ASSUME Ind, NEW c \in Calls, CallAward(c) PROVE Ind'
  <1>1. PICK kind \in {"award", "burn"}, a \in Accounts, n \in Int :
             req' = [req EXCEPT ![c] = [kind |-> kind, account |-> a,
                                        amount |-> n, key |-> Null]]
    <2>1. PICK kind \in {"award", "burn"}, a \in Accounts, n \in Amounts :
             req' = [req EXCEPT ![c] = [kind |-> kind, account |-> a,
                                        amount |-> IF kind = "burn" THEN -n ELSE n,
                                        key |-> Null]]
      BY DEF CallAward
    <2>2. (IF kind = "burn" THEN -n ELSE n) \in Int
      BY <2>1
    <2> QED BY <2>1, <2>2
  <1> [kind |-> kind, account |-> a, amount |-> n, key |-> Null] \in Request
    BY <1>1, RequestTypes DEF Kinds, Crediting, AnyAccount
  <1>2. TypeOK'
    BY <1>1 DEF Ind, TypeOK, CallAward, Goto, Steps
  <1>3. CallOK(c)' /\ pc'[c] # "commit" /\ req'[c].kind # "upload"
    BY <1>1 DEF Ind, TypeOK, CallOK, CallAward, Goto
  <1>4. req[c].kind = "none"
    BY DEF Ind, IInv, CallInv, CallOK, CallAward, At
  <1> QED BY <1>1, <1>2, <1>3, <1>4, QuietStep
      DEF CallAward, Goto, Ind, TypeOK, Alone, Awarding, IInv, ClockInv, ReportInv

LEMMA CallSignupStep ==
    ASSUME Ind, NEW c \in Calls, CallSignup(c) PROVE Ind'
  <1>1. PICK a \in Accounts :
             req' = [req EXCEPT ![c] = [kind |-> "signup", account |-> a,
                                        amount |-> WelcomeBonus, key |-> Null]]
    BY DEF CallSignup
  <1> [kind |-> "signup", account |-> a, amount |-> WelcomeBonus, key |-> Null] \in Request
    BY <1>1, RequestTypes DEF Kinds, Crediting, AnyAccount
  <1>2. TypeOK'
    BY <1>1 DEF Ind, TypeOK, CallSignup, Goto, Steps
  <1>3. CallOK(c)' /\ pc'[c] # "commit" /\ req'[c].kind # "upload"
    BY <1>1 DEF Ind, TypeOK, CallOK, CallSignup, Goto
  <1>4. req[c].kind = "none"
    BY DEF Ind, IInv, CallInv, CallOK, CallSignup, At
  <1> QED BY <1>1, <1>2, <1>3, <1>4, QuietStep
      DEF CallSignup, Goto, Ind, TypeOK, Alone, Awarding, IInv, ClockInv, ReportInv

LEMMA CallUploadStep ==
    ASSUME Ind, NEW c \in Calls, CallUpload(c) PROVE Ind'
  <1>0. 0..MaxRows \subseteq Nat
    OBVIOUS
  <1>1. PICK n \in Nat : upload' = [upload EXCEPT ![c] =
             [of |-> n, left |-> n, ok |-> 0, failed |-> 0, unsure |-> 0]]
    BY <1>0 DEF CallUpload
  <1> [kind |-> "upload", account |-> Null, amount |-> 0, key |-> Null] \in Request
    BY <1>1, RequestTypes DEF Kinds, Crediting, AnyAccount
  <1>2. TypeOK'
    BY <1>1 DEF Ind, TypeOK, CallUpload, Goto, Steps, Upload
  <1>3. CallOK(c)' /\ pc'[c] = "row" /\ RowsStarted(c)
    BY <1>1 DEF Ind, TypeOK, CallOK, CallUpload, Goto, RowsStarted
  <1>4. req[c].kind = "none"
    BY DEF Ind, IInv, CallInv, CallOK, CallUpload, At
  <1> QED BY <1>1, <1>2, <1>3, <1>4, QuietStep
      DEF CallUpload, Goto, Ind, TypeOK, Alone, Awarding, IInv, ClockInv, ReportInv

\* What the checks before an award know of it.
LEMMA CheckedCall ==
    ASSUME Ind, NEW c \in Calls, pc[c] \in {"admit", "verify", "score"}
    PROVE  /\ req[c].account \in Accounts
           /\ req[c].kind \in {"award", "burn", "signup"}
           /\ req[c].amount \in Int
  BY DEF Ind, TypeOK, Request, IInv, CallInv, CallOK

\* A step of the checks only moves its call on; AfterGuard lets it read the balance
\* with a positive amount alone.
LEMMA ChecksStep ==
    ASSUME Ind, NEW c \in Calls, Admit(c) \/ Verify(c) \/ Score(c) PROVE Ind'
  <1>0. pc[c] \in {"admit", "verify", "score"}
    BY DEF Admit, Verify, Score, At
  <1>1. PICK step \in {"verify", "score", "read", "thrown"} :
             Goto(c, step) /\ (step = "read" => req[c].amount > 0)
    BY DEF Admit, Verify, Score, AfterGuard
  <1>2. UNCHANGED <<entries, wallet, now, req, seen, stamp, upload, report, upset, awards, awarding>>
    BY DEF Admit, Verify, Score
  <1>3. TypeOK'
    BY <1>1, <1>2 DEF Ind, TypeOK, Goto, Steps
  <1>4. CallOK(c)' /\ pc'[c] # "commit"
    BY <1>0, <1>1, <1>2, CheckedCall
    DEF Ind, TypeOK, CallOK, Goto, Crediting
  <1>5. Alone(c) /\ RowsKept(c) /\ stamp'[c] <= now /\ ReportInv'
    BY <1>1, <1>2
    DEF Goto, Ind, TypeOK, Alone, RowsKept, Upload, IInv, ClockInv, ReportInv
  <1> QED BY <1>0, <1>2, <1>3, <1>4, <1>5, CheckedCall, QuietStep DEF Awarding, Ind
-----------------------------------------------------------------------------
(* Steps that write no entry.                                               *)

\* A failed award, a refused debit or an answered duplicate ends its call and
\* counts its row.
LEMMA EndStep ==
    ASSUME Ind, NEW c \in Calls, pc[c] \in {"read", "commit"}, NEW good \in BOOLEAN,
           good = TRUE => req[c].kind # "upload", End(c, good, FALSE),
           UNCHANGED <<entries, wallet, now, report, upset, awards, awarding>>
    PROVE  Ind'
  <1>0. Ended(c, good, FALSE)
    BY EndEffect
  <1>1. TypeOK'
    BY <1>0 DEF Ended, Ind, TypeOK
  <1>2. CallOK(c)' /\ pc'[c] \notin {"read", "commit"}
    BY <1>0 DEF Ended, CallOK, Ind, IInv, CallInv
  <1>3. RowsKept(c)
    <2>1. CASE req[c].kind = "upload"
      <3>1. upload'[c] = Counted(upload[c], good, FALSE) /\ upload[c] \in Upload
        BY <1>0, <2>1 DEF Ended, Ind, TypeOK
      <3>2. upload[c].left > 0
        BY <2>1 DEF Ind, IInv, LeftInv, Awarding
      <3> QED BY <2>1, <3>1, <3>2 DEF RowsKept, Counted, Upload
    <2>2. CASE req[c].kind # "upload"
      BY <1>0, <2>2 DEF Ended, RowsKept, Ind, TypeOK, Upload
    <2> QED BY <2>1, <2>2
  <1>4. /\ stamp'[c] <= now /\ ~Awarding(c)' /\ Alone(c)
        /\ req[c].kind # "none" /\ req'[c].kind = req[c].kind
    BY <1>0, <1>2 DEF Ended, Awarding, Ind, TypeOK, IInv, CallInv, CallOK
  <1>5. ReportInv'
    BY DEF Ind, IInv, ReportInv
  <1> QED BY <1>1, <1>2, <1>3, <1>4, <1>5, QuietStep DEF Ind

LEMMA RejectStep ==
    ASSUME Ind, NEW c \in Calls, Reject(c) PROVE Ind'
  BY EndStep DEF Reject

LEMMA DuplicateStep ==
    ASSUME Ind, NEW c \in Calls, Duplicate(c) PROVE Ind'
  <1>1. req[c].kind # "upload"
    BY DEF Duplicate, KeyTaken, Ind, IInv, CallInv, CallOK
  <1> QED BY <1>1, EndStep DEF Duplicate, At

\* A rerun of the transaction keeps the request and forgets what was read.
LEMMA RerunStep ==
    ASSUME Ind, NEW c \in Calls, Rerun(c) PROVE Ind'
  <1>1. TypeOK'
    BY DEF Ind, TypeOK, Rerun, Goto, Steps
  <1>2. CallOK(c)' /\ pc'[c] # "commit" /\ req[c].kind # "none"
    BY DEF Ind, TypeOK, IInv, CallInv, CallOK, Rerun, At, Goto, Crediting
  <1>3. Alone(c) /\ stamp'[c] <= now /\ RowsKept(c)
    BY DEF Alone, RowsKept, Rerun, Goto, Ind, TypeOK, Upload
  <1>4. Awarding(c)' => upload'[c].left > 0
    BY DEF Awarding, Rerun, At, Ind, IInv, LeftInv
  <1> QED BY <1>1, <1>2, <1>3, <1>4, QuietStep
      DEF Rerun, Ind, IInv, ReportInv

\* The loop of uploadCSV.
LEMMA NextRowStep ==
    ASSUME Ind, NEW c \in Calls, NextRow(c) PROVE Ind'
  <1>0. pc[c] = "row" /\ req[c].kind = "upload" /\ upload[c] \in Upload
    BY DEF NextRow, At, Ind, TypeOK, IInv, CallInv, CallOK
  <1>1. CASE /\ upload[c].left = 0
             /\ Goto(c, "returned")
             /\ UNCHANGED <<req, upload>>
    <2>1. TypeOK'
      BY <1>1 DEF Ind, TypeOK, NextRow, Goto, Steps
    <2>2. CallOK(c)' /\ pc'[c] = "returned" /\ RowsKept(c)
      BY <1>0, <1>1
      DEF Ind, TypeOK, IInv, CallInv, CallOK, Goto, RowsKept, Upload
    <2> QED BY <1>0, <1>1, <2>1, <2>2, QuietStep
        DEF NextRow, Goto, Ind, TypeOK, Alone, Awarding, IInv, ClockInv, ReportInv
  <1>2. CASE /\ upload[c].left > 0
             /\ upload' = [upload EXCEPT ![c] = Counted(upload[c], FALSE, FALSE)]
             /\ UNCHANGED <<pc, req>>
    <2>0. Counted(upload[c], FALSE, FALSE) \in Upload
      BY <1>0, <1>2, CountedType
    <2>1. TypeOK'
      BY <1>2, <2>0 DEF Ind, TypeOK, NextRow
    <2>2. CallOK(c)'
      BY <1>2 DEF Ind, IInv, CallInv, CallOK, NextRow, Covers
    <2>3. RowsKept(c)
      <3>1. upload'[c] = Counted(upload[c], FALSE, FALSE)
        BY <1>2 DEF Ind, TypeOK
      <3> QED BY <1>0, <3>1 DEF RowsKept, Upload, Counted
    <2> QED BY <1>0, <1>2, <2>1, <2>2, <2>3, QuietStep
        DEF NextRow, Ind, TypeOK, Alone, Awarding, IInv, ClockInv, ReportInv
  <1>3. CASE /\ upload[c].left > 0
             /\ \E a \in Accounts, n \in Amounts :
                   req' = [req EXCEPT ![c] = [kind |-> "upload", account |-> a,
                                              amount |-> n, key |-> Null]]
             /\ Goto(c, "read")
             /\ UNCHANGED upload
    <2>1. PICK a \in Accounts, n \in Nat :
             /\ req' = [req EXCEPT ![c] = [kind |-> "upload", account |-> a,
                                           amount |-> n, key |-> Null]]
             /\ n > 0
      <3>1. \A n \in Amounts : n \in Nat /\ n > 0
        OBVIOUS
      <3> QED BY <1>3, <3>1
    <2> [kind |-> "upload", account |-> a, amount |-> n, key |-> Null] \in Request
      BY <2>1, RequestTypes DEF AnyAccount, Kinds, Crediting
    <2>2. TypeOK'
      BY <1>3, <2>1 DEF Ind, TypeOK, NextRow, Goto, Steps
    <2>3. CallOK(c)' /\ pc'[c] = "read" /\ RowsKept(c)
      BY <1>0, <1>3, <2>1 DEF Ind, TypeOK, CallOK, Goto, RowsKept, Upload, Crediting
    <2> QED BY <1>0, <1>3, <2>1, <2>2, <2>3, QuietStep
        DEF NextRow, Goto, Ind, TypeOK, Alone, Awarding, IInv, ClockInv, ReportInv
  <1> QED BY <1>1, <1>2, <1>3 DEF NextRow

\* A reconciliation reads and reports.
LEMMA ReportSteps ==
    ASSUME Ind, NEW c \in Calls,
           CallReconcile(c) \/ ReportTotals(c) \/ ReportEnd(c)
    PROVE  Ind'
  <1>1. CASE CallReconcile(c)
    <2>1. PICK a \in Accounts :
             req' = [req EXCEPT ![c] = [kind |-> "reconcile", account |-> a,
                                        amount |-> 0, key |-> Null]]
      BY <1>1 DEF CallReconcile
    <2> [kind |-> "reconcile", account |-> a, amount |-> 0, key |-> Null] \in Request
      BY <2>1, RequestTypes DEF AnyAccount, Kinds
    <2>5. report' \in [Calls -> Report] /\ ReportInv'
      BY <1>1 DEF CallReconcile, Ind, TypeOK, Report, IInv, ReportInv
    <2>2. TypeOK'
      BY <1>1, <2>1, <2>5 DEF Ind, TypeOK, CallReconcile, Goto, Steps
    <2>3. CallOK(c)' /\ pc'[c] = "totals" /\ req'[c].kind = "reconcile"
      BY <1>1, <2>1 DEF Ind, TypeOK, CallOK, CallReconcile, Goto
    <2>4. req[c].kind = "none"
      BY <1>1 DEF Ind, IInv, CallInv, CallOK, CallReconcile, At
    <2> QED BY <1>1, <2>1, <2>2, <2>3, <2>4, <2>5, QuietStep
        DEF CallReconcile, Goto, Ind, TypeOK, Alone, Awarding, IInv, ClockInv, ReportInv
  <1>2. CASE ReportTotals(c) \/ ReportEnd(c)
    <2>1. PICK step \in {"end", "returned"} : Goto(c, step)
      BY <1>2 DEF ReportTotals, ReportEnd
    <2>2. /\ UNCHANGED <<entries, wallet, now, req, seen, stamp, upload, upset, awards, awarding>>
          /\ pc[c] \in {"totals", "end"}
      BY <1>2 DEF ReportTotals, ReportEnd, At
    <2>3. report' \in [Calls -> Report] /\ ReportInv'
      <3>1. CASE ReportTotals(c)
        <4>1. report' = [report EXCEPT ![c] =
                 [until |-> report[c].until, credits |-> 0, debits |-> 0,
                  actual |-> 0]]
          BY <3>1, NothingReported, NothingSummed DEF ReportTotals
        <4> QED BY <4>1 DEF Ind, TypeOK, Report, IInv, ReportInv
      <3>2. CASE ReportEnd(c)
        BY <3>2 DEF ReportEnd, Balances, EntriesOf, Latest, Entry,
                    Ind, TypeOK, Report, IInv, ReportInv
      <3> QED BY <1>2, <3>1, <3>2
    <2>4. TypeOK'
      BY <2>1, <2>2, <2>3 DEF Ind, TypeOK, Goto, Steps
    <2>5. CallOK(c)' /\ pc'[c] # "commit" /\ req[c].kind # "none"
      BY <2>1, <2>2 DEF Ind, TypeOK, IInv, CallInv, CallOK, Goto
    <2>6. Alone(c) /\ RowsKept(c) /\ stamp'[c] <= now /\ ~Awarding(c)'
      BY <2>1, <2>2
      DEF Goto, Ind, TypeOK, Alone, RowsKept, Upload, IInv, ClockInv, Awarding
    <2> QED BY <2>2, <2>3, <2>4, <2>5, <2>6, QuietStep DEF Ind
  <1> QED BY <1>1, <1>2
-----------------------------------------------------------------------------
(* The steps that read a balance or insert an entry.                        *)

\* A read that overtakes no pending insert sees the sum; one that does spoils its
\* account for good.
LEMMA ReadStep ==
    ASSUME Ind, NEW c \in Calls, Read(c) PROVE Ind'
  <1> DEFINE a == req[c].account
  <1>0. pc[c] = "read" /\ a \in Accounts
    BY DEF Read, At, Ind, IInv, CallInv, CallOK
  <1>1. CASE End(c, FALSE, FALSE) /\ UNCHANGED upset
    BY <1>0, <1>1, EndStep DEF Read
  <1>2. ASSUME NEW balance \in Snapshots(a), Covers(c, balance),
               seen' = [seen EXCEPT ![c] = balance],
               stamp' = [stamp EXCEPT ![c] = now],
               upset' = IF Pending(a) THEN upset \cup {a} ELSE upset,
               Goto(c, "commit"),
               UNCHANGED <<req, upload>>
        PROVE  Ind'
    <2>0. UNCHANGED <<entries, wallet, now, report, awards, awarding>>
      BY DEF Read
    <2>1. TypeOK'
      BY <1>0, <1>2, <2>0, SnapshotType DEF Ind, TypeOK, Goto, Steps
    <2>2. ClockInv'
      BY <1>2, <2>0 DEF Ind, TypeOK, IInv, ClockInv
    <2>3. CallInv'
      BY <1>0, <1>2, <2>0 DEF Ind, TypeOK, IInv, CallInv, CallOK, Covers, Goto
    <2>4. PendingInv'
      <3> SUFFICES ASSUME NEW b \in Accounts \ upset' PROVE InTurn(b)'
        BY DEF PendingInv
      <3>0. /\ b \in Accounts \ upset /\ InTurn(b) /\ Total(b)' = Total(b)
            /\ PendingAwards(b)' = PendingAwards(b)
        BY <1>2, <2>0, TotalKept DEF Ind, IInv, PendingInv, PendingAwards
      <3>1. CASE b = a
        <4>1. PendingCalls(b) = {} /\ PendingAwards(b) = {}
          BY <1>2, <3>1 DEF Pending
        <4>2. PendingCalls(b)' = {c}
          BY <1>2, <3>1, <4>1 DEF PendingCalls, Goto, Ind, TypeOK
        <4>3. balance = Total(b) /\ seen'[c] = balance
          BY <1>2, <3>0, <3>1 DEF Ind, TypeOK, IInv, SnapshotIsTotal
        <4>4. Total(b)' >= 0
          BY <3>0 DEF InTurn
        <4> QED BY <3>0, <4>1, <4>2, <4>3, <4>4 DEF InTurn
      <3>2. CASE b # a
        <4>1. /\ PendingCalls(b)' = PendingCalls(b)
              /\ \A d \in PendingCalls(b) : seen'[d] = seen[d]
          BY <1>0, <1>2, <3>2 DEF PendingCalls, Goto, Ind, TypeOK
        <4> QED BY <3>0, <4>1, TurnKept
      <3> QED BY <3>1, <3>2
    <2>5. RowInv' /\ ReportInv'
      BY <1>2, <2>0 DEF Ind, IInv, RowInv, ReportInv
    <2>6. LeftInv'
      BY <1>0, <1>2 DEF Ind, TypeOK, IInv, LeftInv, Awarding, Goto
    <2>7. SnapshotIsTotal'
      BY <1>2, <2>0, TotalKept
      DEF Ind, IInv, SnapshotIsTotal, Snapshots, Balances, Latest
    <2>8. UploadCounts'
      BY <1>2, <2>0 DEF Ind, IInv, UploadCounts, RowsCounted
    <2> QED BY <2>1, <2>2, <2>3, <2>4, <2>5, <2>6, <2>7, <2>8 DEF Ind, IInv
  <1> QED BY <1>1, <1>2 DEF Read

\* The newest entry of an account is the one just inserted, unless another is as
\* young; the other accounts keep theirs.
LEMMA InsertBalance ==
    ASSUME TypeOK, NEW e \in Entry, entries' = entries \cup {e}, NEW a \in Accounts
    PROVE  /\ a = e.account /\ ~OutOfOrder(e) => Snapshots(a)' = {e.after}
           /\ a # e.account => Snapshots(a)' = Snapshots(a)
  <1>1. ASSUME a = e.account, ~OutOfOrder(e) PROVE Snapshots(a)' = {e.after}
    <2> DEFINE S == {f \in entries : f.account = a}
    <2>1. {f \in entries' : f.account = a} = S \cup {e}
      BY <1>1
    <2>2. \A f \in S : f.time < e.time
      BY <1>1 DEF OutOfOrder, TypeOK, Entry
    <2>3. e.time \in Nat /\ \A f \in S : f.time \in Nat
      BY DEF TypeOK, Entry
    <2> HIDE DEF S
    <2>4. Latest(S \cup {e}) = {e}
      BY <2>2, <2>3 DEF Latest
    <2>5. Balances(S \cup {e}) = {e.after}
      BY <2>4 DEF Balances
    <2> QED BY <2>1, <2>5 DEF Snapshots, Balances, Latest
  <1>2. ASSUME a # e.account PROVE Snapshots(a)' = Snapshots(a)
    <2>1. {f \in entries' : f.account = a} = {f \in entries : f.account = a}
      BY <1>2
    <2> QED BY <2>1 DEF Snapshots, Balances, Latest
  <1> QED BY <1>1, <1>2
\* A call whose transaction commits hands on the sum, increased by its entry.
LEMMA CommitStep ==
    ASSUME Ind, NEW c \in Calls, Commit(c) PROVE Ind'
  <1>a. PICK a \in Accounts : a = req[c].account
    BY DEF Commit, At, Ind, IInv, CallInv, CallOK
  <1> DEFINE e == NewEntry(c)
  <1>0. /\ pc[c] = "commit" /\ a \in Accounts /\ a = req[c].account /\ req[c].amount \in Nat \ {0}
        /\ req[c].kind # "none" /\ Covers(c, seen[c])
    BY <1>a DEF Commit, At, Ind, IInv, CallInv, CallOK, Crediting
  <1>1. PICK answered \in BOOLEAN : End(c, answered, ~answered)
    BY DEF Commit
  <1>2. Ended(c, answered, ~answered)
    BY <1>0, <1>1, EndEffect
  <1>3. /\ entries' = entries \cup {e}
        /\ upset' = IF OutOfOrder(e) THEN upset \cup {a} ELSE upset
        /\ UNCHANGED <<wallet, now, report, awards, awarding>>
    BY <1>a DEF Commit, NewEntry
  <1>4. /\ Delta(c) \in Int
        /\ req[c].kind # "debit" => Delta(c) = req[c].amount
        /\ req[c].kind = "debit" => Delta(c) = -req[c].amount
    <2>1. CASE req[c].kind = "debit"
      BY <1>0, <2>1 DEF Delta
    <2>2. CASE req[c].kind # "debit"
      BY <1>0, <2>2 DEF Delta
    <2> QED BY <2>1, <2>2
  <1>5. e \in Entry /\ e.account = a /\ e.after = seen[c] + Delta(c) /\ e.by = c
           /\ e.time = stamp[c] /\ e.row = upload[c].left
    BY <1>0, <1>4 DEF NewEntry, Entry, Ind, TypeOK, Request, Upload
  <1> HIDE DEF e
  <1>6. TypeOK'
    <2>1. entries' \in SUBSET Entry /\ IsFiniteSet(entries')
      BY <1>3, <1>5, FS_AddElement DEF Ind, TypeOK
    <2> QED BY <1>0, <1>2, <1>3, <1>4, <2>1 DEF Ended, Ind, TypeOK
  <1>7. ClockInv'
    BY <1>2, <1>3, <1>5 DEF Ended, Alone, Ind, TypeOK, IInv, ClockInv
  <1>8. CallInv'
    <2> SUFFICES ASSUME NEW d \in Calls PROVE CallOK(d)'
      BY DEF CallInv
    <2>1. CASE d = c
      BY <1>0, <1>2, <2>1 DEF Ended, CallOK
    <2>2. CASE d # c
      BY <1>2, <2>2 DEF Ended, Alone, Ind, IInv, CallInv, CallOK, Covers
    <2> QED BY <2>1, <2>2
  <1>9. PendingCalls(a)' = PendingCalls(a) \ {c} /\ PendingAwards(a)' = PendingAwards(a)
    BY <1>0, <1>2, <1>3 DEF Ended, Alone, PendingCalls, PendingAwards
  <1>10. \A b \in Accounts \ {a} : /\ PendingCalls(b)' = PendingCalls(b)
                                    /\ PendingAwards(b)' = PendingAwards(b)
                                    /\ c \notin PendingCalls(b)
    BY <1>0, <1>2, <1>3 DEF Ended, Alone, PendingCalls, PendingAwards
  <1>11. a \notin upset' => /\ a \notin upset /\ ~OutOfOrder(e) /\ PendingCalls(a) = {c}
                            /\ PendingAwards(a) = {} /\ Total(a)' = e.after /\ e.after >= 0
    <2> SUFFICES ASSUME a \notin upset' PROVE /\ a \notin upset /\ ~OutOfOrder(e)
                 /\ PendingCalls(a) = {c} /\ PendingAwards(a) = {}
                 /\ Total(a)' = e.after /\ e.after >= 0
      OBVIOUS
    <2>1. a \notin upset /\ ~OutOfOrder(e)
      BY <1>3
    <2>2. c \in PendingCalls(a)
      BY <1>0 DEF PendingCalls
    <2>3. /\ PendingCalls(a) = {c} /\ PendingAwards(a) = {}
          /\ seen[c] = Total(a) /\ Total(a) >= 0
      BY <1>0, <2>1, <2>2 DEF Ind, IInv, PendingInv, InTurn
    <2>4. Total(a)' = e.after
      BY <1>3, <1>5, <2>1, <2>3, InOrderIsNew, InsertTotal DEF Ind, NewEntry, e
    <2>5. e.after >= 0
      BY <1>0, <1>4, <1>5, <2>3 DEF Covers, Ind, TypeOK
    <2> QED BY <2>1, <2>3, <2>4, <2>5
  <1>12. PendingInv'
    <2> SUFFICES ASSUME NEW b \in Accounts \ upset' PROVE InTurn(b)'
      BY DEF PendingInv
    <2>1. CASE b = a
      <3>1. PendingCalls(a)' = {} /\ PendingAwards(a)' = {} /\ Total(a)' >= 0
        BY <1>9, <1>11, <2>1
      <3> QED BY <2>1, <3>1 DEF InTurn
    <2>2. CASE b # a
      <3>1. InTurn(b) /\ Total(b)' = Total(b)
        BY <1>3, <1>5, <2>2, InsertTotal DEF Ind, IInv, PendingInv
      <3>2. \A d \in PendingCalls(b) : seen'[d] = seen[d]
        BY <1>2, <1>10, <2>2 DEF Ended, Alone, PendingCalls
      <3> QED BY <1>10, <2>2, <3>1, <3>2, TurnKept
    <2> QED BY <2>1, <2>2
  <1>13. SnapshotIsTotal'
    <2> SUFFICES ASSUME NEW b \in Accounts \ upset', NEW balance \in Snapshots(b)'
                 PROVE  balance = Total(b)' /\ balance >= 0
      BY DEF SnapshotIsTotal
    <2>1. CASE b = a
      BY <1>3, <1>5, <1>6, <1>11, <2>1, InsertBalance DEF Ind
    <2>2. CASE b # a
      <3>1. b \in Accounts \ upset /\ Total(b)' = Total(b)
        BY <1>3, <1>5, <2>2, InsertTotal DEF Ind
      <3>2. Snapshots(b)' = Snapshots(b)
        BY <1>3, <1>5, <2>2, InsertBalance DEF Ind
      <3> QED BY <3>1, <3>2 DEF Ind, IInv, SnapshotIsTotal
    <2> QED BY <2>1, <2>2
  <1>14. req[c].kind = "upload" =>
            /\ upload[c] \in Upload /\ upload[c].left > 0
            /\ upload'[c] = Counted(upload[c], answered, ~answered)
    BY <1>0, <1>2 DEF Ended, Ind, TypeOK, IInv, LeftInv, Awarding
  <1>15. /\ req'[c].kind = req[c].kind
         /\ \A d \in Calls \ {c} : req'[d] = req[d] /\ upload'[d] = upload[d]
    BY <1>2 DEF Ended, Alone
  <1>16. RowInv' /\ ReportInv'
    <2>1. req[c].kind = "upload" => upload'[c].left = upload[c].left - 1
      BY <1>14 DEF Counted
    <2>2. \A f \in entries : f.by # Null => f.by \in Calls /\ f.row \in Nat
      BY DEF Ind, TypeOK, Entry
    <2>3. RowInv'
      BY <1>0, <1>3, <1>5, <1>14, <1>15, <2>1, <2>2
      DEF Ind, TypeOK, IInv, RowInv, Upload
    <2> QED BY <1>3, <2>3 DEF Ind, IInv, ReportInv
  <1>17. LeftInv'
    BY <1>2 DEF Ended, Alone, Ind, IInv, LeftInv, Awarding
  <1>18. UploadCounts'
    <2> SUFFICES ASSUME NEW d \in Calls, req'[d].kind = "upload" PROVE RowsCounted(d)'
      BY DEF UploadCounts
    <2>1. CASE d # c
      <3>1. {f \in entries' : f.by = d} = {f \in entries : f.by = d}
        BY <1>3, <1>5, <2>1
      <3>2. RowsCounted(d)
        BY <1>15, <2>1 DEF Ind, IInv, UploadCounts
      <3> QED BY <1>15, <2>1, <3>1, <3>2 DEF RowsCounted
    <2>2. CASE d = c
      <3> DEFINE S == {f \in entries : f.by = c}
      <3>1. {f \in entries' : f.by = c} = S \cup {e}
        BY <1>3, <1>5
      <3>2. e \notin S
        BY <1>5, <1>14, <1>15, <2>2 DEF Ind, IInv, RowInv, TypeOK, Upload, Entry
      <3>3. IsFiniteSet(S)
        BY FS_Subset DEF Ind, TypeOK
      <3>4. Cardinality({f \in entries' : f.by = c}) = Cardinality(S) + 1
        BY <3>1, <3>2, <3>3, FS_AddElement
      <3>5. RowsCounted(c)
        BY <1>15, <2>2 DEF Ind, IInv, UploadCounts
      <3>6. CASE answered = TRUE
        BY <1>14, <1>15, <2>2, <3>4, <3>5, <3>6 DEF RowsCounted, Counted, Upload
      <3>7. CASE answered = FALSE
        BY <1>14, <1>15, <2>2, <3>4, <3>5, <3>7 DEF RowsCounted, Counted, Upload
      <3> QED BY <2>2, <3>6, <3>7
    <2> QED BY <2>1, <2>2
  <1> QED BY <1>6, <1>7, <1>8, <1>12, <1>13, <1>16, <1>17, <1>18 DEF Ind, IInv
\* An award of the accrual service writes the wallet; its account stays in turn only
\* if the wallet agrees with the entries and nothing else is pending.
LEMMA AwardWalletStep ==
    ASSUME Ind, NEW a \in Accounts, AwardWallet(a) PROVE Ind'
  <1> DEFINE award(n) == [account |-> a, amount |-> n, after |-> wallet[a] + n,
                          since |-> now, id |-> awards]
  <1>1. PICK n \in Amounts : /\ wallet' = [wallet EXCEPT ![a] = wallet[a] + n]
                             /\ awarding' = awarding \cup {award(n)}
    BY DEF AwardWallet
  <1>2. /\ UNCHANGED <<entries, now, pc, req, seen, stamp, upload, report>>
        /\ awards' = awards + 1
        /\ upset' = IF wallet[a] # Total(a) \/ Pending(a) THEN upset \cup {a} ELSE upset
    BY DEF AwardWallet
  <1>3. PICK x \in Award : /\ x = award(n) /\ x.account = a /\ x.since = now
                           /\ x.amount = n /\ x.after = wallet[a] + n
    <2>1. n \in Nat \ {0} /\ wallet[a] + n \in Int /\ now \in Nat /\ awards \in Nat
      BY <1>1 DEF Ind, TypeOK
    <2>2. award(n) \in Award
      BY <2>1 DEF Award
    <2> QED BY <2>2
  <1>4. awarding' = awarding \cup {x}
    BY <1>1, <1>3
  <1>5. upset \subseteq upset' /\ upset' \subseteq upset \cup {a}
    BY <1>2
  <1> HIDE DEF award
  <1>6. TypeOK'
    <2>1. wallet' \in [Accounts -> Int]
      BY <1>1 DEF Ind, TypeOK
    <2>2. awards' \in Nat /\ upset' \subseteq Accounts /\ awarding' \subseteq Award
      BY <1>2, <1>4, <1>5 DEF Ind, TypeOK
    <2> QED BY <1>2, <2>1, <2>2 DEF Ind, TypeOK
  <1>7. ClockInv'
    BY <1>2, <1>3, <1>4 DEF Ind, TypeOK, IInv, ClockInv
  <1>8. CallInv' /\ RowInv' /\ LeftInv' /\ ReportInv'
    BY <1>2 DEF Ind, IInv, CallInv, CallOK, Covers, RowInv, LeftInv, Awarding, ReportInv
  <1>9. UploadCounts'
    BY <1>2 DEF Ind, IInv, UploadCounts, RowsCounted
  <1>10. SnapshotIsTotal'
    BY <1>2, <1>5, TotalKept DEF Ind, IInv, SnapshotIsTotal, Snapshots, Balances, Latest
  <1>11. PendingInv'
    <2> SUFFICES ASSUME NEW b \in Accounts \ upset' PROVE InTurn(b)'
      BY DEF PendingInv
    <2>1. InTurn(b) /\ Total(b)' = Total(b) /\ PendingCalls(b)' = PendingCalls(b)
      BY <1>2, <1>5, TotalKept DEF Ind, IInv, PendingInv, PendingCalls
    <2>2. CASE b = a
      <3>1. wallet[a] = Total(a) /\ PendingCalls(a) = {} /\ PendingAwards(a) = {}
        BY <1>2, <2>2 DEF Pending
      <3>2. PendingAwards(a)' = {x}
        BY <1>3, <1>4, <3>1 DEF PendingAwards
      <3>3. x.after = Total(a)' + x.amount
        BY <1>3, <2>1, <2>2, <3>1
      <3> QED BY <2>1, <2>2, <3>1, <3>2, <3>3 DEF InTurn
    <2>3. CASE b # a
      <3>1. PendingAwards(b)' = PendingAwards(b)
        BY <1>3, <1>4, <2>3 DEF PendingAwards
      <3> QED BY <1>2, <2>1, <3>1, TurnKept
    <2> QED BY <2>2, <2>3
  <1> QED BY <1>6, <1>7, <1>8, <1>9, <1>10, <1>11 DEF Ind, IInv

\* What remains of the invariant when an award stops waiting for its entry.
LEMMA AwardGone ==
    ASSUME Ind, NEW x \in awarding, awarding' = awarding \ {x}
    PROVE  /\ x \in Award /\ x.account \in Accounts
           /\ awarding' \subseteq Award
           /\ PendingAwards(x.account)' = PendingAwards(x.account) \ {x}
           /\ \A b \in Accounts \ {x.account} : PendingAwards(b)' = PendingAwards(b)
  <1>1. x \in Award /\ awarding' \subseteq Award
    BY DEF Ind, TypeOK
  <1> QED BY <1>1 DEF Award, PendingAwards

\* Its entry continues the sum, unless the account was disturbed meanwhile.
LEMMA AwardEntryStep ==
    ASSUME Ind, NEW x \in awarding, AwardEntry(x) PROVE Ind'
  <1> DEFINE entry(t) == [account |-> x.account, amount |-> x.amount, key |-> Null,
                          after |-> x.after, time |-> t, by |-> Null, row |-> x.id]
  <1>0. /\ UNCHANGED <<wallet, now, pc, req, seen, stamp, upload, report, awards>>
        /\ awarding' = awarding \ {x}
    BY DEF AwardEntry
  <1>1. PICK t \in x.since..now :
             /\ entries' = entries \cup {entry(t)}
             /\ upset' = IF OutOfOrder(entry(t)) THEN upset \cup {x.account} ELSE upset
    BY DEF AwardEntry
  <1>2. x \in Award /\ x.amount \in Nat /\ x.after \in Int /\ t \in Nat /\ t <= now
    BY <1>1 DEF Ind, TypeOK, Award
  <1>3. PICK e \in Entry :
            /\ e = entry(t) /\ e.account = x.account /\ e.amount = x.amount
            /\ e.after = x.after /\ e.time = t /\ e.by = Null
    <2>1. x.account \in Accounts /\ x.amount \in Int /\ x.id \in Nat
      BY <1>2 DEF Award
    <2>2. entry(t) \in Entry
      BY <1>2, <2>1 DEF Entry
    <2> QED BY <2>2
  <1> HIDE DEF entry
  <1>4. PICK a \in Accounts : a = x.account
    BY <1>0, AwardGone
  <1>5. /\ entries' = entries \cup {e} /\ e.account = a
        /\ upset' = IF OutOfOrder(e) THEN upset \cup {a} ELSE upset
    BY <1>1, <1>3, <1>4
  <1>6. TypeOK'
    <2>1. entries' \in SUBSET Entry /\ IsFiniteSet(entries')
      BY <1>5, FS_AddElement DEF Ind, TypeOK
    <2>2. upset' \subseteq Accounts /\ awarding' \subseteq Award
      BY <1>0, <1>5, AwardGone DEF Ind, TypeOK
    <2> QED BY <1>0, <2>1, <2>2 DEF Ind, TypeOK
  <1>7. ClockInv'
    BY <1>0, <1>2, <1>3, <1>5 DEF Ind, IInv, ClockInv
  <1>8. CallInv' /\ LeftInv' /\ ReportInv'
    BY <1>0 DEF Ind, IInv, CallInv, CallOK, Covers, LeftInv, Awarding, ReportInv
  <1>9. RowInv'
    BY <1>0, <1>3, <1>5 DEF Ind, IInv, RowInv
  <1>10. UploadCounts'
    <2> SUFFICES ASSUME NEW d \in Calls, req[d].kind = "upload" PROVE RowsCounted(d)'
      BY <1>0 DEF UploadCounts
    <2>1. {f \in entries' : f.by = d} = {f \in entries : f.by = d}
      BY <1>3, <1>5
    <2> QED BY <1>0, <2>1 DEF Ind, IInv, UploadCounts, RowsCounted
  <1>11. \A b \in Accounts \ {a} : Total(b)' = Total(b)
    BY <1>5, InsertTotal DEF Ind
  <1>12. a \notin upset' => /\ a \notin upset /\ ~OutOfOrder(e)
                            /\ PendingAwards(a) = {x} /\ PendingCalls(a) = {}
                            /\ Total(a)' = e.after /\ Total(a)' >= 0
    <2> SUFFICES ASSUME a \notin upset'
                 PROVE  /\ a \notin upset /\ ~OutOfOrder(e)
                        /\ PendingAwards(a) = {x} /\ PendingCalls(a) = {}
                        /\ Total(a)' = e.after /\ Total(a)' >= 0
      OBVIOUS
    <2>1. a \notin upset /\ ~OutOfOrder(e)
      BY <1>5
    <2>2. x \in PendingAwards(a)
      BY <1>4 DEF PendingAwards
    <2>3. /\ PendingAwards(a) = {x} /\ PendingCalls(a) = {}
          /\ x.after = Total(a) + x.amount /\ Total(a) >= 0
      BY <2>1, <2>2 DEF Ind, IInv, PendingInv, InTurn
    <2>4. Total(a)' = Total(a) + e.amount
      BY <1>5, <2>1, InOrderIsNew, InsertTotal DEF Ind
    <2>5. Total(a) \in Int
      BY TotalType DEF Ind
    <2> QED BY <1>2, <1>3, <2>1, <2>3, <2>4, <2>5
  <1>13. PendingInv'
    <2> SUFFICES ASSUME NEW b \in Accounts \ upset' PROVE InTurn(b)'
      BY DEF PendingInv
    <2>1. PendingCalls(b)' = PendingCalls(b)
      BY <1>0 DEF PendingCalls
    <2>2. CASE b = a
      <3>1. PendingCalls(a)' = {} /\ PendingAwards(a)' = {} /\ Total(a)' >= 0
        BY <1>0, <1>4, <1>12, <2>1, <2>2, AwardGone
      <3> QED BY <2>2, <3>1 DEF InTurn
    <2>3. CASE b # a
      <3>1. InTurn(b) /\ Total(b)' = Total(b) /\ PendingAwards(b)' = PendingAwards(b)
        BY <1>0, <1>4, <1>5, <1>11, <2>3, AwardGone DEF Ind, IInv, PendingInv
      <3> QED BY <1>0, <2>1, <3>1, TurnKept
    <2> QED BY <2>2, <2>3
  <1>14. SnapshotIsTotal'
    <2> SUFFICES ASSUME NEW b \in Accounts \ upset', NEW balance \in Snapshots(b)'
                 PROVE  balance = Total(b)' /\ balance >= 0
      BY DEF SnapshotIsTotal
    <2>1. CASE b = a
      BY <1>5, <1>12, <2>1, InsertBalance DEF Ind
    <2>2. CASE b # a
      <3>1. Snapshots(b)' = Snapshots(b) /\ b \notin upset
        BY <1>5, <2>2, InsertBalance DEF Ind
      <3> QED BY <1>11, <2>2, <3>1 DEF Ind, IInv, SnapshotIsTotal
    <2> QED BY <2>1, <2>2
  <1> QED BY <1>6, <1>7, <1>8, <1>9, <1>10, <1>13, <1>14 DEF Ind, IInv

\* An award that loses its entry leaves the ledger as it was.
LEMMA AwardLostStep ==
    ASSUME Ind, NEW x \in awarding, AwardLost(x) PROVE Ind'
  <1>0. /\ UNCHANGED <<entries, wallet, now, pc, req, seen, stamp, upload, report, upset, awards>>
        /\ awarding' = awarding \ {x}
    BY DEF AwardLost
  <1>1. TypeOK' /\ ClockInv'
    BY <1>0, AwardGone DEF Ind, TypeOK, IInv, ClockInv
  <1>2. CallInv' /\ RowInv' /\ LeftInv' /\ ReportInv'
    BY <1>0 DEF Ind, IInv, CallInv, CallOK, Covers, RowInv, LeftInv, Awarding, ReportInv
  <1>3. UploadCounts' /\ SnapshotIsTotal'
    BY <1>0, TotalKept DEF Ind, IInv, UploadCounts, RowsCounted, SnapshotIsTotal,
                           Snapshots, Balances, Latest
  <1>4. PendingInv'
    <2> SUFFICES ASSUME NEW b \in Accounts \ upset PROVE InTurn(b)'
      BY <1>0 DEF PendingInv
    <2>1. /\ InTurn(b) /\ Total(b)' = Total(b) /\ PendingCalls(b)' = PendingCalls(b)
          /\ PendingAwards(b)' \subseteq PendingAwards(b)
      BY <1>0, TotalKept DEF Ind, IInv, PendingInv, PendingCalls, PendingAwards
    <2> QED BY <1>0, <2>1 DEF InTurn
  <1> QED BY <1>1, <1>2, <1>3, <1>4 DEF Ind, IInv

LEMMA TickStep ==
    ASSUME Ind, Tick PROVE Ind'
  <1>1. now' = now + 1 /\ now \in Nat
    BY DEF Tick, Ind, TypeOK
  <1>2. UNCHANGED <<entries, wallet, pc, req, seen, stamp, upload, report, upset, awards, awarding>>
    BY DEF Tick
  <1>3. TypeOK'
    BY <1>1, <1>2 DEF Ind, TypeOK
  <1>4. ClockInv'
    BY <1>1, <1>2 DEF Ind, TypeOK, Entry, Award, IInv, ClockInv
  <1>5. CallInv'
    BY <1>2 DEF Ind, IInv, CallInv, CallOK, Covers
  <1>6. PendingInv'
    BY <1>2, TotalKept DEF Ind, IInv, PendingInv, InTurn, PendingCalls, PendingAwards
  <1>9. RowInv' /\ LeftInv' /\ ReportInv'
    BY <1>2 DEF Ind, IInv, RowInv, LeftInv, Awarding, ReportInv
  <1>7. SnapshotIsTotal'
    BY <1>2, TotalKept DEF Ind, IInv, SnapshotIsTotal, Snapshots, Balances, Latest
  <1>8. UploadCounts'
    BY <1>2 DEF Ind, IInv, UploadCounts, RowsCounted
  <1> QED BY <1>3, <1>4, <1>5, <1>6, <1>7, <1>8, <1>9 DEF Ind, IInv

-----------------------------------------------------------------------------
(* The theorems.                                                            *)

LEMMA InitInd == Init => Ind
  <1> SUFFICES ASSUME Init PROVE Ind
    OBVIOUS
  <1>1. TypeOK
    <2>1. NoRequest \in Request /\ NoUpload \in Upload /\ NoReport \in Report
      BY DEF NoRequest, Request, AnyAccount, NoUpload, Upload, NoReport, Report
    <2>2. entries \in SUBSET Entry /\ IsFiniteSet(entries)
      BY FS_EmptySet DEF Init
    <2> QED BY <2>1, <2>2 DEF Init, TypeOK, Steps
  <1>2. ClockInv /\ CallInv /\ RowInv /\ LeftInv /\ ReportInv
    BY DEF Init, ClockInv, CallInv, CallOK, RowInv, LeftInv, Awarding, ReportInv,
           NoRequest, NoReport
  <1>3. PendingInv
    BY TotalInit DEF Init, PendingInv, InTurn, PendingCalls, PendingAwards
  <1>4. SnapshotIsTotal
    BY TotalInit DEF Init, SnapshotIsTotal, Snapshots, Balances
  <1>5. UploadCounts
    BY DEF Init, UploadCounts, NoRequest
  <1> QED BY <1>1, <1>2, <1>3, <1>4, <1>5 DEF Ind, IInv

LEMMA NextInd == Ind /\ [Next]_vars => Ind'
  <1> SUFFICES ASSUME Ind, [Next]_vars PROVE Ind'
    OBVIOUS
  <1>1. CASE UNCHANGED vars
    <2>1. TypeOK' /\ ClockInv' /\ RowInv' /\ LeftInv' /\ ReportInv'
      BY <1>1 DEF vars, Ind, TypeOK, IInv, ClockInv, RowInv, LeftInv, Awarding, ReportInv
    <2>2. CallInv' /\ PendingInv'
      BY <1>1, TotalKept DEF vars, Ind, IInv, CallInv, CallOK, Covers, PendingInv, InTurn,
                  PendingCalls, PendingAwards
    <2>3. SnapshotIsTotal' /\ UploadCounts'
      BY <1>1, TotalKept DEF vars, Ind, IInv, SnapshotIsTotal, Snapshots, Balances, Latest,
                  UploadCounts, RowsCounted
    <2> QED BY <2>1, <2>2, <2>3 DEF Ind, IInv
  <1>2. ASSUME NEW c \in Calls, Step(c) PROVE Ind'
    BY <1>2, CallWalletStep, CallAwardStep, CallSignupStep, CallUploadStep, ChecksStep,
       NextRowStep, ReadStep, RerunStep, RejectStep, DuplicateStep, CommitStep,
       ReportSteps DEF Step
  <1>3. ASSUME NEW a \in Accounts, AwardWallet(a) PROVE Ind'
    BY <1>3, AwardWalletStep
  <1>5. ASSUME NEW x \in awarding, AwardEntry(x) \/ AwardLost(x) PROVE Ind'
    BY <1>5, AwardEntryStep, AwardLostStep
  <1>4. CASE Tick
    BY <1>4, TickStep
  <1> QED BY <1>1, <1>2, <1>3, <1>4, <1>5 DEF Next

\* The inductive invariant: off the upset accounts at most one insert is pending,
\* and it continues the sum of the entries.
THEOREM Invariant == Spec => []IInv
  <1>1. Ind => IInv
    BY DEF Ind
  <1> QED BY InitInd, NextInd, <1>1, PTL DEF Spec

\* Every variable keeps its type.
THEOREM TypeCorrect == Spec => []TypeOK
  <1>1. Ind => TypeOK
    BY DEF Ind
  <1> QED BY InitInd, NextInd, <1>1, PTL DEF Spec

\* getBalanceSnapshot returns the sum of the entries, and no debit overdraws, on
\* every account spared races, equal timestamps and wallet balances.
THEOREM RunningBalance == Spec => []SnapshotIsTotal
  <1>1. IInv => SnapshotIsTotal
    BY DEF IInv
  <1> QED BY Invariant, <1>1, PTL

\* uploadCSV accounts for every row, whatever its awards race with.
THEOREM UploadsAccounted == Spec => []UploadCounts
  <1>1. IInv => UploadCounts
    BY DEF IInv
  <1> QED BY Invariant, <1>1, PTL

\* No reconciliation report counts any entry: its totals stay 0, whatever the ledger
\* holds (generateReconciliationReport filters by a tenant that entries lack).
THEOREM ReportsCountNothing == Spec => []ReportInv
  <1>1. IInv => ReportInv
    BY DEF IInv
  <1> QED BY Invariant, <1>1, PTL


-----------------------------------------------------------------------------
(* Burns.                                                                   *)

\* A burn waits for its checks with a negative amount, or has been thrown out.
BurnInv ==
    \A c \in Calls : req[c].kind = "burn" =>
        \/ pc[c] \in {"verify", "score"} /\ req[c].amount < 0
        \/ pc[c] = "thrown"

LEMMA BurnStep ==
    ASSUME TypeOK, BurnInv, NEW c \in Calls, Step(c)
    PROVE  BurnInv'
  <1> USE DEF TypeOK, BurnInv, Goto, At
  <1>1. CASE CallAward(c)
    <2>1. PICK kind \in {"award", "burn"}, a \in Accounts, n \in Amounts :
               req' = [req EXCEPT ![c] = [kind |-> kind, account |-> a,
                                          amount |-> IF kind = "burn" THEN -n ELSE n,
                                          key |-> Null]]
      BY <1>1 DEF CallAward
    <2>2. kind = "burn" => -n < 0
      BY <2>1, LedgerAmountsAssumption
    <2> QED BY <1>1, <2>1, <2>2 DEF CallAward
  <1>2. CASE CallWallet(c) \/ CallSignup(c) \/ CallUpload(c) \/ CallReconcile(c)
    BY <1>2 DEF CallWallet, CallSignup, CallUpload, CallReconcile
  <1>3. CASE Admit(c) \/ Verify(c) \/ Score(c)
    <2>1. \A n \in Int : \A kind : n < 0 => AfterGuard(n, kind) = "thrown"
      BY DEF AfterGuard
    <2>2. req[c].amount \in Int /\ req' = req
      BY <1>3 DEF Request, Admit, Verify, Score
    <2>3. req[c].kind = "burn" => \/ pc'[c] = "score" /\ req[c].amount < 0
                                  \/ pc'[c] = "thrown"
      BY <1>3, <2>1, <2>2 DEF Admit, Verify, Score
    <2>4. \A d \in Calls \ {c} : pc'[d] = pc[d]
      BY <1>3 DEF Admit, Verify, Score
    <2> QED BY <2>2, <2>3, <2>4
  <1>4. CASE NextRow(c)
    <2>1. req[c].kind # "burn"
      BY <1>4 DEF NextRow
    <2>2. \A d \in Calls \ {c} : pc'[d] = pc[d] /\ req'[d] = req[d]
      BY <1>4 DEF NextRow
    <2>3. req'[c].kind # "burn"
      <3>1. \/ req' = req
            \/ \E a \in Accounts, n \in Amounts :
                  req' = [req EXCEPT ![c] = [kind |-> "upload", account |-> a,
                                             amount |-> n, key |-> Null]]
        BY <1>4 DEF NextRow
      <3>2. ASSUME NEW r, r.kind = "upload", req' = [req EXCEPT ![c] = r]
            PROVE  req'[c].kind # "burn"
        BY <3>2
      <3> QED BY <2>1, <3>1, <3>2
    <2> QED BY <2>2, <2>3
  <1>5. ASSUME NEW good \in BOOLEAN, NEW unsure \in BOOLEAN,
               pc[c] \in {"read", "commit"}, End(c, good, unsure)
        PROVE  BurnInv'
    BY <1>5 DEF End
  <1>6. CASE Read(c)
    BY <1>5, <1>6 DEF Read
  <1>7. CASE Rerun(c) \/ Reject(c) \/ Duplicate(c) \/ Commit(c)
    BY <1>5, <1>7 DEF Rerun, Reject, Duplicate, Commit
  <1>8. CASE ReportTotals(c) \/ ReportEnd(c)
    BY <1>8 DEF ReportTotals, ReportEnd
  <1> QED BY <1>1, <1>2, <1>3, <1>4, <1>6, <1>7, <1>8 DEF Step

\* No burn ever reaches the read of the snapshot, let alone an entry: redeemPoints
\* passes the negated price to creditPoints, whose guard refuses it.
THEOREM BurnsNeverWrite == Spec => []NothingBurned
  <1>1. Init => BurnInv
    BY DEF Init, BurnInv, NoRequest
  <1>2. TypeOK /\ BurnInv /\ [Next]_vars => BurnInv'
    BY BurnStep DEF Next, AwardWallet, AwardEntry, AwardLost, Tick, vars, BurnInv
  <1>3. BurnInv => NothingBurned
    BY DEF BurnInv, NothingBurned
  <1> QED BY <1>1, <1>2, <1>3, TypeCorrect, PTL DEF Spec
==============================================================================
