------------------------------ MODULE LedgerPoints ------------------------------
(***************************************************************************)
(* Points that live in the ledger alone (src/src/ledger/ledger.service.ts):*)
(* creditPoints and deductPoints read the running balance from the newest  *)
(* entry, and insert an entry that carries the next one.  On top of them:  *)
(* the wallet endpoints, awards with compliance checks, sign-up bonuses,   *)
(* burns, merchants' award uploads and the reconciliation report.          *)
(*                                                                         *)
(* The insert belongs to a MongoDB transaction, the read does not: the     *)
(* snapshot is taken without the session, and inserts do not conflict.     *)
(***************************************************************************)
EXTENDS RewardRules, FiniteSets, Functions

CONSTANTS
    Accounts,
    Calls,          \* the calls of a behaviour, each made once
    Keys,           \* idempotency keys chosen by the callers
    Amounts,
    WelcomeBonus,   \* MemberService.WELCOME_BONUS_POINTS
    ScoredAbove,    \* awards above this many points are scored
    MaxUploads,     \* bound: uploads
    MaxRows,        \* bound: rows of an upload
    MaxTime,        \* bound: clock
    MaxAwards,      \* bound: awards of the accrual service
    Null            \* an absent key or account

ASSUME LedgerAmountsAssumption == Amounts \subseteq Nat \ {0} /\ WelcomeBonus \in Nat \ {0}
ASSUME LedgerBoundsAssumption ==
    {ScoredAbove, MaxUploads, MaxRows, MaxTime, MaxAwards} \subseteq Nat
ASSUME LedgerNullAssumption == Null \notin Accounts \cup Keys \cup Calls \cup Nat

VARIABLES
    entries,    \* LedgerEntryModel: the user/available entries inserted
    wallet,     \* WalletModel.availableBalance, which only other services write
    now,        \* new Date(), in milliseconds
    pc,         \* pc[c]: the await call c is about to perform
    req,        \* req[c]: its request, for an upload the row it is at
    seen,       \* seen[c]: the available balance of the snapshot it read
    stamp,      \* stamp[c]: the timestamp of the entry it is inserting
    upload,     \* upload[c]: rows left, and how the others ended
    report,     \* report[c]: the reconciliation report, as far as it is
    upset,      \* history: accounts where a read or an award overtook a pending
                \* insert, two entries have one timestamp, or an award met a wallet
                \* that did not agree with the entries
    awards,     \* how many awards the accrual service has begun
    awarding    \* those that have written the wallet and not yet their entry

vars == <<entries, wallet, now, pc, req, seen, stamp, upload, report, upset, awards, awarding>>

-----------------------------------------------------------------------------
(* Documents and requests.                                                  *)

AnyAccount == Accounts \cup {Null}
Times == 0..MaxTime

\* createEntry writes no tenant_id, so that field of an entry is always absent.
\* by and row name the request an entry was made for (requestId, metadata).
Entry == [account: Accounts, amount: Int, key: Keys \cup {Null}, after: Int,
          time: Nat, by: Calls \cup {Null}, row: Nat]
TenantOf(entry) == Null

Crediting == {"credit", "award", "burn", "signup", "upload"}
Kinds == Crediting \cup {"debit", "reconcile"}
Request == [kind: Kinds \cup {"none"}, account: AnyAccount, amount: Int,
            key: Keys \cup {Null}]
NoRequest == [kind |-> "none", account |-> Null, amount |-> 0, key |-> Null]

Upload == [of: Nat, left: Nat, ok: Nat, failed: Nat, unsure: Nat]
NoUpload == [of |-> 0, left |-> 0, ok |-> 0, failed |-> 0, unsure |-> 0]

Report == [until: Nat, credits: Int, debits: Int, actual: Int]
NoReport == [until |-> 0, credits |-> 0, debits |-> 0, actual |-> 0]

\* after is computed from the wallet the award has read; since is when it wrote it.
Award == [account: Accounts, amount: Nat \ {0}, after: Int, since: Nat, id: Nat]

Steps == {"idle", "admit", "verify", "score", "row", "read", "commit",
          "totals", "end", "returned", "thrown"}

Init ==
    /\ entries = {}
    /\ wallet = [a \in Accounts |-> 0]
    /\ now = 0
    /\ pc = [c \in Calls |-> "idle"]
    /\ req = [c \in Calls |-> NoRequest]
    /\ seen = [c \in Calls |-> 0]
    /\ stamp = [c \in Calls |-> 0]
    /\ upload = [c \in Calls |-> NoUpload]
    /\ report = [c \in Calls |-> NoReport]
    /\ upset = {}
    /\ awards = 0
    /\ awarding = {}

-----------------------------------------------------------------------------
(* Helpers.                                                                 *)

At(c, step) == pc[c] = step
Goto(c, step) == pc' = [pc EXCEPT ![c] = step]

\* getBalanceSnapshot: the balanceAfter of the last entry in the order of the
\* timestamps; entries with one timestamp come in any order.
EntriesOf(a, until) == {e \in entries : e.account = a /\ e.time <= until}
Latest(S) == {e \in S : \A f \in S : f.time <= e.time}
Balances(S) == IF S = {} THEN {0} ELSE {e.after : e \in Latest(S)}
Snapshots(a) == Balances({e \in entries : e.account = a})

\* All the points inserted for an account: what the balances should be.
SumOf(S) == SumFunction([e \in S |-> e.amount])
Total(a) == SumOf({e \in entries : e.account = a})

\* Who has read a balance of a, and not yet inserted the entry that continues it.
PendingCalls(a) == {c \in Calls : pc[c] = "commit" /\ req[c].account = a}
PendingAwards(a) == {x \in awarding : x.account = a}
Pending(a) == PendingCalls(a) # {} \/ PendingAwards(a) # {}

\* What the entry adds to the balance.
Delta(c) == IF req[c].kind = "debit" THEN -req[c].amount ELSE req[c].amount

\* creditPoints and deductPoints begin with their guard (bug: let debits pass it).
CreditGuardOnly(amount, kind) == IF amount > 0 \/ kind = "debit" THEN "read" ELSE "thrown"
AfterGuard(amount, kind) == IF amount > 0 THEN "read" ELSE "thrown"

\* deductPoints asks for the balance of the snapshot (bug: no such check).
AnyBalance(c, balance) == TRUE
Covers(c, balance) == req[c].kind = "debit" => balance >= req[c].amount

\* The unique index on idempotencyKey; a generated key is always new.
KeyTaken(c) == req[c].key # Null /\ \E e \in entries : e.key = req[c].key

\* An upload goes on with its next row, whatever became of this one (bugs: count
\* the row before its award is awaited; step past the row after a failed one).
CountedEarly(u, good, unsure) ==
    [of     |-> u.of,
     left   |-> u.left - 1,
     ok     |-> u.ok + 1,
     failed |-> IF good THEN u.failed ELSE u.failed + 1,
     unsure |-> IF unsure THEN u.unsure + 1 ELSE u.unsure]
CountedSkipping(u, good, unsure) ==
    [of     |-> u.of,
     left   |-> IF good THEN u.left - 1 ELSE u.left - 2,
     ok     |-> IF good THEN u.ok + 1 ELSE u.ok,
     failed |-> IF good THEN u.failed ELSE u.failed + 1,
     unsure |-> IF unsure THEN u.unsure + 1 ELSE u.unsure]
Counted(u, good, unsure) ==
    [of     |-> u.of,
     left   |-> u.left - 1,
     ok     |-> IF good THEN u.ok + 1 ELSE u.ok,
     failed |-> IF good THEN u.failed ELSE u.failed + 1,
     unsure |-> IF unsure THEN u.unsure + 1 ELSE u.unsure]

\* The award or the debit of c is over, and its locals with it; unsure says that
\* it was written although the call fails.
End(c, good, unsure) ==
    /\ req' = [req EXCEPT ![c] = [kind |-> req[c].kind, account |-> Null,
                                  amount |-> 0, key |-> Null]]
    /\ seen' = [seen EXCEPT ![c] = 0]
    /\ stamp' = [stamp EXCEPT ![c] = 0]
    /\ IF req[c].kind = "upload"
       THEN /\ upload' = [upload EXCEPT ![c] = Counted(upload[c], good, unsure)]
            /\ Goto(c, "row")
       ELSE /\ Goto(c, IF good THEN "returned" ELSE "thrown")
            /\ UNCHANGED upload

-----------------------------------------------------------------------------
(* Entering: the wallet endpoints, awards, sign-ups, burns, uploads.        *)

Unused(a) == /\ \A e \in entries : e.account # a
             /\ \A c \in Calls : req[c].account # a

\* POST /wallet/credit and /wallet/deduct; 0 stands for every amount that is not
\* positive.
CallWallet(c) ==
    /\ At(c, "idle")
    /\ \E kind \in {"credit", "debit"}, a \in Accounts, n \in Amounts \cup {0},
          k \in Keys \cup {Null} :
          /\ req' = [req EXCEPT ![c] = [kind |-> kind, account |-> a,
                                        amount |-> n, key |-> k]]
          /\ Goto(c, AfterGuard(n, kind))
    /\ UNCHANGED <<entries, wallet, now, seen, stamp, upload, report, upset, awards, awarding>>

\* awardPointsWithCompliance, and redeemPoints of the burn catalogue, which
\* passes it the negated price.
CallAward(c) ==
    /\ At(c, "idle")
    /\ \E kind \in {"award", "burn"}, a \in Accounts, n \in Amounts :
          req' = [req EXCEPT ![c] = [kind |-> kind, account |-> a,
                                     amount |-> IF kind = "burn" THEN -n ELSE n,
                                     key |-> Null]]
    /\ Goto(c, "verify")
    /\ UNCHANGED <<entries, wallet, now, seen, stamp, upload, report, upset, awards, awarding>>

\* signup verifies the email first; the member's id is a new uuid.
CallSignup(c) ==
    /\ At(c, "idle")
    /\ \E a \in Accounts :
          /\ Unused(a)
          /\ req' = [req EXCEPT ![c] = [kind |-> "signup", account |-> a,
                                        amount |-> WelcomeBonus, key |-> Null]]
    /\ Goto(c, "admit")
    /\ UNCHANGED <<entries, wallet, now, seen, stamp, upload, report, upset, awards, awarding>>

CallUpload(c) ==
    /\ At(c, "idle")
    /\ Cardinality({d \in Calls : req[d].kind = "upload"}) < MaxUploads
    /\ req' = [req EXCEPT ![c] = [kind |-> "upload", account |-> Null,
                                  amount |-> 0, key |-> Null]]
    /\ \E n \in 0..MaxRows : upload' = [upload EXCEPT ![c] =
           [of |-> n, left |-> n, ok |-> 0, failed |-> 0, unsure |-> 0]]
    /\ Goto(c, "row")
    /\ UNCHANGED <<entries, wallet, now, seen, stamp, report, upset, awards, awarding>>

-----------------------------------------------------------------------------
(* The compliance checks.  The age verification is external; its stub in    *)
(* the repository accepts everyone.                                         *)

Admit(c) ==
    /\ At(c, "admit")
    /\ \E verified \in BOOLEAN : Goto(c, IF verified THEN "verify" ELSE "thrown")
    /\ UNCHANGED <<entries, wallet, now, req, seen, stamp, upload, report, upset, awards, awarding>>

Verify(c) ==
    /\ At(c, "verify")
    /\ \/ Goto(c, "thrown")
       \/ Goto(c, IF req[c].amount > ScoredAbove THEN "score"
                  ELSE AfterGuard(req[c].amount, req[c].kind))
    /\ UNCHANGED <<entries, wallet, now, req, seen, stamp, upload, report, upset, awards, awarding>>

Score(c) ==
    /\ At(c, "score")
    /\ Goto(c, IF Verdict(req[c].amount).action = "HARD_DECLINE" THEN "thrown"
               ELSE AfterGuard(req[c].amount, req[c].kind))
    /\ UNCHANGED <<entries, wallet, now, req, seen, stamp, upload, report, upset, awards, awarding>>

\* The loop of uploadCSV: a row whose points are not positive fails at once.
NextRow(c) ==
    /\ At(c, "row")
    /\ \/ /\ upload[c].left = 0
          /\ Goto(c, "returned")
          /\ UNCHANGED <<req, upload>>
       \/ /\ upload[c].left > 0
          /\ upload' = [upload EXCEPT ![c] = Counted(upload[c], FALSE, FALSE)]
          /\ UNCHANGED <<pc, req>>
       \/ /\ upload[c].left > 0
          /\ \E a \in Accounts, n \in Amounts :
                req' = [req EXCEPT ![c] = [kind |-> "upload", account |-> a,
                                           amount |-> n, key |-> Null]]
          /\ Goto(c, "read")
          /\ UNCHANGED upload
    /\ UNCHANGED <<entries, wallet, now, seen, stamp, report, upset, awards, awarding>>

-----------------------------------------------------------------------------
(* creditPoints and deductPoints.                                           *)

\* The snapshot, the check of the balance, and the timestamp of the entry.
Read(c) ==
    LET a == req[c].account IN
    /\ At(c, "read")
    /\ \E balance \in Snapshots(a) :
          \/ /\ ~Covers(c, balance)
             /\ End(c, FALSE, FALSE)
             /\ UNCHANGED upset
          \/ /\ Covers(c, balance)
             /\ seen' = [seen EXCEPT ![c] = balance]
             /\ stamp' = [stamp EXCEPT ![c] = now]
             /\ upset' = IF Pending(a) THEN upset \cup {a} ELSE upset
             /\ Goto(c, "commit")
             /\ UNCHANGED <<req, upload>>
    /\ UNCHANGED <<entries, wallet, now, report, awards, awarding>>

\* withTransaction runs its callback again after a transient error: the insert is
\* undone, the snapshot is read again, a generated key is generated anew.
Rerun(c) ==
    /\ At(c, "commit")
    /\ Goto(c, "read")
    /\ seen' = [seen EXCEPT ![c] = 0]
    /\ stamp' = [stamp EXCEPT ![c] = 0]
    /\ UNCHANGED <<entries, wallet, now, req, upload, report, upset, awards, awarding>>

\* The read or the insert fails: a refused document, an error not transient.
Reject(c) ==
    /\ pc[c] \in {"read", "commit"}
    /\ End(c, FALSE, FALSE)
    /\ UNCHANGED <<entries, wallet, now, report, upset, awards, awarding>>

\* createEntry answers a duplicate with the stored entry; inside a transaction
\* the failed insert has aborted it, and the commit throws.
Duplicate(c) ==
    /\ At(c, "commit") /\ KeyTaken(c)
    /\ \E stored \in BOOLEAN : End(c, stored, FALSE)
    /\ UNCHANGED <<entries, wallet, now, report, upset, awards, awarding>>

NewEntry(c) ==
    [account |-> req[c].account, amount |-> Delta(c), key |-> req[c].key,
     after |-> seen[c] + Delta(c), time |-> stamp[c], by |-> c,
     row |-> upload[c].left]

\* An entry that is not younger than all others of its account.
OutOfOrder(e) == \E f \in entries : f.account = e.account /\ f.time >= e.time

\* The entry becomes visible; the answer of the commit may be lost.
Commit(c) ==
    /\ At(c, "commit") /\ ~KeyTaken(c)
    /\ entries' = entries \cup {NewEntry(c)}
    /\ upset' = IF OutOfOrder(NewEntry(c)) THEN upset \cup {req[c].account}
                ELSE upset
    /\ \E answered \in BOOLEAN : End(c, answered, ~answered)
    /\ UNCHANGED <<wallet, now, report, awards, awarding>>

-----------------------------------------------------------------------------
(* Reconciliation of one account since the epoch.                           *)

\* The snapshot as of the epoch finds nothing.
CallReconcile(c) ==
    /\ At(c, "idle")
    /\ \E a \in Accounts :
          req' = [req EXCEPT ![c] = [kind |-> "reconcile", account |-> a,
                                     amount |-> 0, key |-> Null]]
    /\ report' = [report EXCEPT ![c] = [until |-> now, credits |-> 0, debits |-> 0,
                                        actual |-> 0]]
    /\ Goto(c, "totals")
    /\ UNCHANGED <<entries, wallet, now, seen, stamp, upload, upset, awards, awarding>>

\* The entries the report adds up: those of the tenant it is asked for.
FoundEntries(a, until) == {e \in EntriesOf(a, until) : TenantOf(e) # Null}
Credits(S) == SumOf({e \in S : e.amount > 0})
Debits(S) == -SumOf({e \in S : e.amount < 0})

ReportTotals(c) ==
    LET found == FoundEntries(req[c].account, report[c].until) IN
    /\ At(c, "totals")
    /\ report' = [report EXCEPT ![c] =
           [until |-> report[c].until, credits |-> Credits(found),
            debits |-> Debits(found), actual |-> 0]]
    /\ Goto(c, "end")
    /\ UNCHANGED <<entries, wallet, now, req, seen, stamp, upload, upset, awards, awarding>>

ReportEnd(c) ==
    /\ At(c, "end")
    /\ \E balance \in Balances(EntriesOf(req[c].account, report[c].until)) :
          report' = [report EXCEPT ![c] =
              [until |-> report[c].until, credits |-> report[c].credits,
               debits |-> report[c].debits, actual |-> balance]]
    /\ Goto(c, "returned")
    /\ UNCHANGED <<entries, wallet, now, req, seen, stamp, upload, upset, awards, awarding>>

\* "Allow for floating point precision": a difference of less than 0.01.
Reconciled(r) == r.actual = r.credits - r.debits

-----------------------------------------------------------------------------
(* The environment.                                                         *)

\* awardPoints of the accrual service adds to the wallet, if it still is the one it
\* has read (PointAccrual has the read, the conflicts and the retries), and then
\* records the balance of the WALLET, which knows nothing of points credited here.
AwardWallet(a) ==
    /\ awards < MaxAwards
    /\ awards' = awards + 1
    /\ \E n \in Amounts :
          /\ wallet' = [wallet EXCEPT ![a] = @ + n]
          /\ awarding' = awarding \cup {[account |-> a, amount |-> n,
                              after |-> wallet[a] + n, since |-> now, id |-> awards]}
    /\ upset' = IF wallet[a] # Total(a) \/ Pending(a) THEN upset \cup {a} ELSE upset
    /\ UNCHANGED <<entries, now, pc, req, seen, stamp, upload, report>>

\* createEntry stamps the entry, and inserts it in a later await.
AwardEntry(x) ==
    /\ \E t \in x.since..now :
          LET e == [account |-> x.account, amount |-> x.amount, key |-> Null,
                    after |-> x.after, time |-> t, by |-> Null, row |-> x.id]
          IN  /\ entries' = entries \cup {e}
              /\ upset' = IF OutOfOrder(e) THEN upset \cup {x.account} ELSE upset
    /\ awarding' = awarding \ {x}
    /\ UNCHANGED <<wallet, now, pc, req, seen, stamp, upload, report, awards>>

\* The insert is refused, its key is taken, or the process dies before it.
AwardLost(x) ==
    /\ awarding' = awarding \ {x}
    /\ UNCHANGED <<entries, wallet, now, pc, req, seen, stamp, upload, report, upset, awards>>

Tick ==
    /\ now < MaxTime
    /\ now' = now + 1
    /\ UNCHANGED <<entries, wallet, pc, req, seen, stamp, upload, report, upset, awards, awarding>>

Step(c) ==
    \/ CallWallet(c) \/ CallAward(c) \/ CallSignup(c) \/ CallUpload(c)
    \/ Admit(c) \/ Verify(c) \/ Score(c) \/ NextRow(c)
    \/ Read(c) \/ Rerun(c) \/ Reject(c) \/ Duplicate(c) \/ Commit(c)
    \/ CallReconcile(c) \/ ReportTotals(c) \/ ReportEnd(c)

Next ==
    \/ \E c \in Calls : Step(c)
    \/ \E a \in Accounts : AwardWallet(a)
    \/ \E x \in awarding : AwardEntry(x) \/ AwardLost(x)
    \/ Tick

Spec == Init /\ [][Next]_vars

-----------------------------------------------------------------------------
(* Properties.                                                              *)

TypeOK ==
    /\ entries \in SUBSET Entry /\ IsFiniteSet(entries)
    /\ wallet \in [Accounts -> Int]
    /\ now \in Nat
    /\ pc \in [Calls -> Steps]
    /\ req \in [Calls -> Request]
    /\ seen \in [Calls -> Int]
    /\ stamp \in [Calls -> Nat]
    /\ upload \in [Calls -> Upload]
    /\ report \in [Calls -> Report]
    /\ upset \subseteq Accounts
    /\ awards \in Nat
    /\ awarding \subseteq Award

\* On every account that was spared races, equal timestamps and a mixture of
\* wallet and ledger balances, the running balance is the sum of the entries, and
\* no debit has taken it below zero (getBalanceSnapshot, deductPoints).
SnapshotIsTotal ==
    \A a \in Accounts \ upset :
        \A balance \in Snapshots(a) : balance = Total(a) /\ balance >= 0

\* The result of an upload accounts for every row, and a row it reports as
\* awarded has one entry; a row it reports as failed has one only if the answer
\* to its commit was lost (uploadCSV, withTransaction).
RowsCounted(c) ==
    LET u == upload[c]
    IN  /\ u.ok + u.failed + u.left = u.of
        /\ u.unsure <= u.failed
        /\ Cardinality({e \in entries : e.by = c}) = u.ok + u.unsure
UploadCounts == \A c \in Calls : req[c].kind = "upload" => RowsCounted(c)

\* Why they hold.  Nothing is dated in the future.
ClockInv == /\ \A e \in entries : e.time <= now
            /\ \A c \in Calls : stamp[c] <= now
            /\ \A x \in awarding : x.since <= now
\* A call that will insert knows its account and a positive amount.
CallOK(c) ==
    /\ pc[c] \in {"read", "commit"} =>
           /\ req[c].account \in Accounts
           /\ req[c].amount \in Nat \ {0}
           /\ req[c].kind \in Crediting \cup {"debit"}
    /\ pc[c] = "commit" => Covers(c, seen[c])
    /\ pc[c] \in {"admit", "verify", "score"} =>
           /\ req[c].account \in Accounts
           /\ req[c].kind \in {"award", "burn", "signup"}
    /\ pc[c] \in {"totals", "end"} =>
           req[c].account \in Accounts /\ req[c].kind = "reconcile"
    /\ pc[c] = "row" => req[c].kind = "upload"
    /\ req[c].kind = "upload" => req[c].key = Null
    /\ pc[c] = "idle" <=> req[c].kind = "none"
CallInv == \A c \in Calls : CallOK(c)
\* On such an account at most one insert is pending, and it continues the sum.
InTurn(a) ==
    /\ Total(a) >= 0
    /\ \A c \in PendingCalls(a) : /\ PendingCalls(a) = {c} /\ PendingAwards(a) = {}
                                  /\ seen[c] = Total(a)
    /\ \A x \in PendingAwards(a) : /\ PendingAwards(a) = {x} /\ PendingCalls(a) = {}
                                   /\ x.after = Total(a) + x.amount
PendingInv == \A a \in Accounts \ upset : InTurn(a)
\* The entries of a call are those of its earlier rows.
RowInv ==
    \A e \in entries : e.by # Null =>
        /\ req[e.by].kind # "none"
        /\ req[e.by].kind = "upload" => e.row > upload[e.by].left
\* The rows that are left while one is being awarded include it.
Awarding(c) == req[c].kind = "upload" /\ pc[c] \in {"read", "commit"}
LeftInv == \A c \in Calls : Awarding(c) => upload[c].left > 0

\* A report never finds an entry, so it is reconciled if the balance is 0.
ReportInv == \A c \in Calls : report[c].credits = 0 /\ report[c].debits = 0

IInv == ClockInv /\ CallInv /\ PendingInv /\ RowInv /\ LeftInv /\ ReportInv
        /\ SnapshotIsTotal /\ UploadCounts

-----------------------------------------------------------------------------
(* What comments say of these operations and the code does not meet.        *)

\* "concurrent debits cannot both succeed against the same balance"
\* (ledger.service.ts:618): they can, the read is not part of the transaction.
NeverOverdrawn == \A a \in Accounts : Total(a) >= 0

SumOfEntries(a, until) == SumOf(EntriesOf(a, until))
ReportDone(c) == req[c].kind = "reconcile" /\ pc[c] = "returned" /\ report[c].until < now

\* "True only when ledger sum matches the recorded running balance"
\* (reconciliation.service.ts:19): the totals miss every entry, so it is true
\* exactly when the running balance is 0.
BalancedMeansSum ==
    \A c \in Calls : ReportDone(c) /\ Reconciled(report[c]) =>
        SumOfEntries(req[c].account, report[c].until) = report[c].actual

\* "Wallet.balance == sum(LedgerEntry.delta) == calculatedBalance"
\* (reconciliation.service.ts:5), when nothing dated before the report is pending.
CalculatedIsSum ==
    \A c \in Calls : ReportDone(c) /\ ~Pending(req[c].account) =>
        report[c].credits - report[c].debits
            = SumOfEntries(req[c].account, report[c].until)
WalletIsSum == \A a \in Accounts : wallet[a] = Total(a)

\* "negative delta = burn" (burn-catalog.service.ts:30): on the contrary, no burn
\* gets past the guard of creditPoints.
NothingBurned ==
    \A c \in Calls : req[c].kind = "burn" => pc[c] \in {"verify", "score", "thrown"}
=============================================================================
