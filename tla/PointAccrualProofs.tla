------------------------- MODULE PointAccrualProofs -------------------------
(***************************************************************************)
(* Proofs about PointAccrual, for every set of users, keys, calls and      *)
(* amounts, every initial balance and every bound.                         *)
(***************************************************************************)
EXTENDS PointAccrual, SequenceTheorems, SumTheorems

USE DEF store, locals, history

-----------------------------------------------------------------------------
(* Types.                                                                   *)

\* What is known of a request of each kind.
LEMMA RequestFacts ==
    ASSUME NEW r \in Requests
    PROVE  /\ r \in Request
           /\ r.user \in Users /\ r.amount \in Int /\ r.kind \in Kinds
           /\ r.kind # "expire" => r.key \in Keys
           /\ r.kind \in Retrying => r.amount > 0
           /\ r.kind # "expire" => r.amount # 0
<1>1. \A a \in Amounts : a \in Int /\ a > 0 /\ -a \in Int
  BY AmountsAssumption
<1>2. CASE r \in [kind: Requested, user: Users, key: Keys, amount: Amounts,
                  expires: {Null}]
  BY <1>1, <1>2 DEF Request, Requested, Kinds
<1>3. CASE r \in [kind: {"award"}, user: Users, key: Keys, amount: Amounts,
                  expires: Days \cup {Null}]
  BY <1>1, <1>3 DEF Request, Requested, Kinds
<1>4. CASE r \in [kind: {"adjust", "correct"}, user: Users, key: Keys,
                  amount: Amounts \cup {-a : a \in Amounts}, expires: {Null}]
  <2>1. r.amount \in Amounts \/ \E a \in Amounts : r.amount = -a
    BY <1>4
  <2>2. r.amount \in Int
    BY <1>1, <2>1
  <2> QED
    BY <1>1, <1>4, <2>1, <2>2 DEF Request, Requested, Kinds, Retrying
<1>5. CASE r \in [kind: {"expire"}, user: Users, key: {Null}, amount: {0},
                  expires: {Null}]
  BY <1>5 DEF Request, Requested, Kinds, Retrying
<1> QED
  BY <1>2, <1>3, <1>4, <1>5 DEF Requests

LEMMA TypeInit == Init => TypeOK
<1> SUFFICES ASSUME Init PROVE TypeOK
  OBVIOUS
<1>1. NoWallet \in Wallet /\ OldWallet \in Wallet
  BY BalanceAssumption DEF NoWallet, OldWallet, Wallet
<1>2. NoRequest \in Request
  BY DEF NoRequest, Request
<1>3. <<InitialBalance>> \in Seq(Int) /\ <<>> \in Seq(Int)
  BY BalanceAssumption, EmptySeq
<1>4. balances \in [Users -> Seq(Int)]
  BY <1>3 DEF Init
<1>5. today \in Days /\ 0 \in 0 .. (MaxRetryAttempts - 1)
  BY BoundsAssumption DEF Init, Days
<1>6. IsFiniteSet(ledger)
  BY FS_EmptySet DEF Init
<1> QED
  BY <1>1, <1>2, <1>4, <1>5, <1>6 DEF Init, TypeOK, Steps

\* What an operation is about, once it has been asked for.
LEMMA RequestFields ==
    ASSUME TypeOK, RequestsOK, NEW c \in Calls, pc[c] # "idle"
    PROVE  /\ req[c] \in Requests /\ req[c] \in Request
           /\ User(c) \in Users
           /\ req[c].amount \in Int
           /\ req[c].kind \in Kinds
           /\ req[c].kind # "expire" => req[c].key \in Keys
           /\ req[c].kind \in Retrying => req[c].amount > 0
           /\ req[c].kind # "expire" => req[c].amount # 0
           /\ WalletOf(c) \in Wallet /\ saw[c] \in Wallet
           /\ due[c] \in Nat
           /\ balances[User(c)] \in Seq(Int)
<1>1. req[c] \in Requests
  BY DEF RequestsOK
<1> QED
  BY <1>1, RequestFacts DEF TypeOK, User, WalletOf

\* What is added to a balance is an integer.
LEMMA DeltaTyped ==
    ASSUME TypeOK, RequestsOK, NEW c \in Calls, pc[c] # "idle"
    PROVE  Delta(c) \in Int
<1>1. /\ req[c].amount \in Int /\ due[c] \in Nat /\ saw[c].available \in Int
  BY RequestFields DEF Wallet
<1> QED
  BY <1>1 DEF Delta, Lesser

\* The key of an entry.
LEMMA KeyTyped ==
    ASSUME TypeOK, RequestsOK, NEW c \in Calls, pc[c] # "idle"
    PROVE  KeyOf(c) \in LedgerKey
<1>1. /\ User(c) \in Users /\ today \in Days
      /\ req[c].kind # "expire" => req[c].key \in Keys
  BY RequestFields DEF TypeOK
<1>2. CASE req[c].kind = "expire"
  BY <1>1, <1>2 DEF KeyOf, LedgerKey, Requested
<1>3. CASE req[c].kind # "expire"
  BY <1>1, <1>3 DEF KeyOf, LedgerKey, Requested
<1> QED
  BY <1>2, <1>3

\* A wallet that has been written is a wallet, one version on.
LEMMA WrittenTyped ==
    ASSUME NEW w \in Wallet, NEW d \in Int
    PROVE  /\ Written(w, d) \in Wallet
           /\ Written(w, d).present = w.present
           /\ Written(w, d).available = w.available + d
           /\ Written(w, d).version = w.version + 1
BY DEF Wallet, Written

\* Expired credits are positive, and so is their sum.
LEMMA ExpiredTyped ==
    ASSUME TypeOK, NEW u
    PROVE  TotalExpired(u) \in Nat
<1> DEFINE F == [x \in Expired(u) |-> x.amount]
<1>1. IsFiniteSet(Expired(u)) /\ \A x \in Expired(u) : x.amount \in Nat
  BY FS_Subset DEF Expired, TypeOK, Entry
<1>2. TotalExpired(u) = SumFunctionOnSet(F, Expired(u))
  BY DEF TotalExpired, SumFunction
<1>3. \A x \in Expired(u) : F[x] \in Nat
  BY <1>1
<1> HIDE DEF F
<1> QED
  BY <1>1, <1>2, <1>3, SumNat

LEMMA TypeNext ==
    ASSUME TypeOK, RequestsOK, [Next]_vars
    PROVE  TypeOK'
<1> USE DEF TypeOK
<1>1. ASSUME NEW c \in Calls, Call(c) PROVE TypeOK'
  <2>1. PICK r \in Requests : /\ req' = [req EXCEPT ![c] = r]
                              /\ Goto(c, FirstStep(r.kind))
                              /\ earlier' = [earlier EXCEPT ![c] =
                                              {d \in Twins(r) : pc[d] = "returned"}]
    BY <1>1 DEF Call
  <2>2. r \in Request /\ FirstStep(r.kind) \in Steps
    BY RequestFacts DEF FirstStep, Steps
  <2>3. {d \in Twins(r) : pc[d] = "returned"} \subseteq Calls
    BY DEF Twins
  <2>4. req' \in [Calls -> Request] /\ pc' \in [Calls -> Steps]
    BY <2>1, <2>2 DEF Goto
  <2>5. earlier' \in [Calls -> SUBSET Calls]
    BY <2>1, <2>3
  <2> QED
    BY <1>1, <2>4, <2>5 DEF Call
<1>2. ASSUME NEW c \in Calls, Check(c) PROVE TypeOK'
  BY <1>2 DEF Check, Goto, Steps, Finished
<1>3. ASSUME NEW c \in Calls, Query(c) PROVE TypeOK'
  <2>1. TotalExpired(User(c)) \in Nat
    BY ExpiredTyped
  <2> QED
    BY <1>3, <2>1 DEF Query, Goto, Steps, Finished
<1>4. ASSUME NEW c \in Calls, Read(c) \/ ReadNothing(c) \/ Refuse(c) PROVE TypeOK'
  <2>1. WalletOf(c) \in Wallet
    BY <1>4, RequestFields DEF Read, ReadNothing, Refuse, At
  <2> QED
    BY <1>4, <2>1 DEF Read, ReadNothing, Refuse, Goto, Steps, Finished
<1>5. ASSUME NEW c \in Calls, CreateWallet(c) PROVE TypeOK'
  <2>1. User(c) \in Users
    BY <1>5, RequestFields DEF CreateWallet, At
  <2>2. NewWallet \in Wallet /\ <<0>> \in Seq(Int)
    BY DEF NewWallet, Wallet
  <2> QED
    BY <1>5, <2>1, <2>2 DEF CreateWallet, Goto, Steps, Finished
<1>6. ASSUME NEW c \in Calls, Cas(c) PROVE TypeOK'
  <2>1. /\ User(c) \in Users /\ WalletOf(c) \in Wallet /\ Delta(c) \in Int
        /\ balances[User(c)] \in Seq(Int)
    BY <1>6, RequestFields, DeltaTyped DEF Cas, At
  <2>2. Written(WalletOf(c), Delta(c)) \in Wallet
    BY <2>1, WrittenTyped
  <2>3. Append(balances[User(c)], WalletOf(c).available + Delta(c)) \in Seq(Int)
    BY <2>1, AppendProperties DEF Wallet
  <2> QED
    BY <1>6, <2>1, <2>2, <2>3 DEF Cas, Goto, Steps, Finished
<1>7. ASSUME NEW c \in Calls, CasConflict(c) PROVE TypeOK'
  <2>1. RetryStep(req[c].kind) \in Steps
    BY DEF RetryStep, Steps
  <2>2. RetriesLeft(c) /\ req[c].kind \in Retrying
           => attempts[c] + 1 \in 0 .. (MaxRetryAttempts - 1)
    BY BoundsAssumption DEF RetriesLeft
  <2> QED
    BY <1>7, <2>1, <2>2 DEF CasConflict, Goto, Steps, Finished
<1>8. ASSUME NEW c \in Calls, CreateEntry(c) PROVE TypeOK'
  <2>1. pc[c] # "idle"
    BY <1>8 DEF CreateEntry, At
  <2>2. /\ User(c) \in Users /\ Delta(c) \in Int /\ KeyOf(c) \in LedgerKey
        /\ saw[c].available \in Int /\ req[c].expires \in Days \cup {Null}
    BY <2>1, RequestFields, DeltaTyped, KeyTyped DEF Wallet, Request
  <2>3. [key |-> KeyOf(c), transaction |-> c, user |-> User(c),
         amount |-> EntryAmount(c), before |-> saw[c].available,
         after |-> saw[c].available + Delta(c), expires |-> req[c].expires] \in Entry
    BY <2>2 DEF Entry, EntryAmount
  <2>4. ledger' \subseteq Entry /\ IsFiniteSet(ledger')
    <3>1. PICK x \in Entry : ledger' = ledger \/ ledger' = ledger \cup {x}
      BY <1>8, <2>3 DEF CreateEntry
    <3>2. IsFiniteSet(ledger \cup {x})
      BY FS_AddElement
    <3> QED
      BY <3>1, <3>2
  <2> QED
    BY <1>8, <2>4 DEF CreateEntry, Goto, Steps, Finished
<1>9. ASSUME NEW c \in Calls, RecordKey(c) PROVE TypeOK'
  <2>1. /\ pc[c] = "record" /\ req[c].kind \in Requested
    BY <1>9 DEF RecordKey, At, RequestsOK
  <2>2. User(c) \in Users /\ req[c].key \in Keys
    BY <2>1, RequestFields DEF Requested
  <2> QED
    BY <1>9, <2>1, <2>2 DEF RecordKey, Goto, Steps, Finished
<1>10. ASSUME NEW c \in Calls, Crash(c) PROVE TypeOK'
  BY <1>10 DEF Crash
<1>11. CASE NextDay
  BY <1>11, BoundsAssumption DEF NextDay, Days
<1>12. CASE UNCHANGED vars
  BY <1>12 DEF vars
<1> QED
  BY <1>1, <1>2, <1>3, <1>4, <1>5, <1>6, <1>7, <1>8, <1>9, <1>10, <1>11, <1>12
     DEF Next, Step

-----------------------------------------------------------------------------
(* What a step leaves alone.                                                *)

\* A step of one call touches no other call.
LEMMA Frame ==
    ASSUME TypeOK, NEW c \in Calls, Call(c) \/ Step(c) \/ Crash(c)
    PROVE  /\ \A d \in Calls \ {c} :
                /\ pc'[d] = pc[d] /\ req'[d] = req[d] /\ saw'[d] = saw[d]
                /\ due'[d] = due[d] /\ moved'[d] = moved[d]
                /\ earlier'[d] = earlier[d]
           /\ ~Call(c) => req' = req /\ earlier' = earlier
           /\ records \subseteq records'
<1> USE DEF TypeOK
<1>1. CASE Call(c)
  BY <1>1 DEF Call, Goto
<1>2. CASE Check(c) \/ Query(c) \/ Read(c) \/ ReadNothing(c) \/ Refuse(c)
  BY <1>2 DEF Check, Query, Read, ReadNothing, Refuse, Goto
<1>3. CASE CreateWallet(c)
  BY <1>3 DEF CreateWallet, Goto
<1>4. CASE Cas(c) \/ CasConflict(c)
  BY <1>4 DEF Cas, CasConflict, Goto
<1>5. CASE CreateEntry(c) \/ RecordKey(c)
  BY <1>5 DEF CreateEntry, RecordKey, Goto
<1>6. CASE Crash(c)
  BY <1>6 DEF Crash
<1> QED
  BY <1>1, <1>2, <1>3, <1>4, <1>5, <1>6 DEF Step

\* Only a creation and a compare-and-set write a wallet, and its history.
LEMMA Writers ==
    ASSUME TypeOK, Next
    PROVE  \/ UNCHANGED <<wallets, balances>>
           \/ \E c \in Calls : CreateWallet(c) /\ ~WalletOf(c).present
           \/ \E c \in Calls : Cas(c)
BY DEF Next, Step, Call, Check, Query, Read, ReadNothing, Refuse, CreateWallet,
       CasConflict, CreateEntry, RecordKey, Crash, NextDay

\* The effect of a compare-and-set: the wallet it writes is the one it read.
LEMMA CasEffect ==
    ASSUME IInv, NEW c \in Calls, Cas(c)
    PROVE  LET u == User(c)
               b == balances[u]
           IN /\ pc[c] = "cas" /\ pc'[c] = "entry" /\ u \in Users
              /\ wallets[u] \in Wallet /\ wallets[u].present
              /\ saw[c] \in Wallet /\ saw[c].version = wallets[u].version
              /\ saw[c].available = wallets[u].available
              /\ Delta(c) \in Int /\ moved'[c] = Delta(c)
              /\ b \in Seq(Int) /\ Len(b) = wallets[u].version + 1
              /\ balances' = [balances EXCEPT ![u] =
                                Append(b, wallets[u].available + Delta(c))]
              /\ wallets' = [wallets EXCEPT ![u] = Written(wallets[u], Delta(c))]
<1>1. pc[c] = "cas" /\ pc'[c] = "entry"
  BY DEF Cas, At, Goto, IInv, TypeOK
<1>2. /\ User(c) \in Users /\ wallets[User(c)] \in Wallet /\ saw[c] \in Wallet
      /\ Delta(c) \in Int /\ balances[User(c)] \in Seq(Int)
  BY <1>1, RequestFields, DeltaTyped DEF IInv, WalletOf
<1>3. saw[c].version = wallets[User(c)].version
  BY DEF Cas, Matches, WalletOf
<1>4. /\ saw[c].version + 1 \in 1 .. Len(balances[User(c)])
      /\ balances[User(c)][saw[c].version + 1] = saw[c].available
  BY <1>1 DEF IInv, SawOK
<1>5. wallets[User(c)].present
  BY <1>2, <1>4 DEF IInv, WalletsOK
<1>6. /\ Len(balances[User(c)]) = wallets[User(c)].version + 1
      /\ balances[User(c)][Len(balances[User(c)])] = wallets[User(c)].available
  BY <1>2, <1>5 DEF IInv, WalletsOK
<1>7. saw[c].available = wallets[User(c)].available
  BY <1>3, <1>4, <1>6
<1>8. /\ balances' = [balances EXCEPT ![User(c)] =
            Append(balances[User(c)], wallets[User(c)].available + Delta(c))]
      /\ wallets' = [wallets EXCEPT ![User(c)] =
                       Written(wallets[User(c)], Delta(c))]
      /\ moved'[c] = Delta(c)
  BY DEF Cas, WalletOf, IInv, TypeOK
<1> QED
  BY <1>1, <1>2, <1>3, <1>5, <1>6, <1>7, <1>8

\* A history only grows.
LEMMA Stable ==
    ASSUME IInv, [Next]_vars, NEW u \in Users
    PROVE  /\ balances[u] \in Seq(Int) /\ balances'[u] \in Seq(Int)
           /\ Len(balances[u]) <= Len(balances'[u])
           /\ \A v \in 1 .. Len(balances[u]) : balances'[u][v] = balances[u][v]
<1>1. balances[u] \in Seq(Int) /\ balances'[u] \in Seq(Int)
  BY TypeNext DEF IInv, TypeOK
<1>2. CASE UNCHANGED balances
  BY <1>1, <1>2, LenProperties
<1>3. ASSUME NEW c \in Calls, CreateWallet(c), ~WalletOf(c).present
      PROVE  balances[u] = <<>> \/ balances'[u] = balances[u]
  <2>1. User(c) \in Users
    BY <1>3, RequestFields DEF CreateWallet, At, IInv
  <2>2. balances[User(c)] = <<>>
    BY <1>3, <2>1 DEF IInv, WalletsOK, WalletOf
  <2> QED
    BY <1>3, <2>1, <2>2 DEF CreateWallet, IInv, TypeOK
<1>4. ASSUME NEW c \in Calls, Cas(c)
      PROVE  \/ balances'[u] = balances[u]
             \/ \E n \in Int : balances'[u] = Append(balances[u], n)
  <2>1. wallets[User(c)].available + Delta(c) \in Int
    BY <1>4, CasEffect DEF Wallet
  <2>2. balances' = [balances EXCEPT ![User(c)] =
            Append(balances[User(c)], wallets[User(c)].available + Delta(c))]
    BY <1>4, CasEffect
  <2>3. CASE u = User(c)
    BY <2>1, <2>2, <2>3 DEF IInv, TypeOK
  <2>4. CASE u # User(c)
    BY <2>2, <2>4 DEF IInv, TypeOK
  <2> QED
    BY <2>3, <2>4
<1>5. \/ balances[u] = <<>> \/ balances'[u] = balances[u]
      \/ \E n \in Int : balances'[u] = Append(balances[u], n)
  BY <1>2, <1>3, <1>4, Writers DEF vars, IInv
<1>6. CASE balances[u] = <<>>
  BY <1>1, <1>6, LenProperties, EmptySeq
<1>7. CASE \E n \in Int : balances'[u] = Append(balances[u], n)
  BY <1>1, <1>7, AppendProperties, LenProperties
<1>8. CASE balances'[u] = balances[u]
  BY <1>1, <1>8, LenProperties
<1> QED
  BY <1>1, <1>5, <1>6, <1>7, <1>8

-----------------------------------------------------------------------------
(* Each part of the invariant is preserved.                                 *)

\* A history that grows by one.
LEMMA AppendFacts ==
    ASSUME NEW b \in Seq(Int), NEW n \in Int, NEW k \in Nat, Len(b) = k + 1
    PROVE  /\ Append(b, n) \in Seq(Int) /\ Append(b, n) # <<>>
           /\ Len(Append(b, n)) = k + 2
           /\ Append(b, n)[k + 1] = b[k + 1]
           /\ Append(b, n)[k + 1 + 1] = n
           /\ Append(b, n)[k + 2] = n
<1>1. /\ Append(b, n) \in Seq(Int) /\ Len(Append(b, n)) = Len(b) + 1
      /\ Append(b, n)[Len(b) + 1] = n
      /\ \A i \in 1 .. Len(b) : Append(b, n)[i] = b[i]
  BY AppendProperties
<1>2. k + 1 \in 1 .. Len(b) /\ k + 1 + 1 = k + 2
  OBVIOUS
<1> QED
  BY <1>1, <1>2, EmptySeq

LEMMA WalletsNext ==
    ASSUME IInv, [Next]_vars
    PROVE  WalletsOK'
<1> USE DEF IInv
<1>1. CASE UNCHANGED <<wallets, balances>>
  BY <1>1 DEF WalletsOK
<1>2. ASSUME NEW c \in Calls, CreateWallet(c), ~WalletOf(c).present PROVE WalletsOK'
  <2>1. User(c) \in Users
    BY <1>2, RequestFields DEF CreateWallet, At
  <2>2. /\ wallets' = [wallets EXCEPT ![User(c)] = NewWallet]
        /\ balances' = [balances EXCEPT ![User(c)] = <<0>>]
    BY <1>2 DEF CreateWallet
  <2>3. <<0>> # <<>> /\ Len(<<0>>) = 1 /\ <<0>>[1] = 0
    OBVIOUS
  <2> QED
    BY <2>1, <2>2, <2>3 DEF WalletsOK, NewWallet, TypeOK
<1>3. ASSUME NEW c \in Calls, Cas(c) PROVE WalletsOK'
  <2> DEFINE w == wallets[User(c)]
             b == balances[User(c)]
             n == w.available + Delta(c)
  <2>1. /\ User(c) \in Users /\ w \in Wallet /\ w.present /\ Delta(c) \in Int
        /\ b \in Seq(Int) /\ Len(b) = w.version + 1
        /\ balances' = [balances EXCEPT ![User(c)] = Append(b, n)]
        /\ wallets' = [wallets EXCEPT ![User(c)] = Written(w, Delta(c))]
    BY <1>3, CasEffect
  <2>2. w.version \in Nat /\ n \in Int
    BY <2>1 DEF Wallet
  <2>3. /\ Append(b, n) # <<>> /\ Len(Append(b, n)) = w.version + 2
        /\ Append(b, n)[w.version + 2] = n
    <3>1. /\ b \in Seq(Int) /\ Len(b) = w.version + 1
          /\ n \in Int /\ w.version \in Nat
      BY <2>1, <2>2
    <3> HIDE DEF w, b, n, IInv
    <3> QED
      BY <3>1, AppendFacts
  <2>4. /\ Written(w, Delta(c)).present /\ Written(w, Delta(c)).available = n
        /\ Written(w, Delta(c)).version = w.version + 1
    BY <2>1, WrittenTyped
  <2> HIDE DEF w, b, n
  <2>5. wallets'[User(c)] = Written(w, Delta(c)) /\ balances'[User(c)] = Append(b, n)
    BY <2>1 DEF TypeOK
  <2>6. ASSUME NEW u \in Users, u # User(c)
        PROVE  wallets'[u] = wallets[u] /\ balances'[u] = balances[u]
    BY <2>1, <2>6 DEF TypeOK
  <2>7. w.version + 2 = (w.version + 1) + 1
    BY <2>2
  <2> QED
    BY <2>3, <2>4, <2>5, <2>6, <2>7 DEF WalletsOK
<1> QED
  BY <1>1, <1>2, <1>3, Writers DEF vars

\* What another call has read and written stays in the history.
LEMMA SawKept ==
    ASSUME IInv, [Next]_vars, NEW d \in Calls,
           pc'[d] = pc[d], req'[d] = req[d], saw'[d] = saw[d], due'[d] = due[d]
    PROVE  LET v == saw'[d].version + 1
               b == balances'[User(d)']
           IN /\ pc'[d] \in {"cas", "entry"} =>
                   v \in 1 .. Len(b) /\ b[v] = saw'[d].available
              /\ pc'[d] = "entry" =>
                   v + 1 \in 1 .. Len(b) /\ b[v + 1] = saw'[d].available + Delta(d)'
<1> SUFFICES ASSUME pc[d] \in {"cas", "entry"}
             PROVE  LET v == saw[d].version + 1
                        b == balances'[User(d)]
                    IN /\ v \in 1 .. Len(b) /\ b[v] = saw[d].available
                       /\ pc[d] = "entry" =>
                            /\ v + 1 \in 1 .. Len(b)
                            /\ b[v + 1] = saw[d].available + Delta(d)
  BY DEF User, Delta
<1>1. User(d) \in Users
  BY RequestFields DEF IInv
<1>2. LET v == saw[d].version + 1
          b == balances[User(d)]
      IN /\ v \in 1 .. Len(b) /\ b[v] = saw[d].available
         /\ pc[d] = "entry" => /\ v + 1 \in 1 .. Len(b)
                               /\ b[v + 1] = saw[d].available + Delta(d)
  BY DEF IInv, SawOK
<1>3. /\ Len(balances[User(d)]) \in Nat /\ Len(balances'[User(d)]) \in Nat
      /\ Len(balances[User(d)]) <= Len(balances'[User(d)])
      /\ \A v \in 1 .. Len(balances[User(d)]) :
            balances'[User(d)][v] = balances[User(d)][v]
  BY <1>1, Stable, LenProperties
<1> QED
  BY <1>2, <1>3

LEMMA SawNext ==
    ASSUME IInv, [Next]_vars
    PROVE  SawOK'
<1> DEFINE Kept(d) ==
        LET v == saw'[d].version + 1
            b == balances'[User(d)']
        IN /\ pc'[d] \in {"cas", "entry"} =>
                v \in 1 .. Len(b) /\ b[v] = saw'[d].available
           /\ pc'[d] = "entry" =>
                v + 1 \in 1 .. Len(b) /\ b[v + 1] = saw'[d].available + Delta(d)'
<1>1. SUFFICES ASSUME NEW d \in Calls PROVE Kept(d)
  BY DEF SawOK, User, Delta
<1>2. CASE pc'[d] = pc[d] /\ req'[d] = req[d] /\ saw'[d] = saw[d] /\ due'[d] = due[d]
  BY <1>2, SawKept
<1>3. CASE pc'[d] \notin {"cas", "entry"}
  BY <1>3
<1>4. CASE Read(d)
  <2>1. /\ User(d) \in Users /\ WalletOf(d) \in Wallet /\ WalletOf(d).present
        /\ balances[User(d)] \in Seq(Int)
    BY <1>4, RequestFields DEF Read, At, Accepts, IInv
  <2>2. /\ pc'[d] = "cas" /\ saw'[d] = WalletOf(d) /\ req'[d] = req[d]
        /\ balances' = balances
    BY <1>4 DEF Read, Goto, IInv, TypeOK
  <2>3. /\ Len(balances[User(d)]) = WalletOf(d).version + 1
        /\ balances[User(d)][Len(balances[User(d)])] = WalletOf(d).available
    BY <2>1 DEF IInv, WalletsOK, WalletOf
  <2>4. WalletOf(d).version + 1 \in 1 .. Len(balances[User(d)])
    BY <2>1, <2>3 DEF Wallet
  <2> QED
    BY <2>2, <2>3, <2>4 DEF User
<1>5. CASE CreateWallet(d) /\ ~WalletOf(d).present
  <2>1. User(d) \in Users
    BY <1>5, RequestFields DEF CreateWallet, At, IInv
  <2>2. /\ pc'[d] = "cas" /\ saw'[d] = NewWallet /\ req'[d] = req[d]
        /\ balances'[User(d)] = <<0>>
    BY <1>5, <2>1 DEF CreateWallet, Goto, IInv, TypeOK
  <2>3. Len(<<0>>) = 1 /\ <<0>>[1] = 0
    OBVIOUS
  <2> QED
    BY <2>2, <2>3 DEF User, NewWallet
<1>6. CASE Cas(d)
  <2> DEFINE w == wallets[User(d)]
             b == balances[User(d)]
             n == w.available + Delta(d)
  <2>1. /\ User(d) \in Users /\ w \in Wallet /\ Delta(d) \in Int
        /\ b \in Seq(Int) /\ Len(b) = w.version + 1
        /\ saw[d].version = w.version /\ saw[d].available = w.available
        /\ pc[d] = "cas" /\ pc'[d] = "entry"
        /\ balances' = [balances EXCEPT ![User(d)] = Append(b, n)]
    BY <1>6, CasEffect
  <2>2. w.version \in Nat /\ n \in Int
    BY <2>1 DEF Wallet
  <2>3. req' = req /\ saw' = saw /\ due' = due
    BY <1>6 DEF Cas
  <2>4. b[w.version + 1] = w.available
    BY <2>1 DEF IInv, SawOK
  <2>5. /\ Append(b, n) \in Seq(Int) /\ Len(Append(b, n)) = w.version + 2
        /\ Append(b, n)[w.version + 1] = w.available
        /\ Append(b, n)[w.version + 1 + 1] = n
    <3> HIDE DEF w, b, n
    <3> QED
      BY <2>1, <2>2, <2>4, AppendFacts
  <2>6. balances'[User(d)'] = Append(b, n) /\ Delta(d)' = Delta(d)
    BY <2>1, <2>3 DEF IInv, TypeOK, User, Delta
  <2>7. saw'[d].version = w.version /\ saw'[d].available = w.available
    BY <2>1, <2>3
  <2> HIDE DEF w, b
  <2>8. /\ w.version + 1 \in 1 .. Len(Append(b, n))
        /\ w.version + 1 + 1 \in 1 .. Len(Append(b, n))
    BY <2>2, <2>5
  <2> QED
    BY <2>5, <2>6, <2>7, <2>8
<1>7. ASSUME NEW c \in Calls, Call(c) \/ Step(c) \/ Crash(c) PROVE Kept(d)
  <2>1. CASE c # d
    BY <1>7, <2>1, <1>2, Frame DEF IInv
  <2>2. CASE c = d /\ (Call(c) \/ Check(c) \/ Query(c) \/ ReadNothing(c) \/ Refuse(c))
    BY <2>2, <1>3 DEF Call, Check, Query, ReadNothing, Refuse, Goto, FirstStep,
                      IInv, TypeOK
  <2>3. CASE c = d /\ (CasConflict(c) \/ CreateEntry(c) \/ RecordKey(c))
    BY <2>3, <1>3 DEF CasConflict, CreateEntry, RecordKey, Goto, RetryStep,
                      IInv, TypeOK
  <2>4. CASE c = d /\ CreateWallet(c) /\ WalletOf(c).present
    BY <2>4, <1>3 DEF CreateWallet, Goto, IInv, TypeOK
  <2>5. CASE c = d /\ Crash(c)
    BY <2>5, <1>2 DEF Crash
  <2> QED
    BY <1>4, <1>5, <1>6, <1>7, <2>1, <2>2, <2>3, <2>4, <2>5 DEF Step
<1>8. CASE NextDay \/ UNCHANGED vars
  BY <1>8, <1>2 DEF NextDay, vars
<1> QED
  BY <1>7, <1>8 DEF Next


LEMMA AcceptedNext ==
    ASSUME IInv, [Next]_vars
    PROVE  AcceptedOK'
<1> DEFINE Accepted(d) ==
        /\ req[d].kind = "expire" /\ pc[d] \in {"read", "cas"} => due[d] > 0
        /\ pc[d] = "cas" =>
            /\ req[d].kind \in {"deduct", "expire"} => saw[d].available > 0
            /\ req[d].kind \in {"deduct", "expire", "adjust"} =>
                  saw[d].available + Delta(d) >= 0
            /\ req[d].kind \in Crediting => Delta(d) > 0
<1>1. SUFFICES ASSUME NEW d \in Calls PROVE Accepted(d)'
  BY DEF AcceptedOK
<1>2. Accepted(d)
  BY DEF AcceptedOK, IInv
<1>3. CASE pc'[d] = pc[d] /\ req'[d] = req[d] /\ saw'[d] = saw[d] /\ due'[d] = due[d]
  BY <1>2, <1>3 DEF Delta
<1>4. CASE pc'[d] \notin {"read", "cas"}
  BY <1>4
<1>5. CASE Call(d)
  <2>1. PICK r \in Requests : /\ req' = [req EXCEPT ![d] = r]
                              /\ Goto(d, FirstStep(r.kind))
    BY <1>5 DEF Call
  <2>2. req'[d] = r /\ pc'[d] = FirstStep(r.kind)
    BY <2>1 DEF Goto, IInv, TypeOK
  <2>3. pc'[d] # "cas" /\ (r.kind = "expire" => pc'[d] = "query")
    BY <2>2 DEF FirstStep, Requested
  <2> QED
    BY <2>2, <2>3
<1>6. CASE Query(d)
  <2>1. TotalExpired(User(d)) \in Nat
    BY ExpiredTyped DEF IInv
  <2>2. due'[d] = TotalExpired(User(d))
    BY <1>6 DEF Query, IInv, TypeOK
  <2>3. pc'[d] = IF due'[d] = 0 THEN "returned" ELSE "read"
    BY <1>6, <2>2 DEF Query, Goto, IInv, TypeOK
  <2> QED
    BY <2>1, <2>2, <2>3
<1>7. CASE Check(d)
  <2>1. req[d].kind # "expire" /\ pc'[d] # "cas" /\ req'[d] = req[d]
    BY <1>7 DEF Check, At, Goto, IInv, RequestsOK, TypeOK, Requested
  <2> QED
    BY <2>1
<1>8. CASE Read(d)
  <2>1. /\ pc[d] = "read" /\ pc'[d] = "cas" /\ req'[d] = req[d]
        /\ due'[d] = due[d] /\ saw'[d] = WalletOf(d)
    BY <1>8 DEF Read, At, Goto, IInv, TypeOK
  <2>2. /\ req[d].amount \in Int /\ due[d] \in Nat /\ req[d].kind \in Kinds
        /\ WalletOf(d).available \in Int
        /\ req[d].kind \in Retrying => req[d].amount > 0
    BY <2>1, RequestFields DEF IInv, Wallet
  <2>3. req[d].kind = "expire" => due[d] > 0
    BY <1>2, <2>1
  <2>4. Delta(d)' = CASE req[d].kind = "deduct" -> -req[d].amount
                      [] req[d].kind = "expire" ->
                            -Lesser(due[d], WalletOf(d).available)
                      [] OTHER -> req[d].amount
    BY <2>1 DEF Delta
  <2>5. CASE req[d].kind = "deduct"
    <3>1. WalletOf(d).available >= req[d].amount /\ req[d].amount > 0
      BY <1>8, <2>2, <2>5 DEF Read, Accepts, Retrying
    <3> QED
      BY <2>1, <2>2, <2>4, <2>5, <3>1 DEF Crediting
  <2>6. CASE req[d].kind = "expire"
    <3>1. WalletOf(d).available > 0
      BY <1>8, <2>6 DEF Read, Accepts
    <3> QED
      BY <2>1, <2>2, <2>3, <2>4, <2>6, <3>1 DEF Lesser, Crediting
  <2>7. CASE req[d].kind \in {"adjust", "correct"}
    <3>1. req[d].kind = "adjust" => WalletOf(d).available + req[d].amount >= 0
      BY <1>8, <2>7 DEF Read, Accepts
    <3> QED
      BY <2>1, <2>2, <2>4, <2>7, <3>1 DEF Crediting
  <2>8. CASE req[d].kind \in Crediting
    BY <2>1, <2>2, <2>4, <2>8 DEF Crediting, Retrying
  <2> QED
    BY <2>2, <2>5, <2>6, <2>7, <2>8 DEF Kinds, Requested, Crediting
<1>9. CASE CreateWallet(d) /\ ~WalletOf(d).present
  <2>1. /\ pc[d] = "create" /\ pc'[d] = "cas" /\ req'[d] = req[d]
    BY <1>9 DEF CreateWallet, At, Goto, IInv, TypeOK
  <2>2. req[d].kind \in Crediting
    BY <2>1 DEF IInv, RequestsOK
  <2>3. req[d].amount > 0
    BY <2>1, <2>2, RequestFields DEF IInv, Crediting, Retrying
  <2> QED
    BY <2>1, <2>2, <2>3 DEF Delta, Crediting
<1>10. CASE CasConflict(d)
  <2>1. /\ req'[d] = req[d] /\ pc'[d] # "cas"
        /\ req[d].kind = "expire" => pc'[d] # "read"
    BY <1>10 DEF CasConflict, Goto, RetryStep, IInv, TypeOK
  <2> QED
    BY <2>1
<1>11. ASSUME NEW c \in Calls, Call(c) \/ Step(c) \/ Crash(c) PROVE Accepted(d)'
  <2>1. CASE c # d
    BY <1>11, <2>1, <1>3, Frame DEF IInv
  <2>2. CASE c = d /\ (ReadNothing(c) \/ Refuse(c))
    BY <2>2, <1>4 DEF ReadNothing, Refuse, Goto, IInv, TypeOK
  <2>3. CASE c = d /\ (Cas(c) \/ CreateEntry(c) \/ RecordKey(c))
    BY <2>3, <1>4 DEF Cas, CreateEntry, RecordKey, Goto, IInv, TypeOK
  <2>4. CASE c = d /\ CreateWallet(c) /\ WalletOf(c).present
    BY <2>4, <1>4 DEF CreateWallet, Goto, IInv, TypeOK
  <2>5. CASE c = d /\ Crash(c)
    BY <2>5, <1>3 DEF Crash
  <2> QED
    BY <1>5, <1>6, <1>7, <1>8, <1>9, <1>10, <1>11, <2>1, <2>2, <2>3, <2>4, <2>5
       DEF Step
<1>12. CASE NextDay \/ UNCHANGED vars
  BY <1>12, <1>3 DEF NextDay, vars
<1> QED
  BY <1>11, <1>12 DEF Next

LEMMA RequestsNext ==
    ASSUME IInv, [Next]_vars
    PROVE  RequestsOK'
<1> DEFINE Good(d) ==
        /\ pc[d] # "idle" => req[d] \in Requests
        /\ pc[d] = "idle" => req[d] = NoRequest
        /\ pc[d] \in {"check", "record"} => req[d].kind \in Requested
        /\ pc[d] = "query" => req[d].kind = "expire"
        /\ pc[d] = "create" => req[d].kind \in Crediting
        /\ pc[d] \in {"idle", "check", "query", "read", "create", "cas"} =>
              moved[d] = 0
        /\ req[d].kind \in Requested /\ pc[d] = "returned" => Answered(d)
        /\ earlier[d] # {} => /\ req[d].kind \in Requested /\ Answered(d)
                              /\ pc[d] \in {"check", "returned"}
                              /\ moved[d] = 0
<1>1. SUFFICES ASSUME NEW d \in Calls PROVE Good(d)'
  BY DEF RequestsOK
<1>2. Good(d)
  BY DEF RequestsOK, IInv
<1>3. CASE /\ pc'[d] = pc[d] /\ req'[d] = req[d] /\ moved'[d] = moved[d]
           /\ earlier'[d] = earlier[d] /\ records \subseteq records'
  BY <1>2, <1>3 DEF Answered, User
<1>4. CASE Call(d)
  <2>1. PICK r \in Requests : /\ req' = [req EXCEPT ![d] = r]
                              /\ Goto(d, FirstStep(r.kind))
                              /\ earlier' = [earlier EXCEPT ![d] =
                                              {e \in Twins(r) : pc[e] = "returned"}]
    BY <1>4 DEF Call
  <2>2. /\ req'[d] = r /\ pc'[d] = FirstStep(r.kind) /\ moved'[d] = 0
        /\ earlier'[d] = {e \in Twins(r) : pc[e] = "returned"}
        /\ records' = records
    BY <1>2, <1>4, <2>1 DEF Call, Goto, IInv, TypeOK
  <2>3. /\ pc'[d] \in {"check", "query", "read"}
        /\ pc'[d] = "check" <=> r.kind \in Requested
        /\ pc'[d] = "query" => r.kind = "expire"
    BY <2>2 DEF FirstStep, Requested
  <2>4. ASSUME NEW e \in earlier'[d]
        PROVE  r.kind \in Requested /\ Answered(d)'
    <3>1. /\ e \in Calls /\ pc[e] = "returned" /\ r.kind \in Requested
          /\ req[e].kind = r.kind /\ User(e) = r.user /\ req[e].key = r.key
      BY <2>2, <2>4 DEF Twins
    <3>2. Answered(e)
      BY <3>1 DEF IInv, RequestsOK
    <3> QED
      BY <2>2, <3>1, <3>2 DEF Answered, User
  <2> QED
    BY <2>2, <2>3, <2>4
<1>5. ASSUME Step(d), pc'[d] # "idle", req[d] \in Requests,
             pc'[d] \in {"check", "record"} => req[d].kind \in Requested,
             pc'[d] = "query" => req[d].kind = "expire",
             pc'[d] = "create" => req[d].kind \in Crediting,
             pc'[d] \in {"query", "read", "create", "cas"} => moved'[d] = 0,
             pc'[d] # "check",
             req[d].kind \in Requested /\ pc'[d] = "returned" => Answered(d)',
             earlier[d] # {} => pc'[d] = "returned" /\ moved'[d] = 0
      PROVE  Good(d)'
  <2>1. req' = req /\ earlier' = earlier /\ records \subseteq records'
    <3>1. ~Call(d)
      BY <1>5 DEF Call, Step, Check, Query, Read, ReadNothing, Refuse, CreateWallet,
                  Cas, CasConflict, CreateEntry, RecordKey, At
    <3> QED
      BY <1>5, <3>1, Frame DEF IInv
  <2>2. Answered(d) => Answered(d)'
    BY <2>1 DEF Answered, User
  <2> QED
    BY <1>2, <1>5, <2>1, <2>2
<1>6. pc[d] # "idle" => req[d] \in Requests
  BY <1>2
<1>7. CASE Check(d)
  BY <1>2, <1>5, <1>6, <1>7 DEF Check, At, Goto, Step, IInv, TypeOK, Answered, User
<1>8. CASE Query(d) \/ Read(d) \/ ReadNothing(d) \/ Refuse(d)
  <2>1. /\ pc[d] \in {"query", "read"} /\ moved' = moved /\ records' = records
        /\ req' = req
        /\ pc'[d] \in {"returned", "thrown", "create", "read", "cas"}
        /\ pc'[d] = "create" => req[d].kind \in Crediting
        /\ pc'[d] = "returned" => req[d].kind = "expire"
    BY <1>2, <1>8 DEF Query, Read, ReadNothing, Refuse, At, Goto, IInv, TypeOK
  <2> QED
    BY <1>2, <1>5, <1>6, <1>8, <2>1 DEF Step, Requested
<1>9. CASE CreateWallet(d) \/ Cas(d) \/ CasConflict(d)
  <2>1. /\ pc[d] \in {"create", "cas"} /\ records' = records /\ req' = req
        /\ pc'[d] \in {"thrown", "cas", "entry", "query", "read"}
        /\ pc'[d] = "query" => req[d].kind = "expire"
        /\ pc'[d] \in {"cas", "query", "read"} => moved' = moved
    BY <1>9 DEF CreateWallet, Cas, CasConflict, RetryStep, At, Goto, IInv, TypeOK
  <2> QED
    BY <1>2, <1>5, <1>6, <1>9, <2>1 DEF Step
<1>10. CASE CreateEntry(d)
  <2>1. /\ pc[d] = "entry" /\ pc'[d] \in {"record", "returned"}
        /\ pc'[d] = "record" <=> req[d].kind \in Requested
    BY <1>10 DEF CreateEntry, At, Goto, IInv, TypeOK
  <2> QED
    BY <1>2, <1>5, <1>6, <1>10, <2>1 DEF Step
<1>11. CASE RecordKey(d)
  <2>1. /\ pc[d] = "record" /\ pc'[d] \in {"thrown", "returned"} /\ req' = req
        /\ records' = records \cup {<<req[d].kind, User(d), req[d].key>>}
    BY <1>11 DEF RecordKey, At, Goto, IInv, TypeOK
  <2>2. Answered(d)'
    BY <2>1 DEF Answered, User
  <2> QED
    BY <1>2, <1>5, <1>6, <1>11, <2>1, <2>2 DEF Step
<1>12. ASSUME NEW c \in Calls, Call(c) \/ Step(c) \/ Crash(c) PROVE Good(d)'
  <2>1. CASE c # d
    BY <1>12, <2>1, <1>3, Frame DEF IInv
  <2>2. CASE c = d /\ Crash(c)
    BY <2>2, <1>3 DEF Crash
  <2> QED
    BY <1>4, <1>7, <1>8, <1>9, <1>10, <1>11, <1>12, <2>1, <2>2 DEF Step
<1>13. CASE NextDay \/ UNCHANGED vars
  BY <1>13, <1>3 DEF NextDay, vars
<1> QED
  BY <1>12, <1>13 DEF Next

LEMMA EntriesNext ==
    ASSUME IInv, [Next]_vars
    PROVE  EntriesTellHistory'
<1>1. SUFFICES ASSUME NEW x \in ledger'
               PROVE  \E v \in 1 .. (Len(balances'[x.user]) - 1) :
                          /\ balances'[x.user][v] = x.before
                          /\ balances'[x.user][v + 1] = x.after
                          /\ x.after = x.before + x.amount
  BY DEF EntriesTellHistory
<1>2. CASE x \in ledger
  <2>1. x.user \in Users
    BY <1>2 DEF IInv, TypeOK, Entry
  <2>2. PICK v \in 1 .. (Len(balances[x.user]) - 1) :
            /\ balances[x.user][v] = x.before
            /\ balances[x.user][v + 1] = x.after
            /\ x.after = x.before + x.amount
    BY <1>2 DEF IInv, EntriesTellHistory
  <2>3. /\ Len(balances[x.user]) \in Nat /\ Len(balances'[x.user]) \in Nat
        /\ Len(balances[x.user]) <= Len(balances'[x.user])
        /\ \A i \in 1 .. Len(balances[x.user]) :
              balances'[x.user][i] = balances[x.user][i]
    BY <2>1, Stable, LenProperties
  <2>4. /\ v \in 1 .. Len(balances[x.user]) /\ v + 1 \in 1 .. Len(balances[x.user])
        /\ v \in 1 .. (Len(balances'[x.user]) - 1)
    BY <2>2, <2>3
  <2> QED
    BY <2>2, <2>3, <2>4
<1>3. CASE x \notin ledger
  <2>1. PICK c \in Calls : CreateEntry(c)
    BY <1>3 DEF Next, Step, vars, Call, Check, Query, Read, ReadNothing, Refuse,
                CreateWallet, Cas, CasConflict, RecordKey, Crash, NextDay
  <2>2. /\ pc[c] = "entry" /\ balances' = balances
        /\ x.user = User(c) /\ x.amount = Delta(c)
        /\ x.before = saw[c].available /\ x.after = saw[c].available + Delta(c)
    BY <1>3, <2>1 DEF CreateEntry, At, EntryAmount
  <2>3. /\ User(c) \in Users /\ balances[User(c)] \in Seq(Int)
        /\ saw[c].version \in Nat
    BY <2>2, RequestFields DEF IInv, Wallet
  <2> DEFINE v == saw[c].version + 1
  <2>4. /\ v \in 1 .. Len(balances[User(c)]) /\ v + 1 \in 1 .. Len(balances[User(c)])
        /\ balances[User(c)][v] = saw[c].available
        /\ balances[User(c)][v + 1] = saw[c].available + Delta(c)
    BY <2>2 DEF IInv, SawOK
  <2>5. v \in 1 .. (Len(balances[User(c)]) - 1)
    BY <2>3, <2>4, LenProperties
  <2> HIDE DEF v
  <2> QED
    BY <2>2, <2>4, <2>5
<1> QED
  BY <1>2, <1>3

-----------------------------------------------------------------------------
(* The ledger explains the wallet.                                          *)

\* A call that adds an entry is past it when it has.
LEMMA NewEntryFacts ==
    ASSUME TypeOK, NEW c \in Calls, CreateEntry(c)
    PROVE  /\ pc[c] = "entry" /\ pc'[c] \in {"record", "returned"}
           /\ UNCHANGED <<wallets, today, locals, moved, balances>>
           /\ ledger' # ledger =>
                 \E e : /\ e \notin ledger /\ ledger' = ledger \cup {e}
                        /\ e.key = KeyOf(c) /\ e.transaction = c
                        /\ e.user = User(c) /\ e.amount = Delta(c)
                        /\ e.before = saw[c].available
                        /\ e.after = saw[c].available + Delta(c)
           /\ \E x \in ledger' : x.key = KeyOf(c)
<1>1. /\ pc[c] = "entry" /\ pc'[c] \in {"record", "returned"}
      /\ UNCHANGED <<wallets, today, locals, moved, balances>>
  BY DEF CreateEntry, At, Goto, TypeOK
<1>2. CASE \E x \in ledger : x.key = KeyOf(c)
  BY <1>1, <1>2 DEF CreateEntry
<1>3. CASE ~ \E x \in ledger : x.key = KeyOf(c)
  <2> DEFINE e == [key |-> KeyOf(c), transaction |-> c, user |-> User(c),
                   amount |-> EntryAmount(c), before |-> saw[c].available,
                   after |-> saw[c].available + Delta(c),
                   expires |-> req[c].expires]
  <2>1. ledger' = ledger \cup {e}
    BY <1>3 DEF CreateEntry
  <2>2. /\ e.key = KeyOf(c) /\ e.transaction = c
        /\ e.user = User(c) /\ e.amount = Delta(c)
        /\ e.before = saw[c].available /\ e.after = saw[c].available + Delta(c)
    BY DEF EntryAmount
  <2> HIDE DEF e
  <2>3. e \notin ledger
    BY <1>3, <2>2
  <2> QED
    BY <1>1, <2>1, <2>2, <2>3
<1> QED
  BY <1>2, <1>3

\* Only createEntry adds to the ledger, and nothing takes from it.
LEMMA LedgerWriters ==
    ASSUME [Next]_vars
    PROVE  ledger' = ledger \/ \E c \in Calls : CreateEntry(c)
BY DEF Next, Step, vars, Call, Check, Query, Read, ReadNothing, Refuse, CreateWallet,
       Cas, CasConflict, RecordKey, Crash, NextDay

LEMMA LedgerGrows ==
    ASSUME [Next]_vars
    PROVE  ledger \subseteq ledger'
BY LedgerWriters DEF CreateEntry

\* A compare-and-set changes something.
LEMMA DeltaNotZero ==
    ASSUME IInv, NEW c \in Calls, pc[c] = "cas"
    PROVE  Delta(c) # 0
<1>1. /\ req[c].kind \in Kinds /\ req[c].amount \in Int
      /\ req[c].kind \in Retrying => req[c].amount > 0
      /\ req[c].kind # "expire" => req[c].amount # 0
      /\ due[c] \in Nat /\ saw[c].available \in Int
  BY RequestFields DEF IInv, Wallet
<1>2. req[c].kind = "expire" => due[c] > 0 /\ saw[c].available > 0
  BY DEF IInv, AcceptedOK
<1> QED
  BY <1>1, <1>2 DEF Delta, Lesser, Kinds, Retrying

\* What a call has moved is what it is about to record.
MovedOK(c) == pc[c] = "entry" => moved[c] = Delta(c) /\ moved[c] # 0

LEMMA MovedNext ==
    ASSUME IInv, [Next]_vars, NEW d \in Calls, MovedOK(d)
    PROVE  MovedOK(d)'
<1> SUFFICES ASSUME pc'[d] = "entry" PROVE moved'[d] = Delta(d)' /\ moved'[d] # 0
  BY DEF MovedOK
<1>1. CASE /\ pc'[d] = pc[d] /\ req'[d] = req[d] /\ saw'[d] = saw[d]
           /\ due'[d] = due[d] /\ moved'[d] = moved[d]
  BY <1>1 DEF MovedOK, Delta
<1>2. CASE Cas(d)
  <2>1. moved'[d] = Delta(d) /\ Delta(d) # 0
    BY <1>2, CasEffect, DeltaNotZero
  <2>2. Delta(d)' = Delta(d)
    BY <1>2 DEF Cas, Delta
  <2> QED
    BY <2>1, <2>2
<1>3. ASSUME NEW c \in Calls, Call(c) \/ Step(c) \/ Crash(c)
      PROVE  moved'[d] = Delta(d)' /\ moved'[d] # 0
  <2>1. CASE c # d
    BY <1>1, <1>3, <2>1, Frame DEF IInv
  <2>2. CASE c = d /\ Crash(c)
    BY <1>1, <2>2 DEF Crash
  <2>3. ~Call(d) /\ ~Check(d) /\ ~Query(d) /\ ~Read(d) /\ ~ReadNothing(d)
        /\ ~Refuse(d) /\ ~CreateWallet(d) /\ ~CasConflict(d) /\ ~CreateEntry(d)
        /\ ~RecordKey(d)
    BY DEF Call, FirstStep, Check, Query, Read, ReadNothing, Refuse, CreateWallet,
           CasConflict, RetryStep, CreateEntry, RecordKey, Goto, IInv, TypeOK
  <2> QED
    BY <1>2, <1>3, <2>1, <2>2, <2>3 DEF Step
<1>4. CASE NextDay \/ UNCHANGED vars
  BY <1>1, <1>4 DEF NextDay, vars
<1> QED
  BY <1>3, <1>4 DEF Next

\* A call stays past createEntry.
LEMMA PastNext ==
    ASSUME IInv, [Next]_vars, NEW d \in Calls, pc[d] \in {"record"} \cup Finished
    PROVE  pc'[d] \in {"record"} \cup Finished
<1>1. CASE pc'[d] = pc[d]
  BY <1>1
<1>2. ASSUME NEW c \in Calls, Call(c) \/ Step(c) \/ Crash(c)
      PROVE  pc'[d] \in {"record"} \cup Finished
  <2>1. CASE c # d
    BY <1>1, <1>2, <2>1, Frame DEF IInv
  <2>2. CASE c = d /\ Crash(c)
    BY <1>1, <2>2 DEF Crash
  <2>3. CASE c = d /\ RecordKey(c)
    BY <2>3 DEF RecordKey, Goto, Finished, IInv, TypeOK
  <2>4. ~Call(d) /\ ~Check(d) /\ ~Query(d) /\ ~Read(d) /\ ~ReadNothing(d)
        /\ ~Refuse(d) /\ ~CreateWallet(d) /\ ~Cas(d) /\ ~CasConflict(d)
        /\ ~CreateEntry(d)
    BY DEF Call, Check, Query, Read, ReadNothing, Refuse, CreateWallet, Cas,
           CasConflict, CreateEntry, At, Finished
  <2> QED
    BY <1>2, <2>1, <2>2, <2>3, <2>4 DEF Step
<1>3. CASE NextDay \/ UNCHANGED vars
  BY <1>1, <1>3 DEF NextDay, vars
<1> QED
  BY <1>2, <1>3 DEF Next

LEMMA AccountsNext ==
    ASSUME IInv, AccountsOK, [Next]_vars
    PROVE  AccountsOK'
<1>1. ASSUME NEW u \in Users, ~wallets'[u].present PROVE wallets'[u].available = 0
  <2>1. CASE wallets' = wallets
    BY <1>1, <2>1 DEF AccountsOK
  <2>2. ASSUME NEW c \in Calls, CreateWallet(c), ~WalletOf(c).present
        PROVE  wallets'[u].available = 0
    <3>1. wallets' = [wallets EXCEPT ![User(c)] = NewWallet]
      BY <2>2 DEF CreateWallet
    <3>2. CASE u = User(c)
      BY <1>1, <3>1, <3>2 DEF NewWallet, IInv, TypeOK
    <3>3. CASE u # User(c)
      BY <1>1, <3>1, <3>3 DEF AccountsOK, IInv, TypeOK
    <3> QED
      BY <3>2, <3>3
  <2>3. ASSUME NEW c \in Calls, Cas(c)
        PROVE  wallets'[u].available = 0
    <3>1. /\ wallets' = [wallets EXCEPT ![User(c)] =
                            Written(wallets[User(c)], Delta(c))]
          /\ wallets[User(c)].present
      BY <2>3, CasEffect
    <3>2. CASE u = User(c)
      BY <1>1, <3>1, <3>2 DEF Written, IInv, TypeOK
    <3>3. CASE u # User(c)
      BY <1>1, <3>1, <3>3 DEF AccountsOK, IInv, TypeOK
    <3> QED
      BY <3>2, <3>3
  <2> QED
    BY <2>1, <2>2, <2>3, Writers DEF vars, IInv
<1>2. \A c \in Calls : MovedOK(c)'
  BY MovedNext DEF AccountsOK, MovedOK
<1>3. ASSUME NEW x \in ledger' PROVE pc'[x.transaction] \in {"record"} \cup Finished
  <2>1. CASE x \in ledger
    <3>1. PICK d : d = x.transaction
      OBVIOUS
    <3>2. d \in Calls /\ pc[d] \in {"record"} \cup Finished
      BY <2>1, <3>1 DEF AccountsOK, IInv, TypeOK, Entry
    <3> QED
      BY <3>1, <3>2, PastNext
  <2>2. CASE x \notin ledger
    <3>1. PICK c \in Calls : CreateEntry(c)
      BY <2>2, LedgerWriters
    <3>2. x.transaction = c /\ pc'[c] \in {"record", "returned"}
      BY <2>2, <3>1, NewEntryFacts DEF IInv
    <3> QED
      BY <3>2 DEF Finished
  <2> QED
    BY <2>1, <2>2
<1> QED
  BY <1>1, <1>2, <1>3 DEF AccountsOK, MovedOK

\* The sums of a user are integers.
LEMMA SumsTyped ==
    ASSUME TypeOK, NEW u \in Users
    PROVE  /\ Opening(u) \in Int /\ Posted(u) \in Int /\ Pending(u) \in Int
           /\ \A c \in Calls : Unrecorded(c, u) \in Int
<1>1. Opening(u) \in Int
  <2>1. balances[u] \in Seq(Int)
    BY DEF TypeOK
  <2> QED
    BY <2>1, HeadTailProperties DEF Opening
<1>2. \A c \in Calls : Unrecorded(c, u) \in Int
  BY DEF Unrecorded, TypeOK
<1>3. Posted(u) \in Int
  <2> DEFINE P == {x \in ledger : x.user = u}
             F == [x \in P |-> x.amount]
  <2>1. IsFiniteSet(P)
    BY FS_Subset DEF TypeOK
  <2>2. \A x \in P : F[x] \in Int
    BY DEF TypeOK, Entry
  <2>3. Posted(u) = SumFunctionOnSet(F, P)
    BY DEF Posted, SumFunction
  <2> HIDE DEF P, F
  <2> QED
    BY <2>1, <2>2, <2>3, SumType
<1>4. Pending(u) \in Int
  <2> DEFINE G == [c \in Calls |-> Unrecorded(c, u)]
  <2>1. Pending(u) = SumFunctionOnSet(G, Calls)
    BY DEF Pending, SumFunction
  <2>2. \A c \in Calls : G[c] \in Int
    BY <1>2
  <2> HIDE DEF G
  <2> QED
    BY <2>1, <2>2, SumType, CallsAssumption
<1> QED
  BY <1>1, <1>2, <1>3, <1>4

\* A new entry adds its amount to what its user has posted.
LEMMA PostedAdded ==
    ASSUME TypeOK, TypeOK', NEW u \in Users,
           NEW e, e \notin ledger, ledger' = ledger \cup {e}
    PROVE  Posted(u)' = Posted(u) + IF e.user = u THEN e.amount ELSE 0
<1> DEFINE P == {x \in ledger : x.user = u}
           Q == {x \in ledger' : x.user = u}
           F == [x \in P |-> x.amount]
           G == [x \in Q |-> x.amount]
<1>1. /\ Posted(u) = SumFunctionOnSet(F, P) /\ Posted(u)' = SumFunctionOnSet(G, Q)
      /\ IsFiniteSet(P) /\ \A x \in Q : G[x] \in Int
  BY FS_Subset DEF Posted, SumFunction, TypeOK, Entry
<1>2. \A x \in P : G[x] = F[x]
  OBVIOUS
<1>3. Posted(u) \in Int
  BY SumsTyped
<1>4. CASE e.user # u
  <2>1. Q = P
    BY <1>4
  <2> HIDE DEF P, Q, F, G
  <2> QED
    BY <1>1, <1>2, <1>3, <1>4, <2>1, SumEqual
<1>5. CASE e.user = u
  <2>1. Q = P \cup {e} /\ e \notin P /\ G[e] = e.amount
    BY <1>5
  <2> HIDE DEF P, Q, F, G
  <2>2. SumFunctionOnSet(G, P) = SumFunctionOnSet(F, P)
    BY <1>1, <1>2, SumEqual
  <2>3. SumFunctionOnSet(G, P \cup {e}) = G[e] + SumFunctionOnSet(G, P)
    BY <1>1, <2>1, SumAdd
  <2>4. e.amount \in Int
    BY <1>1, <2>1
  <2> QED
    BY <1>1, <1>3, <1>5, <2>1, <2>2, <2>3, <2>4
<1> QED
  BY <1>4, <1>5

\* What one call changes of what is pending for a user.
LEMMA PendingChanged ==
    ASSUME TypeOK, TypeOK', NEW u \in Users, NEW c \in Calls,
           \A d \in Calls \ {c} : Unrecorded(d, u)' = Unrecorded(d, u)
    PROVE  Pending(u)' = Pending(u) + Unrecorded(c, u)' - Unrecorded(c, u)
<1> DEFINE F == [d \in Calls |-> Unrecorded(d, u)]
           G == [d \in Calls |-> Unrecorded(d, u)']
<1>1. Pending(u) = SumFunctionOnSet(F, Calls) /\ Pending(u)' = SumFunctionOnSet(G, Calls)
  BY DEF Pending, SumFunction
<1>2. \A d \in Calls : F[d] \in Int /\ G[d] \in Int
  BY DEF Unrecorded, TypeOK
<1>3. \A d \in Calls \ {c} : G[d] = F[d]
  OBVIOUS
<1>4. F[c] = Unrecorded(c, u) /\ G[c] = Unrecorded(c, u)'
  OBVIOUS
<1> HIDE DEF F, G
<1> QED
  BY <1>1, <1>2, <1>3, <1>4, SumChange, CallsAssumption

\* A step of a call leaves what the other calls have not recorded.
LEMMA UnrecordedFrame ==
    ASSUME TypeOK, NEW c \in Calls, Call(c) \/ Step(c) \/ Crash(c),
           NEW d \in Calls \ {c}, NEW u \in Users
    PROVE  Unrecorded(d, u)' = Unrecorded(d, u)
<1>1. req'[d] = req[d] /\ moved'[d] = moved[d]
  BY Frame
<1>2. (\A x \in ledger' : x.transaction # d) <=> (\A x \in ledger : x.transaction # d)
  <2>1. CASE ledger' = ledger
    BY <2>1
  <2>2. CASE CreateEntry(c)
    <3>1. \A x \in ledger' : x \in ledger \/ x.transaction = c
      BY <2>2, NewEntryFacts
    <3>2. ledger \subseteq ledger'
      BY <2>2 DEF CreateEntry
    <3> QED
      BY <3>1, <3>2
  <2>3. ledger' = ledger \/ CreateEntry(c)
    BY DEF Step, Call, Check, Query, Read, ReadNothing, Refuse, CreateWallet,
           Cas, CasConflict, RecordKey, Crash
  <2> QED
    BY <2>1, <2>2, <2>3
<1> QED
  BY <1>1, <1>2 DEF Unrecorded, User

\* A call that has not got past createEntry has no entry.
LEMMA NoEntryYet ==
    ASSUME AccountsOK, NEW c \in Calls, pc[c] \notin {"record"} \cup Finished
    PROVE  \A x \in ledger : x.transaction # c
BY DEF AccountsOK

\* The wallet of a user changes by what is posted and what becomes pending.
Balanced(u) == wallets[u].available = Opening(u) + Posted(u) + Pending(u)

\* Steps that write neither wallet nor ledger.
LEMMA QuietBalanced ==
    ASSUME IInv, TypeOK', NEW c \in Calls, Call(c) \/ Step(c) \/ Crash(c),
           UNCHANGED <<wallets, balances, ledger, moved>>,
           NEW u \in Users, Balanced(u)
    PROVE  Balanced(u)'
<1>1. Unrecorded(c, u)' = Unrecorded(c, u)
  <2>1. CASE Call(c)
    <3>1. moved[c] = 0
      BY <2>1 DEF Call, IInv, RequestsOK
    <3> QED
      BY <3>1 DEF Unrecorded
  <2>2. CASE ~Call(c)
    <3>1. req' = req
      BY <2>2, Frame DEF IInv
    <3> QED
      BY <3>1 DEF Unrecorded, User
  <2> QED
    BY <2>1, <2>2
<1>2. Pending(u)' = Pending(u) + Unrecorded(c, u)' - Unrecorded(c, u)
  BY UnrecordedFrame, PendingChanged DEF IInv
<1>3. Pending(u) \in Int /\ Unrecorded(c, u) \in Int
  BY SumsTyped DEF IInv
<1>4. Pending(u)' = Pending(u)
  BY <1>1, <1>2, <1>3
<1>5. Opening(u)' = Opening(u) /\ Posted(u)' = Posted(u)
  BY DEF Opening, Posted
<1> QED
  BY <1>4, <1>5 DEF Balanced

\* A wallet is created with nothing in it.
LEMMA CreateWalletBalanced ==
    ASSUME IInv, AccountsOK, TypeOK', NEW c \in Calls, CreateWallet(c),
           ~WalletOf(c).present, NEW u \in Users, Balanced(u)
    PROVE  Balanced(u)'
<1>1. /\ wallets' = [wallets EXCEPT ![User(c)] = NewWallet]
      /\ balances' = [balances EXCEPT ![User(c)] = <<0>>]
      /\ UNCHANGED <<ledger, moved, req>>
  BY DEF CreateWallet
<1>2. /\ Posted(u)' = Posted(u)
      /\ \A d \in Calls : Unrecorded(d, u)' = Unrecorded(d, u)
  BY <1>1 DEF Posted, Unrecorded, User
<1>3. Pending(u)' = Pending(u)
  <2>1. Pending(u)' = Pending(u) + Unrecorded(c, u)' - Unrecorded(c, u)
    BY <1>2, PendingChanged DEF IInv
  <2>2. Pending(u) \in Int /\ Unrecorded(c, u) \in Int
    BY SumsTyped DEF IInv
  <2> QED
    BY <1>2, <2>1, <2>2
<1>4. wallets'[u].available = wallets[u].available /\ Opening(u)' = Opening(u)
  <2>1. CASE u = User(c)
    <3>1. ~wallets[u].present
      BY <2>1 DEF WalletOf
    <3>2. wallets[u].available = 0 /\ balances[u] = <<>>
      BY <3>1 DEF AccountsOK, IInv, WalletsOK
    <3>3. wallets'[u].available = 0 /\ balances'[u] = <<0>>
      BY <1>1, <2>1 DEF NewWallet, IInv, TypeOK
    <3>4. <<0>> # <<>> /\ Head(<<0>>) = 0
      OBVIOUS
    <3> QED
      BY <3>2, <3>3, <3>4 DEF Opening
  <2>2. CASE u # User(c)
    BY <1>1, <2>2 DEF Opening, IInv, TypeOK
  <2> QED
    BY <2>1, <2>2
<1> QED
  BY <1>2, <1>3, <1>4 DEF Balanced

\* The first balance of a history stays.
LEMMA HeadOfAppend ==
    ASSUME NEW b \in Seq(Int), NEW n \in Int, b # <<>>
    PROVE  Append(b, n) # <<>> /\ Head(Append(b, n)) = Head(b)
<1>1. /\ Append(b, n) \in Seq(Int) /\ Len(Append(b, n)) = Len(b) + 1
      /\ \A i \in 1 .. Len(b) : Append(b, n)[i] = b[i]
  BY AppendProperties
<1>2. Len(b) \in Nat /\ Len(b) # 0
  BY EmptySeq, LenProperties
<1>3. Append(b, n) # <<>> /\ 1 \in 1 .. Len(b)
  BY <1>1, <1>2, EmptySeq
<1> QED
  BY <1>1, <1>3, HeadTailProperties

\* What a compare-and-set adds to the wallet is pending until it is recorded.
LEMMA CasBalanced ==
    ASSUME IInv, AccountsOK, TypeOK', NEW c \in Calls, Cas(c),
           NEW u \in Users, Balanced(u)
    PROVE  Balanced(u)'
<1>1. /\ pc[c] = "cas" /\ moved[c] = 0 /\ moved'[c] = Delta(c) /\ Delta(c) \in Int
      /\ UNCHANGED <<ledger, req>>
  BY CasEffect DEF Cas, IInv, RequestsOK
<1>2. \A x \in ledger : x.transaction # c
  BY <1>1, NoEntryYet DEF Finished
<1>3. Pending(u)' = Pending(u) + Unrecorded(c, u)' - Unrecorded(c, u)
  BY UnrecordedFrame, PendingChanged DEF IInv, Step
<1>4. /\ Unrecorded(c, u) = 0
      /\ Unrecorded(c, u)' = IF u = User(c) THEN Delta(c) ELSE 0
  BY <1>1, <1>2 DEF Unrecorded, User
<1>5. Posted(u)' = Posted(u)
  BY <1>1 DEF Posted
<1>6. /\ Opening(u) \in Int /\ Posted(u) \in Int /\ Pending(u) \in Int
      /\ wallets[u].available \in Int
  BY SumsTyped DEF IInv, TypeOK, Wallet
<1>7. /\ Opening(u)' = Opening(u)
      /\ wallets'[u].available = wallets[u].available
                                   + IF u = User(c) THEN Delta(c) ELSE 0
  <2>1. /\ balances' = [balances EXCEPT ![User(c)] =
             Append(balances[User(c)], wallets[User(c)].available + Delta(c))]
        /\ wallets' = [wallets EXCEPT ![User(c)] = Written(wallets[User(c)], Delta(c))]
        /\ balances[User(c)] \in Seq(Int) /\ wallets[User(c)].present
        /\ wallets[User(c)] \in Wallet /\ User(c) \in Users
    BY CasEffect
  <2>2. CASE u = User(c)
    <3>1. /\ balances'[u] = Append(balances[u], wallets[u].available + Delta(c))
          /\ wallets'[u] = Written(wallets[u], Delta(c))
      BY <2>1, <2>2 DEF IInv, TypeOK
    <3>2. balances[u] # <<>> /\ wallets[u].available + Delta(c) \in Int
      BY <1>1, <1>6, <2>1, <2>2 DEF IInv, WalletsOK
    <3>3. Opening(u)' = Opening(u)
      BY <2>1, <2>2, <3>1, <3>2, HeadOfAppend DEF Opening
    <3> QED
      BY <2>1, <2>2, <3>1, <3>3 DEF Written
  <2>3. CASE u # User(c)
    BY <1>6, <2>1, <2>3 DEF Opening, IInv, TypeOK
  <2> QED
    BY <2>2, <2>3
<1>8. CASE u = User(c)
  BY <1>1, <1>3, <1>4, <1>5, <1>6, <1>7, <1>8 DEF Balanced
<1>9. CASE u # User(c)
  BY <1>3, <1>4, <1>5, <1>6, <1>7, <1>9 DEF Balanced
<1> QED
  BY <1>8, <1>9

\* A new entry posts what was pending; a key that is taken leaves it pending.
LEMMA CreateEntryBalanced ==
    ASSUME IInv, AccountsOK, TypeOK', NEW c \in Calls, CreateEntry(c),
           NEW u \in Users, Balanced(u)
    PROVE  Balanced(u)'
<1>1. /\ pc[c] = "entry" /\ UNCHANGED <<wallets, locals, moved, balances>>
      /\ moved[c] = Delta(c)
  BY NewEntryFacts DEF IInv, AccountsOK
<1>2. \A x \in ledger : x.transaction # c
  BY <1>1, NoEntryYet DEF Finished
<1>3. CASE ledger' = ledger
  BY <1>1, <1>3, QuietBalanced DEF Step
<1>4. CASE ledger' # ledger
  <2>1. PICK e : /\ e \notin ledger /\ ledger' = ledger \cup {e}
                 /\ e.transaction = c /\ e.user = User(c) /\ e.amount = Delta(c)
    BY <1>4, NewEntryFacts DEF IInv
  <2>2. Pending(u)' = Pending(u) + Unrecorded(c, u)' - Unrecorded(c, u)
    BY UnrecordedFrame, PendingChanged DEF IInv, Step
  <2>3. /\ Unrecorded(c, u) = IF u = User(c) THEN Delta(c) ELSE 0
        /\ Unrecorded(c, u)' = 0
    BY <1>1, <1>2, <2>1 DEF Unrecorded, User
  <2>4. Posted(u)' = Posted(u) + IF u = User(c) THEN Delta(c) ELSE 0
    BY <2>1, PostedAdded DEF IInv
  <2>5. /\ Opening(u) \in Int /\ Posted(u) \in Int /\ Pending(u) \in Int
        /\ Delta(c) \in Int
    BY <1>1, SumsTyped, DeltaTyped DEF IInv
  <2>6. Opening(u)' = Opening(u) /\ wallets'[u] = wallets[u]
    BY <1>1 DEF Opening
  <2>7. CASE u = User(c)
    BY <2>2, <2>3, <2>4, <2>5, <2>6, <2>7 DEF Balanced
  <2>8. CASE u # User(c)
    BY <2>2, <2>3, <2>4, <2>5, <2>6, <2>8 DEF Balanced
  <2> QED
    BY <2>7, <2>8
<1> QED
  BY <1>3, <1>4

LEMMA BalancedNext ==
    ASSUME IInv, AccountsOK, [Next]_vars, NEW u \in Users, Balanced(u)
    PROVE  Balanced(u)'
<1>0. TypeOK'
  BY TypeNext DEF IInv
<1>1. ASSUME NEW c \in Calls, Call(c) \/ Step(c) \/ Crash(c) PROVE Balanced(u)'
  <2>1. CASE Cas(c)
    BY <1>0, <2>1, CasBalanced
  <2>2. CASE CreateEntry(c)
    BY <1>0, <2>2, CreateEntryBalanced
  <2>3. CASE CreateWallet(c) /\ ~WalletOf(c).present
    BY <1>0, <2>3, CreateWalletBalanced
  <2>4. CASE UNCHANGED <<wallets, balances, ledger, moved>>
    BY <1>0, <1>1, <2>4, QuietBalanced
  <2> QED
    BY <1>1, <2>1, <2>2, <2>3, <2>4
       DEF Step, Call, Check, Query, Read, ReadNothing, Refuse, CreateWallet,
           CasConflict, RecordKey, Crash
<1>2. CASE NextDay \/ UNCHANGED vars
  BY <1>2 DEF NextDay, vars, Balanced, Opening, Posted, Pending, Unrecorded, User
<1> QED
  BY <1>1, <1>2 DEF Next

\* A change that its call will not record has an entry under the call's key.
Covered(c) == moved[c] # 0 /\ req[c].kind # "expire"
                /\ pc[c] \in {"record"} \cup Finished
              => \E x \in ledger : x.key = KeyOf(c)

LEMMA CoveredNext ==
    ASSUME IInv, [Next]_vars, NEW d \in Calls, Covered(d)
    PROVE  Covered(d)'
<1> SUFFICES ASSUME moved'[d] # 0, req'[d].kind # "expire",
                    pc'[d] \in {"record"} \cup Finished
             PROVE  \E x \in ledger' : x.key = KeyOf(d)'
  BY DEF Covered
<1>1. CASE pc'[d] = pc[d] /\ req'[d] = req[d] /\ moved'[d] = moved[d]
  <2>1. KeyOf(d)' = KeyOf(d)
    BY <1>1 DEF KeyOf, User
  <2>2. \E x \in ledger : x.key = KeyOf(d)
    BY <1>1 DEF Covered
  <2> QED
    BY <2>1, <2>2, LedgerGrows
<1>2. CASE CreateEntry(d)
  <2>1. KeyOf(d)' = KeyOf(d)
    BY <1>2 DEF CreateEntry, KeyOf, User
  <2> QED
    BY <1>2, <2>1, NewEntryFacts DEF IInv
<1>3. CASE RecordKey(d)
  <2>1. KeyOf(d)' = KeyOf(d) /\ moved' = moved /\ req' = req /\ pc[d] = "record"
    BY <1>3 DEF RecordKey, At, KeyOf, User
  <2>2. \E x \in ledger : x.key = KeyOf(d)
    BY <2>1 DEF Covered
  <2> QED
    BY <2>1, <2>2, LedgerGrows
<1>4. ASSUME NEW c \in Calls, Call(c) \/ Step(c) \/ Crash(c)
      PROVE  \E x \in ledger' : x.key = KeyOf(d)'
  <2>1. CASE c # d
    BY <1>1, <1>4, <2>1, Frame DEF IInv
  <2>2. CASE c = d /\ Crash(c)
    BY <1>1, <2>2 DEF Crash
  <2>3. ~Call(d) /\ ~Read(d) /\ ~Cas(d)
    BY DEF Call, FirstStep, Read, Cas, Goto, Finished, IInv, TypeOK
  <2>4. ~Check(d) /\ ~Query(d) /\ ~ReadNothing(d) /\ ~Refuse(d)
        /\ ~CreateWallet(d) /\ ~CasConflict(d)
    BY DEF Check, Query, ReadNothing, Refuse, CreateWallet, CasConflict,
           At, IInv, RequestsOK
  <2> QED
    BY <1>2, <1>3, <1>4, <2>1, <2>2, <2>3, <2>4 DEF Step
<1>5. CASE NextDay \/ UNCHANGED vars
  BY <1>1, <1>5 DEF NextDay, vars
<1> QED
  BY <1>4, <1>5 DEF Next

LEMMA ExplainsNext ==
    ASSUME IInv, AccountsOK, LedgerExplainsWallet, [Next]_vars
    PROVE  LedgerExplainsWallet'
<1>1. \A u \in Users : Balanced(u)'
  BY BalancedNext DEF LedgerExplainsWallet, Balanced
<1>2. \A c \in Calls : Covered(c)'
  BY CoveredNext DEF LedgerExplainsWallet, Covered
<1> QED
  BY <1>1, <1>2 DEF LedgerExplainsWallet, Balanced, Covered

-----------------------------------------------------------------------------
(* Theorems.                                                                *)

LEMMA InvInit == Init => IInv
<1> SUFFICES ASSUME Init PROVE IInv
  OBVIOUS
<1>1. TypeOK
  BY TypeInit
<1>2. WalletsOK
  <2>1. /\ <<InitialBalance>> # <<>> /\ Len(<<InitialBalance>>) = 1
        /\ <<InitialBalance>>[1] = InitialBalance
    OBVIOUS
  <2>2. ASSUME NEW u \in Users
        PROVE  \/ wallets[u] = NoWallet /\ balances[u] = <<>>
               \/ wallets[u] = OldWallet /\ balances[u] = <<InitialBalance>>
    BY DEF Init, NoWallet, OldWallet
  <2>3. ASSUME NEW u \in Users
        PROVE  /\ wallets[u].present <=> balances[u] # <<>>
               /\ wallets[u].present =>
                     /\ Len(balances[u]) = wallets[u].version + 1
                     /\ balances[u][Len(balances[u])] = wallets[u].available
    <3>1. CASE wallets[u] = NoWallet /\ balances[u] = <<>>
      BY <3>1 DEF NoWallet
    <3>2. CASE wallets[u] = OldWallet /\ balances[u] = <<InitialBalance>>
      BY <2>1, <3>2 DEF OldWallet
    <3> QED
      BY <2>2, <3>1, <3>2
  <2> QED
    BY <2>3 DEF WalletsOK
<1>3. SawOK /\ AcceptedOK
  BY DEF Init, SawOK, AcceptedOK
<1>4. RequestsOK
  BY DEF Init, RequestsOK, NoRequest, Requested
<1>5. EntriesTellHistory
  BY DEF Init, EntriesTellHistory
<1> QED
  BY <1>1, <1>2, <1>3, <1>4, <1>5 DEF IInv

LEMMA InvNext == IInv /\ [Next]_vars => IInv'
BY TypeNext, WalletsNext, SawNext, AcceptedNext, RequestsNext, EntriesNext
   DEF IInv

\* The inductive invariant: what a call has read and written stands side by side
\* in the history of the wallet.
THEOREM Invariant == Spec => []IInv
<1>1. Init => IInv
  BY InvInit
<1>2. IInv /\ [Next]_vars => IInv'
  BY InvNext
<1> QED
  BY <1>1, <1>2, PTL DEF Spec

\* Every variable keeps its type, and no award or deduction (awardPoints,
\* deductFromAvailable) exceeds its retries.
THEOREM TypeCorrect == Spec => []TypeOK
<1>1. IInv => TypeOK
  BY DEF IInv
<1> QED
  BY <1>1, Invariant, PTL

\* The entries createEntry stores tell balances the wallet really had, one after
\* the other, although they are written two awaits after the read.
THEOREM EntriesCorrect == Spec => []EntriesTellHistory
<1>1. IInv => EntriesTellHistory
  BY DEF IInv
<1> QED
  BY <1>1, Invariant, PTL

\* A request to the controller that is repeated after its answer moves nothing
\* (checkKey before the operation, recordKey before the answer).
THEOREM RepeatMovesNothing == Spec => []RepeatIsAnswered
<1>1. IInv => RepeatIsAnswered
  BY DEF IInv, RequestsOK, RepeatIsAnswered
<1> QED
  BY <1>1, Invariant, PTL

\* Only correctBalance makes a balance negative or more negative: the version
\* filter makes every other check hold of the balance that is written.
THEOREM OnlyCorrectionsGoNegative == Spec => NegativeOnlyByCorrection
<1> DEFINE Allowed ==
        \A u \in Users :
         wallets'[u].available < 0 =>
            \/ wallets'[u].available >= wallets[u].available
            \/ \E c \in Calls : /\ req[c].kind = "correct" /\ User(c) = u
                                /\ moved'[c] # moved[c]
<1>1. IInv /\ [Next]_vars => Allowed
  <2> SUFFICES ASSUME IInv, [Next]_vars, NEW u \in Users,
                      wallets'[u].available < 0
               PROVE  \/ wallets'[u].available >= wallets[u].available
                      \/ \E c \in Calls : /\ req[c].kind = "correct" /\ User(c) = u
                                          /\ moved'[c] # moved[c]
    OBVIOUS
  <2>1. wallets[u].available \in Int /\ wallets'[u].available \in Int
    BY TypeNext DEF IInv, TypeOK, Wallet
  <2>2. CASE wallets'[u] = wallets[u]
    BY <2>1, <2>2
  <2>3. ASSUME NEW c \in Calls, CreateWallet(c), ~WalletOf(c).present
        PROVE  wallets'[u] = wallets[u]
    BY <2>3 DEF CreateWallet, NewWallet, IInv, TypeOK
  <2>4. ASSUME NEW c \in Calls, Cas(c), wallets'[u] # wallets[u]
        PROVE  \/ wallets'[u].available >= wallets[u].available
               \/ /\ req[c].kind = "correct" /\ User(c) = u
                  /\ moved'[c] # moved[c]
    <3>1. /\ User(c) = u /\ pc[c] = "cas" /\ moved'[c] = Delta(c)
          /\ saw[c].available = wallets[u].available /\ Delta(c) \in Int
          /\ wallets'[u].available = wallets[u].available + Delta(c)
      <4>1. /\ wallets' = [wallets EXCEPT ![User(c)] =
                             Written(wallets[User(c)], Delta(c))]
            /\ pc[c] = "cas" /\ moved'[c] = Delta(c) /\ Delta(c) \in Int
            /\ saw[c].available = wallets[User(c)].available
        BY <2>4, CasEffect
      <4>2. User(c) = u
        BY <2>4, <4>1 DEF IInv, TypeOK
      <4> QED
        BY <4>1, <4>2 DEF Written, IInv, TypeOK
    <3>2. SUFFICES ASSUME Delta(c) < 0 PROVE req[c].kind = "correct" /\ moved[c] = 0
      BY <2>1, <3>1
    <3>3. req[c].kind \in Kinds /\ moved[c] = 0
      BY <3>1, RequestFields DEF IInv, RequestsOK
    <3>4. ~(saw[c].available + Delta(c) >= 0)
      BY <2>1, <3>1
    <3>5. CASE req[c].kind \in {"deduct", "expire", "adjust"}
      BY <3>1, <3>4, <3>5 DEF IInv, AcceptedOK
    <3>6. CASE req[c].kind \in Crediting
      <4>1. Delta(c) > 0
        BY <3>1, <3>6 DEF IInv, AcceptedOK
      <4> QED
        BY <3>1, <3>2, <4>1
    <3> QED
      BY <3>3, <3>5, <3>6 DEF Kinds, Requested, Crediting
  <2> QED
    BY <2>2, <2>3, <2>4, Writers DEF vars, IInv
<1>2. Spec => [][Allowed]_vars
  BY <1>1, Invariant, PTL DEF Spec
<1> QED
  BY <1>2 DEF NegativeOnlyByCorrection

LEMMA AccountedInit == Init => AccountsOK /\ LedgerExplainsWallet
<1> SUFFICES ASSUME Init PROVE AccountsOK /\ LedgerExplainsWallet
  OBVIOUS
<1>1. TypeOK
  BY TypeInit
<1>2. ASSUME NEW u \in Users
      PROVE  /\ ~wallets[u].present => wallets[u].available = 0
             /\ wallets[u].available = Opening(u)
  <2>1. /\ <<InitialBalance>> # <<>> /\ Head(<<InitialBalance>>) = InitialBalance
    OBVIOUS
  <2>2. \/ wallets[u] = NoWallet /\ balances[u] = <<>>
        \/ wallets[u] = OldWallet /\ balances[u] = <<InitialBalance>>
    BY DEF Init, NoWallet, OldWallet
  <2>3. CASE wallets[u] = NoWallet /\ balances[u] = <<>>
    BY <2>3 DEF NoWallet, Opening
  <2>4. CASE wallets[u] = OldWallet /\ balances[u] = <<InitialBalance>>
    BY <2>1, <2>4 DEF OldWallet, Opening
  <2> QED
    BY <2>2, <2>3, <2>4
<1>3. ASSUME NEW u \in Users PROVE Posted(u) = 0 /\ Pending(u) = 0
  <2> DEFINE P == {x \in ledger : x.user = u}
             F == [x \in P |-> x.amount]
             G == [c \in Calls |-> Unrecorded(c, u)]
  <2>1. P = {}
    BY DEF Init
  <2>2. Posted(u) = SumFunctionOnSet(F, P) /\ Pending(u) = SumFunctionOnSet(G, Calls)
    BY DEF Posted, Pending, SumFunction
  <2>3. \A c \in Calls : G[c] = 0
    BY DEF Init, Unrecorded
  <2> HIDE DEF P, F, G
  <2> QED
    BY <2>1, <2>2, <2>3, SumEmpty, SumZero, CallsAssumption
<1>4. \A u \in Users : wallets[u].available = Opening(u) + Posted(u) + Pending(u)
  <2> SUFFICES ASSUME NEW u \in Users
               PROVE  wallets[u].available = Opening(u) + Posted(u) + Pending(u)
    OBVIOUS
  <2>1. Opening(u) \in Int
    BY <1>1, SumsTyped
  <2> QED
    BY <1>2, <1>3, <2>1
<1>5. AccountsOK
  BY <1>2 DEF Init, AccountsOK
<1> QED
  BY <1>4, <1>5 DEF LedgerExplainsWallet, Init

\* The inductive invariant of the accounts: the wallet, its ledger and what the
\* calls have written and not yet recorded add up at every await.
THEOREM AccountsInvariant == Spec => []Accounted
<1>1. Init => Accounted
  BY InvInit, AccountedInit DEF Accounted
<1>2. Accounted /\ [Next]_vars => Accounted'
  BY InvNext, AccountsNext, ExplainsNext DEF Accounted
<1> QED
  BY <1>1, <1>2, PTL DEF Spec

\* Awards, deductions, expirations and adjustments: a balance is what it began
\* with plus the user's ledger entries plus the changes of calls without an
\* entry, and a call past createEntry lacks one only for a taken key.
THEOREM LedgerExplains == Spec => []LedgerExplainsWallet
<1>1. Accounted => LedgerExplainsWallet
  BY DEF Accounted
<1> QED
  BY <1>1, AccountsInvariant, PTL


-----------------------------------------------------------------------------
(* The operations implement AtomicPoints.                                   *)

\* A change that was made is not made otherwise later.
LEMMA ChangeKept ==
    ASSUME IInv, [Next]_vars, NEW d \in Calls, moved[d] # 0
    PROVE  moved'[d] = moved[d] /\ ChangeOf(d)' = ChangeOf(d)
<1>1. pc[d] \in {"entry", "record"} \cup Finished
  BY DEF IInv, RequestsOK, TypeOK, Steps, Finished
<1>2. req'[d] = req[d] /\ saw'[d] = saw[d] /\ moved'[d] = moved[d]
  <2>1. ASSUME NEW c \in Calls, Call(c) \/ Step(c) \/ Crash(c)
        PROVE  req'[d] = req[d] /\ saw'[d] = saw[d] /\ moved'[d] = moved[d]
    <3>1. CASE c # d
      BY <2>1, <3>1, Frame DEF IInv
    <3>2. CASE c = d /\ (Crash(c) \/ CreateEntry(c) \/ RecordKey(c))
      BY <3>2 DEF Crash, CreateEntry, RecordKey
    <3>3. ~Call(d) /\ ~Check(d) /\ ~Query(d) /\ ~Read(d) /\ ~ReadNothing(d)
          /\ ~Refuse(d) /\ ~CreateWallet(d) /\ ~Cas(d) /\ ~CasConflict(d)
      BY <1>1 DEF Call, Check, Query, Read, ReadNothing, Refuse, CreateWallet, Cas,
                  CasConflict, At, Finished
    <3> QED
      BY <2>1, <3>1, <3>2, <3>3 DEF Step
  <2>2. CASE NextDay \/ UNCHANGED vars
    BY <2>2 DEF NextDay, vars
  <2> QED
    BY <2>1, <2>2 DEF Next
<1> QED
  BY <1>2 DEF ChangeOf, User

LEMMA ChangesKept ==
    ASSUME IInv, [Next]_vars, moved' = moved
    PROVE  Changes' = Changes
<1>1. \A d \in Calls : moved[d] # 0 => ChangeOf(d)' = ChangeOf(d)
  BY ChangeKept
<1> QED
  BY <1>1 DEF Changes

\* What an entry tells does not change: its call keeps its request.
LEMMA ToldKept ==
    ASSUME IInv, AccountsOK, [Next]_vars, NEW x \in ledger
    PROVE  Told(x)' = Told(x)
<1>1. PICK d \in Calls : d = x.transaction /\ pc[d] \in {"record"} \cup Finished
  BY DEF AccountsOK, IInv, TypeOK, Entry
<1>2. req'[d] = req[d]
  <2>1. ASSUME NEW c \in Calls, Call(c) \/ Step(c) \/ Crash(c)
        PROVE  req'[d] = req[d]
    <3>1. ~Call(d)
      BY <1>1 DEF Call, Finished
    <3> QED
      BY <2>1, <3>1, Frame DEF IInv
  <2>2. CASE NextDay \/ UNCHANGED vars
    BY <2>2 DEF NextDay, vars
  <2> QED
    BY <2>1, <2>2 DEF Next
<1> QED
  BY <1>1, <1>2 DEF Told

LEMMA LogKept ==
    ASSUME IInv, AccountsOK, [Next]_vars, ledger' = ledger
    PROVE  Log' = Log
<1>1. \A x \in ledger : Told(x)' = Told(x)
  BY ToldKept
<1> QED
  BY <1>1 DEF Log


\* The wallet getOrCreate inserts is empty.
LEMMA CreateWalletOpens ==
    ASSUME Accounted, [Next]_vars, NEW c \in Calls,
           CreateWallet(c), ~WalletOf(c).present
    PROVE  \E u \in Users : Atomic!Open(u)
<1>1. PICK w \in Users : w = User(c)
  BY RequestFields DEF CreateWallet, At, Accounted, IInv
<1>2. /\ wallets' = [wallets EXCEPT ![w] = NewWallet]
      /\ ledger' = ledger /\ moved' = moved
  BY <1>1 DEF CreateWallet
<1>3. ~wallets[w].present /\ wallets[w].available = 0
  BY <1>1 DEF WalletOf, Accounted, AccountsOK
<1>4. /\ wallets'[w].present /\ wallets'[w].available = 0
      /\ \A u \in Users \ {w} : wallets'[u] = wallets[u]
  BY <1>1, <1>2 DEF NewWallet, Accounted, IInv, TypeOK
<1>5. {u \in Users : wallets'[u].present} =
        {u \in Users : wallets[u].present} \cup {w}
  BY <1>1, <1>4
<1>6. [u \in Users |-> wallets'[u].available] = [u \in Users |-> wallets[u].available]
  BY <1>1, <1>3, <1>4
<1>7. Changes' = Changes /\ Log' = Log
  BY <1>2, ChangesKept, LogKept DEF Accounted
<1>8. Atomic!Open(w)
  BY <1>1, <1>3, <1>5, <1>6, <1>7 DEF Atomic!Open
<1> QED
  BY <1>8

\* A compare-and-set that matches is one change of the current balance.
LEMMA CasApplies ==
    ASSUME Accounted, [Next]_vars, NEW c \in Calls, Cas(c)
    PROVE  \E x \in Changes' \ Changes : Atomic!Apply(x)
<1> DEFINE u == User(c)
           w == wallets[u]
<1>0. PICK x : x = [call |-> c, kind |-> req[c].kind, user |-> u,
                    before |-> w.available, amount |-> Delta(c),
                    after |-> w.available + Delta(c)]
  OBVIOUS
<1>1. /\ pc[c] = "cas" /\ u \in Users /\ w \in Wallet /\ w.present
      /\ saw[c].available = w.available /\ Delta(c) \in Int
      /\ moved'[c] = Delta(c) /\ Delta(c) # 0
      /\ wallets' = [wallets EXCEPT ![u] = Written(w, Delta(c))]
  BY CasEffect, DeltaNotZero DEF Accounted
<1>2. moved[c] = 0 /\ req[c].kind \in Kinds
  BY <1>1, RequestFields DEF Accounted, IInv, RequestsOK
<1>3. /\ req' = req /\ saw' = saw /\ ledger' = ledger
      /\ \A d \in Calls \ {c} : moved'[d] = moved[d]
  BY DEF Cas, Accounted, IInv, TypeOK
<1>4. ChangeOf(c)' = x
  BY <1>0, <1>1, <1>3 DEF ChangeOf, User
<1>5. w.available \in Int
  BY <1>1 DEF Wallet
<1>6. x \in Atomic!Change
  BY <1>0, <1>1, <1>2, <1>5 DEF Atomic!Change
<1>7. x.after >= 0 \/ x.amount > 0 \/ x.kind \in {"correct"}
  <2>1. CASE req[c].kind \in {"deduct", "expire", "adjust"}
    BY <1>0, <1>1, <2>1 DEF Accounted, IInv, AcceptedOK
  <2>2. CASE req[c].kind \in Crediting
    <3>1. Delta(c) > 0
      BY <1>1, <2>2 DEF Accounted, IInv, AcceptedOK
    <3> QED
      BY <1>0, <3>1
  <2>3. CASE req[c].kind = "correct"
    BY <1>0, <2>3
  <2> QED
    BY <1>2, <2>1, <2>2, <2>3 DEF Kinds, Requested, Crediting
<1>8. \A y \in Changes : y.call # c
  BY <1>2 DEF Changes, ChangeOf
<1>9. Changes' = Changes \cup {x}
  <2>1. \A d \in Calls : moved[d] # 0 => moved'[d] # 0 /\ ChangeOf(d)' = ChangeOf(d)
    BY ChangeKept DEF Accounted
  <2>2. \A d \in Calls : moved'[d] # 0 <=> d = c \/ moved[d] # 0
    BY <1>1, <1>3, <2>1
  <2> QED
    BY <1>4, <2>1, <2>2 DEF Changes
<1>10. x \notin Changes
  BY <1>0, <1>8
<1>11. /\ wallets'[u].present /\ wallets'[u].available = w.available + Delta(c)
       /\ \A v \in Users \ {u} : wallets'[v] = wallets[v]
  BY <1>1, WrittenTyped DEF Accounted, IInv, TypeOK
<1>12. {v \in Users : wallets'[v].present} = {v \in Users : wallets[v].present}
  BY <1>1, <1>11
<1>13. [v \in Users |-> wallets'[v].available] =
         [[v \in Users |-> wallets[v].available] EXCEPT ![x.user] = x.after]
  <2>1. \A v \in Users : wallets'[v].available =
          IF v = x.user THEN x.after ELSE wallets[v].available
    BY <1>0, <1>11
  <2> QED
    BY <2>1
<1>14. Log' = Log
  BY <1>3, LogKept DEF Accounted
<1>15. Atomic!Apply(x)
  <2>1. /\ x.call = c /\ x.user = u /\ x.before = w.available
        /\ x.amount = Delta(c) /\ x.after = w.available + Delta(c)
    BY <1>0
  <2> QED
    BY <1>1, <1>6, <1>7, <1>8, <1>9, <1>12, <1>13, <1>14, <2>1 DEF Atomic!Apply
<1>16. x \in Changes' \ Changes
  BY <1>9, <1>10
<1> QED
  BY <1>15, <1>16

\* An entry that is added tells the change of its own call, under a new key.
LEMMA CreateEntryRecords ==
    ASSUME Accounted, [Next]_vars, NEW c \in Calls, CreateEntry(c), ledger' # ledger
    PROVE  \E e \in Log' \ Log : Atomic!Record(e)
<1>1. PICK e : /\ e \notin ledger /\ ledger' = ledger \cup {e}
               /\ e.key = KeyOf(c) /\ e.transaction = c
               /\ e.user = User(c) /\ e.amount = Delta(c)
               /\ e.before = saw[c].available
               /\ e.after = saw[c].available + Delta(c)
  BY NewEntryFacts DEF Accounted, IInv
<1>2. /\ pc[c] = "entry" /\ UNCHANGED <<wallets, req, saw, moved>>
      /\ moved[c] = Delta(c)
  BY NewEntryFacts DEF Accounted, IInv, AccountsOK
<1>3. \A x \in ledger : x.key # KeyOf(c) /\ x.transaction # c
  <2>1. \A x \in ledger : x.transaction # c
    BY <1>2, NoEntryYet DEF Accounted, Finished
  <2>2. ~ \E x \in ledger : x.key = KeyOf(c)
    BY <1>1 DEF CreateEntry
  <2> QED
    BY <2>1, <2>2
<1> DEFINE f == [key |-> KeyOf(c), change |-> ChangeOf(c)]
<1>4. Told(e) = ChangeOf(c)
  BY <1>1, <1>2 DEF Told, ChangeOf
<1>5. \A x \in ledger : Told(x)' = Told(x)
  BY ToldKept DEF Accounted
<1>6. Told(e)' = Told(e)
  BY <1>2 DEF Told
<1>7. Log' = Log \cup {f}
  BY <1>1, <1>4, <1>5, <1>6 DEF Log
<1>8. ChangeOf(c) \in Changes
  <2>1. moved[c] # 0
    BY <1>2 DEF Accounted, AccountsOK
  <2> QED
    BY <2>1 DEF Changes
<1>9. KeyOf(c) \in LedgerKey
  BY <1>2, KeyTyped DEF Accounted, IInv
<1>10. \A g \in Log : g.key # f.key /\ g.change # f.change
  BY <1>3 DEF Log, Told, ChangeOf
<1>11. Changes' = Changes
  BY <1>2, ChangesKept DEF Accounted
<1>12. Atomic!Record(f)
  BY <1>2, <1>7, <1>8, <1>9, <1>10, <1>11 DEF Atomic!Record
<1> HIDE DEF f
<1> QED
  BY <1>7, <1>10, <1>12


LEMMA InitAtomic == Init => Atomic!Init
<1> SUFFICES ASSUME Init PROVE Atomic!Init
  OBVIOUS
<1>1. \A u \in Users : wallets[u] = NoWallet \/ wallets[u] = OldWallet
  BY DEF Init
<1>2. /\ [u \in Users |-> wallets[u].available] \in [Users -> Nat]
      /\ \A u \in Users \ {v \in Users : wallets[v].present} :
            [v \in Users |-> wallets[v].available][u] = 0
  BY <1>1, BalanceAssumption DEF NoWallet, OldWallet
<1>3. Changes = {} /\ Log = {}
  BY DEF Init, Changes, Log
<1> QED
  BY <1>2, <1>3 DEF Atomic!Init

\* A step that makes no change and adds no entry shows nothing.
LEMMA QuietStutters ==
    ASSUME Accounted, [Next]_vars, UNCHANGED <<wallets, ledger, moved>>
    PROVE  UNCHANGED Atomic!vars
<1>1. Changes' = Changes /\ Log' = Log
  BY ChangesKept, LogKept DEF Accounted
<1> QED
  BY <1>1 DEF Atomic!vars

LEMMA NextAtomic ==
    ASSUME Accounted, [Next]_vars
    PROVE  [Atomic!Next]_(Atomic!vars)
<1>1. ASSUME NEW c \in Calls, Call(c) \/ Step(c) \/ Crash(c)
      PROVE  [Atomic!Next]_(Atomic!vars)
  <2>1. CASE CreateWallet(c) /\ ~WalletOf(c).present
    BY <2>1, CreateWalletOpens DEF Atomic!Next
  <2>2. CASE Cas(c)
    BY <2>2, CasApplies DEF Atomic!Next
  <2>3. CASE CreateEntry(c) /\ ledger' # ledger
    BY <2>3, CreateEntryRecords DEF Atomic!Next
  <2>4. CASE UNCHANGED <<wallets, ledger, moved>>
    BY <2>4, QuietStutters
  <2> QED
    BY <1>1, <2>1, <2>2, <2>3, <2>4
       DEF Step, Call, Check, Query, Read, ReadNothing, Refuse, CreateWallet,
           CasConflict, CreateEntry, RecordKey, Crash
<1>2. CASE NextDay \/ UNCHANGED vars
  BY <1>2, QuietStutters DEF NextDay, vars
<1> QED
  BY <1>1, <1>2 DEF Next

\* Awards, deductions, expirations, adjustments and corrections implement
\* AtomicPoints: each is one change of the balance as it stands, and perhaps one
\* entry that tells it, although it reads, compares and sets, and records in
\* awaits of their own.
THEOREM PointsRefinement == Spec => ImplementsAtomicPoints
<1>1. Init => Atomic!Init
  BY InitAtomic
<1>2. Accounted /\ [Next]_vars => [Atomic!Next]_(Atomic!vars)
  BY NextAtomic
<1> QED
  BY <1>1, <1>2, AccountsInvariant, PTL
     DEF Spec, ImplementsAtomicPoints, Atomic!Spec
==============================================================================
