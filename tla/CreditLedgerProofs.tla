------------------------- MODULE CreditLedgerProofs -------------------------
(***************************************************************************)
(* The ledger for every set of accounts, tasks and amounts and every bound: *)
(* facts about sums, the ledger's invariants, the rows of credit_freezes    *)
(* step by step, and that CreditLedger implements Reservation.              *)
(***************************************************************************)
EXTENDS CreditLedgerContract, WellFoundedInduction, TLAPS

(***************************************************************************)
(* Facts about Sum.  The induction theorems of the library take an operator *)
(* as a parameter; here induction is stated over sets of numbers and        *)
(* follows from the well-foundedness of < on Nat.                           *)
(***************************************************************************)
\* Every non-empty set of naturals has a least element.
LEMMA LeastNatural ==
  ASSUME NEW T, T \subseteq Nat, T # {}
  PROVE  \E m \in T : \A k \in T : m <= k
<1>1. IsWellFoundedOn(OpToRel(<, Nat), Nat)
  BY NatLessThanWellFounded
<1>2. \A x, y \in Nat : x < y => <<x, y>> \in OpToRel(<, Nat)
  BY DEF OpToRel
<1>3. PICK R : /\ IsWellFoundedOn(R, Nat)
               /\ \A x, y \in Nat : x < y => <<x, y>> \in R
  BY <1>1, <1>2, Zenon
<1>4. \A Q, S : IsWellFoundedOn(Q, S) =>
        \A X : X \subseteq S /\ X # {} =>
          \E x \in X : \A y \in X : ~ (<<y, x>> \in Q)
  BY WFMin
<1>5. \A X : X \subseteq Nat /\ X # {} =>
        \E x \in X : \A y \in X : ~ (<<y, x>> \in R)
  BY <1>3, <1>4
<1>6. PICK x \in T : \A y \in T : ~ (<<y, x>> \in R)
  BY <1>5
<1>7. ASSUME NEW y \in T PROVE x <= y
  <2>1. ~ (y < x)
    BY <1>3, <1>6
  <2>2. QED
    BY <2>1
<1>8. QED
  BY <1>7

\* Induction on 0..n, with the induction predicate given as a set.
LEMMA IntervalInduction ==
  ASSUME NEW n \in Nat, NEW S,
         0 \in S,
         \A k \in 0..n : k \in S /\ k < n => k + 1 \in S
  PROVE  n \in S /\ \A k \in 0..n : k \in S
<1> DEFINE Rest == {k \in 0..n : k \notin S}
<1>1. SUFFICES ASSUME Rest # {} PROVE FALSE
  OBVIOUS
<1>2. PICK m \in Rest : \A k \in Rest : m <= k
  <2>1. Rest \subseteq Nat
    OBVIOUS
  <2>2. QED
    BY <1>1, <2>1, LeastNatural
<1>3. m # 0 /\ m - 1 \in 0..n /\ m - 1 < n
  BY <1>2
<1>4. m - 1 \in S
  BY <1>2, <1>3
<1>5. m \in S
  <2>1. (m - 1) + 1 \in S
    BY <1>3, <1>4
  <2>2. QED
    BY <2>1, <1>2
<1>6. QED
  BY <1>2, <1>5

Recurrence(g, f, n) ==
  g = [k \in 0..n |-> IF k = 0 THEN 0 ELSE g[k - 1] + f[k]]

\* The recursive definition of PartialSums has a solution.
LEMMA RecurrenceSolvable ==
  ASSUME NEW n \in Nat, NEW f \in [1..n -> Int]
  PROVE  \E g : Recurrence(g, f, n)
<1> DEFINE Solves(g, m) ==
             /\ g \in [0..m -> Int]
             /\ g[0] = 0
             /\ \A k \in 1..m : g[k] = g[k - 1] + f[k]
           S == {m \in 0..n : \E g \in [0..m -> Int] : Solves(g, m)}
<1>1. 0 \in S
  <2> DEFINE z == [k \in 0..0 |-> 0]
  <2>1. z \in [0..0 -> Int] /\ z[0] = 0 /\ \A k \in 1..0 : z[k] = z[k - 1] + f[k]
    OBVIOUS
  <2> HIDE DEF z
  <2>2. \E g \in [0..0 -> Int] : Solves(g, 0)
    BY <2>1
  <2>3. QED
    BY <2>2
<1>2. ASSUME NEW m \in 0..n, m \in S, m < n PROVE m + 1 \in S
  <2>1. PICK g \in [0..m -> Int] : Solves(g, m)
    BY <1>2
  <2> DEFINE h == [k \in 0..(m + 1) |-> IF k = m + 1 THEN g[m] + f[m + 1] ELSE g[k]]
  <2>2. h \in [0..(m + 1) -> Int]
    <3>1. m + 1 \in 1..n /\ m \in 0..m
      BY <1>2
    <3>2. \A k \in 0..(m + 1) : k # m + 1 => k \in 0..m
      BY <1>2
    <3>3. QED
      BY <2>1, <3>1, <3>2
  <2>3. h[m + 1] = g[m] + f[m + 1] /\ \A k \in 0..m : h[k] = g[k]
    BY <1>2
  <2> HIDE DEF h
  <2>4. h[0] = 0
    BY <1>2, <2>1, <2>3
  <2>5. ASSUME NEW k \in 1..(m + 1) PROVE h[k] = h[k - 1] + f[k]
    <3>1. CASE k = m + 1
      <4>1. k - 1 = m /\ m \in 0..m
        BY <1>2, <3>1
      <4>2. QED
        BY <2>3, <3>1, <4>1
    <3>2. CASE k # m + 1
      <4>1. k \in 1..m /\ k \in 0..m /\ k - 1 \in 0..m
        BY <1>2, <2>5, <3>2
      <4>2. QED
        BY <2>1, <2>3, <4>1
    <3>3. QED
      BY <3>1, <3>2
  <2>6. \E e \in [0..(m + 1) -> Int] : Solves(e, m + 1)
    BY <2>2, <2>4, <2>5
  <2>7. m + 1 \in 0..n
    BY <1>2
  <2>8. QED
    BY <2>6, <2>7
<1>3. n \in S
  <2> HIDE DEF S
  <2>1. \A k \in 0..n : k \in S
    BY <1>1, <1>2, IntervalInduction
  <2>2. QED
    BY <2>1
<1>4. PICK g \in [0..n -> Int] : Solves(g, n)
  BY <1>3
<1>5. g = [k \in 0..n |-> IF k = 0 THEN 0 ELSE g[k - 1] + f[k]]
  BY <1>4
<1>6. QED
  BY <1>5 DEF Recurrence

\* The partial sums satisfy their recurrence and are integers.
LEMMA PartialSumsProperties ==
  ASSUME NEW n \in Nat, NEW f \in [1..n -> Int]
  PROVE  /\ PartialSums(f, n) \in [0..n -> Int]
         /\ PartialSums(f, n)[0] = 0
         /\ \A k \in 1..n : PartialSums(f, n)[k] = PartialSums(f, n)[k - 1] + f[k]
<1> DEFINE s == PartialSums(f, n)
<1>1. s = CHOOSE g : Recurrence(g, f, n)
  BY DEF PartialSums, Recurrence
<1>2. Recurrence(s, f, n)
  BY <1>1, RecurrenceSolvable
<1>3. s = [k \in 0..n |-> IF k = 0 THEN 0 ELSE s[k - 1] + f[k]]
  BY <1>2 DEF Recurrence
<1> HIDE DEF s
<1>4. s[0] = 0
  BY <1>3
<1>5. \A k \in 1..n : s[k] = s[k - 1] + f[k]
  BY <1>3
<1> DEFINE S == {k \in 0..n : s[k] \in Int}
<1>6. 0 \in S
  BY <1>4
<1>7. \A k \in 0..n : k \in S /\ k < n => k + 1 \in S
  <2>1. SUFFICES ASSUME NEW k \in 0..n, k \in S, k < n PROVE k + 1 \in S
    OBVIOUS
  <2>2. k + 1 \in 1..n /\ (k + 1) - 1 = k
    BY <2>1
  <2>3. s[k + 1] = s[k] + f[k + 1]
    BY <1>5, <2>2
  <2>4. QED
    BY <2>1, <2>2, <2>3
<1>8. \A k \in 0..n : s[k] \in Int
  <2>1. \A k \in 0..n : k \in S
    <3> HIDE DEF S
    <3>1. QED
      BY <1>6, <1>7, IntervalInduction
  <2>2. QED
    BY <2>1
<1>9. s \in [0..n -> Int]
  BY <1>3, <1>8
<1>10. QED
  BY <1>4, <1>5, <1>9 DEF s

\* A sum of integers is an integer.
LEMMA SumType ==
  ASSUME NEW n \in Nat, NEW f \in [1..n -> Int]
  PROVE  Sum(f, n) \in Int
BY PartialSumsProperties DEF Sum

\* Changing one term changes the sum by the difference.
LEMMA SumUpdate ==
  ASSUME NEW n \in Nat, NEW f \in [1..n -> Int], NEW h \in [1..n -> Int],
         NEW j \in 1..n,
         \A k \in 1..n : k # j => h[k] = f[k]
  PROVE  Sum(h, n) = Sum(f, n) - f[j] + h[j]
<1> DEFINE s == PartialSums(f, n)
           t == PartialSums(h, n)
<1>1. /\ s \in [0..n -> Int]
      /\ s[0] = 0
      /\ \A k \in 1..n : s[k] = s[k - 1] + f[k]
  BY PartialSumsProperties
<1>2. /\ t \in [0..n -> Int]
      /\ t[0] = 0
      /\ \A k \in 1..n : t[k] = t[k - 1] + h[k]
  BY PartialSumsProperties
<1>3. Sum(h, n) = t[n] /\ Sum(f, n) = s[n]
  BY DEF Sum
<1> HIDE DEF s, t
<1> DEFINE S == {k \in 0..n : t[k] = s[k] + (IF k < j THEN 0 ELSE h[j] - f[j])}
<1>4. 0 \in S
  BY <1>1, <1>2
<1>5. \A k \in 0..n : k \in S /\ k < n => k + 1 \in S
  <2>1. SUFFICES ASSUME NEW k \in 0..n, k \in S, k < n PROVE k + 1 \in S
    OBVIOUS
  <2>2. k + 1 \in 1..n /\ (k + 1) - 1 = k
    BY <2>1
  <2>3. s[k + 1] = s[k] + f[k + 1] /\ t[k + 1] = t[k] + h[k + 1]
    BY <1>1, <1>2, <2>2
  <2>4. /\ s[k] \in Int /\ t[k] \in Int
        /\ f[k + 1] \in Int /\ h[k + 1] \in Int
        /\ f[j] \in Int /\ h[j] \in Int
    BY <1>1, <1>2, <2>2
  <2>5. t[k] = s[k] + (IF k < j THEN 0 ELSE h[j] - f[j])
    BY <2>1
  <2>6. CASE k + 1 = j
    <3>1. t[k] = s[k] /\ ~ (k + 1 < j)
      BY <2>1, <2>4, <2>5, <2>6
    <3>2. t[k + 1] = s[k + 1] + (h[j] - f[j])
      BY SMTT(60), <2>3, <2>4, <2>6, <3>1
    <3>3. QED
      BY <2>2, <3>1, <3>2
  <2>7. CASE k + 1 # j
    <3>1. h[k + 1] = f[k + 1]
      BY <2>2, <2>7
    <3>2. (k < j) <=> (k + 1 < j)
      BY <2>1, <2>7
    <3>3. t[k + 1] = s[k + 1] + (IF k + 1 < j THEN 0 ELSE h[j] - f[j])
      BY SMTT(60), <2>3, <2>4, <2>5, <3>1, <3>2
    <3>4. QED
      BY <2>2, <3>3
  <2>8. QED
    BY <2>6, <2>7
<1>6. n \in S
  <2> HIDE DEF S
  <2>1. QED
    BY <1>4, <1>5, IntervalInduction
<1>7. f[j] \in Int /\ h[j] \in Int /\ s[n] \in Int /\ ~ (n < j)
  BY <1>1
<1>8. QED
  BY <1>3, <1>6, <1>7

\* A sum of naturals is at least each of its terms, and not negative.
LEMMA SumBounds ==
  ASSUME NEW n \in Nat, NEW f \in [1..n -> Nat]
  PROVE  /\ Sum(f, n) \in Nat
         /\ \A j \in 1..n : f[j] <= Sum(f, n)
<1> DEFINE s == PartialSums(f, n)
<1>1. f \in [1..n -> Int]
  OBVIOUS
<1>2. /\ s \in [0..n -> Int]
      /\ s[0] = 0
      /\ \A k \in 1..n : s[k] = s[k - 1] + f[k]
  BY <1>1, PartialSumsProperties
<1>3. Sum(f, n) = s[n]
  BY DEF Sum
<1> HIDE DEF s
<1> DEFINE S == {k \in 0..n : s[k] >= 0 /\ \A j \in 1..k : f[j] <= s[k]}
<1>4. 0 \in S
  BY <1>2
<1>5. \A k \in 0..n : k \in S /\ k < n => k + 1 \in S
  <2>1. SUFFICES ASSUME NEW k \in 0..n, k \in S, k < n PROVE k + 1 \in S
    OBVIOUS
  <2>2. k + 1 \in 1..n /\ (k + 1) - 1 = k
    BY <2>1
  <2>3. s[k + 1] = s[k] + f[k + 1] /\ s[k] \in Int /\ f[k + 1] \in Nat
    BY <1>2, <2>2
  <2>4. ASSUME NEW j \in 1..(k + 1) PROVE f[j] <= s[k + 1]
    <3>1. j \in 1..n /\ f[j] \in Nat
      BY <2>1, <2>4
    <3>2. CASE j = k + 1
      BY <2>1, <2>3, <3>1, <3>2
    <3>3. CASE j # k + 1
      <4>1. j \in 1..k
        BY <2>4, <3>3
      <4>2. QED
        BY <2>1, <2>3, <3>1, <4>1
    <3>4. QED
      BY <3>2, <3>3
  <2>5. s[k + 1] >= 0
    BY <2>1, <2>3
  <2>6. QED
    BY <2>2, <2>4, <2>5
<1>6. n \in S
  <2> HIDE DEF S
  <2>1. QED
    BY <1>4, <1>5, IntervalInduction
<1>7. QED
  BY <1>2, <1>3, <1>6

\* A sum of zeros is zero.
LEMMA SumZero ==
  ASSUME NEW n \in Nat, NEW f \in [1..n -> Int], \A k \in 1..n : f[k] = 0
  PROVE  Sum(f, n) = 0
<1> DEFINE s == PartialSums(f, n)
<1>1. /\ s[0] = 0
      /\ \A k \in 1..n : s[k] = s[k - 1] + f[k]
  BY PartialSumsProperties
<1>2. Sum(f, n) = s[n]
  BY DEF Sum
<1> HIDE DEF s
<1> DEFINE S == {k \in 0..n : s[k] = 0}
<1>3. 0 \in S
  BY <1>1
<1>4. \A k \in 0..n : k \in S /\ k < n => k + 1 \in S
  <2>1. SUFFICES ASSUME NEW k \in 0..n, k \in S, k < n PROVE k + 1 \in S
    OBVIOUS
  <2>2. k + 1 \in 1..n /\ (k + 1) - 1 = k
    BY <2>1
  <2>3. QED
    BY <1>1, <2>1, <2>2
<1>5. n \in S
  <2> HIDE DEF S
  <2>1. QED
    BY <1>3, <1>4, IntervalInduction
<1>6. QED
  BY <1>2, <1>5

-----------------------------------------------------------------------------
(***************************************************************************)
(* The ledger's invariants.                                                 *)
(***************************************************************************)
LEMMA PartsType ==
  ASSUME TypeOK, NEW a \in Accounts
  PROVE  AccountPart(a) \in [1..MaxFreezes -> Nat] /\ GiftPart(a) \in [1..MaxFreezes -> Nat]
BY DEF TypeOK, Freeze, AccountPart, GiftPart, FreezeIds

\* When one row changes, the points held change by what that row holds.
LEMMA HeldUpdate ==
  ASSUME TypeOK, TypeOK', NEW a \in Accounts, NEW i \in FreezeIds,
         \A j \in FreezeIds : j # i => freezes'[j] = freezes[j]
  PROVE  /\ HeldAccountPoints(a)' =
              HeldAccountPoints(a) - AccountPart(a)[i] + AccountPart(a)'[i]
         /\ HeldGiftPoints(a)' =
              HeldGiftPoints(a) - GiftPart(a)[i] + GiftPart(a)'[i]
<1>1. MaxFreezes \in Nat /\ i \in 1..MaxFreezes
  BY LedgerAssumption DEF FreezeIds
<1>2. /\ AccountPart(a) \in [1..MaxFreezes -> Int]
      /\ GiftPart(a) \in [1..MaxFreezes -> Int]
  BY PartsType
<1>3. /\ AccountPart(a)' \in [1..MaxFreezes -> Int]
      /\ GiftPart(a)' \in [1..MaxFreezes -> Int]
  BY DEF TypeOK, Freeze, AccountPart, GiftPart, FreezeIds
<1>4. \A j \in 1..MaxFreezes : j # i =>
        /\ AccountPart(a)'[j] = AccountPart(a)[j]
        /\ GiftPart(a)'[j] = GiftPart(a)[j]
  BY DEF AccountPart, GiftPart, FreezeIds, HeldOf, Active
<1>5. QED
  <2>1. Sum(AccountPart(a)', MaxFreezes) =
          Sum(AccountPart(a), MaxFreezes) - AccountPart(a)[i] + AccountPart(a)'[i]
    BY <1>1, <1>2, <1>3, <1>4, SumUpdate
  <2>2. Sum(GiftPart(a)', MaxFreezes) =
          Sum(GiftPart(a), MaxFreezes) - GiftPart(a)[i] + GiftPart(a)'[i]
    BY <1>1, <1>2, <1>3, <1>4, SumUpdate
  <2>3. QED
    BY <2>1, <2>2 DEF HeldAccountPoints, HeldGiftPoints

\* Points held are a natural number, at least what any one row holds.
LEMMA HeldBounds ==
  ASSUME TypeOK, NEW a \in Accounts
  PROVE  /\ HeldAccountPoints(a) \in Nat
         /\ HeldGiftPoints(a) \in Nat
         /\ \A i \in FreezeIds : HeldOf(a, i) =>
              /\ freezes[i].account_amount <= HeldAccountPoints(a)
              /\ freezes[i].gift_amount <= HeldGiftPoints(a)
<1>1. AccountPart(a) \in [1..MaxFreezes -> Nat] /\ GiftPart(a) \in [1..MaxFreezes -> Nat]
  BY PartsType
<1>2. MaxFreezes \in Nat
  BY LedgerAssumption
<1>3. /\ HeldAccountPoints(a) \in Nat
      /\ \A i \in 1..MaxFreezes : AccountPart(a)[i] <= HeldAccountPoints(a)
  BY <1>1, <1>2, SumBounds DEF HeldAccountPoints
<1>4. /\ HeldGiftPoints(a) \in Nat
      /\ \A i \in 1..MaxFreezes : GiftPart(a)[i] <= HeldGiftPoints(a)
  BY <1>1, <1>2, SumBounds DEF HeldGiftPoints
<1>5. \A i \in FreezeIds : HeldOf(a, i) =>
        /\ AccountPart(a)[i] = freezes[i].account_amount
        /\ GiftPart(a)[i] = freezes[i].gift_amount
  BY DEF AccountPart, GiftPart
<1>6. QED
  BY <1>3, <1>4, <1>5 DEF FreezeIds

LEMMA InitLedgerInv == Init => LedgerInv
<1> SUFFICES ASSUME Init PROVE LedgerInv
  OBVIOUS
<1>1. TypeOK
  <2>1. PICK verified \in SUBSET Accounts :
          /\ accounts = [a \in Accounts |->
               OpeningBalance(IF a \in verified THEN SignupPoints ELSE 0)]
          /\ txns = [a \in Accounts |->
               [NoTotals EXCEPT !.signup_grant =
                  IF a \in verified THEN SignupPoints ELSE 0]]
    BY DEF Init
  <2>2. accounts \in [Accounts -> Balance]
    BY <2>1, LedgerAssumption DEF OpeningBalance, Balance, Never
  <2>3. txns \in [Accounts -> Totals]
    BY <2>1, LedgerAssumption DEF NoTotals, Totals
  <2>4. freezes \in [FreezeIds -> Freeze] /\ pending \in [FreezeIds -> Pending]
    BY DEF Init, NoFreeze, Freeze, Idle, Pending, Never
  <2>5. QED
    BY <2>2, <2>3, <2>4 DEF Init, TypeOK
<1>2. \A a \in Accounts :
        /\ accounts[a].available_credits = accounts[a].account_credits
        /\ accounts[a].account_credits >= 0
        /\ accounts[a].gift_credits = 0
        /\ accounts[a].frozen_credits = 0
        /\ accounts[a].frozen_account_credits = 0
        /\ accounts[a].frozen_gift_credits = 0
  BY LedgerAssumption DEF Init, OpeningBalance
<1>3. BucketsAddUp /\ NoOverdraft
  BY <1>1, <1>2 DEF BucketsAddUp, NoOverdraft, TypeOK, Balance
<1>4. FrozenIsReserved
  <2>1. \A a \in Accounts, i \in FreezeIds : AccountPart(a)[i] = 0 /\ GiftPart(a)[i] = 0
    BY DEF Init, AccountPart, GiftPart, HeldOf, Active, NoFreeze
  <2>2. \A a \in Accounts : HeldAccountPoints(a) = 0 /\ HeldGiftPoints(a) = 0
    BY <1>1, <2>1, PartsType, SumZero, LedgerAssumption
       DEF HeldAccountPoints, HeldGiftPoints, FreezeIds
  <2>3. QED
    BY <1>2, <2>2 DEF FrozenIsReserved
<1>5. RowsAddUp /\ OpenTransactionsAreCurrent
  BY DEF Init, RowsAddUp, OpenTransactionsAreCurrent, NoFreeze, Active
<1>6. QED
  BY <1>1, <1>3, <1>4, <1>5 DEF LedgerInv

-----------------------------------------------------------------------------
\* What the expiry pass leaves of a row whose balance adds up.
LEMMA ExpireLockedRow ==
  ASSUME NEW row \in Balance, now \in Nat,
         row.available_credits = row.account_credits + row.gift_credits,
         row.gift_credits >= 0
  PROVE  LET new == ExpireLocked(row) IN
         /\ new \in Balance
         /\ new.available_credits = new.account_credits + new.gift_credits
         /\ new.gift_credits >= 0
         /\ new.account_credits = row.account_credits
         /\ new.frozen_credits = row.frozen_credits
         /\ new.frozen_account_credits = row.frozen_account_credits
         /\ new.frozen_gift_credits = row.frozen_gift_credits
         /\ new.total_used_credits = row.total_used_credits
         /\ new.available_credits = row.available_credits - ExpiredGift(row)
         /\ ExpiredGift(row) \in Nat
<1>1. /\ row.available_credits - row.gift_credits \in Int
      /\ row.gift_credits \in Nat
  BY DEF Balance
<1>2. CASE IsExpired(row)
  <2> DEFINE new == [row EXCEPT !.available_credits = row.available_credits - row.gift_credits,
                                !.gift_credits = 0,
                                !.gift_expires_at = Never]
  <2>1. ExpireLocked(row) = new /\ ExpiredGift(row) = row.gift_credits
    BY <1>2 DEF ExpireLocked, ExpiredGift
  <2>2. new \in Balance
    <3>1. \A p, q \in Int, e \in Nat :
            [row EXCEPT !.available_credits = p, !.gift_credits = q,
                        !.gift_expires_at = e] \in Balance
      BY DEF Balance
    <3>2. 0 \in Int /\ Never \in Nat
      BY DEF Never
    <3>3. QED
      BY <1>1, <3>1, <3>2
  <2>3. /\ new.available_credits = row.available_credits - row.gift_credits
        /\ new.gift_credits = 0
        /\ new.account_credits = row.account_credits
        /\ new.frozen_credits = row.frozen_credits
        /\ new.frozen_account_credits = row.frozen_account_credits
        /\ new.frozen_gift_credits = row.frozen_gift_credits
        /\ new.total_used_credits = row.total_used_credits
    BY DEF Balance
  <2> HIDE DEF new
  <2>4. new.available_credits = new.account_credits + new.gift_credits
    BY <1>1, <2>3 DEF Balance
  <2>5. QED
    BY <1>1, <2>1, <2>2, <2>3, <2>4
<1>3. CASE ~IsExpired(row)
  BY <1>3 DEF ExpireLocked, ExpiredGift, Balance
<1>4. QED
  BY <1>2, <1>3

\* A change of one balance row that leaves the freezes alone keeps the
\* invariant if the row stays balanced and its frozen buckets are unchanged.
LEMMA RowChange ==
  ASSUME LedgerInv, TypeOK', NEW a \in Accounts, NEW new \in Balance,
         accounts' = [accounts EXCEPT ![a] = new],
         freezes' = freezes, pending' = pending,
         new.available_credits = new.account_credits + new.gift_credits,
         new.account_credits >= 0, new.gift_credits >= 0,
         new.frozen_credits = accounts[a].frozen_credits,
         new.frozen_account_credits = accounts[a].frozen_account_credits,
         new.frozen_gift_credits = accounts[a].frozen_gift_credits
  PROVE  LedgerInv'
<1>1. \A b \in Accounts : accounts'[b] = IF b = a THEN new ELSE accounts[b]
  BY DEF LedgerInv, TypeOK
<1>2. BucketsAddUp' /\ NoOverdraft'
  BY <1>1 DEF LedgerInv, BucketsAddUp, NoOverdraft
<1>3. \A b \in Accounts : /\ HeldAccountPoints(b)' = HeldAccountPoints(b)
                          /\ HeldGiftPoints(b)' = HeldGiftPoints(b)
  BY DEF HeldAccountPoints, HeldGiftPoints, AccountPart, GiftPart, HeldOf, Active
<1>4. FrozenIsReserved'
  BY <1>1, <1>3 DEF LedgerInv, FrozenIsReserved
<1>5. RowsAddUp' /\ OpenTransactionsAreCurrent'
  BY DEF LedgerInv, RowsAddUp, OpenTransactionsAreCurrent, Active
<1>6. QED
  BY <1>2, <1>4, <1>5 DEF LedgerInv

LEMMA TickStep == LedgerInv /\ Tick => LedgerInv'
<1> SUFFICES ASSUME LedgerInv, Tick PROVE LedgerInv'
  OBVIOUS
<1>1. TypeOK'
  BY DEF LedgerInv, Tick, TypeOK
<1>2. BucketsAddUp' /\ NoOverdraft' /\ RowsAddUp' /\ OpenTransactionsAreCurrent'
  BY DEF LedgerInv, Tick, BucketsAddUp, NoOverdraft, RowsAddUp,
         OpenTransactionsAreCurrent, Active
<1>3. FrozenIsReserved'
  BY DEF LedgerInv, Tick, FrozenIsReserved, HeldAccountPoints, HeldGiftPoints,
         AccountPart, GiftPart, HeldOf, Active
<1>4. QED
  BY <1>1, <1>2, <1>3 DEF LedgerInv

\* The row of an account and the row the expiry pass leaves of it.
LEMMA RowFacts ==
  ASSUME LedgerInv, NEW a \in Accounts
  PROVE  /\ accounts[a] \in Balance
         /\ txns[a] \in Totals
         /\ now \in Nat
         /\ accounts[a].available_credits =
              accounts[a].account_credits + accounts[a].gift_credits
         /\ accounts[a].account_credits >= 0
         /\ accounts[a].gift_credits >= 0
BY DEF LedgerInv, TypeOK, BucketsAddUp, NoOverdraft

LEMMA ExpireStep ==
  ASSUME LedgerInv, NEW a \in Accounts, ExpireAvailableGifts(a)
  PROVE  LedgerInv'
<1> DEFINE new == ExpireLocked(accounts[a])
<1>1. /\ new \in Balance
      /\ new.available_credits = new.account_credits + new.gift_credits
      /\ new.gift_credits >= 0
      /\ new.account_credits = accounts[a].account_credits
      /\ new.frozen_credits = accounts[a].frozen_credits
      /\ new.frozen_account_credits = accounts[a].frozen_account_credits
      /\ new.frozen_gift_credits = accounts[a].frozen_gift_credits
      /\ ExpiredGift(accounts[a]) \in Nat
  BY RowFacts, ExpireLockedRow
<1>2. /\ accounts' = [accounts EXCEPT ![a] = new]
      /\ txns' = [txns EXCEPT ![a].expire = @ + ExpiredGift(accounts[a])]
      /\ UNCHANGED <<freezes, pending, grants, now, topUps>>
  BY DEF ExpireAvailableGifts
<1> HIDE DEF new
<1>3. TypeOK'
  BY <1>1, <1>2 DEF LedgerInv, TypeOK, Totals
<1>4. QED
  BY <1>1, <1>2, <1>3, RowFacts, RowChange

LEMMA GrantStep ==
  ASSUME LedgerInv, NEW a \in Accounts, NEW d \in Days, NEW n \in GiftAmounts,
         GrantDailyGift(a, d, n)
  PROVE  LedgerInv'
<1> DEFINE row == ExpireLocked(accounts[a])
           new == [row EXCEPT !.available_credits = @ + n,
                              !.gift_credits = @ + n,
                              !.gift_expires_at = GiftExpiry(d)]
<1>1. /\ row \in Balance
      /\ row.available_credits = row.account_credits + row.gift_credits
      /\ row.gift_credits >= 0
      /\ row.account_credits = accounts[a].account_credits
      /\ row.frozen_credits = accounts[a].frozen_credits
      /\ row.frozen_account_credits = accounts[a].frozen_account_credits
      /\ row.frozen_gift_credits = accounts[a].frozen_gift_credits
      /\ ExpiredGift(accounts[a]) \in Nat
  BY RowFacts, ExpireLockedRow
<1>2. /\ accounts' = [accounts EXCEPT ![a] = new]
      /\ txns' = [txns EXCEPT ![a].gift = @ + n,
                              ![a].expire = @ + ExpiredGift(accounts[a])]
      /\ grants' = grants \cup {<<a, d>>}
      /\ UNCHANGED <<freezes, pending, now, topUps>>
  BY DEF GrantDailyGift
<1>3. n \in Nat /\ n > 0
  BY LedgerAssumption
<1>4. GiftExpiry(d) \in Nat
  BY LedgerAssumption DEF GiftExpiry, Days
<1> HIDE DEF row
<1>a. row.available_credits + n \in Int /\ row.gift_credits + n \in Int
  BY <1>1, <1>3 DEF Balance
<1>5. /\ new \in Balance
      /\ new.available_credits = row.available_credits + n
      /\ new.gift_credits = row.gift_credits + n
      /\ new.account_credits = row.account_credits
      /\ new.frozen_credits = row.frozen_credits
      /\ new.frozen_account_credits = row.frozen_account_credits
      /\ new.frozen_gift_credits = row.frozen_gift_credits
  BY <1>1, <1>a, <1>4 DEF Balance
<1> HIDE DEF new
<1>6. TypeOK'
  <2>1. txns' \in [Accounts -> Totals]
    <3>1. /\ txns[a].gift + n \in Nat
          /\ txns[a].expire + ExpiredGift(accounts[a]) \in Nat
      BY <1>1, <1>3, RowFacts DEF Totals
    <3>2. QED
      BY ZenonT(60), <1>2, <3>1, RowFacts DEF LedgerInv, TypeOK, Totals
  <2>2. QED
    BY <1>2, <1>5, <2>1 DEF LedgerInv, TypeOK
<1>7. /\ new.available_credits = new.account_credits + new.gift_credits
      /\ new.gift_credits >= 0
      /\ new.account_credits >= 0
  BY <1>1, <1>3, <1>5, RowFacts DEF Balance
<1>8. QED
  BY <1>1, <1>2, <1>5, <1>6, <1>7, RowChange

LEMMA AdjustStep ==
  ASSUME LedgerInv, NEW a \in Accounts, NEW n \in Int, AdminAdjustAccount(a, n)
  PROVE  LedgerInv'
<1> DEFINE row == accounts[a]
           new == [row EXCEPT !.available_credits = @ + n, !.account_credits = @ + n]
<1>1. /\ accounts' = [accounts EXCEPT ![a] = new]
      /\ txns' = IF n > 0 THEN [txns EXCEPT ![a].admin_credit = @ + n]
                 ELSE [txns EXCEPT ![a].admin_debit = @ - n]
      /\ topUps' = topUps + 1
      /\ UNCHANGED <<freezes, pending, grants, now>>
      /\ row.account_credits + n >= 0
  <2>1. accounts' = [accounts EXCEPT ![a] = new]
    BY DEF AdminAdjustAccount
  <2>2. row.account_credits + n >= 0
    BY DEF AdminAdjustAccount, Adjustable
  <2>3. QED
    BY <2>1, <2>2, Zenon DEF AdminAdjustAccount
<1>2. /\ row \in Balance
      /\ row.available_credits = row.account_credits + row.gift_credits
      /\ row.gift_credits >= 0
  BY RowFacts
<1> HIDE DEF row
<1>a. row.available_credits + n \in Int /\ row.account_credits + n \in Int
  BY <1>2 DEF Balance
<1>3. /\ new \in Balance
      /\ new.available_credits = row.available_credits + n
      /\ new.account_credits = row.account_credits + n
      /\ new.gift_credits = row.gift_credits
      /\ new.frozen_credits = row.frozen_credits
      /\ new.frozen_account_credits = row.frozen_account_credits
      /\ new.frozen_gift_credits = row.frozen_gift_credits
  BY <1>2, <1>a DEF Balance
<1> HIDE DEF new
<1>4. TypeOK'
  <2>1. txns' \in [Accounts -> Totals]
    <3>1. /\ n > 0 => txns[a].admin_credit + n \in Nat
          /\ ~ (n > 0) => txns[a].admin_debit - n \in Nat
      BY RowFacts DEF Totals
    <3>2. QED
      BY <1>1, <3>1, RowFacts DEF LedgerInv, TypeOK, Totals
  <2>2. QED
    BY <1>1, <1>3, <2>1 DEF LedgerInv, TypeOK
<1>5. new.available_credits = new.account_credits + new.gift_credits
  BY <1>2, <1>3 DEF Balance
<1>6. QED
  BY <1>1, <1>2, <1>3, <1>4, <1>5, RowChange DEF row

LEMMA RechargeStep ==
  ASSUME LedgerInv, NEW a \in Accounts, NEW n \in TopUps, CreditRecharge(a, n)
  PROVE  LedgerInv'
<1> DEFINE row == ExpireLocked(accounts[a])
           new == [row EXCEPT !.available_credits = @ + n, !.account_credits = @ + n]
<1>1. /\ row \in Balance
      /\ row.available_credits = row.account_credits + row.gift_credits
      /\ row.gift_credits >= 0
      /\ row.account_credits = accounts[a].account_credits
      /\ row.frozen_credits = accounts[a].frozen_credits
      /\ row.frozen_account_credits = accounts[a].frozen_account_credits
      /\ row.frozen_gift_credits = accounts[a].frozen_gift_credits
      /\ ExpiredGift(accounts[a]) \in Nat
  BY RowFacts, ExpireLockedRow
<1>2. /\ accounts' = [accounts EXCEPT ![a] = new]
      /\ txns' = [txns EXCEPT ![a].recharge = @ + n,
                              ![a].expire = @ + ExpiredGift(accounts[a])]
      /\ topUps' = topUps + 1
      /\ UNCHANGED <<freezes, pending, grants, now>>
  BY DEF CreditRecharge
<1>3. n \in Nat
  BY LedgerAssumption
<1> HIDE DEF row
<1>a. row.available_credits + n \in Int /\ row.account_credits + n \in Int
  BY <1>1, <1>3 DEF Balance
<1>4. /\ new \in Balance
      /\ new.available_credits = row.available_credits + n
      /\ new.account_credits = row.account_credits + n
      /\ new.gift_credits = row.gift_credits
      /\ new.frozen_credits = row.frozen_credits
      /\ new.frozen_account_credits = row.frozen_account_credits
      /\ new.frozen_gift_credits = row.frozen_gift_credits
  BY <1>1, <1>a DEF Balance
<1> HIDE DEF new
<1>5. TypeOK'
  <2>1. txns' \in [Accounts -> Totals]
    <3>1. /\ txns[a].recharge + n \in Nat
          /\ txns[a].expire + ExpiredGift(accounts[a]) \in Nat
      BY <1>1, <1>3, RowFacts DEF Totals
    <3>2. QED
      BY ZenonT(60), <1>2, <3>1, RowFacts DEF LedgerInv, TypeOK, Totals
  <2>2. QED
    BY <1>2, <1>4, <2>1 DEF LedgerInv, TypeOK
<1>6. /\ new.available_credits = new.account_credits + new.gift_credits
      /\ new.gift_credits >= 0
      /\ new.account_credits >= 0
  BY <1>1, <1>3, <1>4, RowFacts DEF Balance
<1>7. QED
  BY <1>1, <1>2, <1>4, <1>5, <1>6, RowChange

-----------------------------------------------------------------------------
\* What the reservation of row i holds of account a, before and after a step.
LEMMA PartOfRow ==
  ASSUME NEW a \in Accounts, NEW i \in FreezeIds
  PROVE  /\ AccountPart(a)[i] = IF HeldOf(a, i) THEN freezes[i].account_amount ELSE 0
         /\ GiftPart(a)[i] = IF HeldOf(a, i) THEN freezes[i].gift_amount ELSE 0
         /\ AccountPart(a)'[i] = IF HeldOf(a, i)' THEN freezes'[i].account_amount ELSE 0
         /\ GiftPart(a)'[i] = IF HeldOf(a, i)' THEN freezes'[i].gift_amount ELSE 0
BY DEF AccountPart, GiftPart

\* A change of one balance row and of one freeze of that account keeps the
\* invariant if the frozen buckets change by what the freeze holds.
LEMMA ReservationChange ==
  ASSUME LedgerInv, TypeOK', NEW a \in Accounts, NEW i \in FreezeIds,
         NEW new \in Balance,
         accounts' = [accounts EXCEPT ![a] = new],
         \A j \in FreezeIds : j # i => freezes'[j] = freezes[j],
         Active(i) => freezes[i].account = a,
         freezes'[i].account = a,
         freezes'[i].amount = freezes'[i].account_amount + freezes'[i].gift_amount,
         new.available_credits = new.account_credits + new.gift_credits,
         new.account_credits >= 0, new.gift_credits >= 0,
         new.frozen_credits = new.frozen_account_credits + new.frozen_gift_credits,
         new.frozen_account_credits =
           accounts[a].frozen_account_credits - AccountPart(a)[i] + AccountPart(a)'[i],
         new.frozen_gift_credits =
           accounts[a].frozen_gift_credits - GiftPart(a)[i] + GiftPart(a)'[i],
         OpenTransactionsAreCurrent'
  PROVE  LedgerInv'
<1>1. \A b \in Accounts : accounts'[b] = IF b = a THEN new ELSE accounts[b]
  BY DEF LedgerInv, TypeOK
<1>2. TypeOK
  BY DEF LedgerInv
<1>3. FrozenIsReserved'
  <2> SUFFICES ASSUME NEW b \in Accounts
               PROVE  /\ accounts'[b].frozen_account_credits = HeldAccountPoints(b)'
                      /\ accounts'[b].frozen_gift_credits = HeldGiftPoints(b)'
    BY Zenon DEF FrozenIsReserved
  <2>1. /\ HeldAccountPoints(b)' =
             HeldAccountPoints(b) - AccountPart(b)[i] + AccountPart(b)'[i]
        /\ HeldGiftPoints(b)' =
             HeldGiftPoints(b) - GiftPart(b)[i] + GiftPart(b)'[i]
    BY <1>2, HeldUpdate
  <2>2. /\ accounts[b].frozen_account_credits = HeldAccountPoints(b)
        /\ accounts[b].frozen_gift_credits = HeldGiftPoints(b)
    BY DEF LedgerInv, FrozenIsReserved
  <2>3. CASE b = a
    BY <1>1, <2>1, <2>2, <2>3
  <2>4. CASE b # a
    <3>1. ~HeldOf(b, i) /\ ~HeldOf(b, i)'
      BY <2>4 DEF HeldOf
    <3>2. /\ AccountPart(b)[i] = 0 /\ GiftPart(b)[i] = 0
          /\ AccountPart(b)'[i] = 0 /\ GiftPart(b)'[i] = 0
      BY <3>1, PartOfRow
    <3>3. HeldAccountPoints(b) \in Nat /\ HeldGiftPoints(b) \in Nat
      BY <1>2, HeldBounds
    <3>4. QED
      BY <1>1, <2>1, <2>2, <2>4, <3>2, <3>3
  <2>5. QED
    BY <2>3, <2>4
<1>4. HeldAccountPoints(a)' >= 0 /\ HeldGiftPoints(a)' >= 0
  <2>1. /\ AccountPart(a)' \in [1..MaxFreezes -> Nat]
        /\ GiftPart(a)' \in [1..MaxFreezes -> Nat]
    BY DEF TypeOK, Freeze, AccountPart, GiftPart, FreezeIds
  <2>2. MaxFreezes \in Nat
    BY LedgerAssumption
  <2>3. Sum(AccountPart(a)', MaxFreezes) \in Nat /\ Sum(GiftPart(a)', MaxFreezes) \in Nat
    BY <2>1, <2>2, SumBounds
  <2>4. QED
    BY <2>3 DEF HeldAccountPoints, HeldGiftPoints
<1>5. NoOverdraft'
  BY <1>1, <1>3, <1>4 DEF LedgerInv, NoOverdraft, FrozenIsReserved
<1>6. BucketsAddUp'
  BY <1>1 DEF LedgerInv, BucketsAddUp
<1>7. RowsAddUp'
  BY DEF LedgerInv, RowsAddUp, Active
<1>8. QED
  BY <1>3, <1>5, <1>6, <1>7 DEF LedgerInv

\* A change of the open transactions alone.
LEMMA PendingChange ==
  ASSUME LedgerInv, pending' \in [FreezeIds -> Pending],
         UNCHANGED <<accounts, freezes, txns, grants, now, topUps>>,
         OpenTransactionsAreCurrent'
  PROVE  LedgerInv'
<1>1. TypeOK'
  BY DEF LedgerInv, TypeOK
<1>2. BucketsAddUp' /\ NoOverdraft' /\ RowsAddUp'
  BY DEF LedgerInv, BucketsAddUp, NoOverdraft, RowsAddUp, Active
<1>3. FrozenIsReserved'
  BY DEF LedgerInv, FrozenIsReserved, HeldAccountPoints, HeldGiftPoints,
         AccountPart, GiftPart, HeldOf, Active
<1>4. QED
  BY <1>1, <1>2, <1>3 DEF LedgerInv

LEMMA RollbackStep ==
  ASSUME LedgerInv, NEW i \in FreezeIds, Rollback(i)
  PROVE  LedgerInv'
<1>1. pending' \in [FreezeIds -> Pending]
  BY DEF LedgerInv, TypeOK, Rollback, Idle, Pending
<1>2. OpenTransactionsAreCurrent'
  BY DEF LedgerInv, TypeOK, Rollback, OpenTransactionsAreCurrent, Active
<1>3. QED
  BY <1>1, <1>2, PendingChange DEF Rollback

LEMMA ConfirmBeginStep ==
  ASSUME LedgerInv, NEW t \in Tasks, NEW final \in FreezeAmounts \cup {0},
         ConfirmTaskFreezeBegin(t, final)
  PROVE  LedgerInv'
<1>1. PICK i \in FreezeIds :
        /\ Active(i)
        /\ final <= freezes[i].amount
        /\ pending' = [pending EXCEPT ![i] =
                         [op |-> "confirm", final_amount |-> final,
                          expired |-> RefundExpired(freezes[i], final)]]
        /\ UNCHANGED <<accounts, freezes, txns, grants, now, topUps>>
  BY DEF ConfirmTaskFreezeBegin, Newest, ActiveFreezes, Covers
<1>2. final \in Nat /\ RefundExpired(freezes[i], final) \in BOOLEAN
  BY LedgerAssumption DEF RefundExpired
<1> DEFINE open == [op |-> "confirm", final_amount |-> final,
                    expired |-> RefundExpired(freezes[i], final)]
<1>3. open \in Pending /\ open.final_amount = final
  BY <1>2, Zenon DEF Pending
<1>4. pending' = [pending EXCEPT ![i] = open]
  BY <1>1
<1> HIDE DEF open
<1>5. pending' \in [FreezeIds -> Pending]
  BY <1>3, <1>4 DEF LedgerInv, TypeOK
<1>6. OpenTransactionsAreCurrent'
  BY <1>1, <1>3, <1>4 DEF LedgerInv, TypeOK, OpenTransactionsAreCurrent, Active
<1>7. QED
  BY <1>1, <1>5, <1>6, PendingChange

LEMMA ReleaseBeginStep ==
  ASSUME LedgerInv, NEW t \in Tasks, ReleaseTaskFreezeBegin(t)
  PROVE  LedgerInv'
<1>1. PICK i \in FreezeIds :
        /\ Active(i)
        /\ pending' = [pending EXCEPT ![i] =
                         [op |-> "release", final_amount |-> 0,
                          expired |-> RefundExpired(freezes[i], 0)]]
        /\ UNCHANGED <<accounts, freezes, txns, grants, now, topUps>>
  BY DEF ReleaseTaskFreezeBegin, Newest, ActiveFreezes
<1>2. RefundExpired(freezes[i], 0) \in BOOLEAN
  BY DEF RefundExpired
<1> DEFINE open == [op |-> "release", final_amount |-> 0,
                    expired |-> RefundExpired(freezes[i], 0)]
<1>3. open \in Pending /\ open.final_amount = 0
  BY <1>2, Zenon DEF Pending
<1>4. pending' = [pending EXCEPT ![i] = open]
  BY <1>1
<1> HIDE DEF open
<1>5. pending' \in [FreezeIds -> Pending]
  BY <1>3, <1>4 DEF LedgerInv, TypeOK
<1>6. OpenTransactionsAreCurrent'
  BY <1>1, <1>3, <1>4
     DEF LedgerInv, TypeOK, OpenTransactionsAreCurrent, Active, Freeze
<1>7. QED
  BY <1>1, <1>5, <1>6, PendingChange

\* Freeing one reservation leaves the open transactions of the others current.
LEMMA ResolveKeepsOpen ==
  ASSUME LedgerInv, NEW i \in FreezeIds, NEW st \in {"settled", "released"},
         freezes' = [freezes EXCEPT ![i].status = st],
         pending' = [pending EXCEPT ![i] = Idle]
  PROVE  /\ OpenTransactionsAreCurrent'
         /\ freezes' \in [FreezeIds -> Freeze]
         /\ pending' \in [FreezeIds -> Pending]
         /\ ~Active(i)'
         /\ freezes'[i].account = freezes[i].account
         /\ freezes'[i].amount = freezes[i].amount
         /\ freezes'[i].account_amount = freezes[i].account_amount
         /\ freezes'[i].gift_amount = freezes[i].gift_amount
         /\ \A j \in FreezeIds : j # i => freezes'[j] = freezes[j]
<1>1. freezes' \in [FreezeIds -> Freeze] /\ pending' \in [FreezeIds -> Pending]
  <2>1. pending' \in [FreezeIds -> Pending]
    BY DEF LedgerInv, TypeOK, Idle, Pending
  <2>2. [freezes[i] EXCEPT !.status = st] \in Freeze
    <3>1. freezes[i] \in Freeze /\ st \in {"none", "frozen", "settled", "released"}
      BY DEF LedgerInv, TypeOK
    <3>2. QED
      BY <3>1 DEF Freeze
  <2>3. QED
    BY <2>1, <2>2 DEF LedgerInv, TypeOK
<1>2. /\ \A j \in FreezeIds : j # i => freezes'[j] = freezes[j]
      /\ freezes'[i] = [freezes[i] EXCEPT !.status = st]
      /\ \A j \in FreezeIds : pending'[j] = IF j = i THEN Idle ELSE pending[j]
  BY DEF LedgerInv, TypeOK
<1>3. freezes[i] \in Freeze
  BY DEF LedgerInv, TypeOK
<1>4. /\ freezes'[i].status = st
      /\ freezes'[i].account = freezes[i].account
      /\ freezes'[i].amount = freezes[i].amount
      /\ freezes'[i].account_amount = freezes[i].account_amount
      /\ freezes'[i].gift_amount = freezes[i].gift_amount
  BY <1>2, <1>3 DEF Freeze
<1>5. OpenTransactionsAreCurrent'
  BY <1>2 DEF LedgerInv, OpenTransactionsAreCurrent, Active
<1>6. QED
  BY <1>1, <1>2, <1>4, <1>5 DEF Active

\* The reservation of an account, and the balance row of that account.
LEMMA HeldFacts ==
  ASSUME LedgerInv, NEW i \in FreezeIds, Active(i),
         NEW a \in Accounts, freezes[i].account = a
  PROVE  LET fz == freezes[i]
             row == accounts[a] IN
         /\ fz.amount = fz.account_amount + fz.gift_amount
         /\ fz.amount \in Nat /\ fz.account_amount \in Nat /\ fz.gift_amount \in Nat
         /\ row \in Balance /\ txns[a] \in Totals
         /\ row.available_credits = row.account_credits + row.gift_credits
         /\ row.frozen_credits = row.frozen_account_credits + row.frozen_gift_credits
         /\ row.account_credits \in Nat /\ row.gift_credits \in Nat
         /\ row.available_credits \in Int /\ row.frozen_credits \in Int
         /\ row.total_used_credits \in Int
         /\ row.frozen_account_credits \in Int /\ row.frozen_gift_credits \in Int
         /\ AccountPart(a)[i] = fz.account_amount
         /\ GiftPart(a)[i] = fz.gift_amount
<1>1. /\ freezes[i] \in Freeze
      /\ freezes[i].amount = freezes[i].account_amount + freezes[i].gift_amount
  BY DEF LedgerInv, TypeOK, RowsAddUp
<1>2. /\ AccountPart(a)[i] = freezes[i].account_amount
      /\ GiftPart(a)[i] = freezes[i].gift_amount
  BY DEF AccountPart, GiftPart, HeldOf
<1>3. accounts[a] \in Balance /\ txns[a] \in Totals
  BY DEF LedgerInv, TypeOK
<1>4. /\ accounts[a].available_credits =
           accounts[a].account_credits + accounts[a].gift_credits
      /\ accounts[a].frozen_credits =
           accounts[a].frozen_account_credits + accounts[a].frozen_gift_credits
      /\ accounts[a].account_credits >= 0 /\ accounts[a].gift_credits >= 0
  BY DEF LedgerInv, BucketsAddUp, NoOverdraft
<1>5. QED
  BY <1>1, <1>2, <1>3, <1>4 DEF Balance, Freeze

\* Resolving reservation i of account a: the frozen buckets give back what the
\* row reserved, and the two spendable buckets get p and g points.
LEMMA ResolveStep ==
  ASSUME LedgerInv, NEW i \in FreezeIds, Active(i),
         NEW a \in Accounts, freezes[i].account = a,
         NEW st \in {"settled", "released"}, NEW p \in Nat, NEW g \in Nat,
         NEW new \in Balance, txns' \in [Accounts -> Totals],
         accounts' = [accounts EXCEPT ![a] = new],
         freezes' = [freezes EXCEPT ![i].status = st],
         pending' = [pending EXCEPT ![i] = Idle],
         UNCHANGED <<grants, now, topUps>>,
         new.available_credits = accounts[a].available_credits + (p + g),
         new.account_credits = accounts[a].account_credits + p,
         new.gift_credits = accounts[a].gift_credits + g,
         new.frozen_credits = accounts[a].frozen_credits - freezes[i].amount,
         new.frozen_account_credits =
           accounts[a].frozen_account_credits - freezes[i].account_amount,
         new.frozen_gift_credits =
           accounts[a].frozen_gift_credits - freezes[i].gift_amount
  PROVE  LedgerInv'
<1>1. /\ OpenTransactionsAreCurrent'
      /\ freezes' \in [FreezeIds -> Freeze]
      /\ pending' \in [FreezeIds -> Pending]
      /\ ~Active(i)'
      /\ freezes'[i].account = a
      /\ freezes'[i].amount = freezes[i].amount
      /\ freezes'[i].account_amount = freezes[i].account_amount
      /\ freezes'[i].gift_amount = freezes[i].gift_amount
      /\ \A j \in FreezeIds : j # i => freezes'[j] = freezes[j]
  BY ResolveKeepsOpen
<1>2. LET fz == freezes[i]
          row == accounts[a] IN
      /\ fz.amount = fz.account_amount + fz.gift_amount
      /\ fz.amount \in Nat /\ fz.account_amount \in Nat /\ fz.gift_amount \in Nat
      /\ row.available_credits = row.account_credits + row.gift_credits
      /\ row.frozen_credits = row.frozen_account_credits + row.frozen_gift_credits
      /\ row.account_credits \in Nat /\ row.gift_credits \in Nat
      /\ row.frozen_account_credits \in Int /\ row.frozen_gift_credits \in Int
      /\ AccountPart(a)[i] = fz.account_amount
      /\ GiftPart(a)[i] = fz.gift_amount
  BY HeldFacts
<1>3. AccountPart(a)'[i] = 0 /\ GiftPart(a)'[i] = 0
  BY <1>1, PartOfRow DEF HeldOf
<1>4. TypeOK'
  BY <1>1 DEF LedgerInv, TypeOK
<1>5. /\ new.available_credits = new.account_credits + new.gift_credits
      /\ new.account_credits >= 0 /\ new.gift_credits >= 0
      /\ new.frozen_credits = new.frozen_account_credits + new.frozen_gift_credits
  BY <1>2
<1>6. /\ new.frozen_account_credits =
           accounts[a].frozen_account_credits - AccountPart(a)[i] + AccountPart(a)'[i]
      /\ new.frozen_gift_credits =
           accounts[a].frozen_gift_credits - GiftPart(a)[i] + GiftPart(a)'[i]
  BY <1>2, <1>3
<1>7. freezes'[i].amount = freezes'[i].account_amount + freezes'[i].gift_amount
  BY <1>1, <1>2
<1>8. \A j \in FreezeIds : j # i => freezes'[j] = freezes[j]
  BY <1>1
<1>9. OpenTransactionsAreCurrent' /\ freezes'[i].account = a
  BY <1>1
<1>10. QED
  BY <1>4, <1>5, <1>6, <1>7, <1>8, <1>9, ReservationChange

\* The row a settlement or a release has locked is active and covers the amount.
LEMMA LockedIsCurrent ==
  ASSUME LedgerInv, NEW i \in FreezeIds, pending[i] # Idle
  PROVE  Active(i) /\ pending[i].final_amount <= freezes[i].amount
BY DEF LedgerInv, OpenTransactionsAreCurrent

LEMMA ReleaseCommitStep ==
  ASSUME LedgerInv, NEW i \in FreezeIds, ReleaseTaskFreezeCommit(i)
  PROVE  LedgerInv'
<1>1. Active(i)
  <2>1. pending[i].op = "release"
    BY DEF ReleaseTaskFreezeCommit
  <2>2. QED
    BY <2>1, LockedIsCurrent DEF Idle
<1>2. PICK a \in Accounts : freezes[i].account = a
  BY <1>1 DEF LedgerInv, RowsAddUp
<1> DEFINE fz == freezes[i]
           row == accounts[a]
           gift == IF pending[i].expired THEN 0 ELSE fz.gift_amount
           new == [row EXCEPT !.available_credits = @ + (fz.account_amount + gift),
                              !.frozen_credits = @ - fz.amount,
                              !.account_credits = @ + fz.account_amount,
                              !.gift_credits = @ + gift,
                              !.frozen_account_credits = @ - fz.account_amount,
                              !.frozen_gift_credits = @ - fz.gift_amount]
<1>3. /\ accounts' = [accounts EXCEPT ![a] = new]
      /\ freezes' = [freezes EXCEPT ![i].status = "released"]
      /\ pending' = [pending EXCEPT ![i] = Idle]
      /\ txns' = [txns EXCEPT ![a].release = @ + (fz.account_amount + gift),
                              ![a].expire = @ + (fz.gift_amount - gift)]
      /\ UNCHANGED <<grants, now, topUps>>
  BY <1>2, Zenon DEF ReleaseTaskFreezeCommit
<1>4. /\ fz.amount \in Nat /\ fz.account_amount \in Nat /\ fz.gift_amount \in Nat
      /\ row \in Balance /\ txns[a] \in Totals
      /\ row.account_credits \in Nat /\ row.gift_credits \in Nat
      /\ row.available_credits \in Int /\ row.frozen_credits \in Int
      /\ row.frozen_account_credits \in Int /\ row.frozen_gift_credits \in Int
  BY <1>1, <1>2, HeldFacts
<1>5. gift \in Nat /\ fz.gift_amount - gift \in Nat
  BY <1>4
<1>6. row = accounts[a] /\ fz = freezes[i]
  OBVIOUS
<1> HIDE DEF fz, row, gift
<1>7. /\ row.available_credits + (fz.account_amount + gift) \in Int
      /\ row.frozen_credits - fz.amount \in Int
      /\ row.account_credits + fz.account_amount \in Int
      /\ row.gift_credits + gift \in Int
      /\ row.frozen_account_credits - fz.account_amount \in Int
      /\ row.frozen_gift_credits - fz.gift_amount \in Int
  BY <1>4, <1>5
<1>8. /\ new \in Balance
      /\ new.available_credits = row.available_credits + (fz.account_amount + gift)
      /\ new.frozen_credits = row.frozen_credits - fz.amount
      /\ new.account_credits = row.account_credits + fz.account_amount
      /\ new.gift_credits = row.gift_credits + gift
      /\ new.frozen_account_credits = row.frozen_account_credits - fz.account_amount
      /\ new.frozen_gift_credits = row.frozen_gift_credits - fz.gift_amount
  BY <1>4, <1>7 DEF Balance
<1> HIDE DEF new
<1>9. txns' \in [Accounts -> Totals]
  <2>1. /\ txns[a].release + (fz.account_amount + gift) \in Nat
        /\ txns[a].expire + (fz.gift_amount - gift) \in Nat
    BY <1>4, <1>5 DEF Totals
  <2>2. QED
    BY <1>3, <1>4, <2>1 DEF LedgerInv, TypeOK, Totals
<1>10. QED
  BY ZenonT(60), <1>1, <1>2, <1>3, <1>4, <1>5, <1>6, <1>8, <1>9, ResolveStep

LEMMA ConfirmCommitStep ==
  ASSUME LedgerInv, NEW i \in FreezeIds, ConfirmTaskFreezeCommit(i)
  PROVE  LedgerInv'
<1>1. Active(i) /\ pending[i].final_amount <= freezes[i].amount
  <2>1. pending[i].op = "confirm"
    BY DEF ConfirmTaskFreezeCommit
  <2>2. QED
    BY <2>1, LockedIsCurrent DEF Idle
<1>2. PICK a \in Accounts : freezes[i].account = a
  BY <1>1 DEF LedgerInv, RowsAddUp
<1> DEFINE fz == freezes[i]
           row == accounts[a]
           final == pending[i].final_amount
           giftRefund == GiftRefund(fz, final)
           gift == IF pending[i].expired THEN 0 ELSE giftRefund
           back == AccountRefund(fz, final)
           new == [row EXCEPT !.available_credits = @ + (back + gift),
                              !.frozen_credits = @ - fz.amount,
                              !.total_used_credits = @ + final,
                              !.account_credits = @ + back,
                              !.gift_credits = @ + gift,
                              !.frozen_account_credits = @ - fz.account_amount,
                              !.frozen_gift_credits = @ - fz.gift_amount]
<1>3. /\ accounts' = [accounts EXCEPT ![a] = new]
      /\ freezes' = [freezes EXCEPT ![i].status = "settled"]
      /\ pending' = [pending EXCEPT ![i] = Idle]
      /\ txns' = [txns EXCEPT ![a].release = @ + (back + gift),
                              ![a].consume = @ + final,
                              ![a].expire = @ + (giftRefund - gift)]
      /\ UNCHANGED <<grants, now, topUps>>
  BY <1>2, Zenon DEF ConfirmTaskFreezeCommit
<1>4. /\ fz.amount = fz.account_amount + fz.gift_amount
      /\ fz.amount \in Nat /\ fz.account_amount \in Nat /\ fz.gift_amount \in Nat
      /\ row \in Balance /\ txns[a] \in Totals
      /\ row.account_credits \in Nat /\ row.gift_credits \in Nat
      /\ row.available_credits \in Int /\ row.frozen_credits \in Int
      /\ row.total_used_credits \in Int
      /\ row.frozen_account_credits \in Int /\ row.frozen_gift_credits \in Int
  BY <1>1, <1>2, HeldFacts
<1>5. final \in Nat /\ final <= fz.amount
  BY <1>1 DEF LedgerInv, TypeOK, Pending
<1>6. row = accounts[a] /\ fz = freezes[i]
  OBVIOUS
<1> HIDE DEF fz, row, final
<1>7. giftRefund \in Nat /\ back \in Nat
  BY <1>4, <1>5 DEF GiftRefund, AccountRefund, GiftConsumed, Lesser
<1> HIDE DEF giftRefund, back
<1>8. gift \in Nat /\ giftRefund - gift \in Nat
  BY <1>7
<1> HIDE DEF gift
<1>9. /\ row.available_credits + (back + gift) \in Int
      /\ row.frozen_credits - fz.amount \in Int
      /\ row.total_used_credits + final \in Int
      /\ row.account_credits + back \in Int
      /\ row.gift_credits + gift \in Int
      /\ row.frozen_account_credits - fz.account_amount \in Int
      /\ row.frozen_gift_credits - fz.gift_amount \in Int
  BY <1>4, <1>5, <1>7, <1>8
<1>10. /\ new \in Balance
       /\ new.available_credits = row.available_credits + (back + gift)
       /\ new.frozen_credits = row.frozen_credits - fz.amount
       /\ new.account_credits = row.account_credits + back
       /\ new.gift_credits = row.gift_credits + gift
       /\ new.frozen_account_credits = row.frozen_account_credits - fz.account_amount
       /\ new.frozen_gift_credits = row.frozen_gift_credits - fz.gift_amount
  BY <1>4, <1>9 DEF Balance
<1> HIDE DEF new
<1>11. txns' \in [Accounts -> Totals]
  <2>1. /\ txns[a].release + (back + gift) \in Nat
        /\ txns[a].consume + final \in Nat
        /\ txns[a].expire + (giftRefund - gift) \in Nat
    BY <1>4, <1>5, <1>7, <1>8 DEF Totals
  <2>2. QED
    BY <1>3, <1>4, <2>1 DEF LedgerInv, TypeOK, Totals
<1>12. /\ new.available_credits = accounts[a].available_credits + (back + gift)
       /\ new.account_credits = accounts[a].account_credits + back
       /\ new.gift_credits = accounts[a].gift_credits + gift
       /\ new.frozen_credits = accounts[a].frozen_credits - freezes[i].amount
       /\ new.frozen_account_credits =
            accounts[a].frozen_account_credits - freezes[i].account_amount
       /\ new.frozen_gift_credits =
            accounts[a].frozen_gift_credits - freezes[i].gift_amount
  BY <1>6, <1>10
<1>13. QED
  <2>1. Active(i) /\ freezes[i].account = a /\ new \in Balance
    BY <1>1, <1>2, <1>10
  <2>2. accounts' = [accounts EXCEPT ![a] = new]
    BY <1>3
  <2>3. /\ freezes' = [freezes EXCEPT ![i].status = "settled"]
        /\ pending' = [pending EXCEPT ![i] = Idle]
        /\ UNCHANGED <<grants, now, topUps>>
    BY <1>3
  <2>4. back \in Nat /\ gift \in Nat
    BY <1>7, <1>8
  <2>5. QED
    BY <2>1, <2>2, <2>3, <2>4, <1>11, <1>12, ResolveStep

LEMMA FreezeStep ==
  ASSUME LedgerInv, NEW a \in Accounts, NEW t \in Tasks, NEW f \in Features,
         NEW n \in FreezeAmounts, FreezeCredits(a, t, f, n)
  PROVE  LedgerInv'
<1> DEFINE row == ExpireLocked(accounts[a])
           gift == Lesser(row.gift_credits, n)
           held == [account |-> a, task |-> t, feature |-> f, amount |-> n,
                    account_amount |-> n - gift, gift_amount |-> gift,
                    gift_expires_at |-> row.gift_expires_at,
                    status |-> "frozen"]
           new == [row EXCEPT !.available_credits = @ - n,
                              !.frozen_credits = @ + n,
                              !.account_credits = @ - (n - gift),
                              !.gift_credits = @ - gift,
                              !.frozen_account_credits = @ + (n - gift),
                              !.frozen_gift_credits = @ + gift]
<1>1. PICK i \in FreezeIds : NextId(i) /\ freezes' = [freezes EXCEPT ![i] = held]
  BY Zenon DEF FreezeCredits
<1>2. /\ accounts' = [accounts EXCEPT ![a] = new]
      /\ txns' = [txns EXCEPT ![a].freeze = @ + n,
                              ![a].expire = @ + ExpiredGift(accounts[a])]
      /\ UNCHANGED <<pending, grants, now, topUps>>
      /\ row.available_credits >= n
  BY Zenon DEF FreezeCredits
<1>3. freezes[i].status = "none"
  BY <1>1 DEF NextId
<1>4. /\ row \in Balance
      /\ row.available_credits = row.account_credits + row.gift_credits
      /\ row.gift_credits >= 0
      /\ row.account_credits = accounts[a].account_credits
      /\ row.frozen_credits = accounts[a].frozen_credits
      /\ row.frozen_account_credits = accounts[a].frozen_account_credits
      /\ row.frozen_gift_credits = accounts[a].frozen_gift_credits
      /\ ExpiredGift(accounts[a]) \in Nat
  BY RowFacts, ExpireLockedRow
<1> HIDE DEF row
<1>5. /\ row.available_credits \in Int /\ row.frozen_credits \in Int
      /\ row.account_credits \in Int /\ row.gift_credits \in Nat
      /\ row.frozen_account_credits \in Int /\ row.frozen_gift_credits \in Int
      /\ row.gift_expires_at \in Nat
  BY <1>4 DEF Balance
<1>6. n \in Nat /\ n > 0
  BY LedgerAssumption
<1>7. gift \in Nat /\ n - gift \in Nat /\ gift <= row.gift_credits
      /\ n - gift <= row.account_credits
  <2>1. row.account_credits >= 0
    BY <1>4, RowFacts
  <2>2. QED
    BY <1>2, <1>4, <1>5, <1>6, <2>1 DEF Lesser
<1>8. /\ held \in Freeze
      /\ held.account = a /\ held.amount = n /\ held.account_amount = n - gift
      /\ held.gift_amount = gift /\ held.status = "frozen"
  <2> HIDE DEF gift
  <2>1. QED
    BY <1>5, <1>6, <1>7 DEF Freeze
<1> HIDE DEF gift
<1>9. /\ row.available_credits - n \in Int
      /\ row.frozen_credits + n \in Int
      /\ row.account_credits - (n - gift) \in Int
      /\ row.gift_credits - gift \in Int
      /\ row.frozen_account_credits + (n - gift) \in Int
      /\ row.frozen_gift_credits + gift \in Int
  BY <1>5, <1>6, <1>7
<1>10. /\ new \in Balance
       /\ new.available_credits = row.available_credits - n
       /\ new.frozen_credits = row.frozen_credits + n
       /\ new.account_credits = row.account_credits - (n - gift)
       /\ new.gift_credits = row.gift_credits - gift
       /\ new.frozen_account_credits = row.frozen_account_credits + (n - gift)
       /\ new.frozen_gift_credits = row.frozen_gift_credits + gift
  BY <1>4, <1>9 DEF Balance
<1> HIDE DEF held, new
<1>11. TypeOK'
  <2>1. txns' \in [Accounts -> Totals]
    <3>1. /\ txns[a].freeze + n \in Nat
          /\ txns[a].expire + ExpiredGift(accounts[a]) \in Nat
      BY <1>4, <1>6, RowFacts DEF Totals
    <3>2. QED
      BY ZenonT(60), <1>2, <3>1, RowFacts DEF LedgerInv, TypeOK, Totals
  <2>2. freezes' \in [FreezeIds -> Freeze]
    BY <1>1, <1>8 DEF LedgerInv, TypeOK
  <2>3. QED
    BY <1>2, <1>10, <2>1, <2>2 DEF LedgerInv, TypeOK
<1>12. /\ freezes'[i] = held
       /\ \A j \in FreezeIds : j # i => freezes'[j] = freezes[j]
  BY <1>1 DEF LedgerInv, TypeOK
<1>13. /\ AccountPart(a)[i] = 0 /\ GiftPart(a)[i] = 0
       /\ AccountPart(a)'[i] = n - gift /\ GiftPart(a)'[i] = gift
  BY <1>3, <1>8, <1>12, PartOfRow DEF HeldOf, Active
<1>14. OpenTransactionsAreCurrent'
  BY <1>2, <1>3, <1>12 DEF LedgerInv, OpenTransactionsAreCurrent, Active
<1>15. /\ new.available_credits = new.account_credits + new.gift_credits
       /\ new.account_credits >= 0 /\ new.gift_credits >= 0
  BY <1>4, <1>5, <1>6, <1>7, <1>10
<1>16. new.frozen_credits = new.frozen_account_credits + new.frozen_gift_credits
  <2>1. row.frozen_credits = row.frozen_account_credits + row.frozen_gift_credits
    BY <1>4 DEF LedgerInv, BucketsAddUp
  <2>2. QED
    BY <1>5, <1>6, <1>7, <1>10, <2>1
<1>17. /\ new.frozen_account_credits =
            accounts[a].frozen_account_credits - AccountPart(a)[i] + AccountPart(a)'[i]
       /\ new.frozen_gift_credits =
            accounts[a].frozen_gift_credits - GiftPart(a)[i] + GiftPart(a)'[i]
  BY <1>4, <1>5, <1>7, <1>10, <1>13
<1>18. /\ freezes'[i].account = a
       /\ freezes'[i].amount = freezes'[i].account_amount + freezes'[i].gift_amount
       /\ Active(i) => freezes[i].account = a
  BY <1>3, <1>6, <1>7, <1>8, <1>12 DEF Active
<1>19. QED
  BY <1>2, <1>10, <1>11, <1>12, <1>14, <1>15, <1>16, <1>17, <1>18, ReservationChange

LEMMA NextLedgerInv == LedgerInv /\ [Next]_vars => LedgerInv'
<1> SUFFICES ASSUME LedgerInv, [Next]_vars PROVE LedgerInv'
  OBVIOUS
<1>1. CASE Tick
  BY <1>1, TickStep
<1>2. CASE \E a \in Accounts : ExpireAvailableGifts(a)
  BY <1>2, ExpireStep
<1>3. CASE \E a \in Accounts, d \in Days, n \in GiftAmounts : GrantDailyGift(a, d, n)
  BY <1>3, GrantStep
<1>4. CASE \E a \in Accounts, t \in Tasks, f \in Features, n \in FreezeAmounts :
             FreezeCredits(a, t, f, n)
  BY <1>4, FreezeStep
<1>5. CASE \E a \in Accounts, n \in TopUps : AdminAdjustAccount(a, n)
  BY <1>5, AdjustStep, LedgerAssumption
<1>6. CASE \E a \in Accounts, n \in TopUps : AdminAdjustAccount(a, -n)
  <2>1. PICK a \in Accounts, n \in TopUps : AdminAdjustAccount(a, -n)
    BY <1>6
  <2>2. -n \in Int
    BY LedgerAssumption
  <2>3. QED
    BY <2>1, <2>2, AdjustStep
<1>7. CASE \E a \in Accounts, n \in TopUps : CreditRecharge(a, n)
  BY <1>7, RechargeStep
<1>8. CASE \E t \in Tasks, final \in FreezeAmounts \cup {0} :
             ConfirmTaskFreezeBegin(t, final)
  BY <1>8, ConfirmBeginStep
<1>9. CASE \E t \in Tasks : ReleaseTaskFreezeBegin(t)
  BY <1>9, ReleaseBeginStep
<1>10. CASE \E i \in FreezeIds : ConfirmTaskFreezeCommit(i)
  BY <1>10, ConfirmCommitStep
<1>11. CASE \E i \in FreezeIds : ReleaseTaskFreezeCommit(i)
  BY <1>11, ReleaseCommitStep
<1>12. CASE \E i \in FreezeIds : Rollback(i)
  BY <1>12, RollbackStep
<1>13. CASE UNCHANGED vars
  BY <1>13 DEF vars, LedgerInv, TypeOK, BucketsAddUp, FrozenIsReserved, NoOverdraft,
     RowsAddUp, OpenTransactionsAreCurrent, HeldAccountPoints, HeldGiftPoints,
     AccountPart, GiftPart, HeldOf, Active
<1>14. QED
  BY <1>1, <1>2, <1>3, <1>4, <1>5, <1>6, <1>7, <1>8, <1>9, <1>10, <1>11, <1>12,
     <1>13, Zenon DEF Next

-----------------------------------------------------------------------------
\* The inductive invariant holds in every state.
THEOREM LedgerInvariant == Spec => []LedgerInv
<1>1. Init => LedgerInv
  BY InitLedgerInv
<1>2. LedgerInv /\ [Next]_vars => LedgerInv'
  BY NextLedgerInv
<1>3. QED
  BY <1>1, <1>2, PTL DEF Spec

\* Every table row keeps its shape: no column ever leaves its type.
THEOREM LedgerTypeCorrect == Spec => []TypeOK
<1>1. LedgerInv => TypeOK
  BY DEF LedgerInv
<1>2. QED
  BY <1>1, LedgerInvariant, PTL

\* The totals of a balance row equal the sums of its buckets, always.
THEOREM LedgerBucketsAddUp == Spec => []BucketsAddUp
<1>1. LedgerInv => BucketsAddUp
  BY DEF LedgerInv
<1>2. QED
  BY <1>1, LedgerInvariant, PTL

\* The frozen buckets are exactly what the active reservations hold.
THEOREM LedgerFrozenIsReserved == Spec => []FrozenIsReserved
<1>1. LedgerInv => FrozenIsReserved
  BY DEF LedgerInv
<1>2. QED
  BY <1>1, LedgerInvariant, PTL

\* No sequence of reservations, settlements, releases and adjustments takes
\* any bucket of any account below zero.
THEOREM LedgerNoOverdraft == Spec => []NoOverdraft
<1>1. LedgerInv => NoOverdraft
  BY DEF LedgerInv
<1>2. QED
  BY <1>1, LedgerInvariant, PTL

\* A freeze row locked before the wait for the account row is still active,
\* and covers the amount to be settled, when the account row is written.
THEOREM LedgerOpenTransactionsAreCurrent == Spec => []OpenTransactionsAreCurrent
<1>1. LedgerInv => OpenTransactionsAreCurrent
  BY DEF LedgerInv
<1>2. QED
  BY <1>1, LedgerInvariant, PTL

-----------------------------------------------------------------------------
(***************************************************************************)
(* The transaction log explains every balance: LedgerReconciles.            *)
(***************************************************************************)
\* What LedgerReconciles says of one account.
Explains(log, row) ==
  /\ row.available_credits + row.frozen_credits =
       log.signup_grant + log.gift + log.recharge + log.admin_credit
         - log.admin_debit - log.consume - log.expire
  /\ row.total_used_credits = log.consume

\* LedgerReconciles, account by account.
LEMMA ReconcilesIsExplained ==
  LedgerReconciles <=> \A a \in Accounts : Explains(txns[a], accounts[a])
BY DEF LedgerReconciles, Explains

\* Only one account and its log change, and the new log explains the new row.
LEMMA Entry ==
  ASSUME LedgerInv, LedgerReconciles, NEW a \in Accounts, NEW new, NEW log,
         accounts' = [accounts EXCEPT ![a] = new],
         txns' = [txns EXCEPT ![a] = log],
         Explains(log, new)
  PROVE  LedgerReconciles'
<1>1. \A b \in Accounts : Explains(txns[b], accounts[b])
  BY ReconcilesIsExplained
<1>2. /\ accounts'[a] = new /\ txns'[a] = log
      /\ \A b \in Accounts : b # a => accounts'[b] = accounts[b] /\ txns'[b] = txns[b]
  BY DEF LedgerInv, TypeOK
<1>3. \A b \in Accounts : Explains(txns'[b], accounts'[b])
  BY <1>1, <1>2
<1>4. QED
  BY <1>3 DEF LedgerReconciles, Explains

\* An account and its log before the step, after the expiry pass.
LEMMA Before ==
  ASSUME LedgerInv, LedgerReconciles, NEW a \in Accounts
  PROVE  LET row == ExpireLocked(accounts[a])
             e == ExpiredGift(accounts[a]) IN
         /\ txns \in [Accounts -> Totals] /\ txns[a] \in Totals
         /\ accounts[a] \in Balance /\ row \in Balance /\ e \in Nat
         /\ Explains(txns[a], accounts[a])
         /\ row.available_credits = accounts[a].available_credits - e
         /\ row.frozen_credits = accounts[a].frozen_credits
         /\ row.total_used_credits = accounts[a].total_used_credits
<1>1. Explains(txns[a], accounts[a])
  BY ReconcilesIsExplained
<1>2. QED
  BY <1>1, RowFacts, ExpireLockedRow DEF LedgerInv, TypeOK

-----------------------------------------------------------------------------
(***************************************************************************)
(* One lemma per operation that writes a balance: the rows it adds to       *)
(* credit_transactions account for what it does to the balance.             *)
(***************************************************************************)
LEMMA ExpireEntry ==
  ASSUME LedgerInv, LedgerReconciles, NEW a \in Accounts, ExpireAvailableGifts(a)
  PROVE  LedgerReconciles'
<1> DEFINE row == ExpireLocked(accounts[a])
           e == ExpiredGift(accounts[a])
           log == [txns[a] EXCEPT !.expire = txns[a].expire + e]
<1>1. accounts' = [accounts EXCEPT ![a] = row] /\ txns' = [txns EXCEPT ![a] = log]
  BY DEF ExpireAvailableGifts
<1>2. /\ txns[a] \in Totals /\ accounts[a] \in Balance /\ row \in Balance /\ e \in Nat
      /\ Explains(txns[a], accounts[a])
      /\ row.available_credits = accounts[a].available_credits - e
      /\ row.frozen_credits = accounts[a].frozen_credits
      /\ row.total_used_credits = accounts[a].total_used_credits
  BY Before
<1> HIDE DEF row, e
<1>3. Explains(log, row)
  BY <1>2 DEF Explains, Totals, Balance
<1>4. QED
  BY <1>1, <1>3, Entry

LEMMA GrantEntry ==
  ASSUME LedgerInv, LedgerReconciles, NEW a \in Accounts, NEW d \in Days,
         NEW n \in GiftAmounts, GrantDailyGift(a, d, n)
  PROVE  LedgerReconciles'
<1> DEFINE row == ExpireLocked(accounts[a])
           e == ExpiredGift(accounts[a])
           new == [row EXCEPT !.available_credits = row.available_credits + n,
                              !.gift_credits = row.gift_credits + n,
                              !.gift_expires_at = GiftExpiry(d)]
           log == [txns[a] EXCEPT !.gift = txns[a].gift + n,
                                  !.expire = txns[a].expire + e]
<1>1. /\ accounts' = [accounts EXCEPT ![a] = new]
      /\ txns' = [txns EXCEPT ![a].gift = @ + n, ![a].expire = @ + e]
  BY DEF GrantDailyGift
<1>2. /\ txns \in [Accounts -> Totals] /\ txns[a] \in Totals
      /\ accounts[a] \in Balance /\ row \in Balance /\ e \in Nat
      /\ Explains(txns[a], accounts[a])
      /\ row.available_credits = accounts[a].available_credits - e
      /\ row.frozen_credits = accounts[a].frozen_credits
      /\ row.total_used_credits = accounts[a].total_used_credits
  BY Before
<1>3. n \in Nat
  BY LedgerAssumption
<1> HIDE DEF row, e
<1>4. txns' = [txns EXCEPT ![a] = log]
  BY <1>1, <1>2 DEF Totals
<1>5. Explains(log, new)
  BY <1>2, <1>3 DEF Explains, Totals, Balance
<1>6. QED
  BY <1>1, <1>4, <1>5, Entry

LEMMA FreezeEntry ==
  ASSUME LedgerInv, LedgerReconciles, NEW a \in Accounts, NEW t \in Tasks,
         NEW f \in Features, NEW n \in FreezeAmounts, FreezeCredits(a, t, f, n)
  PROVE  LedgerReconciles'
<1> DEFINE row == ExpireLocked(accounts[a])
           e == ExpiredGift(accounts[a])
           gift == Lesser(row.gift_credits, n)
           new == [row EXCEPT
                     !.available_credits = row.available_credits - n,
                     !.frozen_credits = row.frozen_credits + n,
                     !.account_credits = row.account_credits - (n - gift),
                     !.gift_credits = row.gift_credits - gift,
                     !.frozen_account_credits = row.frozen_account_credits + (n - gift),
                     !.frozen_gift_credits = row.frozen_gift_credits + gift]
           log == [txns[a] EXCEPT !.freeze = txns[a].freeze + n,
                                  !.expire = txns[a].expire + e]
<1>1. /\ accounts' = [accounts EXCEPT ![a] = new]
      /\ txns' = [txns EXCEPT ![a].freeze = @ + n, ![a].expire = @ + e]
  BY Zenon DEF FreezeCredits
<1>2. /\ txns \in [Accounts -> Totals] /\ txns[a] \in Totals
      /\ accounts[a] \in Balance /\ row \in Balance /\ e \in Nat
      /\ Explains(txns[a], accounts[a])
      /\ row.available_credits = accounts[a].available_credits - e
      /\ row.frozen_credits = accounts[a].frozen_credits
      /\ row.total_used_credits = accounts[a].total_used_credits
  BY Before
<1>3. n \in Nat
  BY LedgerAssumption
<1> HIDE DEF row, e, gift
<1>4. txns' = [txns EXCEPT ![a] = log]
  BY <1>1, <1>2 DEF Totals
<1>5. /\ new.available_credits = row.available_credits - n
      /\ new.frozen_credits = row.frozen_credits + n
      /\ new.total_used_credits = row.total_used_credits
  BY <1>2 DEF Balance
<1> HIDE DEF new
<1>6. Explains(log, new)
  BY <1>2, <1>3, <1>5 DEF Explains, Totals, Balance
<1>7. QED
  BY <1>1, <1>4, <1>6, Entry

LEMMA AdjustEntry ==
  ASSUME LedgerInv, LedgerReconciles, NEW a \in Accounts, NEW n \in Int,
         AdminAdjustAccount(a, n)
  PROVE  LedgerReconciles'
<1> DEFINE row == accounts[a]
           new == [row EXCEPT !.available_credits = @ + n,
                              !.account_credits = @ + n]
           credit == [txns[a] EXCEPT !.admin_credit = @ + n]
           debit == [txns[a] EXCEPT !.admin_debit = @ - n]
<1>1. /\ accounts' = [accounts EXCEPT ![a] = new]
      /\ n > 0 => txns' = [txns EXCEPT ![a] = credit]
      /\ ~(n > 0) => txns' = [txns EXCEPT ![a] = debit]
  BY DEF AdminAdjustAccount
<1>2. txns[a] \in Totals /\ row \in Balance /\ Explains(txns[a], row)
  BY Before
<1> DEFINE old == txns[a]
<1>3. /\ old.signup_grant \in Int /\ old.gift \in Int /\ old.recharge \in Int
      /\ old.admin_credit \in Int /\ old.admin_debit \in Int
      /\ old.consume \in Int /\ old.expire \in Int
      /\ row.available_credits \in Int /\ row.frozen_credits \in Int
      /\ n \in Int /\ Explains(old, row) /\ old = txns[a]
      /\ row = accounts[a]
  BY <1>2 DEF Totals, Balance
<1> HIDE DEF row, old
<1>4. /\ new.available_credits = row.available_credits + n
      /\ new.frozen_credits = row.frozen_credits
      /\ new.total_used_credits = row.total_used_credits
  BY <1>2 DEF Balance
<1> HIDE DEF new
<1>5. CASE n > 0
  <2>1. /\ credit.admin_credit = old.admin_credit + n
        /\ credit.signup_grant = old.signup_grant /\ credit.gift = old.gift
        /\ credit.recharge = old.recharge /\ credit.admin_debit = old.admin_debit
        /\ credit.consume = old.consume /\ credit.expire = old.expire
    BY <1>2, <1>3 DEF Totals
  <2> HIDE DEF credit
  <2>2. Explains(credit, new)
    <3>1. row.available_credits + n + row.frozen_credits =
            old.signup_grant + old.gift + old.recharge + old.admin_credit
              - old.admin_debit - old.consume - old.expire + n
      BY <1>3 DEF Explains
    <3>2. QED
      BY <1>3, <1>4, <2>1, <3>1 DEF Explains
  <2>3. txns' = [txns EXCEPT ![a] = credit]
    BY <1>1, <1>5
  <2>4. QED
    BY <1>1, <2>2, <2>3, Entry
<1>6. CASE ~(n > 0)
  <2>1. /\ debit.admin_debit = old.admin_debit - n
        /\ debit.signup_grant = old.signup_grant /\ debit.gift = old.gift
        /\ debit.recharge = old.recharge /\ debit.admin_credit = old.admin_credit
        /\ debit.consume = old.consume /\ debit.expire = old.expire
    BY <1>2, <1>3 DEF Totals
  <2> HIDE DEF debit
  <2>2. Explains(debit, new)
    <3>1. row.available_credits + n + row.frozen_credits =
            old.signup_grant + old.gift + old.recharge + old.admin_credit
              - old.admin_debit - old.consume - old.expire + n
      BY <1>3 DEF Explains
    <3>2. QED
      BY <1>3, <1>4, <2>1, <3>1 DEF Explains
  <2>3. txns' = [txns EXCEPT ![a] = debit]
    BY <1>1, <1>6
  <2>4. QED
    BY <1>1, <2>2, <2>3, Entry
<1>7. QED
  BY <1>5, <1>6

LEMMA RechargeEntry ==
  ASSUME LedgerInv, LedgerReconciles, NEW a \in Accounts, NEW n \in TopUps,
         CreditRecharge(a, n)
  PROVE  LedgerReconciles'
<1> DEFINE row == ExpireLocked(accounts[a])
           e == ExpiredGift(accounts[a])
           new == [row EXCEPT !.available_credits = row.available_credits + n,
                              !.account_credits = row.account_credits + n]
           log == [txns[a] EXCEPT !.recharge = txns[a].recharge + n,
                                  !.expire = txns[a].expire + e]
<1>1. /\ accounts' = [accounts EXCEPT ![a] = new]
      /\ txns' = [txns EXCEPT ![a].recharge = @ + n, ![a].expire = @ + e]
  BY DEF CreditRecharge
<1>2. /\ txns \in [Accounts -> Totals] /\ txns[a] \in Totals
      /\ accounts[a] \in Balance /\ row \in Balance /\ e \in Nat
      /\ Explains(txns[a], accounts[a])
      /\ row.available_credits = accounts[a].available_credits - e
      /\ row.frozen_credits = accounts[a].frozen_credits
      /\ row.total_used_credits = accounts[a].total_used_credits
  BY Before
<1>3. n \in Nat
  BY LedgerAssumption
<1> HIDE DEF row, e
<1>4. txns' = [txns EXCEPT ![a] = log]
  BY <1>1, <1>2 DEF Totals
<1>5. Explains(log, new)
  BY <1>2, <1>3 DEF Explains, Totals, Balance
<1>6. QED
  BY <1>1, <1>4, <1>5, Entry

LEMMA ConfirmEntry ==
  ASSUME LedgerInv, LedgerReconciles, NEW i \in FreezeIds, ConfirmTaskFreezeCommit(i)
  PROVE  LedgerReconciles'
<1>1. Active(i) /\ pending[i].final_amount <= freezes[i].amount
  <2>1. pending[i].op = "confirm"
    BY DEF ConfirmTaskFreezeCommit
  <2>2. QED
    BY <2>1, LockedIsCurrent DEF Idle
<1>2. PICK a \in Accounts : freezes[i].account = a
  BY <1>1 DEF LedgerInv, RowsAddUp
<1> DEFINE fz == freezes[i]
           row == accounts[a]
           final == pending[i].final_amount
           giftRefund == GiftRefund(fz, final)
           gift == IF pending[i].expired THEN 0 ELSE giftRefund
           back == AccountRefund(fz, final)
           lost == giftRefund - gift
           new == [row EXCEPT !.available_credits = @ + (back + gift),
                              !.frozen_credits = @ - fz.amount,
                              !.total_used_credits = @ + final,
                              !.account_credits = @ + back,
                              !.gift_credits = @ + gift,
                              !.frozen_account_credits = @ - fz.account_amount,
                              !.frozen_gift_credits = @ - fz.gift_amount]
           log == [txns[a] EXCEPT !.release = @ + (back + gift),
                                  !.consume = @ + final,
                                  !.expire = @ + lost]
<1>3. /\ accounts' = [accounts EXCEPT ![a] = new]
      /\ txns' = [txns EXCEPT ![a].release = @ + (back + gift),
                              ![a].consume = @ + final,
                              ![a].expire = @ + lost]
  BY <1>2, Zenon DEF ConfirmTaskFreezeCommit
<1>4. /\ fz.amount = fz.account_amount + fz.gift_amount
      /\ fz.amount \in Nat /\ fz.account_amount \in Nat /\ fz.gift_amount \in Nat
      /\ row \in Balance /\ txns[a] \in Totals
  BY <1>1, <1>2, HeldFacts
<1>5. final \in Nat /\ final <= fz.amount
  BY <1>1 DEF LedgerInv, TypeOK, Pending
<1>6. txns \in [Accounts -> Totals] /\ Explains(txns[a], row)
  BY Before
<1>7. row = accounts[a]
  OBVIOUS
<1> HIDE DEF fz, row, final
<1>8. /\ giftRefund \in Nat /\ back \in Nat
      /\ fz.amount = final + back + giftRefund
  BY <1>4, <1>5 DEF GiftRefund, AccountRefund, GiftConsumed, Lesser
<1> HIDE DEF giftRefund, back
<1>9. gift \in Nat /\ lost \in Nat /\ giftRefund = gift + lost
  BY <1>8
<1> HIDE DEF gift, lost
<1>10. /\ new.available_credits = row.available_credits + (back + gift)
       /\ new.frozen_credits = row.frozen_credits - fz.amount
       /\ new.total_used_credits = row.total_used_credits + final
  BY <1>4 DEF Balance
<1> HIDE DEF new
<1>11. txns' = [txns EXCEPT ![a] = log]
  BY <1>3, <1>4, <1>6 DEF Totals
<1>12. Explains(log, new)
  BY <1>4, <1>5, <1>6, <1>8, <1>9, <1>10 DEF Explains, Totals, Balance
<1>13. QED
  BY <1>3, <1>11, <1>12, Entry

LEMMA ReleaseEntry ==
  ASSUME LedgerInv, LedgerReconciles, NEW i \in FreezeIds, ReleaseTaskFreezeCommit(i)
  PROVE  LedgerReconciles'
<1>1. Active(i)
  <2>1. pending[i].op = "release"
    BY DEF ReleaseTaskFreezeCommit
  <2>2. QED
    BY <2>1, LockedIsCurrent DEF Idle
<1>2. PICK a \in Accounts : freezes[i].account = a
  BY <1>1 DEF LedgerInv, RowsAddUp
<1> DEFINE fz == freezes[i]
           row == accounts[a]
           gift == IF pending[i].expired THEN 0 ELSE fz.gift_amount
           back == fz.account_amount
           lost == fz.gift_amount - gift
           new == [row EXCEPT !.available_credits = @ + (back + gift),
                              !.frozen_credits = @ - fz.amount,
                              !.account_credits = @ + back,
                              !.gift_credits = @ + gift,
                              !.frozen_account_credits = @ - fz.account_amount,
                              !.frozen_gift_credits = @ - fz.gift_amount]
           log == [txns[a] EXCEPT !.release = @ + (back + gift),
                                  !.expire = @ + lost]
<1>3. /\ accounts' = [accounts EXCEPT ![a] = new]
      /\ txns' = [txns EXCEPT ![a].release = @ + (back + gift), ![a].expire = @ + lost]
  BY <1>2, Zenon DEF ReleaseTaskFreezeCommit
<1>4. /\ fz.amount = fz.account_amount + fz.gift_amount
      /\ fz.amount \in Nat /\ fz.account_amount \in Nat /\ fz.gift_amount \in Nat
      /\ row \in Balance /\ txns[a] \in Totals
  BY <1>1, <1>2, HeldFacts
<1>5. txns \in [Accounts -> Totals] /\ Explains(txns[a], row)
  BY Before
<1>6. row = accounts[a] /\ back = fz.account_amount
  OBVIOUS
<1> HIDE DEF fz, row, back
<1>7. gift \in Nat /\ lost \in Nat /\ fz.gift_amount = gift + lost
  BY <1>4
<1> HIDE DEF gift, lost
<1>8. /\ new.available_credits = row.available_credits + (back + gift)
      /\ new.frozen_credits = row.frozen_credits - fz.amount
      /\ new.total_used_credits = row.total_used_credits
  BY <1>4 DEF Balance
<1> HIDE DEF new
<1>9. txns' = [txns EXCEPT ![a] = log]
  BY <1>3, <1>4, <1>5 DEF Totals
<1>10. Explains(log, new)
  BY <1>4, <1>5, <1>6, <1>7, <1>8 DEF Explains, Totals, Balance
<1>11. QED
  BY <1>3, <1>6, <1>9, <1>10, Entry

-----------------------------------------------------------------------------
\* An account opens with its registration points, logged as signup_grant.
LEMMA InitReconciles == Init => LedgerReconciles
<1> SUFFICES ASSUME Init PROVE LedgerReconciles
  OBVIOUS
<1>1. PICK verified \in SUBSET Accounts :
        LET opening(a) == IF a \in verified THEN SignupPoints ELSE 0
        IN  /\ accounts = [a \in Accounts |-> OpeningBalance(opening(a))]
            /\ txns = [a \in Accounts |->
                         [NoTotals EXCEPT !.signup_grant = opening(a)]]
  BY DEF Init
<1>2. SUFFICES ASSUME NEW a \in Accounts PROVE Explains(txns[a], accounts[a])
  BY ReconcilesIsExplained
<1>3. PICK n \in Nat : /\ accounts[a] = OpeningBalance(n)
                        /\ txns[a] = [NoTotals EXCEPT !.signup_grant = n]
  BY <1>1, LedgerAssumption
<1>4. QED
  BY <1>3 DEF Explains, OpeningBalance, NoTotals

\* A step that writes neither an account nor the log.
LEMMA NoEntry ==
  ASSUME LedgerReconciles, UNCHANGED <<accounts, txns>>
  PROVE  LedgerReconciles'
BY DEF LedgerReconciles

\* Every step of the ledger keeps the log and the balances in agreement.
LEMMA NextReconciles ==
  LedgerInv /\ LedgerReconciles /\ [Next]_vars => LedgerReconciles'
<1> SUFFICES ASSUME LedgerInv, LedgerReconciles, [Next]_vars PROVE LedgerReconciles'
  OBVIOUS
<1>1. CASE \E a \in Accounts : ExpireAvailableGifts(a)
  BY <1>1, ExpireEntry
<1>2. CASE \E a \in Accounts, d \in Days, n \in GiftAmounts : GrantDailyGift(a, d, n)
  BY <1>2, GrantEntry
<1>3. CASE \E a \in Accounts, t \in Tasks, f \in Features, n \in FreezeAmounts :
             FreezeCredits(a, t, f, n)
  BY <1>3, FreezeEntry
<1>4. CASE \E a \in Accounts, n \in TopUps : AdminAdjustAccount(a, n)
  BY <1>4, AdjustEntry, LedgerAssumption
<1>5. CASE \E a \in Accounts, n \in TopUps : AdminAdjustAccount(a, -n)
  <2>1. PICK a \in Accounts, n \in TopUps : AdminAdjustAccount(a, -n)
    BY <1>5
  <2>2. -n \in Int
    BY LedgerAssumption
  <2>3. QED
    BY <2>1, <2>2, AdjustEntry
<1>6. CASE \E a \in Accounts, n \in TopUps : CreditRecharge(a, n)
  BY <1>6, RechargeEntry
<1>7. CASE \E i \in FreezeIds : ConfirmTaskFreezeCommit(i)
  BY <1>7, ConfirmEntry
<1>8. CASE \E i \in FreezeIds : ReleaseTaskFreezeCommit(i)
  BY <1>8, ReleaseEntry
<1>9. CASE Tick
  BY <1>9, NoEntry DEF Tick
<1>10. CASE \E t \in Tasks, final \in FreezeAmounts \cup {0} :
              ConfirmTaskFreezeBegin(t, final)
  BY <1>10, NoEntry DEF ConfirmTaskFreezeBegin
<1>11. CASE \E t \in Tasks : ReleaseTaskFreezeBegin(t)
  BY <1>11, NoEntry DEF ReleaseTaskFreezeBegin
<1>12. CASE \E i \in FreezeIds : Rollback(i)
  BY <1>12, NoEntry DEF Rollback
<1>13. CASE UNCHANGED vars
  BY <1>13, NoEntry DEF vars
<1>14. QED
  BY <1>1, <1>2, <1>3, <1>4, <1>5, <1>6, <1>7, <1>8, <1>9, <1>10, <1>11, <1>12,
     <1>13, Zenon DEF Next

-----------------------------------------------------------------------------
\* Every balance, at every moment, is what the rows of credit_transactions add
\* up to: no interleaving of gifts, expiries, reservations, settlements,
\* releases and top-ups creates or loses a point the log does not explain.
THEOREM LedgerLogReconciles == Spec => []LedgerReconciles
<1>1. Init => LedgerInv /\ LedgerReconciles
  BY InitLedgerInv, InitReconciles
<1>2. LedgerInv /\ LedgerReconciles /\ [Next]_vars => (LedgerInv /\ LedgerReconciles)'
  BY NextLedgerInv, NextReconciles
<1>3. QED
  BY <1>1, <1>2, PTL DEF Spec

-----------------------------------------------------------------------------
(***************************************************************************)
(* What a step of the ledger does to credit_freezes.                        *)
(***************************************************************************)
Reserves(i, t, n) ==
  /\ freezes[i].status = "none"
  /\ ActiveFreezes(t) = {}
  /\ freezes'[i].task = t
  /\ freezes'[i].amount = n
  /\ freezes'[i].status = "frozen"
  /\ freezes'[i].gift_amount > 0 =>
       freezes'[i].gift_expires_at = Never \/ freezes'[i].gift_expires_at > now
  /\ \A j \in FreezeIds : j # i => freezes'[j] = freezes[j]

Resolves(i, st) ==
  /\ Active(i)
  /\ freezes' = [freezes EXCEPT ![i].status = st]

\* What the expiry pass leaves in the gift bucket has not expired.
LEMMA NotExpired ==
  ASSUME LedgerInv, NEW a \in Accounts, NEW n \in FreezeAmounts,
         Lesser(ExpireLocked(accounts[a]).gift_credits, n) > 0
  PROVE  \/ ExpireLocked(accounts[a]).gift_expires_at = Never
         \/ ExpireLocked(accounts[a]).gift_expires_at > now
<1>1. n \in Nat /\ accounts[a] \in Balance /\ now \in Nat
  BY LedgerAssumption, RowFacts
<1>2. CASE IsExpired(accounts[a])
  BY <1>1, <1>2 DEF ExpireLocked, Balance
<1>3. CASE ~IsExpired(accounts[a])
  <2>1. ExpireLocked(accounts[a]) = accounts[a]
    BY <1>3 DEF ExpireLocked
  <2>2. accounts[a].gift_credits \in Int /\ accounts[a].gift_expires_at \in Nat
    BY <1>1 DEF Balance
  <2>3. accounts[a].gift_credits > 0
    BY <1>1, <2>1, <2>2 DEF Lesser
  <2>4. QED
    BY <1>1, <1>3, <2>1, <2>2, <2>3 DEF IsExpired
<1>4. QED
  BY <1>2, <1>3

\* A freeze inserts one row, for a task that has no active one.
LEMMA FreezeReserves ==
  ASSUME LedgerInv, NEW a \in Accounts, NEW t \in Tasks, NEW f \in Features,
         NEW n \in FreezeAmounts, FreezeCredits(a, t, f, n)
  PROVE  \E i \in FreezeIds : Reserves(i, t, n)
<1> DEFINE row == ExpireLocked(accounts[a])
           gift == Lesser(row.gift_credits, n)
           new == [account |-> a, task |-> t, feature |-> f, amount |-> n,
                   account_amount |-> n - gift, gift_amount |-> gift,
                   gift_expires_at |-> row.gift_expires_at, status |-> "frozen"]
<1>1. /\ ~HasActiveFreeze(t)
      /\ \E i \in FreezeIds : NextId(i) /\ freezes' = [freezes EXCEPT ![i] = new]
  BY DEF FreezeCredits
<1>2. /\ new.task = t /\ new.amount = n /\ new.status = "frozen"
      /\ new.gift_amount > 0 => new.gift_expires_at = Never \/ new.gift_expires_at > now
  BY NotExpired
<1> HIDE DEF new
<1>3. PICK i \in FreezeIds : NextId(i) /\ freezes' = [freezes EXCEPT ![i] = new]
  BY <1>1
<1>4. DOMAIN freezes = FreezeIds
  BY DEF LedgerInv, TypeOK
<1>5. Reserves(i, t, n)
  BY <1>1, <1>2, <1>3, <1>4 DEF Reserves, NextId, HasActiveFreeze
<1>6. QED
  BY <1>5

\* A commit changes the status of one active row.
LEMMA CommitResolves ==
  ASSUME LedgerInv, NEW i \in FreezeIds
  PROVE  /\ ConfirmTaskFreezeCommit(i) => Resolves(i, "settled")
         /\ ReleaseTaskFreezeCommit(i) => Resolves(i, "released")
<1>1. pending[i] # Idle => Active(i)
  BY LockedIsCurrent
<1>2. ConfirmTaskFreezeCommit(i) =>
        pending[i].op = "confirm" /\ freezes' = [freezes EXCEPT ![i].status = "settled"]
  BY DEF ConfirmTaskFreezeCommit
<1>3. ReleaseTaskFreezeCommit(i) =>
        pending[i].op = "release" /\ freezes' = [freezes EXCEPT ![i].status = "released"]
  BY DEF ReleaseTaskFreezeCommit
<1>4. pending[i].op \in {"confirm", "release"} => pending[i] # Idle
  BY DEF Idle
<1> QED
  BY <1>1, <1>2, <1>3, <1>4 DEF Resolves

\* Every step leaves the rows alone, inserts one, or resolves one.
LEMMA StepOfRows ==
  ASSUME LedgerInv, [Next]_vars
  PROVE  \/ UNCHANGED freezes
         \/ \E i \in FreezeIds, t \in Tasks, n \in FreezeAmounts : Reserves(i, t, n)
         \/ \E i \in FreezeIds, st \in {"settled", "released"} : Resolves(i, st)
<1>1. CASE \E a \in Accounts, t \in Tasks, f \in Features, n \in FreezeAmounts :
             FreezeCredits(a, t, f, n)
  BY <1>1, FreezeReserves
<1>2. CASE \E i \in FreezeIds : ConfirmTaskFreezeCommit(i) \/ ReleaseTaskFreezeCommit(i)
  BY <1>2, CommitResolves
<1>3. CASE Tick
  BY <1>3 DEF Tick
<1>4. CASE \E a \in Accounts :
             \/ ExpireAvailableGifts(a)
             \/ \E d \in Days, n \in GiftAmounts : GrantDailyGift(a, d, n)
             \/ \E n \in TopUps : \/ AdminAdjustAccount(a, n)
                                  \/ AdminAdjustAccount(a, -n)
                                  \/ CreditRecharge(a, n)
  BY ZenonT(60), <1>4 DEF ExpireAvailableGifts, GrantDailyGift, AdminAdjustAccount, CreditRecharge
<1>5. CASE \E t \in Tasks :
             \/ \E final \in FreezeAmounts \cup {0} : ConfirmTaskFreezeBegin(t, final)
             \/ ReleaseTaskFreezeBegin(t)
  BY <1>5 DEF ConfirmTaskFreezeBegin, ReleaseTaskFreezeBegin
<1>6. CASE \E i \in FreezeIds : Rollback(i)
  BY <1>6 DEF Rollback
<1>7. CASE UNCHANGED vars
  BY <1>7 DEF vars
<1>8. QED
  BY <1>1, <1>2, <1>3, <1>4, <1>5, <1>6, <1>7, Zenon DEF Next

-----------------------------------------------------------------------------
(***************************************************************************)
(* One active row for each task.                                            *)
(***************************************************************************)
\* An active row belongs to a task and reserves something.
ActiveRowsReserve ==
  \A i \in FreezeIds :
    Active(i) => freezes[i].task \in Tasks /\ freezes[i].amount \in Nat \ {0}

\* A row not inserted yet reserves no gift points.
EmptyRows ==
  \A i \in FreezeIds : freezes[i].status = "none" => freezes[i].gift_amount = 0

ContractInv == LedgerInv /\ OneActiveFreezePerTask /\ ActiveRowsReserve /\ EmptyRows

LEMMA InitContractInv == Init => ContractInv
<1>1. Init => \A i \in FreezeIds : /\ freezes[i].status = "none"
                                   /\ freezes[i].gift_amount = 0
  BY DEF Init, NoFreeze
<1>2. Init => OneActiveFreezePerTask /\ ActiveRowsReserve /\ EmptyRows
  BY <1>1 DEF OneActiveFreezePerTask, ActiveRowsReserve, EmptyRows, Active
<1>3. QED
  BY <1>2, InitLedgerInv DEF ContractInv

LEMMA NextContractInv == ContractInv /\ [Next]_vars => ContractInv'
<1> SUFFICES ASSUME ContractInv, [Next]_vars PROVE ContractInv'
  OBVIOUS
<1>1. LedgerInv /\ LedgerInv'
  BY NextLedgerInv DEF ContractInv
<1>2. CASE UNCHANGED freezes
  BY <1>1, <1>2 DEF ContractInv, OneActiveFreezePerTask, ActiveRowsReserve,
     EmptyRows, Active
<1>3. CASE \E i \in FreezeIds, t \in Tasks, n \in FreezeAmounts : Reserves(i, t, n)
  <2>1. PICK i \in FreezeIds, t \in Tasks, n \in FreezeAmounts : Reserves(i, t, n)
    BY <1>3
  <2>2. n \in Nat \ {0}
    BY LedgerAssumption
  <2>3. ActiveRowsReserve' /\ EmptyRows'
    BY <2>1, <2>2 DEF ContractInv, ActiveRowsReserve, EmptyRows, Active, Reserves
  <2>4. \A j \in FreezeIds : j # i /\ Active(j)' => freezes'[j].task # t
    BY <2>1 DEF Reserves, ActiveFreezes, Active
  <2>5. OneActiveFreezePerTask'
    BY <2>1, <2>4 DEF ContractInv, OneActiveFreezePerTask, Active, Reserves
  <2>6. QED
    BY <1>1, <2>3, <2>5 DEF ContractInv
<1>4. CASE \E i \in FreezeIds, st \in {"settled", "released"} : Resolves(i, st)
  <2>1. PICK i \in FreezeIds, st \in {"settled", "released"} : Resolves(i, st)
    BY <1>4
  <2>2. freezes \in [FreezeIds -> Freeze]
    BY <1>1 DEF LedgerInv, TypeOK
  <2>3. \A j \in FreezeIds :
          /\ Active(j)' => Active(j)
          /\ freezes'[j].task = freezes[j].task
          /\ freezes'[j].amount = freezes[j].amount
          /\ freezes'[j].status = "none" => freezes'[j] = freezes[j]
    BY <2>1, <2>2 DEF Resolves, Active, Freeze
  <2>4. OneActiveFreezePerTask' /\ ActiveRowsReserve' /\ EmptyRows'
    BY <2>3 DEF ContractInv, OneActiveFreezePerTask, ActiveRowsReserve, EmptyRows
  <2>5. QED
    BY <1>1, <2>4 DEF ContractInv
<1>5. QED
  BY <1>1, <1>2, <1>3, <1>4, StepOfRows

LEMMA ContractInvariant == Spec => []ContractInv
<1>1. ContractInv /\ [Next]_vars => ContractInv'
  BY NextContractInv
<1>2. QED
  BY <1>1, InitContractInv, PTL DEF Spec

\* A task never has two active reservations, for any number of tasks and rows:
\* what the advisory lock of freeze_credits is for.
THEOREM LedgerOneActiveFreezePerTask == Spec => []OneActiveFreezePerTask
<1>1. ContractInv => OneActiveFreezePerTask
  BY DEF ContractInv
<1>2. QED
  BY <1>1, ContractInvariant, PTL

\* A reservation is settled or released once, and never changes afterwards.
THEOREM LedgerResolvedOnce == Spec => ResolvedOnce
<1> DEFINE Once ==
      \A i \in FreezeIds :
        /\ freezes[i].status \in {"settled", "released"} => freezes'[i] = freezes[i]
        /\ Active(i) => freezes'[i] = [freezes[i] EXCEPT !.status = freezes'[i].status]
<1>1. ContractInv /\ [Next]_vars => [Once]_vars
  <2> SUFFICES ASSUME ContractInv, [Next]_vars PROVE Once
    OBVIOUS
  <2>1. LedgerInv /\ freezes \in [FreezeIds -> Freeze]
    BY DEF ContractInv, LedgerInv, TypeOK
  <2>2. \A i \in FreezeIds : freezes[i] = [freezes[i] EXCEPT !.status = freezes[i].status]
    BY <2>1 DEF Freeze
  <2>3. CASE UNCHANGED freezes
    BY <2>2, <2>3
  <2>4. CASE \E i \in FreezeIds, t \in Tasks, n \in FreezeAmounts : Reserves(i, t, n)
    <3>1. PICK i \in FreezeIds : /\ freezes[i].status = "none"
                                 /\ \A j \in FreezeIds : j # i => freezes'[j] = freezes[j]
      BY <2>4 DEF Reserves
    <3>2. QED
      BY <2>2, <3>1 DEF Active
  <2>5. CASE \E i \in FreezeIds, st \in {"settled", "released"} : Resolves(i, st)
    <3>1. PICK i \in FreezeIds, st \in {"settled", "released"} : Resolves(i, st)
      BY <2>5
    <3>2. /\ Active(i)
          /\ freezes'[i] = [freezes[i] EXCEPT !.status = st]
          /\ \A j \in FreezeIds : j # i => freezes'[j] = freezes[j]
      BY <2>1, <3>1 DEF Resolves
    <3>3. freezes'[i].status = st
      BY <2>1, <3>2 DEF Freeze
    <3>4. QED
      BY <2>2, <3>2, <3>3 DEF Active
  <2>6. QED
    BY <2>1, <2>3, <2>4, <2>5, StepOfRows
<1>2. QED
  BY <1>1, ContractInvariant, PTL DEF Spec, ResolvedOnce

\* No reservation ever takes gift points past their expiry: the expiry pass and
\* the reservation read the clock and the row under one lock.
THEOREM LedgerNoExpiredGiftReserved == Spec => NoExpiredGiftReserved
<1> DEFINE Fresh ==
      \A i \in FreezeIds :
        freezes[i].status = "none" /\ freezes'[i].gift_amount > 0 =>
          freezes'[i].gift_expires_at = Never \/ freezes'[i].gift_expires_at > now
<1>1. ContractInv /\ [Next]_vars => [Fresh]_vars
  <2> SUFFICES ASSUME ContractInv, [Next]_vars PROVE Fresh
    OBVIOUS
  <2>1. LedgerInv /\ EmptyRows /\ freezes \in [FreezeIds -> Freeze]
    BY DEF ContractInv, LedgerInv, TypeOK
  <2>2. \A i \in FreezeIds :
          freezes[i].status = "none" /\ freezes'[i] = freezes[i] =>
            ~(freezes'[i].gift_amount > 0)
    BY <2>1 DEF EmptyRows
  <2>3. CASE UNCHANGED freezes
    BY <2>2, <2>3
  <2>4. CASE \E i \in FreezeIds, t \in Tasks, n \in FreezeAmounts : Reserves(i, t, n)
    BY <2>2, <2>4 DEF Reserves
  <2>5. CASE \E i \in FreezeIds, st \in {"settled", "released"} : Resolves(i, st)
    <3>1. PICK i \in FreezeIds : /\ freezes[i].status = "frozen"
                                 /\ \A j \in FreezeIds : j # i => freezes'[j] = freezes[j]
      BY <2>1, <2>5 DEF Resolves, Active
    <3>2. QED
      BY <2>2, <3>1
  <2>6. QED
    BY <2>1, <2>3, <2>4, <2>5, StepOfRows
<1>2. QED
  BY <1>1, ContractInvariant, PTL DEF Spec, NoExpiredGiftReserved

-----------------------------------------------------------------------------
(***************************************************************************)
(* The refinement.  HeldPart and SettledPart are the summands of HeldBy and *)
(* SettledBy.                                                               *)
(***************************************************************************)
HeldPart(t) ==
  [i \in FreezeIds |-> IF i \in ActiveFreezes(t) THEN freezes[i].amount ELSE 0]
SettledPart(t) ==
  [i \in FreezeIds |->
     IF freezes[i].status = "settled" /\ freezes[i].task = t THEN 1 ELSE 0]

LEMMA SummandsType ==
  ASSUME freezes \in [FreezeIds -> Freeze], NEW t
  PROVE  /\ HeldPart(t) \in [1..MaxFreezes -> Int]
         /\ SettledPart(t) \in [1..MaxFreezes -> Int]
         /\ HeldBy(t) = Sum(HeldPart(t), MaxFreezes)
         /\ SettledBy(t) = Sum(SettledPart(t), MaxFreezes)
         /\ MaxFreezes \in Nat
BY LedgerAssumption DEF HeldPart, SettledPart, HeldBy, SettledBy, FreezeIds, Freeze

\* When one row changes, the sums change by what that row contributes.
LEMMA SummandUpdate ==
  ASSUME freezes \in [FreezeIds -> Freeze], freezes' \in [FreezeIds -> Freeze],
         NEW t, NEW i \in FreezeIds,
         \A j \in FreezeIds : j # i => freezes'[j] = freezes[j]
  PROVE  /\ HeldBy(t)' = HeldBy(t) - HeldPart(t)[i] + HeldPart(t)'[i]
         /\ SettledBy(t)' = SettledBy(t) - SettledPart(t)[i] + SettledPart(t)'[i]
<1>1. /\ HeldPart(t) \in [1..MaxFreezes -> Int]
      /\ SettledPart(t) \in [1..MaxFreezes -> Int]
      /\ HeldBy(t) = Sum(HeldPart(t), MaxFreezes)
      /\ SettledBy(t) = Sum(SettledPart(t), MaxFreezes)
      /\ MaxFreezes \in Nat
  BY SummandsType
<1>2. /\ HeldPart(t)' \in [1..MaxFreezes -> Int]
      /\ SettledPart(t)' \in [1..MaxFreezes -> Int]
  BY DEF HeldPart, SettledPart, FreezeIds, Freeze
<1>3. /\ HeldBy(t)' = Sum(HeldPart(t)', MaxFreezes)
      /\ SettledBy(t)' = Sum(SettledPart(t)', MaxFreezes)
  BY DEF HeldPart, SettledPart, HeldBy, SettledBy
<1>4. i \in 1..MaxFreezes
  BY DEF FreezeIds
<1>5. \A j \in 1..MaxFreezes : j # i =>
        /\ HeldPart(t)'[j] = HeldPart(t)[j]
        /\ SettledPart(t)'[j] = SettledPart(t)[j]
  BY DEF HeldPart, SettledPart, FreezeIds, ActiveFreezes, Active
<1>6. Sum(HeldPart(t)', MaxFreezes) =
        Sum(HeldPart(t), MaxFreezes) - HeldPart(t)[i] + HeldPart(t)'[i]
  BY <1>1, <1>2, <1>4, <1>5, SumUpdate
<1>7. Sum(SettledPart(t)', MaxFreezes) =
        Sum(SettledPart(t), MaxFreezes) - SettledPart(t)[i] + SettledPart(t)'[i]
  BY <1>1, <1>2, <1>4, <1>5, SumUpdate
<1>8. QED
  BY <1>1, <1>3, <1>6, <1>7

\* A task without an active row holds nothing.
LEMMA HoldsNothing ==
  ASSUME freezes \in [FreezeIds -> Freeze], NEW t, ActiveFreezes(t) = {}
  PROVE  HeldBy(t) = 0
<1>1. \A k \in 1..MaxFreezes : HeldPart(t)[k] = 0
  BY DEF HeldPart, FreezeIds
<1>2. QED
  BY <1>1, SummandsType, SumZero

\* A task with an active row holds what that row reserves.
LEMMA HoldsOneRow ==
  ASSUME ContractInv, NEW i \in FreezeIds, Active(i)
  PROVE  HeldBy(freezes[i].task) = freezes[i].amount
<1> DEFINE t == freezes[i].task
           z == [k \in 1..MaxFreezes |-> 0]
<1>1. freezes \in [FreezeIds -> Freeze]
  BY DEF ContractInv, LedgerInv, TypeOK
<1>2. /\ HeldPart(t) \in [1..MaxFreezes -> Int]
      /\ HeldBy(t) = Sum(HeldPart(t), MaxFreezes)
      /\ MaxFreezes \in Nat
  BY <1>1, SummandsType
<1>3. HeldPart(t)[i] = freezes[i].amount
  BY DEF HeldPart, ActiveFreezes
<1>4. \A k \in 1..MaxFreezes : k # i => HeldPart(t)[k] = 0
  BY DEF HeldPart, ActiveFreezes, FreezeIds, ContractInv, OneActiveFreezePerTask
<1>5. /\ z \in [1..MaxFreezes -> Int]
      /\ \A k \in 1..MaxFreezes : z[k] = 0
      /\ i \in 1..MaxFreezes
  BY DEF FreezeIds
<1>6. Sum(z, MaxFreezes) = 0
  BY <1>2, <1>5, SumZero
<1>7. Sum(HeldPart(t), MaxFreezes) = Sum(z, MaxFreezes) - z[i] + HeldPart(t)[i]
  <2> HIDE DEF z, t
  <2>1. \A k \in 1..MaxFreezes : k # i => HeldPart(t)[k] = z[k]
    BY <1>4, <1>5
  <2>2. QED
    BY <1>2, <1>5, <2>1, SumUpdate
<1>8. freezes[i].amount \in Nat
  BY <1>1 DEF Freeze
<1>9. QED
  BY <1>2, <1>3, <1>5, <1>6, <1>7, <1>8

LEMMA InitContract == Init => Contract!Init
<1> SUFFICES ASSUME Init PROVE Contract!Init
  OBVIOUS
<1>1. \A i \in FreezeIds : freezes[i].status = "none"
  BY DEF Init, NoFreeze
<1>2. freezes \in [FreezeIds -> Freeze]
  BY InitLedgerInv DEF LedgerInv, TypeOK
<1>3. \A t \in Tasks : HeldBy(t) = 0
  BY <1>1, <1>2, HoldsNothing DEF ActiveFreezes, Active
<1>4. \A t \in Tasks : SettledBy(t) = 0
  <2>1. \A t \in Tasks : \A k \in 1..MaxFreezes : SettledPart(t)[k] = 0
    BY <1>1 DEF SettledPart, FreezeIds
  <2>2. QED
    BY <1>2, <2>1, SummandsType, SumZero
<1>5. QED
  BY <1>3, <1>4 DEF Contract!Init

\* Inserting a row reserves its amount for its task.
LEMMA ReserveStep ==
  ASSUME ContractInv, ContractInv', NEW i \in FreezeIds, NEW t \in Tasks,
         NEW n \in FreezeAmounts, Reserves(i, t, n)
  PROVE  Contract!Freeze(t, n)
<1>1. freezes \in [FreezeIds -> Freeze] /\ freezes' \in [FreezeIds -> Freeze]
  BY DEF ContractInv, LedgerInv, TypeOK
<1>2. n \in Nat
  BY LedgerAssumption
<1>3. HeldBy(t) = 0
  BY <1>1, HoldsNothing DEF Reserves
<1>4. \A u \in Tasks : /\ HeldPart(u)[i] = 0 /\ SettledPart(u)[i] = 0
                       /\ SettledPart(u)'[i] = 0
                       /\ HeldPart(u)'[i] = IF u = t THEN n ELSE 0
  BY DEF Reserves, HeldPart, SettledPart, ActiveFreezes, Active
<1>5. \A u \in Tasks :
        /\ HeldBy(u)' = HeldBy(u) - HeldPart(u)[i] + HeldPart(u)'[i]
        /\ SettledBy(u)' = SettledBy(u) - SettledPart(u)[i] + SettledPart(u)'[i]
  BY <1>1, SummandUpdate DEF Reserves
<1>6. \A u \in Tasks : HeldBy(u) \in Int /\ SettledBy(u) \in Int
  BY <1>1, SummandsType, SumType
<1>7. \A u \in Tasks : /\ HeldBy(u)' = IF u = t THEN n ELSE HeldBy(u)
                       /\ SettledBy(u)' = SettledBy(u)
  BY <1>2, <1>3, <1>4, <1>5, <1>6
<1>8. QED
  BY <1>3, <1>7 DEF Contract!Freeze

\* Resolving a row ends the reservation of its task, and a settlement counts.
LEMMA ResolveContractStep ==
  ASSUME ContractInv, ContractInv', NEW i \in FreezeIds,
         NEW st \in {"settled", "released"}, Resolves(i, st)
  PROVE  LET t == freezes[i].task IN
         /\ t \in Tasks
         /\ HeldBy(t) \in Nat \ {0}
         /\ \A u \in Tasks :
              /\ HeldBy(u)' = IF u = t THEN 0 ELSE HeldBy(u)
              /\ SettledBy(u)' =
                   IF u = t /\ st = "settled" THEN SettledBy(u) + 1 ELSE SettledBy(u)
<1> DEFINE t == freezes[i].task
           n == freezes[i].amount
<1>1. freezes \in [FreezeIds -> Freeze] /\ freezes' \in [FreezeIds -> Freeze]
  BY DEF ContractInv, LedgerInv, TypeOK
<1>2. /\ Active(i)
      /\ freezes'[i].status = st
      /\ freezes'[i].task = t
      /\ \A j \in FreezeIds : j # i => freezes'[j] = freezes[j]
  BY <1>1 DEF Resolves, Freeze
<1>3. t \in Tasks /\ n \in Nat \ {0}
  BY <1>2 DEF ContractInv, ActiveRowsReserve
<1>4. HeldBy(t) = n
  BY <1>2, HoldsOneRow
<1>5. \A u \in Tasks : /\ HeldPart(u)[i] = IF u = t THEN n ELSE 0
                       /\ HeldPart(u)'[i] = 0
                       /\ SettledPart(u)[i] = 0
                       /\ SettledPart(u)'[i] = IF u = t /\ st = "settled" THEN 1 ELSE 0
  BY <1>2 DEF HeldPart, SettledPart, ActiveFreezes, Active
<1>6. \A u \in Tasks :
        /\ HeldBy(u)' = HeldBy(u) - HeldPart(u)[i] + HeldPart(u)'[i]
        /\ SettledBy(u)' = SettledBy(u) - SettledPart(u)[i] + SettledPart(u)'[i]
  BY <1>1, <1>2, SummandUpdate
<1>7. \A u \in Tasks : HeldBy(u) \in Int /\ SettledBy(u) \in Int
  BY <1>1, SummandsType, SumType
<1> HIDE DEF t, n
<1>8. \A u \in Tasks :
        /\ HeldBy(u)' = IF u = t THEN 0 ELSE HeldBy(u)
        /\ SettledBy(u)' =
             IF u = t /\ st = "settled" THEN SettledBy(u) + 1 ELSE SettledBy(u)
  BY <1>3, <1>4, <1>5, <1>6, <1>7
<1>9. QED
  BY <1>3, <1>4, <1>8 DEF t

LEMMA NextContract ==
  ASSUME ContractInv, ContractInv', [Next]_vars
  PROVE  [Contract!Next]_<<[t \in Tasks |-> HeldBy(t)], [t \in Tasks |-> SettledBy(t)]>>
<1>1. CASE UNCHANGED freezes
  <2>1. \A t \in Tasks : HeldBy(t)' = HeldBy(t) /\ SettledBy(t)' = SettledBy(t)
    BY <1>1 DEF HeldBy, SettledBy, ActiveFreezes, Active
  <2>2. QED
    BY <2>1
<1>2. CASE \E i \in FreezeIds, t \in Tasks, n \in FreezeAmounts : Reserves(i, t, n)
  BY <1>2, ReserveStep DEF Contract!Next
<1>3. CASE \E i \in FreezeIds, st \in {"settled", "released"} : Resolves(i, st)
  <2>1. PICK i \in FreezeIds, st \in {"settled", "released"} : Resolves(i, st)
    BY <1>3
  <2> DEFINE t == freezes[i].task
  <2>2. /\ t \in Tasks
        /\ HeldBy(t) \in Nat \ {0}
        /\ \A u \in Tasks :
             /\ HeldBy(u)' = IF u = t THEN 0 ELSE HeldBy(u)
             /\ SettledBy(u)' =
                  IF u = t /\ st = "settled" THEN SettledBy(u) + 1 ELSE SettledBy(u)
    BY <2>1, ResolveContractStep
  <2> HIDE DEF t
  <2>3. CASE st = "settled"
    <3> DEFINE h == [u \in Tasks |-> HeldBy(u)]
               c == [u \in Tasks |-> SettledBy(u)]
    <3>1. \A u \in Tasks : /\ HeldBy(u)' = IF u = t THEN 0 ELSE HeldBy(u)
                           /\ SettledBy(u)' = IF u = t THEN SettledBy(u) + 1
                                             ELSE SettledBy(u)
      BY <2>2, <2>3
    <3>2. h' = [h EXCEPT ![t] = 0] /\ c' = [c EXCEPT ![t] = @ + 1]
      BY <2>2, <3>1
    <3>3. h[t] > 0 /\ 0 <= h[t] /\ 0 \in 0..h[t]
      BY <2>2
    <3>4. Contract!Confirm(t, 0)
      BY <3>2, <3>3, Zenon DEF Contract!Confirm
    <3>5. QED
      BY <2>2, <3>3, <3>4 DEF Contract!Next
  <2>4. CASE st = "released"
    <3> DEFINE h == [u \in Tasks |-> HeldBy(u)]
               c == [u \in Tasks |-> SettledBy(u)]
    <3>1. \A u \in Tasks : /\ HeldBy(u)' = IF u = t THEN 0 ELSE HeldBy(u)
                           /\ SettledBy(u)' = SettledBy(u)
      BY <2>2, <2>4
    <3>2. h' = [h EXCEPT ![t] = 0] /\ c' = c
      BY <2>2, <3>1
    <3>3. h[t] > 0
      BY <2>2
    <3>4. Contract!Release(t)
      BY <3>2, <3>3, Zenon DEF Contract!Release
    <3>5. QED
      BY <2>2, <3>4 DEF Contract!Next
  <2>5. QED
    BY <2>3, <2>4
<1>4. QED
  BY <1>1, <1>2, <1>3, StepOfRows DEF ContractInv

\* The ledger keeps its contract with the rest of the program: task by task
\* its rows are one reservation that is made, and then settled or released.
THEOREM LedgerImplementsReservation == Spec => ImplementsReservation
<1>1. ContractInv /\ ContractInv' /\ [Next]_vars =>
        [Contract!Next]_<<[t \in Tasks |-> HeldBy(t)], [t \in Tasks |-> SettledBy(t)]>>
  BY NextContract
<1>2. QED
  BY <1>1, InitContract, ContractInvariant, PTL
     DEF Spec, ImplementsReservation, Contract!Spec
=============================================================================
