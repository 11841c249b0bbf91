---------------------------- MODULE TradesProofs ----------------------------
(***************************************************************************)
(* Proofs about the record of completed trades and what the API shows of  *)
(* it, for any offers, timestamps, interval and precision: the groups are  *)
(* the sums of their trades, the most recent groups the newest ones, and   *)
(* the price chart covers its window without gaps.                         *)
(*                                                                         *)
(* CompletedOnce says what one step may do.  Over a whole run it keeps the *)
(* two views of the trades together: the last trade of an offer, in the    *)
(* dictionary, is always one of that offer in the sorted view.             *)
(***************************************************************************)
EXTENDS Trades, SumTheorems, FiniteSetTheorems, TLAPS

\* The dictionary by offer points into the sorted view.
LastTrades == \A o \in Offers : trade_by_id[o] # None => trade_by_id[o] \in trades /\ trade_by_id[o].offer = o

\* Only finitely many offers have been taken and trades completed at any time.
FinitelyMany == IsFiniteSet(trades) /\ IsFiniteSet(pending_offer_by_id)

IInv == TypeOK /\ LastTrades /\ FinitelyMany

\* Initially there is no trade.
LEMMA InvInit == Init => IInv
BY FS_EmptySet DEF Init, IInv, TypeOK, LastTrades, FinitelyMany

\* Taking an offer or completing it keeps the views together, and a completion uses up
\* the pending offer.
LEMMA TradesStep == IInv /\ [Next]_vars => IInv' /\ (CompletionStep \/ UNCHANGED vars)
<1> SUFFICES ASSUME IInv, [Next]_vars PROVE IInv' /\ (CompletionStep \/ UNCHANGED vars)
  OBVIOUS
<1>1. ASSUME NEW o \in Offers, AddPending(o) PROVE IInv' /\ CompletionStep
  <2>1. FinitelyMany'
    BY <1>1, FS_AddElement DEF AddPending, IInv, FinitelyMany
  <2> QED BY <1>1, <2>1 DEF AddPending, IInv, TypeOK, LastTrades, CompletionStep
<1>2. ASSUME NEW o \in Offers, NEW t \in Times, ReportCompleted(o, t) PROVE IInv' /\ CompletionStep
  <2>1. PICK trade \in Trade : trade.offer = o /\ trade = [offer |-> o, timestamp |-> t]
    BY DEF Trade
  <2>2. /\ o \in pending_offer_by_id /\ pending_offer_by_id' = pending_offer_by_id \ {o}
        /\ trades' = trades \cup {trade}
        /\ trade_by_id' = [trade_by_id EXCEPT ![o] = trade]
    BY <1>2, <2>1 DEF ReportCompleted
  <2>3. TypeOK'
    BY <2>2 DEF IInv, TypeOK
  <2>4. trade_by_id'[o] = trade /\ \A p \in Offers : p # o => trade_by_id'[p] = trade_by_id[p]
    BY <2>2 DEF IInv, TypeOK
  <2>5. LastTrades'
    BY <2>1, <2>2, <2>4 DEF IInv, LastTrades
  <2>6. CompletionStep
    BY <2>1, <2>2, <2>4 DEF CompletionStep
  <2>7. FinitelyMany'
    BY <2>2, FS_AddElement, FS_RemoveElement DEF IInv, FinitelyMany
  <2> QED BY <2>3, <2>5, <2>6, <2>7 DEF IInv
<1>3. CASE UNCHANGED vars
  BY <1>3 DEF IInv, TypeOK, LastTrades, FinitelyMany, vars
<1> QED BY <1>1, <1>2, <1>3 DEF Next

\* The inductive invariant: the types, and that the two views of the trades agree.
THEOREM TradesInvariant == Spec => []IInv
<1>1. IInv /\ [Next]_vars => IInv'
  BY TradesStep
<1> QED BY <1>1, InvInit, PTL DEF Spec

\* Every variable of TradesView keeps its type.
THEOREM TradesTypes == Spec => []TypeOK
<1>1. IInv => TypeOK
  BY DEF IInv
<1> QED BY <1>1, TradesInvariant, PTL

\* A swap that is taken once and reported any number of times is one trade, and no trade is
\* lost from either view, for any offers and any number of trades.
THEOREM TradesCompletedOnce == Spec => CompletedOnce
<1>1. IInv /\ [Next]_vars => [CompletionStep]_vars
  BY TradesStep
<1> QED BY <1>1, TradesInvariant, PTL DEF Spec, CompletedOnce

-----------------------------------------------------------------------------
(* Time bins. *)

\* A bin starts at a multiple of the interval, and a time is in the bin of that start and in
\* no other.
LEMMA BinOf ==
    ASSUME NEW x \in Int, NEW k \in Int
    PROVE  /\ find_time_bin(k * Interval) = k * Interval
           /\ k * Interval <= x /\ x < k * Interval + Interval <=> k = x \div Interval
<1>1. PICK n \in Nat : n = Interval /\ n > 0
  BY IntervalAssumption
<1>2. PICK p \in Int : p = x \div n /\ p * n <= x /\ x < p * n + n
  BY <1>1
<1>3. k * n \in Int
  BY <1>1
<1>4. ASSUME k * n <= x, x < k * n + n PROVE k = p
  <2>1. p * n < k * n + n /\ k * n < p * n + n
    BY <1>1, <1>2, <1>3, <1>4
  <2>2. p <= k
    BY <1>1, <2>1
  <2>3. k <= p
    BY <1>1, <2>1
  <2> QED BY <2>2, <2>3
<1>5. (k * n) \div n = k
  BY <1>1
<1> QED BY <1>1, <1>2, <1>4, <1>5 DEF find_time_bin

\* The bins of the price chart: make_price_bins reads the trades between two lists of
\* timestamps that are worked out apart.  Each pair of them is one bin, which holds exactly
\* the times whose find_time_bin is its start; the bins end where the bin of the current time
\* begins, and no time of the window is left out.
THEOREM ChartBinsPartition ==
    ASSUME NEW current \in Int, NEW nof_buckets \in Nat, NEW x \in Int
    PROVE  LET start == time_bin_gen(current, 2)
               from == time_bin_gen(start[1], nof_buckets + 1)
               to == time_bin_gen(start[2], nof_buckets + 1) IN
           /\ \A i \in 1 .. nof_buckets + 1 :
                 from[i] <= x /\ x < to[i] <=> from[i] = find_time_bin(x)
           /\ \A i, j \in 1 .. nof_buckets + 1 : from[i] = from[j] => i = j
           /\ to[nof_buckets + 1] = find_time_bin(current)
           /\ from[1] <= x /\ x < to[nof_buckets + 1] =>
                 \E i \in 1 .. nof_buckets + 1 : from[i] = find_time_bin(x)
<1> DEFINE start == time_bin_gen(current, 2)
           from == time_bin_gen(start[1], nof_buckets + 1)
           to == time_bin_gen(start[2], nof_buckets + 1)
<1>1. PICK n \in Nat : n = Interval /\ n > 0
  BY IntervalAssumption
<1>2. PICK q \in Int : q = current \div n
  BY <1>1
<1>3. find_time_bin(current) = q * n
  BY <1>1, <1>2 DEF find_time_bin
<1>4. start[1] = q * n + (-1) * n /\ start[2] = q * n + 0 * n
  BY <1>1, <1>3 DEF time_bin_gen
<1>5. start[1] = (q - 1) * n /\ start[2] = q * n
  BY <1>1, <1>4
<1>6. find_time_bin(start[1]) = (q - 1) * n /\ find_time_bin(start[2]) = q * n
  <2>1. q - 1 \in Int
    OBVIOUS
  <2>2. \A k \in Int : find_time_bin(k * Interval) = k * Interval
    BY BinOf
  <2> HIDE DEF start
  <2>3. find_time_bin(start[1]) = (q - 1) * n
    BY <1>1, <1>5, <2>1, <2>2
  <2>4. find_time_bin(start[2]) = q * n
    BY <1>1, <1>5, <2>2
  <2> QED BY <2>3, <2>4
<1>7. \A i \in 1 .. nof_buckets + 1 :
         /\ from[i] = (q - 1) * n + (i - (nof_buckets + 1)) * n
         /\ to[i] = q * n + (i - (nof_buckets + 1)) * n
  BY <1>1, <1>6 DEF time_bin_gen
<1>8. \A i \in 1 .. nof_buckets + 1 :
         /\ from[i] = (q - nof_buckets - 2 + i) * n
         /\ to[i] = from[i] + n /\ to[i] = (q - nof_buckets - 1 + i) * n
  BY <1>1, <1>7
<1> HIDE DEF start, from, to
<1>9. PICK p \in Int : p = x \div n /\ find_time_bin(x) = p * n /\ p * n <= x /\ x < p * n + n
  BY <1>1 DEF find_time_bin
<1>10. \A a, b \in Int : a * n = b * n => a = b
  BY <1>1
<1>11. ASSUME NEW i \in 1 .. nof_buckets + 1
       PROVE  from[i] <= x /\ x < to[i] <=> from[i] = find_time_bin(x)
  <2>1. PICK k \in Int : k = q - nof_buckets - 2 + i /\ from[i] = k * n /\ to[i] = k * n + n
    BY <1>8
  <2>2. from[i] <= x /\ x < to[i] <=> k = p
    BY <1>1, <1>9, <2>1, BinOf
  <2> QED BY <1>9, <1>10, <2>1, <2>2
<1>12. ASSUME NEW i \in 1 .. nof_buckets + 1, NEW j \in 1 .. nof_buckets + 1, from[i] = from[j]
       PROVE  i = j
  <2>1. q - nof_buckets - 2 + i = q - nof_buckets - 2 + j
    BY <1>8, <1>10, <1>12
  <2> QED BY <2>1
<1>13. to[nof_buckets + 1] = find_time_bin(current)
  <2>1. q - nof_buckets - 1 + (nof_buckets + 1) = q
    OBVIOUS
  <2> QED BY <1>3, <1>8, <2>1
<1>14. ASSUME from[1] <= x, x < to[nof_buckets + 1]
       PROVE  \E i \in 1 .. nof_buckets + 1 : from[i] = find_time_bin(x)
  <2>1. PICK a \in Int : a = q - nof_buckets - 1 /\ from[1] = a * n
    BY <1>8
  <2>2. to[nof_buckets + 1] = q * n
    BY <1>3, <1>13
  <2>3. a * n < p * n + n /\ p * n < q * n
    BY <1>1, <1>9, <1>14, <2>1, <2>2
  <2>4. a <= p
    BY <1>1, <2>3
  <2>5. p < q
    BY <1>1, <2>3
  <2>6. PICK i \in 1 .. nof_buckets + 1 : i = p - (q - nof_buckets - 2)
    BY <2>1, <2>4, <2>5
  <2>7. q - nof_buckets - 2 + i = p
    BY <2>6
  <2> QED BY <1>8, <1>9, <2>7
<1> QED BY <1>11, <1>12, <1>13, <1>14 DEF start, from, to

-----------------------------------------------------------------------------
(* The sorted dictionary. *)

\* What a trade consists of.
LEMMA TradeFields ==
    ASSUME NEW t \in Trade
    PROVE  /\ t.timestamp \in Nat /\ t.timestamp \in Times /\ t.offer \in Offers
           /\ t.offer.offer_id \in Nat /\ t.offer.price \in Nat /\ t.offer.base_amount \in Nat
BY OffersAssumption, TimesAssumption DEF Trade

\* The keys order the trades.
LEMMA KeyOrder ==
    ASSUME NEW t \in Trade, NEW u \in Trade, NEW v \in Trade
    PROVE  /\ ~ KeyLess(t, t)
           /\ KeyLess(t, u) /\ KeyLess(u, v) => KeyLess(t, v)
           /\ t = u \/ KeyLess(t, u) \/ KeyLess(u, t)
<1>1. t.offer = u.offer /\ t.timestamp = u.timestamp => t = u
  BY DEF Trade
<1>2. t.offer.offer_id = u.offer.offer_id => t.offer = u.offer
  BY TradeFields, OffersAssumption
<1> QED BY <1>1, <1>2, TradeFields DEF KeyLess

\* Some trades can be listed in the order of their keys: the place of a trade is the number of
\* those before it.
LEMMA SortedExists ==
    ASSUME NEW T \in SUBSET Trade, IsFiniteSet(T)
    PROVE  \E s \in [1 .. Cardinality(T) -> T] : \A i, j \in DOMAIN s : i < j => KeyLess(s[i], s[j])
<1> DEFINE n == Cardinality(T)
           Before(x) == {y \in T : KeyLess(y, x)}
           place == [x \in T |-> Cardinality(Before(x)) + 1]
<1>1. n \in Nat
  BY FS_CardinalityType
<1>2. ASSUME NEW x \in T
      PROVE  /\ IsFiniteSet(Before(x)) /\ Cardinality(Before(x)) \in Nat
             /\ Cardinality(Before(x)) < n
  <2>1. Before(x) \in SUBSET T /\ x \notin Before(x)
    BY KeyOrder
  <2>2. IsFiniteSet(Before(x)) /\ Cardinality(Before(x)) <= n /\ Cardinality(Before(x)) # n
    BY <2>1, FS_Subset
  <2>3. Cardinality(Before(x)) \in Nat
    BY <2>2, FS_CardinalityType
  <2> QED BY <1>1, <2>2, <2>3
<1>3. place = [x \in T |-> place[x]] /\ \A x \in T : place[x] = Cardinality(Before(x)) + 1
  OBVIOUS
<1> HIDE DEF place, n, Before
<1>4. ASSUME NEW x \in T, NEW y \in T, KeyLess(x, y) PROVE place[x] < place[y]
  <2>1. Before(x) \in SUBSET Before(y) /\ x \in Before(y) /\ x \notin Before(x)
    BY <1>4, KeyOrder DEF Before
  <2>2. Cardinality(Before(x)) <= Cardinality(Before(y)) /\ Cardinality(Before(x)) # Cardinality(Before(y))
    BY <1>2, <2>1, FS_Subset
  <2>3. Cardinality(Before(x)) < Cardinality(Before(y))
    BY <1>2, <2>2
  <2>4. place[x] = Cardinality(Before(x)) + 1 /\ place[y] = Cardinality(Before(y)) + 1
    BY <1>3
  <2> QED BY <1>2, <2>3, <2>4
<1>5. ASSUME NEW x \in T PROVE place[x] \in 1 .. n
  <2>1. place[x] = Cardinality(Before(x)) + 1
    BY <1>3
  <2> QED BY <1>1, <1>2, <2>1
<1>6. \A x, y \in T : place[x] = place[y] => x = y
  BY <1>1, <1>4, <1>5, KeyOrder
<1>7. place \in [T -> 1 .. n]
  BY <1>5, <1>3
<1>8. place \in Injection(T, 1 .. n)
  BY <1>6, <1>7 DEF Injection, IsInjective
<1>9. IsFiniteSet(1 .. n) /\ Cardinality(1 .. n) = n
  BY <1>1, FS_Interval
<1>10. place \in Surjection(T, 1 .. n)
  <2>1. Cardinality(T) = Cardinality(1 .. n)
    BY <1>9 DEF n
  <2> QED BY <1>8, <1>9, <2>1, FS_Injection
<1>11. \A i \in 1 .. n : \E x \in T : place[x] = i
  BY <1>10 DEF Surjection
<1> DEFINE s == [i \in 1 .. n |-> CHOOSE x \in T : place[x] = i]
<1>12. \A i \in 1 .. n : s[i] \in T /\ place[s[i]] = i
  BY <1>11
<1>13. s \in [1 .. n -> T]
  BY <1>12
<1> HIDE DEF s
<1>14. \A i, j \in 1 .. n : i < j => KeyLess(s[i], s[j])
  <2> SUFFICES ASSUME NEW i \in 1 .. n, NEW j \in 1 .. n, i < j PROVE KeyLess(s[i], s[j])
    OBVIOUS
  <2>1. s[i] \in T /\ s[j] \in T /\ place[s[i]] = i /\ place[s[j]] = j
    BY <1>12
  <2>2. s[i] # s[j]
    BY <2>1
  <2>3. ~ KeyLess(s[j], s[i])
    <3> SUFFICES ASSUME KeyLess(s[j], s[i]) PROVE FALSE
      OBVIOUS
    <3>1. j < i
      BY <1>4, <2>1
    <3> QED BY <3>1
  <2> QED BY <2>1, <2>2, <2>3, KeyOrder
<1>15. DOMAIN s = 1 .. n
  BY <1>13
<1>16. \A i, j \in DOMAIN s : i < j => KeyLess(s[i], s[j])
  BY <1>14, <1>15
<1>17. s \in [1 .. Cardinality(T) -> T]
  BY <1>13 DEF n
<1> QED BY <1>16, <1>17

\* The list has each trade once, in the order of the keys and so of the timestamps.
LEMMA SortedList ==
    ASSUME NEW T \in SUBSET Trade, IsFiniteSet(T), NEW s, s = Sorted(T)
    PROVE  /\ s \in Seq(Trade) /\ Len(s) = Cardinality(T) /\ DOMAIN s = 1 .. Len(s)
           /\ \A i \in 1 .. Len(s) : s[i] \in T /\ s[i] \in Trade
           /\ \A t \in T : \E i \in 1 .. Len(s) : s[i] = t
           /\ \A i, j \in 1 .. Len(s) : i < j => s[i] # s[j] /\ s[i].timestamp <= s[j].timestamp
<1> DEFINE n == Cardinality(T)
<1>1. n \in Nat
  BY FS_CardinalityType
<1>2. s \in [1 .. n -> T] /\ \A i, j \in DOMAIN s : i < j => KeyLess(s[i], s[j])
  BY SortedExists DEF Sorted
<1> HIDE DEF n
<1>3. s \in Seq(Trade) /\ Len(s) = n /\ DOMAIN s = 1 .. n
  BY <1>1, <1>2
<1>4. \A i \in 1 .. n : s[i] \in T
  BY <1>2
<1>5. ASSUME NEW i \in 1 .. n, NEW j \in 1 .. n, i < j
      PROVE  s[i] # s[j] /\ s[i].timestamp <= s[j].timestamp
  <2>1. s[i] \in Trade /\ s[j] \in Trade /\ KeyLess(s[i], s[j])
    BY <1>2, <1>3, <1>4, <1>5
  <2> QED BY <2>1, KeyOrder, TradeFields DEF KeyLess
<1>6. \A i, j \in 1 .. n : s[i] = s[j] => i = j
  BY <1>1, <1>5
<1>7. s \in Injection(1 .. n, T)
  BY <1>2, <1>6 DEF Injection, IsInjective
<1>8. s \in Surjection(1 .. n, T)
  <2>1. Cardinality(1 .. n) = n /\ n = Cardinality(T)
    BY <1>1, FS_Interval DEF n
  <2> QED BY <1>7, <2>1, FS_Injection
<1>9. \A t \in T : \E i \in 1 .. n : s[i] = t
  BY <1>8 DEF Surjection
<1>10. n = Cardinality(T)
  BY DEF n
<1> QED BY <1>3, <1>4, <1>5, <1>9, <1>10

-----------------------------------------------------------------------------
(* Loops.  FoldLeft is a recursive function over sets of indices; on the
   first indices of a list it has the values of the loop. *)

\* What holds before a loop and is kept by each of its rounds holds after any of them.
LEMMA LoopInduction ==
    ASSUME NEW n \in Nat, NEW G, 0 \in G, \A k \in 1 .. n : k - 1 \in G => k \in G
    PROVE  \A k \in 0 .. n : k \in G
<1> DEFINE N == {k \in Nat : k <= n => k \in G}
<1>1. 0 \in N
  OBVIOUS
<1>2. ASSUME NEW k \in Nat, k \in N PROVE k + 1 \in N
  <2> SUFFICES ASSUME k + 1 <= n PROVE k + 1 \in G
    OBVIOUS
  <2>1. k + 1 \in 1 .. n /\ (k + 1) - 1 = k /\ k \in G
    BY <1>2
  <2> QED BY <2>1
<1>3. Nat \subseteq N
  <2> HIDE DEF N
  <2> QED BY <1>1, <1>2, NatInductionSet
<1> QED BY <1>3

\* The greatest of some of the first indices.
LEMMA LastIndex ==
    ASSUME NEW k \in Nat, NEW s \in SUBSET (1 .. k), k \in s
    PROVE  Max(s) = k
<1>1. \A x \in s : x \in Int /\ x <= k
  OBVIOUS
<1>2. \A y \in s : k >= y
  BY <1>1
<1>3. Max(s) \in s /\ \A y \in s : Max(s) >= y
  BY <1>2 DEF Max
<1>4. Max(s) >= k /\ Max(s) \in s
  BY <1>3
<1>5. Max(s) \in Int /\ Max(s) <= k
  BY <1>1, <1>4
<1> QED BY <1>4, <1>5

\* Some of the first indices have a greatest one.
LEMMA LastExists ==
    ASSUME NEW n \in Nat, NEW s \in SUBSET (1 .. n), s # {}
    PROVE  Max(s) \in s
<1> DEFINE N == {k \in 0 .. n : \A t \in SUBSET (1 .. k) : t # {} => Max(t) \in t}
<1>1. 0 \in N
  <2>1. 1 .. 0 = {} /\ 0 \in 0 .. n
    OBVIOUS
  <2> QED BY <2>1
<1>2. ASSUME NEW k \in 1 .. n, k - 1 \in N PROVE k \in N
  <2> SUFFICES ASSUME NEW t \in SUBSET (1 .. k), t # {} PROVE Max(t) \in t
    OBVIOUS
  <2>1. CASE k \in t
    BY <2>1, LastIndex
  <2>2. CASE k \notin t
    <3>1. t \in SUBSET (1 .. k - 1)
      BY <2>2
    <3> QED BY <1>2, <3>1
  <2> QED BY <2>1, <2>2
<1>3. \A k \in 0 .. n : k \in N
  <2> HIDE DEF N
  <2>1. \A k \in 1 .. n : k - 1 \in N => k \in N
    BY <1>2
  <2> QED BY <1>1, <2>1, LoopInduction
<1>4. n \in N
  <2> HIDE DEF N
  <2> QED BY <1>3
<1> QED BY <1>4

\* The recursive function of a fold over a list e of n elements, of which F does one round.
Folds(it, n, base, e, F) ==
    \A s \in SUBSET (1 .. n) :
        it[s] = IF s = {} THEN base ELSE F[<<it[s \ {Max(s)}], e[Max(s)]>>]

\* It exists.
LEMMA FoldExists ==
    ASSUME NEW n \in Nat, NEW A, NEW X, NEW base \in A, NEW e \in [1 .. n -> X],
           NEW F \in [A \X X -> A]
    PROVE  \E it \in [SUBSET (1 .. n) -> A] : Folds(it, n, base, e, F)
<1> DEFINE D(k) == SUBSET (1 .. k)
           Round(it, s) == IF s = {} THEN base ELSE F[<<it[s \ {Max(s)}], e[Max(s)]>>]
           N == {k \in 0 .. n : \E it \in [D(k) -> A] : \A s \in D(k) : it[s] = Round(it, s)}
<1>1. 0 \in N
  <2> DEFINE it == [s \in D(0) |-> base]
  <2>1. \A s \in D(0) : s = {}
    OBVIOUS
  <2>2. \A s \in D(0) : it[s] = Round(it, s)
    BY <2>1
  <2>3. it \in [D(0) -> A]
    OBVIOUS
  <2> HIDE DEF it, D, Round
  <2>4. \E f \in [D(0) -> A] : \A s \in D(0) : f[s] = Round(f, s)
    BY <2>2, <2>3
  <2> QED BY <2>4
<1>2. ASSUME NEW k \in 1 .. n, k - 1 \in N PROVE k \in N
  <2>1. PICK it \in [D(k - 1) -> A] : \A s \in D(k - 1) : it[s] = Round(it, s)
    BY <1>2
  <2> DEFINE more == [s \in D(k) |-> IF k \in s THEN F[<<it[s \ {k}], e[k]>>] ELSE it[s]]
  <2>2. \A s \in D(k) : s \ {k} \in D(k - 1) /\ (k \notin s => s \in D(k - 1))
    OBVIOUS
  <2>3. \A s \in D(k) : k \notin s => more[s] = it[s]
    OBVIOUS
  <2>4. e[k] \in X
    OBVIOUS
  <2>5. ASSUME NEW s \in D(k) PROVE more[s] \in A /\ more[s] = Round(more, s)
    <3>1. CASE k \in s
      <4>1. s \ {k} \in D(k) /\ more[s \ {k}] = it[s \ {k}] /\ it[s \ {k}] \in A
        BY <2>1, <2>2, <2>3
      <4>2. more[s] = F[<<it[s \ {k}], e[k]>>] /\ Max(s) = k /\ s # {}
        BY <3>1, LastIndex
      <4>3. <<it[s \ {k}], e[k]>> \in A \X X
        BY <2>4, <4>1
      <4> HIDE DEF more
      <4> QED BY <4>1, <4>2, <4>3
    <3>2. CASE k \notin s
      <4>1. s \in D(k - 1) /\ s \ {Max(s)} \in D(k - 1) /\ s \ {Max(s)} \in D(k)
        BY <2>2, <3>2
      <4>2. more[s] = it[s] /\ more[s \ {Max(s)}] = it[s \ {Max(s)}]
        BY <2>3, <3>2, <4>1
      <4>3. it[s] = Round(it, s) /\ it[s] \in A
        BY <2>1, <4>1
      <4> HIDE DEF more
      <4> QED BY <4>2, <4>3
    <3> QED BY <3>1, <3>2
  <2>6. more \in [D(k) -> A]
    <3>1. more = [s \in D(k) |-> more[s]]
      OBVIOUS
    <3> HIDE DEF more
    <3> QED BY <2>5, <3>1
  <2> HIDE DEF more, D, Round
  <2>7. \E f \in [D(k) -> A] : \A s \in D(k) : f[s] = Round(f, s)
    BY <2>5, <2>6
  <2> QED BY <2>7
<1>3. n \in N
  <2> HIDE DEF N
  <2>1. \A k \in 1 .. n : k - 1 \in N => k \in N
    BY <1>2
  <2>2. \A k \in 0 .. n : k \in N
    BY <1>1, <2>1, LoopInduction
  <2> QED BY <2>2
<1> QED BY <1>3 DEF Folds

-----------------------------------------------------------------------------
(* Groups. *)

\* The groups of the elements of S by their keys, each with the sum of its weights.
Grouped(S, key, w) == [k \in {key[x] : x \in S} |-> SumFunctionOnSet(w, {x \in S : key[x] = k})]

\* Adding one more element to its group, or opening one for it, keeps the groups whole.
LEMMA AddOne ==
    ASSUME NEW U, IsFiniteSet(U), NEW key, NEW w \in [U -> Nat],
           NEW S \in SUBSET U, NEW x \in U \ S
    PROVE  Add(Grouped(S, key, w), key[x], w[x]) = Grouped(S \cup {x}, key, w)
<1> DEFINE g == Grouped(S, key, w)
           more == Grouped(S \cup {x}, key, w)
           G(k) == {y \in S : key[y] = k}
<1>1. DOMAIN g = {key[y] : y \in S} /\ \A k \in DOMAIN g : g[k] = SumFunctionOnSet(w, G(k))
  BY DEF Grouped
<1>2. more = [k \in DOMAIN g \cup {key[x]} |-> SumFunctionOnSet(w, {y \in S \cup {x} : key[y] = k})]
  <2>1. {key[y] : y \in S \cup {x}} = DOMAIN g \cup {key[x]}
    BY <1>1
  <2> HIDE DEF g
  <2> QED BY <2>1 DEF Grouped
<1> DEFINE old(k) == IF k \in DOMAIN g THEN g[k] ELSE 0
<1> HIDE DEF g, more
<1>3. ASSUME NEW k PROVE old(k) = SumFunctionOnSet(w, G(k))
  <2>1. CASE k \in DOMAIN g
    BY <1>1, <2>1
  <2>2. CASE k \notin DOMAIN g
    <3>1. G(k) = {}
      BY <1>1, <2>2
    <3> QED BY <2>2, <3>1, SumSteps
  <2> QED BY <2>1, <2>2
<1>4. ASSUME NEW k, k # key[x] PROVE {y \in S \cup {x} : key[y] = k} = G(k)
  BY <1>4
<1>5. SumFunctionOnSet(w, {y \in S \cup {x} : key[y] = key[x]}) = old(key[x]) + w[x]
  <2> DEFINE T == {y \in S \cup {x} : key[y] = key[x]}
  <2>1. T \in SUBSET U /\ x \in T /\ T \ {x} = G(key[x]) /\ G(key[x]) \in SUBSET U
    OBVIOUS
  <2> HIDE DEF T, G
  <2>2. SumFunctionOnSet(w, T) = w[x] + SumFunctionOnSet(w, G(key[x]))
    BY <2>1, SumSteps
  <2>3. w[x] \in Nat /\ SumFunctionOnSet(w, G(key[x])) \in Nat
    BY <2>1, SumSteps
  <2> QED BY <1>3, <2>2, <2>3 DEF T
<1>6. Add(g, key[x], w[x]) = [k \in DOMAIN g \cup {key[x]} |-> IF k = key[x] THEN old(k) + w[x] ELSE old(k)]
  BY DEF Add
<1> HIDE DEF old, G
<1>7. \A k \in DOMAIN g \cup {key[x]} :
         (IF k = key[x] THEN old(k) + w[x] ELSE old(k)) = SumFunctionOnSet(w, {y \in S \cup {x} : key[y] = k})
  BY <1>3, <1>4, <1>5
<1>8. Add(g, key[x], w[x]) = more
  BY <1>2, <1>6, <1>7
<1> QED BY <1>8 DEF g, more

\* Amounts by key.
Groupings == UNION {[K -> Nat] : K \in SUBSET {TradeKey(t) : t \in Trade}}
Acc == [groups : Groupings, done : BOOLEAN]

\* One round of the loop of group_trades.
GroupRound(acc, t, chunk_size) ==
    LET groups == Add(acc.groups, TradeKey(t), t.offer.base_amount) IN
    IF acc.done THEN acc
    ELSE IF chunk_size # None /\ Cardinality(DOMAIN groups) = chunk_size + 1
         THEN [acc EXCEPT !.done = TRUE]
         ELSE [acc EXCEPT !.groups = groups]

NoGroups == [groups |-> <<>>, done |-> FALSE]

\* A round keeps the types.
LEMMA GroupRoundType ==
    ASSUME NEW acc \in Acc, NEW t \in Trade, NEW chunk_size
    PROVE  GroupRound(acc, t, chunk_size) \in Acc
<1> DEFINE groups == Add(acc.groups, TradeKey(t), t.offer.base_amount)
<1>1. PICK K \in SUBSET {TradeKey(u) : u \in Trade} : acc.groups \in [K -> Nat]
  BY DEF Acc, Groupings
<1>2. t.offer.base_amount \in Nat
  BY OffersAssumption DEF Trade
<1>3. groups \in [K \cup {TradeKey(t)} -> Nat]
  BY <1>1, <1>2 DEF Add
<1>4. K \cup {TradeKey(t)} \in SUBSET {TradeKey(u) : u \in Trade}
  BY <1>1
<1> HIDE DEF groups
<1>5. groups \in Groupings
  BY <1>3, <1>4 DEF Groupings
<1>6. [acc EXCEPT !.done = TRUE] \in Acc /\ [acc EXCEPT !.groups = groups] \in Acc
  BY <1>5 DEF Acc
<1> QED BY <1>6 DEF GroupRound, groups

\* Before the first round there is no group.
LEMMA NoGroupsType == NoGroups \in Acc
<1>1. <<>> \in [{} -> Nat]
  OBVIOUS
<1>2. <<>> \in Groupings
  BY <1>1 DEF Groupings
<1> QED BY <1>2 DEF NoGroups, Acc

\* group_trades is the loop of its rounds.
LEMMA GroupLoop ==
    ASSUME NEW n \in Nat, NEW list \in [1 .. n -> Trade], NEW chunk_size
    PROVE  \E h : /\ h[0] = NoGroups
                  /\ \A k \in 1 .. n : h[k] = GroupRound(h[k - 1], list[k], chunk_size)
                  /\ group_trades(list, chunk_size) = h[n].groups
<1> DEFINE F == [p \in Acc \X Trade |-> GroupRound(p[1], p[2], chunk_size)]
           IsLoop(f) == f = [s \in SUBSET DOMAIN list |->
               IF s = {} THEN NoGroups ELSE GroupRound(f[s \ {Max(s)}], list[Max(s)], chunk_size)]
<1>1. F \in [Acc \X Trade -> Acc]
  BY GroupRoundType
<1>2. \A a \in Acc, t \in Trade : F[<<a, t>>] = GroupRound(a, t, chunk_size)
  OBVIOUS
<1> HIDE DEF F
<1>3. PICK it \in [SUBSET (1 .. n) -> Acc] : Folds(it, n, NoGroups, list, F)
  BY <1>1, NoGroupsType, FoldExists
<1>4. ASSUME NEW s \in SUBSET (1 .. n), s # {}
      PROVE  it[s] = GroupRound(it[s \ {Max(s)}], list[Max(s)], chunk_size)
  <2>1. it[s \ {Max(s)}] \in Acc /\ list[Max(s)] \in Trade
    BY <1>4, LastExists
  <2> QED BY <1>2, <1>3, <1>4, <2>1 DEF Folds
<1>5. DOMAIN list = 1 .. n
  OBVIOUS
<1>6. IsLoop(it)
  <2>1. it = [s \in SUBSET (1 .. n) |-> it[s]]
    OBVIOUS
  <2> QED BY <1>3, <1>4, <1>5, <2>1 DEF Folds
<1> DEFINE g == CHOOSE f : IsLoop(f)
<1>7. IsLoop(g)
  <2> HIDE DEF IsLoop
  <2> QED BY <1>6
<1>8. group_trades(list, chunk_size) = g[1 .. n].groups
  BY <1>5 DEF group_trades, FoldLeft, MapThenFoldSet, GroupRound, NoGroups
<1> HIDE DEF g
<1>9. g[{}] = NoGroups
  BY <1>7
<1>10. ASSUME NEW k \in 1 .. n
       PROVE  g[1 .. k] = GroupRound(g[1 .. k - 1], list[k], chunk_size)
  <2>1. 1 .. k \in SUBSET (1 .. n) /\ k \in 1 .. k /\ (1 .. k) \ {k} = 1 .. k - 1
    OBVIOUS
  <2>2. Max(1 .. k) = k
    BY LastIndex
  <2> QED BY <1>5, <1>7, <2>1, <2>2
<1> DEFINE h == [k \in 0 .. n |-> g[1 .. k]]
<1>11. h[0] = NoGroups
  <2>1. 1 .. 0 = {}
    OBVIOUS
  <2> QED BY <1>9, <2>1
<1>12. \A k \in 1 .. n : h[k] = GroupRound(h[k - 1], list[k], chunk_size)
  BY <1>10
<1>13. h[n] = g[1 .. n]
  OBVIOUS
<1> HIDE DEF h
<1> QED BY <1>8, <1>11, <1>12, <1>13

-----------------------------------------------------------------------------
(* The groups of the trades. *)

\* The keys and amounts of the trades.
Keys == [t \in trades |-> TradeKey(t)]
Amounts == [t \in trades |-> t.offer.base_amount]

\* The trades of a list up to one of them.
Seen(list, k) == {list[i] : i \in 1 .. k}

\* How far the loop of group_trades has got after k rounds: it has grouped the first m trades,
\* which are all of the k unless the next one would have opened one group too many.
Chunk(acc, list, n, k, chunk_size) ==
    \E m \in 0 .. k :
        /\ acc.groups = Grouped(Seen(list, m), Keys, Amounts)
        /\ IsFiniteSet(DOMAIN acc.groups)
        /\ chunk_size # None => Cardinality(DOMAIN acc.groups) <= chunk_size
        /\ acc.done <=> m < k
        /\ m < k => /\ chunk_size # None
                    /\ Cardinality(DOMAIN acc.groups) = chunk_size
                    /\ TradeKey(list[m + 1]) \notin DOMAIN acc.groups

\* What has been seen grows by one with each round, and has no trade twice.
LEMMA SeenMore ==
    ASSUME NEW n \in Nat, NEW list, \A i, j \in 1 .. n : i # j => list[i] # list[j], NEW k \in 1 .. n
    PROVE  /\ Seen(list, k) = Seen(list, k - 1) \cup {list[k]}
           /\ list[k] \notin Seen(list, k - 1)
<1>1. 1 .. k = (1 .. k - 1) \cup {k} /\ \A i \in 1 .. k - 1 : i \in 1 .. n /\ i # k
  OBVIOUS
<1> QED BY <1>1 DEF Seen

\* One round.
LEMMA ChunkRound ==
    ASSUME IInv, NEW n \in Nat, NEW list \in [1 .. n -> trades],
           \A i, j \in 1 .. n : i # j => list[i] # list[j],
           NEW chunk_size \in Nat \cup {None}, NEW k \in 1 .. n, NEW acc \in Acc,
           Chunk(acc, list, n, k - 1, chunk_size)
    PROVE  Chunk(GroupRound(acc, list[k], chunk_size), list, n, k, chunk_size)
<1> DEFINE t == list[k]
           groups == Add(acc.groups, TradeKey(t), t.offer.base_amount)
           next == GroupRound(acc, t, chunk_size)
<1>1. PICK m \in 0 .. k - 1 :
        /\ acc.groups = Grouped(Seen(list, m), Keys, Amounts)
        /\ IsFiniteSet(DOMAIN acc.groups)
        /\ chunk_size # None => Cardinality(DOMAIN acc.groups) <= chunk_size
        /\ acc.done <=> m < k - 1
        /\ m < k - 1 => /\ chunk_size # None
                        /\ Cardinality(DOMAIN acc.groups) = chunk_size
                        /\ TradeKey(list[m + 1]) \notin DOMAIN acc.groups
  BY DEF Chunk
<1>2. t \in trades /\ t \in Trade /\ IsFiniteSet(trades)
  BY DEF IInv, TypeOK, FinitelyMany
<1>3. CASE acc.done
  <2>1. next = acc
    BY <1>3 DEF GroupRound
  <2>2. m < k - 1
    BY <1>1, <1>3
  <2>3. m < k /\ m \in 0 .. k
    BY <2>2
  <2> QED BY <1>1, <1>3, <2>1, <2>2, <2>3 DEF Chunk
<1>4. CASE ~ acc.done
  <2>1. ~ (m < k - 1)
    BY <1>1, <1>4
  <2>2. m = k - 1
    BY <2>1
  <2>3. Amounts \in [trades -> Nat]
    BY OffersAssumption DEF Amounts, IInv, TypeOK, Trade
  <2>4. Seen(list, k - 1) \in SUBSET trades /\ t \in trades \ Seen(list, k - 1)
    <3>1. \A i \in 1 .. k - 1 : i \in 1 .. n
      OBVIOUS
    <3>2. t \notin Seen(list, k - 1)
      BY SeenMore
    <3> QED BY <1>2, <3>1, <3>2 DEF Seen
  <2>5. Keys[t] = TradeKey(t) /\ Amounts[t] = t.offer.base_amount
    BY <1>2 DEF Keys, Amounts
  <2>6. groups = Grouped(Seen(list, k), Keys, Amounts)
    <3>1. Add(Grouped(Seen(list, k - 1), Keys, Amounts), Keys[t], Amounts[t])
             = Grouped(Seen(list, k - 1) \cup {t}, Keys, Amounts)
      BY <1>2, <2>3, <2>4, AddOne
    <3>2. Seen(list, k) = Seen(list, k - 1) \cup {t}
      BY SeenMore
    <3>3. groups = Add(Grouped(Seen(list, k - 1), Keys, Amounts), Keys[t], Amounts[t])
      BY <1>1, <2>5, <2>2
    <3> QED BY <3>1, <3>2, <3>3
  <2>7. DOMAIN groups = DOMAIN acc.groups \cup {TradeKey(t)}
    BY DEF Add
  <2> HIDE DEF groups
  <2>8. /\ IsFiniteSet(DOMAIN groups) /\ Cardinality(DOMAIN acc.groups) \in Nat
        /\ Cardinality(DOMAIN groups) = IF TradeKey(t) \in DOMAIN acc.groups THEN Cardinality(DOMAIN acc.groups)
                                        ELSE Cardinality(DOMAIN acc.groups) + 1
    BY <1>1, <2>7, FS_AddElement, FS_CardinalityType
  <2>9. CASE chunk_size # None /\ Cardinality(DOMAIN groups) = chunk_size + 1
    <3>1. next = [acc EXCEPT !.done = TRUE]
      BY <1>4, <2>9 DEF GroupRound, groups
    <3>2. next.done = TRUE /\ next.groups = acc.groups
      BY <3>1 DEF Acc
    <3>3. chunk_size \in Nat /\ TradeKey(t) \notin DOMAIN acc.groups /\ Cardinality(DOMAIN acc.groups) = chunk_size
      BY <1>1, <2>8, <2>9
    <3>4. m < k /\ m \in 0 .. k /\ list[m + 1] = t
      BY <2>2
    <3> QED BY <1>1, <2>9, <3>2, <3>3, <3>4 DEF Chunk
  <2>10. CASE ~ (chunk_size # None /\ Cardinality(DOMAIN groups) = chunk_size + 1)
    <3>1. next = [acc EXCEPT !.groups = groups]
      BY <1>4, <2>10 DEF GroupRound, groups
    <3>2. next.done = FALSE /\ next.groups = groups
      BY <1>4, <3>1 DEF Acc
    <3>3. chunk_size # None => Cardinality(DOMAIN groups) <= chunk_size
      BY <1>1, <2>8, <2>10
    <3>4. k \in 0 .. k /\ ~ (k < k)
      OBVIOUS
    <3> QED BY <2>6, <2>8, <3>2, <3>3, <3>4 DEF Chunk
  <2> QED BY <2>9, <2>10
<1> QED BY <1>3, <1>4

\* What group_trades makes of a list of trades.
LEMMA GroupedList ==
    ASSUME IInv, NEW n \in Nat, NEW list \in [1 .. n -> trades],
           \A i, j \in 1 .. n : i # j => list[i] # list[j],
           NEW chunk_size \in Nat \cup {None}
    PROVE  \E acc \in Acc : /\ group_trades(list, chunk_size) = acc.groups
                            /\ Chunk(acc, list, n, n, chunk_size)
<1>1. list \in [1 .. n -> Trade]
  BY DEF IInv, TypeOK
<1>2. PICK h : /\ h[0] = NoGroups
               /\ \A k \in 1 .. n : h[k] = GroupRound(h[k - 1], list[k], chunk_size)
               /\ group_trades(list, chunk_size) = h[n].groups
  BY <1>1, GroupLoop
<1> DEFINE N == {k \in 0 .. n : h[k] \in Acc /\ Chunk(h[k], list, n, k, chunk_size)}
<1>3. 0 \in N
  <2>1. Seen(list, 0) = {}
    BY DEF Seen
  <2>2. Grouped(Seen(list, 0), Keys, Amounts) = <<>> /\ DOMAIN <<>> = {}
    BY <2>1 DEF Grouped
  <2>3. h[0].groups = <<>> /\ h[0].done = FALSE
    BY <1>2 DEF NoGroups
  <2>4. 0 \in 0 .. 0 /\ 0 \in 0 .. n /\ ~ (0 < 0) /\ \A c \in Nat : 0 <= c
    OBVIOUS
  <2>5. Chunk(h[0], list, n, 0, chunk_size)
    BY <2>2, <2>3, <2>4, FS_EmptySet DEF Chunk
  <2> QED BY <1>2, <2>4, <2>5, NoGroupsType
<1>4. ASSUME NEW k \in 1 .. n, k - 1 \in N PROVE k \in N
  <2>1. h[k - 1] \in Acc /\ Chunk(h[k - 1], list, n, k - 1, chunk_size) /\ list[k] \in Trade
    BY <1>1, <1>4
  <2>2. h[k] \in Acc
    BY <1>2, <2>1, GroupRoundType
  <2>3. Chunk(h[k], list, n, k, chunk_size)
    BY <1>2, <2>1, ChunkRound
  <2> QED BY <2>2, <2>3
<1>5. n \in N
  <2> HIDE DEF N
  <2>1. \A k \in 1 .. n : k - 1 \in N => k \in N
    BY <1>4
  <2>2. \A k \in 0 .. n : k \in N
    BY <1>3, <2>1, LoopInduction
  <2> QED BY <2>2
<1> QED BY <1>2, <1>5

\* The keys of finitely many trades are finitely many.
LEMMA FiniteKeys ==
    ASSUME NEW S, IsFiniteSet(S)
    PROVE  IsFiniteSet({TradeKey(t) : t \in S})
<1> DEFINE T == {TradeKey(t) : t \in S}
           f == [t \in S |-> TradeKey(t)]
<1>1. f \in Surjection(S, T)
  BY DEF Surjection
<1> QED BY <1>1, FS_Surjection

\* The whole of a list has been grouped if no chunk size is given.
LEMMA AllGrouped ==
    ASSUME IInv, NEW S \in SUBSET trades
    PROVE  group_trades(Sorted(S), None) = Grouped(S, Keys, Amounts)
<1> DEFINE list == Sorted(S)
           n == Len(list)
<1>1. IsFiniteSet(S) /\ S \in SUBSET Trade
  BY FS_Subset DEF IInv, TypeOK, FinitelyMany
<1>2. /\ list \in Seq(Trade) /\ DOMAIN list = 1 .. n
      /\ \A i \in 1 .. n : list[i] \in S
      /\ \A t \in S : \E i \in 1 .. n : list[i] = t
      /\ \A i, j \in 1 .. n : i < j => list[i] # list[j]
  BY <1>1, SortedList
<1> HIDE DEF list
<1>3. n \in Nat /\ list \in [1 .. n -> trades] /\ \A i, j \in 1 .. n : i # j => list[i] # list[j]
  <2>1. n \in Nat /\ list = [i \in 1 .. n |-> list[i]]
    BY <1>2
  <2>2. \A i, j \in 1 .. n : i # j => i < j \/ j < i
    BY <2>1
  <2> QED BY <1>2, <2>1, <2>2
<1> HIDE DEF n
<1>4. PICK acc \in Acc : group_trades(list, None) = acc.groups /\ Chunk(acc, list, n, n, None)
  BY <1>3, GroupedList
<1>5. PICK m \in 0 .. n : acc.groups = Grouped(Seen(list, m), Keys, Amounts) /\ ~ (m < n)
  BY <1>4 DEF Chunk
<1>6. m = n
  BY <1>3, <1>5
<1>7. Seen(list, n) = S
  BY <1>2 DEF Seen
<1> QED BY <1>4, <1>5, <1>6, <1>7 DEF list

\* An earlier time is in no later bin.
LEMMA BinMonotone ==
    ASSUME NEW x \in Nat, NEW y \in Nat, x <= y
    PROVE  find_time_bin(x) <= find_time_bin(y) /\ find_time_bin(x) <= x /\ find_time_bin(x) \in Nat
<1>1. PICK n \in Nat : n = Interval /\ n > 0
  BY IntervalAssumption
<1>2. PICK p \in Nat : p = x \div n /\ p * n <= x /\ x < p * n + n
  BY <1>1
<1>3. PICK q \in Nat : q = y \div n /\ q * n <= y /\ y < q * n + n
  BY <1>1
<1>4. p <= q
  BY <1>1, <1>2, <1>3
<1>5. p * n <= q * n /\ p * n \in Nat
  BY <1>1, <1>4
<1> QED BY <1>1, <1>2, <1>3, <1>5 DEF find_time_bin

\* The start of a bin is in it.
LEMMA FixedBin ==
    ASSUME NEW x \in Nat
    PROVE  find_time_bin(find_time_bin(x)) = find_time_bin(x)
<1>1. PICK n \in Nat : n = Interval /\ n > 0
  BY IntervalAssumption
<1>2. PICK p \in Nat : p = x \div n
  BY <1>1
<1>3. find_time_bin(p * Interval) = p * Interval
  BY BinOf
<1> QED BY <1>1, <1>2, <1>3 DEF find_time_bin

\* The groups from some time on are whole.
LEMMA GroupsFrom ==
    ASSUME IInv, NEW from \in Times \cup {None}
    PROVE  LET groups == group_trades_from(from) IN
           /\ \A t \in trades : from = None \/ from <= t.timestamp => TradeKey(t) \in DOMAIN groups
           /\ \A k \in DOMAIN groups : groups[k] = Amount({t \in trades : TradeKey(t) = k})
<1> DEFINE start == IF from = None THEN None ELSE find_time_bin(from)
           S == {t \in trades : start # None => start <= t.timestamp}
           groups == group_trades_from(from)
<1>1. get_trades(start, None) = Sorted(S)
  BY DEF get_trades
<1>2. groups = Grouped(S, Keys, Amounts)
  BY <1>1, AllGrouped DEF group_trades_from
<1>3. /\ DOMAIN groups = {Keys[t] : t \in S}
      /\ \A k \in DOMAIN groups : groups[k] = SumFunctionOnSet(Amounts, {t \in S : Keys[t] = k})
  BY <1>2 DEF Grouped
<1>4. \A t \in trades : Keys[t] = TradeKey(t) /\ t \in Trade /\ t.timestamp \in Nat
  BY TradeFields DEF Keys, IInv, TypeOK
<1>5. from # None => from \in Nat /\ find_time_bin(from) <= from /\ find_time_bin(from) \in Nat
  BY TimesAssumption, BinMonotone
<1> HIDE DEF groups
<1>6. ASSUME NEW t \in trades, from = None \/ from <= t.timestamp PROVE TradeKey(t) \in DOMAIN groups
  <2>1. t \in S
    BY <1>4, <1>5, <1>6, TimesAssumption
  <2> QED BY <1>3, <1>4, <2>1
<1>7. ASSUME NEW k \in DOMAIN groups PROVE groups[k] = Amount({t \in trades : TradeKey(t) = k})
  <2>1. PICK u \in S : k = TradeKey(u)
    BY <1>3, <1>4
  <2>2. ASSUME NEW t \in trades, TradeKey(t) = k PROVE t \in S
    <3>1. find_time_bin(t.timestamp) = find_time_bin(u.timestamp)
      BY <2>1, <2>2 DEF TradeKey
    <3>2. CASE from = None
      BY <3>2
    <3>3. CASE from # None
      <4>1. start = find_time_bin(from) /\ start \in Nat /\ start <= u.timestamp /\ start # None
        BY <1>5, <3>3, TimesAssumption
      <4>2. find_time_bin(start) = start
        BY <1>5, <3>3, FixedBin
      <4>3. find_time_bin(start) <= find_time_bin(u.timestamp)
        BY <1>4, <4>1, BinMonotone
      <4>4. find_time_bin(t.timestamp) <= t.timestamp /\ find_time_bin(t.timestamp) \in Nat
        BY <1>4, BinMonotone
      <4>5. start <= t.timestamp
        BY <1>4, <3>1, <4>1, <4>2, <4>3, <4>4
      <4> QED BY <4>1, <4>5
    <3> QED BY <3>2, <3>3
  <2>3. {t \in S : Keys[t] = k} = {t \in trades : TradeKey(t) = k}
    BY <1>4, <2>2
  <2> QED BY <1>3, <2>3 DEF Amount, Amounts
<1> QED BY <1>6, <1>7 DEF groups

\* Amounts of offers by price.
PriceGroups == UNION {[K -> Nat] : K \in SUBSET Int}
OfferRound(groups, o) == Add(groups, Quantized(o.price), o.base_amount)

\* Adding to a group keeps the amounts numbers.
LEMMA AddType ==
    ASSUME NEW K, NEW g \in [K -> Nat], NEW key, NEW amount \in Nat
    PROVE  Add(g, key, amount) \in [K \cup {key} -> Nat]
BY DEF Add

\* group_offers is a loop of its rounds.
LEMMA OfferLoop ==
    ASSUME NEW n \in Nat, NEW list \in [1 .. n -> Offers]
    PROVE  \E h : /\ h[0] = <<>>
                  /\ \A k \in 1 .. n : h[k] = OfferRound(h[k - 1], list[k])
                  /\ group_offers(list) = h[n]
<1> DEFINE F == [p \in PriceGroups \X Offers |-> OfferRound(p[1], p[2])]
           IsLoop(f) == f = [s \in SUBSET DOMAIN list |->
               IF s = {} THEN <<>> ELSE OfferRound(f[s \ {Max(s)}], list[Max(s)])]
<1>1. ASSUME NEW g \in PriceGroups, NEW o \in Offers PROVE OfferRound(g, o) \in PriceGroups
  <2>1. PICK K \in SUBSET Int : g \in [K -> Nat]
    BY DEF PriceGroups
  <2>2. Quantized(o.price) \in Int /\ o.base_amount \in Nat
    BY OffersAssumption, IntervalAssumption DEF Quantized
  <2>3. OfferRound(g, o) \in [K \cup {Quantized(o.price)} -> Nat]
    BY <2>1, <2>2, AddType DEF OfferRound
  <2> QED BY <2>2, <2>3 DEF PriceGroups
<1>2. /\ F \in [PriceGroups \X Offers -> PriceGroups]
      /\ \A a \in PriceGroups, t \in Offers : F[<<a, t>>] = OfferRound(a, t)
  BY <1>1
<1> HIDE DEF F
<1>3. PICK it \in [SUBSET (1 .. n) -> PriceGroups] : Folds(it, n, <<>>, list, F)
  <2>1. <<>> \in [{} -> Nat]
    OBVIOUS
  <2>2. <<>> \in PriceGroups
    BY <2>1 DEF PriceGroups
  <2> QED BY <1>2, <2>2, FoldExists
<1>4. ASSUME NEW s \in SUBSET (1 .. n), s # {}
      PROVE  it[s] = OfferRound(it[s \ {Max(s)}], list[Max(s)])
  <2>1. it[s \ {Max(s)}] \in PriceGroups /\ list[Max(s)] \in Offers
    BY <1>4, LastExists
  <2> QED BY <1>2, <1>3, <1>4, <2>1 DEF Folds
<1>5. DOMAIN list = 1 .. n
  OBVIOUS
<1>6. IsLoop(it)
  <2>1. it = [s \in SUBSET (1 .. n) |-> it[s]]
    OBVIOUS
  <2> QED BY <1>3, <1>4, <1>5, <2>1 DEF Folds
<1> DEFINE g == CHOOSE f : IsLoop(f)
<1>7. IsLoop(g)
  <2> HIDE DEF IsLoop
  <2> QED BY <1>6
<1>8. group_offers(list) = g[1 .. n]
  BY <1>5 DEF group_offers, FoldLeft, MapThenFoldSet, OfferRound
<1> HIDE DEF g
<1>9. g[{}] = <<>>
  BY <1>7
<1>10. ASSUME NEW k \in 1 .. n
       PROVE  g[1 .. k] = OfferRound(g[1 .. k - 1], list[k])
  <2>1. 1 .. k \in SUBSET (1 .. n) /\ k \in 1 .. k /\ (1 .. k) \ {k} = 1 .. k - 1
    OBVIOUS
  <2>2. Max(1 .. k) = k
    BY LastIndex
  <2> QED BY <1>5, <1>7, <2>1, <2>2
<1> DEFINE h == [k \in 0 .. n |-> g[1 .. k]]
<1>11. h[0] = <<>>
  <2>1. 1 .. 0 = {}
    OBVIOUS
  <2> QED BY <1>9, <2>1
<1>12. \A k \in 1 .. n : h[k] = OfferRound(h[k - 1], list[k])
  BY <1>10
<1>13. h[n] = g[1 .. n]
  OBVIOUS
<1> HIDE DEF h
<1> QED BY <1>8, <1>11, <1>12, <1>13

\* Any finite set can be listed.
LEMMA SetAsList ==
    ASSUME NEW S, IsFiniteSet(S), NEW list, list = SetToSeq(S)
    PROVE  /\ Cardinality(S) \in Nat /\ list \in [1 .. Cardinality(S) -> S]
           /\ \A i, j \in 1 .. Cardinality(S) : i # j => list[i] # list[j]
           /\ \A x \in S : \E i \in 1 .. Cardinality(S) : list[i] = x
<1> DEFINE n == Cardinality(S)
<1>1. n \in Nat /\ \E f : f \in Bijection(1 .. n, S)
  BY FS_CardinalityType DEF ExistsBijection
<1>2. \E f \in [1 .. n -> S] : IsInjective(f)
  BY <1>1 DEF Bijection, Injection
<1>3. list \in [1 .. n -> S] /\ IsInjective(list)
  BY <1>2 DEF SetToSeq
<1>4. list \in Injection(1 .. n, S)
  BY <1>3 DEF Injection
<1>5. Cardinality(1 .. n) = n
  BY <1>1, FS_Interval
<1>6. list \in Surjection(1 .. n, S)
  BY <1>4, <1>5, FS_Injection
<1> QED BY <1>1, <1>3, <1>6 DEF IsInjective, Surjection

\* Offers that are grouped by price are whole, too.
LEMMA OffersGrouped ==
    ASSUME IInv
    PROVE  LET groups == group_offers(SetToSeq(pending_offer_by_id)) IN
           \A o \in pending_offer_by_id :
              groups[Quantized(o.price)] =
                 SumFunctionOnSet([p \in pending_offer_by_id |-> p.base_amount],
                                  {p \in pending_offer_by_id : Quantized(p.price) = Quantized(o.price)})
<1> DEFINE U == pending_offer_by_id
           list == SetToSeq(U)
           n == Cardinality(U)
           key == [p \in U |-> Quantized(p.price)]
           w == [p \in U |-> p.base_amount]
<1>1. IsFiniteSet(U) /\ U \subseteq Offers
  BY DEF IInv, TypeOK, FinitelyMany
<1>2. /\ n \in Nat /\ list \in [1 .. n -> U]
      /\ \A i, j \in 1 .. n : i # j => list[i] # list[j]
      /\ \A x \in U : \E i \in 1 .. n : list[i] = x
  BY <1>1, SetAsList
<1>3. w \in [U -> Nat] /\ \A o \in U : key[o] = Quantized(o.price) /\ w[o] = o.base_amount
  BY <1>1, OffersAssumption
<1> HIDE DEF list, n, key, w
<1>4. list \in [1 .. n -> Offers]
  BY <1>1, <1>2
<1>5. PICK h : /\ h[0] = <<>>
               /\ \A k \in 1 .. n : h[k] = OfferRound(h[k - 1], list[k])
               /\ group_offers(list) = h[n]
  BY <1>2, <1>4, OfferLoop
<1> DEFINE N == {k \in 0 .. n : h[k] = Grouped(Seen(list, k), key, w)}
<1>6. 0 \in N
  <2>1. Seen(list, 0) = {} /\ 0 \in 0 .. n
    BY <1>2 DEF Seen
  <2>2. Grouped({}, key, w) = <<>>
    BY DEF Grouped
  <2> QED BY <1>5, <2>1, <2>2
<1>7. ASSUME NEW k \in 1 .. n, k - 1 \in N PROVE k \in N
  <2>1. list[k] \in U /\ Seen(list, k - 1) \in SUBSET U
    <3>1. \A i \in 1 .. k - 1 : i \in 1 .. n
      BY <1>2
    <3> QED BY <1>2, <3>1 DEF Seen
  <2>2. Seen(list, k) = Seen(list, k - 1) \cup {list[k]} /\ list[k] \notin Seen(list, k - 1)
    BY <1>2, SeenMore
  <2>3. Add(Grouped(Seen(list, k - 1), key, w), key[list[k]], w[list[k]])
           = Grouped(Seen(list, k - 1) \cup {list[k]}, key, w)
    BY <1>1, <1>3, <2>1, <2>2, AddOne
  <2>4. h[k] = Add(h[k - 1], key[list[k]], w[list[k]])
    BY <1>3, <1>5, <2>1 DEF OfferRound
  <2>5. h[k - 1] = Grouped(Seen(list, k - 1), key, w)
    BY <1>7
  <2>6. k \in 0 .. n
    BY <1>2
  <2> QED BY <2>2, <2>3, <2>4, <2>5, <2>6
<1>8. n \in N
  <2> HIDE DEF N
  <2>1. \A k \in 1 .. n : k - 1 \in N => k \in N
    BY <1>7
  <2>2. \A k \in 0 .. n : k \in N
    BY <1>2, <1>6, <2>1, LoopInduction
  <2> QED BY <1>2, <2>2
<1>9. Seen(list, n) = U
  BY <1>2 DEF Seen
<1>10. group_offers(list) = Grouped(U, key, w)
  BY <1>5, <1>8, <1>9
<1>11. ASSUME NEW o \in U
       PROVE  group_offers(list)[Quantized(o.price)] =
                 SumFunctionOnSet(w, {p \in U : Quantized(p.price) = Quantized(o.price)})
  <2>1. {p \in U : key[p] = key[o]} = {p \in U : Quantized(p.price) = Quantized(o.price)}
    BY <1>3
  <2>2. Grouped(U, key, w)[key[o]] = SumFunctionOnSet(w, {p \in U : key[p] = key[o]})
    BY DEF Grouped
  <2> QED BY <1>3, <1>10, <2>1, <2>2
<1> QED BY <1>11 DEF list, w

\* The groups the API shows from some time on, and the groups of the offers that were taken,
\* are whole, for any offers, timestamps and length of the bins.
THEOREM GroupsAreWhole == Spec => []GroupsAreSums
<1>1. IInv => GroupsAreSums
  BY GroupsFrom, OffersGrouped DEF GroupsAreSums
<1> QED BY <1>1, TradesInvariant, PTL

\* The lesser of two numbers.
LEMMA Lesser ==
    ASSUME NEW a \in Int, NEW b \in Int
    PROVE  /\ a <= b => Min({a, b}) = a
           /\ b <= a => Min({a, b}) = b
BY DEF Min

\* Which groups get_n_recent_trades returns.
LEMMA RecentOnes ==
    ASSUME IInv, NEW n \in Nat
    PROVE  LET groups == get_n_recent_trades(n)
               all == {TradeKey(t) : t \in trades}
               left == all \ DOMAIN groups IN
           /\ DOMAIN groups \subseteq all
           /\ Cardinality(DOMAIN groups) = Min({n, Cardinality(all)})
           /\ \A k \in DOMAIN groups :
                 /\ \A j \in left : j[2] <= k[2]
                 /\ (\A j \in left : j[2] # k[2]) => groups[k] = Amount({t \in trades : TradeKey(t) = k})
<1> DEFINE groups == get_n_recent_trades(n)
           all == {TradeKey(t) : t \in trades}
           left == all \ DOMAIN groups
           sorted == Sorted(trades)
           len == Len(sorted)
           list == Reverse(sorted)
<1>1. IsFiniteSet(trades) /\ trades \in SUBSET Trade
  BY DEF IInv, TypeOK, FinitelyMany
<1>2. /\ sorted \in Seq(Trade) /\ DOMAIN sorted = 1 .. len
      /\ \A i \in 1 .. len : sorted[i] \in trades
      /\ \A t \in trades : \E i \in 1 .. len : sorted[i] = t
      /\ \A i, j \in 1 .. len : i < j => sorted[i] # sorted[j] /\ sorted[i].timestamp <= sorted[j].timestamp
  BY <1>1, SortedList
<1>3. get_trades(None, None) = sorted
  <2>1. {t \in trades : /\ None # None => None <= t.timestamp
                        /\ None # None => t.timestamp < None} = trades
    OBVIOUS
  <2> QED BY <2>1 DEF get_trades
<1> HIDE DEF sorted
<1>4. len \in Nat
  BY <1>2
<1>5. list = [i \in 1 .. len |-> sorted[(len - i) + 1]]
  BY DEF Reverse
<1> HIDE DEF len, list
<1>6. \A i \in 1 .. len : (len - i) + 1 \in 1 .. len /\ (len - ((len - i) + 1)) + 1 = i
  BY <1>4
<1>7. /\ list \in [1 .. len -> trades]
      /\ \A t \in trades : \E i \in 1 .. len : list[i] = t
  BY <1>2, <1>5, <1>6
<1>8. \A i, j \in 1 .. len : i < j => list[i] # list[j] /\ list[j].timestamp <= list[i].timestamp
  <2> SUFFICES ASSUME NEW i \in 1 .. len, NEW j \in 1 .. len, i < j
               PROVE  list[i] # list[j] /\ list[j].timestamp <= list[i].timestamp
    OBVIOUS
  <2>1. (len - j) + 1 < (len - i) + 1
    BY <1>4
  <2> QED BY <1>2, <1>5, <1>6, <2>1
<1>9. \A i, j \in 1 .. len : i # j => list[i] # list[j]
  <2>1. \A i, j \in 1 .. len : i # j => i < j \/ j < i
    BY <1>4
  <2> QED BY <1>8, <2>1
<1>10. n \in Nat \cup {None} /\ n # None
  BY TimesAssumption
<1>11. PICK acc \in Acc : group_trades(list, n) = acc.groups /\ Chunk(acc, list, len, len, n)
  BY <1>4, <1>7, <1>9, <1>10, GroupedList
<1>12. groups = acc.groups
  BY <1>3, <1>11 DEF get_n_recent_trades, list
<1> HIDE DEF groups
<1>13. PICK m \in 0 .. len :
         /\ groups = Grouped(Seen(list, m), Keys, Amounts)
         /\ IsFiniteSet(DOMAIN groups)
         /\ Cardinality(DOMAIN groups) <= n
         /\ m < len => Cardinality(DOMAIN groups) = n /\ TradeKey(list[m + 1]) \notin DOMAIN groups
  BY <1>10, <1>11, <1>12 DEF Chunk
<1>14. m \in Nat /\ m <= len /\ \A i \in 1 .. m : i \in 1 .. len
  BY <1>4, <1>13
<1>15. Seen(list, m) \subseteq trades /\ (m = len => Seen(list, m) = trades)
  BY <1>7, <1>14 DEF Seen
<1>16. /\ DOMAIN groups = {Keys[t] : t \in Seen(list, m)}
       /\ \A k \in DOMAIN groups :
             groups[k] = SumFunctionOnSet(Amounts, {t \in Seen(list, m) : Keys[t] = k})
  BY <1>13 DEF Grouped
<1>17. \A t \in trades : Keys[t] = TradeKey(t) /\ t \in Trade /\ t.timestamp \in Nat
  BY TradeFields DEF Keys, IInv, TypeOK
<1>18. DOMAIN groups \subseteq all /\ (m = len => DOMAIN groups = all)
  BY <1>15, <1>16, <1>17
<1>19. IsFiniteSet(all) /\ Cardinality(all) \in Nat
  BY <1>1, FiniteKeys, FS_CardinalityType
<1> HIDE DEF all
<1>20. Cardinality(DOMAIN groups) = Min({n, Cardinality(all)})
  <2>1. CASE m = len
    BY <1>13, <1>18, <1>19, <2>1, Lesser
  <2>2. CASE m < len
    <3>1. Cardinality(DOMAIN groups) <= Cardinality(all)
      BY <1>18, <1>19, FS_Subset
    <3> QED BY <1>13, <1>19, <2>2, <3>1, Lesser
  <2> QED BY <1>14, <1>4, <2>1, <2>2
<1>21. ASSUME NEW t \in trades, t \notin Seen(list, m)
       PROVE  /\ m < len /\ list[m + 1] \in trades /\ t.timestamp <= list[m + 1].timestamp
              /\ \A u \in Seen(list, m) : list[m + 1].timestamp <= u.timestamp
  <2>1. PICK i \in 1 .. len : list[i] = t
    BY <1>7
  <2>2. i \notin 1 .. m
    BY <1>21, <2>1 DEF Seen
  <2>3. m < i /\ m < len /\ m + 1 \in 1 .. len /\ (i = m + 1 \/ m + 1 < i)
    BY <1>4, <1>14, <2>2
  <2>4. list[m + 1] \in trades
    BY <1>7, <2>3
  <2>5. t.timestamp <= list[m + 1].timestamp
    <3>1. CASE i = m + 1
      BY <1>17, <2>1, <3>1
    <3>2. CASE m + 1 < i
      BY <1>8, <2>1, <2>3, <3>2
    <3> QED BY <2>3, <3>1, <3>2
  <2>6. ASSUME NEW u \in Seen(list, m) PROVE list[m + 1].timestamp <= u.timestamp
    <3>1. PICK j \in 1 .. m : u = list[j]
      BY DEF Seen
    <3>2. j < m + 1 /\ j \in 1 .. len
      BY <1>14
    <3> QED BY <1>8, <2>3, <3>1, <3>2
  <2> QED BY <2>3, <2>4, <2>5, <2>6
<1>22. \A t \in Trade : TradeKey(t)[2] = find_time_bin(t.timestamp)
  BY DEF TradeKey
<1>23. ASSUME NEW k \in DOMAIN groups, NEW j \in left PROVE j[2] <= k[2]
  <2>1. PICK t \in Seen(list, m) : t \in trades /\ k = TradeKey(t)
    BY <1>15, <1>16, <1>17
  <2>2. PICK u \in trades : j = TradeKey(u) /\ u \notin Seen(list, m)
    BY <1>15, <1>16, <1>17 DEF all
  <2>3. list[m + 1] \in trades /\ u.timestamp <= list[m + 1].timestamp /\ list[m + 1].timestamp <= t.timestamp
    BY <1>21, <2>1, <2>2
  <2>4. u.timestamp <= t.timestamp /\ u.timestamp \in Nat /\ t.timestamp \in Nat
    BY <1>17, <2>1, <2>2, <2>3
  <2> QED BY <1>17, <1>22, <2>1, <2>2, <2>4, BinMonotone
<1>24. ASSUME NEW k \in DOMAIN groups, \A j \in left : j[2] # k[2]
       PROVE  groups[k] = Amount({t \in trades : TradeKey(t) = k})
  <2>1. PICK t \in Seen(list, m) : t \in trades /\ k = TradeKey(t)
    BY <1>15, <1>16, <1>17
  <2>2. ASSUME NEW u \in trades, TradeKey(u) = k, u \notin Seen(list, m) PROVE FALSE
    <3> DEFINE v == list[m + 1]
    <3>1. m < len /\ v \in trades /\ u.timestamp <= v.timestamp /\ v.timestamp <= t.timestamp
      BY <1>21, <2>1, <2>2
    <3>2. TradeKey(v) \in left
      BY <1>13, <3>1 DEF all
    <3> HIDE DEF v
    <3>3. /\ find_time_bin(u.timestamp) <= find_time_bin(v.timestamp)
          /\ find_time_bin(v.timestamp) <= find_time_bin(t.timestamp)
          /\ find_time_bin(u.timestamp) \in Nat /\ find_time_bin(v.timestamp) \in Nat
      BY <1>17, <2>1, <3>1, BinMonotone
    <3>4. find_time_bin(u.timestamp) = find_time_bin(t.timestamp)
      BY <1>17, <1>22, <2>1, <2>2
    <3>5. find_time_bin(v.timestamp) = find_time_bin(t.timestamp)
      BY <3>3, <3>4
    <3> QED BY <1>17, <1>22, <1>24, <2>1, <3>1, <3>2, <3>5
  <2>3. {u \in Seen(list, m) : Keys[u] = k} = {u \in trades : TradeKey(u) = k}
    BY <1>15, <1>17, <2>2
  <2> QED BY <1>16, <2>3 DEF Amount, Amounts
<1> QED BY <1>18, <1>20, <1>23, <1>24 DEF groups, all

\* The most recent groups are as many as were asked for and the newest, for any number of
\* them, any trades and any length of the bins.
THEOREM RecentGroupsAreNewest == Spec => []RecentGroups
<1>1. IInv => RecentGroups
  <2>1. \A n \in 0 .. MaxGroups : n \in Nat
    BY BoundsAssumption
  <2> QED BY <2>1, RecentOnes DEF RecentGroups
<1> QED BY <1>1, TradesInvariant, PTL

-----------------------------------------------------------------------------
(* The bins of the price chart. *)

Prices == Nat \X Nat
Bins == [timestamp : Int, open : Prices, min : Nat \cup {None}, max : Nat \cup {None},
         amount : Nat, close_timestamp : Nat \cup {None}, close_prices : Seq(Nat)]

\* The price of a trade as the chart shows it.
Price(t) == Quantized(t.offer.price)

\* A price of the chart is a number.
LEMMA PriceType == ASSUME NEW t \in Trade PROVE Price(t) \in Nat
BY OffersAssumption, IntervalAssumption DEF Price, Quantized, Trade

\* What AddTrade does to the fields of a bin.
LEMMA AddedTrade ==
    ASSUME NEW bin \in Bins, NEW t \in Trade, NEW next, next = AddTrade(bin, t)
    PROVE  LET later == bin.close_timestamp = None \/ t.timestamp > bin.close_timestamp IN
           /\ next \in Bins
           /\ next.timestamp = bin.timestamp /\ next.open = bin.open
           /\ next.amount = bin.amount + t.offer.base_amount
           /\ next.min = IF bin.min = None \/ Price(t) < bin.min THEN Price(t) ELSE bin.min
           /\ next.max = IF bin.max = None \/ Price(t) > bin.max THEN Price(t) ELSE bin.max
           /\ next.close_timestamp = IF later THEN t.timestamp ELSE bin.close_timestamp
           /\ next.close_prices = IF later THEN <<Price(t)>>
                                  ELSE IF t.timestamp = bin.close_timestamp THEN Append(bin.close_prices, Price(t))
                                  ELSE bin.close_prices
<1> DEFINE later == bin.close_timestamp = None \/ t.timestamp > bin.close_timestamp
           p == Price(t)
           min == IF bin.min = None \/ p < bin.min THEN p ELSE bin.min
           max == IF bin.max = None \/ p > bin.max THEN p ELSE bin.max
           time == IF later THEN t.timestamp ELSE bin.close_timestamp
           close == IF later THEN <<p>> ELSE IF t.timestamp = bin.close_timestamp
                    THEN Append(bin.close_prices, p) ELSE bin.close_prices
<1>1. p \in Nat /\ t.timestamp \in Nat /\ t.offer.base_amount \in Nat
  BY PriceType, TradeFields
<1>2. /\ bin.timestamp \in Int /\ bin.open \in Prices /\ bin.min \in Nat \cup {None}
      /\ bin.max \in Nat \cup {None} /\ bin.amount \in Nat /\ bin.close_timestamp \in Nat \cup {None}
      /\ bin.close_prices \in Seq(Nat)
  BY DEF Bins
<1>3. next = [bin EXCEPT !.min = min, !.max = max, !.amount = bin.amount + t.offer.base_amount,
                         !.close_timestamp = time, !.close_prices = close]
  BY DEF AddTrade, Price, Bins
<1>4. min \in Nat \cup {None} /\ max \in Nat \cup {None} /\ time \in Nat \cup {None}
  BY <1>1, <1>2
<1>5. close \in Seq(Nat)
  BY <1>1, <1>2
<1>6. bin.amount + t.offer.base_amount \in Nat
  BY <1>1, <1>2
<1> HIDE DEF later, p, min, max, time, close
<1>7. next \in Bins
  BY <1>3, <1>4, <1>5, <1>6 DEF Bins
<1>8. /\ next.timestamp = bin.timestamp /\ next.open = bin.open
      /\ next.amount = bin.amount + t.offer.base_amount
      /\ next.min = min /\ next.max = max /\ next.close_timestamp = time /\ next.close_prices = close
  BY <1>3 DEF Bins
<1> QED BY <1>7, <1>8 DEF later, p, min, max, time, close

\* The bin that the trades of a list make.
LEMMA BinLoop ==
    ASSUME NEW n \in Nat, NEW list \in [1 .. n -> Trade], NEW base \in Bins
    PROVE  \E h : /\ h[0] = base
                  /\ \A k \in 1 .. n : h[k] = AddTrade(h[k - 1], list[k])
                  /\ FoldLeft(AddTrade, base, list) = h[n]
<1> DEFINE F == [p \in Bins \X Trade |-> AddTrade(p[1], p[2])]
           IsLoop(f) == f = [s \in SUBSET DOMAIN list |->
               IF s = {} THEN base ELSE AddTrade(f[s \ {Max(s)}], list[Max(s)])]
<1>1. \A b \in Bins, t \in Trade : AddTrade(b, t) \in Bins
  BY AddedTrade
<1>2. /\ F \in [Bins \X Trade -> Bins]
      /\ \A a \in Bins, t \in Trade : F[<<a, t>>] = AddTrade(a, t)
  BY <1>1
<1> HIDE DEF F
<1>3. PICK it \in [SUBSET (1 .. n) -> Bins] : Folds(it, n, base, list, F)
  BY <1>2, FoldExists
<1>4. ASSUME NEW s \in SUBSET (1 .. n), s # {}
      PROVE  it[s] = AddTrade(it[s \ {Max(s)}], list[Max(s)])
  <2>1. it[s \ {Max(s)}] \in Bins /\ list[Max(s)] \in Trade
    BY <1>4, LastExists
  <2> QED BY <1>2, <1>3, <1>4, <2>1 DEF Folds
<1>5. DOMAIN list = 1 .. n
  OBVIOUS
<1>6. IsLoop(it)
  <2>1. it = [s \in SUBSET (1 .. n) |-> it[s]]
    OBVIOUS
  <2> QED BY <1>3, <1>4, <1>5, <2>1 DEF Folds
<1> DEFINE g == CHOOSE f : IsLoop(f)
<1>7. IsLoop(g)
  <2> HIDE DEF IsLoop
  <2> QED BY <1>6
<1>8. FoldLeft(AddTrade, base, list) = g[1 .. n]
  BY <1>5 DEF FoldLeft, MapThenFoldSet
<1> HIDE DEF g
<1>9. g[{}] = base
  BY <1>7
<1>10. ASSUME NEW k \in 1 .. n
       PROVE  g[1 .. k] = AddTrade(g[1 .. k - 1], list[k])
  <2>1. 1 .. k \in SUBSET (1 .. n) /\ k \in 1 .. k /\ (1 .. k) \ {k} = 1 .. k - 1
    OBVIOUS
  <2>2. Max(1 .. k) = k
    BY LastIndex
  <2> QED BY <1>5, <1>7, <2>1, <2>2
<1> DEFINE h == [k \in 0 .. n |-> g[1 .. k]]
<1>11. h[0] = base
  <2>1. 1 .. 0 = {}
    OBVIOUS
  <2> QED BY <1>9, <2>1
<1>12. \A k \in 1 .. n : h[k] = AddTrade(h[k - 1], list[k])
  BY <1>10
<1>13. h[n] = g[1 .. n]
  OBVIOUS
<1> HIDE DEF h
<1> QED BY <1>8, <1>11, <1>12, <1>13

\* The sum in close_price is that of a loop, too.
LEMMA CloseLoop ==
    ASSUME NEW n \in Nat, NEW list \in [1 .. n -> Nat]
    PROVE  \E h \in [0 .. n -> Nat] :
              /\ h[0] = 0
              /\ \A k \in 1 .. n : h[k] = h[k - 1] + list[k]
              /\ FoldLeft(LAMBDA sum, p : sum + p, 0, list) = h[n]
<1> DEFINE F == [p \in Nat \X Nat |-> p[1] + p[2]]
           IsLoop(f) == f = [s \in SUBSET DOMAIN list |->
               IF s = {} THEN 0 ELSE f[s \ {Max(s)}] + list[Max(s)]]
<1>1. /\ F \in [Nat \X Nat -> Nat]
      /\ \A a, t \in Nat : F[<<a, t>>] = a + t
  OBVIOUS
<1> HIDE DEF F
<1>2. PICK it \in [SUBSET (1 .. n) -> Nat] : Folds(it, n, 0, list, F)
  BY <1>1, FoldExists
<1>3. ASSUME NEW s \in SUBSET (1 .. n), s # {}
      PROVE  it[s] = it[s \ {Max(s)}] + list[Max(s)]
  <2>1. it[s \ {Max(s)}] \in Nat /\ list[Max(s)] \in Nat
    BY <1>3, LastExists
  <2> QED BY <1>1, <1>2, <1>3, <2>1 DEF Folds
<1>4. DOMAIN list = 1 .. n
  OBVIOUS
<1>5. IsLoop(it)
  <2>1. it = [s \in SUBSET (1 .. n) |-> it[s]]
    OBVIOUS
  <2> QED BY <1>2, <1>3, <1>4, <2>1 DEF Folds
<1> DEFINE g == CHOOSE f : IsLoop(f)
<1>6. IsLoop(g)
  <2> HIDE DEF IsLoop
  <2> QED BY <1>5
<1>7. FoldLeft(LAMBDA sum, p : sum + p, 0, list) = g[1 .. n]
  BY <1>4 DEF FoldLeft, MapThenFoldSet
<1> HIDE DEF g
<1>8. g[{}] = 0
  BY <1>6
<1>9. ASSUME NEW k \in 1 .. n
      PROVE  g[1 .. k] = g[1 .. k - 1] + list[k]
  <2>1. 1 .. k \in SUBSET (1 .. n) /\ k \in 1 .. k /\ (1 .. k) \ {k} = 1 .. k - 1
    OBVIOUS
  <2>2. Max(1 .. k) = k
    BY LastIndex
  <2> QED BY <1>4, <1>6, <2>1, <2>2
<1> DEFINE h == [k \in 0 .. n |-> g[1 .. k]]
           N == {k \in 0 .. n : h[k] \in Nat}
<1>10. h[0] = 0
  <2>1. 1 .. 0 = {}
    OBVIOUS
  <2> QED BY <1>8, <2>1
<1>11. \A k \in 1 .. n : h[k] = h[k - 1] + list[k]
  BY <1>9
<1>12. h[n] = g[1 .. n] /\ h = [k \in 0 .. n |-> h[k]]
  OBVIOUS
<1> HIDE DEF h
<1>13. 0 \in N
  BY <1>10
<1>14. \A k \in 1 .. n : k - 1 \in N => k \in N
  BY <1>11
<1>15. \A k \in 0 .. n : h[k] \in Nat
  <2>1. \A k \in 0 .. n : k \in N
    <3> HIDE DEF N
    <3> QED BY <1>13, <1>14, LoopInduction
  <2> QED BY <2>1
<1>16. h \in [0 .. n -> Nat]
  BY <1>12, <1>15
<1> QED BY <1>7, <1>10, <1>11, <1>12, <1>16

\* The latest of some trades, and the amounts and prices of all.
Latest(S) == {t \in S : \A u \in S : u.timestamp <= t.timestamp}
TradePrices == [t \in trades |-> Price(t)]

\* The closing prices of a bin after the first k trades of a list are those from the c-th on,
\* which came at the same time.
Closing(bin, list, k) ==
    \E c \in 1 .. k :
        /\ Len(bin.close_prices) = (k - c) + 1
        /\ \A i \in c .. k : /\ list[i].timestamp = list[k].timestamp
                             /\ bin.close_prices[(i - c) + 1] = Price(list[i])
        /\ \A i \in 1 .. c - 1 : list[i].timestamp < list[k].timestamp

\* What a bin holds after them.
Filled(bin, list, k) ==
    /\ bin.amount = SumFunctionOnSet(Amounts, Seen(list, k))
    /\ k = 0 => bin.min = None /\ bin.max = None /\ bin.close_timestamp = None
    /\ k > 0 =>
          /\ bin.min \in Nat /\ bin.max \in Nat /\ bin.close_timestamp = list[k].timestamp
          /\ \A i \in 1 .. k : bin.min <= Price(list[i]) /\ Price(list[i]) <= bin.max
          /\ \E i \in 1 .. k : bin.min = Price(list[i])
          /\ \E i \in 1 .. k : bin.max = Price(list[i])
          /\ Closing(bin, list, k)

\* A list of trades by time.
ByTime(list, n) ==
    /\ list \in [1 .. n -> trades]
    /\ \A i, j \in 1 .. n : i < j => list[i] # list[j] /\ list[i].timestamp <= list[j].timestamp

\* Adding the next trade.
LEMMA FilledMore ==
    ASSUME IInv, NEW n \in Nat, NEW list, ByTime(list, n), NEW k \in 1 .. n,
           NEW bin \in Bins, Filled(bin, list, k - 1),
           NEW next, next = AddTrade(bin, list[k])
    PROVE  Filled(next, list, k)
<1> DEFINE t == list[k]
           p == Price(t)
<1>1. /\ t \in trades /\ t \in Trade /\ IsFiniteSet(trades) /\ p \in Nat /\ t.timestamp \in Nat
      /\ \A i \in 1 .. n : list[i] \in Trade /\ Price(list[i]) \in Nat /\ list[i].timestamp \in Nat
  BY PriceType, TradeFields DEF IInv, TypeOK, FinitelyMany, ByTime
<1>2. /\ next.amount = bin.amount + t.offer.base_amount
      /\ next.min = IF bin.min = None \/ p < bin.min THEN p ELSE bin.min
      /\ next.max = IF bin.max = None \/ p > bin.max THEN p ELSE bin.max
      /\ bin.close_timestamp = None \/ t.timestamp > bin.close_timestamp =>
            next.close_timestamp = t.timestamp /\ next.close_prices = <<p>>
      /\ ~ (bin.close_timestamp = None \/ t.timestamp > bin.close_timestamp) =>
            /\ next.close_timestamp = bin.close_timestamp
            /\ t.timestamp = bin.close_timestamp => next.close_prices = Append(bin.close_prices, p)
  <2>1. LET later == bin.close_timestamp = None \/ t.timestamp > bin.close_timestamp IN
        /\ next.amount = bin.amount + t.offer.base_amount
        /\ next.min = IF bin.min = None \/ Price(t) < bin.min THEN Price(t) ELSE bin.min
        /\ next.max = IF bin.max = None \/ Price(t) > bin.max THEN Price(t) ELSE bin.max
        /\ next.close_timestamp = IF later THEN t.timestamp ELSE bin.close_timestamp
        /\ next.close_prices = IF later THEN <<Price(t)>>
                               ELSE IF t.timestamp = bin.close_timestamp THEN Append(bin.close_prices, Price(t))
                               ELSE bin.close_prices
    <3>1. t \in Trade /\ next = AddTrade(bin, t)
      BY <1>1
    <3> HIDE DEF t
    <3> QED BY <3>1, AddedTrade
  <2> QED BY <2>1
<1>3. bin.close_prices \in Seq(Nat)
  BY DEF Bins
<1> HIDE DEF p
<1>4. next.amount = SumFunctionOnSet(Amounts, Seen(list, k))
  <2>1. Amounts \in [trades -> Nat] /\ Amounts[t] = t.offer.base_amount
    BY <1>1, OffersAssumption DEF Amounts, IInv, TypeOK, Trade
  <2>2. \A i, j \in 1 .. n : i # j => list[i] # list[j]
    <3>1. \A i, j \in 1 .. n : i # j => i < j \/ j < i
      OBVIOUS
    <3> QED BY <3>1 DEF ByTime
  <2>3. Seen(list, k) = Seen(list, k - 1) \cup {t} /\ t \notin Seen(list, k - 1)
    BY <2>2, SeenMore
  <2>4. Seen(list, k - 1) \in SUBSET trades
    <3>1. \A i \in 1 .. k - 1 : i \in 1 .. n
      OBVIOUS
    <3> QED BY <3>1 DEF Seen, ByTime
  <2> DEFINE S == Seen(list, k - 1)
             T == Seen(list, k)
  <2>5. T \in SUBSET trades /\ t \in T /\ T \ {t} = S
    BY <1>1, <2>3, <2>4
  <2> HIDE DEF S, T
  <2>6. SumFunctionOnSet(Amounts, T) = Amounts[t] + SumFunctionOnSet(Amounts, S)
    BY <1>1, <2>1, <2>5, SumSteps
  <2>7. Amounts[t] \in Nat /\ SumFunctionOnSet(Amounts, S) \in Nat
    BY <1>1, <2>1, <2>4, SumSteps DEF S
  <2>8. bin.amount = SumFunctionOnSet(Amounts, S)
    BY DEF Filled, S
  <2> QED BY <1>2, <2>1, <2>6, <2>7, <2>8 DEF T
<1>5. CASE k = 1
  <2>1. bin.min = None /\ bin.max = None /\ bin.close_timestamp = None
    BY <1>5 DEF Filled
  <2>2. next.min = p /\ next.max = p /\ next.close_timestamp = t.timestamp /\ next.close_prices = <<p>>
    BY <1>2, <2>1
  <2>3. /\ \A i \in 1 .. k : i = 1 /\ next.min <= Price(list[i]) /\ Price(list[i]) <= next.max
        /\ 1 \in 1 .. k /\ next.min = Price(list[1]) /\ next.max = Price(list[1])
    BY <1>1, <1>5, <2>2 DEF p
  <2>4. Closing(next, list, k)
    <3>1. Len(next.close_prices) = 1 /\ next.close_prices[1] = p
      BY <2>2
    <3>2. \A i \in 1 .. k : i = 1 /\ (i - 1) + 1 = 1
      BY <1>5
    <3>3. \A i \in 1 .. 1 - 1 : FALSE
      OBVIOUS
    <3>4. 1 \in 1 .. k /\ Len(next.close_prices) = (k - 1) + 1 /\ list[1] = t
      BY <1>5, <3>1
    <3>5. \A i \in 1 .. k : /\ list[i].timestamp = list[k].timestamp
                            /\ next.close_prices[(i - 1) + 1] = Price(list[i])
      BY <1>5, <3>1, <3>2 DEF p
    <3> QED BY <3>3, <3>4, <3>5 DEF Closing
  <2> QED BY <1>1, <1>4, <1>5, <2>2, <2>3, <2>4 DEF Filled
<1>6. CASE k > 1
  <2>1. k - 1 > 0 /\ k - 1 \in 1 .. n /\ 1 .. k = (1 .. k - 1) \cup {k} /\ k \in 1 .. k
    BY <1>6
  <2>2. /\ bin.min \in Nat /\ bin.max \in Nat /\ bin.close_timestamp = list[k - 1].timestamp
        /\ \A i \in 1 .. k - 1 : bin.min <= Price(list[i]) /\ Price(list[i]) <= bin.max
        /\ \E i \in 1 .. k - 1 : bin.min = Price(list[i])
        /\ \E i \in 1 .. k - 1 : bin.max = Price(list[i])
    BY <2>1 DEF Filled
  <2>3. bin.min # None /\ bin.max # None /\ bin.close_timestamp # None /\ bin.close_timestamp \in Nat
    BY <1>1, <2>1, <2>2, TimesAssumption
  <2>4. PICK c \in 1 .. k - 1 :
                /\ Len(bin.close_prices) = ((k - 1) - c) + 1
                /\ \A i \in c .. k - 1 : /\ list[i].timestamp = list[k - 1].timestamp
                                         /\ bin.close_prices[(i - c) + 1] = Price(list[i])
                /\ \A i \in 1 .. c - 1 : list[i].timestamp < list[k - 1].timestamp
    BY <2>1 DEF Filled, Closing
  <2>5. list[k - 1].timestamp <= t.timestamp
    BY <2>1 DEF ByTime
  <2>6. /\ next.min \in Nat /\ next.max \in Nat
        /\ \A i \in 1 .. k : next.min <= Price(list[i]) /\ Price(list[i]) <= next.max
        /\ \E i \in 1 .. k : next.min = Price(list[i])
        /\ \E i \in 1 .. k : next.max = Price(list[i])
    <3>1. next.min \in Nat /\ next.min <= p /\ next.min <= bin.min /\ next.min \in {p, bin.min}
      BY <1>1, <1>2, <2>2, <2>3
    <3>2. next.max \in Nat /\ next.max >= p /\ next.max >= bin.max /\ next.max \in {p, bin.max}
      BY <1>1, <1>2, <2>2, <2>3
    <3>3. Price(list[k]) = p /\ \A i \in 1 .. k : Price(list[i]) \in Nat
      BY <1>1 DEF p
    <3>4. \A i \in 1 .. k - 1 : next.min <= Price(list[i]) /\ Price(list[i]) <= next.max
      <4> SUFFICES ASSUME NEW i \in 1 .. k - 1 PROVE next.min <= Price(list[i]) /\ Price(list[i]) <= next.max
        OBVIOUS
      <4>1. i \in 1 .. k /\ bin.min <= Price(list[i]) /\ Price(list[i]) <= bin.max /\ Price(list[i]) \in Nat
        BY <2>1, <2>2, <3>3
      <4> QED BY <2>2, <3>1, <3>2, <4>1
    <3>5. next.min <= Price(list[k]) /\ Price(list[k]) <= next.max
      BY <1>1, <3>1, <3>2, <3>3
    <3> QED BY <2>1, <2>2, <3>1, <3>2, <3>3, <3>4, <3>5
  <2>7. CASE t.timestamp > bin.close_timestamp
    <3>1. next.close_timestamp = t.timestamp /\ next.close_prices = <<p>>
      BY <1>2, <2>7
    <3>2. Len(next.close_prices) = (k - k) + 1 /\ next.close_prices[1] = p
      BY <3>1
    <3>3. \A i \in k .. k : i = k /\ (i - k) + 1 = 1
      OBVIOUS
    <3>4. ASSUME NEW i \in 1 .. k - 1 PROVE list[i].timestamp < t.timestamp
      <4>1. list[i].timestamp <= list[k - 1].timestamp /\ list[i].timestamp \in Nat
        <5>1. i \in 1 .. n /\ (i < k - 1 \/ i = k - 1)
          OBVIOUS
        <5> QED BY <1>1, <2>1, <5>1 DEF ByTime
      <4> QED BY <1>1, <2>1, <2>2, <2>3, <2>7, <4>1
    <3>5. k \in 1 .. k /\ \A i \in k .. k : /\ list[i].timestamp = list[k].timestamp
                                          /\ next.close_prices[(i - k) + 1] = Price(list[i])
      BY <3>2, <3>3 DEF p
    <3>6. Closing(next, list, k)
      BY <3>2, <3>4, <3>5 DEF Closing
    <3> QED BY <1>4, <1>6, <2>6, <3>1, <3>6 DEF Filled
  <2>8. CASE ~ (t.timestamp > bin.close_timestamp)
    <3>1. t.timestamp = bin.close_timestamp
      BY <1>1, <2>1, <2>2, <2>5, <2>8
    <3>2. next.close_timestamp = t.timestamp /\ next.close_prices = Append(bin.close_prices, p)
      BY <1>2, <2>3, <2>8, <3>1
    <3>3. /\ Len(next.close_prices) = (k - c) + 1
          /\ next.close_prices[(k - c) + 1] = p
          /\ \A i \in 1 .. Len(bin.close_prices) : next.close_prices[i] = bin.close_prices[i]
      BY <1>3, <2>4, <3>2
    <3>4. ASSUME NEW i \in c .. k
          PROVE  list[i].timestamp = list[k].timestamp /\ next.close_prices[(i - c) + 1] = Price(list[i])
      <4>1. CASE i = k
        BY <3>3, <4>1 DEF p
      <4>2. CASE i # k
        <5>1. i \in c .. k - 1 /\ (i - c) + 1 \in 1 .. Len(bin.close_prices)
          BY <2>4, <4>2
        <5> QED BY <2>2, <2>4, <3>1, <3>3, <5>1
      <4> QED BY <4>1, <4>2
    <3>5. \A i \in 1 .. c - 1 : list[i].timestamp < list[k].timestamp
      BY <2>2, <2>4, <3>1
    <3>6. c \in 1 .. k
      BY <2>4
    <3>7. Closing(next, list, k)
      BY <3>3, <3>4, <3>5, <3>6 DEF Closing
    <3> QED BY <1>4, <1>6, <2>6, <3>2, <3>7 DEF Filled
  <2> QED BY <2>7, <2>8
<1> QED BY <1>5, <1>6

-----------------------------------------------------------------------------
(* What the chart shows of its bins. *)

\* What the chart shows of a bin that holds the trades S and opens at a price.
Shows(bin, S, open) ==
    /\ bin.open = open
    /\ bin.amount = SumFunctionOnSet(Amounts, S)
    /\ S = {} => close_price(bin) = open
    /\ S # {} => /\ bin.min \in {Price(t) : t \in S} /\ bin.max \in {Price(t) : t \in S}
                 /\ \A t \in S : bin.min <= Price(t) /\ Price(t) <= bin.max
                 /\ close_price(bin) = <<SumFunctionOnSet(TradePrices, Latest(S)), Cardinality(Latest(S))>>
                 /\ close_price(bin) \in Prices
                 /\ bin.min * close_price(bin)[2] <= close_price(bin)[1]
                 /\ close_price(bin)[1] <= bin.max * close_price(bin)[2]

\* The sum of the prices of some trades, one at a time.
LEMMA PriceSums ==
    ASSUME IInv
    PROVE  /\ IsFiniteSet(trades) /\ TradePrices \in [trades -> Nat]
           /\ SumFunctionOnSet(TradePrices, {}) = 0
           /\ \A V \in SUBSET trades : \A x \in V :
                 SumFunctionOnSet(TradePrices, V) = TradePrices[x] + SumFunctionOnSet(TradePrices, V \ {x})
<1>1. IsFiniteSet(trades) /\ TradePrices \in [trades -> Nat]
  BY PriceType DEF IInv, TypeOK, FinitelyMany, TradePrices
<1> DEFINE T == trades
           f == TradePrices
<1>2. IsFiniteSet(T) /\ f \in [T -> Nat]
  BY <1>1
<1> HIDE DEF T, f
<1>3. /\ SumFunctionOnSet(f, {}) = 0
      /\ \A V \in SUBSET T : \A x \in V : SumFunctionOnSet(f, V) = f[x] + SumFunctionOnSet(f, V \ {x})
  BY <1>2, SumSteps
<1> QED BY <1>1, <1>3 DEF T, f

\* The closing price is the average of the latest prices, and in the bin's range.
LEMMA ClosePrice ==
    ASSUME IInv, NEW n \in Nat \ {0}, NEW list, ByTime(list, n), NEW bin \in Bins, Filled(bin, list, n)
    PROVE  LET latest == Latest(Seen(list, n)) IN
           /\ close_price(bin) = <<SumFunctionOnSet(TradePrices, latest), Cardinality(latest)>>
           /\ close_price(bin) \in Prices
           /\ bin.min * close_price(bin)[2] <= close_price(bin)[1]
           /\ close_price(bin)[1] <= bin.max * close_price(bin)[2]
<1> DEFINE latest == Latest(Seen(list, n))
           e == bin.close_prices
           m == Len(e)
<1>1. /\ IsFiniteSet(trades) /\ TradePrices \in [trades -> Nat]
      /\ \A i \in 1 .. n : /\ list[i] \in trades /\ TradePrices[list[i]] = Price(list[i])
                           /\ Price(list[i]) \in Nat /\ list[i].timestamp \in Nat
  BY PriceType, TradeFields DEF IInv, TypeOK, FinitelyMany, ByTime, TradePrices
<1>2. PICK c \in 1 .. n :
        /\ m = (n - c) + 1
        /\ \A i \in c .. n : list[i].timestamp = list[n].timestamp /\ e[(i - c) + 1] = Price(list[i])
        /\ \A i \in 1 .. c - 1 : list[i].timestamp < list[n].timestamp
  BY DEF Filled, Closing
<1>3. e \in Seq(Nat) /\ bin.close_timestamp # None /\ n \in 1 .. n
  BY <1>1, TimesAssumption DEF Bins, Filled
<1>4. m \in Nat /\ e \in [1 .. m -> Nat]
  BY <1>3
<1> HIDE DEF e, m
<1>5. PICK h \in [0 .. m -> Nat] :
              /\ h[0] = 0
              /\ \A k \in 1 .. m : h[k] = h[k - 1] + e[k]
              /\ FoldLeft(LAMBDA sum, p : sum + p, 0, e) = h[m]
  BY <1>4, CloseLoop
<1>6. close_price(bin) = <<h[m], m>>
  BY <1>3, <1>5 DEF close_price, e, m
<1>7. h \in [0 .. m -> Nat] /\ h[0] = 0 /\ \A k \in 1 .. m : h[k] = h[k - 1] + e[k]
  BY <1>5
<1> DEFINE place(k) == (k + c) - 1
<1>8. \A k \in 1 .. m : /\ place(k) \in c .. n /\ place(k) \in 1 .. n
                        /\ e[k] = Price(list[place(k)])
  <2> SUFFICES ASSUME NEW k \in 1 .. m PROVE place(k) \in c .. n /\ place(k) \in 1 .. n /\ e[k] = Price(list[place(k)])
    OBVIOUS
  <2>1. place(k) \in c .. n /\ place(k) \in 1 .. n /\ (place(k) - c) + 1 = k
    BY <1>2, <1>4
  <2> HIDE DEF place
  <2> QED BY <1>2, <2>1
<1> DEFINE Closers(k) == {list[place(i)] : i \in 1 .. k}
           N == {k \in 0 .. m : /\ h[k] = SumFunctionOnSet(TradePrices, Closers(k))
                                /\ IsFiniteSet(Closers(k)) /\ Cardinality(Closers(k)) = k
                                /\ bin.min * k <= h[k] /\ h[k] <= bin.max * k}
<1>9. bin.min \in Nat /\ bin.max \in Nat /\ \A i \in 1 .. n : bin.min <= Price(list[i]) /\ Price(list[i]) <= bin.max
  BY DEF Filled
<1>10. 0 \in N
  <2>1. Closers(0) = {} /\ 0 \in 0 .. m
    BY <1>4
  <2>2. SumFunctionOnSet(TradePrices, {}) = 0
    BY <1>1, SumSteps
  <2>3. bin.min * 0 = 0 /\ bin.max * 0 = 0
    BY <1>9
  <2> HIDE DEF Closers
  <2>4. h[0] = SumFunctionOnSet(TradePrices, Closers(0)) /\ IsFiniteSet(Closers(0)) /\ Cardinality(Closers(0)) = 0
    BY <1>7, <2>1, <2>2, FS_EmptySet
  <2>5. bin.min * 0 <= h[0] /\ h[0] <= bin.max * 0
    BY <1>7, <2>3
  <2> QED BY <2>1, <2>4, <2>5
<1>11. ASSUME NEW k \in 1 .. m, k - 1 \in N PROVE k \in N
  <2> DEFINE t == list[place(k)]
             S == Closers(k - 1)
             T == Closers(k)
  <2>1. /\ t \in trades /\ TradePrices[t] = Price(t) /\ e[k] = Price(t) /\ Price(t) \in Nat
        /\ bin.min <= Price(t) /\ Price(t) <= bin.max
    BY <1>1, <1>8, <1>9
  <2>2. T = S \cup {t} /\ t \notin S /\ T \in SUBSET trades /\ S \in SUBSET trades
    <3>1. 1 .. k = (1 .. k - 1) \cup {k} /\ \A i \in 1 .. k : i \in 1 .. m
      BY <1>4
    <3>2. \A i \in 1 .. k - 1 : place(i) < place(k) /\ place(i) \in 1 .. n /\ place(k) \in 1 .. n
      BY <1>4, <1>8
    <3>3. \A i \in 1 .. k : list[place(i)] \in trades
      BY <1>1, <1>8, <3>1
    <3> HIDE DEF place
    <3>4. \A i \in 1 .. k - 1 : list[place(i)] # list[place(k)]
      BY <3>2 DEF ByTime
    <3> QED BY <3>1, <3>3, <3>4
  <2>3. T \ {t} = S /\ t \in T
    BY <2>2
  <2>4. /\ h[k - 1] = SumFunctionOnSet(TradePrices, S)
        /\ IsFiniteSet(S) /\ Cardinality(S) = k - 1
        /\ bin.min * (k - 1) <= h[k - 1] /\ h[k - 1] <= bin.max * (k - 1)
    BY <1>11
  <2> HIDE DEF S, T, t, place
  <2>5. SumFunctionOnSet(TradePrices, T) = TradePrices[t] + SumFunctionOnSet(TradePrices, S)
    BY <2>2, <2>3, PriceSums
  <2>6. h[k] = h[k - 1] + Price(t) /\ h[k - 1] \in Nat /\ k \in 0 .. m /\ k \in Nat
    BY <1>4, <1>7, <2>1
  <2>7. h[k] = SumFunctionOnSet(TradePrices, T)
    BY <2>1, <2>4, <2>5, <2>6
  <2>8. IsFiniteSet(T) /\ Cardinality(T) = k
    BY <2>2, <2>4, <2>6, FS_AddElement
  <2>9. bin.min * k = bin.min * (k - 1) + bin.min /\ bin.max * k = bin.max * (k - 1) + bin.max
    BY <1>9, <2>6
  <2>10. bin.min * (k - 1) \in Int /\ bin.max * (k - 1) \in Int
    BY <1>9, <2>6
  <2>11. bin.min * k <= h[k] /\ h[k] <= bin.max * k
    BY <1>9, <2>1, <2>4, <2>6, <2>9, <2>10
  <2> QED BY <2>6, <2>7, <2>8, <2>11 DEF T
<1>12. m \in N
  <2> HIDE DEF N
  <2>1. \A k \in 1 .. m : k - 1 \in N => k \in N
    BY <1>11
  <2>2. \A k \in 0 .. m : k \in N
    BY <1>4, <1>10, <2>1, LoopInduction
  <2> QED BY <1>4, <2>2
<1>13. Closers(m) = latest
  <2>1. ASSUME NEW i \in 1 .. n, list[i] \in latest PROVE i \in c .. n
    <3>1. list[n].timestamp <= list[i].timestamp
      BY <1>3, <2>1 DEF Latest, Seen
    <3>2. ~ (list[i].timestamp < list[n].timestamp)
      BY <1>1, <1>3, <3>1
    <3>3. i \notin 1 .. c - 1
      BY <1>2, <3>2
    <3> QED BY <3>3
  <2>2. ASSUME NEW i \in c .. n PROVE list[i] \in latest
    <3>1. i \in 1 .. n /\ list[i].timestamp = list[n].timestamp
      BY <1>2
    <3>2. ASSUME NEW j \in 1 .. n PROVE list[j].timestamp <= list[n].timestamp
      <4>1. j < n \/ j = n
        OBVIOUS
      <4> QED BY <1>1, <1>3, <4>1 DEF ByTime
    <3> QED BY <3>1, <3>2 DEF Latest, Seen
  <2>3. \A i \in c .. n : (i - c) + 1 \in 1 .. m /\ place((i - c) + 1) = i
    BY <1>2, <1>4
  <2>4. \A k \in 1 .. m : list[place(k)] \in latest
    BY <1>8, <2>2
  <2>5. latest \subseteq {list[i] : i \in 1 .. n}
    BY DEF Latest, Seen
  <2> HIDE DEF latest, place
  <2> QED BY <2>1, <2>3, <2>4, <2>5
<1> HIDE DEF latest, Closers
<1>14. /\ h[m] = SumFunctionOnSet(TradePrices, latest) /\ Cardinality(latest) = m
       /\ bin.min * m <= h[m] /\ h[m] <= bin.max * m
  BY <1>12, <1>13
<1>15. <<h[m], m>> \in Prices /\ <<h[m], m>>[1] = h[m] /\ <<h[m], m>>[2] = m
  BY <1>4, <1>7 DEF Prices
<1> QED BY <1>6, <1>14, <1>15 DEF latest

\* An empty bin.
LEMMA EmptyBin ==
    ASSUME IInv, NEW open \in Prices, NEW b \in Int, NEW list
    PROVE  /\ PriceBin(open, b) \in Bins
           /\ PriceBin(open, b).timestamp = b /\ PriceBin(open, b).open = open
           /\ Filled(PriceBin(open, b), list, 0)
<1>1. PriceBin(open, b) \in Bins
  BY DEF PriceBin, Bins
<1>2. Seen(list, 0) = {}
  BY DEF Seen
<1>3. SumFunctionOnSet(Amounts, {}) = 0
  <2>1. IsFiniteSet(trades) /\ Amounts \in [trades -> Nat]
    BY TradeFields DEF IInv, TypeOK, FinitelyMany, Amounts
  <2> QED BY <2>1, SumSteps
<1> DEFINE bin == PriceBin(open, b)
<1>4. /\ bin.timestamp = b /\ bin.open = open /\ bin.min = None /\ bin.max = None
      /\ bin.amount = 0 /\ bin.close_timestamp = None
  BY DEF PriceBin
<1> HIDE DEF bin
<1>5. Filled(bin, list, 0)
  BY <1>2, <1>3, <1>4 DEF Filled
<1> QED BY <1>1, <1>4, <1>5 DEF bin

\* The bin that some trades make, in the order of their keys.
LEMMA OneBin ==
    ASSUME IInv, NEW open \in Prices, NEW b \in Int, NEW S \in SUBSET trades,
           NEW bin, bin = FoldLeft(AddTrade, PriceBin(open, b), Sorted(S))
    PROVE  bin \in Bins /\ bin.timestamp = b /\ Shows(bin, S, open)
<1> DEFINE list == Sorted(S)
           n == Len(list)
           base == PriceBin(open, b)
<1>1. S \in SUBSET Trade /\ IsFiniteSet(S) /\ trades \in SUBSET Trade
  BY FS_Subset DEF IInv, TypeOK, FinitelyMany
<1>2. /\ list \in Seq(Trade) /\ DOMAIN list = 1 .. n
      /\ \A i \in 1 .. n : list[i] \in S /\ list[i] \in Trade
      /\ \A t \in S : \E i \in 1 .. n : list[i] = t
      /\ \A i, j \in 1 .. n : i < j => list[i] # list[j] /\ list[i].timestamp <= list[j].timestamp
  BY <1>1, SortedList
<1>3. n \in Nat
  BY <1>2
<1>4. bin = FoldLeft(AddTrade, base, list)
  OBVIOUS
<1>5. base \in Bins /\ base.timestamp = b /\ base.open = open /\ Filled(base, list, 0)
  BY EmptyBin
<1> HIDE DEF list, n, base
<1>6. list \in [1 .. n -> Trade] /\ list \in [1 .. n -> trades]
  BY <1>2
<1>7. ByTime(list, n)
  BY <1>2, <1>6 DEF ByTime
<1>8. PICK h : /\ h[0] = base
               /\ \A k \in 1 .. n : h[k] = AddTrade(h[k - 1], list[k])
               /\ FoldLeft(AddTrade, base, list) = h[n]
  BY <1>3, <1>5, <1>6, BinLoop
<1>9. h[0] = base /\ (\A k \in 1 .. n : h[k] = AddTrade(h[k - 1], list[k])) /\ bin = h[n]
  BY <1>4, <1>8
<1> DEFINE G == {k \in 0 .. n : h[k] \in Bins /\ h[k].timestamp = b /\ h[k].open = open /\ Filled(h[k], list, k)}
<1>10. 0 \in G
  BY <1>3, <1>5, <1>9
<1>11. ASSUME NEW k \in 1 .. n, k - 1 \in G PROVE k \in G
  <2>1. /\ h[k - 1] \in Bins /\ h[k - 1].timestamp = b /\ h[k - 1].open = open
        /\ Filled(h[k - 1], list, k - 1) /\ list[k] \in Trade
    BY <1>2, <1>11
  <2> DEFINE old == h[k - 1]
             next == h[k]
             t == list[k]
  <2>2. next = AddTrade(old, list[k]) /\ next = AddTrade(old, t)
    BY <1>9
  <2>3. old \in Bins /\ old.timestamp = b /\ old.open = open /\ Filled(old, list, k - 1) /\ t \in Trade
    BY <2>1
  <2> HIDE DEF old, next, t
  <2>4. next \in Bins /\ next.timestamp = b /\ next.open = open
    BY <2>2, <2>3, AddedTrade
  <2>5. Filled(next, list, k)
    BY <1>3, <1>7, <2>2, <2>3, FilledMore
  <2>6. k \in 0 .. n
    BY <1>3
  <2> QED BY <2>4, <2>5, <2>6 DEF next
<1>12. n \in G
  <2> HIDE DEF G
  <2>1. \A k \in 1 .. n : k - 1 \in G => k \in G
    BY <1>11
  <2>2. \A k \in 0 .. n : k \in G
    BY <1>3, <1>10, <2>1, LoopInduction
  <2> QED BY <1>3, <2>2
<1>13. bin \in Bins /\ bin.timestamp = b /\ bin.open = open /\ Filled(bin, list, n)
  BY <1>9, <1>12
<1> HIDE DEF G
<1>14. Seen(list, n) = S
  BY <1>2 DEF Seen
<1>15. S = {} <=> n = 0
  BY <1>2, <1>3
<1>16. bin.amount = SumFunctionOnSet(Amounts, S)
  BY <1>13, <1>14 DEF Filled
<1>17. CASE n = 0
  BY <1>13, <1>15, <1>16, <1>17 DEF Filled, close_price, Shows
<1>18. CASE n # 0
  <2>1. n \in Nat \ {0} /\ n > 0
    BY <1>3, <1>18
  <2>2. /\ close_price(bin) = <<SumFunctionOnSet(TradePrices, Latest(S)), Cardinality(Latest(S))>>
        /\ close_price(bin) \in Prices
        /\ bin.min * close_price(bin)[2] <= close_price(bin)[1]
        /\ close_price(bin)[1] <= bin.max * close_price(bin)[2]
    BY <1>7, <1>13, <1>14, <2>1, ClosePrice
  <2>3. /\ \A i \in 1 .. n : bin.min <= Price(list[i]) /\ Price(list[i]) <= bin.max
        /\ \E i \in 1 .. n : bin.min = Price(list[i])
        /\ \E i \in 1 .. n : bin.max = Price(list[i])
    BY <1>13, <2>1 DEF Filled
  <2>4. /\ bin.min \in {Price(t) : t \in S} /\ bin.max \in {Price(t) : t \in S}
        /\ \A t \in S : bin.min <= Price(t) /\ Price(t) <= bin.max
    BY <1>2, <2>3
  <2> QED BY <1>13, <1>15, <1>16, <1>18, <2>2, <2>4 DEF Shows
<1> QED BY <1>13, <1>17, <1>18

-----------------------------------------------------------------------------
(* The chart: a loop whose rounds are bins. *)

\* The trades of some time.
Between(a, b) == {t \in trades : a <= t.timestamp /\ t.timestamp < b}

\* The latest price of some trades is that of the later ones of them, if there are any.
LEMMA LatestOfBoth ==
    ASSUME IInv, NEW A \in SUBSET trades, NEW B \in SUBSET trades,
           \A t \in A, u \in B : t.timestamp < u.timestamp
    PROVE  LatestPrice(A \cup B) = IF B = {} THEN LatestPrice(A)
                                   ELSE <<SumFunctionOnSet(TradePrices, Latest(B)), Cardinality(Latest(B))>>
<1>1. \A S : S # {} => LatestPrice(S) = <<SumFunctionOnSet(TradePrices, Latest(S)), Cardinality(Latest(S))>>
  BY DEF LatestPrice, Latest, TradePrices, Price
<1>2. CASE B = {}
  <2>1. A \cup B = A
    BY <1>2
  <2> QED BY <1>2, <2>1
<1>3. CASE B # {}
  <2>1. \A t \in trades : t.timestamp \in Nat
    BY TradeFields DEF IInv, TypeOK
  <2>2. Latest(A \cup B) = Latest(B)
    <3>1. \A t \in B : \A u \in A : u.timestamp <= t.timestamp
      BY <2>1
    <3>2. \A t \in A : \E u \in B : ~ (u.timestamp <= t.timestamp)
      BY <1>3, <2>1
    <3> QED BY <3>1, <3>2 DEF Latest
  <2>3. A \cup B # {}
    BY <1>3
  <2> QED BY <1>1, <1>3, <2>2, <2>3
<1> QED BY <1>2, <1>3

\* One bin of the chart, which opens with the latest price from some earlier time on.
LEMMA NextBinShows ==
    ASSUME IInv, NEW a \in Int, NEW b \in Int, a <= b, LatestPrice(Between(a, b)) \in Prices,
           NEW bin, bin = price_bin(LatestPrice(Between(a, b)), b, b + Interval)
    PROVE  /\ bin \in Bins /\ bin.timestamp = b /\ Shows(bin, InBin(b), LatestPrice(Between(a, b)))
           /\ close_price(bin) = LatestPrice(Between(a, b + Interval))
           /\ close_price(bin) \in Prices
<1> DEFINE open == LatestPrice(Between(a, b))
           S == InBin(b)
<1>1. PICK n \in Nat : n = Interval /\ n > 0
  BY IntervalAssumption
<1>2. b # None /\ b + Interval # None
  BY <1>1, TimesAssumption
<1>3. get_trades(b, b + Interval) = Sorted(S)
  <2>1. {t \in trades : /\ b # None => b <= t.timestamp
                        /\ b + Interval # None => t.timestamp < b + Interval} = S
    BY <1>2 DEF InBin
  <2> QED BY <2>1 DEF get_trades
<1>4. S \in SUBSET trades
  BY DEF InBin
<1>5. bin = FoldLeft(AddTrade, PriceBin(open, b), Sorted(S))
  BY <1>3 DEF price_bin
<1>6. open \in Prices
  OBVIOUS
<1>7. Between(a, b + Interval) = Between(a, b) \cup S
  <2>1. \A t \in trades : t.timestamp \in Nat
    BY TradeFields DEF IInv, TypeOK
  <2> QED BY <1>1, <2>1 DEF Between, InBin
<1>8. Between(a, b) \in SUBSET trades /\ \A t \in Between(a, b), u \in S : t.timestamp < u.timestamp
  <2>1. \A t \in trades : t.timestamp \in Nat
    BY TradeFields DEF IInv, TypeOK
  <2> QED BY <2>1 DEF Between, InBin
<1> HIDE DEF S, open
<1>9. bin \in Bins /\ bin.timestamp = b /\ Shows(bin, S, open)
  BY <1>4, <1>5, <1>6, OneBin
<1>10. LatestPrice(Between(a, b + Interval)) =
          IF S = {} THEN open ELSE <<SumFunctionOnSet(TradePrices, Latest(S)), Cardinality(Latest(S))>>
  BY <1>4, <1>7, <1>8, LatestOfBoth DEF open
<1>11. close_price(bin) = LatestPrice(Between(a, b + Interval)) /\ close_price(bin) \in Prices
  BY <1>6, <1>9, <1>10 DEF Shows
<1> QED BY <1>9, <1>11 DEF S, open

\* Where the bins of the chart start and end.
LEMMA ChartTimes ==
    ASSUME NEW current \in Int, NEW nof_buckets \in Nat,
           NEW from, from = time_bin_gen(time_bin_gen(current, 2)[1], nof_buckets + 1),
           NEW to, to = time_bin_gen(time_bin_gen(current, 2)[2], nof_buckets + 1)
    PROVE  /\ \A i \in 1 .. nof_buckets + 1 :
                 /\ from[i] \in Int /\ to[i] = from[i] + Interval /\ from[1] <= from[i]
                 /\ from[i] = find_time_bin(current) - ((nof_buckets + 2) - i) * Interval
           /\ \A i \in 1 .. nof_buckets : from[i + 1] = to[i]
<1>1. PICK n \in Nat : n = Interval /\ n > 0
  BY IntervalAssumption
<1>2. PICK q \in Int : q = current \div n
  BY <1>1
<1>3. find_time_bin(current) = q * n
  BY <1>1, <1>2 DEF find_time_bin
<1> DEFINE start == time_bin_gen(current, 2)
<1>4. start[1] = q * n + (-1) * n /\ start[2] = q * n + 0 * n
  BY <1>1, <1>3 DEF time_bin_gen
<1>5. start[1] = (q - 1) * n /\ start[2] = q * n
  BY <1>1, <1>4
<1>6. from = time_bin_gen(start[1], nof_buckets + 1) /\ to = time_bin_gen(start[2], nof_buckets + 1)
  OBVIOUS
<1> HIDE DEF start
<1>7. find_time_bin(start[1]) = (q - 1) * n /\ find_time_bin(start[2]) = q * n
  <2>1. q - 1 \in Int
    OBVIOUS
  <2>2. \A k \in Int : find_time_bin(k * Interval) = k * Interval
    BY BinOf
  <2>3. find_time_bin(start[1]) = (q - 1) * n
    BY <1>1, <1>5, <2>1, <2>2
  <2>4. find_time_bin(start[2]) = q * n
    BY <1>1, <1>5, <2>2
  <2> QED BY <2>3, <2>4
<1>8. \A i \in 1 .. nof_buckets + 1 :
         /\ from[i] = (q - 1) * n + (i - (nof_buckets + 1)) * n
         /\ to[i] = q * n + (i - (nof_buckets + 1)) * n
  BY <1>1, <1>6, <1>7 DEF time_bin_gen
<1>9. \A i \in 1 .. nof_buckets + 1 :
         /\ from[i] = (q - nof_buckets - 2 + i) * n
         /\ to[i] = from[i] + n
  BY <1>1, <1>8
<1>10. ASSUME NEW i \in 1 .. nof_buckets + 1
       PROVE  /\ from[i] \in Int /\ to[i] = from[i] + Interval /\ from[1] <= from[i]
              /\ from[i] = find_time_bin(current) - ((nof_buckets + 2) - i) * Interval
  <2>1. from[i] = (q - nof_buckets - 2 + i) * n /\ from[1] = (q - nof_buckets - 2 + 1) * n
    BY <1>9
  <2>2. from[i] \in Int /\ from[1] \in Int
    BY <1>1, <2>1
  <2>3. from[i] = from[1] + (i - 1) * n /\ (i - 1) * n >= 0
    BY <1>1, <2>1
  <2>4. from[1] <= from[i]
    <3>1. (i - 1) * n \in Int
      BY <1>1
    <3> QED BY <2>2, <2>3, <3>1
  <2>5. from[i] = q * n - ((nof_buckets + 2) - i) * n
    BY <1>1, <2>1
  <2> QED BY <1>1, <1>3, <1>9, <2>2, <2>4, <2>5
<1>11. ASSUME NEW i \in 1 .. nof_buckets PROVE from[i + 1] = to[i]
  <2>1. /\ from[i + 1] = (q - nof_buckets - 2 + (i + 1)) * n
        /\ from[i] = (q - nof_buckets - 2 + i) * n /\ to[i] = from[i] + n
    BY <1>9
  <2> QED BY <1>1, <2>1
<1> QED BY <1>10, <1>11

\* One round of the loop of make_price_bins.
Chart == [bins : Seq(Bins), last_close_price : Prices]
NoBins == [bins |-> <<>>, last_close_price |-> <<0, 1>>]
ChartRound(acc, i, from, to) ==
    LET bin == price_bin(acc.last_close_price, from[i], to[i]) IN
    [bins |-> Append(acc.bins, bin), last_close_price |-> close_price(bin)]

\* A bin is one, whatever trades it holds, and so is its closing price a price.
LEMMA BinType ==
    ASSUME IInv, NEW open \in Prices, NEW a \in Int, NEW b \in Int
    PROVE  price_bin(open, a, b) \in Bins /\ close_price(price_bin(open, a, b)) \in Prices
<1> DEFINE S == {t \in trades : /\ a # None => a <= t.timestamp
                                /\ b # None => t.timestamp < b}
           bin == price_bin(open, a, b)
<1>1. bin = FoldLeft(AddTrade, PriceBin(open, a), Sorted(S))
  BY DEF price_bin, get_trades
<1>2. S \in SUBSET trades
  OBVIOUS
<1> HIDE DEF bin, S
<1>3. bin \in Bins /\ Shows(bin, S, open)
  BY <1>1, <1>2, OneBin
<1> QED BY <1>3 DEF Shows, bin

\* A round keeps the types.
LEMMA ChartRoundType ==
    ASSUME IInv, NEW acc \in Chart, NEW i, NEW from, NEW to, from[i] \in Int, to[i] \in Int
    PROVE  ChartRound(acc, i, from, to) \in Chart
<1> DEFINE bin == price_bin(acc.last_close_price, from[i], to[i])
<1>1. acc.last_close_price \in Prices /\ acc.bins \in Seq(Bins)
  BY DEF Chart
<1>2. bin \in Bins /\ close_price(bin) \in Prices
  BY <1>1, BinType
<1>3. ChartRound(acc, i, from, to) = [bins |-> Append(acc.bins, bin), last_close_price |-> close_price(bin)]
  BY DEF ChartRound
<1> HIDE DEF bin
<1>4. Append(acc.bins, bin) \in Seq(Bins)
  BY <1>1, <1>2
<1> QED BY <1>2, <1>3, <1>4 DEF Chart

\* make_price_bins is the loop of its rounds, without the first bin.
LEMMA ChartLoop ==
    ASSUME IInv, NEW current \in Int, NEW nof_buckets \in Nat
    PROVE  LET from == time_bin_gen(time_bin_gen(current, 2)[1], nof_buckets + 1)
               to == time_bin_gen(time_bin_gen(current, 2)[2], nof_buckets + 1) IN
           \E h : /\ h[0] = NoBins
                  /\ \A k \in 1 .. nof_buckets + 1 : h[k] = ChartRound(h[k - 1], k, from, to)
                  /\ make_price_bins(current, nof_buckets) = Tail(h[nof_buckets + 1].bins)
<1> DEFINE from == time_bin_gen(time_bin_gen(current, 2)[1], nof_buckets + 1)
           to == time_bin_gen(time_bin_gen(current, 2)[2], nof_buckets + 1)
           n == nof_buckets + 1
           list == [i \in 1 .. n |-> i]
           F == [p \in Chart \X (1 .. n) |-> ChartRound(p[1], p[2], from, to)]
           IsLoop(f) == f = [s \in SUBSET DOMAIN list |->
               IF s = {} THEN NoBins ELSE ChartRound(f[s \ {Max(s)}], list[Max(s)], from, to)]
<1>1. make_price_bins(current, nof_buckets) =
         Tail(FoldLeft(LAMBDA acc, i : ChartRound(acc, i, from, to), NoBins, list).bins)
  BY DEF make_price_bins, ChartRound, NoBins
<1> HIDE DEF from, to
<1>2. \A i \in 1 .. n : from[i] \in Int /\ to[i] \in Int
  <2>1. \A i \in 1 .. n : from[i] \in Int /\ to[i] = from[i] + Interval
    BY ChartTimes DEF from, to
  <2>2. Interval \in Int
    BY IntervalAssumption
  <2> QED BY <2>1, <2>2
<1>3. n \in Nat /\ list \in [1 .. n -> 1 .. n] /\ DOMAIN list = 1 .. n /\ \A i \in 1 .. n : list[i] = i
  OBVIOUS
<1>4. \A a \in Chart, i \in 1 .. n : ChartRound(a, i, from, to) \in Chart
  BY <1>2, ChartRoundType
<1>5. /\ F \in [Chart \X (1 .. n) -> Chart]
      /\ \A a \in Chart, i \in 1 .. n : F[<<a, i>>] = ChartRound(a, i, from, to)
  BY <1>4
<1> HIDE DEF F
<1>6. NoBins \in Chart
  BY DEF NoBins, Chart, Prices
<1>7. PICK it \in [SUBSET (1 .. n) -> Chart] : Folds(it, n, NoBins, list, F)
  <2> HIDE DEF n, list
  <2> QED BY <1>3, <1>5, <1>6, FoldExists
<1>8. ASSUME NEW s \in SUBSET (1 .. n), s # {}
      PROVE  it[s] = ChartRound(it[s \ {Max(s)}], list[Max(s)], from, to)
  <2> HIDE DEF n, list
  <2>1. it[s \ {Max(s)}] \in Chart /\ Max(s) \in 1 .. n /\ list[Max(s)] \in 1 .. n
    BY <1>3, <1>8, LastExists
  <2> QED BY <1>5, <1>7, <1>8, <2>1 DEF Folds
<1>9. IsLoop(it)
  <2>1. it = [s \in SUBSET (1 .. n) |-> it[s]]
    OBVIOUS
  <2> HIDE DEF n, list
  <2> QED BY <1>3, <1>7, <1>8, <2>1 DEF Folds
<1> DEFINE g == CHOOSE f : IsLoop(f)
<1>10. IsLoop(g)
  <2> HIDE DEF IsLoop
  <2> QED BY <1>9
<1>11. FoldLeft(LAMBDA acc, i : ChartRound(acc, i, from, to), NoBins, list) = g[1 .. n]
  <2> HIDE DEF n, list
  <2> QED BY <1>3 DEF FoldLeft, MapThenFoldSet
<1>12. make_price_bins(current, nof_buckets) = Tail(g[1 .. n].bins)
  BY <1>1, <1>11
<1> HIDE DEF g, n, list
<1>13. g[{}] = NoBins
  BY <1>10
<1>14. \A s \in SUBSET (1 .. n) : s # {} => g[s] = ChartRound(g[s \ {Max(s)}], list[Max(s)], from, to)
  BY <1>3, <1>10
<1>15. ASSUME NEW k \in 1 .. n
       PROVE  g[1 .. k] = ChartRound(g[1 .. k - 1], k, from, to)
  <2>1. 1 .. k \in SUBSET (1 .. n) /\ k \in 1 .. k /\ (1 .. k) \ {k} = 1 .. k - 1
    BY <1>3
  <2>2. Max(1 .. k) = k
    BY LastIndex
  <2>3. 1 .. k # {} /\ list[k] = k
    BY <1>3, <2>1
  <2>4. g[1 .. k] = ChartRound(g[(1 .. k) \ {k}], list[k], from, to)
    BY <1>14, <2>1, <2>2, <2>3
  <2> QED BY <2>1, <2>3, <2>4
<1> DEFINE h == [k \in 0 .. n |-> g[1 .. k]]
<1>16. h[0] = NoBins
  <2>1. 1 .. 0 = {} /\ 0 \in 0 .. n
    BY <1>3
  <2> QED BY <1>13, <2>1
<1>17. \A k \in 1 .. n : h[k] = ChartRound(h[k - 1], k, from, to)
  BY <1>3, <1>15
<1>18. h[n] = g[1 .. n]
  BY <1>3
<1> HIDE DEF h
<1>19. make_price_bins(current, nof_buckets) = Tail(h[n].bins)
  BY <1>12, <1>18
<1> QED BY <1>16, <1>17, <1>19 DEF n, from, to

\* What the chart shows after k rounds: bins one after the other, each of which opens with the
\* latest price before it, and the price the next one opens with.
ShowsFrom(bin, start, b) ==
    /\ bin \in Bins /\ bin.timestamp = b
    /\ Shows(bin, InBin(b), LatestPrice(Between(start, b)))
    /\ close_price(bin) = LatestPrice(Between(start, b + Interval))
Charted(acc, from, k) ==
    /\ acc.bins \in Seq(Bins) /\ Len(acc.bins) = k
    /\ \A i \in 1 .. k : ShowsFrom(acc.bins[i], from[1], from[i])
    /\ acc.last_close_price \in Prices
    /\ k = 0 => acc.last_close_price = <<0, 1>>
    /\ k > 0 => acc.last_close_price = LatestPrice(Between(from[1], from[k] + Interval))

\* One round.
LEMMA ChartMore ==
    ASSUME IInv, NEW n \in Nat, NEW from, NEW to,
           \A i \in 1 .. n : from[i] \in Int /\ to[i] = from[i] + Interval /\ from[1] <= from[i],
           NEW k \in 1 .. n, k > 1 => from[k] = to[k - 1], NEW acc, Charted(acc, from, k - 1),
           NEW next, next = ChartRound(acc, k, from, to)
    PROVE  Charted(next, from, k)
<1> DEFINE open == acc.last_close_price
           a == from[1]
           b == from[k]
           bin == price_bin(open, b, b + Interval)
<1>1. 1 \in 1 .. n /\ a \in Int /\ b \in Int /\ a <= b /\ to[k] = b + Interval
  OBVIOUS
<1>2. open = LatestPrice(Between(a, b)) /\ open \in Prices
  <2>1. CASE k = 1
    <3>1. Between(a, b) = {}
      <4>1. \A t \in trades : t.timestamp \in Nat
        BY TradeFields DEF IInv, TypeOK
      <4> QED BY <1>1, <2>1, <4>1 DEF Between
    <3> QED BY <2>1, <3>1 DEF Charted, LatestPrice
  <2>2. CASE k > 1
    <3>1. k - 1 > 0 /\ k - 1 \in 1 .. n /\ from[k] = from[k - 1] + Interval
      BY <2>2
    <3> QED BY <3>1 DEF Charted
  <2> QED BY <2>1, <2>2
<1>3. /\ acc.bins \in Seq(Bins) /\ Len(acc.bins) = k - 1
      /\ \A i \in 1 .. k - 1 : ShowsFrom(acc.bins[i], a, from[i])
  BY DEF Charted
<1>4. next = [bins |-> Append(acc.bins, bin), last_close_price |-> close_price(bin)]
  BY <1>1 DEF ChartRound
<1>5. bin = price_bin(LatestPrice(Between(a, b)), b, b + Interval) /\ LatestPrice(Between(a, b)) \in Prices
  BY <1>2
<1> HIDE DEF bin, a, b, open
<1>6. /\ bin \in Bins /\ bin.timestamp = b /\ Shows(bin, InBin(b), LatestPrice(Between(a, b)))
      /\ close_price(bin) = LatestPrice(Between(a, b + Interval)) /\ close_price(bin) \in Prices
  BY <1>1, <1>5, NextBinShows
<1>7. ShowsFrom(bin, a, b)
  BY <1>6 DEF ShowsFrom
<1>8. /\ next.bins \in Seq(Bins) /\ Len(next.bins) = k /\ next.bins[k] = bin
      /\ \A i \in 1 .. k - 1 : next.bins[i] = acc.bins[i]
  BY <1>3, <1>4, <1>6
<1>9. \A i \in 1 .. k : ShowsFrom(next.bins[i], a, from[i])
  <2>1. \A i \in 1 .. k : i = k \/ i \in 1 .. k - 1
    OBVIOUS
  <2> QED BY <1>3, <1>7, <1>8, <2>1 DEF b
<1>10. next.last_close_price \in Prices /\ next.last_close_price = LatestPrice(Between(a, b + Interval))
  BY <1>4, <1>6
<1> QED BY <1>8, <1>9, <1>10 DEF Charted, a, b

\* The bins that make_price_bins returns.
LEMMA ChartShows ==
    ASSUME IInv, NEW current \in Int, NEW nof_buckets \in Nat,
           NEW bins, bins = make_price_bins(current, nof_buckets)
    PROVE  /\ Len(bins) = nof_buckets
           /\ \A i \in 1 .. nof_buckets :
                 ShowsFrom(bins[i], find_time_bin(current) - (nof_buckets + 1) * Interval,
                           find_time_bin(current) - ((nof_buckets + 1) - i) * Interval)
<1> DEFINE n == nof_buckets + 1
           from == time_bin_gen(time_bin_gen(current, 2)[1], n)
           to == time_bin_gen(time_bin_gen(current, 2)[2], n)
<1>1. PICK h : /\ h[0] = NoBins
               /\ \A k \in 1 .. n : h[k] = ChartRound(h[k - 1], k, from, to)
               /\ make_price_bins(current, nof_buckets) = Tail(h[n].bins)
  BY ChartLoop
<1>2. /\ \A i \in 1 .. n : /\ from[i] \in Int /\ to[i] = from[i] + Interval /\ from[1] <= from[i]
                           /\ from[i] = find_time_bin(current) - ((nof_buckets + 2) - i) * Interval
      /\ \A i \in 1 .. nof_buckets : from[i + 1] = to[i]
  BY ChartTimes
<1>3. n \in Nat /\ 0 \in 0 .. n /\ n \in 0 .. n /\ n = nof_buckets + 1
  OBVIOUS
<1> HIDE DEF n, from, to
<1> DEFINE G == {k \in 0 .. n : Charted(h[k], from, k)}
<1>4. 0 \in G
  <2>1. NoBins.bins = <<>> /\ NoBins.last_close_price = <<0, 1>>
    BY DEF NoBins
  <2>2. <<0, 1>> \in Prices /\ <<>> \in Seq(Bins) /\ Len(<<>>) = 0 /\ ~ (0 > 0)
    BY DEF Prices
  <2>3. \A i \in 1 .. 0 : FALSE
    OBVIOUS
  <2>4. Charted(NoBins, from, 0)
    BY <2>1, <2>2, <2>3 DEF Charted
  <2> QED BY <1>1, <1>3, <2>4
<1>5. ASSUME NEW k \in 1 .. n, k - 1 \in G PROVE k \in G
  <2>1. k > 1 => from[k] = to[k - 1]
    <3> SUFFICES ASSUME k > 1 PROVE from[k] = to[k - 1]
      OBVIOUS
    <3>1. k - 1 \in 1 .. nof_buckets /\ (k - 1) + 1 = k
      BY <1>3
    <3> QED BY <1>2, <3>1
  <2>2. Charted(h[k - 1], from, k - 1) /\ h[k] = ChartRound(h[k - 1], k, from, to)
    BY <1>1, <1>5
  <2>3. \A i \in 1 .. n : from[i] \in Int /\ to[i] = from[i] + Interval /\ from[1] <= from[i]
    BY <1>2
  <2>4. Charted(h[k], from, k)
    BY <1>3, <2>1, <2>2, <2>3, ChartMore
  <2>5. k \in 0 .. n
    BY <1>3
  <2> QED BY <2>4, <2>5
<1>6. n \in G
  <2> HIDE DEF G
  <2>1. \A k \in 1 .. n : k - 1 \in G => k \in G
    BY <1>5
  <2>2. \A k \in 0 .. n : k \in G
    BY <1>3, <1>4, <2>1, LoopInduction
  <2> QED BY <1>3, <2>2
<1> DEFINE all == h[n].bins
<1>7. /\ all \in Seq(Bins) /\ Len(all) = n
      /\ \A i \in 1 .. n : ShowsFrom(all[i], from[1], from[i])
  BY <1>6 DEF Charted
<1>8. bins = Tail(all)
  BY <1>1
<1> HIDE DEF all
<1>9. Len(bins) = nof_buckets /\ \A i \in 1 .. nof_buckets : bins[i] = all[i + 1]
  BY <1>3, <1>7, <1>8
<1>10. ASSUME NEW i \in 1 .. nof_buckets
       PROVE  ShowsFrom(bins[i], find_time_bin(current) - (nof_buckets + 1) * Interval,
                        find_time_bin(current) - ((nof_buckets + 1) - i) * Interval)
  <2>1. i + 1 \in 1 .. n /\ 1 \in 1 .. n
    BY <1>3
  <2>2. /\ from[i + 1] = find_time_bin(current) - ((nof_buckets + 2) - (i + 1)) * Interval
        /\ from[1] = find_time_bin(current) - ((nof_buckets + 2) - 1) * Interval
    BY <1>2, <2>1
  <2>3. (nof_buckets + 2) - (i + 1) = (nof_buckets + 1) - i /\ (nof_buckets + 2) - 1 = nof_buckets + 1
    OBVIOUS
  <2>4. ShowsFrom(all[i + 1], from[1], from[i + 1]) /\ bins[i] = all[i + 1]
    BY <1>7, <1>9, <2>1
  <2> QED BY <2>2, <2>3, <2>4
<1> QED BY <1>9, <1>10

-----------------------------------------------------------------------------
(* The promises of the chart. *)

\* The queries the chart is asked for.
LEMMA Queries == Times \subseteq Int /\ \A n \in 1 .. MaxGroups : n \in Nat
BY TimesAssumption, BoundsAssumption

\* The chart has the bins asked for, the last ones that are over, and every trade in that time
\* counts in the bin of its timestamp and nowhere else, for any trades, bins and interval.
THEOREM ChartCoversWindow == Spec => []BinsCoverWindow
<1>1. IInv => BinsCoverWindow
  <2> SUFFICES ASSUME IInv, NEW now \in Times, NEW n \in 1 .. MaxGroups,
                      NEW bins, bins = make_price_bins(now, n)
               PROVE  /\ Len(bins) = n
                      /\ \A i \in 1 .. n :
                            /\ bins[i].timestamp = find_time_bin(now) - (n + 1 - i) * Interval
                            /\ bins[i].amount = Amount(InBin(bins[i].timestamp))
    BY DEF BinsCoverWindow
  <2>1. now \in Int /\ n \in Nat
    BY Queries
  <2>2. /\ Len(bins) = n
        /\ \A i \in 1 .. n : ShowsFrom(bins[i], find_time_bin(now) - (n + 1) * Interval,
                                       find_time_bin(now) - ((n + 1) - i) * Interval)
    BY <2>1, ChartShows
  <2>3. \A S : Amount(S) = SumFunctionOnSet(Amounts, S)
    BY DEF Amount, Amounts
  <2> QED BY <2>2, <2>3 DEF ShowsFrom, Shows
<1> QED BY <1>1, TradesInvariant, PTL

\* A bin opens with the last price before it, however many bins without trades lie between, and
\* closes with the last price in it, for any trades, bins and interval.
THEOREM PricesAreContinuous == Spec => []ChartIsContinuous
<1>1. IInv => ChartIsContinuous
  <2> SUFFICES ASSUME IInv, NEW now \in Times, NEW n \in 1 .. MaxGroups,
                      NEW bins, bins = make_price_bins(now, n),
                      NEW start, start = find_time_bin(now) - (n + 1) * Interval,
                      NEW i \in 1 .. n
               PROVE  /\ bins[i].open = LatestPrice(Between(start, bins[i].timestamp))
                      /\ close_price(bins[i]) = LatestPrice(Between(start, bins[i].timestamp + Interval))
    BY DEF ChartIsContinuous, Between
  <2>1. now \in Int /\ n \in Nat
    BY Queries
  <2>2. ShowsFrom(bins[i], start, find_time_bin(now) - ((n + 1) - i) * Interval)
    BY <2>1, ChartShows
  <2> QED BY <2>2 DEF ShowsFrom, Shows
<1> QED BY <1>1, TradesInvariant, PTL

\* The least and the greatest of some numbers.
LEMMA Extremes ==
    ASSUME NEW S \in SUBSET Int, NEW x \in S
    PROVE  /\ (\A y \in S : x <= y) => Min(S) = x
           /\ (\A y \in S : y <= x) => Max(S) = x
<1>1. ASSUME \A y \in S : x <= y PROVE Min(S) = x
  <2>1. Min(S) \in S /\ \A y \in S : Min(S) <= y
    BY <1>1 DEF Min
  <2>2. Min(S) \in Int /\ x \in Int /\ x <= Min(S) /\ Min(S) <= x
    BY <1>1, <2>1
  <2> QED BY <2>2
<1>2. ASSUME \A y \in S : y <= x PROVE Max(S) = x
  <2>1. Max(S) \in S /\ \A y \in S : Max(S) >= y
    <3>1. \A y \in S : x >= y
      BY <1>2
    <3> QED BY <3>1 DEF Max
  <2>2. Max(S) \in Int /\ x \in Int /\ Max(S) <= x /\ Max(S) >= x
    BY <1>2, <2>1
  <2> QED BY <2>2
<1> QED BY <1>1, <1>2

\* The price range of a bin is that of its trades, if none of them is at a price that is cut off
\* to zero, and its closing price lies in it, for any trades, bins and interval.
THEOREM RangeIsOfTrades == Spec => []RangeOfTrades
<1>1. IInv => RangeOfTrades
  <2> SUFFICES ASSUME IInv, NEW now \in Times, NEW n \in 1 .. MaxGroups, NEW i \in 1 .. n,
                      NEW bin, bin = make_price_bins(now, n)[i],
                      NEW prices, prices = {Price(t) : t \in InBin(bin.timestamp)},
                      NEW close, close = close_price(bin),
                      prices # {}, 0 \notin prices
               PROVE  /\ min_price(bin) = <<Min(prices), 1>>
                      /\ max_price(bin) = <<Max(prices), 1>>
                      /\ Min(prices) * close[2] <= close[1] /\ close[1] <= Max(prices) * close[2]
    BY DEF RangeOfTrades, Price
  <2> DEFINE b == find_time_bin(now) - ((n + 1) - i) * Interval
             start == find_time_bin(now) - (n + 1) * Interval
  <2>1. now \in Int /\ n \in Nat
    BY Queries
  <2>2. ShowsFrom(bin, start, b)
    BY <2>1, ChartShows
  <2> HIDE DEF b, start
  <2>3. bin \in Bins /\ bin.timestamp = b /\ Shows(bin, InBin(b), LatestPrice(Between(start, b)))
    BY <2>2 DEF ShowsFrom
  <2>4. InBin(b) # {} /\ prices = {Price(t) : t \in InBin(b)}
    BY <2>3
  <2>5. /\ bin.min \in prices /\ bin.max \in prices
        /\ \A p \in prices : bin.min <= p /\ p <= bin.max
        /\ bin.min * close[2] <= close[1] /\ close[1] <= bin.max * close[2]
    BY <2>3, <2>4 DEF Shows
  <2>6. prices \in SUBSET Nat
    <3>1. \A t \in InBin(b) : Price(t) \in Nat
      BY PriceType DEF InBin, IInv, TypeOK
    <3> QED BY <2>4, <3>1
  <2>7. Min(prices) = bin.min /\ Max(prices) = bin.max
    <3>1. prices \in SUBSET Int
      BY <2>6
    <3> QED BY <2>5, <3>1, Extremes
  <2>8. bin.min \notin {None, 0} /\ bin.max \notin {None, 0}
    <3>1. bin.min \in Int /\ bin.max \in Int
      BY <2>5, <2>6
    <3> QED BY <2>5, <3>1, TimesAssumption
  <2> QED BY <2>5, <2>7, <2>8 DEF min_price, max_price
<1> QED BY <1>1, TradesInvariant, PTL
=============================================================================
