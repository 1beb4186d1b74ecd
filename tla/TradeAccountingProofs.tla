------------------------ MODULE TradeAccountingProofs ------------------------
(***************************************************************************)
(* The book of trades, for any customers, assets, amounts and histories:   *)
(* first the arithmetic of trades, then that nothing goes below zero, then *)
(* that positions and balances are the sums over the live trades.          *)
(*                                                                         *)
(* The concurrent handlers implement the book, for any number of handlers, *)
(* customers, pairs and keys.  The argument: a handler changes only rows   *)
(* that it has locked (Frame), so what another handler decided on under    *)
(* its own locks still holds (FrameKeepsViews), and each commit is a step  *)
(* of the book taken on the tables of that moment.  The last part orders   *)
(* the rows: handlers wait for each other in a circle only on pairs that   *)
(* go round.                                                               *)
(***************************************************************************)
EXTENDS TradeAccounting, FiniteSums

USE TradeConstants

-----------------------------------------------------------------------------
(* The arithmetic *)

LEMMA ProductOfNat ==
  ASSUME NEW m \in Nat, NEW n \in Nat PROVE m * n \in Nat
OBVIOUS

LEMMA ProductOfPositive ==
  ASSUME NEW m \in Nat \ {0}, NEW n \in Nat \ {0} PROVE m * n \in Nat \ {0}
OBVIOUS

LEMMA QuotientOfNat ==
  ASSUME NEW m \in Nat, NEW n \in Nat \ {0} PROVE m \div n \in Nat
OBVIOUS

\* A trade is between two different assets of one customer's accounts.
LEMMA TradeFields ==
  ASSUME NEW d \in Trade
  PROVE  /\ d.user \in Users /\ d.base \in Assets /\ d.quote \in Assets
         /\ d.base # d.quote
         /\ d.side \in {"buy", "sell"}
         /\ d.qty \in Nat \ {0} /\ d.price \in Nat \ {0} /\ d.fee \in Nat
         /\ d.key \in TradeKeys
         /\ Sign(d) \in {1, -1}
<1>1. d \in [user : Users, side : {"buy", "sell"}, base : Assets, quote : Assets,
             qty : Quantities, price : Prices, fee : Fees, key : TradeKeys]
      /\ <<d.base, d.quote>> \in Pairs
  BY DEF Trade
<1>2. d.base # d.quote
  <2>1. <<d.base, d.quote>>[1] # <<d.base, d.quote>>[2]
    BY <1>1
  <2> QED
    BY <2>1
<1>3. Sign(d) \in {1, -1}
  BY DEF Sign
<1> QED
  BY <1>1, <1>2, <1>3

\* What the customer pays or receives is positive.
LEMMA QuoteTotalPositive ==
  ASSUME NEW d \in Trade PROVE QuoteTotal(d) \in Nat \ {0}
<1> DEFINE value == d.qty * d.price
<1>1. value \in Nat \ {0} /\ d.fee \in Nat
  BY TradeFields, ProductOfPositive
<1>2. d.side \in {"buy", "sell"} /\ (d.side = "sell" => d.fee < value)
  BY TradeFields DEF Trade
<1>3. QuoteTotal(d) = IF d.side = "buy" THEN value + d.fee ELSE value - d.fee
  BY DEF QuoteTotal
<1> QED
  BY <1>1, <1>2, <1>3

\* A trade that the position allows leaves a position.
LEMMA AfterIsPosition ==
  ASSUME NEW d \in Trade, NEW before \in Position,
         d.side = "sell" => d.qty =< before.qty
  PROVE  After(before, d) \in Position
<1> DEFINE value == Scale * d.qty * d.price
           fee == Scale * d.fee
<1>1. d.qty \in Nat \ {0} /\ d.price \in Nat \ {0} /\ d.fee \in Nat
  BY TradeFields
<1>2. value \in Nat /\ fee \in Nat
  <2>1. Scale * d.qty \in Nat
    BY <1>1, ProductOfNat
  <2> QED
    BY <1>1, <2>1, ProductOfNat
<1>3. before.qty \in Nat /\ before.avg \in Nat /\ before.realized \in Int
  BY DEF Position
<1>4. before.qty * before.avg \in Nat /\ d.qty * before.avg \in Nat
  BY <1>1, <1>3, ProductOfNat
<1> HIDE DEF value, fee
<1>5. CASE d.side = "buy"
  <2>1. before.qty + d.qty \in Nat \ {0}
    BY <1>1, <1>3
  <2>2. before.qty * before.avg + value + fee \in Nat
    BY <1>2, <1>4
  <2>3. (before.qty * before.avg + value + fee) \div (before.qty + d.qty) \in Nat
    BY <2>1, <2>2, QuotientOfNat
  <2>4. After(before, d) =
          [qty |-> before.qty + d.qty,
           avg |-> (before.qty * before.avg + value + fee) \div (before.qty + d.qty),
           realized |-> before.realized]
    BY <1>5 DEF After, value, fee
  <2> QED
    BY <1>3, <2>1, <2>3, <2>4 DEF Position
<1>6. CASE d.side # "buy"
  <2>1. d.side = "sell"
    BY <1>6, TradeFields
  <2>2. before.qty - d.qty \in Nat
    BY <1>1, <1>3, <2>1
  <2>3. before.realized + (value - fee) - d.qty * before.avg \in Int
    BY <1>2, <1>3, <1>4
  <2>4. (IF before.qty - d.qty > 0 THEN before.avg ELSE NoCost) \in Nat
    BY <1>3 DEF NoCost
  <2>5. After(before, d) =
          [qty |-> before.qty - d.qty,
           avg |-> IF before.qty - d.qty > 0 THEN before.avg ELSE NoCost,
           realized |-> before.realized + (value - fee) - d.qty * before.avg]
    BY <1>6 DEF After, value, fee
  <2> QED
    BY <2>2, <2>3, <2>4, <2>5 DEF Position
<1> QED
  BY <1>5, <1>6

LEMMA TradeRowIsRow ==
  ASSUME NEW d \in Trade, NEW before \in Position,
         d.side = "sell" => d.qty =< before.qty
  PROVE  TradeRow(d, before) \in Row
BY AfterIsPosition DEF TradeRow, Row

\* A reversal is the row of its trade with the position's states exchanged.
LEMMA ReversalRowIsRow ==
  ASSUME NEW original \in Row, NEW target \in TradeKeys, NEW key \in TradeKeys
  PROVE  ReversalRow(original, target, key) \in Row
<1>1. original.data \in Trade
  BY DEF Row
<1>2. [original.data EXCEPT !.key = key] \in Trade
  BY <1>1 DEF Trade
<1> QED
  BY <1>2 DEF ReversalRow, Row

\* Settling a trade moves quote money and base asset between its customer and
\* clearing, and nobody else's.
LEMMA SettleMoves ==
  ASSUME NEW bal \in [Accounts -> Int], NEW d \in Trade, NEW sign \in {1, -1}
  PROVE  /\ Settle(bal, d, sign) \in [Accounts -> Int]
         /\ \A u \in Users, a \in Assets :
              Settle(bal, d, sign)[<<u, a>>] =
                bal[<<u, a>>] + IF u = d.user /\ a = d.base THEN sign * d.qty
                                ELSE IF u = d.user /\ a = d.quote
                                THEN -(sign * QuoteTotal(d)) ELSE 0
<1>1. d.user \in Users /\ d.user # Clearing /\ d.base # d.quote
  BY TradeFields
<1>2. sign * d.qty \in Int
  BY TradeFields
<1>3. sign * QuoteTotal(d) \in Int
  BY QuoteTotalPositive
<1> DEFINE base == sign * d.qty
           quote == sign * QuoteTotal(d)
           change(a) == CASE a = <<d.user, d.base>>    -> base
                          [] a = <<Clearing, d.base>>  -> -base
                          [] a = <<d.user, d.quote>>   -> -quote
                          [] a = <<Clearing, d.quote>> -> quote
                          [] OTHER -> 0
<1>4. base \in Int /\ quote \in Int
  BY <1>2, <1>3
<1>5. Settle(bal, d, sign) = [a \in Accounts |-> bal[a] + change(a)]
  BY DEF Settle
<1> HIDE DEF base, quote
<1>6. \A a \in Accounts : change(a) \in Int
  BY <1>4
<1>7. Settle(bal, d, sign) \in [Accounts -> Int]
  BY <1>5, <1>6
<1>8. ASSUME NEW u \in Users, NEW a \in Assets
      PROVE  Settle(bal, d, sign)[<<u, a>>] =
               bal[<<u, a>>] + IF u = d.user /\ a = d.base THEN base
                               ELSE IF u = d.user /\ a = d.quote THEN -quote ELSE 0
  <2>1. <<u, a>> \in Accounts /\ u # Clearing
    BY DEF Accounts
  <2>2. change(<<u, a>>) = IF u = d.user /\ a = d.base THEN base
                           ELSE IF u = d.user /\ a = d.quote THEN -quote ELSE 0
    BY <1>1, <2>1
  <2> QED
    BY <1>5, <2>1, <2>2
<1> QED
  BY <1>7, <1>8 DEF base, quote

\* A deposit and a reservation change one account of the customer.
LEMMA PostingMoves ==
  ASSUME NEW bal \in [Accounts -> Int], NEW user \in Users, NEW asset \in Assets,
         NEW amount \in LedgerAmounts
  PROVE  /\ Credit(bal, user, asset, amount) \in [Accounts -> Int]
         /\ Debit(bal, user, asset, amount) \in [Accounts -> Int]
         /\ \A u \in Users, a \in Assets :
              /\ Credit(bal, user, asset, amount)[<<u, a>>] =
                   bal[<<u, a>>] + IF <<u, a>> = <<user, asset>> THEN amount ELSE 0
              /\ Debit(bal, user, asset, amount)[<<u, a>>] =
                   bal[<<u, a>>] - IF <<u, a>> = <<user, asset>> THEN amount ELSE 0
<1>1. amount \in Nat /\ <<user, asset>> \in Accounts /\ <<Clearing, asset>> \in Accounts
  BY DEF Accounts
<1>2. user # Clearing
  OBVIOUS
<1>3. /\ Credit(bal, user, asset, amount) \in [Accounts -> Int]
      /\ Debit(bal, user, asset, amount) \in [Accounts -> Int]
  BY <1>1, <1>2 DEF Credit, Debit
<1>4. ASSUME NEW u \in Users, NEW a \in Assets
      PROVE  /\ Credit(bal, user, asset, amount)[<<u, a>>] =
                  bal[<<u, a>>] + IF <<u, a>> = <<user, asset>> THEN amount ELSE 0
             /\ Debit(bal, user, asset, amount)[<<u, a>>] =
                  bal[<<u, a>>] - IF <<u, a>> = <<user, asset>> THEN amount ELSE 0
  <2>1. <<u, a>> \in Accounts /\ <<u, a>> # <<Clearing, asset>>
    BY DEF Accounts
  <2>2. bal[<<u, a>>] \in Int
    BY <2>1
  <2> QED
    BY <1>1, <1>2, <2>1, <2>2 DEF Credit, Debit
<1> QED
  BY <1>3, <1>4

-----------------------------------------------------------------------------
(* The book *)

BookInv == BookTypeOK /\ NeverNegative

LEMMA CustomerAccounts ==
  ASSUME NEW u \in Users, NEW a \in Assets
  PROVE  <<u, a>> \in Accounts /\ <<u, a>> \in Users \X Assets
BY DEF Accounts

\* A position is a record of a natural quantity.
LEMMA NoShortPositions ==
  ASSUME NEW pos \in [Users \X Assets -> Position], NEW u \in Users, NEW a \in Assets
  PROVE  pos[<<u, a>>].qty >= 0
<1>1. pos[<<u, a>>] \in Position
  BY CustomerAccounts
<1> QED
  BY <1>1 DEF Position

LEMMA BookInit == TablesInit => BookInv
<1> SUFFICES ASSUME TablesInit PROVE BookInv
  OBVIOUS
<1>1. EmptyPosition \in Position
  BY DEF EmptyPosition, Position, NoCost
<1>2. flows \in [Users \X Assets -> Int]
  BY DEF TablesInit, Accounts
<1>3. BookTypeOK
  BY <1>1, <1>2 DEF TablesInit, BookTypeOK
<1>4. NeverNegative
  <2> SUFFICES ASSUME NEW u \in Users, NEW a \in Assets
               PROVE  balance[<<u, a>>] >= 0 /\ position[<<u, a>>].qty >= 0
    BY DEF NeverNegative
  <2>1. balance[<<u, a>>] >= 0
    BY CustomerAccounts DEF TablesInit
  <2> QED
    BY <1>3, <2>1, NoShortPositions DEF BookTypeOK
<1> QED
  BY <1>3, <1>4 DEF BookInv

\* Customer balances change by what CanRecord compared them with.
LEMMA RecordStep ==
  ASSUME BookInv, NEW d \in Trade, Record(d) PROVE BookInv'
<1> DEFINE before == position[<<d.user, d.base>>]
<1>1. d.user \in Users /\ d.base \in Assets /\ d.quote \in Assets /\ d.key \in TradeKeys
      /\ d.side \in {"buy", "sell"} /\ d.base # d.quote /\ d.qty \in Nat \ {0}
      /\ Sign(d) \in {1, -1} /\ QuoteTotal(d) \in Nat \ {0}
  BY TradeFields, QuoteTotalPositive
<1>2. before \in Position
  BY <1>1, CustomerAccounts DEF BookInv, BookTypeOK
<1>3. CanRecord(balance, position, d)
  BY DEF Record
<1>4. d.side = "sell" => d.qty =< before.qty
  BY <1>1, <1>2, <1>3 DEF CanRecord, Position
<1>5. After(before, d) \in Position /\ TradeRow(d, before) \in Row
  BY <1>2, <1>4, AfterIsPosition, TradeRowIsRow
<1>6. balance' \in [Accounts -> Int]
  BY <1>1, SettleMoves DEF Record, BookInv, BookTypeOK
<1>7. BookTypeOK'
  BY <1>5, <1>6 DEF Record, BookInv, BookTypeOK
<1>8. ASSUME NEW u \in Users, NEW a \in Assets PROVE balance'[<<u, a>>] >= 0
  <2>1. balance[<<u, a>>] \in Int /\ balance[<<u, a>>] >= 0
    BY CustomerAccounts DEF BookInv, BookTypeOK, NeverNegative
  <2>2. balance'[<<u, a>>] =
          balance[<<u, a>>] + IF u = d.user /\ a = d.base THEN Sign(d) * d.qty
                              ELSE IF u = d.user /\ a = d.quote
                              THEN -(Sign(d) * QuoteTotal(d)) ELSE 0
    BY <1>1, SettleMoves DEF Record, BookInv, BookTypeOK
  <2>3. CASE d.side = "buy"
    <3>1. Sign(d) = 1 /\ balance[<<d.user, d.quote>>] >= QuoteTotal(d)
      BY <1>3, <2>3 DEF Sign, CanRecord
    <3> QED
      BY <1>1, <2>1, <2>2, <3>1
  <2>4. CASE d.side = "sell"
    <3>1. Sign(d) = -1 /\ balance[<<d.user, d.base>>] >= d.qty
      BY <1>3, <2>4 DEF Sign, CanRecord
    <3> QED
      BY <1>1, <2>1, <2>2, <3>1
  <2> QED
    BY <1>1, <2>3, <2>4
<1>9. NeverNegative'
  <2>1. \A u \in Users, a \in Assets : position'[<<u, a>>].qty >= 0
    BY <1>7, NoShortPositions DEF BookTypeOK
  <2> QED
    BY <1>8, <2>1 DEF NeverNegative
<1> QED
  BY <1>7, <1>9 DEF BookInv

\* A reversal credits one of the trade's accounts and debits the affected one,
\* which it has compared.
LEMMA ReverseStep ==
  ASSUME BookInv, NEW key \in TradeKeys, NEW target \in TradeKeys, Reverse(key, target)
  PROVE  BookInv'
<1> DEFINE original == trades[target]
           d == original.data
<1>1. original \in Row /\ d \in Trade /\ original.before \in Position
  BY DEF Reverse, BookInv, BookTypeOK, Row
<1>2. d.user \in Users /\ d.base \in Assets /\ d.quote \in Assets
      /\ d.side \in {"buy", "sell"} /\ d.base # d.quote /\ d.qty \in Nat \ {0}
      /\ QuoteTotal(d) \in Nat \ {0} /\ Sign(d) \in {1, -1} /\ -Sign(d) \in {1, -1}
  BY <1>1, TradeFields, QuoteTotalPositive
<1>3. ReversalRow(original, target, key) \in Row
      /\ [original EXCEPT !.status = "reversed"] \in Row
  BY <1>1, ReversalRowIsRow DEF Row
<1>4. CanReverse(balance, position, trades, target)
  BY DEF Reverse
<1>5. balance' = Settle(balance, d, -Sign(d))
  BY DEF Reverse
<1>6. balance' \in [Accounts -> Int]
  BY <1>1, <1>2, <1>5, SettleMoves DEF BookInv, BookTypeOK
<1>7. BookTypeOK'
  <2>1. trades' = [trades EXCEPT ![target] = [original EXCEPT !.status = "reversed"],
                                 ![key] = ReversalRow(original, target, key)]
    BY DEF Reverse
  <2>2. trades' \in [TradeKeys -> Row \cup {NoTrade}]
    BY <1>3, <2>1 DEF BookInv, BookTypeOK
  <2>3. position' \in [Users \X Assets -> Position]
    BY <1>1 DEF Reverse, BookInv, BookTypeOK
  <2> QED
    BY <1>6, <2>2, <2>3 DEF Reverse, BookInv, BookTypeOK
<1>8. ASSUME NEW u \in Users, NEW a \in Assets PROVE balance'[<<u, a>>] >= 0
  <2>1. balance[<<u, a>>] \in Int /\ balance[<<u, a>>] >= 0
    BY CustomerAccounts DEF BookInv, BookTypeOK, NeverNegative
  <2>2. balance'[<<u, a>>] =
          balance[<<u, a>>] + IF u = d.user /\ a = d.base THEN (-Sign(d)) * d.qty
                              ELSE IF u = d.user /\ a = d.quote
                              THEN -((-Sign(d)) * QuoteTotal(d)) ELSE 0
    BY <1>1, <1>2, <1>5, SettleMoves DEF BookInv, BookTypeOK
  <2>3. balance[<<d.user, Affected(d)>>] >= AffectedAmount(d)
    BY <1>4 DEF CanReverse
  <2>4. CASE d.side = "buy"
    <3>1. Sign(d) = 1 /\ balance[<<d.user, d.base>>] >= d.qty
      BY <2>3, <2>4 DEF Sign, Affected, AffectedAmount
    <3> QED
      BY <1>2, <2>1, <2>2, <3>1
  <2>5. CASE d.side = "sell"
    <3>1. Sign(d) = -1 /\ balance[<<d.user, d.quote>>] >= QuoteTotal(d)
      BY <2>3, <2>5 DEF Sign, Affected, AffectedAmount
    <3> QED
      BY <1>2, <2>1, <2>2, <3>1
  <2> QED
    BY <1>2, <2>4, <2>5
<1>9. NeverNegative'
  <2>1. \A u \in Users, a \in Assets : position'[<<u, a>>].qty >= 0
    BY <1>7, NoShortPositions DEF BookTypeOK
  <2> QED
    BY <1>8, <2>1 DEF NeverNegative
<1> QED
  BY <1>7, <1>9 DEF BookInv

LEMMA PostingStep ==
  ASSUME BookInv, NEW k \in LedgerKeys, NEW user \in Users, NEW asset \in Assets,
         NEW n \in LedgerAmounts,
         Deposit(k, user, asset, n) \/ Reserve(k, user, asset, n)
  PROVE  BookInv'
<1>1. n \in Nat /\ <<user, asset>> \in Users \X Assets
  OBVIOUS
<1>2. UNCHANGED <<position, trades>> /\ posted' = posted \cup {k}
  BY DEF Deposit, Reserve
<1>3. \/ balance' = Credit(balance, user, asset, n)
      \/ balance' = Debit(balance, user, asset, n) /\ n =< balance[<<user, asset>>]
  BY DEF Deposit, Reserve
<1>4. balance' \in [Accounts -> Int]
  BY <1>3, PostingMoves DEF BookInv, BookTypeOK
<1>5. flows' \in [Users \X Assets -> Int]
  BY <1>1 DEF Deposit, Reserve, BookInv, BookTypeOK
<1>6. BookTypeOK'
  BY <1>2, <1>4, <1>5 DEF BookInv, BookTypeOK
<1>7. ASSUME NEW u \in Users, NEW a \in Assets PROVE balance'[<<u, a>>] >= 0
  <2>1. balance[<<u, a>>] \in Int /\ balance[<<u, a>>] >= 0
    BY CustomerAccounts DEF BookInv, BookTypeOK, NeverNegative
  <2>2. balance \in [Accounts -> Int]
    BY DEF BookInv, BookTypeOK
  <2>3. CASE balance' = Credit(balance, user, asset, n)
    <3>1. balance'[<<u, a>>] =
            balance[<<u, a>>] + IF <<u, a>> = <<user, asset>> THEN n ELSE 0
      BY <2>2, <2>3, PostingMoves
    <3> QED
      BY <1>1, <2>1, <3>1
  <2>4. CASE balance' = Debit(balance, user, asset, n) /\ n =< balance[<<user, asset>>]
    <3>1. balance'[<<u, a>>] =
            balance[<<u, a>>] - IF <<u, a>> = <<user, asset>> THEN n ELSE 0
      BY <2>2, <2>4, PostingMoves
    <3> QED
      BY <1>1, <2>1, <2>4, <3>1
  <2> QED
    BY <1>3, <2>3, <2>4
<1> QED
  BY <1>2, <1>6, <1>7 DEF BookInv, NeverNegative

\* BookInv is inductive.
LEMMA BookStep == BookInv /\ [BookNext]_tables => BookInv'
<1> SUFFICES ASSUME BookInv, [BookNext]_tables PROVE BookInv'
  OBVIOUS
<1>1. CASE \E d \in Trade : Record(d)
  BY <1>1, RecordStep
<1>2. CASE \E key, target \in TradeKeys : Reverse(key, target)
  BY <1>2, ReverseStep
<1>3. CASE \E k \in LedgerKeys, ua \in Users \X Assets, n \in LedgerAmounts :
             Deposit(k, ua[1], ua[2], n) \/ Reserve(k, ua[1], ua[2], n)
  BY <1>3, PostingStep
<1>4. CASE UNCHANGED tables
  BY <1>4 DEF tables, BookInv, BookTypeOK, NeverNegative
<1> QED
  BY <1>1, <1>2, <1>3, <1>4 DEF BookNext

\* Nothing goes below zero, and the tables are well formed: the two together are
\* inductive.
THEOREM BookSafety == BookSpec => []BookInv
BY BookInit, BookStep, PTL DEF BookSpec

\* Whatever the book accepts, its tables keep their types: in particular no
\* average cost of a position is negative.
THEOREM BookTypeCorrect == BookSpec => []BookTypeOK
BY BookSafety, PTL DEF BookInv

\* No history of trades, reversals, deposits and reservations takes a customer
\* account or a position below zero.
THEOREM BookNeverNegative == BookSpec => []NeverNegative
BY BookSafety, PTL DEF BookInv

-----------------------------------------------------------------------------
(* The sums *)

USE NoTradeAssumption

\* The keys with a row: finitely many, whatever TradeKeys is.
Used == {k \in TradeKeys : trades[k] # NoTrade}

\* What the rows have to do with each other: a trade's row holds the position it
\* found and the one it left, a reversal row names a row, and a row is named by one
\* reversal when it is marked and by none otherwise.
RowsFit ==
  /\ IsFiniteSet(Used)
  /\ \A k \in Used :
       /\ trades[k].reversalOf = NoTrade =>
            trades[k].after.qty = trades[k].before.qty + Bought[k]
       /\ trades[k].reversalOf # NoTrade => trades[k].reversalOf \in Used
  /\ \A k \in TradeKeys :
       \/ k \in Used /\ trades[k].status = "reversed" /\ \E r \in TradeKeys : ReversalsOf(k) = {r}
       \/ k \in Used /\ trades[k].status # "reversed" /\ ReversalsOf(k) = {}
       \/ k \notin Used /\ ReversalsOf(k) = {}

\* The inductive invariant of the sums.
HistoryInv == BookInv /\ RowsFit /\ PositionMatchesTrades /\ BalanceMatchesTrades

-----------------------------------------------------------------------------
(* Numbers *)

\* What a trade bought, and what it makes of an account, are integers.
LEMMA LegIsInt ==
  ASSUME NEW d \in Trade, NEW a
  PROVE  Sign(d) * d.qty \in Int /\ LegOf(d, a) \in Int
<1>1. d.qty \in Int /\ QuoteTotal(d) \in Int /\ Sign(d) \in {1, -1}
  BY TradeFields, QuoteTotalPositive
<1> QED
  BY <1>1 DEF LegOf

\* A trade moves the position by its quantity.
LEMMA AfterMoves ==
  ASSUME NEW d \in Trade, NEW before \in Position
  PROVE  After(before, d).qty = before.qty + Sign(d) * d.qty
<1>1. d.qty \in Int /\ before.qty \in Int
  BY TradeFields DEF Position
<1>2. CASE d.side = "buy"
  BY <1>1, <1>2 DEF After, Sign
<1>3. CASE d.side # "buy"
  BY <1>1, <1>3 DEF After, Sign
<1> QED
  BY <1>2, <1>3

\* Settling adds the trade's legs to its customer's accounts, settling with the
\* opposite sign takes them off.
LEMMA SettleLegs ==
  ASSUME NEW bal \in [Accounts -> Int], NEW d \in Trade, NEW u \in Users, NEW a \in Assets
  PROVE  /\ Settle(bal, d, Sign(d))[<<u, a>>] =
              IF u = d.user THEN bal[<<u, a>>] + LegOf(d, a) ELSE bal[<<u, a>>]
         /\ Settle(bal, d, -Sign(d))[<<u, a>>] =
              IF u = d.user THEN bal[<<u, a>>] - LegOf(d, a) ELSE bal[<<u, a>>]
<1>1. /\ d.qty \in Int /\ QuoteTotal(d) \in Int
      /\ Sign(d) \in {1, -1} /\ -Sign(d) \in {1, -1} /\ d.base # d.quote
      /\ bal[<<u, a>>] \in Int
  BY TradeFields, QuoteTotalPositive, CustomerAccounts
<1>2. Settle(bal, d, Sign(d))[<<u, a>>] =
        bal[<<u, a>>] + IF u = d.user /\ a = d.base THEN Sign(d) * d.qty
                        ELSE IF u = d.user /\ a = d.quote
                        THEN -(Sign(d) * QuoteTotal(d)) ELSE 0
  BY <1>1, SettleMoves
<1>3. Settle(bal, d, -Sign(d))[<<u, a>>] =
        bal[<<u, a>>] + IF u = d.user /\ a = d.base THEN (-Sign(d)) * d.qty
                        ELSE IF u = d.user /\ a = d.quote
                        THEN -((-Sign(d)) * QuoteTotal(d)) ELSE 0
  BY <1>1, SettleMoves
<1>4. CASE Sign(d) = 1
  BY <1>1, <1>2, <1>3, <1>4 DEF LegOf
<1>5. CASE Sign(d) = -1
  BY <1>1, <1>2, <1>3, <1>5 DEF LegOf
<1> QED
  BY <1>1, <1>4, <1>5

\* The sums are of integers, over finite sets.
LEMMA RowNumbers ==
  ASSUME BookInv, RowsFit
  PROVE  /\ \A k \in Used :
              /\ trades[k] \in Row /\ trades[k].data \in Trade
              /\ Bought[k] \in Int /\ Gained[k] \in Int
              /\ \A a : LegsIn(a)[k] \in Int
         /\ Live \subseteq Used /\ IsFiniteSet(Used)
         /\ \A u, b : IsFiniteSet(LiveOf(u, b)) /\ LiveOf(u, b) \subseteq Used
         /\ \A u : IsFiniteSet(LiveBy(u)) /\ LiveBy(u) \subseteq Used
<1>1. ASSUME NEW k \in Used
      PROVE  /\ trades[k] \in Row /\ trades[k].data \in Trade
             /\ Bought[k] \in Int /\ Gained[k] \in Int
             /\ \A a : LegsIn(a)[k] \in Int
  <2>1. k \in TradeKeys /\ trades[k] \in Row
    BY DEF Used, BookInv, BookTypeOK
  <2>2. trades[k].data \in Trade /\ trades[k].after \in Position /\ trades[k].before \in Position
    BY <2>1 DEF Row
  <2>3. Bought[k] \in Int
    BY <2>1, <2>2, LegIsInt DEF Bought
  <2>4. Gained[k] \in Int
    BY <2>1, <2>2 DEF Gained, Position
  <2>5. \A a : LegsIn(a)[k] \in Int
    BY <2>1, <2>2, LegIsInt DEF LegsIn
  <2> QED
    BY <2>1, <2>2, <2>3, <2>4, <2>5
<1>2. IsFiniteSet(Used) /\ Live \subseteq Used
  BY DEF RowsFit, Live, Used
<1>3. \A u, b : IsFiniteSet(LiveOf(u, b)) /\ LiveOf(u, b) \subseteq Used
  BY <1>2, FS_Subset DEF LiveOf
<1>4. \A u : IsFiniteSet(LiveBy(u)) /\ LiveBy(u) \subseteq Used
  BY <1>2, FS_Subset DEF LiveBy
<1> QED
  BY <1>1, <1>2, <1>3, <1>4

-----------------------------------------------------------------------------
(* The first state *)

\* No rows at first: positions are empty and balances are the funds.
LEMMA HistoryInit == TablesInit => HistoryInv
<1> SUFFICES ASSUME TablesInit PROVE HistoryInv
  OBVIOUS
<1>1. Used = {} /\ Live = {}
  BY DEF TablesInit, Used, Live
<1>2. \A k : ReversalsOf(k) = {}
  BY DEF TablesInit, ReversalsOf
<1>3. RowsFit
  BY <1>1, <1>2, FS_EmptySet DEF RowsFit
<1>4. \A u, b : LiveOf(u, b) = {} /\ LiveBy(u) = {}
  BY <1>1 DEF LiveOf, LiveBy
<1>5. PositionMatchesTrades
  BY <1>4, SumOfNone DEF PositionMatchesTrades, TablesInit, EmptyPosition
<1>6. BalanceMatchesTrades
  <2> SUFFICES ASSUME NEW u \in Users, NEW a \in Assets
               PROVE  balance[<<u, a>>] = flows[<<u, a>>] + SumFunctionOnSet(LegsIn(a), LiveBy(u))
    BY DEF BalanceMatchesTrades
  <2>1. InitialFunds[<<u, a>>] \in Int
    BY CustomerAccounts
  <2>2. SumFunctionOnSet(LegsIn(a), LiveBy(u)) = 0
    BY <1>4, SumOfNone
  <2> QED
    BY <2>1, <2>2, CustomerAccounts DEF TablesInit
<1> QED
  BY <1>3, <1>5, <1>6, BookInit DEF HistoryInv

-----------------------------------------------------------------------------
(* The rows of a step *)

\* A recorded trade is one more live row.
LEMMA RecordRows ==
  ASSUME HistoryInv, NEW d \in Trade, Record(d)
  PROVE  /\ d.key \in TradeKeys /\ d.key \notin Used
         /\ trades'[d.key] = TradeRow(d, position[<<d.user, d.base>>])
         /\ \A k \in TradeKeys \ {d.key} : trades'[k] = trades[k]
         /\ position[<<d.user, d.base>>] \in Position
         /\ After(position[<<d.user, d.base>>], d) \in Position
         /\ Used' = Used \cup {d.key}
         /\ Live' = Live \cup {d.key}
<1> DEFINE before == position[<<d.user, d.base>>]
           now == TradeRow(d, before)
<1>1. d.key \in TradeKeys /\ d.key \notin Used
  BY TradeFields DEF Record, Used
<1>2. before \in Position
  BY TradeFields, CustomerAccounts DEF HistoryInv, BookInv, BookTypeOK
<1>3. d.side = "sell" => d.qty =< before.qty
  BY <1>2, TradeFields DEF Record, CanRecord, Position
<1>4. now \in Row /\ now # NoTrade /\ After(before, d) \in Position
  BY <1>2, <1>3, TradeRowIsRow, AfterIsPosition
<1>5. now.status = "recorded" /\ now.reversalOf = NoTrade
  BY DEF TradeRow
<1>6. trades'[d.key] = now /\ \A k \in TradeKeys \ {d.key} : trades'[k] = trades[k]
  BY <1>1 DEF Record, HistoryInv, BookInv, BookTypeOK
<1> HIDE DEF now
<1>7. Used' = Used \cup {d.key}
  BY <1>1, <1>4, <1>6 DEF Used
<1>8. Live' = Live \cup {d.key}
  BY <1>1, <1>4, <1>5, <1>6 DEF Live, Used
<1> QED
  BY <1>1, <1>2, <1>4, <1>6, <1>7, <1>8 DEF now

\* A reversal is one more row and one live row less.
LEMMA ReverseRows ==
  ASSUME HistoryInv, NEW key \in TradeKeys, NEW target \in TradeKeys, Reverse(key, target)
  PROVE  /\ target \in Live /\ target \in Used /\ key \notin Used
         /\ trades'[target] \in Row /\ trades'[key] \in Row
         /\ trades'[target].status = "reversed" /\ trades'[target].reversalOf = NoTrade
         /\ trades'[target].data = trades[target].data
         /\ trades'[target].before = trades[target].before
         /\ trades'[target].after = trades[target].after
         /\ trades'[key].status = "recorded" /\ trades'[key].reversalOf = target
         /\ \A k \in TradeKeys \ {key, target} : trades'[k] = trades[k]
         /\ Used' = Used \cup {key}
         /\ Live' = Live \ {target}
<1>1. PICK original \in Row : original = trades[target]
  BY DEF Reverse, HistoryInv, BookInv, BookTypeOK
<1> DEFINE marked == [original EXCEPT !.status = "reversed"]
           reversal == ReversalRow(original, target, key)
<1>2. original.status = "recorded" /\ original.reversalOf = NoTrade
  BY <1>1 DEF Reverse, CanReverse
<1>3. target \in Live /\ target \in Used /\ key \notin Used /\ key # target
  BY <1>1, <1>2 DEF Reverse, Live, Used
<1>4. /\ marked \in Row /\ marked.status = "reversed" /\ marked.reversalOf = NoTrade
      /\ marked.data = original.data
      /\ marked.before = original.before /\ marked.after = original.after
  BY <1>2 DEF Row
<1>5. reversal \in Row /\ reversal.status = "recorded" /\ reversal.reversalOf = target
  <2>1. reversal \in Row
    BY ReversalRowIsRow
  <2> QED
    BY <2>1 DEF ReversalRow, Row
<1>6. trades' = [trades EXCEPT ![target] = marked, ![key] = reversal]
  BY <1>1 DEF Reverse
<1> HIDE DEF marked, reversal
<1>7. /\ trades'[target] = marked /\ trades'[key] = reversal
      /\ \A k \in TradeKeys \ {key, target} : trades'[k] = trades[k]
  BY <1>3, <1>6 DEF HistoryInv, BookInv, BookTypeOK
<1>8. marked # NoTrade /\ reversal # NoTrade
  BY <1>4, <1>5
<1>9. Used' = Used \cup {key}
  BY <1>3, <1>7, <1>8 DEF Used
<1>10. Live' = Live \ {target}
  BY <1>3, <1>4, <1>5, <1>7, <1>8 DEF Live, Used
<1> QED
  BY <1>1, <1>3, <1>4, <1>5, <1>7, <1>9, <1>10

-----------------------------------------------------------------------------
(* How the rows fit together *)

\* The new row fits: nothing reverses it yet.
LEMMA RowsAtRecord ==
  ASSUME HistoryInv, NEW d \in Trade, Record(d) PROVE RowsFit'
<1>1. PICK before \in Position : before = position[<<d.user, d.base>>]
  BY RecordRows
<1>2. PICK now : now = TradeRow(d, before) /\ now = trades'[d.key]
  BY <1>1, RecordRows
<1>3. /\ d.key \in TradeKeys /\ d.key \notin Used
      /\ Used' = Used \cup {d.key}
      /\ \A k \in TradeKeys \ {d.key} : trades'[k] = trades[k]
  BY RecordRows
<1>4. IsFiniteSet(Used')
  BY <1>3, FS_AddElement DEF HistoryInv, RowsFit
<1>5. /\ now.reversalOf = NoTrade /\ now.status = "recorded" /\ now.data = d
      /\ now.before = before /\ now.after = After(before, d)
  BY <1>2 DEF TradeRow
<1>6. \A k \in TradeKeys : ReversalsOf(k)' = ReversalsOf(k)
  BY <1>2, <1>3, <1>5 DEF ReversalsOf, Used
<1>7. ASSUME NEW k \in Used'
      PROVE  /\ trades'[k].reversalOf = NoTrade =>
                  trades'[k].after.qty = trades'[k].before.qty + Bought'[k]
             /\ trades'[k].reversalOf # NoTrade => trades'[k].reversalOf \in Used'
  <2>1. CASE k = d.key
    <3>1. Bought'[k] = Sign(d) * d.qty
      BY <1>2, <1>3, <1>5, <2>1 DEF Bought
    <3> QED
      BY <1>2, <1>5, <2>1, <3>1, AfterMoves
  <2>2. CASE k # d.key
    <3>1. k \in Used /\ trades'[k] = trades[k] /\ Bought'[k] = Bought[k]
      BY <1>3, <2>2 DEF Used, Bought
    <3> QED
      BY <1>3, <3>1 DEF HistoryInv, RowsFit
  <2> QED
    BY <2>1, <2>2
<1>8. ASSUME NEW k \in TradeKeys
      PROVE  \/ k \in Used' /\ trades'[k].status = "reversed"
                /\ \E r \in TradeKeys : ReversalsOf(k)' = {r}
             \/ k \in Used' /\ trades'[k].status # "reversed" /\ ReversalsOf(k)' = {}
             \/ k \notin Used' /\ ReversalsOf(k)' = {}
  <2>1. CASE k = d.key
    BY <1>2, <1>3, <1>5, <1>6, <2>1 DEF HistoryInv, RowsFit
  <2>2. CASE k # d.key
    BY <1>3, <1>6, <2>2 DEF HistoryInv, RowsFit
  <2> QED
    BY <2>1, <2>2
<1> QED
  BY <1>4, <1>7, <1>8 DEF RowsFit

\* The target was unmarked, so nothing reversed it before.
LEMMA RowsAtReverse ==
  ASSUME HistoryInv, NEW key \in TradeKeys, NEW target \in TradeKeys, Reverse(key, target)
  PROVE  RowsFit'
<1>1. PICK marked \in Row, reversal \in Row : marked = trades'[target] /\ reversal = trades'[key]
  BY ReverseRows
<1>2. /\ target \in Used /\ key \notin Used /\ Used' = Used \cup {key}
      /\ marked.status = "reversed" /\ marked.reversalOf = NoTrade
      /\ marked.data = trades[target].data
      /\ marked.before = trades[target].before /\ marked.after = trades[target].after
      /\ reversal.status = "recorded" /\ reversal.reversalOf = target
      /\ \A k \in TradeKeys \ {key, target} : trades'[k] = trades[k]
  BY <1>1, ReverseRows
<1>3. trades[target].status = "recorded" /\ trades[target].reversalOf = NoTrade
  BY ReverseRows DEF Live
<1>4. IsFiniteSet(Used')
  BY <1>2, FS_AddElement DEF HistoryInv, RowsFit
<1>5. ReversalsOf(target)' = {key}
  <2>1. ReversalsOf(target) = {}
    BY <1>2, <1>3 DEF HistoryInv, RowsFit
  <2>2. reversal # NoTrade
    OBVIOUS
  <2> QED
    BY <1>1, <1>2, <2>1, <2>2 DEF ReversalsOf
<1>6. \A k \in TradeKeys \ {target} : ReversalsOf(k)' = ReversalsOf(k)
  <2>1. trades[key] = NoTrade
    BY <1>2 DEF Used
  <2> QED
    BY <1>1, <1>2, <1>3, <2>1 DEF ReversalsOf
<1>7. ASSUME NEW k \in Used'
      PROVE  /\ trades'[k].reversalOf = NoTrade =>
                  trades'[k].after.qty = trades'[k].before.qty + Bought'[k]
             /\ trades'[k].reversalOf # NoTrade => trades'[k].reversalOf \in Used'
  <2>1. CASE k = key
    BY <1>1, <1>2, <2>1
  <2>2. CASE k # key
    <3>1. k \in Used /\ k \in TradeKeys
      BY <1>2, <2>2 DEF Used
    <3>2. /\ trades'[k].reversalOf = trades[k].reversalOf
          /\ trades'[k].after = trades[k].after /\ trades'[k].before = trades[k].before
          /\ trades'[k].data = trades[k].data
      BY <1>1, <1>2, <1>3, <2>2, <3>1
    <3>3. Bought'[k] = Bought[k]
      BY <3>1, <3>2 DEF Bought
    <3> QED
      BY <1>2, <3>1, <3>2, <3>3 DEF HistoryInv, RowsFit
  <2> QED
    BY <2>1, <2>2
<1>8. ASSUME NEW k \in TradeKeys
      PROVE  \/ k \in Used' /\ trades'[k].status = "reversed"
                /\ \E r \in TradeKeys : ReversalsOf(k)' = {r}
             \/ k \in Used' /\ trades'[k].status # "reversed" /\ ReversalsOf(k)' = {}
             \/ k \notin Used' /\ ReversalsOf(k)' = {}
  <2>1. CASE k = key
    BY <1>1, <1>2, <1>6, <2>1 DEF HistoryInv, RowsFit
  <2>2. CASE k = target
    BY <1>1, <1>2, <1>5, <2>2
  <2>3. CASE k # key /\ k # target
    BY <1>2, <1>6, <2>3 DEF HistoryInv, RowsFit
  <2> QED
    BY <2>1, <2>2, <2>3
<1> QED
  BY <1>4, <1>7, <1>8 DEF RowsFit

-----------------------------------------------------------------------------
(* Positions *)

\* The position moves by what the new row adds to the sums.
LEMMA PositionsAtRecord ==
  ASSUME HistoryInv, NEW d \in Trade, Record(d) PROVE PositionMatchesTrades'
<1>1. PICK before \in Position : before = position[<<d.user, d.base>>]
  BY RecordRows
<1> DEFINE after == After(before, d)
           x == d.key
<1>2. /\ x \in TradeKeys /\ x \notin Used /\ Live' = Live \cup {x}
      /\ \A k \in TradeKeys \ {x} : trades'[k] = trades[k]
      /\ after \in Position
  BY <1>1, RecordRows
<1>3. trades'[x].data = d /\ trades'[x].after = after /\ trades'[x].before = before
  <2>1. trades'[x] = TradeRow(d, before)
    BY <1>1, RecordRows
  <2> QED
    BY <2>1 DEF TradeRow
<1>4. /\ Bought'[x] = after.qty - before.qty /\ Bought'[x] \in Int
      /\ Gained'[x] = after.realized - before.realized /\ Gained'[x] \in Int
  <2>1. Bought'[x] = Sign(d) * d.qty /\ Gained'[x] = after.realized - before.realized
    BY <1>2, <1>3 DEF Bought, Gained
  <2>2. Sign(d) * d.qty \in Int /\ after.qty = before.qty + Sign(d) * d.qty
    BY LegIsInt, AfterMoves
  <2>3. after.qty \in Int /\ before.qty \in Int /\ after.realized \in Int /\ before.realized \in Int
    BY <1>2 DEF Position
  <2> HIDE DEF after, x
  <2> QED
    BY <2>1, <2>2, <2>3
<1>5. \A k \in Used : Bought'[k] = Bought[k] /\ Gained'[k] = Gained[k]
  BY <1>2 DEF Used, Bought, Gained
<1>6. /\ d.user \in Users /\ d.base \in Assets
      /\ position' = [position EXCEPT ![<<d.user, d.base>>] = after]
  BY <1>1, TradeFields DEF Record
<1>7. \A k \in Used : Bought[k] \in Int /\ Gained[k] \in Int
  BY RowNumbers DEF HistoryInv
<1> SUFFICES ASSUME NEW u \in Users, NEW b \in Assets
             PROVE  /\ position'[<<u, b>>].qty = SumFunctionOnSet(Bought, LiveOf(u, b))'
                    /\ position'[<<u, b>>].realized = SumFunctionOnSet(Gained, LiveOf(u, b))'
  BY DEF PositionMatchesTrades
<1> DEFINE f == Bought
           f1 == Bought'
           g == Gained
           g1 == Gained'
           S == LiveOf(u, b)
           S1 == LiveOf(u, b)'
<1>8. IsFiniteSet(S) /\ S \subseteq Used
  BY RowNumbers DEF HistoryInv
<1>9. /\ position[<<u, b>>].qty = SumFunctionOnSet(f, S)
      /\ position[<<u, b>>].realized = SumFunctionOnSet(g, S)
  BY DEF HistoryInv, PositionMatchesTrades
<1>10. CASE u = d.user /\ b = d.base
  <2>1. S1 = S \cup {x} /\ x \notin S
    BY <1>2, <1>3, <1>8, <1>10 DEF LiveOf, Live, Used
  <2>2. position'[<<u, b>>] = after /\ position[<<u, b>>] = before
    BY <1>1, <1>6, <1>10, CustomerAccounts DEF HistoryInv, BookInv, BookTypeOK
  <2>3. /\ \A k \in S : f[k] \in Int /\ f1[k] = f[k]
        /\ \A k \in S : g[k] \in Int /\ g1[k] = g[k]
    BY <1>5, <1>7, <1>8
  <2>4. f1[x] \in Int /\ g1[x] \in Int
    BY <1>4
  <2>5. /\ f1[x] = after.qty - before.qty /\ g1[x] = after.realized - before.realized
        /\ before.qty = SumFunctionOnSet(f, S) /\ before.realized = SumFunctionOnSet(g, S)
        /\ after.qty \in Int /\ after.realized \in Int
    BY <1>2, <1>4, <1>9, <2>2 DEF Position
  <2>6. after.qty = SumFunctionOnSet(f1, S1) /\ after.realized = SumFunctionOnSet(g1, S1)
    <3> HIDE DEF f, f1, g, g1, S, S1, x, after
    <3>1. SumFunctionOnSet(f1, S \cup {x}) = SumFunctionOnSet(f, S) + f1[x]
          /\ SumFunctionOnSet(f, S) \in Int
      BY <1>8, <2>1, <2>3, <2>4, SumAdds
    <3>2. SumFunctionOnSet(g1, S \cup {x}) = SumFunctionOnSet(g, S) + g1[x]
          /\ SumFunctionOnSet(g, S) \in Int
      BY <1>8, <2>1, <2>3, <2>4, SumAdds
    <3> QED
      BY <2>1, <2>5, <3>1, <3>2
  <2> QED
    BY <2>2, <2>6
<1>11. CASE ~(u = d.user /\ b = d.base)
  <2>1. S1 = S
    BY <1>2, <1>3, <1>11 DEF LiveOf, Live, Used
  <2>2. position'[<<u, b>>] = position[<<u, b>>]
    <3>1. <<u, b>> # <<d.user, d.base>>
      BY <1>11
    <3> QED
      BY <1>6, <3>1, CustomerAccounts DEF HistoryInv, BookInv, BookTypeOK
  <2>3. \A k \in S : f[k] = f1[k] /\ g[k] = g1[k]
    BY <1>5, <1>8
  <2>4. SumFunctionOnSet(f1, S1) = SumFunctionOnSet(f, S)
        /\ SumFunctionOnSet(g1, S1) = SumFunctionOnSet(g, S)
    <3> HIDE DEF f, f1, g, g1, S, S1
    <3> QED
      BY <1>8, <2>1, <2>3, SumOfSame
  <2> QED
    BY <1>9, <2>2, <2>4
<1> QED
  BY <1>10, <1>11

\* The position looks like what the trade left, so writing back the one it found
\* takes exactly the trade off the sums.
LEMMA PositionsAtReverse ==
  ASSUME HistoryInv, NEW key \in TradeKeys, NEW target \in TradeKeys, Reverse(key, target)
  PROVE  PositionMatchesTrades'
<1>1. PICK original \in Row : original = trades[target]
  BY RowNumbers, ReverseRows DEF HistoryInv
<1> DEFINE d == original.data
           before == original.before
           after == original.after
<1>2. /\ target \in TradeKeys /\ target \in Used /\ key \notin Used /\ target \in Live
      /\ Live' = Live \ {target}
      /\ trades'[target].data = d
      /\ \A k \in TradeKeys \ {key, target} : trades'[k] = trades[k]
  BY <1>1, ReverseRows
<1>3. d \in Trade /\ before \in Position /\ after \in Position
  BY DEF Row
<1>4. /\ Bought[target] = after.qty - before.qty /\ Bought[target] \in Int
      /\ Gained[target] = after.realized - before.realized
  <2>1. after.qty = before.qty + Bought[target]
    BY <1>1, <1>2 DEF HistoryInv, RowsFit, Live
  <2>2. Bought[target] \in Int
    BY <1>2, RowNumbers DEF HistoryInv
  <2>3. Gained[target] = after.realized - before.realized
    BY <1>1 DEF Gained
  <2>4. before.qty \in Int
    BY <1>3 DEF Position
  <2> HIDE DEF after, before
  <2> QED
    BY <2>1, <2>2, <2>3, <2>4
<1>5. \A k \in Used \ {target} : Bought'[k] = Bought[k] /\ Gained'[k] = Gained[k]
  BY <1>2 DEF Used, Bought, Gained
<1>6. /\ d.user \in Users /\ d.base \in Assets
      /\ position[<<d.user, d.base>>] = after
      /\ position' = [position EXCEPT ![<<d.user, d.base>>] = before]
  BY <1>1, <1>3, TradeFields DEF Reverse, CanReverse
<1>7. \A k \in Used : Bought[k] \in Int /\ Gained[k] \in Int
  BY RowNumbers DEF HistoryInv
<1> SUFFICES ASSUME NEW u \in Users, NEW b \in Assets
             PROVE  /\ position'[<<u, b>>].qty = SumFunctionOnSet(Bought, LiveOf(u, b))'
                    /\ position'[<<u, b>>].realized = SumFunctionOnSet(Gained, LiveOf(u, b))'
  BY DEF PositionMatchesTrades
<1> DEFINE f == Bought
           f1 == Bought'
           g == Gained
           g1 == Gained'
           S == LiveOf(u, b)
           S1 == LiveOf(u, b)'
<1>8. IsFiniteSet(S) /\ S \subseteq Used
  BY RowNumbers DEF HistoryInv
<1>9. /\ position[<<u, b>>].qty = SumFunctionOnSet(f, S)
      /\ position[<<u, b>>].realized = SumFunctionOnSet(g, S)
  BY DEF HistoryInv, PositionMatchesTrades
<1>10. \A k \in Live \ {target} : trades'[k] = trades[k]
  BY <1>2 DEF Live, Used
<1>11. CASE u = d.user /\ b = d.base
  <2>1. S1 = S \ {target} /\ target \in S
    BY <1>1, <1>2, <1>10, <1>11 DEF LiveOf
  <2>2. position'[<<u, b>>] = before /\ position[<<u, b>>] = after
    BY <1>6, <1>11, CustomerAccounts DEF HistoryInv, BookInv, BookTypeOK
  <2>3. /\ \A k \in S : f[k] \in Int /\ (k # target => f1[k] = f[k])
        /\ \A k \in S : g[k] \in Int /\ (k # target => g1[k] = g[k])
    BY <1>5, <1>7, <1>8
  <2>4. /\ f[target] = after.qty - before.qty /\ g[target] = after.realized - before.realized
        /\ after.qty = SumFunctionOnSet(f, S) /\ after.realized = SumFunctionOnSet(g, S)
        /\ before.qty \in Int /\ before.realized \in Int
        /\ after.qty \in Int /\ after.realized \in Int
    BY <1>3, <1>4, <1>9, <2>2 DEF Position
  <2>5. before.qty = SumFunctionOnSet(f1, S1) /\ before.realized = SumFunctionOnSet(g1, S1)
    <3> HIDE DEF f, f1, g, g1, S, S1, before, after
    <3>1. /\ Agree(f, f1, S1) /\ \A k \in S : f[k] \in Int
          /\ Agree(g, g1, S1) /\ \A k \in S : g[k] \in Int
          /\ Without(S, target, S1) /\ IsFiniteSet(S)
      BY <1>8, <2>1, <2>3 DEF Agree, Without
    <3>2. SumFunctionOnSet(f1, S1) = SumFunctionOnSet(f, S) - f[target]
      BY <3>1, SumDrops
    <3>3. SumFunctionOnSet(g1, S1) = SumFunctionOnSet(g, S) - g[target]
      BY <3>1, SumDrops
    <3> QED
      BY <2>4, <3>2, <3>3
  <2> QED
    BY <2>2, <2>5
<1>12. CASE ~(u = d.user /\ b = d.base)
  <2>1. S1 = S /\ target \notin S
    BY <1>1, <1>2, <1>10, <1>12 DEF LiveOf
  <2>2. position'[<<u, b>>] = position[<<u, b>>]
    <3>1. <<u, b>> # <<d.user, d.base>>
      BY <1>12
    <3> QED
      BY <1>6, <3>1, CustomerAccounts DEF HistoryInv, BookInv, BookTypeOK
  <2>3. \A k \in S : f[k] = f1[k] /\ g[k] = g1[k]
    BY <1>5, <1>8, <2>1
  <2>4. SumFunctionOnSet(f1, S1) = SumFunctionOnSet(f, S)
        /\ SumFunctionOnSet(g1, S1) = SumFunctionOnSet(g, S)
    <3> HIDE DEF f, f1, g, g1, S, S1
    <3> QED
      BY <1>8, <2>1, <2>3, SumOfSame
  <2> QED
    BY <1>9, <2>2, <2>4
<1> QED
  BY <1>11, <1>12

-----------------------------------------------------------------------------
(* Balances *)

\* The balances move by the legs of the new row.
LEMMA BalancesAtRecord ==
  ASSUME HistoryInv, NEW d \in Trade, Record(d) PROVE BalanceMatchesTrades'
<1> DEFINE x == d.key
<1>1. /\ x \in TradeKeys /\ x \notin Used /\ Live' = Live \cup {x}
      /\ \A k \in TradeKeys \ {x} : trades'[k] = trades[k]
  BY RecordRows
<1>2. trades'[x].data = d
  <2>1. trades'[x] = TradeRow(d, position[<<d.user, d.base>>])
    BY RecordRows
  <2> QED
    BY <2>1 DEF TradeRow
<1> SUFFICES ASSUME NEW u \in Users, NEW a \in Assets
             PROVE  balance'[<<u, a>>] =
                      flows'[<<u, a>>] + SumFunctionOnSet(LegsIn(a), LiveBy(u))'
  BY DEF BalanceMatchesTrades
<1> DEFINE f == LegsIn(a)
           g == LegsIn(a)'
           S == LiveBy(u)
           T == LiveBy(u)'
           leg == LegOf(d, a)
<1>3. /\ IsFiniteSet(S) /\ S \subseteq Used
      /\ \A k \in S : f[k] \in Int
  BY RowNumbers DEF HistoryInv
<1>4. \A k \in S : g[k] = f[k]
  BY <1>1, <1>3 DEF Used, LegsIn
<1>5. /\ balance[<<u, a>>] = flows[<<u, a>>] + SumFunctionOnSet(f, S)
      /\ flows' = flows /\ flows[<<u, a>>] \in Int
      /\ balance' = Settle(balance, d, Sign(d)) /\ balance \in [Accounts -> Int]
  BY CustomerAccounts
     DEF Record, HistoryInv, BookInv, BookTypeOK, BalanceMatchesTrades
<1>6. leg \in Int /\ g[x] = leg
  BY <1>1, <1>2, LegIsInt DEF LegsIn
<1>7. CASE u = d.user
  <2>1. T = S \cup {x} /\ x \notin S
    BY <1>1, <1>2, <1>3, <1>7 DEF LiveBy, Live, Used
  <2>2. balance'[<<u, a>>] = balance[<<u, a>>] + leg
    BY <1>5, <1>7, SettleLegs
  <2>3. balance'[<<u, a>>] = flows[<<u, a>>] + SumFunctionOnSet(g, T)
    <3> HIDE DEF f, g, S, T, x, leg
    <3>1. /\ SumFunctionOnSet(g, S \cup {x}) = SumFunctionOnSet(f, S) + g[x]
          /\ SumFunctionOnSet(f, S) \in Int
      BY <1>3, <1>4, <1>6, <2>1, SumAdds
    <3> QED
      BY <1>5, <1>6, <2>1, <2>2, <3>1
  <2> QED
    BY <1>5, <2>3
<1>8. CASE u # d.user
  <2>1. T = S
    BY <1>1, <1>2, <1>8 DEF LiveBy, Live, Used
  <2>2. balance'[<<u, a>>] = balance[<<u, a>>]
    BY <1>5, <1>8, SettleLegs
  <2>3. SumFunctionOnSet(g, T) = SumFunctionOnSet(f, S)
    <3> HIDE DEF f, g, S, T
    <3> QED
      BY <1>3, <1>4, <2>1, SumOfSame
  <2> QED
    BY <1>5, <2>2, <2>3
<1> QED
  BY <1>7, <1>8

\* The balances move back by the legs of the row that leaves the live ones.
LEMMA BalancesAtReverse ==
  ASSUME HistoryInv, NEW key \in TradeKeys, NEW target \in TradeKeys, Reverse(key, target)
  PROVE  BalanceMatchesTrades'
<1>1. PICK original \in Row : original = trades[target]
  BY RowNumbers, ReverseRows DEF HistoryInv
<1> DEFINE d == original.data
<1>2. /\ target \in TradeKeys /\ target \in Used /\ key \notin Used /\ target \in Live
      /\ Live' = Live \ {target}
      /\ trades'[target].data = d
      /\ \A k \in TradeKeys \ {key, target} : trades'[k] = trades[k]
  BY <1>1, ReverseRows
<1>3. d \in Trade /\ d.user \in Users
  BY TradeFields DEF Row
<1> SUFFICES ASSUME NEW u \in Users, NEW a \in Assets
             PROVE  balance'[<<u, a>>] =
                      flows'[<<u, a>>] + SumFunctionOnSet(LegsIn(a), LiveBy(u))'
  BY DEF BalanceMatchesTrades
<1> DEFINE f == LegsIn(a)
           g == LegsIn(a)'
           S == LiveBy(u)
           T == LiveBy(u)'
           leg == LegOf(d, a)
<1>4. /\ IsFiniteSet(S) /\ S \subseteq Used
      /\ \A k \in S : f[k] \in Int
  BY RowNumbers DEF HistoryInv
<1>5. \A k \in Live \ {target} : trades'[k] = trades[k]
  BY <1>2 DEF Live, Used
<1>6. \A k \in S : f[k] \in Int /\ (k # target => g[k] = f[k])
  BY <1>4, <1>5 DEF LiveBy, Live, LegsIn
<1>7. /\ balance[<<u, a>>] = flows[<<u, a>>] + SumFunctionOnSet(f, S)
      /\ flows' = flows /\ flows[<<u, a>>] \in Int
      /\ balance' = Settle(balance, d, -Sign(d)) /\ balance \in [Accounts -> Int]
  BY <1>1, CustomerAccounts
     DEF Reverse, HistoryInv, BookInv, BookTypeOK, BalanceMatchesTrades
<1>8. leg \in Int /\ f[target] = leg
  BY <1>1, <1>3, LegIsInt DEF LegsIn
<1>9. CASE u = d.user
  <2>1. T = S \ {target} /\ target \in S
    BY <1>1, <1>2, <1>5, <1>9 DEF LiveBy
  <2>2. balance'[<<u, a>>] = balance[<<u, a>>] - leg
    BY <1>3, <1>7, <1>9, SettleLegs
  <2>3. balance'[<<u, a>>] = flows[<<u, a>>] + SumFunctionOnSet(g, T)
    <3> HIDE DEF f, g, S, T, leg, d
    <3>1. SumFunctionOnSet(g, T) = SumFunctionOnSet(f, S) - f[target]
      <4>1. Agree(f, g, T) /\ Without(S, target, T) /\ IsFiniteSet(S)
        BY <1>4, <1>6, <2>1 DEF Agree, Without
      <4> QED
        BY <1>4, <4>1, SumDrops
    <3>2. SumFunctionOnSet(f, S) \in Int
      BY <1>4, SumType
    <3> QED
      BY <1>7, <1>8, <2>1, <2>2, <3>1, <3>2
  <2> QED
    BY <1>7, <2>3
<1>10. CASE u # d.user
  <2>1. T = S /\ target \notin S
    BY <1>1, <1>2, <1>5, <1>10 DEF LiveBy
  <2>2. balance'[<<u, a>>] = balance[<<u, a>>]
    BY <1>3, <1>7, <1>10, SettleLegs
  <2>3. SumFunctionOnSet(g, T) = SumFunctionOnSet(f, S)
    <3> HIDE DEF f, g, S, T
    <3> QED
      BY <1>4, <1>6, <2>1, SumOfSame
  <2> QED
    BY <1>7, <2>2, <2>3
<1> QED
  BY <1>9, <1>10

\* A deposit and a reservation move a balance and its flow alike.
LEMMA BalancesAtPosting ==
  ASSUME HistoryInv, NEW k \in LedgerKeys, NEW user \in Users, NEW asset \in Assets,
         NEW n \in LedgerAmounts,
         Deposit(k, user, asset, n) \/ Reserve(k, user, asset, n)
  PROVE  BalanceMatchesTrades'
<1>1. trades' = trades
  BY DEF Deposit, Reserve
<1>2. balance \in [Accounts -> Int] /\ flows \in [Users \X Assets -> Int] /\ n \in Int
  BY DEF HistoryInv, BookInv, BookTypeOK
<1> SUFFICES ASSUME NEW u \in Users, NEW a \in Assets
             PROVE  balance'[<<u, a>>] =
                      flows'[<<u, a>>] + SumFunctionOnSet(LegsIn(a), LiveBy(u))'
  BY DEF BalanceMatchesTrades
<1> DEFINE sum == SumFunctionOnSet(LegsIn(a), LiveBy(u))
<1>3. SumFunctionOnSet(LegsIn(a), LiveBy(u))' = sum
  BY <1>1 DEF LegsIn, LiveBy, Live
<1>4. sum \in Int
  BY RowNumbers, SumType DEF HistoryInv
<1>5. balance[<<u, a>>] = flows[<<u, a>>] + sum /\ flows[<<u, a>>] \in Int
  BY <1>2, CustomerAccounts DEF HistoryInv, BalanceMatchesTrades
<1> HIDE DEF sum
<1>6. CASE Deposit(k, user, asset, n)
  <2>1. balance'[<<u, a>>] = balance[<<u, a>>] + IF <<u, a>> = <<user, asset>> THEN n ELSE 0
    BY <1>2, <1>6, PostingMoves DEF Deposit
  <2>2. flows'[<<u, a>>] = flows[<<u, a>>] + IF <<u, a>> = <<user, asset>> THEN n ELSE 0
    BY <1>2, <1>6, CustomerAccounts DEF Deposit
  <2> QED
    BY <1>2, <1>3, <1>4, <1>5, <2>1, <2>2
<1>7. CASE Reserve(k, user, asset, n)
  <2>1. balance'[<<u, a>>] = balance[<<u, a>>] - IF <<u, a>> = <<user, asset>> THEN n ELSE 0
    BY <1>2, <1>7, PostingMoves DEF Reserve
  <2>2. flows'[<<u, a>>] = flows[<<u, a>>] - IF <<u, a>> = <<user, asset>> THEN n ELSE 0
    BY <1>2, <1>7, CustomerAccounts DEF Reserve
  <2> QED
    BY <1>2, <1>3, <1>4, <1>5, <2>1, <2>2
<1> QED
  BY <1>6, <1>7

\* Steps that leave rows and positions alone.
LEMMA SameRows ==
  ASSUME HistoryInv, UNCHANGED <<trades, position>>
  PROVE  /\ RowsFit' /\ PositionMatchesTrades'
         /\ \A a : LegsIn(a)' = LegsIn(a)
         /\ \A u : LiveBy(u)' = LiveBy(u)
<1>1. Used' = Used /\ Live' = Live /\ Bought' = Bought /\ Gained' = Gained
  BY DEF Used, Live, Bought, Gained
<1>2. \A k : ReversalsOf(k)' = ReversalsOf(k)
  BY DEF ReversalsOf
<1>3. \A u, b : LiveOf(u, b)' = LiveOf(u, b)
  BY <1>1 DEF LiveOf
<1>4. /\ \A a : LegsIn(a)' = LegsIn(a)
      /\ \A u : LiveBy(u)' = LiveBy(u)
  BY <1>1 DEF LegsIn, LiveBy
<1>5. RowsFit'
  BY <1>1, <1>2 DEF HistoryInv, RowsFit
<1>6. PositionMatchesTrades'
  BY <1>1, <1>3 DEF HistoryInv, PositionMatchesTrades
<1> QED
  BY <1>4, <1>5, <1>6

\* HistoryInv is inductive.
LEMMA HistoryStep == HistoryInv /\ [BookNext]_tables => HistoryInv'
<1> SUFFICES ASSUME HistoryInv, [BookNext]_tables PROVE HistoryInv'
  OBVIOUS
<1>1. BookInv'
  BY BookStep DEF HistoryInv
<1>2. CASE \E d \in Trade : Record(d)
  BY <1>1, <1>2, RowsAtRecord, PositionsAtRecord, BalancesAtRecord DEF HistoryInv
<1>3. CASE \E key, target \in TradeKeys : Reverse(key, target)
  BY <1>1, <1>3, RowsAtReverse, PositionsAtReverse, BalancesAtReverse DEF HistoryInv
<1>4. CASE \E k \in LedgerKeys, ua \in Users \X Assets, n \in LedgerAmounts :
             Deposit(k, ua[1], ua[2], n) \/ Reserve(k, ua[1], ua[2], n)
  <2>1. UNCHANGED <<trades, position>>
    BY <1>4 DEF Deposit, Reserve
  <2>2. RowsFit' /\ PositionMatchesTrades'
    BY <2>1, SameRows
  <2>3. BalanceMatchesTrades'
    BY <1>4, BalancesAtPosting
  <2> QED
    BY <1>1, <2>2, <2>3 DEF HistoryInv
<1>5. CASE UNCHANGED tables
  <2>1. UNCHANGED <<trades, position, balance, flows>>
    BY <1>5 DEF tables
  <2>2. BalanceMatchesTrades'
    BY <2>1, SameRows DEF HistoryInv, BalanceMatchesTrades
  <2> QED
    BY <1>1, <2>1, <2>2, SameRows DEF HistoryInv
<1> QED
  BY <1>2, <1>3, <1>4, <1>5 DEF BookNext

\* A marked row has exactly one reversal, an unmarked one has none.
LEMMA FitIsOne == RowsFit => ReversedByOne
<1> SUFFICES ASSUME RowsFit, NEW k \in TradeKeys, trades[k] # NoTrade
             PROVE  Cardinality(ReversalsOf(k)) =
                      IF trades[k].status = "reversed" THEN 1 ELSE 0
  BY DEF ReversedByOne
<1>1. k \in Used
  BY DEF Used
<1>2. CASE trades[k].status = "reversed"
  <2>1. PICK r \in TradeKeys : ReversalsOf(k) = {r}
    BY <1>1, <1>2 DEF RowsFit
  <2> QED
    BY <1>2, <2>1, FS_Singleton
<1>3. CASE trades[k].status # "reversed"
  <2>1. ReversalsOf(k) = {}
    BY <1>1, <1>3 DEF RowsFit
  <2> QED
    BY <1>3, <2>1, FS_EmptySet
<1> QED
  BY <1>2, <1>3

\* The rows, positions and balances of the book explain each other.
THEOREM BookHistory == BookSpec => []HistoryInv
BY HistoryInit, HistoryStep, PTL DEF BookSpec

\* Every position is what its live trades add up to, in quantity and in realized
\* profit, and a trade is reversed by exactly one reversal if it is marked, after any
\* history of trades and reversals, of any length (record, reverse).
THEOREM TradesExplain == BookSpec => []TradesExplainPositions
<1>1. HistoryInv => TradesExplainPositions
  BY FitIsOne DEF HistoryInv, BookInv, TradesExplainPositions
<1> QED
  BY <1>1, BookHistory, PTL

\* No customer account is overdrawn, and every one holds what was deposited and not
\* reserved plus the legs of the live trades, after any history (post_ledger).
THEOREM BalancesAlwaysHold == BookSpec => []BalancesHold
<1>1. HistoryInv => BalancesHold
  BY DEF HistoryInv, BookInv, BalancesHold
<1> QED
  BY <1>1, BookHistory, PTL

-----------------------------------------------------------------------------
(* The handlers *)

HIDE NoTradeAssumption
USE NoViewAssumption

IInv == AccountingInv /\ NeverNegative

-----------------------------------------------------------------------------
(* Transactions and their locks *)

LEMMA TxnKind ==
  ASSUME NEW t \in Txn
  PROVE  /\ t.op \in {"idle", "record", "reverse", "deposit", "reserve"}
         /\ t.next \in Nat \ {0}
         /\ t.op = "idle" => t = Idle
         /\ t.op = "record" => t.data \in Trade /\ t.view \in Position \cup {NoView}
         /\ t.op = "reverse" => t.data \in Reversal /\ t.view \in Row \cup {NoView}
         /\ t.op \in {"deposit", "reserve"} =>
              t.data \in Posting /\ t.view \in LedgerKeys \cup {NoView}
BY DEF Txn, Idle

\* The lock plan of each operation.
LEMMA PlanOf ==
  ASSUME NEW t
  PROVE  /\ t.op = "record" => Locks(t) = RecordLocks(t.data) /\ Reads(t) = 5
         /\ t.op = "reverse" =>
              /\ Locks(t) = ReverseLocks(t.data.key, t.data.target,
                                         trades[t.data.target].data)
              /\ Reads(t) = 3
         /\ t.op = "deposit" => Locks(t) = DepositLocks(t.data) /\ Reads(t) = 2
         /\ t.op = "reserve" => Locks(t) = ReserveLocks(t.data) /\ Reads(t) = 1
         /\ t.op = "idle" => Locks(t) = <<>> /\ Reads(t) = 0
BY DEF Locks, Reads

LEMMA PlanLength ==
  ASSUME NEW t
  PROVE  /\ t.op = "record" => Len(Locks(t)) = 6
         /\ t.op = "reverse" => Len(Locks(t)) = 8
         /\ t.op = "deposit" => Len(Locks(t)) = 3
         /\ t.op = "reserve" => Len(Locks(t)) = 2
         /\ t.op = "idle" => Len(Locks(t)) = 0
<1>1. t.op = "record" => Len(Locks(t)) = 6
  BY PlanOf DEF RecordLocks
<1>2. t.op = "reverse" => Len(Locks(t)) = 8
  BY PlanOf DEF ReverseLocks
<1>3. t.op = "deposit" => Len(Locks(t)) = 3
  BY PlanOf DEF DepositLocks
<1>4. t.op = "reserve" => Len(Locks(t)) = 2
  BY PlanOf DEF ReserveLocks
<1>5. t.op = "idle" => Len(Locks(t)) = 0
  BY PlanOf
<1> QED
  BY <1>1, <1>2, <1>3, <1>4, <1>5

LEMMA HeldIndex ==
  ASSUME NEW p, NEW i \in Nat \ {0}, txn[p].next \in Nat, i < txn[p].next
  PROVE  Locks(txn[p])[i] \in Held(p)
BY DEF Held

\* A trade that has decided holds the portfolio and both customer accounts.
LEMMA RecordHolds ==
  ASSUME NEW p, txn[p] \in Txn, txn[p].op = "record", txn[p].next > 5
  PROVE  LET d == txn[p].data
         IN  /\ Exclusive(PortfolioRow(d.user)) \in Held(p)
             /\ Exclusive(AccountRow(d.user, d.quote)) \in Held(p)
             /\ Exclusive(AccountRow(d.user, d.base)) \in Held(p)
             /\ Exclusive(AccountRow(Clearing, d.quote)) \in Held(p)
             /\ Exclusive(AccountRow(Clearing, d.base)) \in Held(p)
<1> DEFINE d == txn[p].data
<1>1. txn[p].next \in Nat
  BY TxnKind
<1>2. \A i \in {1, 2, 3, 4, 5} : RecordLocks(d)[i] \in Held(p)
  <2> SUFFICES ASSUME NEW i \in {1, 2, 3, 4, 5} PROVE RecordLocks(d)[i] \in Held(p)
    OBVIOUS
  <2>1. Locks(txn[p]) = RecordLocks(d)
    BY PlanOf
  <2>2. i \in Nat \ {0} /\ i < txn[p].next
    BY <1>1
  <2> QED
    BY <1>1, <2>1, <2>2, HeldIndex
<1>3. /\ RecordLocks(d)[1] = Exclusive(PortfolioRow(d.user))
      /\ RecordLocks(d)[2] = Exclusive(AccountRow(d.user, d.quote))
      /\ RecordLocks(d)[3] = Exclusive(AccountRow(d.user, d.base))
      /\ RecordLocks(d)[4] = Exclusive(AccountRow(Clearing, d.quote))
      /\ RecordLocks(d)[5] = Exclusive(AccountRow(Clearing, d.base))
  BY DEF RecordLocks
<1> QED
  BY <1>2, <1>3

\* A reversal that has decided holds the trade, the portfolio and the account
\* it debits; one that commits shares the other accounts.
LEMMA ReverseHolds ==
  ASSUME NEW p, txn[p] \in Txn, txn[p].op = "reverse", txn[p].next > 3
  PROVE  LET r == txn[p].data
             d == trades[r.target].data
         IN  /\ Exclusive(TradeRowOf(r.target)) \in Held(p)
             /\ Exclusive(PortfolioRow(d.user)) \in Held(p)
             /\ Exclusive(AccountRow(d.user, Affected(d))) \in Held(p)
             /\ txn[p].next > 8 =>
                  /\ Shared(AccountRow(d.user, d.quote)) \in Held(p)
                  /\ Shared(AccountRow(Clearing, d.quote)) \in Held(p)
                  /\ Shared(AccountRow(d.user, d.base)) \in Held(p)
                  /\ Shared(AccountRow(Clearing, d.base)) \in Held(p)
<1> DEFINE r == txn[p].data
           d == trades[r.target].data
           plan == ReverseLocks(r.key, r.target, d)
<1>1. txn[p].next \in Nat
  BY TxnKind
<1>2. Locks(txn[p]) = plan
  BY PlanOf
<1> HIDE DEF plan
<1>3. \A i \in {1, 2, 3} : plan[i] \in Held(p)
  <2> SUFFICES ASSUME NEW i \in {1, 2, 3} PROVE plan[i] \in Held(p)
    OBVIOUS
  <2>1. i \in Nat \ {0} /\ i < txn[p].next
    BY <1>1
  <2> QED
    BY <1>1, <1>2, <2>1, HeldIndex
<1>4. ASSUME txn[p].next > 8 PROVE \A i \in {5, 6, 7, 8} : plan[i] \in Held(p)
  <2> SUFFICES ASSUME NEW i \in {5, 6, 7, 8} PROVE plan[i] \in Held(p)
    OBVIOUS
  <2>1. i \in Nat \ {0} /\ i < txn[p].next
    BY <1>1, <1>4
  <2> QED
    BY <1>1, <1>2, <2>1, HeldIndex
<1>5. /\ plan[1] = Exclusive(TradeRowOf(r.target))
      /\ plan[2] = Exclusive(PortfolioRow(d.user))
      /\ plan[3] = Exclusive(AccountRow(d.user, Affected(d)))
      /\ plan[5] = Shared(AccountRow(d.user, d.quote))
      /\ plan[6] = Shared(AccountRow(Clearing, d.quote))
      /\ plan[7] = Shared(AccountRow(d.user, d.base))
      /\ plan[8] = Shared(AccountRow(Clearing, d.base))
  BY DEF ReverseLocks, plan
<1> QED
  BY <1>3, <1>4, <1>5

\* A deposit or reservation that has decided holds the customer's account.
LEMMA PostingHolds ==
  ASSUME NEW p, txn[p] \in Txn,
         \/ txn[p].op = "deposit" /\ txn[p].next > 2
         \/ txn[p].op = "reserve" /\ txn[p].next > 1
  PROVE  Exclusive(AccountRow(txn[p].data.user, txn[p].data.asset)) \in Held(p)
<1> DEFINE d == txn[p].data
<1>1. txn[p].next \in Nat
  BY TxnKind
<1>2. CASE txn[p].op = "deposit"
  <2>1. Locks(txn[p])[1] \in Held(p)
    BY <1>1, <1>2, HeldIndex
  <2>2. DepositLocks(d)[1] = Exclusive(AccountRow(d.user, d.asset))
    BY DEF DepositLocks
  <2> QED
    BY <1>2, <2>1, <2>2, PlanOf
<1>3. CASE txn[p].op = "reserve"
  <2>1. Locks(txn[p])[1] \in Held(p)
    BY <1>1, <1>3, HeldIndex
  <2>2. ReserveLocks(d)[1] = Exclusive(AccountRow(d.user, d.asset))
    BY DEF ReserveLocks
  <2> QED
    BY <1>3, <2>1, <2>2, PlanOf
<1> QED
  BY <1>2, <1>3

-----------------------------------------------------------------------------
(* What a handler may change *)

\* Balances, positions and trades change only under a lock of p, in any mode;
\* a trade is never deleted and its data never change.
Frame(p) ==
  /\ \A u \in Users, a \in Assets :
       balance'[<<u, a>>] # balance[<<u, a>>] =>
         \E l \in Held(p) : l.row = AccountRow(u, a)
  /\ \A u \in Users, a \in Assets :
       position'[<<u, a>>] # position[<<u, a>>] =>
         \E l \in Held(p) : l.row = PortfolioRow(u)
  /\ \A k \in TradeKeys : trades[k] # NoTrade =>
       /\ trades'[k] # NoTrade
       /\ trades'[k].data = trades[k].data
       /\ trades'[k] # trades[k] => \E l \in Held(p) : l.row = TradeRowOf(k)

\* No other handler has any lock on a row that q holds exclusively.
LEMMA ExclusiveRow ==
  ASSUME LocksExclusive, NEW p \in Handlers, NEW q \in Handlers, p # q,
         NEW row, Exclusive(row) \in Held(q)
  PROVE  ~ \E l \in Held(p) : l.row = row
<1> SUFFICES ASSUME NEW l \in Held(p), l.row = row PROVE FALSE
  OBVIOUS
<1>1. Compatible(Exclusive(row), l)
  BY DEF LocksExclusive
<1> QED
  BY <1>1 DEF Compatible, Exclusive

\* The locks of a transaction that p does not touch stay the same.
LEMMA FrameKeepsLocks ==
  ASSUME TypeOK, NEW p \in Handlers, NEW q \in Handlers, Frame(p), txn'[q] = txn[q]
  PROVE  Held(q)' = Held(q) /\ Reads(txn[q])' = Reads(txn[q])
<1>1. txn[q] \in Txn
  BY DEF TypeOK
<1>2. Reads(txn[q])' = Reads(txn[q])
  BY DEF Reads
<1>3. Locks(txn[q])' = Locks(txn[q])
  <2>1. CASE txn[q].op = "reverse"
    <3>1. txn[q].data.target \in TradeKeys /\ trades[txn[q].data.target] # NoTrade
      BY <1>1, <2>1, TxnKind DEF TypeOK, Reversal
    <3>2. trades'[txn[q].data.target].data = trades[txn[q].data.target].data
      BY <3>1 DEF Frame
    <3> QED
      BY <2>1, <3>2 DEF Locks
  <2>2. CASE txn[q].op # "reverse"
    BY <2>2 DEF Locks
  <2> QED
    BY <2>1, <2>2
<1> QED
  BY <1>2, <1>3 DEF Held

\* What q decided on is locked by q, so p leaves it as it is.
LEMMA FrameKeepsViews ==
  ASSUME AccountingInv, NEW p \in Handlers, NEW q \in Handlers, p # q, Frame(p),
         txn'[q] = txn[q], txn[q].view # NoView
  PROVE  ViewHolds(txn[q])'
<1>1. txn[q] \in Txn /\ txn[q].next > Reads(txn[q]) /\ ViewHolds(txn[q]) /\ LocksExclusive
  BY DEF AccountingInv, TypeOK, DecisionsHold
<1>2. CASE txn[q].op = "record"
  <2> DEFINE d == txn[q].data
  <2>1. d \in Trade /\ d.user \in Users /\ d.base \in Assets /\ d.quote \in Assets
    BY <1>1, <1>2, TxnKind, TradeFields
  <2>2. /\ Exclusive(PortfolioRow(d.user)) \in Held(q)
        /\ Exclusive(AccountRow(d.user, d.quote)) \in Held(q)
        /\ Exclusive(AccountRow(d.user, d.base)) \in Held(q)
    BY <1>1, <1>2, PlanOf, RecordHolds
  <2>3. position'[<<d.user, d.base>>] = position[<<d.user, d.base>>]
    BY <1>1, <2>1, <2>2, ExclusiveRow DEF Frame
  <2>4. balance'[<<d.user, d.quote>>] = balance[<<d.user, d.quote>>]
    BY <1>1, <2>1, <2>2, ExclusiveRow DEF Frame
  <2>5. balance'[<<d.user, d.base>>] = balance[<<d.user, d.base>>]
    BY <1>1, <2>1, <2>2, ExclusiveRow DEF Frame
  <2>6. CanRecord(balance', position', d) = CanRecord(balance, position, d)
    BY <2>3, <2>4, <2>5 DEF CanRecord
  <2> QED
    BY <1>1, <1>2, <2>3, <2>6 DEF ViewHolds
<1>3. CASE txn[q].op = "reverse"
  <2> DEFINE t == txn[q].data.target
             d == trades[t].data
  <2>1. t \in TradeKeys /\ trades[t] # NoTrade
    BY <1>1, <1>3, TxnKind DEF AccountingInv, TypeOK, Reversal
  <2>2. trades[t] \in Row /\ d \in Trade
    BY <2>1 DEF AccountingInv, TypeOK, BookTypeOK, Row
  <2>3. d.user \in Users /\ d.base \in Assets /\ Affected(d) \in Assets
    BY <2>2, TradeFields DEF Affected
  <2>4. /\ Exclusive(TradeRowOf(t)) \in Held(q)
        /\ Exclusive(PortfolioRow(d.user)) \in Held(q)
        /\ Exclusive(AccountRow(d.user, Affected(d))) \in Held(q)
    BY <1>1, <1>3, PlanOf, ReverseHolds
  <2>5. trades'[t] = trades[t]
    BY <1>1, <2>1, <2>4, ExclusiveRow DEF Frame
  <2>6. position'[<<d.user, d.base>>] = position[<<d.user, d.base>>]
    BY <1>1, <2>3, <2>4, ExclusiveRow DEF Frame
  <2>7. balance'[<<d.user, Affected(d)>>] = balance[<<d.user, Affected(d)>>]
    BY <1>1, <2>3, <2>4, ExclusiveRow DEF Frame
  <2>8. CanReverse(balance', position', trades', t) = CanReverse(balance, position, trades, t)
    BY <2>5, <2>6, <2>7 DEF CanReverse
  <2> QED
    BY <1>1, <1>3, <2>5, <2>8 DEF ViewHolds
<1>4. CASE txn[q].op = "reserve"
  <2> DEFINE d == txn[q].data
  <2>1. d.user \in Users /\ d.asset \in Assets
    BY <1>1, <1>4, TxnKind DEF Posting
  <2>2. Exclusive(AccountRow(d.user, d.asset)) \in Held(q)
    BY <1>1, <1>4, PlanOf, PostingHolds
  <2>3. balance'[<<d.user, d.asset>>] = balance[<<d.user, d.asset>>]
    BY <1>1, <2>1, <2>2, ExclusiveRow DEF Frame
  <2> QED
    BY <1>1, <1>4, <2>3 DEF ViewHolds
<1>5. CASE txn[q].op \in {"deposit", "idle"}
  BY <1>5 DEF ViewHolds
<1> QED
  BY <1>1, <1>2, <1>3, <1>4, <1>5, TxnKind

-----------------------------------------------------------------------------
(* Steps keep the invariant *)

\* A commit by p, which ends its transaction.
LEMMA CommitStep ==
  ASSUME AccountingInv, NEW p \in Handlers, Frame(p), Finish(p), BookTypeOK'
  PROVE  AccountingInv'
<1>1. txn \in [Handlers -> Txn] /\ TypeOK /\ LocksExclusive
  BY DEF AccountingInv, TypeOK
<1>2. Idle \in Txn /\ Idle.op = "idle" /\ Idle.view = NoView /\ Idle.next = 1
  BY DEF Idle, Txn
<1>3. txn'[p] = Idle /\ \A q \in Handlers \ {p} : txn'[q] = txn[q]
  BY <1>1 DEF Finish
<1>4. \A q \in Handlers \ {p} : Held(q)' = Held(q) /\ Reads(txn[q])' = Reads(txn[q])
  BY <1>1, <1>3, FrameKeepsLocks
<1>5. Held(p)' = {}
  BY <1>2, <1>3 DEF Held
<1>6. TypeOK'
  <2>1. txn' \in [Handlers -> Txn]
    BY <1>1, <1>2 DEF Finish
  <2>2. ASSUME NEW q \in Handlers, txn'[q].op = "reverse"
        PROVE  trades'[txn'[q].data.target] # NoTrade
    <3>1. q # p /\ txn'[q] = txn[q]
      BY <1>2, <1>3, <2>2
    <3>2. txn[q].data.target \in TradeKeys /\ trades[txn[q].data.target] # NoTrade
      BY <1>1, <2>2, <3>1, TxnKind DEF TypeOK, Reversal
    <3> QED
      BY <3>1, <3>2 DEF Frame
  <2> QED
    BY <2>1, <2>2 DEF TypeOK
<1>7. LocksExclusive'
  <2> SUFFICES ASSUME NEW q \in Handlers, NEW r \in Handlers, q # r,
                      NEW l \in Held(q)', NEW m \in Held(r)'
               PROVE  Compatible(l, m)
    BY DEF LocksExclusive, Compatible
  <2>1. q # p /\ r # p
    BY <1>5
  <2> QED
    BY <1>1, <1>4, <2>1 DEF LocksExclusive
<1>8. DecisionsHold'
  <2> SUFFICES ASSUME NEW q \in Handlers, (txn[q].view # NoView)'
               PROVE  (txn[q].next > Reads(txn[q]) /\ ViewHolds(txn[q]))'
    BY DEF DecisionsHold
  <2>1. q # p /\ txn'[q] = txn[q]
    BY <1>2, <1>3
  <2>2. ViewHolds(txn[q])'
    BY <2>1, FrameKeepsViews
  <2>3. (txn[q].next > Reads(txn[q]))'
    BY <1>4, <2>1 DEF AccountingInv, DecisionsHold
  <2> QED
    BY <2>2, <2>3
<1> QED
  BY <1>6, <1>7, <1>8 DEF AccountingInv

\* A step that changes nothing but p's own transaction, to a well-formed one
\* whose decision holds and whose locks no other handler has.
LEMMA ControlStep ==
  ASSUME AccountingInv, NEW p \in Handlers, NEW t \in Txn,
         txn' = [txn EXCEPT ![p] = t], UNCHANGED tables,
         t.op = "reverse" => trades[t.data.target] # NoTrade,
         t.view # NoView => t.next > Reads(t) /\ ViewHolds(t),
         \A q \in Handlers \ {p} : \A l \in Held(p)', m \in Held(q) : Compatible(l, m)
  PROVE  AccountingInv'
<1>1. txn \in [Handlers -> Txn] /\ TypeOK /\ LocksExclusive
  BY DEF AccountingInv, TypeOK
<1>2. txn'[p] = t /\ \A q \in Handlers \ {p} : txn'[q] = txn[q]
  BY <1>1
<1>3. balance' = balance /\ position' = position /\ trades' = trades
      /\ posted' = posted /\ flows' = flows
  BY DEF tables
<1>4. TypeOK'
  BY <1>1, <1>2, <1>3 DEF TypeOK, BookTypeOK
<1>5. \A q \in Handlers \ {p} : Held(q)' = Held(q)
  BY <1>2, <1>3 DEF Held, Locks
<1>6. LocksExclusive'
  <2> SUFFICES ASSUME NEW q \in Handlers, NEW r \in Handlers, q # r,
                      NEW l \in Held(q)', NEW m \in Held(r)'
               PROVE  Compatible(l, m)
    BY DEF LocksExclusive, Compatible
  <2>1. CASE q # p /\ r # p
    BY <1>1, <1>5, <2>1 DEF LocksExclusive
  <2>2. CASE q = p
    BY <1>5, <2>2
  <2>3. CASE r = p
    <3>1. Compatible(m, l)
      BY <1>5, <2>3
    <3> QED
      BY <3>1 DEF Compatible
  <2> QED
    BY <2>1, <2>2, <2>3
<1>7. DecisionsHold'
  <2> SUFFICES ASSUME NEW q \in Handlers, txn'[q].view # NoView
               PROVE  (txn[q].next > Reads(txn[q]) /\ ViewHolds(txn[q]))'
    BY DEF DecisionsHold
  <2>1. CASE q = p
    BY <1>2, <1>3, <2>1 DEF ViewHolds, Reads
  <2>2. CASE q # p
    BY <1>2, <1>3, <2>2 DEF AccountingInv, DecisionsHold, ViewHolds, Reads
  <2> QED
    BY <2>1, <2>2
<1> QED
  BY <1>4, <1>6, <1>7 DEF AccountingInv

LEMMA RollbackStep ==
  ASSUME AccountingInv, NEW p \in Handlers, Rollback(p) PROVE AccountingInv'
<1>1. Idle \in Txn /\ Idle.op = "idle" /\ Idle.view = NoView /\ Idle.next = 1
  BY DEF Idle, Txn
<1>2. txn' = [txn EXCEPT ![p] = Idle] /\ UNCHANGED tables
  BY DEF Rollback, Finish
<1>3. txn'[p] = Idle
  BY <1>2 DEF AccountingInv, TypeOK
<1>4. Held(p)' = {}
  BY <1>1, <1>3 DEF Held
<1> QED
  BY <1>1, <1>2, <1>4, ControlStep

LEMMA BeginStep ==
  ASSUME AccountingInv, NEW p \in Handlers, NEW op, NEW data, Begin(p, op, data),
         \/ op = "record" /\ data \in Trade
         \/ op = "reverse" /\ data \in Reversal /\ trades[data.target] # NoTrade
         \/ op \in {"deposit", "reserve"} /\ data \in Posting
  PROVE  AccountingInv'
<1> DEFINE t == [op |-> op, data |-> data, view |-> NoView, next |-> 1]
<1>1. t \in Txn
  BY DEF Txn
<1>2. txn' = [txn EXCEPT ![p] = t] /\ UNCHANGED tables
  BY DEF Begin
<1>3. txn'[p] = t
  BY <1>2 DEF AccountingInv, TypeOK
<1>4. Held(p)' = {}
  BY <1>3 DEF Held
<1>5. t.view = NoView /\ (t.op = "reverse" => trades[t.data.target] # NoTrade)
  OBVIOUS
<1> HIDE DEF t
<1> QED
  BY <1>1, <1>2, <1>4, <1>5, ControlStep

LEMMA LockStep ==
  ASSUME AccountingInv, NEW p \in Handlers, Lock(p) PROVE AccountingInv'
<1> DEFINE t == [txn[p] EXCEPT !.next = @ + 1]
<1>1. txn[p] \in Txn /\ txn \in [Handlers -> Txn]
  BY DEF AccountingInv, TypeOK
<1>2. txn' = [txn EXCEPT ![p] = t] /\ UNCHANGED tables
  BY DEF Lock
<1>3. txn[p].next =< Len(Locks(txn[p]))
  BY DEF Lock, Waiting
<1>4. t \in Txn
  <2>1. CASE txn[p].op = "record"
    <3>1. txn[p].next =< 6
      BY <1>3, <2>1, PlanLength
    <3> QED
      BY <1>1, <2>1, <3>1 DEF Txn
  <2>2. CASE txn[p].op = "reverse"
    <3>1. txn[p].next =< 8
      BY <1>3, <2>2, PlanLength
    <3> QED
      BY <1>1, <2>2, <3>1 DEF Txn
  <2>3. CASE txn[p].op = "deposit"
    <3>1. txn[p].next =< 3
      BY <1>3, <2>3, PlanLength
    <3> QED
      BY <1>1, <2>3, <3>1 DEF Txn
  <2>4. CASE txn[p].op = "reserve"
    <3>1. txn[p].next =< 2
      BY <1>3, <2>4, PlanLength
    <3> QED
      BY <1>1, <2>4, <3>1 DEF Txn
  <2>5. txn[p].op # "idle"
    <3> SUFFICES ASSUME txn[p].op = "idle" PROVE FALSE
      OBVIOUS
    <3>1. txn[p].next =< 0
      BY <1>3, PlanLength
    <3> QED
      BY <1>1, <3>1, TxnKind
  <2> QED
    BY <1>1, <2>1, <2>2, <2>3, <2>4, <2>5, TxnKind
<1>5. /\ t.op = txn[p].op /\ t.data = txn[p].data /\ t.view = txn[p].view
      /\ t.next = txn[p].next + 1 /\ txn[p].next \in Nat \ {0}
  BY <1>1, TxnKind DEF Txn
<1>6. Locks(t) = Locks(txn[p]) /\ Reads(t) = Reads(txn[p])
      /\ (ViewHolds(t) <=> ViewHolds(txn[p])) /\ Reads(t) \in Nat
  BY <1>5 DEF Locks, Reads, ViewHolds
<1>7. t.op = "reverse" => trades[t.data.target] # NoTrade
  BY <1>5 DEF AccountingInv, TypeOK
<1>8. t.view # NoView => t.next > Reads(t) /\ ViewHolds(t)
  BY <1>5, <1>6 DEF AccountingInv, DecisionsHold
<1>9. txn'[p] = t
  BY <1>1, <1>2
<1> HIDE DEF t
<1>10. Held(p)' \subseteq Held(p) \cup {Wanted(p)}
  <2>1. Locks(txn[p])' = Locks(txn[p])
    BY <1>2, <1>5, <1>9 DEF Locks, tables
  <2>2. Held(p)' = {Locks(txn[p])[i] : i \in 1 .. txn[p].next}
    BY <1>5, <1>9, <2>1 DEF Held
  <2> QED
    BY <1>5, <2>2 DEF Held, Wanted
<1>11. ASSUME NEW q \in Handlers \ {p}, NEW l \in Held(p)', NEW m \in Held(q)
       PROVE  Compatible(l, m)
  <2>1. CASE l \in Held(p)
    BY <2>1 DEF AccountingInv, LocksExclusive
  <2>2. CASE l = Wanted(p)
    <3>1. Compatible(m, Wanted(p))
      BY DEF Lock, Blocks
    <3> QED
      BY <2>2, <3>1 DEF Compatible
  <2> QED
    BY <1>10, <2>1, <2>2
<1> QED
  BY <1>2, <1>4, <1>7, <1>8, <1>11, ControlStep

\* A decision that holds as it is taken.
LEMMA DecideStep ==
  ASSUME AccountingInv, NEW p \in Handlers, NEW op, NEW view,
         AtDecision(p, op), Decide(p, view),
         [txn[p] EXCEPT !.view = view] \in Txn,
         ViewHolds([txn[p] EXCEPT !.view = view])
  PROVE  AccountingInv'
<1> DEFINE t == [txn[p] EXCEPT !.view = view]
<1>1. txn[p] \in Txn /\ txn \in [Handlers -> Txn]
  BY DEF AccountingInv, TypeOK
<1>2. txn' = [txn EXCEPT ![p] = t] /\ UNCHANGED tables
  BY DEF Decide
<1>3. t.op = txn[p].op /\ t.data = txn[p].data /\ t.next = txn[p].next
  BY <1>1 DEF Txn
<1>4. Locks(t) = Locks(txn[p]) /\ Reads(t) = Reads(txn[p]) /\ Reads(t) \in Nat
  BY <1>3 DEF Locks, Reads
<1>5. t.op = "reverse" => trades[t.data.target] # NoTrade
  BY <1>3 DEF AccountingInv, TypeOK
<1>6. t.next > Reads(t) /\ ViewHolds(t)
  BY <1>3, <1>4 DEF AtDecision
<1>7. txn'[p] = t /\ t \in Txn
  BY <1>1, <1>2
<1> HIDE DEF t
<1>8. Held(p)' = Held(p)
  <2>1. Locks(txn[p])' = Locks(txn[p])
    BY <1>2, <1>3, <1>7 DEF Locks, tables
  <2> QED
    BY <1>3, <1>7, <2>1 DEF Held
<1>9. \A q \in Handlers \ {p} : \A l \in Held(p)', m \in Held(q) : Compatible(l, m)
  BY <1>8 DEF AccountingInv, LocksExclusive
<1> QED
  BY <1>2, <1>5, <1>6, <1>7, <1>9, ControlStep

-----------------------------------------------------------------------------
(* Commits are steps of the book *)

\* What a handler that commits has decided on.
LEMMA AtCommitFacts ==
  ASSUME AccountingInv, NEW p \in Handlers, NEW op, AtCommit(p, op),
         op \in {"record", "reverse", "deposit", "reserve"}
  PROVE  /\ txn[p] \in Txn /\ txn[p].op = op /\ txn[p].view # NoView
         /\ ViewHolds(txn[p])
         /\ txn[p].next \in Nat
         /\ op = "record" => txn[p].next > 6
         /\ op = "reverse" => txn[p].next > 8
         /\ op = "deposit" => txn[p].next > 3
         /\ op = "reserve" => txn[p].next > 2
<1>1. txn[p] \in Txn /\ txn[p].op = op /\ txn[p].view # NoView /\ ViewHolds(txn[p])
  BY DEF AccountingInv, TypeOK, DecisionsHold, AtCommit
<1>2. txn[p].next \in Nat
  BY <1>1, TxnKind
<1>3. ~(txn[p].next =< Len(Locks(txn[p])))
  BY DEF AtCommit, Waiting
<1> DEFINE n == txn[p].next
           len == Len(Locks(txn[p]))
<1>4. n \in Nat /\ ~(n =< len)
  BY <1>2, <1>3
<1>5. /\ op = "record" => len = 6
      /\ op = "reverse" => len = 8
      /\ op = "deposit" => len = 3
      /\ op = "reserve" => len = 2
  BY <1>1, PlanLength
<1> HIDE DEF n, len
<1>6. /\ op = "record" => n > 6
      /\ op = "reverse" => n > 8
      /\ op = "deposit" => n > 3
      /\ op = "reserve" => n > 2
  BY <1>4, <1>5
<1> QED
  BY <1>1, <1>2, <1>6 DEF n

LEMMA NoTradeIsNoRow == NoTrade \notin Row
BY NoTradeAssumption

LEMMA CommitRecordStep ==
  ASSUME IInv, NEW p \in Handlers, CommitRecord(p)
  PROVE  BookNext /\ Frame(p)
<1> DEFINE d == txn[p].data
<1>1. AtCommit(p, "record") /\ AccountingInv
  BY DEF CommitRecord, IInv
<1>2. /\ txn[p] \in Txn /\ txn[p].op = "record" /\ txn[p].next > 5
      /\ ViewHolds(txn[p])
  BY <1>1, AtCommitFacts
<1>3. /\ d \in Trade /\ d.user \in Users /\ d.base \in Assets /\ d.quote \in Assets
      /\ d.key \in TradeKeys /\ Sign(d) \in {1, -1} /\ QuoteTotal(d) \in Nat \ {0}
      /\ d.base # d.quote
  BY <1>2, TxnKind, TradeFields, QuoteTotalPositive
<1>4. txn[p].view = position[<<d.user, d.base>>] /\ CanRecord(balance, position, d)
  BY <1>2 DEF ViewHolds
<1>5. Record(d)
  BY <1>4 DEF CommitRecord, Record
<1>6. BookNext
  BY <1>3, <1>5 DEF BookNext
<1>7. /\ Exclusive(PortfolioRow(d.user)) \in Held(p)
      /\ Exclusive(AccountRow(d.user, d.quote)) \in Held(p)
      /\ Exclusive(AccountRow(d.user, d.base)) \in Held(p)
  BY <1>2, RecordHolds
<1>8. BookTypeOK
  BY <1>1 DEF AccountingInv, TypeOK
<1>9. ASSUME NEW u \in Users, NEW a \in Assets,
             balance'[<<u, a>>] # balance[<<u, a>>]
      PROVE  \E l \in Held(p) : l.row = AccountRow(u, a)
  <2>1. balance'[<<u, a>>] =
          balance[<<u, a>>] + IF u = d.user /\ a = d.base THEN Sign(d) * d.qty
                              ELSE IF u = d.user /\ a = d.quote
                              THEN -(Sign(d) * QuoteTotal(d)) ELSE 0
    BY <1>3, <1>5, <1>8, SettleMoves DEF Record, BookTypeOK
  <2>2. balance[<<u, a>>] \in Int
    BY <1>8, CustomerAccounts DEF BookTypeOK
  <2>3. u = d.user /\ a \in {d.base, d.quote}
    BY <1>9, <2>1, <2>2
  <2> QED
    BY <1>7, <2>3 DEF Exclusive
<1>10. ASSUME NEW u \in Users, NEW a \in Assets,
              position'[<<u, a>>] # position[<<u, a>>]
       PROVE  \E l \in Held(p) : l.row = PortfolioRow(u)
  <2>1. u = d.user
    BY <1>5, <1>8, <1>10, CustomerAccounts DEF Record, BookTypeOK
  <2> QED
    BY <1>7, <2>1 DEF Exclusive
<1>11. ASSUME NEW k \in TradeKeys, trades[k] # NoTrade
       PROVE  trades'[k] = trades[k]
  BY <1>3, <1>5, <1>8, <1>11 DEF Record, BookTypeOK
<1> QED
  BY <1>6, <1>9, <1>10, <1>11 DEF Frame

LEMMA CommitReverseStep ==
  ASSUME IInv, NEW p \in Handlers, CommitReverse(p)
  PROVE  BookNext /\ Frame(p)
<1> DEFINE r == txn[p].data
           original == txn[p].view
           d == original.data
<1>1. AtCommit(p, "reverse") /\ AccountingInv
  BY DEF CommitReverse, IInv
<1>2. /\ txn[p] \in Txn /\ txn[p].op = "reverse" /\ txn[p].next > 8 /\ txn[p].next > 3
      /\ ViewHolds(txn[p])
  BY <1>1, AtCommitFacts
<1>3. BookTypeOK
  BY <1>1 DEF AccountingInv, TypeOK
<1>4. r.key \in TradeKeys /\ r.target \in TradeKeys /\ trades[r.target] # NoTrade
  BY <1>1, <1>2, TxnKind DEF AccountingInv, TypeOK, Reversal
<1>5. original = trades[r.target] /\ CanReverse(balance, position, trades, r.target)
  BY <1>2 DEF ViewHolds
<1>6. original \in Row /\ d \in Trade
  BY <1>3, <1>4, <1>5 DEF BookTypeOK, Row
<1>7. /\ d.user \in Users /\ d.base \in Assets /\ d.quote \in Assets
      /\ -Sign(d) \in {1, -1} /\ QuoteTotal(d) \in Nat \ {0} /\ d.base # d.quote
  BY <1>6, TradeFields, QuoteTotalPositive
<1>8. Reverse(r.key, r.target)
  BY <1>4, <1>5 DEF CommitReverse, Reverse
<1>9. BookNext
  BY <1>4, <1>8 DEF BookNext
<1>10. /\ Exclusive(TradeRowOf(r.target)) \in Held(p)
       /\ Exclusive(PortfolioRow(d.user)) \in Held(p)
       /\ Shared(AccountRow(d.user, d.quote)) \in Held(p)
       /\ Shared(AccountRow(d.user, d.base)) \in Held(p)
  BY <1>2, <1>5, ReverseHolds
<1>11. ASSUME NEW u \in Users, NEW a \in Assets,
              balance'[<<u, a>>] # balance[<<u, a>>]
       PROVE  \E l \in Held(p) : l.row = AccountRow(u, a)
  <2>1. balance' = Settle(balance, d, -Sign(d))
    BY DEF CommitReverse
  <2>2. balance'[<<u, a>>] =
          balance[<<u, a>>] + IF u = d.user /\ a = d.base THEN (-Sign(d)) * d.qty
                              ELSE IF u = d.user /\ a = d.quote
                              THEN -((-Sign(d)) * QuoteTotal(d)) ELSE 0
    BY <1>3, <1>6, <1>7, <2>1, SettleMoves DEF BookTypeOK
  <2>3. balance[<<u, a>>] \in Int
    BY <1>3, CustomerAccounts DEF BookTypeOK
  <2>4. u = d.user /\ a \in {d.base, d.quote}
    BY <1>11, <2>2, <2>3
  <2> QED
    BY <1>10, <2>4 DEF Shared
<1>12. ASSUME NEW u \in Users, NEW a \in Assets,
              position'[<<u, a>>] # position[<<u, a>>]
       PROVE  \E l \in Held(p) : l.row = PortfolioRow(u)
  <2>1. position' = [position EXCEPT ![<<d.user, d.base>>] = original.before]
    BY DEF CommitReverse
  <2>2. u = d.user
    BY <1>3, <1>12, <2>1, CustomerAccounts DEF BookTypeOK
  <2> QED
    BY <1>10, <2>2 DEF Exclusive
<1>13. ASSUME NEW k \in TradeKeys, trades[k] # NoTrade
       PROVE  /\ trades'[k] # NoTrade
              /\ trades'[k].data = trades[k].data
              /\ trades'[k] # trades[k] => \E l \in Held(p) : l.row = TradeRowOf(k)
  <2>1. trades' = [trades EXCEPT ![r.target] = [original EXCEPT !.status = "reversed"],
                                 ![r.key] = ReversalRow(original, r.target, r.key)]
    BY <1>5 DEF CommitReverse
  <2>2. trades[r.key] = NoTrade
    BY DEF CommitReverse
  <2>3. CASE k = r.target
    <3>1. trades'[k] = [original EXCEPT !.status = "reversed"]
      BY <1>3, <1>4, <2>1, <2>2, <2>3, <1>13 DEF BookTypeOK
    <3>2. trades'[k] \in Row /\ trades'[k].data = trades[k].data
      BY <1>5, <1>6, <2>3, <3>1 DEF Row
    <3> QED
      BY <1>10, <2>3, <3>2, NoTradeIsNoRow DEF Exclusive
  <2>4. CASE k # r.target
    <3>1. trades'[k] = trades[k]
      BY <1>3, <1>13, <2>1, <2>2, <2>4 DEF BookTypeOK
    <3> QED
      BY <1>13, <3>1
  <2> QED
    BY <2>3, <2>4
<1> QED
  BY <1>9, <1>11, <1>12, <1>13 DEF Frame

LEMMA CommitPostingStep ==
  ASSUME IInv, NEW p \in Handlers, NEW op \in {"deposit", "reserve"}, CommitPosting(p, op)
  PROVE  [BookNext]_tables /\ Frame(p)
<1> DEFINE d == txn[p].data
<1>1. AtCommit(p, op) /\ AccountingInv
  BY DEF CommitPosting, IInv
<1>2. txn[p] \in Txn /\ txn[p].op = op /\ ViewHolds(txn[p])
      /\ (op = "deposit" => txn[p].next > 2) /\ (op = "reserve" => txn[p].next > 1)
  BY <1>1, AtCommitFacts
<1>3. BookTypeOK
  BY <1>1 DEF AccountingInv, TypeOK
<1>4. d.key \in LedgerKeys /\ d.user \in Users /\ d.asset \in Assets
      /\ d.amount \in LedgerAmounts /\ d.amount \in Nat
  BY <1>2, TxnKind DEF Posting
<1>5. op = "reserve" => d.amount =< balance[<<d.user, d.asset>>]
  BY <1>2 DEF ViewHolds
<1>6. Exclusive(AccountRow(d.user, d.asset)) \in Held(p)
  <2>1. \/ txn[p].op = "deposit" /\ txn[p].next > 2
        \/ txn[p].op = "reserve" /\ txn[p].next > 1
    BY <1>2
  <2> QED
    BY <1>2, <2>1, PostingHolds
<1>7. CASE d.key \in posted
  <2>1. UNCHANGED tables
    BY <1>7 DEF CommitPosting
  <2> QED
    BY <2>1 DEF tables, Frame
<1>8. CASE d.key \notin posted
  <2>1. \/ op = "deposit" /\ Deposit(d.key, d.user, d.asset, d.amount)
        \/ op = "reserve" /\ Reserve(d.key, d.user, d.asset, d.amount)
    <3>1. CASE op = "deposit"
      BY <1>8, <3>1 DEF CommitPosting, Deposit
    <3>2. CASE op = "reserve"
      <4>1. flows' = [flows EXCEPT ![<<d.user, d.asset>>] = @ - d.amount]
        <5>1. flows[<<d.user, d.asset>>] \in Int
          BY <1>3, <1>4 DEF BookTypeOK
        <5> QED
          BY <1>3, <1>4, <1>8, <3>2, <5>1 DEF CommitPosting, BookTypeOK
      <4> QED
        BY <1>5, <1>8, <3>2, <4>1 DEF CommitPosting, Reserve
    <3> QED
      BY <3>1, <3>2
  <2>2. BookNext
    <3> DEFINE ua == <<d.user, d.asset>>
    <3>1. ua \in Users \X Assets /\ ua[1] = d.user /\ ua[2] = d.asset
      BY <1>4
    <3> HIDE DEF ua
    <3> QED
      BY <1>4, <2>1, <3>1 DEF BookNext
  <2>3. UNCHANGED <<position, trades>>
    BY <1>8 DEF CommitPosting
  <2>4. ASSUME NEW u \in Users, NEW a \in Assets,
               balance'[<<u, a>>] # balance[<<u, a>>]
        PROVE  \E l \in Held(p) : l.row = AccountRow(u, a)
    <3>1. \/ balance' = Credit(balance, d.user, d.asset, d.amount)
          \/ balance' = Debit(balance, d.user, d.asset, d.amount)
      BY <2>1 DEF Deposit, Reserve
    <3>2. balance[<<u, a>>] \in Int
      BY <1>3, CustomerAccounts DEF BookTypeOK
    <3>3. \/ balance'[<<u, a>>] = balance[<<u, a>>] +
                 IF <<u, a>> = <<d.user, d.asset>> THEN d.amount ELSE 0
          \/ balance'[<<u, a>>] = balance[<<u, a>>] -
                 IF <<u, a>> = <<d.user, d.asset>> THEN d.amount ELSE 0
      BY <1>3, <1>4, <3>1, PostingMoves DEF BookTypeOK
    <3>4. u = d.user /\ a = d.asset
      BY <2>4, <3>2, <3>3
    <3> QED
      BY <1>6, <3>4 DEF Exclusive
  <2> QED
    BY <2>2, <2>3, <2>4 DEF Frame
<1> QED
  BY <1>7, <1>8

-----------------------------------------------------------------------------
(* The theorems *)

\* Every step of a handler is a step of the book or leaves the tables alone.
\* The same case split shows that it keeps the invariant.
LEMMA HandlerStep ==
  ASSUME IInv, NEW p \in Handlers, Arrive(p) \/ Progress(p) \/ Abort(p)
  PROVE  [BookNext]_tables /\ IInv'
<1>1. AccountingInv /\ BookInv /\ txn[p] \in Txn /\ txn \in [Handlers -> Txn]
  BY DEF IInv, AccountingInv, TypeOK, BookInv
<1>2. SUFFICES [BookNext]_tables /\ AccountingInv'
  <2>1. [BookNext]_tables => BookInv'
    BY <1>1, BookStep
  <2> QED
    BY <2>1 DEF IInv, BookInv
<1>3. ASSUME AccountingInv', UNCHANGED tables
      PROVE  [BookNext]_tables /\ AccountingInv'
  BY <1>3
<1>4. ASSUME [BookNext]_tables, Frame(p), Finish(p)
      PROVE  [BookNext]_tables /\ AccountingInv'
  <2>1. BookInv'
    BY <1>1, <1>4, BookStep
  <2> QED
    BY <1>1, <1>4, <2>1, CommitStep DEF BookInv
<1>5. CASE Rollback(p)
  BY <1>1, <1>3, <1>5, RollbackStep DEF Rollback
<1>6. CASE Arrive(p)
  <2>1. CASE \E d \in Trade : BeginRecord(p, d)
    BY <1>1, <1>3, <2>1, BeginStep DEF BeginRecord, Begin
  <2>2. CASE \E key, target \in TradeKeys : BeginReverse(p, key, target)
    <3>1. PICK key \in TradeKeys, target \in TradeKeys : BeginReverse(p, key, target)
      BY <2>2
    <3> DEFINE r == [key |-> key, target |-> target]
    <3>2. r \in Reversal /\ r.target = target
      BY DEF Reversal
    <3>3. Begin(p, "reverse", r) /\ trades[target] # NoTrade
      BY <3>1 DEF BeginReverse
    <3> HIDE DEF r
    <3>4. AccountingInv'
      BY <1>1, <3>2, <3>3, BeginStep
    <3> QED
      BY <1>3, <3>3, <3>4 DEF Begin
  <2>3. CASE \E d \in Posting : BeginDeposit(p, d) \/ BeginReserve(p, d)
    BY <1>1, <1>3, <2>3, BeginStep DEF BeginDeposit, BeginReserve, Begin
  <2> QED
    BY <1>6, <2>1, <2>2, <2>3 DEF Arrive
<1>7. CASE Lock(p)
  BY <1>1, <1>3, <1>7, LockStep DEF Lock
<1>8. CASE DecideRecord(p)
  <2> DEFINE d == txn[p].data
             view == position[<<d.user, d.base>>]
             t == [txn[p] EXCEPT !.view = view]
  <2>1. AtDecision(p, "record") /\ txn[p].op = "record"
    BY <1>8 DEF DecideRecord, AtDecision
  <2>2. CASE CanRecord(balance, position, d)
    <3>1. d \in Trade /\ view \in Position
      BY <1>1, <2>1, TxnKind, TradeFields, CustomerAccounts DEF BookInv, BookTypeOK
    <3>2. t \in Txn
      BY <1>1, <2>1, <3>1 DEF Txn
    <3>3. t.op = "record" /\ t.data = d /\ t.view = view
      BY <1>1, <2>1 DEF Txn
    <3>4. ViewHolds(t)
      BY <2>2, <3>3 DEF ViewHolds
    <3>5. Decide(p, view)
      BY <1>8, <2>2 DEF DecideRecord
    <3>6. AccountingInv'
      BY <1>1, <2>1, <3>2, <3>4, <3>5, DecideStep
    <3> QED
      BY <1>3, <3>5, <3>6 DEF Decide
  <2> QED
    BY <1>5, <1>8, <2>2 DEF DecideRecord
<1>9. CASE DecideReverse(p)
  <2> DEFINE r == txn[p].data
             view == trades[r.target]
             t == [txn[p] EXCEPT !.view = view]
  <2>1. AtDecision(p, "reverse") /\ txn[p].op = "reverse"
    BY <1>9 DEF DecideReverse, AtDecision
  <2>2. CASE trades[r.key] = NoTrade /\ CanReverse(balance, position, trades, r.target)
    <3>1. r \in Reversal /\ view # NoTrade
      BY <1>1, <2>1, TxnKind DEF AccountingInv, TypeOK
    <3>2. view \in Row
      BY <1>1, <3>1 DEF BookInv, BookTypeOK, Reversal
    <3>3. t \in Txn
      BY <1>1, <2>1, <3>2 DEF Txn
    <3>4. t.op = "reverse" /\ t.data = r /\ t.view = view
      BY <1>1, <2>1 DEF Txn
    <3>5. ViewHolds(t)
      BY <2>2, <3>4 DEF ViewHolds
    <3>6. Decide(p, view)
      BY <1>9, <2>2 DEF DecideReverse
    <3>7. AccountingInv'
      BY <1>1, <2>1, <3>3, <3>5, <3>6, DecideStep
    <3> QED
      BY <1>3, <3>6, <3>7 DEF Decide
  <2> QED
    BY <1>5, <1>9, <2>2 DEF DecideReverse
<1>10. ASSUME NEW op \in {"deposit", "reserve"}, AtDecision(p, op),
              Decide(p, txn[p].data.key),
              op = "reserve" =>
                txn[p].data.amount =< balance[<<txn[p].data.user, txn[p].data.asset>>]
       PROVE  [BookNext]_tables /\ AccountingInv'
  <2> DEFINE d == txn[p].data
             t == [txn[p] EXCEPT !.view = d.key]
  <2>1. txn[p].op = op
    BY <1>10 DEF AtDecision
  <2>2. d \in Posting /\ d.key \in LedgerKeys
    BY <1>1, <2>1, TxnKind DEF Posting
  <2>3. t \in Txn
    BY <1>1, <2>1, <2>2 DEF Txn
  <2>4. t.op = op /\ t.data = d
    BY <1>1, <2>1 DEF Txn
  <2>5. ViewHolds(t)
    BY <1>10, <2>4 DEF ViewHolds
  <2>6. AccountingInv'
    BY <1>1, <1>10, <2>3, <2>5, DecideStep
  <2> QED
    BY <1>3, <1>10, <2>6 DEF Decide
<1>11. CASE DecideDeposit(p)
  BY <1>10, <1>11 DEF DecideDeposit
<1>12. CASE DecideReserve(p)
  BY <1>5, <1>10, <1>12 DEF DecideReserve
<1>13. CASE CommitRecord(p)
  BY <1>4, <1>13, CommitRecordStep DEF CommitRecord
<1>14. CASE CommitReverse(p)
  BY <1>4, <1>14, CommitReverseStep DEF CommitReverse
<1>15. ASSUME NEW op \in {"deposit", "reserve"}, CommitPosting(p, op)
       PROVE  [BookNext]_tables /\ AccountingInv'
  BY <1>4, <1>15, CommitPostingStep DEF CommitPosting
<1>16. CASE Progress(p)
  BY <1>5, <1>7, <1>8, <1>9, <1>11, <1>12, <1>13, <1>14, <1>15, <1>16
     DEF Progress, LoseKeyRace
<1>17. CASE Abort(p)
  BY <1>5, <1>17 DEF Abort
<1> QED
  BY <1>6, <1>16, <1>17

LEMMA AccountingInit == Init => IInv
<1> SUFFICES ASSUME Init PROVE IInv
  OBVIOUS
<1>1. BookInv
  BY BookInit DEF Init
<1>2. Idle \in Txn /\ Idle.op = "idle" /\ Idle.view = NoView /\ Idle.next = 1
  BY DEF Idle, Txn
<1>3. \A p \in Handlers : txn[p] = Idle
  BY DEF Init
<1>4. TypeOK
  BY <1>1, <1>2, <1>3 DEF Init, TypeOK, BookInv
<1>5. \A p \in Handlers : Held(p) = {}
  BY <1>2, <1>3 DEF Held
<1>6. LocksExclusive /\ DecisionsHold
  BY <1>2, <1>3, <1>5 DEF LocksExclusive, DecisionsHold
<1> QED
  BY <1>1, <1>4, <1>6 DEF IInv, AccountingInv, BookInv

LEMMA AccountingStep == IInv /\ [Next]_vars => IInv' /\ [BookNext]_tables
<1> SUFFICES ASSUME IInv, [Next]_vars PROVE IInv' /\ [BookNext]_tables
  OBVIOUS
<1>1. CASE Next
  BY <1>1, HandlerStep DEF Next
<1>2. CASE UNCHANGED vars
  BY <1>2 DEF vars, tables, IInv, AccountingInv, TypeOK, BookTypeOK, NeverNegative,
              LocksExclusive, DecisionsHold, ViewHolds, Held, Locks, Reads
<1> QED
  BY <1>1, <1>2

\* The inductive invariant of the handlers: exclusive locks and decisions that
\* hold carry AccountsNeverNegative.
THEOREM Accounting == Spec => []IInv
BY AccountingInit, AccountingStep, PTL DEF Spec

\* Transactions stay well formed and no reversal is about a missing trade.
THEOREM AccountingTypeCorrect == Spec => []TypeOK
BY Accounting, PTL DEF IInv, AccountingInv

\* Locks exclude one another, and what a handler decided on under its locks is
\* still so when it commits.
THEOREM DecisionsStayValid == Spec => []AccountingInv
BY Accounting, PTL DEF IInv

\* Whatever trades, reversals, deposits and reservations run at once, no
\* customer account and no position goes below zero.
THEOREM AccountsNeverNegative == Spec => []NeverNegative
BY Accounting, PTL DEF IInv

\* The concurrent handlers implement the book: each commit is one operation of
\* the book in full, taken on the tables of that moment.
THEOREM AccountingRefinement == Spec => ImplementsBook
<1>1. Init => TablesInit
  BY DEF Init
<1> QED
  BY <1>1, Accounting, AccountingStep, PTL DEF Spec, ImplementsBook, BookSpec

\* The sums hold for the handlers too, however they interleave: a lost update of a
\* position or of a balance would break them.
THEOREM HandlersKeepSums == Spec => [](TradesExplainPositions /\ BalancesHold)
BY AccountingRefinement, TradesExplain, BalancesAlwaysHold, PTL DEF ImplementsBook

-----------------------------------------------------------------------------
(* Circles of handlers that wait for each other. Up to the first clearing   *)
(* account each wants a row that comes later, in one order of the rows,     *)
(* than the row it is waited for. So a circle has handlers that hold the    *)
(* clearing account of their quote and want on; each of them waits, or the  *)
(* deposit it waits for does, for another of them whose quote is its base.  *)

\* p waits for q, and the two have different keys.
WaitsFor(p, q) == Waiting(p) /\ Blocks(q, Wanted(p)) /\ txn[p].data.key # txn[q].data.key

\* The order of what a handler wants, from the trade row to the clearing accounts.
Rank(t) ==
  CASE t.op = "reverse" /\ t.next = 1 -> 1
    [] \/ t.op = "record" /\ t.next = 1
       \/ t.op = "reverse" /\ t.next = 2 -> 2
    [] t.op \in {"deposit", "reserve"} /\ t.next = 1 -> 3
    [] \/ t.op = "record" /\ t.next \in {2, 3}
       \/ t.op = "reverse" /\ t.next \in {3, 5} -> 4
    [] OTHER -> 5

\* A trade or a reversal that holds the clearing account of its quote, not yet that
\* of its base.
HoldsClearing(t) ==
  \/ t.op = "record" /\ t.next = 5
  \/ t.op = "reverse" /\ t.next \in {7, 8}

\* A trade or a reversal that holds its customer's portfolio.
HoldsPortfolio(t) ==
  \/ t.op = "record" /\ t.next > 1
  \/ t.op = "reverse" /\ t.next > 2

\* The rows of a plan.
RowAt(t, i) == Locks(t)[i].row

LEMMA RowsOfRecord ==
  ASSUME NEW t, t.op = "record"
  PROVE  /\ Len(Locks(t)) = 6
         /\ RowAt(t, 1) = PortfolioRow(TradeOf(t).user)
         /\ RowAt(t, 2) = AccountRow(TradeOf(t).user, TradeOf(t).quote)
         /\ RowAt(t, 3) = AccountRow(TradeOf(t).user, TradeOf(t).base)
         /\ RowAt(t, 4) = AccountRow(Clearing, TradeOf(t).quote)
         /\ RowAt(t, 5) = AccountRow(Clearing, TradeOf(t).base)
         /\ RowAt(t, 6) = TradeSlot(t.data.key)
<1>1. Locks(t) = RecordLocks(t.data) /\ TradeOf(t) = t.data /\ Len(Locks(t)) = 6
  BY PlanOf, PlanLength DEF TradeOf
<1>2. PICK d : d = t.data
  OBVIOUS
<1>3. /\ RecordLocks(d)[1] = Exclusive(PortfolioRow(d.user))
      /\ RecordLocks(d)[2] = Exclusive(AccountRow(d.user, d.quote))
      /\ RecordLocks(d)[3] = Exclusive(AccountRow(d.user, d.base))
      /\ RecordLocks(d)[4] = Exclusive(AccountRow(Clearing, d.quote))
      /\ RecordLocks(d)[5] = Exclusive(AccountRow(Clearing, d.base))
      /\ RecordLocks(d)[6] = Exclusive(TradeSlot(d.key))
  BY DEF RecordLocks
<1>4. \A row : Exclusive(row).row = row
  BY DEF Exclusive
<1> QED
  BY <1>1, <1>2, <1>3, <1>4 DEF RowAt

LEMMA RowsOfReverse ==
  ASSUME NEW t, t.op = "reverse"
  PROVE  /\ Len(Locks(t)) = 8
         /\ RowAt(t, 1) = TradeRowOf(t.data.target)
         /\ RowAt(t, 2) = PortfolioRow(TradeOf(t).user)
         /\ RowAt(t, 3) = AccountRow(TradeOf(t).user, Affected(TradeOf(t)))
         /\ RowAt(t, 4) = TradeSlot(t.data.key)
         /\ RowAt(t, 5) = AccountRow(TradeOf(t).user, TradeOf(t).quote)
         /\ RowAt(t, 6) = AccountRow(Clearing, TradeOf(t).quote)
         /\ RowAt(t, 7) = AccountRow(TradeOf(t).user, TradeOf(t).base)
         /\ RowAt(t, 8) = AccountRow(Clearing, TradeOf(t).base)
<1>1. PICK d, key, target : d = trades[t.data.target].data /\ key = t.data.key
                            /\ target = t.data.target
  OBVIOUS
<1>2. PICK plan : plan = ReverseLocks(key, target, d)
  OBVIOUS
<1>3. Locks(t) = plan /\ TradeOf(t) = d /\ Len(Locks(t)) = 8
  BY <1>1, <1>2, PlanOf, PlanLength DEF TradeOf
<1>4. /\ plan[1] = Exclusive(TradeRowOf(target))
      /\ plan[2] = Exclusive(PortfolioRow(d.user))
      /\ plan[3] = Exclusive(AccountRow(d.user, Affected(d)))
      /\ plan[4] = Exclusive(TradeSlot(key))
      /\ plan[5] = Shared(AccountRow(d.user, d.quote))
      /\ plan[6] = Shared(AccountRow(Clearing, d.quote))
      /\ plan[7] = Shared(AccountRow(d.user, d.base))
      /\ plan[8] = Shared(AccountRow(Clearing, d.base))
  BY <1>2 DEF ReverseLocks
<1>5. \A row : Exclusive(row).row = row /\ Shared(row).row = row
  BY DEF Exclusive, Shared
<1> QED
  BY <1>1, <1>3, <1>4, <1>5 DEF RowAt

LEMMA RowsOfDeposit ==
  ASSUME NEW t, t.op = "deposit"
  PROVE  /\ Len(Locks(t)) = 3
         /\ RowAt(t, 1) = AccountRow(t.data.user, t.data.asset)
         /\ RowAt(t, 2) = AccountRow(Clearing, t.data.asset)
         /\ RowAt(t, 3) = LedgerSlot(t.data.key)
BY PlanOf DEF RowAt, DepositLocks, Exclusive

LEMMA RowsOfReserve ==
  ASSUME NEW t, t.op = "reserve"
  PROVE  /\ Len(Locks(t)) = 2
         /\ RowAt(t, 1) = AccountRow(t.data.user, t.data.asset)
         /\ RowAt(t, 2) = LedgerSlot(t.data.key)
BY PlanOf DEF RowAt, ReserveLocks, Exclusive

\* Rows of different kinds are different rows.
LEMMA RowsDiffer ==
  /\ \A u, k, o, a : /\ PortfolioRow(u) # TradeRowOf(k) /\ PortfolioRow(u) # TradeSlot(k)
                     /\ PortfolioRow(u) # LedgerSlot(k) /\ TradeRowOf(u) # TradeSlot(k)
                     /\ TradeRowOf(u) # LedgerSlot(k) /\ TradeSlot(u) # LedgerSlot(k)
                     /\ AccountRow(o, a) # PortfolioRow(u) /\ AccountRow(o, a) # TradeRowOf(k)
                     /\ AccountRow(o, a) # TradeSlot(k) /\ AccountRow(o, a) # LedgerSlot(k)
  /\ \A u, v : /\ PortfolioRow(u) = PortfolioRow(v) => u = v
               /\ TradeRowOf(u) = TradeRowOf(v) => u = v
               /\ TradeSlot(u) = TradeSlot(v) => u = v
               /\ LedgerSlot(u) = LedgerSlot(v) => u = v
  /\ \A o, a, v, b : AccountRow(o, a) = AccountRow(v, b) => o = v /\ a = b
BY DEF PortfolioRow, TradeRowOf, TradeSlot, LedgerSlot, AccountRow

\* What a handler holds is an earlier row of its plan.
LEMMA HeldRow ==
  ASSUME NEW p, NEW q, Blocks(q, Wanted(p)), txn[q].next \in Nat
  PROVE  \E i \in 1 .. txn[q].next - 1 : RowAt(txn[q], i) = RowAt(txn[p], txn[p].next)
<1>1. PICK l \in Held(q) : ~Compatible(l, Wanted(p))
  BY DEF Blocks
<1>2. l.row = Wanted(p).row
  BY <1>1 DEF Compatible
<1> QED
  BY <1>1, <1>2 DEF Held, Wanted, RowAt

\* A handler at work: its operation, its place in the plan, and what it is about.
LEMMA AtWork ==
  ASSUME TypeOK, NEW p \in Handlers, Waiting(p), NEW t, t = txn[p]
  PROVE  /\ t.op \in {"record", "reverse", "deposit", "reserve"}
         /\ t.next \in Nat \ {0}
         /\ t.op = "record" => t.next \in {1, 2, 3, 4, 5, 6}
         /\ t.op = "reverse" => t.next \in {1, 2, 3, 4, 5, 6, 7, 8}
         /\ t.op = "deposit" => t.next \in {1, 2, 3}
         /\ t.op = "reserve" => t.next \in {1, 2}
         /\ t.op \in {"record", "reverse"} => TradeOf(t) \in Trade
         /\ t.op \in {"deposit", "reserve"} => t.data.user \in Users
<1>1. t \in Txn /\ (t.op = "reverse" => trades[t.data.target] # NoTrade)
  BY DEF TypeOK
<1>2. /\ t.op \in {"idle", "record", "reverse", "deposit", "reserve"} /\ t.next \in Nat \ {0}
      /\ t.op \in {"deposit", "reserve"} => t.data \in Posting
      /\ t.op = "record" => t.data \in Trade
      /\ t.op = "reverse" => t.data \in Reversal
  BY <1>1, TxnKind
<1>3. t.next <= Len(Locks(t))
  BY DEF Waiting
<1>4. PICK n : n = t.next
  OBVIOUS
<1>5. PICK length : length = Len(Locks(t))
  OBVIOUS
<1>6. /\ t.op = "record" => length = 6
      /\ t.op = "reverse" => length = 8
      /\ t.op = "deposit" => length = 3
      /\ t.op = "reserve" => length = 2
      /\ t.op = "idle" => length = 0
  BY <1>5, PlanLength
<1>7. n \in Nat \ {0} /\ n <= length
  BY <1>2, <1>3, <1>4, <1>5
<1>8. /\ t.op # "idle"
      /\ t.op = "record" => n \in {1, 2, 3, 4, 5, 6}
      /\ t.op = "reverse" => n \in {1, 2, 3, 4, 5, 6, 7, 8}
      /\ t.op = "deposit" => n \in {1, 2, 3}
      /\ t.op = "reserve" => n \in {1, 2}
  BY <1>6, <1>7
<1>9. t.op = "reverse" => TradeOf(t) \in Trade
  BY <1>1, <1>2 DEF TradeOf, Reversal, TypeOK, BookTypeOK, Row
<1>10. t.op = "record" => TradeOf(t) \in Trade
  BY <1>2 DEF TradeOf
<1>11. t.op \in {"deposit", "reserve"} => t.data.user \in Users
  BY <1>2 DEF Posting
<1> QED
  BY <1>2, <1>4, <1>8, <1>9, <1>10, <1>11

\* A row that a handler inserts has its own key.
LEMMA SlotsAreOwn ==
  ASSUME NEW t, t.op \in {"record", "reverse", "deposit", "reserve"}, NEW i \in Nat,
         1 <= i, i <= Len(Locks(t)), NEW k,
         RowAt(t, i) = TradeSlot(k) \/ RowAt(t, i) = LedgerSlot(k)
  PROVE  t.data.key = k
<1>1. CASE t.op = "record"
  <2>1. Len(Locks(t)) = 6
    BY <1>1, RowsOfRecord
  <2>2. i \in {1, 2, 3, 4, 5, 6}
    BY <2>1
  <2> QED
    BY <1>1, <2>2, RowsOfRecord, RowsDiffer
<1>2. CASE t.op = "reverse"
  <2>1. Len(Locks(t)) = 8
    BY <1>2, RowsOfReverse
  <2>2. i = 4 \/ i \in {1, 2, 3} \/ i \in {5, 6, 7, 8}
    BY <2>1
  <2>3. i \in {1, 2, 3} => RowAt(t, i) # TradeSlot(k) /\ RowAt(t, i) # LedgerSlot(k)
    BY <1>2, RowsOfReverse, RowsDiffer
  <2>4. i \in {5, 6, 7, 8} => \E o, a : RowAt(t, i) = AccountRow(o, a)
    BY <1>2, RowsOfReverse
  <2>5. i = 4 => RowAt(t, i) = TradeSlot(t.data.key)
    BY <1>2, RowsOfReverse
  <2> QED
    BY <2>2, <2>3, <2>4, <2>5, RowsDiffer
<1>3. CASE t.op = "deposit"
  <2>1. Len(Locks(t)) = 3
    BY <1>3, RowsOfDeposit
  <2>2. i \in {1, 2, 3}
    BY <2>1
  <2> QED
    BY <1>3, <2>2, RowsOfDeposit, RowsDiffer
<1>4. CASE t.op = "reserve"
  <2>1. Len(Locks(t)) = 2
    BY <1>4, RowsOfReserve
  <2>2. i \in {1, 2}
    BY <2>1
  <2> QED
    BY <1>4, <2>2, RowsOfReserve, RowsDiffer
<1> QED
  BY <1>1, <1>2, <1>3, <1>4

\* Who waits for a handler with another key does not wait to insert a row.
LEMMA NotForASlot ==
  ASSUME TypeOK, NEW p \in Handlers, NEW q \in Handlers, WaitsFor(p, q), Waiting(q)
  PROVE  /\ txn[p].op = "record" => txn[p].next # 6
         /\ txn[p].op = "reverse" => txn[p].next # 4
         /\ txn[p].op = "deposit" => txn[p].next # 3
         /\ txn[p].op = "reserve" => txn[p].next # 2
<1> DEFINE t == txn[p]
           w == txn[q]
<1>1. w.op \in {"record", "reverse", "deposit", "reserve"} /\ w.next \in Nat \ {0}
      /\ w.next <= Len(Locks(w)) /\ Len(Locks(w)) \in Nat
  BY AtWork, PlanLength DEF Waiting
<1>2. PICK i \in 1 .. w.next - 1 : RowAt(w, i) = RowAt(t, t.next)
  BY <1>1, HeldRow DEF WaitsFor
<1>3. i \in Nat /\ 1 <= i /\ i <= Len(Locks(w))
  BY <1>1, <1>2
<1>4. \A k : RowAt(t, t.next) = TradeSlot(k) \/ RowAt(t, t.next) = LedgerSlot(k) => w.data.key = k
  BY <1>1, <1>2, <1>3, SlotsAreOwn
<1>5. t.data.key # w.data.key
  BY DEF WaitsFor
<1> HIDE DEF t, w
<1> QED
  BY <1>4, <1>5, RowsOfRecord, RowsOfReverse, RowsOfDeposit, RowsOfReserve DEF t

\* What a handler wants, by its rank, and what it is about.
LEMMA WantedRow ==
  ASSUME TypeOK, NEW p \in Handlers, NEW t, t = txn[p], Waiting(p),
         NEW row, row = RowAt(t, t.next),
         /\ t.op = "record" => t.next # 6
         /\ t.op = "reverse" => t.next # 4
         /\ t.op = "deposit" => t.next # 3
         /\ t.op = "reserve" => t.next # 2
  PROVE  /\ ~HoldsClearing(t) =>
              \/ Rank(t) = 1 /\ row = TradeRowOf(t.data.target)
              \/ Rank(t) = 2 /\ row = PortfolioRow(TradeOf(t).user)
              \/ Rank(t) = 3 /\ row = AccountRow(t.data.user, t.data.asset) /\ t.data.user \in Users
              \/ /\ Rank(t) = 4 /\ TradeOf(t) \in Trade /\ HoldsPortfolio(t)
                 /\ \E a : row = AccountRow(TradeOf(t).user, a)
              \/ Rank(t) = 5 /\ \E a : row = AccountRow(Clearing, a)
         /\ HoldsClearing(t) =>
              /\ TradeOf(t) \in Trade /\ HoldsPortfolio(t) /\ OnTrade(t)
              /\ \/ row = AccountRow(Clearing, TradeOf(t).base)
                 \/ row = AccountRow(TradeOf(t).user, TradeOf(t).base)
<1>1. /\ t.op \in {"record", "reverse", "deposit", "reserve"}
      /\ t.op = "record" => t.next \in {1, 2, 3, 4, 5, 6}
      /\ t.op = "reverse" => t.next \in {1, 2, 3, 4, 5, 6, 7, 8}
      /\ t.op = "deposit" => t.next \in {1, 2, 3}
      /\ t.op = "reserve" => t.next \in {1, 2}
      /\ t.op \in {"record", "reverse"} => TradeOf(t) \in Trade
      /\ t.op \in {"deposit", "reserve"} => t.data.user \in Users
  BY AtWork
<1>2. CASE t.op = "record"
  BY <1>1, <1>2, RowsOfRecord DEF Rank, HoldsPortfolio, HoldsClearing, OnTrade
<1>3. CASE t.op = "reverse"
  BY <1>1, <1>3, RowsOfReverse DEF Rank, HoldsPortfolio, HoldsClearing, OnTrade
<1>4. CASE t.op = "deposit"
  BY <1>1, <1>4, RowsOfDeposit DEF Rank, HoldsClearing
<1>5. CASE t.op = "reserve"
  BY <1>1, <1>5, RowsOfReserve DEF Rank, HoldsClearing
<1> QED
  BY <1>1, <1>2, <1>3, <1>4, <1>5

\* What a handler that holds a row goes on to want.
LEMMA HolderWants ==
  ASSUME TypeOK, NEW q \in Handlers, NEW t, t = txn[q], Waiting(q),
         NEW i \in 1 .. t.next - 1, NEW row, row = RowAt(t, i),
         /\ t.op = "record" => t.next # 6
         /\ t.op = "reverse" => t.next # 4
         /\ t.op = "deposit" => t.next # 3
         /\ t.op = "reserve" => t.next # 2
  PROVE  /\ Rank(t) \in 2 .. 5
         /\ \A u : row = PortfolioRow(u) => Rank(t) >= 4
         /\ \A u \in Users : \A a : row = AccountRow(u, a) =>
              \/ HoldsPortfolio(t) /\ TradeOf(t).user = u /\ Rank(t) >= 4
              \/ /\ t.op = "deposit" /\ Rank(t) = 5
                 /\ RowAt(t, t.next) = AccountRow(Clearing, a)
         /\ \A a : row = AccountRow(Clearing, a) => HoldsClearing(t) /\ TradeOf(t).quote = a
<1>1. /\ t.op \in {"record", "reverse", "deposit", "reserve"}
      /\ t.next \in Nat
      /\ t.op = "record" => t.next \in {1, 2, 3, 4, 5, 6}
      /\ t.op = "reverse" => t.next \in {1, 2, 3, 4, 5, 6, 7, 8}
      /\ t.op = "deposit" => t.next \in {1, 2, 3}
      /\ t.op = "reserve" => t.next \in {1, 2}
      /\ t.op \in {"record", "reverse"} => TradeOf(t) \in Trade
      /\ t.op \in {"deposit", "reserve"} => t.data.user \in Users
  BY AtWork
<1>2. \A d \in Trade : d.user \in Users
  BY DEF Trade
<1>3. \A u \in Users : u # Clearing
  BY TradeConstants
<1>4. CASE t.op = "record"
  <2>1. \/ t.next \in {2, 3} /\ i \in {1, 2} /\ Rank(t) = 4
        \/ t.next = 4 /\ i \in {1, 2, 3} /\ Rank(t) = 5
        \/ t.next = 5 /\ i \in {1, 2, 3, 4} /\ Rank(t) = 5 /\ HoldsClearing(t)
    BY <1>1, <1>4 DEF Rank, HoldsClearing
  <2>2. \/ i = 1 /\ row = PortfolioRow(TradeOf(t).user)
        \/ i \in {2, 3} /\ \E a : row = AccountRow(TradeOf(t).user, a)
        \/ i = 4 /\ row = AccountRow(Clearing, TradeOf(t).quote)
    BY <1>4, <2>1, RowsOfRecord
  <2> QED
    BY <1>1, <1>2, <1>3, <1>4, <2>1, <2>2, RowsDiffer DEF HoldsPortfolio
<1>5. CASE t.op = "reverse"
  <2>1. \/ t.next = 2 /\ i = 1 /\ Rank(t) = 2
        \/ t.next = 3 /\ i \in {1, 2} /\ Rank(t) = 4
        \/ t.next = 5 /\ i \in {1, 2, 3, 4} /\ Rank(t) = 4
        \/ t.next = 6 /\ i \in {1, 2, 3, 4, 5} /\ Rank(t) = 5
        \/ t.next \in {7, 8} /\ i \in {1, 2, 3, 4, 5, 6, 7} /\ Rank(t) = 5 /\ HoldsClearing(t)
    BY <1>1, <1>5 DEF Rank, HoldsClearing
  <2>2. \/ i = 1 /\ row = TradeRowOf(t.data.target)
        \/ i = 2 /\ row = PortfolioRow(TradeOf(t).user)
        \/ i \in {3, 5, 7} /\ \E a : row = AccountRow(TradeOf(t).user, a)
        \/ i = 4 /\ row = TradeSlot(t.data.key)
        \/ i = 6 /\ row = AccountRow(Clearing, TradeOf(t).quote)
    BY <1>5, <2>1, RowsOfReverse
  <2> QED
    BY <1>1, <1>2, <1>3, <1>5, <2>1, <2>2, RowsDiffer DEF HoldsPortfolio
<1>6. CASE t.op = "deposit"
  <2>1. t.next = 2 /\ i = 1 /\ Rank(t) = 5
    BY <1>1, <1>6 DEF Rank
  <2>2. /\ row = AccountRow(t.data.user, t.data.asset)
        /\ RowAt(t, t.next) = AccountRow(Clearing, t.data.asset)
    BY <1>6, <2>1, RowsOfDeposit
  <2> QED
    BY <1>1, <1>3, <1>6, <2>1, <2>2, RowsDiffer
<1>7. CASE t.op = "reserve"
  BY <1>1, <1>7
<1> QED
  BY <1>1, <1>4, <1>5, <1>6, <1>7

\* Two handlers at work on trades are about trades of different customers.
LEMMA OnePerPortfolio ==
  ASSUME TypeOK, LocksExclusive, NEW p \in Handlers, NEW q \in Handlers, p # q,
         NEW t, t = txn[p], NEW w, w = txn[q], HoldsPortfolio(t), HoldsPortfolio(w)
  PROVE  TradeOf(t).user # TradeOf(w).user
<1>1. \A x \in Handlers : HoldsPortfolio(txn[x]) =>
        Exclusive(PortfolioRow(TradeOf(txn[x]).user)) \in Held(x)
  <2> SUFFICES ASSUME NEW x \in Handlers, HoldsPortfolio(txn[x])
               PROVE  Exclusive(PortfolioRow(TradeOf(txn[x]).user)) \in Held(x)
    OBVIOUS
  <2>1. txn[x].next \in Nat
    BY TxnKind DEF TypeOK
  <2>2. CASE txn[x].op = "record" /\ txn[x].next > 1
    <3>1. Locks(txn[x])[1] \in Held(x)
      BY <2>1, <2>2, HeldIndex
    <3>2. TradeOf(txn[x]) = txn[x].data /\ Locks(txn[x]) = RecordLocks(txn[x].data)
      BY <2>2, PlanOf DEF TradeOf
    <3> QED
      BY <3>1, <3>2 DEF RecordLocks
  <2>3. CASE txn[x].op = "reverse" /\ txn[x].next > 2
    <3>1. Locks(txn[x])[2] \in Held(x)
      BY <2>1, <2>3, HeldIndex
    <3>2. /\ TradeOf(txn[x]) = trades[txn[x].data.target].data
          /\ Locks(txn[x]) = ReverseLocks(txn[x].data.key, txn[x].data.target, TradeOf(txn[x]))
      BY <2>3, PlanOf DEF TradeOf
    <3> QED
      BY <3>1, <3>2 DEF ReverseLocks
  <2> QED
    BY <2>2, <2>3 DEF HoldsPortfolio
<1>2. Exclusive(PortfolioRow(TradeOf(t).user)) \in Held(p)
  BY <1>1
<1>3. Exclusive(PortfolioRow(TradeOf(w).user)) \in Held(q)
  BY <1>1
<1>4. ~ \E l \in Held(p) : l.row = PortfolioRow(TradeOf(w).user)
  BY <1>3, ExclusiveRow
<1> QED
  BY <1>2, <1>4 DEF Exclusive

\* Whoever is waited for, and waits, wants something that comes later, as long as
\* neither has come to the clearing accounts.
LEMMA RankGrows ==
  ASSUME TypeOK, LocksExclusive,
         NEW p \in Handlers, NEW q \in Handlers, NEW r \in Handlers, p # q,
         WaitsFor(p, q), WaitsFor(q, r), Waiting(r),
         ~HoldsClearing(txn[p]), ~HoldsClearing(txn[q])
  PROVE  /\ Rank(txn[p]) \in 1 .. 5 /\ Rank(txn[q]) \in 1 .. 5
         /\ Rank(txn[p]) < Rank(txn[q])
<1>1. PICK t, w : t = txn[p] /\ w = txn[q]
  OBVIOUS
<1>2. Waiting(p) /\ Waiting(q)
  BY DEF WaitsFor
<1>3. PICK row : row = RowAt(t, t.next)
  OBVIOUS
<1>4. w.next \in Nat
  BY <1>1, <1>2, AtWork
<1>5. PICK i \in 1 .. w.next - 1 : row = RowAt(w, i)
  BY <1>1, <1>3, <1>4, HeldRow DEF WaitsFor
<1>6. /\ t.op = "record" => t.next # 6
      /\ t.op = "reverse" => t.next # 4
      /\ t.op = "deposit" => t.next # 3
      /\ t.op = "reserve" => t.next # 2
  BY <1>1, <1>2, NotForASlot
<1>7. /\ w.op = "record" => w.next # 6
      /\ w.op = "reverse" => w.next # 4
      /\ w.op = "deposit" => w.next # 3
      /\ w.op = "reserve" => w.next # 2
  BY <1>1, <1>2, NotForASlot
<1>8. \/ Rank(t) = 1 /\ row = TradeRowOf(t.data.target)
      \/ Rank(t) = 2 /\ row = PortfolioRow(TradeOf(t).user)
      \/ Rank(t) = 3 /\ row = AccountRow(t.data.user, t.data.asset) /\ t.data.user \in Users
      \/ /\ Rank(t) = 4 /\ TradeOf(t) \in Trade /\ HoldsPortfolio(t)
         /\ \E a : row = AccountRow(TradeOf(t).user, a)
      \/ Rank(t) = 5 /\ \E a : row = AccountRow(Clearing, a)
  BY <1>1, <1>2, <1>3, <1>6, WantedRow
<1>9. /\ Rank(w) \in 2 .. 5
      /\ \A u : row = PortfolioRow(u) => Rank(w) >= 4
      /\ \A u \in Users : \A a : row = AccountRow(u, a) =>
           \/ HoldsPortfolio(w) /\ TradeOf(w).user = u /\ Rank(w) >= 4
           \/ /\ w.op = "deposit" /\ Rank(w) = 5
              /\ RowAt(w, w.next) = AccountRow(Clearing, a)
      /\ \A a : row = AccountRow(Clearing, a) => HoldsClearing(w) /\ TradeOf(w).quote = a
  BY <1>1, <1>2, <1>5, <1>7, HolderWants
<1>10. \A d \in Trade : d.user \in Users
  BY DEF Trade
<1>11. HoldsPortfolio(t) /\ HoldsPortfolio(w) => TradeOf(t).user # TradeOf(w).user
  BY <1>1, OnePerPortfolio
<1>12. PICK m, n : m = Rank(t) /\ n = Rank(w)
  OBVIOUS
<1>13. n \in 2 .. 5
  BY <1>9, <1>12
<1>14. m \in {1, 2, 3, 4}
  BY <1>1, <1>8, <1>9, <1>12
<1>15. m \in {2, 3} => n >= 4
  BY <1>8, <1>9, <1>12
<1>16. m = 4 => n = 5
  BY <1>8, <1>9, <1>10, <1>11, <1>12
<1> QED
  BY <1>1, <1>12, <1>13, <1>14, <1>15, <1>16

\* Who holds the clearing account of its quote waits, itself or by way of a deposit,
\* for a handler that holds the clearing account of its own quote, which is the base
\* of the first.
LEMMA BaseIsQuote ==
  ASSUME TypeOK, LocksExclusive,
         NEW p \in Handlers, NEW q \in Handlers, NEW r \in Handlers, NEW s \in Handlers, p # q,
         WaitsFor(p, q), WaitsFor(q, r), WaitsFor(r, s), Waiting(s), HoldsClearing(txn[p])
  PROVE  /\ OnTrade(txn[p]) /\ TradeOf(txn[p]) \in Trade
         /\ \/ HoldsClearing(txn[q]) /\ TradeOf(txn[q]).quote = TradeOf(txn[p]).base
            \/ HoldsClearing(txn[r]) /\ TradeOf(txn[r]).quote = TradeOf(txn[p]).base
<1>1. PICK t, w, v : t = txn[p] /\ w = txn[q] /\ v = txn[r]
  OBVIOUS
<1>2. Waiting(p) /\ Waiting(q) /\ Waiting(r)
  BY DEF WaitsFor
<1>3. PICK row, next : row = RowAt(t, t.next) /\ next = RowAt(w, w.next)
  OBVIOUS
<1>4. w.next \in Nat /\ v.next \in Nat
  BY <1>1, <1>2, AtWork
<1>5. PICK i \in 1 .. w.next - 1 : row = RowAt(w, i)
  BY <1>1, <1>3, <1>4, HeldRow DEF WaitsFor
<1>6. PICK j \in 1 .. v.next - 1 : next = RowAt(v, j)
  BY <1>1, <1>3, <1>4, HeldRow DEF WaitsFor
<1>7. /\ t.op = "record" => t.next # 6
      /\ t.op = "reverse" => t.next # 4
      /\ t.op = "deposit" => t.next # 3
      /\ t.op = "reserve" => t.next # 2
  BY <1>1, <1>2, NotForASlot
<1>8. /\ w.op = "record" => w.next # 6
      /\ w.op = "reverse" => w.next # 4
      /\ w.op = "deposit" => w.next # 3
      /\ w.op = "reserve" => w.next # 2
  BY <1>1, <1>2, NotForASlot
<1>9. /\ v.op = "record" => v.next # 6
      /\ v.op = "reverse" => v.next # 4
      /\ v.op = "deposit" => v.next # 3
      /\ v.op = "reserve" => v.next # 2
  BY <1>1, <1>2, NotForASlot
<1>10. /\ TradeOf(t) \in Trade /\ HoldsPortfolio(t) /\ OnTrade(t)
       /\ \/ row = AccountRow(Clearing, TradeOf(t).base)
          \/ row = AccountRow(TradeOf(t).user, TradeOf(t).base)
  BY <1>1, <1>2, <1>3, <1>7, WantedRow
<1>11. /\ \A u \in Users : \A a : row = AccountRow(u, a) =>
            \/ HoldsPortfolio(w) /\ TradeOf(w).user = u
            \/ RowAt(w, w.next) = AccountRow(Clearing, a)
       /\ \A a : row = AccountRow(Clearing, a) => HoldsClearing(w) /\ TradeOf(w).quote = a
  BY <1>1, <1>2, <1>5, <1>8, HolderWants
<1>12. /\ Rank(v) \in 2 .. 5
       /\ \A u : next = PortfolioRow(u) => Rank(v) >= 4
       /\ \A a : next = AccountRow(Clearing, a) => HoldsClearing(v) /\ TradeOf(v).quote = a
  BY <1>1, <1>2, <1>6, <1>9, HolderWants
<1>13. HoldsPortfolio(t) /\ HoldsPortfolio(w) => TradeOf(t).user # TradeOf(w).user
  BY <1>1, OnePerPortfolio
<1>14. TradeOf(t).user \in Users
  BY <1>10 DEF Trade
<1>15. \/ HoldsClearing(w) /\ TradeOf(w).quote = TradeOf(t).base
       \/ HoldsClearing(v) /\ TradeOf(v).quote = TradeOf(t).base
  <2>1. CASE row = AccountRow(Clearing, TradeOf(t).base)
    BY <1>11, <2>1
  <2>2. CASE row = AccountRow(TradeOf(t).user, TradeOf(t).base)
    <3>1. RowAt(w, w.next) = AccountRow(Clearing, TradeOf(t).base)
      BY <1>10, <1>11, <1>13, <1>14, <2>2
    <3> QED
      BY <1>3, <1>12, <3>1
  <2> QED
    BY <1>10, <2>1, <2>2
<1>16. \/ HoldsClearing(txn[q]) /\ TradeOf(txn[q]).quote = TradeOf(txn[p]).base
       \/ HoldsClearing(txn[r]) /\ TradeOf(txn[r]).quote = TradeOf(txn[p]).base
  BY <1>1, <1>15
<1>17. OnTrade(txn[p]) /\ TradeOf(txn[p]) \in Trade
  BY <1>1, <1>10
<1> QED
  BY <1>16, <1>17

\* Ranks are bounded, so a circle comes to the clearing accounts; the bases of the
\* handlers that hold one are quotes of such handlers.
LEMMA NoCircle ==
  ASSUME TypeOK, LocksExclusive
  PROVE  NoWaitCycle
<1> SUFFICES ASSUME NEW S \in SUBSET Handlers, S # {},
                    \A p \in S : \E q \in S \ {p} :
                      Waiting(p) /\ Blocks(q, Wanted(p)) /\ txn[p].data.key # txn[q].data.key
             PROVE  PairsGoRound(S)
  BY DEF NoWaitCycle
<1>1. \A p \in S : \E q \in S \ {p} : WaitsFor(p, q)
  BY DEF WaitsFor
<1>2. \A p \in S : Waiting(p)
  BY <1>1 DEF WaitsFor
<1>3. \E p \in S : HoldsClearing(txn[p])
  <2> SUFFICES ASSUME \A p \in S : ~HoldsClearing(txn[p]) PROVE FALSE
    OBVIOUS
  <2>1. ASSUME NEW p \in S
        PROVE  \E q \in S : /\ Rank(txn[p]) \in 1 .. 5 /\ Rank(txn[q]) \in 1 .. 5
                            /\ Rank(txn[p]) < Rank(txn[q])
    <3>1. PICK q \in S \ {p} : WaitsFor(p, q)
      BY <1>1
    <3>2. PICK r \in S \ {q} : WaitsFor(q, r)
      BY <1>1, <3>1
    <3>3. Waiting(r)
      BY <1>2, <3>2
    <3> QED
      BY <3>1, <3>2, <3>3, RankGrows
  <2> DEFINE At(n) == \E x \in S : Rank(txn[x]) \in 1 .. 5 /\ Rank(txn[x]) >= n
  <2>2. At(1)
    <3>1. PICK p \in S : TRUE
      OBVIOUS
    <3>2. Rank(txn[p]) \in 1 .. 5
      BY <2>1
    <3> QED
      BY <3>2
  <2>3. ASSUME NEW n \in Nat, At(n)
        PROVE  At(n + 1)
    <3>1. PICK x \in S : Rank(txn[x]) \in 1 .. 5 /\ Rank(txn[x]) >= n
      BY <2>3
    <3>2. PICK q \in S : /\ Rank(txn[x]) \in 1 .. 5 /\ Rank(txn[q]) \in 1 .. 5
                         /\ Rank(txn[x]) < Rank(txn[q])
      BY <2>1
    <3>3. Rank(txn[q]) >= n + 1
      BY <3>1, <3>2
    <3> QED
      BY <3>2, <3>3
  <2> HIDE DEF At
  <2>4. At(6)
    <3>1. At(2)
      BY <2>2, <2>3
    <3>2. At(3)
      BY <2>3, <3>1
    <3>3. At(4)
      BY <2>3, <3>2
    <3>4. At(5)
      BY <2>3, <3>3
    <3> QED
      BY <2>3, <3>4
  <2> QED
    BY <2>4 DEF At
<1>4. ASSUME NEW p \in S, HoldsClearing(txn[p])
      PROVE  /\ OnTrade(txn[p]) /\ TradeOf(txn[p]) \in Trade
             /\ \E x \in S : HoldsClearing(txn[x]) /\ TradeOf(txn[x]).quote = TradeOf(txn[p]).base
  <2>1. PICK q \in S \ {p} : WaitsFor(p, q)
    BY <1>1
  <2>2. PICK r \in S \ {q} : WaitsFor(q, r)
    BY <1>1, <2>1
  <2>3. PICK s \in S \ {r} : WaitsFor(r, s)
    BY <1>1, <2>2
  <2>4. Waiting(s)
    BY <1>2, <2>3
  <2>5. /\ OnTrade(txn[p]) /\ TradeOf(txn[p]) \in Trade
        /\ \/ HoldsClearing(txn[q]) /\ TradeOf(txn[q]).quote = TradeOf(txn[p]).base
           \/ HoldsClearing(txn[r]) /\ TradeOf(txn[r]).quote = TradeOf(txn[p]).base
    BY <1>4, <2>1, <2>2, <2>3, <2>4, BaseIsQuote
  <2> QED
    BY <2>5
<1>5. PICK T : T = {a \in Assets : \E p \in S : HoldsClearing(txn[p]) /\ TradeOf(txn[p]).base = a}
  OBVIOUS
<1>6. ASSUME NEW p \in S, HoldsClearing(txn[p])
      PROVE  TradeOf(txn[p]).base \in T
  <2>1. TradeOf(txn[p]).base \in Assets
    BY <1>4, <1>6 DEF Trade
  <2> QED
    BY <1>5, <1>6, <2>1
<1>7. T \in (SUBSET Assets) \ {{}}
  <2>1. T \subseteq Assets
    BY <1>5
  <2>2. T # {}
    BY <1>3, <1>6
  <2> QED
    BY <2>1, <2>2
<1>8. ASSUME NEW a \in T
      PROVE  \E p \in S : /\ OnTrade(txn[p]) /\ TradeOf(txn[p]).quote = a
                          /\ TradeOf(txn[p]).base \in T
  <2>1. PICK p \in S : HoldsClearing(txn[p]) /\ TradeOf(txn[p]).base = a
    BY <1>5, <1>8
  <2>2. PICK x \in S : HoldsClearing(txn[x]) /\ TradeOf(txn[x]).quote = a
    BY <1>4, <2>1
  <2>3. OnTrade(txn[x]) /\ TradeOf(txn[x]).base \in T
    BY <1>4, <1>6, <2>2
  <2> QED
    BY <2>2, <2>3
<1> QED
  BY <1>7, <1>8 DEF PairsGoRound

\* Trades, reversals, deposits and reservations of any customers, on any pairs, wait
\* for each other in a circle only if they have a key in common or the pairs they
\* trade on go round: the lock orders of TradeAccountingService and LedgerService
\* agree on every row but the clearing accounts of such pairs.
THEOREM NoHandlersInACircle == Spec => []NoWaitCycle
<1>1. IInv => NoWaitCycle
  BY NoCircle DEF IInv, AccountingInv
<1> QED
  BY <1>1, Accounting, PTL

=============================================================================
