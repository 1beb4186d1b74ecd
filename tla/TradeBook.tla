------------------------------ MODULE TradeBook ------------------------------
(***************************************************************************)
(* What founder accounting promises: trades, reversals, deposits and       *)
(* reservations take effect one at a time, each on the tables as they are  *)
(* at that moment, in full or not at all.                                  *)
(***************************************************************************)
EXTENDS TradeRules

VARIABLES
  balance,    \* [Accounts -> Int]
  position,   \* [Users \X Assets -> Position]
  trades,     \* [TradeKeys -> Row \cup {NoTrade}]
  posted,     \* the keys of LedgerKeys with a posted transaction
  flows       \* [Users \X Assets -> Int]: net deposits less reservations

tables == <<balance, position, trades, posted, flows>>

\* Portfolios, positions and accounts are there, opened by an earlier,
\* reversed trade: the first use of an asset is a case of its own.
TablesInit ==
  /\ balance = InitialFunds
  /\ position = [ub \in Users \X Assets |-> EmptyPosition]
  /\ trades = [k \in TradeKeys |-> NoTrade]
  /\ posted = {}
  /\ flows = [ua \in Users \X Assets |-> InitialFunds[ua]]

Record(d) ==
  LET before == position[<<d.user, d.base>>]
  IN  /\ trades[d.key] = NoTrade
      /\ CanRecord(balance, position, d)
      /\ trades' = [trades EXCEPT ![d.key] = TradeRow(d, before)]
      /\ balance' = Settle(balance, d, Sign(d))
      /\ position' = [position EXCEPT ![<<d.user, d.base>>] = After(before, d)]
      /\ UNCHANGED <<posted, flows>>

\* Faulty variant: the position is not put back.
ReverseLedgerOnly(key, target) ==
  LET original == trades[target]
      d == original.data
  IN  /\ trades[key] = NoTrade
      /\ original # NoTrade
      /\ CanReverse(balance, position, trades, target)
      /\ trades' = [trades EXCEPT ![target].status = "reversed",
                                  ![key] = ReversalRow(original, target, key)]
      /\ balance' = Settle(balance, d, -Sign(d))
      /\ UNCHANGED <<position, posted, flows>>

Reverse(key, target) ==
  LET original == trades[target]
      d == original.data
  IN  /\ trades[key] = NoTrade
      /\ original # NoTrade
      /\ CanReverse(balance, position, trades, target)
      /\ trades' = [trades EXCEPT ![target].status = "reversed",
                                  ![key] = ReversalRow(original, target, key)]
      /\ balance' = Settle(balance, d, -Sign(d))
      /\ position' = [position EXCEPT ![<<d.user, d.base>>] = original.before]
      /\ UNCHANGED <<posted, flows>>

\* Faulty variant: a key that is already posted is posted again.
DepositAgain(key, user, asset, amount) ==
  /\ posted' = posted \cup {key}
  /\ balance' = Credit(balance, user, asset, amount)
  /\ flows' = [flows EXCEPT ![<<user, asset>>] = @ + IF key \in posted THEN 0 ELSE amount]
  /\ UNCHANGED <<position, trades>>

Deposit(key, user, asset, amount) ==
  /\ key \notin posted
  /\ posted' = posted \cup {key}
  /\ balance' = Credit(balance, user, asset, amount)
  /\ flows' = [flows EXCEPT ![<<user, asset>>] = @ + amount]
  /\ UNCHANGED <<position, trades>>

\* Faulty variant: the available bucket is not compared with the amount.
ReserveUnchecked(key, user, asset, amount) ==
  /\ key \notin posted
  /\ posted' = posted \cup {key}
  /\ balance' = Debit(balance, user, asset, amount)
  /\ flows' = [flows EXCEPT ![<<user, asset>>] = @ - amount]
  /\ UNCHANGED <<position, trades>>

Reserve(key, user, asset, amount) ==
  /\ key \notin posted
  /\ amount =< balance[<<user, asset>>]
  /\ posted' = posted \cup {key}
  /\ balance' = Debit(balance, user, asset, amount)
  /\ flows' = [flows EXCEPT ![<<user, asset>>] = @ - amount]
  /\ UNCHANGED <<position, trades>>

BookNext ==
  \/ \E d \in Trade : Record(d)
  \/ \E key, target \in TradeKeys : Reverse(key, target)
  \/ \E k \in LedgerKeys, ua \in Users \X Assets, n \in LedgerAmounts :
       Deposit(k, ua[1], ua[2], n) \/ Reserve(k, ua[1], ua[2], n)

BookSpec == TablesInit /\ [][BookNext]_tables

-----------------------------------------------------------------------------
(* Properties *)

BookTypeOK ==
  /\ balance \in [Accounts -> Int]
  /\ position \in [Users \X Assets -> Position]
  /\ trades \in [TradeKeys -> Row \cup {NoTrade}]
  /\ posted \subseteq LedgerKeys
  /\ flows \in [Users \X Assets -> Int]

\* No customer account and no position goes below zero, whatever sequence of
\* trades, reversals, deposits and reservations is accepted: in particular a
\* reversal, which puts back an earlier position (trade_accounting.py reverse).
NeverNegative ==
  \A u \in Users, a \in Assets : balance[<<u, a>>] >= 0 /\ position[<<u, a>>].qty >= 0

\* The trades that count: recorded and neither reversed nor a reversal.
Live == {k \in TradeKeys : /\ trades[k] # NoTrade
                           /\ trades[k].status = "recorded"
                           /\ trades[k].reversalOf = NoTrade}

LiveOf(u, base) ==
  {k \in Live : trades[k].data.user = u /\ trades[k].data.base = base}

\* What each row bought or sold of its base asset, and the profit it realized.
Bought == [k \in TradeKeys |-> Sign(trades[k].data) * trades[k].data.qty]
Gained == [k \in TradeKeys |-> trades[k].after.realized - trades[k].before.realized]

\* A position is exactly what its live trades add up to, in quantity and in
\* realized profit.  A reversal does not subtract its trade, it writes back the
\* position from before it, and is admitted on the position looking like what
\* the trade left; trades made and unmade in between must not make that wrong.
PositionMatchesTrades ==
  \A u \in Users, b \in Assets :
    /\ position[<<u, b>>].qty = SumFunctionOnSet(Bought, LiveOf(u, b))
    /\ position[<<u, b>>].realized = SumFunctionOnSet(Gained, LiveOf(u, b))

\* What each row makes of its customer's account of the asset.
LegOf(d, asset) ==
  Sign(d) * (IF d.base = asset THEN d.qty
             ELSE IF d.quote = asset THEN -QuoteTotal(d) ELSE 0)
LegsIn(asset) == [k \in TradeKeys |-> LegOf(trades[k].data, asset)]

LiveBy(u) == {k \in Live : trades[k].data.user = u}

\* What a customer has is what was deposited and not reserved, plus what the
\* live trades bought and sold: each leg is posted once and reversed once.
BalanceMatchesTrades ==
  \A u \in Users, a \in Assets :
    balance[<<u, a>>] = flows[<<u, a>>] + SumFunctionOnSet(LegsIn(a), LiveBy(u))

\* The rows that reverse a trade.
ReversalsOf(k) == {r \in TradeKeys : trades[r] # NoTrade /\ trades[r].reversalOf = k}

\* A trade is reversed by exactly one reversal row, and only if it is marked.
ReversedByOne ==
  \A k \in TradeKeys :
    trades[k] # NoTrade =>
      Cardinality(ReversalsOf(k)) = IF trades[k].status = "reversed" THEN 1 ELSE 0

\* The rows of a book are well formed and explain each other: positions by the live
\* trades, reversals by the trades they reverse (record, reverse).
TradesExplainPositions == BookTypeOK /\ PositionMatchesTrades /\ ReversedByOne

\* Customer accounts are never overdrawn and hold what deposits, reservations and
\* the live trades make (post_ledger, record, reverse).
BalancesHold == NeverNegative /\ BalanceMatchesTrades
=============================================================================
