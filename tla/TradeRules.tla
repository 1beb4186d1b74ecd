----------------------------- MODULE TradeRules -----------------------------
(***************************************************************************)
(* The arithmetic of founder trades: what a trade costs, what it makes of  *)
(* a position and of the ledger, and when it may be recorded or reversed.  *)
(* The operators take the tables they read as arguments, so that the       *)
(* abstract book and the concurrent handlers share them.                   *)
(*                                                                         *)
(* A balance is LedgerService.balance of the AVAILABLE bucket: the sum of  *)
(* the entries of posted and reversed transactions.  Costs are in units of *)
(* 1/Scale, so that the average costs of small instances are integers;     *)
(* quantize_amount's rounding at 18 places becomes \div.                   *)
(***************************************************************************)
EXTENDS Integers, FiniteSetsExt

CONSTANTS
  Users,
  Pairs,        \* {<<base, quote>>}
  Quantities, Prices, Fees,
  TradeKeys,    \* idempotency keys of trades and reversals: one row each
  LedgerKeys,   \* idempotency keys of deposits and withdrawal reservations
  LedgerAmounts,
  InitialFunds, \* the balances at the start
  Scale,
  Clearing,     \* the owner of the clearing accounts
  NoTrade

Assets == UNION {{pair[1], pair[2]} : pair \in Pairs}
Accounts == (Users \cup {Clearing}) \X Assets

ASSUME TradeConstants ==
  /\ \A pair \in Pairs : pair[1] # pair[2]
  /\ Quantities \subseteq Nat \ {0} /\ Prices \subseteq Nat \ {0}
  /\ Fees \subseteq Nat /\ LedgerAmounts \subseteq Nat \ {0}
  /\ InitialFunds \in [Accounts -> Int]
  /\ \A ua \in Users \X Assets : InitialFunds[ua] >= 0
  /\ Scale \in Nat \ {0}
  /\ Clearing \notin Users

\* A trade with its positive amounts: base and quote differ, and a sale's fee
\* is below its value.
Trade ==
  {d \in [user : Users, side : {"buy", "sell"}, base : Assets, quote : Assets,
          qty : Quantities, price : Prices, fee : Fees, key : TradeKeys] :
     <<d.base, d.quote>> \in Pairs /\ (d.side = "sell" => d.fee < d.qty * d.price)}

Position == [qty : Nat, avg : Nat, realized : Int]
NoCost == 0    \* average_cost is NULL: no open quantity
EmptyPosition == [qty |-> 0, avg |-> NoCost, realized |-> 0]

\* A row of settled_trades.
Row == [data : Trade, reversalOf : TradeKeys \cup {NoTrade},
        status : {"recorded", "reversed"}, before : Position, after : Position]

ASSUME NoTradeAssumption == NoTrade \notin Row /\ NoTrade \notin TradeKeys

QuoteTotal(d) == IF d.side = "buy" THEN d.qty * d.price + d.fee
                                   ELSE d.qty * d.price - d.fee

\* Weighted average cost on a buy, realized profit on a sell.
After(before, d) ==
  LET value == Scale * d.qty * d.price
      fee == Scale * d.fee
  IN  IF d.side = "buy"
      THEN [qty |-> before.qty + d.qty,
            avg |-> (before.qty * before.avg + value + fee) \div (before.qty + d.qty),
            realized |-> before.realized]
      ELSE [qty |-> before.qty - d.qty,
            avg |-> IF before.qty - d.qty > 0 THEN before.avg ELSE NoCost,
            realized |-> before.realized + (value - fee) - d.qty * before.avg]

\* A buy needs the quote money; a sale needs the position and the base asset.
CanRecord(bal, pos, d) ==
  IF d.side = "buy"
  THEN bal[<<d.user, d.quote>>] >= QuoteTotal(d)
  ELSE pos[<<d.user, d.base>>].qty >= d.qty /\ bal[<<d.user, d.base>>] >= d.qty

\* The account that a reversal debits, and by how much.
Affected(d) == IF d.side = "buy" THEN d.base ELSE d.quote
AffectedAmount(d) == IF d.side = "buy" THEN d.qty ELSE QuoteTotal(d)

\* A recorded trade that is not itself a reversal, whose position still is what
\* the trade left, and whose proceeds are still available.
CanReverse(bal, pos, rows, target) ==
  LET original == rows[target]
      d == original.data
  IN  /\ original.status = "recorded"
      /\ original.reversalOf = NoTrade
      /\ pos[<<d.user, d.base>>] = original.after
      /\ bal[<<d.user, Affected(d)>>] >= AffectedAmount(d)

Sign(d) == IF d.side = "buy" THEN 1 ELSE -1

\* Both ledger legs: a buy moves quote money to clearing and the base asset to
\* the customer, a sale the other way round.
Settle(bal, d, sign) ==
  [a \in Accounts |->
     bal[a] + CASE a = <<d.user, d.base>>    -> sign * d.qty
                [] a = <<Clearing, d.base>>  -> -(sign * d.qty)
                [] a = <<d.user, d.quote>>   -> -(sign * QuoteTotal(d))
                [] a = <<Clearing, d.quote>> -> sign * QuoteTotal(d)
                [] OTHER -> 0]

TradeRow(d, before) ==
  [data |-> d, reversalOf |-> NoTrade, status |-> "recorded",
   before |-> before, after |-> After(before, d)]

ReversalRow(original, target, key) ==
  [original EXCEPT !.data = [@ EXCEPT !.key = key], !.reversalOf = target,
                   !.status = "recorded",
                   !.before = original.after, !.after = original.before]

\* A deposit credits the customer out of clearing; a reservation takes the
\* money out of the available bucket.
Credit(bal, user, asset, amount) ==
  [bal EXCEPT ![<<user, asset>>] = @ + amount, ![<<Clearing, asset>>] = @ - amount]
Debit(bal, user, asset, amount) == [bal EXCEPT ![<<user, asset>>] = @ - amount]
=============================================================================
