\* Two customers on opposite pairs, two handlers: trades, reversals, a deposit or a
\* reservation race on the positions and accounts of one and the clearing accounts of both.
SPECIFICATION Spec
CONSTANTS
  ann = ann bob = bob btc = btc usd = usd
  Handlers = {p1, p2}
  Users = {ann, bob}
  Pairs <- OppositePairs
  Quantities = {1}
  Prices = {1, 2}
  Fees = {0}
  TradeKeys = {k1, k2, k3}
  LedgerKeys = {d1}
  LedgerAmounts = {1}
  InitialFunds <- Funds
  Scale = 12
  Clearing = Clearing
  NoTrade = NoTrade
  NoView = NoView
INVARIANTS AccountingInv NoWaitCycle
PROPERTY ImplementsBook
CONSTRAINT CalmTrades
SYMMETRY Symmetry
