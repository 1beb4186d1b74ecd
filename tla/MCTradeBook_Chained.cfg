\* One customer, two pairs of which one pays in the asset the other buys:
\* histories of up to five rows, trades and reversals, in which earlier states
\* come back through reversals and other trades.
SPECIFICATION BookSpec
CONSTANTS
  btc = btc usd = usd eth = eth
  Users = {ann}
  Pairs <- TwoPairs
  Quantities = {1}
  Prices = {1, 2}
  Fees = {0, 1}
  TradeKeys = {k1, k2, k3, k4, k5}
  LedgerKeys = {d1}
  LedgerAmounts = {2}
  InitialFunds <- Funds
  Scale = 12
  Clearing = Clearing
  NoTrade = NoTrade
INVARIANTS TradesExplainPositions BalancesHold
SYMMETRY Symmetry
\* every key may be used up
CHECK_DEADLOCK FALSE
