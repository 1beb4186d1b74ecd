------------------------- MODULE MCTradeAccounting -------------------------
(* Small instances of TradeAccounting for TLC. *)
EXTENDS TradeAccounting, TLC

CONSTANTS ann, bob, btc, usd

\* Ann trades btc for usd, Bob usd for btc.
OppositePairs == {<<btc, usd>>, <<usd, btc>>}

\* Enough for one trade of Ann at the higher price or two at the lower.
Funds == [a \in Accounts |-> CASE a[1] = Clearing -> -2
                               [] a \in {<<ann, usd>>, <<bob, btc>>} -> 2
                               [] OTHER -> 0]

\* The trades that are recorded or under way.
TradesInPlay ==
  {trades[k].data : k \in {j \in TradeKeys : trades[j] # NoTrade}}
    \cup {txn[p].data : p \in {q \in Handlers : txn[q].op = "record"}}

\* Each customer keeps to one pair. Bob trades at the lower price only, and leaves
\* one key unused; he makes no deposits and reservations.
CalmTrades ==
  LET keys == {k \in TradeKeys : trades[k] # NoTrade}
                \cup {txn[p].data.key : p \in {q \in Handlers : OnTrade(txn[q])}} IN
  /\ \A d \in TradesInPlay : d.user = ann <=> d.base = btc
  /\ (\E d \in TradesInPlay : d.user = bob) =>
       keys # TradeKeys /\ \A d \in TradesInPlay : d.price = 1
  /\ \A p \in Handlers : txn[p].op \in {"deposit", "reserve"} => txn[p].data.user = ann

Symmetry == Permutations(Handlers) \cup Permutations(TradeKeys)
=============================================================================
