----------------------------- MODULE MCTradeBook -----------------------------
(* Small instances of TradeBook for TLC. *)
EXTENDS TradeBook, TLC

CONSTANTS btc, usd, eth

TwoPairs == {<<btc, usd>>, <<eth, btc>>}

Funds == [a \in Accounts |-> IF a[2] # usd THEN 0
                              ELSE IF a[1] = Clearing THEN -4 ELSE 4]

Symmetry == Permutations(TradeKeys)
=============================================================================
