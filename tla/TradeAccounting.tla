-------------------------- MODULE TradeAccounting --------------------------
(***************************************************************************)
(* Founder trade recording and reversal, founder deposits and withdrawal   *)
(* reservations as concurrent database transactions over the shared        *)
(* ledger.  A transaction takes its row locks in the order of its lock     *)
(* plan, reads and decides once the rows it decides on are locked, and     *)
(* commits: ledger entries are added to what is there, position fields are *)
(* overwritten with the values computed from the read.                     *)
(*                                                                         *)
(* The tables are those of TradeBook, whose specification the handlers     *)
(* implement with the identity as the refinement mapping.                  *)
(***************************************************************************)
EXTENDS TradeBook, Sequences

CONSTANTS Handlers, NoView

ASSUME NoViewAssumption ==
  NoView \notin Position /\ NoView \notin Row /\ NoView \notin LedgerKeys

VARIABLE txn   \* the open transaction of each handler

vars == <<balance, position, trades, posted, flows, txn>>

Posting == [key : LedgerKeys, user : Users, asset : Assets, amount : LedgerAmounts]
Reversal == [key : TradeKeys, target : TradeKeys]

\* What a handler is doing: the operation, its request, what it read when it
\* decided, and the next lock it wants.
Txn ==
  [op : {"idle"}, data : {NoView}, view : {NoView}, next : {1}] \cup
  [op : {"record"}, data : Trade, view : Position \cup {NoView}, next : 1 .. 7] \cup
  [op : {"reverse"}, data : Reversal, view : Row \cup {NoView}, next : 1 .. 9] \cup
  [op : {"deposit"}, data : Posting, view : LedgerKeys \cup {NoView}, next : 1 .. 4] \cup
  [op : {"reserve"}, data : Posting, view : LedgerKeys \cup {NoView}, next : 1 .. 3]

Idle == [op |-> "idle", data |-> NoView, view |-> NoView, next |-> 1]

Init == TablesInit /\ txn = [p \in Handlers |-> Idle]

-----------------------------------------------------------------------------
(* Row locks.  SELECT ... FOR UPDATE is exclusive; inserting a ledger entry *)
(* takes FOR KEY SHARE on the account it references, which conflicts with   *)
(* FOR UPDATE and not with itself; an uncommitted insert owns the slot of   *)
(* its unique key.                                                          *)

Exclusive(row) == [row |-> row, mode |-> "update"]
Shared(row)    == [row |-> row, mode |-> "share"]

PortfolioRow(user) == <<"portfolio", user>>
AccountRow(owner, asset) == <<"account", owner, asset>>
TradeRowOf(key) == <<"trade", key>>
TradeSlot(key) == <<"trade key", key>>
LedgerSlot(key) == <<"ledger key", key>>

\* Faulty variant: the customer's accounts are read without FOR UPDATE, their
\* rows are met only when entries are inserted.
RecordLocksNoAccounts(d) ==
  << Exclusive(PortfolioRow(d.user)),
     Exclusive(AccountRow(Clearing, d.quote)), Exclusive(AccountRow(Clearing, d.base)),
     Exclusive(<<"nothing", d.key>>), Exclusive(<<"nothing", d.key>>),
     Exclusive(TradeSlot(d.key)),
     Shared(AccountRow(d.user, d.quote)), Shared(AccountRow(d.user, d.base)) >>

\* Portfolio (and with it the position), the customer's two accounts, the
\* workspace's two clearing accounts, then the unique key of the trade row.
RecordLocks(d) ==
  << Exclusive(PortfolioRow(d.user)),
     Exclusive(AccountRow(d.user, d.quote)), Exclusive(AccountRow(d.user, d.base)),
     Exclusive(AccountRow(Clearing, d.quote)), Exclusive(AccountRow(Clearing, d.base)),
     Exclusive(TradeSlot(d.key)) >>

\* Faulty variant: the debited account is read without FOR UPDATE.
ReverseLocksNoAccount(key, target, d) ==
  << Exclusive(TradeRowOf(target)), Exclusive(PortfolioRow(d.user)),
     Exclusive(<<"nothing", key>>),
     Exclusive(TradeSlot(key)),
     Shared(AccountRow(d.user, d.quote)), Shared(AccountRow(Clearing, d.quote)),
     Shared(AccountRow(d.user, d.base)), Shared(AccountRow(Clearing, d.base)) >>

\* The trade row, portfolio and position, and the one account that the reversal
\* debits are locked FOR UPDATE; the mirrored ledger entries reference the
\* other accounts with FOR KEY SHARE, quote leg first.
ReverseLocks(key, target, d) ==
  << Exclusive(TradeRowOf(target)), Exclusive(PortfolioRow(d.user)),
     Exclusive(AccountRow(d.user, Affected(d))),
     Exclusive(TradeSlot(key)),
     Shared(AccountRow(d.user, d.quote)), Shared(AccountRow(Clearing, d.quote)),
     Shared(AccountRow(d.user, d.base)), Shared(AccountRow(Clearing, d.base)) >>

\* Faulty variant: clearing account first.
DepositLocksClearingFirst(d) ==
  << Exclusive(AccountRow(Clearing, d.asset)), Exclusive(AccountRow(d.user, d.asset)),
     Exclusive(LedgerSlot(d.key)) >>

DepositLocks(d) ==
  << Exclusive(AccountRow(d.user, d.asset)), Exclusive(AccountRow(Clearing, d.asset)),
     Exclusive(LedgerSlot(d.key)) >>

ReserveLocks(d) ==
  << Exclusive(AccountRow(d.user, d.asset)), Exclusive(LedgerSlot(d.key)) >>

Locks(t) ==
  CASE t.op = "record"  -> RecordLocks(t.data)
    [] t.op = "reverse" -> ReverseLocks(t.data.key, t.data.target,
                                        trades[t.data.target].data)
    [] t.op = "deposit" -> DepositLocks(t.data)
    [] t.op = "reserve" -> ReserveLocks(t.data)
    [] OTHER            -> <<>>

\* How many of the rows are locked before the decision, which reads them.
Reads(t) ==
  CASE t.op = "record"  -> 5
    [] t.op = "reverse" -> 3
    [] t.op = "deposit" -> 2
    [] t.op = "reserve" -> 1
    [] OTHER            -> 0

Held(p) == {Locks(txn[p])[i] : i \in 1 .. (txn[p].next - 1)}
Waiting(p) == txn[p].next =< Len(Locks(txn[p]))
Wanted(p) == Locks(txn[p])[txn[p].next]

Compatible(l, m) == l.row = m.row => l.mode = "share" /\ m.mode = "share"
Blocks(q, lock) == \E held \in Held(q) : ~Compatible(held, lock)

Begin(p, op, data) ==
  /\ txn[p] = Idle
  /\ txn' = [txn EXCEPT ![p] = [op |-> op, data |-> data, view |-> NoView, next |-> 1]]
  /\ UNCHANGED tables
Finish(p) == txn' = [txn EXCEPT ![p] = Idle]
Rollback(p) == Finish(p) /\ UNCHANGED tables

Lock(p) ==
  /\ Waiting(p)
  /\ txn[p].next =< Reads(txn[p]) \/ txn[p].view # NoView
  /\ \A q \in Handlers \ {p} : ~Blocks(q, Wanted(p))
  /\ txn' = [txn EXCEPT ![p].next = @ + 1]
  /\ UNCHANGED tables

AtDecision(p, op) ==
  txn[p].op = op /\ txn[p].next = Reads(txn[p]) + 1 /\ txn[p].view = NoView
Decide(p, view) == txn' = [txn EXCEPT ![p].view = view] /\ UNCHANGED tables
AtCommit(p, op) == txn[p].op = op /\ ~Waiting(p) /\ txn[p].view # NoView

-----------------------------------------------------------------------------
(* TradeAccountingService.record *)

\* The look-up of the key comes first and takes no lock.
BeginRecord(p, d) ==
  trades[d.key] = NoTrade /\ Begin(p, "record", d)

\* The view is the position before the trade.
DecideRecord(p) ==
  LET d == txn[p].data
  IN  /\ AtDecision(p, "record")
      /\ IF CanRecord(balance, position, d)
         THEN Decide(p, position[<<d.user, d.base>>])
         ELSE Rollback(p)

CommitRecord(p) ==
  LET d == txn[p].data
      before == txn[p].view
  IN  /\ AtCommit(p, "record")
      /\ trades[d.key] = NoTrade
      /\ trades' = [trades EXCEPT ![d.key] = TradeRow(d, before)]
      /\ balance' = Settle(balance, d, Sign(d))
      /\ position' = [position EXCEPT ![<<d.user, d.base>>] = After(before, d)]
      /\ Finish(p)
      /\ UNCHANGED <<posted, flows>>

-----------------------------------------------------------------------------
(* TradeAccountingService.reverse *)

BeginReverse(p, key, target) ==
  /\ trades[target] # NoTrade
  /\ Begin(p, "reverse", [key |-> key, target |-> target])

\* The view is the row of the trade to reverse.
DecideReverse(p) ==
  LET r == txn[p].data
  IN  /\ AtDecision(p, "reverse")
      /\ IF trades[r.key] = NoTrade /\ CanReverse(balance, position, trades, r.target)
         THEN Decide(p, trades[r.target])
         ELSE Rollback(p)

CommitReverse(p) ==
  LET r == txn[p].data
      original == txn[p].view
      d == original.data
  IN  /\ AtCommit(p, "reverse")
      /\ trades[r.key] = NoTrade
      /\ trades' = [trades EXCEPT ![r.target].status = "reversed",
                                  ![r.key] = ReversalRow(original, r.target, r.key)]
      /\ balance' = Settle(balance, d, -Sign(d))
      /\ position' = [position EXCEPT ![<<d.user, d.base>>] = original.before]
      /\ Finish(p)
      /\ UNCHANGED <<posted, flows>>

\* The key was committed by another handler after the look-up: the unique index
\* refuses the insert and everything is rolled back.
LoseKeyRace(p) ==
  /\ AtCommit(p, "record") \/ AtCommit(p, "reverse")
  /\ trades[txn[p].data.key] # NoTrade
  /\ Rollback(p)

-----------------------------------------------------------------------------
(* DepositAccountingService.record and, as the other user of customer       *)
(* accounts, the reservation that LedgerService.transfer_bucket posts.      *)

BeginDeposit(p, d) ==
  d.key \notin posted /\ Begin(p, "deposit", d)

DecideDeposit(p) == AtDecision(p, "deposit") /\ Decide(p, txn[p].data.key)

BeginReserve(p, d) == Begin(p, "reserve", d)

DecideReserve(p) ==
  LET d == txn[p].data
  IN  /\ AtDecision(p, "reserve")
      /\ IF d.amount =< balance[<<d.user, d.asset>>]
         THEN Decide(p, d.key)
         ELSE Rollback(p)

\* LedgerService.post: a key that is already posted returns the existing
\* transaction (or is refused), with no further effect.
CommitPosting(p, op) ==
  LET d == txn[p].data
  IN  /\ AtCommit(p, op)
      /\ Finish(p)
      /\ IF d.key \in posted
         THEN UNCHANGED tables
         ELSE /\ posted' = posted \cup {d.key}
              /\ balance' = IF op = "deposit"
                            THEN Credit(balance, d.user, d.asset, d.amount)
                            ELSE Debit(balance, d.user, d.asset, d.amount)
              /\ flows' = [flows EXCEPT ![<<d.user, d.asset>>] =
                             @ + IF op = "deposit" THEN d.amount ELSE -d.amount]
              /\ UNCHANGED <<position, trades>>

-----------------------------------------------------------------------------
\* Disconnect, crash, or deadlock victim: none of these operations is retried
\* by the service, the transaction is rolled back.
Abort(p) == txn[p] # Idle /\ Rollback(p)

Arrive(p) ==
  \/ \E d \in Trade : BeginRecord(p, d)
  \/ \E key, target \in TradeKeys : BeginReverse(p, key, target)
  \/ \E d \in Posting : BeginDeposit(p, d) \/ BeginReserve(p, d)

Progress(p) ==
  \/ Lock(p)
  \/ DecideRecord(p) \/ CommitRecord(p)
  \/ DecideReverse(p) \/ CommitReverse(p)
  \/ LoseKeyRace(p)
  \/ DecideDeposit(p) \/ CommitPosting(p, "deposit")
  \/ DecideReserve(p) \/ CommitPosting(p, "reserve")

Next == \E p \in Handlers : Arrive(p) \/ Progress(p) \/ Abort(p)

Spec == Init /\ [][Next]_vars

-----------------------------------------------------------------------------
(* Properties *)

\* Tables and transactions are well formed, and a reversal, whose locks its
\* trade decides, never is about a missing trade.
TypeOK ==
  /\ BookTypeOK
  /\ txn \in [Handlers -> Txn]
  /\ \A p \in Handlers :
       txn[p].op = "reverse" => trades[txn[p].data.target] # NoTrade

\* The handlers implement the book: what was decided on the rows read under
\* lock is applied in full at the commit, to the tables as they are then.
ImplementsBook == BookSpec

\* The trade that a handler's locks are about, and whether it is about one.
TradeOf(t) == IF t.op = "record" THEN t.data ELSE trades[t.data.target].data
OnTrade(t) == t.op \in {"record", "reverse"}

\* Some of the pairs that the handlers of S trade on form a circle: from an asset
\* that is the quote of one of them to its base, which is the quote of another.
PairsGoRound(S) ==
  \E T \in (SUBSET Assets) \ {{}} : \A a \in T : \E p \in S :
    OnTrade(txn[p]) /\ TradeOf(txn[p]).quote = a /\ TradeOf(txn[p]).base \in T

\* Requests with different idempotency keys wait for each other in a circle only
\* while the pairs they trade on go round.  Trades, reversals, deposits and
\* reservations agree on the order of all rows but the clearing accounts, which
\* are locked quote before base: pairs that follow each other agree too, opposite
\* pairs do not.  (A trade and a reversal under one key do not agree on the order
\* of the key and the accounts.)
NoWaitCycle ==
  \A S \in (SUBSET Handlers) \ {{}} :
    (\A p \in S : \E q \in S \ {p} :
        Waiting(p) /\ Blocks(q, Wanted(p)) /\ txn[p].data.key # txn[q].data.key)
    => PairsGoRound(S)

-----------------------------------------------------------------------------
(* The inductive strengthening: locks are exclusive, and what a handler     *)
(* decided on under its locks is still so.                                  *)

LocksExclusive ==
  \A p, q \in Handlers :
    p # q => \A l \in Held(p), m \in Held(q) : Compatible(l, m)

ViewHolds(t) ==
  /\ t.op = "record" =>
       /\ t.view = position[<<t.data.user, t.data.base>>]
       /\ CanRecord(balance, position, t.data)
  /\ t.op = "reverse" =>
       /\ t.view = trades[t.data.target]
       /\ CanReverse(balance, position, trades, t.data.target)
  /\ t.op = "reserve" => t.data.amount =< balance[<<t.data.user, t.data.asset>>]

DecisionsHold ==
  \A p \in Handlers :
    txn[p].view # NoView => txn[p].next > Reads(txn[p]) /\ ViewHolds(txn[p])

AccountingInv == TypeOK /\ LocksExclusive /\ DecisionsHold
=============================================================================
