--------------------------- MODULE OutreachProofs ---------------------------
(***************************************************************************)
(* The send queue and the sequences, for any number of drafts, workers,    *)
(* contacts, editors and crashes. QueueInv says what a worker's open batch *)
(* may rely on although it holds no lock while it sends: its items stay    *)
(* queued, and stay in processing until a lease was outlived. On top of it *)
(* every step of the queue is a step of SendItem on each single message,   *)
(* and counting the open claims of a message bounds how often it is sent.  *)
(***************************************************************************)
EXTENDS OutreachSequences, FiniteSetTheorems, TLAPS

-----------------------------------------------------------------------------
(* The send queue. What a worker holds is queued, and is in processing as  *)
(* long as no lease was outlived; what it settled is not to be tried again *)
(* and, if it counts as sent, was handed over.                             *)

FineBatch(b) ==
    b # None =>
      /\ b.ready # None => b.outcome[b.ready] # None
      /\ \A d \in Drafts :
           /\ d \in b.left => b.outcome[d] = None
           /\ d \in b.left \/ b.outcome[d] # None => Queued(d)
           /\ (d \in b.left \/ b.outcome[d] # None) /\ d \notin overtaken
                => item[d].status = "processing"
           /\ b.outcome[d] # None /\ b.outcome[d].status = "sent" => handed[d] > 0

BatchesInv == \A w \in Workers : FineBatch(batch[w])

WaitingForDecision == \A d \in gated \ decided : draft[d] = "pending_approval" /\ ~Queued(d)

QueuedExist == \A d \in Drafts : Queued(d) => Exists(d)

QueueInv ==
    /\ QueueTypeOK /\ BatchesInv /\ OneWorkerPerLease /\ SentWasHanded
    /\ QueuedExist /\ WaitingForDecision

LEMMA QueueInvInit == QueueInit => QueueInv
<1> SUFFICES ASSUME QueueInit PROVE QueueInv
  OBVIOUS
<1> USE OutreachAssumption DEF QueueInit
<1>1. QueueTypeOK
  BY DEF QueueTypeOK, Times
<1>2. BatchesInv /\ OneWorkerPerLease
  BY DEF BatchesInv, FineBatch, OneWorkerPerLease, Held, Working
<1>3. SentWasHanded
  BY DEF SentWasHanded, Queued, DraftStatuses
<1>4. QueuedExist /\ WaitingForDecision
  BY DEF QueuedExist, Queued, WaitingForDecision
<1> QED
  BY <1>1, <1>2, <1>3, <1>4 DEF QueueInv

LEMMA HeldOf ==
    ASSUME NEW w \in Workers, QueueTypeOK
    PROVE  /\ \A d \in Drafts :
                d \in Held(w) <=> batch[w] # None /\ (d \in batch[w].left \/ batch[w].outcome[d] # None)
           /\ Held(w) \subseteq Drafts
           /\ batch[w] # None => batch[w] \in Batch
BY DEF Held, Working, QueueTypeOK, Batch

\* A worker's session moves on; the rows of the others stay as fine as they were.
LEMMA BatchMoves ==
    ASSUME QueueInv, NEW w \in Workers, NEW now \in Batch \cup {None},
           batch' = [batch EXCEPT ![w] = now], FineBatch(now)',
           \A v \in Workers \ {w} : FineBatch(batch[v]) => FineBatch(batch[v])',
           overtaken \subseteq overtaken', overtaken' \subseteq Drafts,
           \A v \in Workers \ {w} : \A d \in Held(v) :
              now # None /\ (d \in now.left \/ now.outcome[d] # None) => d \in overtaken'
    PROVE  batch' \in [Workers -> Batch \cup {None}] /\ BatchesInv' /\ OneWorkerPerLease'
<1>1. \A v \in Workers : batch'[v] = IF v = w THEN now ELSE batch[v]
  BY DEF QueueInv, QueueTypeOK
<1>2. batch' \in [Workers -> Batch \cup {None}]
  BY DEF QueueInv, QueueTypeOK
<1>3. BatchesInv'
  <2> SUFFICES ASSUME NEW v \in Workers PROVE FineBatch(batch[v])'
    BY DEF BatchesInv
  <2>1. CASE v = w
    BY <1>1, <2>1 DEF FineBatch
  <2>2. CASE v # w
    <3>1. FineBatch(batch[v]) /\ batch'[v] = batch[v]
      BY <1>1, <2>2 DEF QueueInv, BatchesInv
    <3> QED
      BY <2>2, <3>1 DEF FineBatch
  <2> QED
    BY <2>1, <2>2
<1>4. OneWorkerPerLease'
  <2> SUFFICES ASSUME NEW d \in Drafts \ overtaken', NEW u \in Workers, NEW v \in Workers,
                      d \in Held(u)', d \in Held(v)'
               PROVE  u = v
    BY DEF OneWorkerPerLease
  <2>1. \A x \in Workers \ {w} : Held(x)' = Held(x)
    BY <1>1 DEF Held, Working
  <2>2. d \in Held(w)' => now # None /\ (d \in now.left \/ now.outcome[d] # None)
    BY <1>1 DEF Held, Working
  <2>3. CASE u # w /\ v # w
    BY <2>1, <2>3 DEF QueueInv, OneWorkerPerLease
  <2>4. CASE u = w \/ v = w
    BY <2>1, <2>2, <2>4
  <2> QED
    BY <2>3, <2>4
<1> QED
  BY <1>2, <1>3, <1>4

\* Requests that write a draft and may queue it.
LEMMA RowsStep ==
    ASSUME QueueInv, NEW d \in Drafts, UNCHANGED <<handed, overtaken, batch, time>>,
           NEW s \in DraftStatuses \ {"sent"}, draft' = [draft EXCEPT ![d] = s],
           \/ item' = item
           \/ ~Queued(d) /\ \E at \in Times : item' = [item EXCEPT ![d] = NewItem(at)],
           \/ execution' = execution
           \/ \E x \in {"pending", "processing"} : execution' = [execution EXCEPT ![d] = x],
           approval' \in [Drafts -> ApprovalStatuses \cup {None}],
           gated' \subseteq Drafts, decided' \subseteq Drafts, WaitingForDecision'
    PROVE  QueueInv'
<1>0. s # None /\ s # "sent"
  BY OutreachAssumption
<1>1. \A e \in Drafts : draft'[e] = IF e = d THEN s ELSE draft[e]
  BY DEF QueueInv, QueueTypeOK
<1>2. /\ item' \in [Drafts -> Item \cup {None}]
      /\ \A e \in Drafts : \/ item'[e] = item[e]
                           \/ e = d /\ ~Queued(e) /\ item'[e] \in Item /\ item'[e].status = "pending"
  <2>1. CASE item' = item
    BY <2>1 DEF QueueInv, QueueTypeOK
  <2>2. CASE ~Queued(d) /\ \E at \in Times : item' = [item EXCEPT ![d] = NewItem(at)]
    <3>1. PICK at \in Times : item' = [item EXCEPT ![d] = NewItem(at)]
      BY <2>2
    <3>2. NewItem(at) \in Item /\ NewItem(at).status = "pending"
      BY OutreachAssumption DEF NewItem, Item, Times, QueueStatuses
    <3> QED
      BY <2>2, <3>1, <3>2 DEF QueueInv, QueueTypeOK
  <2> QED
    BY <2>1, <2>2
<1>3. \A e \in Drafts : Queued(e) => Queued(e)' /\ item'[e] = item[e]
  BY <1>2 DEF Queued
<1>4. execution' \in [Drafts -> QueueStatuses \cup {None}]
  BY DEF QueueInv, QueueTypeOK, QueueStatuses
<1>5. QueueTypeOK'
  BY <1>2, <1>4 DEF QueueInv, QueueTypeOK
<1>6. BatchesInv'
  BY <1>3 DEF QueueInv, BatchesInv, FineBatch
<1>7. OneWorkerPerLease'
  BY DEF QueueInv, OneWorkerPerLease, Held, Working
<1>8. SentWasHanded'
  <2> SUFFICES ASSUME NEW e \in Drafts,
                      "sent" \in {draft'[e], execution'[e], IF item'[e] # None THEN item'[e].status ELSE None}
               PROVE  handed[e] > 0
    BY DEF SentWasHanded, Queued
  <2>1. draft'[e] = "sent" => draft[e] = "sent"
    BY <1>0, <1>1
  <2>2. execution'[e] = "sent" => execution[e] = "sent"
    BY DEF QueueInv, QueueTypeOK
  <2>3. (IF item'[e] # None THEN item'[e].status ELSE None) = "sent"
          => Queued(e) /\ item[e].status = "sent"
    BY <1>2, OutreachAssumption DEF Queued, QueueStatuses
  <2> QED
    BY <2>1, <2>2, <2>3 DEF QueueInv, SentWasHanded
<1>9. QueuedExist'
  BY <1>0, <1>1, <1>2 DEF QueueInv, QueuedExist, Queued, Exists
<1> QED
  BY <1>5, <1>6, <1>7, <1>8, <1>9 DEF QueueInv

LEMMA RequestsKeepQueue ==
    ASSUME QueueInv, NEW d \in Drafts,
           \/ CreateDraft(d) \/ ScheduleDraft(d) \/ RequestApproval(d)
           \/ \E granted \in BOOLEAN : DecideApproval(d, granted)
    PROVE  QueueInv'
<1> USE DEF QueueInv
<1>1. CASE CreateDraft(d)
  <2>1. PICK s \in {"draft", "scheduled"} : draft' = [draft EXCEPT ![d] = s]
    BY <1>1 DEF CreateDraft
  <2>2. \/ item' = item
        \/ ~Queued(d) /\ \E at \in Times : item' = [item EXCEPT ![d] = NewItem(at)]
    BY <1>1 DEF CreateDraft, QueueAt
  <2>3. ~Exists(d) /\ UNCHANGED <<approval, execution, gated, decided, handed, overtaken, batch, time>>
    BY <1>1 DEF CreateDraft
  <2>4. d \notin gated \ decided
    BY <2>3, OutreachAssumption DEF WaitingForDecision, Exists, DraftStatuses
  <2>5. WaitingForDecision'
    BY <2>1, <2>2, <2>3, <2>4 DEF WaitingForDecision, Queued, QueueTypeOK
  <2>6. s \in DraftStatuses \ {"sent"}
    BY DEF DraftStatuses
  <2> QED
    BY <2>1, <2>2, <2>3, <2>5, <2>6, RowsStep DEF QueueTypeOK
<1>2. CASE ScheduleDraft(d)
  <2>1. /\ draft[d] \in Schedulable /\ draft' = [draft EXCEPT ![d] = "scheduled"]
        /\ ~Queued(d) /\ \E at \in Times : item' = [item EXCEPT ![d] = NewItem(at)]
        /\ UNCHANGED <<approval, execution, gated, decided, handed, overtaken, batch, time>>
    BY <1>2 DEF ScheduleDraft, QueueAt
  <2>2. d \notin gated \ decided
    BY <2>1 DEF WaitingForDecision, Schedulable
  <2>3. WaitingForDecision'
    BY <2>1, <2>2 DEF WaitingForDecision, Queued, QueueTypeOK
  <2>4. "scheduled" \in DraftStatuses \ {"sent"}
    BY DEF DraftStatuses
  <2> QED
    BY <2>1, <2>3, <2>4, RowsStep DEF QueueTypeOK
<1>3. CASE RequestApproval(d)
  <2>1. /\ draft' = [draft EXCEPT ![d] = "pending_approval"]
        /\ approval' = [approval EXCEPT ![d] = "pending"]
        /\ UNCHANGED <<item, execution, gated, decided, handed, overtaken, batch, time>>
    BY <1>3 DEF RequestApproval
  <2>2. WaitingForDecision'
    BY <2>1 DEF WaitingForDecision, Queued, QueueTypeOK
  <2>3. "pending_approval" \in DraftStatuses \ {"sent"}
    BY DEF DraftStatuses
  <2>4. approval' \in [Drafts -> ApprovalStatuses \cup {None}]
    BY <2>1 DEF QueueTypeOK, ApprovalStatuses
  <2> QED
    BY <2>1, <2>2, <2>3, <2>4, RowsStep DEF QueueTypeOK
<1>4. ASSUME NEW granted \in BOOLEAN, DecideApproval(d, granted) PROVE QueueInv'
  <2>1. PICK s \in {"approved", "draft"} : draft' = [draft EXCEPT ![d] = s]
    BY <1>4 DEF DecideApproval
  <2>2. PICK x \in {"approved", "rejected"} : approval' = [approval EXCEPT ![d] = x]
    BY <1>4 DEF DecideApproval
  <2>3. decided' = decided \cup {d} /\ UNCHANGED <<item, execution, gated, handed, overtaken, batch, time>>
    BY <1>4 DEF DecideApproval
  <2>4. WaitingForDecision'
    BY <2>1, <2>3 DEF WaitingForDecision, Queued, QueueTypeOK
  <2>5. s \in DraftStatuses \ {"sent"}
    BY DEF DraftStatuses
  <2>6. approval' \in [Drafts -> ApprovalStatuses \cup {None}]
    BY <2>2 DEF QueueTypeOK, ApprovalStatuses
  <2> QED
    BY <2>1, <2>3, <2>4, <2>5, <2>6, RowsStep DEF QueueTypeOK
<1> QED
  BY <1>1, <1>2, <1>3, <1>4

\* An unclaimed item is held by nobody whose lease stands.
LEMMA ClaimKeepsQueue == ASSUME QueueInv, NEW w \in Workers, ClaimQueue(w) PROVE QueueInv'
<1> USE DEF QueueInv
<1>1. PICK S \in SUBSET {d \in Drafts : Claimable(d) /\ ItemFree(w, d)} :
        /\ item' = [d \in Drafts |->
              IF d \in S THEN [item[d] EXCEPT !.status = "processing", !.lockedAt = time,
                                              !.attempts = @ + 1]
              ELSE item[d]]
        /\ batch' = [batch EXCEPT ![w] =
              [now |-> time, left |-> S,
               tries |-> [d \in Drafts |-> IF d \in S THEN item[d].attempts + 1 ELSE 0],
               ready |-> None, outcome |-> [d \in Drafts |-> None]]]
        /\ overtaken' = overtaken \cup {d \in S : (\E v \in Workers : d \in Held(v)) /\ Lapsed(item[d])}
  BY DEF ClaimQueue
<1>2. batch[w] = None /\ UNCHANGED <<draft, approval, execution, gated, decided, handed, time>>
  BY DEF ClaimQueue, Working
<1>3. S \subseteq Drafts /\ \A d \in S : Claimable(d) /\ item[d] # None /\ item[d] \in Item
  BY DEF Claimable, Queued, QueueTypeOK
<1>4. \A d \in S : item'[d] \in Item /\ item'[d].status = "processing"
  <2> SUFFICES ASSUME NEW d \in S PROVE item'[d] \in Item /\ item'[d].status = "processing"
    OBVIOUS
  <2>1. item'[d] = [item[d] EXCEPT !.status = "processing", !.lockedAt = time, !.attempts = item[d].attempts + 1]
    BY <1>1, <1>3
  <2>2. item[d].attempts + 1 \in Nat
    BY <1>3 DEF Item
  <2> QED
    BY <1>3, <2>1, <2>2 DEF Item, QueueStatuses, QueueTypeOK
<1>5. item' \in [Drafts -> Item \cup {None}] /\ \A d \in Drafts \ S : item'[d] = item[d]
  BY <1>1, <1>4 DEF QueueTypeOK
<1>6. \A d \in Drafts : Queued(d)' <=> Queued(d)
  BY <1>3, <1>4, <1>5, NoneIsNoRow DEF Queued
<1> DEFINE tries == [d \in Drafts |-> IF d \in S THEN item[d].attempts + 1 ELSE 0]
<1>7. tries \in [Drafts -> Nat]
  BY <1>3 DEF Item
<1>8. [now |-> time, left |-> S, tries |-> tries, ready |-> None,
       outcome |-> [d \in Drafts |-> None]] \in Batch
  BY <1>3, <1>7 DEF Batch, QueueTypeOK
<1>9. PICK now \in Batch : now = [now |-> time, left |-> S, tries |-> tries, ready |-> None,
                                  outcome |-> [d \in Drafts |-> None]]
  BY <1>8
<1>10. batch' = [batch EXCEPT ![w] = now]
  BY <1>1, <1>9
<1> HIDE DEF tries
<1>11. now.left = S /\ now.ready = None /\ \A d \in Drafts : now.outcome[d] = None
  BY <1>9
<1>12. FineBatch(now)'
  <2> SUFFICES ASSUME NEW d \in Drafts, d \in S PROVE Queued(d)' /\ item'[d].status = "processing"
    BY <1>11 DEF FineBatch
  <2> QED
    BY <1>3, <1>4, <1>6 DEF Queued
<1>13. overtaken \subseteq overtaken' /\ overtaken' \subseteq Drafts
  BY <1>1, <1>3 DEF QueueTypeOK
<1>14. ASSUME NEW v \in Workers \ {w}, FineBatch(batch[v]) PROVE FineBatch(batch[v])'
  <2>1. batch'[v] = batch[v]
    BY <1>1 DEF QueueTypeOK
  <2>2. \A d \in Drafts : item[d].status = "processing" => item'[d].status = "processing"
    BY <1>4, <1>5
  <2> QED
    BY <1>2, <1>6, <1>13, <1>14, <2>1, <2>2 DEF FineBatch
<1>15. ASSUME NEW v \in Workers \ {w}, NEW d \in Held(v), d \in S PROVE d \in overtaken'
  <2>1. CASE item[d].status = "processing"
    <3>1. Lapsed(item[d])
      BY <1>3, <1>15, <2>1 DEF Claimable
    <3> QED
      BY <1>1, <1>15, <3>1
  <2>2. CASE item[d].status # "processing"
    <3>1. FineBatch(batch[v]) /\ d \in Drafts
      BY <1>3, <1>15 DEF BatchesInv
    <3>2. d \in overtaken
      BY <1>15, <2>2, <3>1, HeldOf DEF FineBatch
    <3> QED
      BY <1>13, <3>2
  <2> QED
    BY <2>1, <2>2
<1>16. batch' \in [Workers -> Batch \cup {None}] /\ BatchesInv' /\ OneWorkerPerLease'
  <2>1. \A v \in Workers \ {w} : FineBatch(batch[v]) => FineBatch(batch[v])'
    BY <1>14
  <2>2. \A v \in Workers \ {w} : \A d \in Held(v) :
           now # None /\ (d \in now.left \/ now.outcome[d] # None) => d \in overtaken'
    BY <1>11, <1>15, HeldOf
  <2> QED
    BY <1>10, <1>12, <1>13, <2>1, <2>2, BatchMoves
<1>17. SentWasHanded'
  <2>1. \A d \in Drafts : Queued(d) /\ item'[d].status = "sent" => item[d].status = "sent"
    BY <1>4, <1>5
  <2> QED
    BY <1>2, <1>6, <2>1, OutreachAssumption DEF SentWasHanded, QueueStatuses
<1>18. QueuedExist' /\ WaitingForDecision'
  BY <1>2, <1>6 DEF QueuedExist, Exists, WaitingForDecision, QueueTypeOK
<1>19. QueueTypeOK'
  BY <1>2, <1>5, <1>13, <1>16 DEF QueueTypeOK
<1> QED
  BY <1>16, <1>17, <1>18, <1>19

\* What a worker does to its session without touching a row of the queue.
LEMMA SessionKeepsQueue ==
    ASSUME QueueInv, NEW w \in Workers, NEW now \in Batch \cup {None},
           batch' = [batch EXCEPT ![w] = now], FineBatch(now)',
           handed' \in [Drafts -> Nat], \A d \in Drafts : handed[d] <= handed'[d],
           UNCHANGED <<draft, approval, item, execution, gated, decided, overtaken, time>>,
           \A d \in Drafts : now # None /\ (d \in now.left \/ now.outcome[d] # None) => d \in Held(w)
    PROVE  QueueInv'
<1> USE DEF QueueInv
<1>1. \A d \in Drafts : handed[d] > 0 => handed'[d] > 0
  BY DEF QueueTypeOK
<1>2. ASSUME NEW v \in Workers \ {w}, FineBatch(batch[v]) PROVE FineBatch(batch[v])'
  <2>1. batch'[v] = batch[v]
    BY DEF QueueTypeOK
  <2> QED
    BY <1>1, <1>2, <2>1 DEF FineBatch, Queued
<1>3. batch' \in [Workers -> Batch \cup {None}] /\ BatchesInv' /\ OneWorkerPerLease'
  <2>1. \A v \in Workers \ {w} : FineBatch(batch[v]) => FineBatch(batch[v])'
    BY <1>2
  <2>2. \A v \in Workers \ {w} : \A d \in Held(v) :
           now # None /\ (d \in now.left \/ now.outcome[d] # None) => d \in overtaken'
    BY HeldOf DEF OneWorkerPerLease
  <2> QED
    BY <2>1, <2>2, BatchMoves DEF QueueTypeOK
<1>4. SentWasHanded'
  BY <1>1 DEF SentWasHanded, Queued
<1>5. QueuedExist' /\ WaitingForDecision'
  BY DEF QueuedExist, Exists, WaitingForDecision, Queued
<1> QED
  BY <1>3, <1>4, <1>5 DEF QueueTypeOK

Settled(status, at, loaded, mirrored) ==
    [status |-> status, available |-> at, loaded |-> loaded, mirrored |-> mirrored]

\* An item that is settled with one of the outcomes of Try.
LEMMA SettleKeepsQueue ==
    ASSUME QueueInv, NEW w \in Workers, NEW d \in Drafts, AtWork(w, d),
           NEW status \in {"sent", "retry", "failed"}, NEW at \in Nat \cup {None},
           NEW mirrored \in BOOLEAN, Settle(w, d, status, at, mirrored),
           handed' \in {handed, [handed EXCEPT ![d] = @ + 1]},
           status = "sent" => handed' = [handed EXCEPT ![d] = @ + 1],
           UNCHANGED <<draft, approval, item, execution, gated, decided, overtaken, time>>
    PROVE  QueueInv'
<1> USE DEF QueueInv
<1> DEFINE old == batch[w]
           out == Settled(status, at, draft[d], mirrored)
<1>1. old # None /\ old \in Batch /\ d \in old.left /\ FineBatch(old)
  BY HeldOf DEF AtWork, Working, BatchesInv
<1>2. out \in Outcome /\ out # None /\ out.status = status
  <2>1. draft[d] \in DraftStatuses \cup {None}
    BY DEF QueueTypeOK
  <2>2. out \in Outcome
    BY <2>1 DEF Settled, Outcome
  <2>3. out.status = status
    BY DEF Settled
  <2> HIDE DEF out
  <2> QED
    BY <2>2, <2>3, NoneIsNoRow
<1>3. batch' = [batch EXCEPT ![w] = [old EXCEPT !.left = @ \ {d}, !.ready = d, !.outcome[d] = out]]
  BY DEF Settle, Settled
<1> HIDE DEF out
<1>4. [old EXCEPT !.left = @ \ {d}, !.ready = d, !.outcome[d] = out] \in Batch
  BY <1>1, <1>2 DEF Batch
<1>5. PICK now \in Batch : now = [old EXCEPT !.left = @ \ {d}, !.ready = d, !.outcome[d] = out]
  BY <1>4
<1>6. /\ now.left = old.left \ {d} /\ now.ready = d
      /\ \A e \in Drafts : now.outcome[e] = IF e = d THEN out ELSE old.outcome[e]
  BY <1>1, <1>5 DEF Batch
<1>7. /\ handed' \in [Drafts -> Nat] /\ \A e \in Drafts : handed[e] <= handed'[e]
      /\ status = "sent" => handed'[d] > 0
  <2>1. CASE handed' = [handed EXCEPT ![d] = @ + 1]
    BY <2>1 DEF QueueTypeOK
  <2>2. CASE handed' = handed /\ status # "sent"
    BY <2>2 DEF QueueTypeOK
  <2> QED
    BY <2>1, <2>2
<1>8. FineBatch(now)'
  <2>1. now.outcome[now.ready] # None
    BY <1>2, <1>6
  <2>2. ASSUME NEW e \in Drafts
        PROVE  /\ e \in now.left => now.outcome[e] = None
               /\ e \in now.left \/ now.outcome[e] # None => Queued(e)
               /\ (e \in now.left \/ now.outcome[e] # None) /\ e \notin overtaken
                    => item[e].status = "processing"
    BY <1>1, <1>6 DEF FineBatch
  <2>3. ASSUME NEW e \in Drafts, now.outcome[e] # None, now.outcome[e].status = "sent"
        PROVE  handed'[e] > 0
    <3>1. CASE e = d
      BY <1>2, <1>6, <1>7, <2>3, <3>1
    <3>2. CASE e # d
      <4>1. handed[e] > 0
        BY <1>1, <1>6, <2>3, <3>2 DEF FineBatch
      <4> QED
        BY <1>7, <4>1 DEF QueueTypeOK
    <3> QED
      BY <3>1, <3>2
  <2> QED
    BY <2>1, <2>2, <2>3 DEF FineBatch, Queued
<1>9. batch' = [batch EXCEPT ![w] = now]
  BY <1>3, <1>5
<1>10. \A e \in Drafts : now # None /\ (e \in now.left \/ now.outcome[e] # None) => e \in Held(w)
  BY <1>1, <1>6, HeldOf
<1> HIDE DEF old
<1> QED
  BY <1>7, <1>8, <1>9, <1>10, SessionKeepsQueue

LEMMA TryKeepsQueue ==
    ASSUME QueueInv, NEW w \in Workers, NEW d \in Drafts, Try(w, d) PROVE QueueInv'
<1> DEFINE Later(code) == batch[w].now + Delay[code]
<1>0. \A code \in RetryCodes : AtWork(w, d) => Later(code) \in Nat
  <2> SUFFICES ASSUME AtWork(w, d), NEW code \in RetryCodes PROVE Later(code) \in Nat
    OBVIOUS
  <2>1. batch[w].now \in Nat
    BY HeldOf, OutreachAssumption DEF QueueInv, AtWork, Working, Batch, Times
  <2>2. Delay[code] \in Nat
    BY OutreachAssumption
  <2> QED
    BY <2>1, <2>2
<1>a. /\ "rate_limited" \in RetryCodes /\ "provider_unavailable" \in RetryCodes
      /\ "provider_error" \in RetryCodes
  BY DEF RetryCodes
<1> HIDE DEF Later
<1>1. CASE MailboxUnavailable(w, d)
  BY <1>1, SettleKeepsQueue DEF MailboxUnavailable
<1>2. CASE RateLimited(w, d)
  BY <1>0, <1>a, <1>2, SettleKeepsQueue DEF RateLimited, Later
<1>3. CASE ProviderUnavailable(w, d)
  BY <1>0, <1>a, <1>3, SettleKeepsQueue DEF ProviderUnavailable, Later
<1>4. CASE Send(w, d)
  BY <1>4, SettleKeepsQueue DEF Send
<1>5. CASE SendFails(w, d)
  <2>1. CASE Settle(w, d, "failed", None, TRUE)
    BY <1>5, <2>1, SettleKeepsQueue DEF SendFails
  <2>2. CASE Settle(w, d, "retry", Later("provider_error"), TRUE)
    BY <1>0, <1>a, <1>5, <2>2, SettleKeepsQueue DEF SendFails
  <2> QED
    BY <1>5, <2>1, <2>2 DEF SendFails, Later
<1> QED
  BY <1>1, <1>2, <1>3, <1>4, <1>5 DEF Try

LEMMA FlushKeepsQueue == ASSUME QueueInv, NEW w \in Workers, Flush(w) PROVE QueueInv'
<1> USE DEF QueueInv
<1> DEFINE old == batch[w]
<1>1. old # None /\ old \in Batch /\ FineBatch(old)
  BY HeldOf DEF Flush, Working, BatchesInv
<1>2. [old EXCEPT !.ready = None] \in Batch
  BY <1>1 DEF Batch
<1>3. PICK now \in Batch : now = [old EXCEPT !.ready = None]
  BY <1>2
<1>4. now.left = old.left /\ now.ready = None /\ now.outcome = old.outcome
  BY <1>1, <1>3 DEF Batch
<1>5. /\ batch' = [batch EXCEPT ![w] = now]
      /\ UNCHANGED <<draft, approval, item, execution, gated, decided, handed, overtaken, time>>
  BY <1>3 DEF Flush
<1>6. FineBatch(now)'
  BY <1>1, <1>4, <1>5 DEF FineBatch, Queued
<1>7. \A e \in Drafts : now # None /\ (e \in now.left \/ now.outcome[e] # None) => e \in Held(w)
  BY <1>1, <1>4, HeldOf
<1>8. \A e \in Drafts : handed[e] <= handed'[e]
  BY <1>5 DEF QueueTypeOK
<1> QED
  BY <1>5, <1>6, <1>7, <1>8, SessionKeepsQueue DEF QueueTypeOK

LEMMA DeathKeepsQueue == ASSUME QueueInv, NEW w \in Workers, WorkerDies(w) PROVE QueueInv'
<1>1. /\ batch' = [batch EXCEPT ![w] = None]
      /\ UNCHANGED <<draft, approval, item, execution, gated, decided, handed, overtaken, time>>
  BY DEF WorkerDies
<1>2. FineBatch(None)'
  BY DEF FineBatch
<1>3. handed' \in [Drafts -> Nat] /\ \A e \in Drafts : handed[e] <= handed'[e]
  BY <1>1 DEF QueueInv, QueueTypeOK
<1> QED
  BY <1>1, <1>2, <1>3, SessionKeepsQueue

\* The outcomes are written over items that nobody else holds under a lease.
LEMMA CommitKeepsQueue == ASSUME QueueInv, NEW w \in Workers, CommitQueue(w) PROVE QueueInv'
<1> USE DEF QueueInv
<1> DEFINE old == batch[w]
<1>1. /\ old # None /\ old \in Batch /\ FineBatch(old)
      /\ \A d \in Drafts : d \in Flushed(w) <=> old.outcome[d] # None
  BY HeldOf, OutreachAssumption DEF CommitQueue, Working, BatchesInv, Flushed
<1>2. \A d \in Flushed(w) : /\ d \in Drafts /\ old.outcome[d] \in Outcome
                            /\ Queued(d) /\ item[d] \in Item /\ d \in Held(w)
  BY <1>1, HeldOf DEF FineBatch, Batch, Flushed, Queued, QueueTypeOK
<1>3. /\ batch' = [batch EXCEPT ![w] = None]
      /\ UNCHANGED <<approval, gated, decided, handed, overtaken, time>>
  BY DEF CommitQueue
<1>4. ASSUME NEW d \in Flushed(w)
      PROVE  item'[d] \in Item /\ item'[d].status = old.outcome[d].status
  <2>1. item'[d] = [item[d] EXCEPT !.status = old.outcome[d].status,
                                   !.available = IF old.outcome[d].available = None
                                                 THEN item[d].available
                                                 ELSE old.outcome[d].available]
    BY <1>2, <1>4 DEF CommitQueue
  <2>2. old.outcome[d].status \in QueueStatuses /\ old.outcome[d].available \in Nat \cup {None}
    BY <1>2 DEF Outcome, QueueStatuses
  <2> QED
    BY <1>2, <2>1, <2>2 DEF Item
<1>5. \A d \in Drafts \ Flushed(w) : item'[d] = item[d]
  BY DEF CommitQueue
<1>6. item' \in [Drafts -> Item \cup {None}]
  <2>1. \A d \in Drafts : item'[d] \in Item \cup {None}
    BY <1>4, <1>5 DEF QueueTypeOK
  <2>2. \E f : item' = [d \in Drafts |-> f[d]]
    <3> DEFINE f == [d \in Drafts |-> IF d \in Flushed(w)
          THEN [item[d] EXCEPT !.status = batch[w].outcome[d].status,
                               !.available = IF batch[w].outcome[d].available = None THEN @
                                             ELSE batch[w].outcome[d].available]
          ELSE item[d]]
    <3>1. item' = f
      BY DEF CommitQueue
    <3>2. f = [d \in Drafts |-> f[d]]
      OBVIOUS
    <3> QED
      BY <3>1, <3>2
  <2> QED
    BY <2>1, <2>2
<1>7. \A d \in Drafts : Queued(d)' <=> Queued(d)
  BY <1>2, <1>4, <1>5, NoneIsNoRow DEF Queued
<1>8. /\ draft' \in [Drafts -> DraftStatuses \cup {None}]
      /\ \A d \in Drafts : \/ draft'[d] = draft[d]
                           \/ draft'[d] = "sent" /\ d \in Flushed(w) /\ old.outcome[d].status = "sent"
  BY DEF CommitQueue, WritesDraft, QueueTypeOK, DraftStatuses
<1>9. \A d \in Drafts : \/ execution'[d] = execution[d]
                        \/ d \in Flushed(w) /\ execution'[d] = old.outcome[d].status
  BY DEF CommitQueue
<1>10. execution' \in [Drafts -> QueueStatuses \cup {None}]
  <2>1. \A d \in Flushed(w) : old.outcome[d].status \in QueueStatuses
    BY <1>2 DEF Outcome, QueueStatuses
  <2> QED
    BY <2>1 DEF CommitQueue, QueueTypeOK
<1>11. \A d \in Flushed(w) : old.outcome[d].status = "sent" => handed[d] > 0
  BY <1>1, <1>2 DEF FineBatch
<1>12. FineBatch(None)'
  BY DEF FineBatch
<1>13. ASSUME NEW v \in Workers \ {w}, FineBatch(batch[v]) PROVE FineBatch(batch[v])'
  <2>1. batch'[v] = batch[v]
    BY <1>3 DEF QueueTypeOK
  <2>2. \A d \in Drafts : d \in Held(v) /\ d \notin overtaken => d \notin Flushed(w)
    BY <1>2 DEF OneWorkerPerLease
  <2>3. \A d \in Drafts : batch[v] # None /\ (d \in batch[v].left \/ batch[v].outcome[d] # None)
          => d \in Held(v)
    BY HeldOf
  <2> QED
    BY <1>3, <1>5, <1>7, <1>13, <2>1, <2>2, <2>3 DEF FineBatch
<1>14. batch' \in [Workers -> Batch \cup {None}] /\ BatchesInv' /\ OneWorkerPerLease'
  <2>1. \A v \in Workers \ {w} : FineBatch(batch[v]) => FineBatch(batch[v])'
    BY <1>13
  <2> QED
    BY <1>3, <1>12, <2>1, BatchMoves DEF QueueTypeOK
<1>15. SentWasHanded'
  <2> SUFFICES ASSUME NEW d \in Drafts,
                      "sent" \in {draft'[d], execution'[d], IF Queued(d) THEN item'[d].status ELSE None}
               PROVE  handed[d] > 0
    BY <1>3, <1>7 DEF SentWasHanded
  <2>1. CASE d \in Flushed(w) /\ old.outcome[d].status = "sent"
    BY <1>11, <2>1
  <2>2. CASE ~(d \in Flushed(w) /\ old.outcome[d].status = "sent")
    <3>1. draft'[d] = "sent" => draft[d] = "sent"
      BY <1>8, <2>2
    <3>2. execution'[d] = "sent" => execution[d] = "sent"
      BY <1>9, <2>2
    <3>3. Queued(d) /\ item'[d].status = "sent" => item[d].status = "sent"
      BY <1>4, <1>5, <2>2
    <3> QED
      BY <3>1, <3>2, <3>3, OutreachAssumption DEF SentWasHanded, QueueStatuses
  <2> QED
    BY <2>1, <2>2
<1>16. QueuedExist'
  BY <1>7, <1>8, OutreachAssumption DEF QueuedExist, Exists, DraftStatuses
<1>17. WaitingForDecision'
  BY <1>2, <1>3, <1>7, <1>8 DEF WaitingForDecision, QueueTypeOK
<1> QED
  BY <1>3, <1>6, <1>8, <1>10, <1>14, <1>15, <1>16, <1>17 DEF QueueTypeOK

LEMMA QueueInvNext ==
    ASSUME QueueInv, QueueNext \/ UNCHANGED queueVars PROVE QueueInv'
<1>1. CASE Tick \/ UNCHANGED queueVars
  <2>1. /\ UNCHANGED <<draft, approval, item, execution, gated, decided, handed, overtaken, batch>>
        /\ time' = time \/ (time < MaxNow /\ time' = time + 1)
    BY <1>1 DEF Tick, queueVars
  <2>2. time' \in Times
    BY <2>1, OutreachAssumption DEF QueueInv, QueueTypeOK, Times
  <2>3. QueueTypeOK'
    BY <2>1, <2>2 DEF QueueInv, QueueTypeOK
  <2>4. BatchesInv' /\ OneWorkerPerLease'
    BY <2>1 DEF QueueInv, BatchesInv, FineBatch, Queued, OneWorkerPerLease, Held, Working
  <2>5. SentWasHanded' /\ QueuedExist' /\ WaitingForDecision'
    BY <2>1 DEF QueueInv, SentWasHanded, QueuedExist, WaitingForDecision, Queued, Exists
  <2> QED
    BY <2>3, <2>4, <2>5 DEF QueueInv
<1>2. ASSUME NEW d \in Drafts,
             \/ CreateDraft(d) \/ ScheduleDraft(d) \/ RequestApproval(d)
             \/ \E granted \in BOOLEAN : DecideApproval(d, granted)
      PROVE  QueueInv'
  BY <1>2, RequestsKeepQueue
<1>3. ASSUME NEW w \in Workers, ClaimQueue(w) PROVE QueueInv'
  BY <1>3, ClaimKeepsQueue
<1>4. ASSUME NEW w \in Workers, Flush(w) PROVE QueueInv'
  BY <1>4, FlushKeepsQueue
<1>5. ASSUME NEW w \in Workers, CommitQueue(w) PROVE QueueInv'
  BY <1>5, CommitKeepsQueue
<1>6. ASSUME NEW w \in Workers, WorkerDies(w) PROVE QueueInv'
  BY <1>6, DeathKeepsQueue
<1>7. ASSUME NEW w \in Workers, NEW d \in Drafts, Try(w, d) PROVE QueueInv'
  BY <1>7, TryKeepsQueue
<1> QED
  BY <1>1, <1>2, <1>3, <1>4, <1>5, <1>6, <1>7 DEF QueueNext

-----------------------------------------------------------------------------
(* Sequences on top of the queue. A draft made for a step is behind the    *)
(* position of its enrolment, which only moves on; while a step is being   *)
(* added the sequence is a draft.                                          *)

StepsOnlyInDrafts == (\E r \in Editors : editing[r] # None) => sequence = "draft"

OutreachInv == QueueInv /\ SequencesTypeOK /\ StepsMadeOnce /\ StepsOnlyInDrafts

LEMMA OutreachInvInit == OutreachInit => OutreachInv
<1> SUFFICES ASSUME OutreachInit PROVE OutreachInv
  OBVIOUS
<1>1. QueueInv
  BY QueueInvInit DEF OutreachInit
<1>2. SequencesTypeOK
  BY DEF OutreachInit, SequencesInit, SequencesTypeOK
<1>3. StepsMadeOnce /\ StepsOnlyInDrafts
  BY DEF OutreachInit, SequencesInit, StepsMadeOnce, StepsOnlyInDrafts
<1> QED
  BY <1>1, <1>2, <1>3 DEF OutreachInv

\* Rows of contacts are added, never taken back.
LEMMA EnrolKeeps ==
    ASSUME SequencesTypeOK, StepsMadeOnce, NEW S \in SUBSET Contacts, NEW when \in Nat,
           EnrolAll(S, when), made' = made
    PROVE  enrolment' \in [Contacts -> Enrolment \cup {None}] /\ StepsMadeOnce'
<1>1. NewEnrolment(when) \in Enrolment
  BY DEF NewEnrolment, Enrolment
<1>2. enrolment' \in [Contacts -> Enrolment \cup {None}]
  BY <1>1 DEF EnrolAll, SequencesTypeOK
<1>3. \A c \in Contacts : enrolment[c] # None => enrolment'[c] = enrolment[c]
  BY DEF EnrolAll
<1>4. \A d \in Drafts : made[d] # None => made[d][1] \in Contacts
  BY DEF SequencesTypeOK
<1> QED
  BY <1>2, <1>3, <1>4 DEF StepsMadeOnce

LEMMA DueIsNatural == QueueTypeOK => time \in Nat /\ time + StepDelay \in Nat
BY OutreachAssumption, SequencesAssumption DEF QueueTypeOK, Times

LEMMA EnrolmentStep ==
    ASSUME OutreachInv, NEW c \in Contacts, NEW d \in Drafts, ProcessEnrolment(c, d)
    PROVE  OutreachInv'
<1> DEFINE e == enrolment[c]
           p == e.step
<1> USE DEF OutreachInv
<1>1. /\ e # None /\ e \in Enrolment /\ p \in Nat /\ p \in steps /\ draft[d] = None
  BY DEF ProcessEnrolment, Due, Exists, SequencesTypeOK, Enrolment
<1>2. /\ made' = [made EXCEPT ![d] = <<c, p>>]
      /\ enrolment' = [enrolment EXCEPT ![c] = Advanced(e)]
      /\ UNCHANGED <<approval, decided, handed, overtaken, batch, time, sequence, steps, editing,
                     launch, events>>
  BY DEF ProcessEnrolment
<1>3. PICK s \in {"pending_approval", "queued"} :
        /\ draft' = [draft EXCEPT ![d] = s]
        /\ \/ s = "pending_approval" /\ gated' = gated \cup {d} /\ item' = item
              /\ execution' = [execution EXCEPT ![d] = "processing"]
           \/ s = "queued" /\ gated' = gated /\ QueueAt(d, time)
              /\ execution' = [execution EXCEPT ![d] = "pending"]
  BY DEF ProcessEnrolment
<1>4. ~Queued(d) /\ d \notin gated \ decided
  BY <1>1, OutreachAssumption
     DEF QueueInv, QueuedExist, WaitingForDecision, Exists, DraftStatuses
<1>5. WaitingForDecision'
  <2> SUFFICES ASSUME NEW x \in gated' \ decided'
               PROVE  draft'[x] = "pending_approval" /\ ~Queued(x)'
    BY DEF WaitingForDecision
  <2>1. x \in Drafts
    BY <1>3 DEF QueueInv, QueueTypeOK
  <2>2. CASE x = d
    BY <1>2, <1>3, <1>4, <2>2 DEF Queued, QueueInv, QueueTypeOK
  <2>3. CASE x # d
    BY <1>2, <1>3, <2>1, <2>3 DEF Queued, QueueAt, QueueInv, QueueTypeOK, WaitingForDecision
  <2> QED
    BY <2>2, <2>3
<1>6. QueueInv'
  <2>1. \/ item' = item
        \/ ~Queued(d) /\ \E at \in Times : item' = [item EXCEPT ![d] = NewItem(at)]
    BY <1>3 DEF QueueAt, QueueInv, QueueTypeOK
  <2>2. \/ execution' = execution
        \/ \E x \in {"pending", "processing"} : execution' = [execution EXCEPT ![d] = x]
    BY <1>3
  <2>3. s \in DraftStatuses \ {"sent"}
    BY DEF DraftStatuses
  <2>4. /\ approval' \in [Drafts -> ApprovalStatuses \cup {None}]
        /\ gated' \subseteq Drafts /\ decided' \subseteq Drafts
    BY <1>2, <1>3 DEF QueueInv, QueueTypeOK
  <2> QED
    BY <1>2, <1>3, <1>5, <2>1, <2>2, <2>3, <2>4, RowsStep
<1>7. Advanced(e) \in Enrolment /\ Advanced(e).step = p + 1
  <2>1. time + StepDelay \in Nat
    BY DueIsNatural DEF QueueInv
  <2>2. p + 1 \in Nat
    BY <1>1
  <2>3. CASE p + 1 \in steps
    <3>1. Advanced(e) = [e EXCEPT !.step = p + 1, !.due = time + StepDelay]
      BY <2>3 DEF Advanced
    <3> QED
      BY <1>1, <2>1, <2>2, <3>1 DEF Enrolment
  <2>4. CASE p + 1 \notin steps
    <3>1. Advanced(e) = [e EXCEPT !.step = p + 1, !.due = None, !.status = "completed"]
      BY <2>4 DEF Advanced
    <3> QED
      BY <1>1, <2>2, <3>1 DEF Enrolment
  <2> QED
    BY <2>3, <2>4
<1>8. SequencesTypeOK'
  <2>1. enrolment' \in [Contacts -> Enrolment \cup {None}]
    BY <1>2, <1>7 DEF SequencesTypeOK
  <2>2. <<c, p>> \in (Contacts \X Nat)
    BY <1>1
  <2>3. made' \in [Drafts -> (Contacts \X Nat) \cup {None}]
    BY <1>2, <2>2 DEF SequencesTypeOK
  <2> QED
    BY <1>2, <2>1, <2>3 DEF SequencesTypeOK
<1>9. StepsMadeOnce'
  <2>1. \A x \in Drafts : made'[x] = IF x = d THEN <<c, p>> ELSE made[x]
    BY <1>2 DEF SequencesTypeOK
  <2>2. \A x \in Drafts : made[x] # None => made[x] # <<c, p>>
    BY <1>1 DEF StepsMadeOnce, SequencesTypeOK
  <2>3. \A k \in Contacts : enrolment'[k] = IF k = c THEN Advanced(e) ELSE enrolment[k]
    BY <1>2 DEF SequencesTypeOK
  <2>4. ASSUME NEW x \in Drafts, NEW y \in Drafts, made'[x] # None, made'[x] = made'[y]
        PROVE  x = y
    BY <2>1, <2>2, <2>4 DEF StepsMadeOnce
  <2>5. ASSUME NEW x \in Drafts, made'[x] # None
        PROVE  enrolment'[made'[x][1]] # None /\ made'[x][2] < enrolment'[made'[x][1]].step
    <3>1. CASE x = d
      <4>1. made'[x] = <<c, p>> /\ enrolment'[c] = Advanced(e)
        BY <2>1, <2>3, <3>1
      <4>2. Advanced(e) # None
        BY <1>7, SequencesAssumption
      <4> QED
        BY <1>1, <1>7, <4>1, <4>2
    <3>2. CASE x # d
      <4>1. /\ made'[x] = made[x] /\ made[x] # None /\ made[x][1] \in Contacts /\ made[x][2] \in Nat
            /\ enrolment[made[x][1]] # None /\ made[x][2] < enrolment[made[x][1]].step
        BY <2>1, <2>5, <3>2 DEF StepsMadeOnce, SequencesTypeOK
      <4>2. CASE made[x][1] = c
        <5>1. Advanced(e) # None /\ made[x][2] < p
          BY <1>7, <4>1, <4>2, SequencesAssumption
        <5>2. made[x][2] < p + 1
          BY <1>1, <4>1, <5>1
        <5> QED
          BY <1>7, <2>3, <4>1, <4>2, <5>1, <5>2
      <4>3. CASE made[x][1] # c
        BY <2>3, <4>1, <4>3
      <4> QED
        BY <4>2, <4>3
    <3> QED
      BY <3>1, <3>2
  <2> QED
    BY <2>4, <2>5 DEF StepsMadeOnce
<1>10. StepsOnlyInDrafts'
  BY <1>2 DEF StepsOnlyInDrafts
<1> QED
  BY <1>6, <1>8, <1>9, <1>10

LEMMA SequenceStep ==
    ASSUME OutreachInv, UNCHANGED queueVars,
           \/ \E r \in Editors : CommitStep(r) \/ \E p \in Positions : BeginStep(r, p)
           \/ \E S \in SUBSET Contacts : BeginLaunch(S)
           \/ CommitLaunch \/ LaunchFails
           \/ \E v \in Events : RecordEvent(v)
           \/ \E c \in Contacts : Enroll(c) \/ PauseEnrolment(c)
    PROVE  OutreachInv'
<1> USE DEF OutreachInv
<1>0. QueueInv' /\ QueueTypeOK
  BY QueueInvNext DEF QueueInv
<1>1. ASSUME NEW r \in Editors, CommitStep(r) PROVE OutreachInv'
  <2>1. /\ steps' = steps \cup {editing[r]} /\ editing[r] \in Positions
        /\ editing' = [editing EXCEPT ![r] = None]
        /\ UNCHANGED <<sequence, launch, enrolment, made, events>>
    BY <1>1 DEF CommitStep, SequencesTypeOK
  <2>2. SequencesTypeOK'
    BY <2>1 DEF SequencesTypeOK
  <2>3. StepsMadeOnce' /\ StepsOnlyInDrafts'
    BY <2>1 DEF StepsMadeOnce, StepsOnlyInDrafts, SequencesTypeOK
  <2> QED
    BY <1>0, <2>2, <2>3
<1>2. ASSUME NEW r \in Editors, NEW p \in Positions, BeginStep(r, p) PROVE OutreachInv'
  <2>1. /\ sequence = "draft" /\ editing' = [editing EXCEPT ![r] = p]
        /\ UNCHANGED <<sequence, steps, launch, enrolment, made, events>>
    BY <1>2 DEF BeginStep
  <2>2. SequencesTypeOK'
    BY <2>1 DEF SequencesTypeOK
  <2>3. StepsMadeOnce' /\ StepsOnlyInDrafts'
    BY <2>1 DEF StepsMadeOnce, StepsOnlyInDrafts
  <2> QED
    BY <1>0, <2>2, <2>3
<1>3. CASE (\E S \in SUBSET Contacts : BeginLaunch(S)) \/ LaunchFails
  <2>1. /\ launch' \in (SUBSET Contacts) \cup {None}
        /\ UNCHANGED <<sequence, steps, editing, enrolment, made, events>>
    BY <1>3 DEF BeginLaunch, LaunchFails
  <2>2. SequencesTypeOK'
    BY <2>1 DEF SequencesTypeOK
  <2>3. StepsMadeOnce' /\ StepsOnlyInDrafts'
    BY <2>1 DEF StepsMadeOnce, StepsOnlyInDrafts
  <2> QED
    BY <1>0, <2>2, <2>3
<1>4. CASE CommitLaunch
  <2>1. /\ launch # None /\ launch \in SUBSET Contacts
        /\ EnrolAll(launch, time + StepDelay)
        /\ sequence = "draft" => ~SequenceLocked
        /\ sequence' = "active" /\ launch' = None
        /\ UNCHANGED <<steps, editing, made, events>>
    BY <1>4 DEF CommitLaunch, SequencesTypeOK
  <2>2. enrolment' \in [Contacts -> Enrolment \cup {None}] /\ StepsMadeOnce'
    BY <1>0, <2>1, EnrolKeeps, DueIsNatural
  <2>3. SequencesTypeOK'
    BY <2>1, <2>2 DEF SequencesTypeOK
  <2>4. \A r \in Editors : editing[r] = None
    BY <2>1 DEF StepsOnlyInDrafts, SequenceLocked
  <2>5. StepsOnlyInDrafts'
    BY <2>1, <2>4 DEF StepsOnlyInDrafts
  <2> QED
    BY <1>0, <2>2, <2>3, <2>5
<1>5. ASSUME NEW c \in Contacts, Enroll(c) PROVE OutreachInv'
  <2>1. /\ EnrolAll({c}, time + StepDelay)
        /\ UNCHANGED <<sequence, steps, editing, launch, made, events>>
    BY <1>5 DEF Enroll
  <2>2. enrolment' \in [Contacts -> Enrolment \cup {None}] /\ StepsMadeOnce'
    BY <1>0, <2>1, EnrolKeeps, DueIsNatural
  <2>3. SequencesTypeOK' /\ StepsOnlyInDrafts'
    BY <2>1, <2>2 DEF SequencesTypeOK, StepsOnlyInDrafts
  <2> QED
    BY <1>0, <2>2, <2>3
<1>6. ASSUME NEW v \in Events, RecordEvent(v) PROVE OutreachInv'
  <2>1. /\ Automated /\ events' = events \cup {v}
        /\ UNCHANGED <<sequence, steps, editing, launch, made>>
    BY <1>6 DEF RecordEvent
  <2>2. enrolment' \in [Contacts -> Enrolment \cup {None}] /\ StepsMadeOnce'
    <3>1. CASE UNCHANGED enrolment
      BY <2>1, <3>1 DEF SequencesTypeOK, StepsMadeOnce
    <3>2. ASSUME NEW c \in Contacts, EnrolAll({c}, time)
          PROVE  enrolment' \in [Contacts -> Enrolment \cup {None}] /\ StepsMadeOnce'
      BY <1>0, <2>1, <3>2, EnrolKeeps, DueIsNatural
    <3> QED
      BY <2>1, <3>1, <3>2 DEF Automated
  <2>3. SequencesTypeOK' /\ StepsOnlyInDrafts'
    BY <2>1, <2>2 DEF SequencesTypeOK, StepsOnlyInDrafts
  <2> QED
    BY <1>0, <2>2, <2>3
<1>7. ASSUME NEW c \in Contacts, PauseEnrolment(c) PROVE OutreachInv'
  <2>1. /\ enrolment[c] # None
        /\ enrolment' = [enrolment EXCEPT ![c].status = "paused"]
        /\ UNCHANGED <<sequence, steps, editing, launch, made, events>>
    BY <1>7 DEF PauseEnrolment, Due
  <2>2. PICK now \in Enrolment : now = [enrolment[c] EXCEPT !.status = "paused"]
    BY <2>1 DEF SequencesTypeOK, Enrolment
  <2>3. now.step = enrolment[c].step /\ now # None
    BY <2>1, <2>2, SequencesAssumption DEF SequencesTypeOK, Enrolment
  <2>4. enrolment' = [enrolment EXCEPT ![c] = now]
    BY <2>1, <2>2
  <2>5. SequencesTypeOK'
    BY <2>1, <2>4 DEF SequencesTypeOK
  <2>6. \A k \in Contacts : enrolment[k] # None
          => enrolment'[k] # None /\ enrolment'[k].step = enrolment[k].step
    BY <2>3, <2>4 DEF SequencesTypeOK
  <2>7. \A d \in Drafts : made[d] # None => made[d][1] \in Contacts
    BY DEF SequencesTypeOK
  <2>8. StepsMadeOnce' /\ StepsOnlyInDrafts'
    BY <2>1, <2>6, <2>7 DEF StepsMadeOnce, StepsOnlyInDrafts
  <2> QED
    BY <1>0, <2>5, <2>8
<1> QED
  BY <1>1, <1>2, <1>3, <1>4, <1>5, <1>6, <1>7

LEMMA OutreachInvNext == OutreachInv /\ [OutreachNext]_outreachVars => OutreachInv'
<1> SUFFICES ASSUME OutreachInv, [OutreachNext]_outreachVars PROVE OutreachInv'
  OBVIOUS
<1>1. CASE (QueueNext \/ UNCHANGED queueVars) /\ UNCHANGED sequenceVars
  <2>1. QueueInv'
    BY <1>1, QueueInvNext DEF OutreachInv
  <2>2. SequencesTypeOK' /\ StepsMadeOnce' /\ StepsOnlyInDrafts'
    BY <1>1 DEF OutreachInv, sequenceVars, SequencesTypeOK, StepsMadeOnce, StepsOnlyInDrafts
  <2> QED
    BY <2>1, <2>2 DEF OutreachInv
<1>2. ASSUME NEW c \in Contacts, NEW d \in Drafts, ProcessEnrolment(c, d) PROVE OutreachInv'
  BY <1>2, EnrolmentStep
<1>3. CASE /\ UNCHANGED queueVars
           /\ \/ \E r \in Editors : CommitStep(r) \/ \E p \in Positions : BeginStep(r, p)
              \/ \E S \in SUBSET Contacts : BeginLaunch(S)
              \/ CommitLaunch \/ LaunchFails
              \/ \E v \in Events : RecordEvent(v)
              \/ \E c \in Contacts : Enroll(c) \/ PauseEnrolment(c)
  BY <1>3, SequenceStep
<1>4. ASSUME NEW r \in Editors, CommitStep(r) PROVE UNCHANGED queueVars
  BY <1>4 DEF CommitStep
<1>5. ASSUME NEW r \in Editors, NEW p \in Positions, BeginStep(r, p) PROVE UNCHANGED queueVars
  BY <1>5 DEF BeginStep
<1>6. ASSUME NEW c \in Contacts, Enroll(c) \/ PauseEnrolment(c) PROVE UNCHANGED queueVars
  BY <1>6 DEF Enroll, PauseEnrolment
<1>7. ASSUME NEW v \in Events, RecordEvent(v) PROVE UNCHANGED queueVars
  BY <1>7 DEF RecordEvent
<1>8. ASSUME NEW S \in SUBSET Contacts, BeginLaunch(S) PROVE UNCHANGED queueVars
  BY <1>8 DEF BeginLaunch
<1>9. CommitLaunch \/ LaunchFails => UNCHANGED queueVars
  BY DEF CommitLaunch, LaunchFails
<1> QED
  BY <1>1, <1>2, <1>3, <1>4, <1>5, <1>6, <1>7, <1>8, <1>9
     DEF OutreachNext, SequencesNext, outreachVars

\* A sequence that was launched keeps its steps, however many requests edit it and
\* launch a campaign on it at once.
THEOREM LaunchedStepsAreKept == OutreachSpec => LaunchedStepsStay
<1>1. ASSUME OutreachInv, [OutreachNext]_outreachVars, sequence = "active" PROVE steps' = steps
  <2>1. \A r \in Editors : editing[r] = None
    BY <1>1 DEF OutreachInv, StepsOnlyInDrafts
  <2>2. \A r \in Editors : ~CommitStep(r)
    BY <2>1 DEF CommitStep
  <2>3. CASE UNCHANGED sequenceVars \/ UNCHANGED outreachVars
    BY <2>3 DEF sequenceVars, outreachVars
  <2>4. CASE SequencesNext
    BY <2>2, <2>4
       DEF SequencesNext, BeginStep, BeginLaunch, CommitLaunch, LaunchFails, RecordEvent, Enroll,
           PauseEnrolment, ProcessEnrolment
  <2> QED
    BY <1>1, <2>3, <2>4 DEF OutreachNext
<1>2. OutreachInv /\ [OutreachNext]_outreachVars => [sequence = "active" => steps' = steps]_outreachVars
  BY <1>1
<1> QED
  BY <1>2, OutreachInvInit, OutreachInvNext, PTL DEF OutreachSpec, LaunchedStepsStay

-----------------------------------------------------------------------------
(* One message, seen from outside: the claims that are open on it, and the  *)
(* step of SendItem that each step of the queue is.                         *)

StatusOf(d) == IF Queued(d) THEN item[d].status ELSE "none"
Untouched(d) == {w \in Workers : d \in Untried(w)}
Busy(d) == {w \in Workers : d \in Held(w) \ Untried(w)}

MessageRests(d) ==
    /\ StatusOf(d)' = StatusOf(d) /\ Attempts(d)' = Attempts(d)
    /\ Untouched(d)' = Untouched(d) /\ Busy(d)' = Busy(d) /\ handed'[d] = handed[d]
MessageQueued(d) ==
    /\ StatusOf(d) = "none" /\ StatusOf(d)' = "pending" /\ Attempts(d)' = Attempts(d)
    /\ Untouched(d)' = Untouched(d) /\ Busy(d)' = Busy(d) /\ handed'[d] = handed[d]
MessageClaimed(d, w) ==
    /\ StatusOf(d) \in {"pending", "retry", "processing"} /\ StatusOf(d)' = "processing"
    /\ Attempts(d)' = Attempts(d) + 1
    /\ w \notin Untouched(d) /\ Untouched(d)' = Untouched(d) \cup {w} /\ Busy(d)' = Busy(d)
    /\ handed'[d] = handed[d]
MessageTried(d, w) ==
    /\ StatusOf(d)' = StatusOf(d) /\ Attempts(d)' = Attempts(d)
    /\ w \in Untouched(d) /\ w \notin Busy(d)
    /\ Untouched(d)' = Untouched(d) \ {w} /\ Busy(d)' = Busy(d) \cup {w}
    /\ handed'[d] \in {handed[d], handed[d] + 1}
MessageRecorded(d, w) ==
    /\ StatusOf(d)' \in {"sent", "retry", "failed"} /\ Attempts(d)' = Attempts(d)
    /\ w \in Busy(d) /\ Untouched(d)' = Untouched(d) /\ Busy(d)' = Busy(d) \ {w}
    /\ handed'[d] = handed[d]
MessageLost(d, w) ==
    /\ StatusOf(d)' = StatusOf(d) /\ Attempts(d)' = Attempts(d) /\ handed'[d] = handed[d]
    /\ \/ w \in Untouched(d) /\ Untouched(d)' = Untouched(d) \ {w} /\ Busy(d)' = Busy(d)
       \/ w \in Busy(d) /\ Busy(d)' = Busy(d) \ {w} /\ Untouched(d)' = Untouched(d)

MessageSteps(d) ==
    \/ MessageRests(d) \/ MessageQueued(d)
    \/ \E w \in Workers : \/ MessageClaimed(d, w) \/ MessageTried(d, w)
                          \/ MessageRecorded(d, w) \/ MessageLost(d, w)

LEMMA OpenClaims ==
    ASSUME QueueInv, NEW d \in Drafts
    PROVE  /\ Untouched(d) = {w \in Workers : batch[w] # None /\ d \in batch[w].left}
           /\ Busy(d) = {w \in Workers : batch[w] # None /\ batch[w].outcome[d] # None}
<1>1. \A w \in Workers : batch[w] # None /\ d \in batch[w].left => batch[w].outcome[d] = None
  BY DEF QueueInv, BatchesInv, FineBatch
<1>2. \A w \in Workers : d \in Untried(w) <=> batch[w] # None /\ d \in batch[w].left
  BY DEF Untried, Working
<1> QED
  BY <1>1, <1>2, HeldOf DEF Untouched, Busy, QueueInv

ClaimsKnown ==
    \A d \in Drafts :
       /\ Untouched(d) = {w \in Workers : batch[w] # None /\ d \in batch[w].left}
       /\ Busy(d) = {w \in Workers : batch[w] # None /\ batch[w].outcome[d] # None}

LEMMA OpenClaimsKnown == QueueInv => ClaimsKnown
BY OpenClaims DEF ClaimsKnown

LEMMA OpenClaimsNext == QueueInv' => ClaimsKnown'
BY OpenClaimsKnown, PTL

LEMMA QueueAtMessage ==
    ASSUME QueueInv, NEW d \in Drafts, NEW e \in Drafts, UNCHANGED <<batch, handed>>,
           \/ item' = item
           \/ ~Queued(e) /\ \E at \in Times : item' = [item EXCEPT ![e] = NewItem(at)]
    PROVE  MessageSteps(d)
<1>1. Untouched(d)' = Untouched(d) /\ Busy(d)' = Busy(d) /\ handed'[d] = handed[d]
  BY DEF Untouched, Busy, Untried, Held, Working
<1>2. CASE item'[d] = item[d]
  BY <1>1, <1>2 DEF MessageSteps, MessageRests, StatusOf, Attempts, Queued
<1>3. CASE item'[d] # item[d]
  <2>1. PICK at \in Times : item' = [item EXCEPT ![e] = NewItem(at)] /\ ~Queued(e)
    BY <1>3
  <2>2. e = d /\ item'[d] = NewItem(at)
    BY <1>3, <2>1 DEF QueueInv, QueueTypeOK
  <2>3. NewItem(at) \in Item
    BY OutreachAssumption DEF NewItem, Item, Times, QueueStatuses
  <2>4. NewItem(at) # None
    BY <2>3, NoneIsNoRow
  <2>5. StatusOf(d) = "none" /\ Attempts(d) = 0
    BY <2>1, <2>2 DEF StatusOf, Attempts
  <2>6. StatusOf(d)' = "pending" /\ Attempts(d)' = 0
    BY <2>2, <2>4 DEF StatusOf, Attempts, Queued, NewItem
  <2> QED
    BY <1>1, <2>5, <2>6 DEF MessageSteps, MessageQueued
<1> QED
  BY <1>2, <1>3

LEMMA ClaimMessage ==
    ASSUME QueueInv, QueueInv', NEW d \in Drafts, NEW w \in Workers, ClaimQueue(w)
    PROVE  MessageSteps(d)
<1>1. PICK S \in SUBSET {x \in Drafts : Claimable(x) /\ ItemFree(w, x)} :
        /\ item' = [x \in Drafts |->
              IF x \in S THEN [item[x] EXCEPT !.status = "processing", !.lockedAt = time,
                                              !.attempts = @ + 1]
              ELSE item[x]]
        /\ batch' = [batch EXCEPT ![w] =
              [now |-> time, left |-> S,
               tries |-> [x \in Drafts |-> IF x \in S THEN item[x].attempts + 1 ELSE 0],
               ready |-> None, outcome |-> [x \in Drafts |-> None]]]
  BY DEF ClaimQueue
<1>2. batch[w] = None /\ handed' = handed
  BY DEF ClaimQueue, Working
<1>3. \A v \in Workers \ {w} : batch'[v] = batch[v]
  BY <1>1 DEF QueueInv, QueueTypeOK
<1>4. batch'[w].left = S /\ batch'[w].outcome[d] = None
  BY <1>1 DEF QueueInv, QueueTypeOK
<1>5. Busy(d)' = Busy(d)
  <2>1. Busy(d)' = {v \in Workers : batch'[v] # None /\ batch'[v].outcome[d] # None}
    BY OpenClaimsNext DEF ClaimsKnown
  <2> QED
    <3>1. Busy(d) = {v \in Workers : batch[v] # None /\ batch[v].outcome[d] # None}
      BY OpenClaims
    <3> QED
      BY <1>2, <1>3, <1>4, <2>1, <3>1
<1>6. Untouched(d)' = {v \in Workers : batch'[v] # None /\ d \in batch'[v].left}
  BY OpenClaimsNext DEF ClaimsKnown
<1>7. CASE d \in S
  <2>1. item[d] # None /\ item[d] \in Item /\ item[d].status \in {"pending", "retry", "processing"}
    BY <1>7 DEF Claimable, Queued, QueueInv, QueueTypeOK
  <2>2. item'[d] = [item[d] EXCEPT !.status = "processing", !.lockedAt = time,
                                   !.attempts = item[d].attempts + 1]
    BY <1>1, <1>7
  <2>3. item'[d].status = "processing" /\ item'[d].attempts = item[d].attempts + 1
    BY <2>1, <2>2 DEF Item
  <2>4. item'[d] # None
    <3>1. item'[d] \in Item \cup {None}
      BY DEF QueueInv, QueueTypeOK
    <3>2. [item[d] EXCEPT !.status = "processing", !.lockedAt = time,
                          !.attempts = item[d].attempts + 1] \in Item
      <4>1. item[d].attempts + 1 \in Nat
        BY <2>1 DEF Item
      <4>2. time \in Times
        BY DEF QueueInv, QueueTypeOK
      <4> QED
        BY <2>1, <4>1, <4>2 DEF Item, QueueStatuses
    <3> QED
      BY <2>2, <3>2, NoneIsNoRow
  <2>5. batch'[w] # None
    <3>1. \A b \in Batch : b # None
      BY NoneIsNoRow
    <3>2. d \in Held(w)'
      <4>1. batch'[w] \in Batch \cup {None}
        BY DEF QueueInv, QueueTypeOK
      <4>2. batch'[w] = [now |-> time, left |-> S,
               tries |-> [x \in Drafts |-> IF x \in S THEN item[x].attempts + 1 ELSE 0],
               ready |-> None, outcome |-> [x \in Drafts |-> None]]
        BY <1>1 DEF QueueInv, QueueTypeOK
      <4>3. \A x \in S : item[x] \in Item
        BY DEF Claimable, Queued, QueueInv, QueueTypeOK
      <4>4. [x \in Drafts |-> IF x \in S THEN item[x].attempts + 1 ELSE 0] \in [Drafts -> Nat]
        BY <4>3 DEF Item
      <4>5. batch'[w] \in Batch
        BY <4>2, <4>4 DEF Batch, QueueInv, QueueTypeOK
      <4> QED
        BY <1>4, <1>7, <3>1, <4>5 DEF Held, Working
    <3> QED
      BY <3>2 DEF Held, Working
  <2>6. w \notin Untouched(d) /\ Untouched(d)' = Untouched(d) \cup {w}
    BY <1>2, <1>3, <1>4, <1>6, <1>7, <2>5, OpenClaims
  <2>7. StatusOf(d) = item[d].status /\ StatusOf(d)' = "processing"
    BY <2>1, <2>3, <2>4 DEF StatusOf, Queued
  <2>8. Attempts(d)' = Attempts(d) + 1
    BY <2>1, <2>3, <2>4 DEF Attempts, Queued
  <2> QED
    BY <1>2, <1>5, <2>1, <2>6, <2>7, <2>8 DEF MessageSteps, MessageClaimed
<1>8. CASE d \notin S
  <2>1. item'[d] = item[d]
    BY <1>1, <1>8
  <2>2. Untouched(d)' = Untouched(d)
    BY <1>2, <1>3, <1>4, <1>6, <1>8, OpenClaims
  <2> QED
    BY <1>2, <1>5, <2>1, <2>2 DEF MessageSteps, MessageRests, StatusOf, Attempts, Queued
<1> QED
  BY <1>7, <1>8

LEMMA SettleMessage ==
    ASSUME QueueInv, QueueInv', NEW d \in Drafts, NEW w \in Workers, NEW e \in Drafts, AtWork(w, e),
           NEW status \in {"sent", "retry", "failed"}, NEW at, NEW mirrored,
           at \in Nat \cup {None}, mirrored \in BOOLEAN,
           Settle(w, e, status, at, mirrored), item' = item,
           handed' \in {handed, [handed EXCEPT ![e] = @ + 1]}
    PROVE  MessageSteps(d)
<1> DEFINE out == Settled(status, at, draft[e], mirrored)
<1>1. batch[w] # None /\ batch[w] \in Batch /\ e \in batch[w].left
  BY HeldOf DEF AtWork, Working, QueueInv
<1>2. out # None
  <2>1. draft[e] \in DraftStatuses \cup {None}
    BY DEF QueueInv, QueueTypeOK
  <2>2. out \in Outcome
    BY <2>1 DEF Settled, Outcome
  <2> HIDE DEF out
  <2> QED
    BY <2>2, NoneIsNoRow
<1>3. batch' = [batch EXCEPT ![w] = [batch[w] EXCEPT !.left = @ \ {e}, !.ready = e, !.outcome[e] = out]]
  BY DEF Settle, Settled
<1> HIDE DEF out
<1>4. \A v \in Workers \ {w} : batch'[v] = batch[v]
  BY <1>3 DEF QueueInv, QueueTypeOK
<1>5. /\ batch'[w].left = batch[w].left \ {e}
      /\ batch'[w].outcome[d] = IF d = e THEN out ELSE batch[w].outcome[d]
  BY <1>1, <1>3 DEF Batch, QueueInv, QueueTypeOK
<1>6. batch'[w] # None
  <2>1. [batch[w] EXCEPT !.left = @ \ {e}, !.ready = e, !.outcome[e] = out] \in Batch
    <3>1. out \in Outcome
      <4>1. draft[e] \in DraftStatuses \cup {None}
        BY DEF QueueInv, QueueTypeOK
      <4> QED
        BY <4>1 DEF out, Settled, Outcome
    <3> QED
      BY <1>1, <3>1 DEF Batch
  <2> QED
    BY <1>3, <2>1, NoneIsNoRow DEF QueueInv, QueueTypeOK
<1>7. /\ Untouched(d)' = {v \in Workers : batch'[v] # None /\ d \in batch'[v].left}
      /\ Busy(d)' = {v \in Workers : batch'[v] # None /\ batch'[v].outcome[d] # None}
  BY OpenClaimsNext DEF ClaimsKnown
<1>8. StatusOf(d)' = StatusOf(d) /\ Attempts(d)' = Attempts(d)
  BY DEF StatusOf, Attempts, Queued
<1>9. CASE d = e
  <2>1. Untouched(d)' = Untouched(d) \ {w} /\ w \in Untouched(d)
    BY <1>1, <1>4, <1>5, <1>6, <1>7, <1>9, OpenClaims
  <2>2. Busy(d)' = Busy(d) \cup {w}
    BY <1>2, <1>4, <1>5, <1>6, <1>7, <1>9, OpenClaims
  <2>3. w \notin Busy(d)
    BY <2>1 DEF Untouched, Busy
  <2>4. handed'[d] \in {handed[d], handed[d] + 1}
    BY <1>9 DEF QueueInv, QueueTypeOK
  <2> QED
    BY <1>8, <2>1, <2>2, <2>3, <2>4 DEF MessageSteps, MessageTried
<1>10. CASE d # e
  <2>1. Untouched(d)' = Untouched(d) /\ Busy(d)' = Busy(d)
    BY <1>1, <1>4, <1>5, <1>6, <1>7, <1>10, OpenClaims
  <2>2. handed'[d] = handed[d]
    BY <1>10 DEF QueueInv, QueueTypeOK
  <2> QED
    BY <1>8, <2>1, <2>2 DEF MessageSteps, MessageRests
<1> QED
  BY <1>9, <1>10

LEMMA EndMessage ==
    ASSUME QueueInv, QueueInv', NEW d \in Drafts, NEW w \in Workers, CommitQueue(w) \/ WorkerDies(w)
    PROVE  MessageSteps(d)
<1>1. batch[w] # None /\ batch' = [batch EXCEPT ![w] = None] /\ handed' = handed
  BY DEF CommitQueue, WorkerDies, Working
<1>2. \A v \in Workers : batch'[v] = IF v = w THEN None ELSE batch[v]
  BY <1>1 DEF QueueInv, QueueTypeOK
<1>3. /\ Untouched(d)' = {v \in Workers : batch'[v] # None /\ d \in batch'[v].left}
      /\ Busy(d)' = {v \in Workers : batch'[v] # None /\ batch'[v].outcome[d] # None}
  BY OpenClaimsNext DEF ClaimsKnown
<1>4. Untouched(d)' = Untouched(d) \ {w} /\ Busy(d)' = Busy(d) \ {w}
  BY <1>2, <1>3, OpenClaims
<1>5. w \notin Untouched(d) \/ w \notin Busy(d)
  BY DEF Untouched, Busy
<1>6. CASE item'[d] = item[d]
  <2>1. StatusOf(d)' = StatusOf(d) /\ Attempts(d)' = Attempts(d)
    BY <1>6 DEF StatusOf, Attempts, Queued
  <2>2. CASE w \in Untouched(d) \/ w \in Busy(d)
    BY <1>1, <1>4, <1>5, <2>1, <2>2 DEF MessageSteps, MessageLost
  <2>3. CASE w \notin Untouched(d) /\ w \notin Busy(d)
    BY <1>1, <1>4, <2>1, <2>3 DEF MessageSteps, MessageRests
  <2> QED
    BY <2>2, <2>3
<1>7. CASE item'[d] # item[d]
  <2>1. CommitQueue(w) /\ d \in Flushed(w)
    BY <1>7 DEF CommitQueue, WorkerDies
  <2>2. batch[w].outcome[d] \in Outcome /\ Queued(d) /\ item[d] \in Item /\ batch[w] \in Batch
    BY <1>1, <2>1, HeldOf
       DEF Flushed, QueueInv, BatchesInv, FineBatch, QueueTypeOK, Batch, Queued
  <2>3. item'[d] = [item[d] EXCEPT !.status = batch[w].outcome[d].status,
                                   !.available = IF batch[w].outcome[d].available = None
                                                 THEN item[d].available
                                                 ELSE batch[w].outcome[d].available]
    BY <2>1 DEF CommitQueue
  <2>4. item'[d].status = batch[w].outcome[d].status /\ item'[d].attempts = item[d].attempts
    BY <2>2, <2>3 DEF Item
  <2>5. batch[w].outcome[d].status \in {"sent", "retry", "failed"}
    BY <2>2 DEF Outcome
  <2>6. Queued(d)'
    <3>1. /\ batch[w].outcome[d].status \in QueueStatuses
          /\ batch[w].outcome[d].available \in Nat \cup {None}
      BY <2>2 DEF Outcome, QueueStatuses
    <3>2. item'[d] \in Item
      BY <2>2, <2>3, <3>1 DEF Item
    <3> QED
      BY <3>2, NoneIsNoRow DEF Queued
  <2>7. w \in Busy(d)
    BY <1>1, <2>1, OpenClaims DEF Flushed
  <2>8. StatusOf(d)' \in {"sent", "retry", "failed"}
    BY <2>4, <2>5, <2>6 DEF StatusOf
  <2>9. Attempts(d)' = Attempts(d)
    BY <2>2, <2>4, <2>6 DEF Attempts
  <2> QED
    BY <1>1, <1>4, <1>5, <2>7, <2>8, <2>9 DEF MessageSteps, MessageRecorded
<1> QED
  BY <1>6, <1>7

LEMMA FlushMessage ==
    ASSUME QueueInv, QueueInv', NEW d \in Drafts, NEW w \in Workers, Flush(w)
    PROVE  MessageSteps(d)
<1>1. /\ batch[w] # None /\ batch[w] \in Batch /\ handed' = handed /\ item' = item
      /\ batch' = [batch EXCEPT ![w].ready = None]
  BY HeldOf DEF Flush, Working, QueueInv
<1>2. \A v \in Workers \ {w} : batch'[v] = batch[v]
  BY <1>1 DEF QueueInv, QueueTypeOK
<1>3. /\ batch'[w].left = batch[w].left /\ batch'[w].outcome = batch[w].outcome
      /\ batch'[w] # None
  <2>1. [batch[w] EXCEPT !.ready = None] \in Batch
    BY <1>1 DEF Batch
  <2>2. batch'[w] = [batch[w] EXCEPT !.ready = None]
    BY <1>1 DEF QueueInv, QueueTypeOK
  <2>3. batch'[w] # None
    BY <2>1, <2>2, NoneIsNoRow
  <2> QED
    BY <1>1, <2>2, <2>3 DEF Batch
<1>4. /\ Untouched(d)' = {v \in Workers : batch'[v] # None /\ d \in batch'[v].left}
      /\ Busy(d)' = {v \in Workers : batch'[v] # None /\ batch'[v].outcome[d] # None}
  BY OpenClaimsNext DEF ClaimsKnown
<1>5. Untouched(d)' = Untouched(d) /\ Busy(d)' = Busy(d)
  BY <1>1, <1>2, <1>3, <1>4, OpenClaims
<1> QED
  BY <1>1, <1>5 DEF MessageSteps, MessageRests, StatusOf, Attempts, Queued

LEMMA EveryMessageSteps ==
    ASSUME OutreachInv, [OutreachNext]_outreachVars, NEW d \in Drafts
    PROVE  MessageSteps(d)
<1>1. QueueInv /\ QueueInv'
  BY OutreachInvNext DEF OutreachInv
<1>2. CASE UNCHANGED <<item, batch, handed>>
  BY <1>1, <1>2, QueueAtMessage
<1>3. ASSUME NEW e \in Drafts,
             \/ CreateDraft(e) \/ ScheduleDraft(e) \/ RequestApproval(e)
             \/ \E granted \in BOOLEAN : DecideApproval(e, granted)
             \/ \E c \in Contacts : ProcessEnrolment(c, e)
      PROVE  MessageSteps(d)
  <2>1. UNCHANGED <<batch, handed>>
    BY <1>3 DEF CreateDraft, ScheduleDraft, RequestApproval, DecideApproval, ProcessEnrolment
  <2>2. \/ item' = item
        \/ ~Queued(e) /\ \E at \in Times : item' = [item EXCEPT ![e] = NewItem(at)]
    <3>1. time \in Times
      BY <1>1 DEF QueueInv, QueueTypeOK
    <3> QED
      BY <1>3, <3>1
         DEF CreateDraft, ScheduleDraft, RequestApproval, DecideApproval, ProcessEnrolment, QueueAt
  <2> QED
    BY <1>1, <2>1, <2>2, QueueAtMessage
<1>4. ASSUME NEW w \in Workers, ClaimQueue(w) PROVE MessageSteps(d)
  BY <1>1, <1>4, ClaimMessage
<1>5. ASSUME NEW w \in Workers, Flush(w) PROVE MessageSteps(d)
  BY <1>1, <1>5, FlushMessage
<1>6. ASSUME NEW w \in Workers, CommitQueue(w) \/ WorkerDies(w) PROVE MessageSteps(d)
  BY <1>1, <1>6, EndMessage
<1>7. ASSUME NEW w \in Workers, NEW e \in Drafts, Try(w, e) PROVE MessageSteps(d)
  <2> DEFINE Later(code) == batch[w].now + Delay[code]
  <2>1. PICK status \in {"sent", "retry", "failed"}, code \in RetryCodes, mirrored \in BOOLEAN :
          /\ Settle(w, e, status, IF status = "retry" THEN Later(code) ELSE None, mirrored)
          /\ AtWork(w, e) /\ item' = item
          /\ handed' \in {handed, [handed EXCEPT ![e] = @ + 1]}
    <3>1. CASE MailboxUnavailable(w, e)
      BY <3>1 DEF MailboxUnavailable, RetryCodes
    <3>2. CASE RateLimited(w, e)
      BY <3>2 DEF RateLimited, RetryCodes
    <3>3. CASE ProviderUnavailable(w, e)
      BY <3>3 DEF ProviderUnavailable, RetryCodes
    <3>4. CASE Send(w, e)
      BY <3>4 DEF Send, RetryCodes
    <3>5. CASE SendFails(w, e)
      BY <3>5 DEF SendFails, RetryCodes
    <3> QED
      BY <1>7, <3>1, <3>2, <3>3, <3>4, <3>5 DEF Try
  <2>2. Later(code) \in Nat
    <3>1. batch[w].now \in Nat
      BY <1>1, <2>1, HeldOf, OutreachAssumption DEF QueueInv, AtWork, Working, Batch, Times
    <3>2. Delay[code] \in Nat
      BY OutreachAssumption
    <3> QED
      BY <3>1, <3>2
  <2>3. (IF status = "retry" THEN Later(code) ELSE None) \in Nat \cup {None}
    BY <2>2
  <2> HIDE DEF Later
  <2> QED
    BY <1>1, <2>1, <2>3, SettleMessage
<1>8. CASE UNCHANGED queueVars \/ Tick
  BY <1>2, <1>8 DEF queueVars, Tick
<1>9. CASE SequencesNext
  <2>1. CASE \E c \in Contacts, e \in Drafts : ProcessEnrolment(c, e)
    BY <1>3, <2>1
  <2>2. CASE ~ \E c \in Contacts, e \in Drafts : ProcessEnrolment(c, e)
    <3>1. UNCHANGED queueVars
      BY <1>9, <2>2
         DEF SequencesNext, CommitStep, BeginStep, BeginLaunch, CommitLaunch, LaunchFails,
             RecordEvent, Enroll, PauseEnrolment
    <3> QED
      BY <1>8, <3>1
  <2> QED
    BY <2>1, <2>2
<1> QED
  BY <1>3, <1>4, <1>5, <1>6, <1>7, <1>8, <1>9 DEF OutreachNext, QueueNext, outreachVars

\* Open claims are counted: workers are finitely many.
LEMMA ClaimsAreFinite ==
    ASSUME NEW d
    PROVE  /\ IsFiniteSet(Untouched(d)) /\ IsFiniteSet(Busy(d))
           /\ Cardinality(Untouched(d)) \in Nat /\ Cardinality(Busy(d)) \in Nat
<1>1. Untouched(d) \in SUBSET Workers /\ Busy(d) \in SUBSET Workers
  BY DEF Untouched, Busy
<1>2. IsFiniteSet(Untouched(d)) /\ IsFiniteSet(Busy(d))
  BY <1>1, FS_Subset, OutreachAssumption
<1> QED
  BY <1>2, FS_CardinalityType

HandedInv ==
    \A d \in Drafts : handed[d] \in Nat /\ Attempts(d) \in Nat
                      /\ handed[d] + Cardinality(Untouched(d)) <= Attempts(d)

LEMMA HandedInvNext ==
    ASSUME OutreachInv, HandedInv, [OutreachNext]_outreachVars PROVE HandedInv'
<1> SUFFICES ASSUME NEW d \in Drafts
             PROVE  /\ handed'[d] \in Nat /\ Attempts(d)' \in Nat
                    /\ handed'[d] + Cardinality(Untouched(d)') <= Attempts(d)'
  BY DEF HandedInv
<1> DEFINE h == handed[d]
           k == Cardinality(Untouched(d))
           n == Attempts(d)
<1>1. h \in Nat /\ n \in Nat /\ k \in Nat /\ h + k <= n /\ IsFiniteSet(Untouched(d))
  BY ClaimsAreFinite DEF HandedInv
<1>2. MessageSteps(d)
  BY EveryMessageSteps
<1>3. CASE MessageRests(d) \/ MessageQueued(d)
  BY <1>1, <1>3 DEF MessageRests, MessageQueued
<1>4. ASSUME NEW w \in Workers, MessageClaimed(d, w)
      PROVE  /\ handed'[d] \in Nat /\ Attempts(d)' \in Nat
             /\ handed'[d] + Cardinality(Untouched(d)') <= Attempts(d)'
  <2>1. Cardinality(Untouched(d) \cup {w}) = k + 1
    BY <1>1, <1>4, FS_AddElement DEF MessageClaimed
  <2> HIDE DEF h, k, n
  <2>2. handed'[d] = h /\ Cardinality(Untouched(d)') = k + 1 /\ Attempts(d)' = n + 1
    BY <1>4, <2>1 DEF MessageClaimed, h, n
  <2> QED
    BY <1>1, <2>2
<1>5. ASSUME NEW w \in Workers, MessageTried(d, w)
      PROVE  /\ handed'[d] \in Nat /\ Attempts(d)' \in Nat
             /\ handed'[d] + Cardinality(Untouched(d)') <= Attempts(d)'
  <2>1. Cardinality(Untouched(d) \ {w}) = k - 1
    BY <1>1, <1>5, FS_RemoveElement DEF MessageTried
  <2> HIDE DEF h, k, n
  <2>2. handed'[d] \in {h, h + 1} /\ Cardinality(Untouched(d)') = k - 1 /\ Attempts(d)' = n
    BY <1>5, <2>1 DEF MessageTried, h, n
  <2> QED
    BY <1>1, <2>2
<1>6. ASSUME NEW w \in Workers, MessageRecorded(d, w) \/ MessageLost(d, w)
      PROVE  /\ handed'[d] \in Nat /\ Attempts(d)' \in Nat
             /\ handed'[d] + Cardinality(Untouched(d)') <= Attempts(d)'
  <2>1. Cardinality(Untouched(d) \ {w}) \in {k, k - 1}
    BY <1>1, FS_RemoveElement
  <2> HIDE DEF h, k, n
  <2>2. handed'[d] = h /\ Cardinality(Untouched(d)') \in {k, k - 1} /\ Attempts(d)' = n
    BY <1>6, <2>1 DEF MessageRecorded, MessageLost, h, k, n
  <2> QED
    BY <1>1, <2>2
<1> QED
  BY <1>2, <1>3, <1>4, <1>5, <1>6 DEF MessageSteps

LEMMA NothingClaimedInitially ==
    ASSUME OutreachInit, NEW d \in Drafts
    PROVE  /\ StatusOf(d) = "none" /\ Attempts(d) = 0 /\ handed[d] = 0
           /\ Cardinality(Untouched(d)) = 0 /\ Cardinality(Busy(d)) = 0
<1>1. ~Queued(d) /\ \A w \in Workers : ~Working(w)
  BY DEF OutreachInit, QueueInit, Queued, Working
<1>2. Untouched(d) = {} /\ Busy(d) = {}
  BY <1>1 DEF Untouched, Busy, Untried, Held
<1>3. StatusOf(d) = "none" /\ Attempts(d) = 0 /\ handed[d] = 0
  BY <1>1 DEF StatusOf, Attempts, OutreachInit, QueueInit
<1> QED
  BY <1>2, <1>3, FS_EmptySet

\* The queue and the sequences keep their promises, for any number of workers,
\* drafts, contacts and crashes: one worker per item and lease, at most one message
\* per claim, nothing recorded as sent that was not handed over, nothing gated
\* queued without a decision, no step made twice.
THEOREM OutreachIsSafe == OutreachSpec => []OutreachSafe
<1>1. OutreachInit => OutreachInv /\ HandedInv
  <2> SUFFICES ASSUME OutreachInit PROVE HandedInv
    BY OutreachInvInit
  <2> QED
    BY NothingClaimedInitially DEF HandedInv
<1>2. OutreachInv /\ HandedInv /\ [OutreachNext]_outreachVars => OutreachInv' /\ HandedInv'
  BY OutreachInvNext, HandedInvNext
<1>3. OutreachInv /\ HandedInv => OutreachSafe
  <2> SUFFICES ASSUME OutreachInv, HandedInv PROVE OutreachSafe
    OBVIOUS
  <2>1. HandedPerClaim
    BY DEF HandedPerClaim, HandedInv, Untouched
  <2>2. GatedWaitsForDecision
    <3> SUFFICES ASSUME NEW d \in gated, Queued(d) PROVE d \in decided
      BY DEF GatedWaitsForDecision
    <3> QED
      BY DEF OutreachInv, QueueInv, WaitingForDecision
  <2> QED
    BY <2>1, <2>2 DEF OutreachSafe, OutreachInv, QueueInv
<1> QED
  BY <1>1, <1>2, <1>3, PTL DEF OutreachSpec

\* The message of any draft is worked on as SendItem promises, whoever claims it,
\* dies over it or outlives its lease.
THEOREM OutreachImplementsSendItem == OutreachSpec => ImplementsSendItem
<1> DEFINE d == AnyDraft
<1>0. d \in Drafts
  BY SequencesAssumption
<1>1. OutreachInit => Abstract!ItemInit
  BY <1>0, NothingClaimedInitially DEF Abstract!ItemInit, StatusOf, Untouched, Busy
<1>2. ASSUME OutreachInv, [OutreachNext]_outreachVars
      PROVE  [Abstract!ItemNext]_(Abstract!itemVars)
  <2>1. MessageSteps(d)
    BY <1>0, <1>2, EveryMessageSteps
  <2>2. /\ IsFiniteSet(Untouched(d)) /\ IsFiniteSet(Busy(d))
        /\ Cardinality(Untouched(d)) \in Nat /\ Cardinality(Busy(d)) \in Nat
    BY ClaimsAreFinite
  <2> DEFINE i == Cardinality(Untouched(d))
             b == Cardinality(Busy(d))
  <2>3. \A w \in Untouched(d) : i > 0 /\ Cardinality(Untouched(d) \ {w}) = i - 1
    <3>1. \A w \in Untouched(d) : Cardinality(Untouched(d) \ {w}) = i - 1 /\ Cardinality(Untouched(d) \ {w}) \in Nat
      BY <2>2, FS_RemoveElement, FS_CardinalityType
    <3> QED
      BY <2>2, <3>1
  <2>4. \A w \in Busy(d) : b > 0 /\ Cardinality(Busy(d) \ {w}) = b - 1
    <3>1. \A w \in Busy(d) : Cardinality(Busy(d) \ {w}) = b - 1 /\ Cardinality(Busy(d) \ {w}) \in Nat
      BY <2>2, FS_RemoveElement, FS_CardinalityType
    <3> QED
      BY <2>2, <3>1
  <2>5. CASE MessageRests(d)
    BY <2>5 DEF MessageRests, Abstract!itemVars, StatusOf, Untouched, Busy
  <2>6. CASE MessageQueued(d)
    BY <2>6 DEF MessageQueued, Abstract!ItemNext, Abstract!Enqueue, StatusOf, Untouched, Busy
  <2>7. ASSUME NEW w \in Workers, MessageClaimed(d, w) PROVE Abstract!Claim
    <3>1. Cardinality(Untouched(d)') = i + 1
      BY <2>2, <2>7, FS_AddElement DEF MessageClaimed
    <3> QED
      BY <2>7, <3>1 DEF MessageClaimed, Abstract!Claim, Abstract!Claimed, StatusOf, Untouched, Busy
  <2>8. ASSUME NEW w \in Workers, MessageTried(d, w) PROVE Abstract!Try
    <3>1. Cardinality(Untouched(d)') = i - 1 /\ i > 0
      BY <2>3, <2>8 DEF MessageTried
    <3>2. Cardinality(Busy(d)') = b + 1
      BY <2>2, <2>8, FS_AddElement DEF MessageTried
    <3> QED
      BY <2>8, <3>1, <3>2 DEF MessageTried, Abstract!Try, StatusOf, Untouched, Busy
  <2>9. ASSUME NEW w \in Workers, MessageRecorded(d, w) PROVE Abstract!Record
    <3>1. Cardinality(Busy(d)') = b - 1 /\ b > 0
      BY <2>4, <2>9 DEF MessageRecorded
    <3> QED
      BY <2>9, <3>1 DEF MessageRecorded, Abstract!Record, Abstract!Outcomes, StatusOf, Untouched, Busy
  <2>10. ASSUME NEW w \in Workers, MessageLost(d, w) PROVE Abstract!Lose
    <3>1. \/ i > 0 /\ Cardinality(Untouched(d)') = i - 1 /\ Busy(d)' = Busy(d)
          \/ b > 0 /\ Cardinality(Busy(d)') = b - 1 /\ Untouched(d)' = Untouched(d)
      BY <2>3, <2>4, <2>10 DEF MessageLost
    <3> QED
      BY <2>10, <3>1 DEF MessageLost, Abstract!Lose, StatusOf, Untouched, Busy
  <2> QED
    BY <2>1, <2>5, <2>6, <2>7, <2>8, <2>9, <2>10 DEF MessageSteps, Abstract!ItemNext
<1> QED
  BY <1>1, <1>2, OutreachInvInit, OutreachInvNext, PTL
     DEF OutreachSpec, ImplementsSendItem, Abstract!ItemSpec
=============================================================================
