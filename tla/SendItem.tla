------------------------------ MODULE SendItem ------------------------------
(* What the send queue promises about one message, whoever works on it.      *)
(* Every claim hands the message to the provider at most once and records    *)
(* at most one outcome; a message whose outcome is final is not claimed      *)
(* again, so it changes only by claims that were already open.               *)
EXTENDS Naturals

VARIABLES
    status,   \* "none" before the message is queued
    claims,   \* how often it was claimed
    idle,     \* open claims that have not tried the provider yet
    busy,     \* open claims that have an outcome to record
    handed    \* how often it was handed to the provider

itemVars == <<status, claims, idle, busy, handed>>

Claimed == {"pending", "retry", "processing"}
Outcomes == {"sent", "retry", "failed"}

ItemInit == status = "none" /\ claims = 0 /\ idle = 0 /\ busy = 0 /\ handed = 0

Enqueue ==
    /\ status = "none"
    /\ status' = "pending"
    /\ UNCHANGED <<claims, idle, busy, handed>>

Claim ==
    /\ status \in Claimed
    /\ status' = "processing"
    /\ claims' = claims + 1
    /\ idle' = idle + 1
    /\ UNCHANGED <<busy, handed>>

\* An open claim settles on an outcome, and may have handed the message over.
Try ==
    /\ idle > 0
    /\ idle' = idle - 1
    /\ busy' = busy + 1
    /\ handed' \in {handed, handed + 1}
    /\ UNCHANGED <<status, claims>>

Record ==
    /\ busy > 0
    /\ busy' = busy - 1
    /\ status' \in Outcomes
    /\ UNCHANGED <<claims, idle, handed>>

\* The worker of an open claim is gone.
Lose ==
    /\ \/ idle > 0 /\ idle' = idle - 1 /\ busy' = busy
       \/ busy > 0 /\ busy' = busy - 1 /\ idle' = idle
    /\ UNCHANGED <<status, claims, handed>>

ItemNext == Enqueue \/ Claim \/ Try \/ Record \/ Lose

ItemSpec == ItemInit /\ [][ItemNext]_itemVars
=============================================================================
