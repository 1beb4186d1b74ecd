------------------------------ MODULE RiskGate ------------------------------
(***************************************************************************)
(* The gate between a research signal and an execution (services/          *)
(* trading_contracts.py). One request of a workspace is one transaction:   *)
(* it looks the key up, inserts its row, locks the circuit, has the risk   *)
(* assessed, and commits what it decided together with its audit entry.    *)
(* Nothing in src/app calls the gate yet: its callers are the tests.       *)
(* Not modelled: the figures the risk engine compares; its verdict is an   *)
(* input.                                                                  *)
(***************************************************************************)
EXTENDS Integers, FiniteSets

CONSTANTS
    ExecutionKeys,   \* idempotency keys of the workspace
    Signals,         \* signals, named by their request fingerprint
    Gates,           \* requests that may be under way at once
    NoDecision,
    MaxSwitches      \* bound: changes of the circuit

Circuits == {"enabled", "paused", "emergency_stop"}
NoCircuit == "unavailable"
RiskOutcomes == {"not_evaluated", "allowed", "refused"}
Decision == [fingerprint : Signals, circuit : Circuits \cup {NoCircuit},
             risk : RiskOutcomes, state : {"blocked", "approved"}]

ASSUME RiskGateAssumption ==
    /\ MaxSwitches \in Nat
    /\ NoDecision \notin ExecutionKeys \cup Signals \cup Decision

VARIABLES
    breaker,     \* state of the circuit, NoCircuit before it has a row
    decision,    \* [ExecutionKeys -> committed TradeExecution, or NoDecision]
    gate,        \* [Gates -> the request: its step, key, signal and row]
    switches,
    under,       \* history: [ExecutionKeys -> the circuit when it was committed]
    audits,      \* history: [ExecutionKeys -> audit entries committed]
    answers      \* history: <<signal asked about, decision returned>>

riskVars == <<breaker, decision, gate, switches, under, audits, answers>>

Gate == [step : {"idle", "insert", "circuit", "assess", "commit"},
         key : ExecutionKeys \cup {NoDecision}, signal : Signals \cup {NoDecision},
         circuit : Circuits \cup {NoCircuit}, risk : RiskOutcomes]
IdleGate == [step |-> "idle", key |-> NoDecision, signal |-> NoDecision,
             circuit |-> NoCircuit, risk |-> "not_evaluated"]

RiskTypeOK ==
    /\ breaker \in Circuits \cup {NoCircuit}
    /\ decision \in [ExecutionKeys -> Decision \cup {NoDecision}]
    /\ gate \in [Gates -> Gate]
    /\ switches \in 0 .. MaxSwitches
    /\ under \in [ExecutionKeys -> Circuits \cup {NoCircuit}]
    /\ audits \in [ExecutionKeys -> Nat]
    /\ answers \subseteq Signals \X Decision

RiskInit ==
    /\ breaker \in {"enabled", NoCircuit}
    /\ decision = [k \in ExecutionKeys |-> NoDecision]
    /\ gate = [g \in Gates |-> IdleGate]
    /\ switches = 0
    /\ under = [k \in ExecutionKeys |-> NoCircuit]
    /\ audits = [k \in ExecutionKeys |-> 0]
    /\ answers = {}

\* The row is inserted and not committed.
Inserted(g) == gate[g].step \in {"circuit", "assess", "commit"}

\* Faulty variant of CircuitLocked: the circuit is read without FOR UPDATE.
CircuitNeverLocked == FALSE

\* The circuit's row is locked from its read to the end of the request.
CircuitLocked == \E g \in Gates : gate[g].step \in {"assess", "commit"} /\ gate[g].circuit # NoCircuit

-----------------------------------------------------------------------------
(* One request.                                                            *)

\* The key is bound to the request it was first used for: another one is refused.
ReturnStored(k, s) ==
    /\ decision[k] # NoDecision
    /\ decision[k].fingerprint = s
    /\ answers' = answers \cup {<<s, decision[k]>>}

AskGate(g, k, s) ==
    /\ gate[g].step = "idle"
    /\ \/ /\ ReturnStored(k, s)
          /\ UNCHANGED gate
       \/ /\ decision[k] = NoDecision
          /\ gate' = [gate EXCEPT ![g] = [IdleGate EXCEPT !.step = "insert", !.key = k, !.signal = s]]
          /\ UNCHANGED answers
    /\ UNCHANGED <<breaker, decision, switches, under, audits>>

\* The unique index on the key makes the insert wait for another one under way.
InsertDecision(g) ==
    /\ gate[g].step = "insert"
    /\ decision[gate[g].key] = NoDecision
    /\ \A h \in Gates : ~(Inserted(h) /\ gate[h].key = gate[g].key)
    /\ gate' = [gate EXCEPT ![g].step = "circuit"]
    /\ UNCHANGED <<breaker, decision, switches, under, audits, answers>>

\* The key was committed after the look-up: IntegrityError, nothing is recorded.
KeyTaken(g) ==
    /\ gate[g].step = "insert"
    /\ decision[gate[g].key] # NoDecision
    /\ gate' = [gate EXCEPT ![g] = IdleGate]
    /\ UNCHANGED <<breaker, decision, switches, under, audits, answers>>

\* Only under an enabled circuit is the risk assessed. A row that is not there
\* locks nothing.
ReadCircuit(g) ==
    /\ gate[g].step = "circuit"
    /\ ~CircuitLocked
    /\ gate' = [gate EXCEPT ![g].circuit = breaker,
                   ![g].step = IF breaker = "enabled" THEN "assess" ELSE "commit"]
    /\ UNCHANGED <<breaker, decision, switches, under, audits, answers>>

\* RiskValidationError and RuntimeError leave the decision open; a denial is one.
AssessRisk(g) ==
    /\ gate[g].step = "assess"
    /\ \E v \in RiskOutcomes :
         gate' = [gate EXCEPT ![g].risk = v, ![g].step = "commit"]
    /\ UNCHANGED <<breaker, decision, switches, under, audits, answers>>

\* Faulty variant of DecidedState: a risk check that passed opens the gate.
PermissiveState(risk) == IF risk = "allowed" THEN "approved" ELSE "blocked"

\* Whatever was found there is a reason not to execute: after a risk check that
\* passed it is that execution is disabled.
DecidedState(risk) == "blocked"

CommitDecision(g) ==
    /\ gate[g].step = "commit"
    /\ LET k == gate[g].key
           row == [fingerprint |-> gate[g].signal, circuit |-> gate[g].circuit,
                   risk |-> gate[g].risk, state |-> DecidedState(gate[g].risk)]
       IN /\ decision' = [decision EXCEPT ![k] = row]
          /\ under' = [under EXCEPT ![k] = breaker]
          /\ audits' = [audits EXCEPT ![k] = @ + 1]
          /\ answers' = answers \cup {<<gate[g].signal, row>>}
    /\ gate' = [gate EXCEPT ![g] = IdleGate]
    /\ UNCHANGED <<breaker, switches>>

\* Another exception of the risk provider, or the end of the process.
DropRequest(g) ==
    /\ Inserted(g)
    /\ gate' = [gate EXCEPT ![g] = IdleGate]
    /\ UNCHANGED <<breaker, decision, switches, under, audits, answers>>

\* change_circuit: FOR UPDATE, or the first row.
SwitchCircuit ==
    /\ switches < MaxSwitches
    /\ ~CircuitLocked
    /\ breaker' \in Circuits \ {breaker}
    /\ switches' = switches + 1
    /\ UNCHANGED <<decision, gate, under, audits, answers>>

RiskNext ==
    \/ \E g \in Gates :
         \/ \E k \in ExecutionKeys, s \in Signals : AskGate(g, k, s)
         \/ InsertDecision(g) \/ KeyTaken(g) \/ ReadCircuit(g) \/ AssessRisk(g)
         \/ CommitDecision(g) \/ DropRequest(g)
    \/ SwitchCircuit

RiskSpec == RiskInit /\ [][RiskNext]_riskVars

-----------------------------------------------------------------------------
Decided == {k \in ExecutionKeys : decision[k] # NoDecision}

(* The circuit a decision records is the circuit that was in force when    *)
(* the decision was committed: a stop cannot slip in between.              *)
CircuitHolds == \A k \in Decided : decision[k].circuit # NoCircuit => under[k] = decision[k].circuit

(* One decision and one audit entry per key, and every caller of the key   *)
(* is given the decision on its own signal, the one that is stored.        *)
OneDecisionPerKey ==
    /\ \A k \in ExecutionKeys : audits[k] = IF k \in Decided THEN 1 ELSE 0
    /\ \A a \in answers : a[1] = a[2].fingerprint /\ \E k \in Decided : decision[k] = a[2]

(* However requests, stops and exceptions interleave, nothing is approved, *)
(* and the risk is assessed only where the circuit was enabled.            *)
NothingPasses ==
    \A k \in Decided :
        /\ decision[k].state = "blocked"
        /\ decision[k].risk # "not_evaluated" => under[k] = "enabled"

RiskGateSafe == RiskTypeOK /\ CircuitHolds /\ OneDecisionPerKey /\ NothingPasses
=============================================================================
