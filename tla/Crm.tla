--------------------------------- MODULE Crm ---------------------------------
(***************************************************************************)
(* The sales records of one user (services/crm.py): pipelines and their    *)
(* stages, deals that stand in a stage, and leads that are converted into  *)
(* deals. A request locks the record it changes and then the stage and the *)
(* pipeline it refers to; get_stage joins the pipeline, so it locks both.  *)
(*                                                                         *)
(* An operation that takes its locks in one statement is one action. Those *)
(* that lock one record and then others are split, and may be rolled back  *)
(* between the steps (a refusal, or a deadlock of two of them).            *)
(* Not modelled: companies, contacts, notes, activities, owners, values    *)
(* and positions. Of the six stages of a new default pipeline one, open,   *)
(* is kept.                                                                *)
(***************************************************************************)
EXTENDS Integers, FiniteSets

CONSTANTS
    Leads, Deals, Pipelines, Stages,   \* rows that may be written
    Clerks,                            \* requests that may be under way at once
    Statuses,                          \* bound: the statuses leads are given
    MaxEdits,                          \* bound: changes of pipelines and stages
    Nothing                            \* no row

LeadStatus == {"new", "contacted", "engaged", "qualified", "converted", "lost", "disqualified"}
LEAD_TRANSITIONS ==
    [new |-> {"contacted", "engaged", "qualified", "lost", "disqualified"},
     contacted |-> {"engaged", "qualified", "lost", "disqualified"},
     engaged |-> {"contacted", "qualified", "lost", "disqualified"},
     qualified |-> {"engaged", "lost", "disqualified"},
     lost |-> {"contacted", "engaged"},
     disqualified |-> {"contacted"},
     converted |-> {}]

\* is_closed and is_won of a stage, and what they make of a deal.
StageKinds == {"open", "won", "lost"}
Deal == [stage : Stages, pipeline : Pipelines, status : StageKinds,
         lead : Leads \cup {Nothing}, archived : BOOLEAN]

ASSUME CrmAssumption ==
    /\ Nothing \notin Leads \cup Deals \cup Pipelines \cup Stages
    /\ Nothing \notin Deal /\ Nothing \notin LeadStatus
    /\ Statuses \subseteq LeadStatus /\ MaxEdits \in Nat

VARIABLES
    pipelines,     \* existing pipelines
    mainPipelines, \* with is_default
    livePipelines, \* with is_active
    stageOf,       \* [Stages -> pipeline_id], Nothing when there is no such stage
    stageKind,     \* [Stages -> StageKinds]
    edits,         \* changes of pipelines and stages so far
    recast,        \* history: stages whose kind was changed
    deal,          \* [Deals -> Deal \cup {Nothing}]
    lead,          \* [Leads -> status], Nothing before the INSERT
    shelved,       \* leads with archived_at
    desk           \* [Clerks -> the transaction under way]

pipelineRows == <<pipelines, mainPipelines, livePipelines>>
stageRows == <<stageOf, stageKind, recast, edits>>
leadRows == <<lead, shelved>>
crmVars == <<pipelineRows, stageRows, deal, leadRows, desk>>

Desk == [op : {"idle", "convert", "place", "update_lead", "move"},
         lead : Leads \cup {Nothing}, deal : Deals \cup {Nothing},
         status : LeadStatus \cup {Nothing},   \* of the lead, as it was loaded
         pipeline : Pipelines \cup {Nothing},
         fresh : BOOLEAN]           \* the pipeline is inserted with the deal
NoWork == [op |-> "idle", lead |-> Nothing, deal |-> Nothing, status |-> Nothing,
           pipeline |-> Nothing, fresh |-> FALSE]

CrmTypeOK ==
    /\ livePipelines \subseteq pipelines /\ mainPipelines \subseteq pipelines
    /\ pipelines \subseteq Pipelines
    /\ stageOf \in [Stages -> Pipelines \cup {Nothing}]
    /\ stageKind \in [Stages -> StageKinds]
    /\ recast \subseteq Stages /\ edits \in 0 .. MaxEdits
    /\ deal \in [Deals -> Deal \cup {Nothing}]
    /\ lead \in [Leads -> LeadStatus \cup {Nothing}]
    /\ shelved \subseteq Leads
    /\ desk \in [Clerks -> Desk]

CrmInit ==
    /\ pipelines = {} /\ mainPipelines = {} /\ livePipelines = {}
    /\ stageOf = [s \in Stages |-> Nothing]
    /\ stageKind = [s \in Stages |-> "open"]
    /\ recast = {} /\ edits = 0
    /\ deal = [d \in Deals |-> Nothing]
    /\ lead = [l \in Leads |-> Nothing] /\ shelved = {}
    /\ desk = [k \in Clerks |-> NoWork]

AtRest(k) == desk[k].op = "idle"
Edit == edits < MaxEdits /\ edits' = edits + 1
Take(k, work) == desk' = [desk EXCEPT ![k] = work]
Leave(k) == desk' = [desk EXCEPT ![k] = NoWork]

\* Faulty variant of LeadFree: the lead is read without a lock.
LeadNeverLocked(k, l) == TRUE

\* SELECT ... FOR UPDATE gets past the row.
LeadFree(k, l) == \A j \in Clerks \ {k} : desk[j].lead # l
DealFree(k, d) == \A j \in Clerks \ {k} : desk[j].deal # d
PipelineFree(k, p) == \A j \in Clerks \ {k} : desk[j].pipeline # p

Standing == {d \in Deals : deal[d] # Nothing}
DealsOf(l) == {d \in Standing : deal[d].lead = l}
Default == mainPipelines \cap livePipelines
UnusedStages == {s \in Stages : stageOf[s] = Nothing}

-----------------------------------------------------------------------------
(* Pipelines and stages.                                                   *)

\* _clear_default, then the row as the request has it. The unique index over
\* the active defaults refuses a second one.
SetPipeline(p, main, live) ==
    /\ pipelines' = pipelines \cup {p}
    /\ mainPipelines' = IF main THEN (mainPipelines \ Default) \cup {p} ELSE mainPipelines \ {p}
    /\ livePipelines' = IF live THEN livePipelines \cup {p} ELSE livePipelines \ {p}
    /\ Cardinality(mainPipelines' \cap livePipelines') <= 1

\* Which unused row an INSERT takes does not matter.
FirstOf(x, S) == S # {} /\ x = CHOOSE y \in S : TRUE

DefaultFree(k) == \A p \in Default : PipelineFree(k, p)

CreatePipeline(k, p, main, live) ==
    /\ AtRest(k) /\ FirstOf(p, Pipelines \ pipelines)
    /\ main => DefaultFree(k)
    /\ SetPipeline(p, main, live) /\ Edit
    /\ UNCHANGED <<stageOf, stageKind, recast, deal, leadRows, desk>>

UpdatePipeline(k, p, main, live) ==
    /\ AtRest(k) /\ p \in pipelines /\ PipelineFree(k, p)
    /\ main => DefaultFree(k)
    /\ p \in mainPipelines /\ p \in livePipelines => live
    /\ SetPipeline(p, main, live) /\ Edit
    /\ UNCHANGED <<stageOf, stageKind, recast, deal, leadRows, desk>>

ActiveDeals(S) == {d \in Standing : deal[d].stage \in S /\ deal[d].status = "open"
                                   /\ ~deal[d].archived}
\* The foreign key RESTRICTs the DELETE of a stage any deal stands in.
Referred(S) == \E d \in Standing : deal[d].stage \in S

StagesIn(p) == {s \in Stages : stageOf[s] = p}

\* The rows may be written again.
DropStages(S) ==
    /\ stageOf' = [s \in Stages |-> IF s \in S THEN Nothing ELSE stageOf[s]]
    /\ stageKind' = [s \in Stages |-> IF s \in S THEN "open" ELSE stageKind[s]]
    /\ recast' = recast \ S

DeletePipeline(k, p) ==
    /\ AtRest(k) /\ p \in pipelines \ mainPipelines /\ PipelineFree(k, p)
    /\ ActiveDeals(StagesIn(p)) = {} /\ ~Referred(StagesIn(p))
    /\ pipelines' = pipelines \ {p} /\ livePipelines' = livePipelines \ {p}
    /\ DropStages(StagesIn(p)) /\ Edit
    /\ UNCHANGED <<mainPipelines, deal, leadRows, desk>>

WonFree(p, kind) == kind = "won" => \A s \in StagesIn(p) : stageKind[s] # "won"

CreateStage(k, p, s, kind) ==
    /\ AtRest(k) /\ p \in pipelines /\ PipelineFree(k, p)
    /\ FirstOf(s, UnusedStages) /\ WonFree(p, kind)
    /\ stageOf' = [stageOf EXCEPT ![s] = p]
    /\ stageKind' = [stageKind EXCEPT ![s] = kind]
    /\ recast' = recast \ {s} /\ Edit
    /\ UNCHANGED <<pipelineRows, deal, leadRows, desk>>

\* get_stage: the stage and its pipeline are locked.
StageLocked(k, s) == s \notin UnusedStages /\ PipelineFree(k, stageOf[s])

\* The deals that stand in the stage keep their status.
UpdateStage(k, s, kind) ==
    /\ AtRest(k) /\ StageLocked(k, s) /\ kind # stageKind[s]
    /\ WonFree(stageOf[s], kind)
    /\ stageKind' = [stageKind EXCEPT ![s] = kind]
    /\ recast' = recast \cup {s} /\ Edit
    /\ UNCHANGED <<pipelineRows, stageOf, deal, leadRows, desk>>

DeleteStage(k, s) ==
    /\ AtRest(k) /\ StageLocked(k, s)
    /\ ActiveDeals({s}) = {} /\ ~Referred({s})
    /\ DropStages({s}) /\ Edit
    /\ UNCHANGED <<pipelineRows, deal, leadRows, desk>>

-----------------------------------------------------------------------------
(* Deals.                                                                  *)

\* _deal_state
NewDeal(s, l) == [stage |-> s, pipeline |-> stageOf[s], status |-> stageKind[s],
                  lead |-> l, archived |-> FALSE]

CreateDeal(k, d, s) ==
    /\ AtRest(k) /\ FirstOf(d, Deals \ Standing) /\ StageLocked(k, s)
    /\ deal' = [deal EXCEPT ![d] = NewDeal(s, Nothing)]
    /\ UNCHANGED <<pipelineRows, stageRows, leadRows, desk>>

\* _mutable: update_deal and move_deal_stage lock the deal ...
LockDeal(k, d) ==
    /\ AtRest(k) /\ d \in Standing /\ DealFree(k, d) /\ ~deal[d].archived
    /\ Take(k, [NoWork EXCEPT !.op = "move", !.deal = d])
    /\ UNCHANGED <<pipelineRows, stageRows, deal, leadRows>>

PutIn(k, s) ==
    /\ desk[k].op = "move" /\ StageLocked(k, s)
    /\ deal' = [deal EXCEPT ![desk[k].deal] =
                  [@ EXCEPT !.stage = s, !.pipeline = stageOf[s], !.status = stageKind[s]]]
    /\ Leave(k)
    /\ UNCHANGED <<pipelineRows, stageRows, leadRows>>

\* ... and then the stage, which update_deal may take from another pipeline.
UpdateDeal(k, s) == PutIn(k, s)
MoveDealStage(k, s) ==
    /\ desk[k].op = "move" /\ stageOf[s] = deal[desk[k].deal].pipeline
    /\ PutIn(k, s)

ArchiveDeal(k, d) ==
    /\ AtRest(k) /\ d \in Standing /\ DealFree(k, d) /\ ~deal[d].archived
    /\ deal' = [deal EXCEPT ![d].archived = TRUE]
    /\ UNCHANGED <<pipelineRows, stageRows, leadRows, desk>>

-----------------------------------------------------------------------------
(* Leads.                                                                  *)

CreateLead(k, l, status) ==
    /\ AtRest(k) /\ lead[l] = Nothing /\ status # "converted"
    /\ lead' = [lead EXCEPT ![l] = status]
    /\ UNCHANGED <<pipelineRows, stageRows, deal, shelved, desk>>

LeadMutable(k, l) == AtRest(k) /\ lead[l] # Nothing /\ LeadFree(k, l) /\ l \notin shelved

ArchiveLead(k, l) ==
    /\ LeadMutable(k, l)
    /\ shelved' = shelved \cup {l}
    /\ UNCHANGED <<pipelineRows, stageRows, deal, lead, desk>>

LockLead(k, l, op) ==
    /\ LeadMutable(k, l)
    /\ Take(k, [NoWork EXCEPT !.op = op, !.lead = l, !.status = lead[l]])
    /\ UNCHANGED <<pipelineRows, stageRows, deal, leadRows>>

\* update_lead looks up the owner and the related records and then commits.
BeginUpdateLead(k, l) == LockLead(k, l, "update_lead")
UpdateLead(k, status) ==
    /\ desk[k].op = "update_lead"
    /\ status \in LEAD_TRANSITIONS[desk[k].status]
    /\ lead' = [lead EXCEPT ![desk[k].lead] = status]
    /\ Leave(k)
    /\ UNCHANGED <<pipelineRows, stageRows, deal, shelved>>

\* convert_lead: a lead that has its deal is answered with it.
BeginConvertLead(k, l) ==
    /\ lead[l] = "qualified" /\ DealsOf(l) = {}
    /\ LockLead(k, l, "convert")

ChoosePipeline(k, p, fresh) ==
    /\ desk[k].op = "convert"
    /\ Take(k, [desk[k] EXCEPT !.op = "place", !.pipeline = p, !.fresh = fresh])
    /\ UNCHANGED <<pipelineRows, stageRows, deal, leadRows>>

\* The pipeline that was asked for, or the default.
UsePipeline(k, p) ==
    /\ p \in livePipelines /\ PipelineFree(k, p)
    /\ ChoosePipeline(k, p, FALSE)

\* _default_pipeline: there is none.
UseNewPipeline(k, p) ==
    /\ Default = {} /\ p \notin pipelines /\ PipelineFree(k, p)
    /\ ChoosePipeline(k, p, TRUE)

\* The deal, the converted lead and a new default pipeline are one commit. The
\* unique indexes over the active defaults and over originating_lead_id allow it.
ConvertLead(k, d, s) ==
    /\ desk[k].op = "place" /\ FirstOf(d, Deals \ Standing) /\ DealsOf(desk[k].lead) = {}
    /\ IF desk[k].fresh
       THEN /\ Default = {} /\ FirstOf(s, UnusedStages)
            /\ pipelines' = pipelines \cup {desk[k].pipeline}
            /\ mainPipelines' = mainPipelines \cup {desk[k].pipeline}
            /\ livePipelines' = livePipelines \cup {desk[k].pipeline}
            /\ stageOf' = [stageOf EXCEPT ![s] = desk[k].pipeline]
            /\ stageKind' = [stageKind EXCEPT ![s] = "open"]
            /\ recast' = recast \ {s} /\ UNCHANGED edits
       ELSE /\ stageOf[s] = desk[k].pipeline /\ stageKind[s] = "open"
            /\ UNCHANGED <<pipelineRows, stageRows>>
    /\ deal' = [deal EXCEPT ![d] = [stage |-> s, pipeline |-> desk[k].pipeline,
                  status |-> "open", lead |-> desk[k].lead, archived |-> FALSE]]
    /\ lead' = [lead EXCEPT ![desk[k].lead] = "converted"]
    /\ Leave(k)
    /\ UNCHANGED shelved

\* A related record or an open stage is missing, an index refuses the rows, or
\* the deadlock detector chose this request.
CrmRollBack(k) ==
    /\ ~AtRest(k)
    /\ Leave(k)
    /\ UNCHANGED <<pipelineRows, stageRows, deal, leadRows>>

CrmNext == \E k \in Clerks :
    \/ \E p \in Pipelines, main, live \in BOOLEAN :
         CreatePipeline(k, p, main, live) \/ UpdatePipeline(k, p, main, live)
    \/ \E p \in Pipelines : DeletePipeline(k, p) \/ UsePipeline(k, p) \/ UseNewPipeline(k, p)
    \/ \E s \in Stages, kind \in StageKinds :
         UpdateStage(k, s, kind) \/ \E p \in Pipelines : CreateStage(k, p, s, kind)
    \/ \E s \in Stages : \/ DeleteStage(k, s) \/ UpdateDeal(k, s) \/ MoveDealStage(k, s)
                         \/ \E d \in Deals : CreateDeal(k, d, s) \/ ConvertLead(k, d, s)
    \/ \E d \in Deals : LockDeal(k, d) \/ ArchiveDeal(k, d)
    \/ \E l \in Leads : \/ ArchiveLead(k, l) \/ BeginUpdateLead(k, l) \/ BeginConvertLead(k, l)
                        \/ \E status \in Statuses : CreateLead(k, l, status)
    \/ \E status \in Statuses : UpdateLead(k, status)
    \/ CrmRollBack(k)

CrmSpec == CrmInit /\ [][CrmNext]_crmVars

-----------------------------------------------------------------------------
(* A lead is converted exactly when one deal stems from it: no conversion  *)
(* is repeated and no update that overlaps one takes the status back       *)
(* (convert_lead, update_lead).                                            *)
ConvertedOnce == \A l \in Leads :
    Cardinality(DealsOf(l)) = IF lead[l] = "converted" THEN 1 ELSE 0

(* Every deal stands in a stage that exists, of the pipeline it names,     *)
(* whatever stages and pipelines are deleted while it is moved             *)
(* (_validate_stage, delete_stage).                                        *)
DealsStandInStages == \A d \in Standing :
    /\ deal[d].pipeline \in pipelines
    /\ stageOf[deal[d].stage] = deal[d].pipeline

(* A deal is open, won or lost as its stage says, unless the stage itself  *)
(* was changed afterwards, and converted deals of live stages included     *)
(* (_deal_state).                                                          *)
StatusFollowsStage == \A d \in Standing :
    deal[d].stage \notin recast => deal[d].status = stageKind[deal[d].stage]

CrmSafe == CrmTypeOK /\ ConvertedOnce /\ DealsStandInStages /\ StatusFollowsStage
=============================================================================
