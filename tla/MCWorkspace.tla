----------------------------- MODULE MCWorkspace -----------------------------
(* The records a workspace keeps, each part on its own: nothing they keep is *)
(* shared, so a behaviour belongs to the part chosen in the initial state.   *)
EXTENDS OutreachSequences, AccountSessions, Conversations, Crm, ReadCaches,
        WorkItems, DueNotices, CustomerDocuments, RiskGate, MicrosoftAccess,
        Migrations, Registrations

VARIABLE area

otherVars ==
    <<workItemsVars, noticeVars, documentVars, riskVars, microsoftVars, migrationVars,
      registrationVars>>
workspaceVars ==
    <<area, outreachVars, sessionVars, conversationVars, crmVars, cacheVars, otherVars>>

\* A provider error is retried within the tick, the others in the next one.
Delays == [c \in RetryCodes |-> IF c = "provider_error" THEN 0 ELSE 1]

\* Several workers and claims are the matter of the queue; with sequences there is
\* one worker, which claims a message once, and messages come from enrolments;
\* the second message stays unclaimed and undecided.
Worker == CHOOSE w \in Workers : TRUE
CalmQueue ==
    /\ \A w \in Workers \ {Worker} : ~Working(w)
    /\ \A d \in Drafts : Attempts(d) <= 1 /\ (Exists(d) => made[d] # None)
    /\ \A d \in Drafts \ {AnyDraft} :
          Exists(d) => Exists(AnyDraft) /\ Attempts(d) = 0 /\ approval[d] = None

OneDraft == \A d \in Drafts \ {AnyDraft} : ~Exists(d)

\* Links take part in a session's life; the last token is left for when none does.
CalmSessions ==
    LET links == {l \in Links : link[l].state # "unissued"} IN
    /\ Cardinality(Issued) + Cardinality(links) <= 4
    /\ Issued = Tokens => links = {}

\* The second deal is left out once all three edits are made.
CalmCrm == edits = MaxEdits => Cardinality(Standing) <= 1

\* Reminders of tasks and of sales records are not mixed: their keys differ. One
\* item is completed, and notices are read one at a time or all at once.
CalmNotices ==
    /\ LET items == {k.item : k \in notices \cup UNION {job[j].listed : j \in Jobs}}
       IN items \subseteq TaskItems \/ items \subseteq CrmItems
    /\ Cardinality({i \in Items : due[i] = NoDue}) <= 1
    /\ Cardinality(read) <= 1 \/ read = notices

\* Two projects with a task each, a third one still to come.
WorkStart ==
    /\ name = [p \in Projects |-> IF p \in Names THEN p ELSE NoName]
    /\ task = [t \in Tasks |->
                 IF t \in Projects THEN [project |-> t, status |-> "todo", completedAt |-> FALSE]
                 ELSE NoTask]
    /\ archived = {} /\ locked = [r \in Rows |-> Nobody]
    /\ client = [c \in Clients |-> NoRequestUnderWay]
    /\ frozen = [p \in Projects |-> {}] /\ asked = 0

\* The codes of a state come in by number, and one state gets a second one.
CalmMicrosoft ==
    LET second == {k \in Codes : k[2] > 1 /\ (k \in spent \/ k \in CodesUnderWay(StateOf(k)))} IN
    /\ \A k \in second : LET first == <<StateOf(k), k[2] - 1>> IN
          first \in spent \/ first \in CodesUnderWay(StateOf(k))
    /\ Cardinality({StateOf(k) : k \in second}) <= 1

\* The default agent changes in the first hour, with the roles there and while one
\* registration is under way; in the second hour there is one at a time.
CalmRegistrations ==
    LET busy == {a \in Applicants : ~At(a, "idle")} IN
    /\ change.step # "none" \/ assistant = (CHOOSE g \in Assistants : TRUE) =>
          Cardinality(busy) <= 1
    /\ assistant # NoAssistant => roleNames = DefaultRoles /\ hour = 0
    /\ hour > 0 => Cardinality(busy) <= 1

WorkspaceInit ==
    /\ area \in {"queue", "sequences", "sessions", "conversations", "crm", "caches",
                "work", "notices", "documents", "risk", "microsoft", "schema",
                "accounts"}
    /\ OutreachInit
    /\ SessionsInit
    /\ ConversationsInit
    /\ CrmInit
    /\ CachesInit
    /\ WorkStart
    /\ NoticesInit /\ due = [i \in Items |-> (i - 1) % 2]
    /\ DocumentsInit
    /\ RiskInit /\ (area # "risk" => breaker = "enabled")
    /\ MicrosoftInit
    /\ MigrationsInit
    /\ RegistrationsInit /\ (area # "accounts" => roleNames = {})

WorkspaceNext ==
    /\ UNCHANGED area
    /\ \/ /\ area = "queue" /\ QueueNext /\ OneDraft'
          /\ UNCHANGED <<sequenceVars, sessionVars, conversationVars, crmVars, cacheVars, otherVars>>
       \/ /\ area = "sequences" /\ OutreachNext /\ CalmQueue'
          /\ UNCHANGED <<sessionVars, conversationVars, crmVars, cacheVars, otherVars>>
       \/ /\ area = "sessions" /\ SessionsNext /\ CalmSessions'
          /\ UNCHANGED <<outreachVars, conversationVars, crmVars, cacheVars, otherVars>>
       \/ /\ area = "conversations" /\ ConversationsNext
          /\ UNCHANGED <<outreachVars, sessionVars, crmVars, cacheVars, otherVars>>
       \/ /\ area = "crm" /\ CrmNext /\ CalmCrm'
          /\ UNCHANGED <<outreachVars, sessionVars, conversationVars, cacheVars, otherVars>>
       \/ /\ area = "caches" /\ CachesNext
          /\ UNCHANGED <<outreachVars, sessionVars, conversationVars, crmVars, otherVars>>
       \/ /\ area = "accounts" /\ RegistrationsNext /\ CalmRegistrations'
          /\ UNCHANGED <<outreachVars, sessionVars, conversationVars, crmVars, cacheVars>>
          /\ UNCHANGED <<workItemsVars, noticeVars, documentVars, riskVars, microsoftVars,
                         migrationVars>>
       \/ /\ UNCHANGED <<outreachVars, sessionVars, conversationVars, crmVars, cacheVars>>
          /\ UNCHANGED registrationVars
          /\ \/ /\ area = "work" /\ WorkItemsNext
                /\ UNCHANGED <<noticeVars, documentVars, riskVars, microsoftVars, migrationVars>>
             \/ /\ area = "notices" /\ NoticesNext /\ CalmNotices'
                /\ UNCHANGED <<workItemsVars, documentVars, riskVars, microsoftVars, migrationVars>>
             \/ /\ area = "documents" /\ DocumentsNext
                /\ UNCHANGED <<workItemsVars, noticeVars, riskVars, microsoftVars, migrationVars>>
             \/ /\ area = "risk" /\ RiskNext
                /\ UNCHANGED <<workItemsVars, noticeVars, documentVars, microsoftVars, migrationVars>>
             \/ /\ area = "microsoft" /\ MicrosoftNext /\ CalmMicrosoft'
                /\ UNCHANGED <<workItemsVars, noticeVars, documentVars, riskVars, migrationVars>>
             \/ /\ area = "schema" /\ MigrationsNext
                /\ UNCHANGED <<workItemsVars, noticeVars, documentVars, riskVars, microsoftVars>>

WorkspaceSpec == WorkspaceInit /\ [][WorkspaceNext]_workspaceVars

\* Overlapping requests on projects and tasks, reminders and documents, at the risk
\* gate, on the Microsoft account and for new accounts leave the rows as the services
\* promise them (services/task.py, project.py, notification.py, documents.py,
\* trading_contracts.py, integrations/microsoft.py, auth/service.py, security.py).
RecordsSafe ==
    /\ area = "work" => WorkItemsSafe
    /\ area = "notices" => NoticesSafe
    /\ area = "documents" => DocumentsSafe
    /\ area = "risk" => RiskGateSafe
    /\ area = "microsoft" => MicrosoftSafe
    /\ area = "accounts" => RegistrationsSafe

\* No migration of the schema loses what it must keep, while the running release goes
\* on writing (database/migrations).
SchemaSafe == area = "schema" => MigrationsSafe
=============================================================================
