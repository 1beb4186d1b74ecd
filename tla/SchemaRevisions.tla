-------------------------- MODULE SchemaRevisions ----------------------------
(* What each revision of src/app/database/migrations/versions does to a       *)
(* PostgreSQL database, as a sequence of operations. Of a table the model      *)
(* keeps its foreign keys, the columns added or dropped later, the unique      *)
(* indexes that rows could contradict, and the three CHECK constraints the     *)
(* revisions re-create; types, defaults and other indexes are left out.        *)
EXTENDS Naturals, FiniteSets, Sequences, TLC

\* ---- Operations -----------------------------------------------------------
NoRefs == [c \in {} |-> ""]
Cascade(t) == [rule |-> "CASCADE", table |-> t]
Restricted(t) == [rule |-> "RESTRICT", table |-> t]
SetNull(t) == [rule |-> "SET NULL", table |-> t]

\* refs: one foreign key per column of the table that has one.
Create(t, refs) == [do |-> "create", table |-> t, refs |-> refs]
Drop(t) == [do |-> "drop", table |-> t]
CreateIfMissing(t, refs) == [do |-> "create if missing", table |-> t, refs |-> refs]
DropIfPresent(t) == [do |-> "drop if present", table |-> t]
AddColumns(t, cs) == [do |-> "add columns", table |-> t, columns |-> cs]
DropColumns(t, cs) == [do |-> "drop columns", table |-> t, columns |-> cs]
Reference(t, c, ref) == [do |-> "reference", table |-> t, column |-> c, ref |-> ref]
Unreference(t, c) == [do |-> "unreference", table |-> t, column |-> c]
Index(t) == [do |-> "index", table |-> t]
\* A unique index bars the records that would contradict it.
Unique(t, index, record) == [do |-> "unique", table |-> t, index |-> index, bars |-> record]
DropUnique(t, index) == [do |-> "drop unique", table |-> t, index |-> index]
\* A CHECK dropped and created again with these values.
Check(t, check, vs) == [do |-> "check", table |-> t, check |-> check, values |-> vs]
\* PostgreSQL copies the table and drops the original (recreate="always").
Rebuild(t) == [do |-> "rebuild", table |-> t]
\* Before any lock: a query that must find none of the records, or a deletion of
\* the audit rows of some entities.
Require(records) == [do |-> "require", none |-> records]
EraseAudit(entities) == [do |-> "erase audit", entities |-> entities]

\* ---- Values of the CHECK constraints ----------------------------------------
ManagementEntities == {"project", "task"}
CrmEntities == {"company", "contact", "lead", "pipeline", "pipeline_stage", "deal",
                "crm_note", "crm_activity"}
OutreachEntities == {"mailbox", "email_template", "email_draft", "sequence", "campaign",
                     "automation"}
EntitiesWithCrm == ManagementEntities \cup CrmEntities
EntitiesWithOutreach == EntitiesWithCrm \cup OutreachEntities
EntitiesWithObservation == EntitiesWithOutreach \cup {"data_feed_observation"}
EntitiesWithDiagnostic == EntitiesWithObservation \cup {"voice_authorization_diagnostic"}
EntitiesWithWithdrawal ==
    EntitiesWithDiagnostic \cup {"account", "withdrawal", "withdrawal_circuit_breaker"}
EntitiesWithDocument == EntitiesWithWithdrawal \cup {"document"}
EntitiesWithTrade == EntitiesWithDocument \cup {"trade"}

ManagementActions == {"create", "update", "delete", "assignment", "status_change"}
ActionsWithCrm == ManagementActions \cup {"convert", "stage_change", "complete"}
ActionsWithRead == ActionsWithCrm \cup {"read"}

ManagementNotices == {"task_assigned", "task_due_soon", "task_overdue",
                      "project_status_changed", "system"}
NoticesWithCrm ==
    ManagementNotices \cup {"lead_assigned", "deal_assigned", "deal_stage_changed",
                            "lead_qualified", "lead_converted", "follow_up_due",
                            "crm_activity_assigned"}
NoticesWithOutreach ==
    NoticesWithCrm \cup {"outreach_approval_requested", "outreach_approval_decided",
                         "outreach_send_failed", "campaign_completed"}

EntityCheck(vs) == Check("audit_logs", "audit_entity", vs)
ActionCheck(vs) == Check("audit_logs", "audit_action", vs)
NoticeCheck(vs) == Check("notifications", "notification_type", vs)

\* ---- Revisions, in the order of their chain -----------------------------------

\* 0001: users, their roles, projects and tasks.
InitialTables ==
    <<Create("roles", NoRefs),
      Create("users", NoRefs),
      Create("projects", [owner_id |-> Restricted("users")]),
      Create("user_roles", [role_id |-> Cascade("roles"), user_id |-> Cascade("users")])>>
UpInitialDomain ==
    InitialTables \o
    <<Create("tasks", [assignee_id |-> SetNull("users"), project_id |-> Cascade("projects")])>>
DownInitialDomain ==
    <<Drop("tasks"), Drop("user_roles"), Drop("projects"), Drop("users"), Drop("roles")>>

\* 0002: sessions.
UpSessions == <<Create("refresh_token_sessions", [user_id |-> Cascade("users")])>>
DownSessions == <<Drop("refresh_token_sessions")>>

\* 0003: creators, archived projects with unique names among the others, the audit log.
UpManagement ==
    <<AddColumns("projects", {"created_by", "archived_at"}),
      Reference("projects", "created_by", Restricted("users")),
      Unique("projects", "uq_projects_owner_name_active", "twin_projects"),
      AddColumns("tasks", {"created_by"}),
      Reference("tasks", "created_by", Restricted("users")),
      Create("audit_logs", [actor_id |-> SetNull("users")]),
      ActionCheck(ManagementActions), EntityCheck(ManagementEntities)>>
DownManagement ==
    <<Drop("audit_logs"),
      Unreference("tasks", "created_by"), DropColumns("tasks", {"created_by"}),
      DropUnique("projects", "uq_projects_owner_name_active"),
      Unreference("projects", "created_by"),
      DropColumns("projects", {"archived_at", "created_by"})>>

\* 0004: notifications, and the project an audit row is about.
UpNotifications ==
    <<AddColumns("audit_logs", {"project_id"}),
      Create("notifications", [user_id |-> Cascade("users")]),
      NoticeCheck(ManagementNotices), Index("projects"), Index("tasks")>>
DownNotificationsWithoutColumn ==
    <<Index("tasks"), Index("projects"), Drop("notifications")>>
DownNotifications ==
    <<Index("tasks"), Index("projects"),
      DropColumns("audit_logs", {"project_id"}), Drop("notifications")>>

\* 0005: the CRM; its tables are module-level objects, created in the order of CRM_TABLES.
CompaniesAndContacts ==
    <<Create("crm_companies", [owner_id |-> SetNull("users"),
                               created_by |-> Restricted("users")]),
      Create("crm_contacts",
             [company_id |-> SetNull("crm_companies"), owner_id |-> SetNull("users"),
              created_by |-> Restricted("users")])>>
LeadsAndPipelines ==
    <<Create("crm_leads",
             [company_id |-> SetNull("crm_companies"), contact_id |-> SetNull("crm_contacts"),
              owner_id |-> SetNull("users"), created_by |-> Restricted("users")]),
      Create("crm_pipelines", [created_by |-> Restricted("users")]),
      Unique("crm_pipelines", "uq_crm_pipelines_name", "rival_pipelines"),
      Unique("crm_pipelines", "uq_crm_pipelines_default_active", "rival_pipelines")>>
StagesAndDeals ==
    <<Create("crm_pipeline_stages", [pipeline_id |-> Cascade("crm_pipelines")]),
      Create("crm_deals",
             [pipeline_id |-> Restricted("crm_pipelines"),
              stage_id |-> Restricted("crm_pipeline_stages"),
              company_id |-> SetNull("crm_companies"),
              primary_contact_id |-> SetNull("crm_contacts"),
              originating_lead_id |-> SetNull("crm_leads"), owner_id |-> Restricted("users"),
              created_by |-> Restricted("users")])>>
NotesAndActivities ==
    <<Create("crm_notes",
             [author_id |-> Restricted("users"), company_id |-> Cascade("crm_companies"),
              contact_id |-> Cascade("crm_contacts"), lead_id |-> Cascade("crm_leads"),
              deal_id |-> Cascade("crm_deals")]),
      Create("crm_activities",
             [company_id |-> SetNull("crm_companies"), contact_id |-> SetNull("crm_contacts"),
              lead_id |-> SetNull("crm_leads"), deal_id |-> SetNull("crm_deals"),
              actor_id |-> Restricted("users"), assigned_to |-> SetNull("users")])>>
UpCrm ==
    CompaniesAndContacts \o LeadsAndPipelines \o StagesAndDeals \o NotesAndActivities \o
    <<ActionCheck(ActionsWithCrm), EntityCheck(EntitiesWithCrm), NoticeCheck(NoticesWithCrm)>>
DownCrm ==
    <<NoticeCheck(ManagementNotices),
      ActionCheck(ManagementActions), EntityCheck(ManagementEntities),
      Drop("crm_activities"), Drop("crm_notes"), Drop("crm_deals"),
      Drop("crm_pipeline_stages"), Drop("crm_pipelines"), Drop("crm_leads"),
      Drop("crm_contacts"), Drop("crm_companies")>>

\* 0006: outreach.
AudiencesAndMailboxes ==
    <<Create("outreach_audiences",
             [created_by |-> Restricted("users"), owner_id |-> Cascade("users")]),
      Create("outreach_automations",
             [created_by |-> Restricted("users"), owner_id |-> Cascade("users")]),
      Create("outreach_mailboxes",
             [created_by |-> Restricted("users"), owner_id |-> Cascade("users")])>>
SequencesAndCampaigns ==
    <<Create("outreach_sequences",
             [created_by |-> Restricted("users"), owner_id |-> Cascade("users")]),
      Create("outreach_templates",
             [created_by |-> Restricted("users"), owner_id |-> Cascade("users")]),
      Create("outreach_campaigns",
             [audience_id |-> Restricted("outreach_audiences"),
              created_by |-> Restricted("users"),
              mailbox_id |-> Restricted("outreach_mailboxes"), owner_id |-> Cascade("users"),
              sequence_id |-> Restricted("outreach_sequences")])>>
TemplatesAndDrafts ==
    <<Create("outreach_template_versions",
             [created_by |-> Restricted("users"),
              template_id |-> Cascade("outreach_templates")]),
      Create("outreach_drafts",
             [contact_id |-> SetNull("crm_contacts"), created_by |-> Restricted("users"),
              mailbox_id |-> Restricted("outreach_mailboxes"), owner_id |-> Cascade("users"),
              template_version_id |-> SetNull("outreach_template_versions")])>>
EnrolmentsAndApprovals ==
    <<Create("outreach_enrollments",
             [campaign_id |-> SetNull("outreach_campaigns"),
              contact_id |-> Cascade("crm_contacts"), owner_id |-> Cascade("users"),
              sequence_id |-> Restricted("outreach_sequences")]),
      Create("outreach_sequence_steps",
             [sequence_id |-> Cascade("outreach_sequences"),
              template_version_id |-> Restricted("outreach_template_versions")]),
      Create("outreach_approvals",
             [draft_id |-> Cascade("outreach_drafts"), requested_by |-> Restricted("users"),
              reviewer_id |-> SetNull("users")])>>
SendQueueAndEvents ==
    <<Create("outreach_attachments", [draft_id |-> Cascade("outreach_drafts")]),
      Create("outreach_send_queue",
             [draft_id |-> Cascade("outreach_drafts"),
              enrollment_id |-> SetNull("outreach_enrollments")]),
      Create("outreach_delivery_events", [queue_item_id |-> Cascade("outreach_send_queue")])>>
UpOutreach ==
    AudiencesAndMailboxes \o SequencesAndCampaigns \o TemplatesAndDrafts \o
    EnrolmentsAndApprovals \o SendQueueAndEvents \o
    <<Create("outreach_executions",
             [enrollment_id |-> Cascade("outreach_enrollments"),
              queue_item_id |-> SetNull("outreach_send_queue"),
              step_id |-> Restricted("outreach_sequence_steps")]),
      NoticeCheck(NoticesWithOutreach), EntityCheck(EntitiesWithOutreach)>>
DownOutreach ==
    <<EntityCheck(EntitiesWithCrm), NoticeCheck(NoticesWithCrm),
      Drop("outreach_executions"), Drop("outreach_delivery_events"),
      Drop("outreach_send_queue"), Drop("outreach_attachments"), Drop("outreach_approvals"),
      Drop("outreach_sequence_steps"), Drop("outreach_enrollments"), Drop("outreach_drafts"),
      Drop("outreach_template_versions"), Drop("outreach_campaigns"),
      Drop("outreach_templates"), Drop("outreach_sequences"), Drop("outreach_mailboxes"),
      Drop("outreach_automations"), Drop("outreach_audiences")>>

\* 0007: agents, their conversations and their runs.
AgentsAndTools ==
    <<Create("agent_definitions", [created_by_id |-> Restricted("users")]),
      Create("agent_tool_definitions", NoRefs)>>
ConversationsAndRuns ==
    <<Create("agent_conversations",
             [agent_id |-> Restricted("agent_definitions"), owner_id |-> Cascade("users")]),
      Create("agent_runs",
             [agent_id |-> Restricted("agent_definitions"),
              conversation_id |-> Cascade("agent_conversations"),
              triggered_by_id |-> Restricted("users")])>>
Messages ==
    <<Create("agent_messages",
             [conversation_id |-> Cascade("agent_conversations"),
              created_by_id |-> SetNull("users"),
              parent_message_id |-> SetNull("agent_messages"),
                  run_id |-> SetNull("agent_runs")])>>
ExecutionsAndApprovals ==
    <<Create("agent_tool_executions",
             [run_id |-> Cascade("agent_runs"),
              tool_id |-> Restricted("agent_tool_definitions")]),
      Create("agent_approvals",
             [decided_by_id |-> SetNull("users"), requested_by_id |-> Restricted("users"),
              run_id |-> Cascade("agent_runs"),
              tool_execution_id |-> SetNull("agent_tool_executions")])>>
MemoriesAndSnapshots ==
    <<Create("agent_memories",
             [agent_id |-> Cascade("agent_definitions"),
              conversation_id |-> Cascade("agent_conversations"),
              created_by_id |-> SetNull("users"), owner_id |-> Cascade("users"),
              source_message_id |-> SetNull("agent_messages")]),
      Create("agent_context_snapshots", [run_id |-> Cascade("agent_runs")])>>
UpAgents ==
    AgentsAndTools \o ConversationsAndRuns \o Messages \o ExecutionsAndApprovals \o
    MemoriesAndSnapshots \o
    <<Create("agent_attachments",
             [conversation_id |-> Cascade("agent_conversations"),
              message_id |-> SetNull("agent_messages"),
                  uploaded_by_id |-> Restricted("users")])>>
DownAgents ==
    <<Drop("agent_attachments"), Drop("agent_context_snapshots"), Drop("agent_memories"),
      Drop("agent_approvals"), Drop("agent_tool_executions"), Drop("agent_messages"),
      Drop("agent_runs"), Drop("agent_conversations"), Drop("agent_tool_definitions"),
      Drop("agent_definitions")>>

\* 0008: background jobs.
JobsAndSchedules ==
    <<Create("background_job_definitions", NoRefs),
      Create("background_job_schedules",
             [job_definition_id |-> Restricted("background_job_definitions"),
              user_id |-> Cascade("users"), agent_id |-> Cascade("agent_definitions"),
              conversation_id |-> Cascade("agent_conversations"),
              run_id |-> Cascade("agent_runs")])>>
UpBackground ==
    JobsAndSchedules \o
    <<Create("background_job_executions",
             [job_definition_id |-> Restricted("background_job_definitions"),
              schedule_id |-> SetNull("background_job_schedules"), user_id |-> Cascade("users"),
              agent_id |-> Cascade("agent_definitions"), run_id |-> Cascade("agent_runs")]),
      Create("background_job_attempts",
          [execution_id |-> Cascade("background_job_executions")]),
      Create("background_job_events",
             [execution_id |-> Cascade("background_job_executions"),
              schedule_id |-> Cascade("background_job_schedules")])>>
DownBackground ==
    <<Drop("background_job_events"), Drop("background_job_attempts"),
      Drop("background_job_executions"), Drop("background_job_schedules"),
      Drop("background_job_definitions")>>

\* 0009: workspaces, one for each user, security records and sessions by family.
IdentityTables ==
    <<Create("workspaces", [owner_id |-> Cascade("users")]),
      Create("workspace_memberships",
             [workspace_id |-> Cascade("workspaces"), user_id |-> Cascade("users")]),
      Create("security_tokens", [user_id |-> Cascade("users")]),
      Create("security_events", [user_id |-> SetNull("users")]),
      Create("rate_limit_buckets", NoRefs)>>
UpIdentity ==
    IdentityTables \o
    <<AddColumns("users", {"failed_login_attempts", "locked_until", "last_login_at",
                           "last_login_ip"}),
      AddColumns("refresh_token_sessions",
                 {"family_id", "parent_jti", "is_persistent", "user_agent", "ip_address",
                  "last_used_at", "revoked_reason"})>>
DownIdentity ==
    <<DropColumns("refresh_token_sessions",
                  {"revoked_reason", "last_used_at", "ip_address", "user_agent",
                   "is_persistent", "parent_jti", "family_id"}),
      DropColumns("users", {"last_login_ip", "last_login_at", "locked_until",
                            "failed_login_attempts"}),
      Drop("rate_limit_buckets"), Drop("security_events"), Drop("security_tokens"),
      Drop("workspace_memberships"), Drop("workspaces")>>

\* 0010: pipeline names and defaults are unique for each creator.
UpPipelinesByCreator ==
    <<DropUnique("crm_pipelines", "uq_crm_pipelines_default_active"),
      DropUnique("crm_pipelines", "uq_crm_pipelines_name")>>
DownPipelinesByCreator ==
    <<Unique("crm_pipelines", "uq_crm_pipelines_name", "rival_pipelines"),
      Unique("crm_pipelines", "uq_crm_pipelines_default_active", "rival_pipelines")>>

\* 0011: addresses are unique whatever their case.
LookForTwinEmails == <<Require({"twin_emails"})>>
UpEmails == <<Unique("users", "ux_users_email_lower", "twin_emails")>>
DownEmails == <<DropUnique("users", "ux_users_email_lower")>>

\* c04e1a6256f7: market prices, unless the table was created by hand; c0b73382a5a4 is empty.
UpMarketPrices == <<CreateIfMissing("market_prices", NoRefs)>>
DownMarketPrices == <<DropIfPresent("market_prices")>>
NoChange == <<>>

\* 0012: founder control.
UpObservations ==
    <<Create("data_feed_observations", [entered_by_id |-> Restricted("users")]),
      EntityCheck(EntitiesWithObservation)>>
EraseObservations == <<EraseAudit({"data_feed_observation"})>>
DownObservations == <<EntityCheck(EntitiesWithOutreach), Drop("data_feed_observations")>>

\* 0013: voice sessions.
UpVoice ==
    <<Create("voice_sessions",
             [conversation_id |-> SetNull("agent_conversations"),
              run_id |-> SetNull("agent_runs"), user_id |-> Cascade("users")])>>
DownVoice == <<Drop("voice_sessions")>>

\* 0014: verifications of market providers.
UpVerifications == <<Create("market_provider_verifications", NoRefs)>>
DownVerifications == <<Drop("market_provider_verifications")>>

\* 0015: grants of agents, retrieved knowledge, Telegram.
GrantsAndSources ==
    <<Create("workspace_agent_grants",
             [workspace_id |-> Cascade("workspaces"), agent_id |-> Cascade("agent_definitions"),
              granted_by_id |-> Restricted("users")]),
      Create("ai_workspace_runs",
             [workspace_id |-> Cascade("workspaces"), run_id |-> Cascade("agent_runs"),
              user_id |-> Restricted("users")]),
      Create("knowledge_sources", [workspace_id |-> Cascade("workspaces")])>>
DocumentsAndContexts ==
    <<Create("knowledge_documents",
             [workspace_id |-> Cascade("workspaces"),
              source_id |-> Cascade("knowledge_sources")]),
      Create("knowledge_chunks",
             [workspace_id |-> Cascade("workspaces"),
              document_id |-> Cascade("knowledge_documents")]),
      Create("ai_retrieved_contexts",
             [workspace_id |-> Cascade("workspaces"), run_id |-> Cascade("agent_runs"),
              chunk_id |-> Restricted("knowledge_chunks")])>>
UpIntelligence ==
    GrantsAndSources \o DocumentsAndContexts \o
    <<Create("telegram_identities",
             [workspace_id |-> Cascade("workspaces"), user_id |-> Cascade("users"),
              verified_by_id |-> Restricted("users")]),
      Create("telegram_messages",
             [workspace_id |-> SetNull("workspaces"), user_id |-> SetNull("users"),
              identity_id |-> SetNull("telegram_identities"),
              conversation_id |-> SetNull("agent_conversations"),
              run_id |-> SetNull("agent_runs")])>>
DownIntelligence ==
    <<Drop("telegram_messages"), Drop("telegram_identities"), Drop("ai_retrieved_contexts"),
      Drop("knowledge_chunks"), Drop("knowledge_documents"), Drop("knowledge_sources"),
      Drop("ai_workspace_runs"), Drop("workspace_agent_grants")>>

\* 0016: reads are audited, and the diagnostic of voice authorization.
UpDiagnostic == <<ActionCheck(ActionsWithRead), EntityCheck(EntitiesWithDiagnostic)>>
EraseDiagnostics == <<EraseAudit({"voice_authorization_diagnostic"})>>
DownDiagnostic == <<ActionCheck(ActionsWithCrm), EntityCheck(EntitiesWithObservation)>>

\* 0017: credentials of the Microsoft account.
UpCredentials ==
    <<Create("oauth_credentials", [actor_id |-> Cascade("users")]),
      Create("oauth_states", [actor_id |-> Cascade("users")])>>
DownCredentials == <<Drop("oauth_states"), Drop("oauth_credentials")>>

\* 0018: withdrawals and their circuit breaker.
UpWithdrawals ==
    <<AddColumns("users", {"password_changed_at"}),
      AddColumns("audit_logs", {"event_type", "event_metadata"}),
      EntityCheck(EntitiesWithWithdrawal),
      Create("withdrawal_circuit_breakers",
             [workspace_id |-> Cascade("workspaces"), changed_by_id |-> SetNull("users")]),
      Create("withdrawal_requests",
             [workspace_id |-> Cascade("workspaces"), user_id |-> Cascade("users"),
              reviewed_by_id |-> SetNull("users"), approved_by_id |-> SetNull("users")])>>
EraseWithdrawals ==
    <<Index("withdrawal_requests"),
      EraseAudit({"account", "withdrawal", "withdrawal_circuit_breaker"})>>
DownWithdrawals ==
    <<EntityCheck(EntitiesWithDiagnostic),
      Drop("withdrawal_requests"), Drop("withdrawal_circuit_breakers"),
      DropColumns("audit_logs", {"event_metadata", "event_type"}),
      DropColumns("users", {"password_changed_at"})>>

\* 0019: accounts, portfolios and the ledger.
UpLedger ==
    <<Create("financial_accounts",
             [workspace_id |-> Cascade("workspaces"), user_id |-> Cascade("users")]),
      Create("portfolios",
             [workspace_id |-> Cascade("workspaces"), user_id |-> Cascade("users")]),
      Create("portfolio_positions", [portfolio_id |-> Cascade("portfolios")]),
      Create("financial_transactions",
             [workspace_id |-> Cascade("workspaces"), user_id |-> SetNull("users"),
              actor_id |-> SetNull("users")]),
      Create("ledger_entries",
             [transaction_id |-> Restricted("financial_transactions"),
              financial_account_id |-> Restricted("financial_accounts")])>>
DownLedger ==
    <<Drop("ledger_entries"), Drop("financial_transactions"), Drop("portfolio_positions"),
      Drop("portfolios"), Drop("financial_accounts")>>

\* 0020: executions of trades.
UpExecutions ==
    <<Create("trade_executions",
             [workspace_id |-> Cascade("workspaces"), actor_id |-> Restricted("users"),
              account_id |-> Restricted("users")])>>
DownExecutions == <<Drop("trade_executions")>>

\* 0021: signal, provider and result of an execution.
UpDryRun ==
    <<AddColumns("trade_executions", {"signal_id", "provider", "dry_run_result"}),
      Rebuild("trade_executions")>>
DownDryRun == <<DropColumns("trade_executions", {"dry_run_result", "provider", "signal_id"})>>

\* 0022: a tenant for every workspace, and fingerprints of requests.
UpTenants ==
    <<Create("tenants", NoRefs),
      AddColumns("workspaces", {"tenant_id"}),
      Reference("workspaces", "tenant_id", Restricted("tenants")),
      AddColumns("withdrawal_requests", {"request_fingerprint"}),
          Rebuild("withdrawal_requests"),
      AddColumns("trade_executions", {"request_fingerprint"}), Rebuild("trade_executions")>>
DownTenants ==
    <<DropColumns("trade_executions", {"request_fingerprint"}),
      DropColumns("withdrawal_requests", {"request_fingerprint"}),
      Unreference("workspaces", "tenant_id"), DropColumns("workspaces", {"tenant_id"}),
      Drop("tenants")>>

\* 0023: the research tables, with the same four owners each.
ResearchRefs ==
    [tenant_id |-> Restricted("tenants"), workspace_id |-> Cascade("workspaces"),
     account_id |-> Restricted("users"), created_by_id |-> Restricted("users")]
UpResearch ==
    LET OfExperiment == ResearchRefs @@ [experiment_id |-> Cascade("qlab_experiments")]
    IN <<Create("qlab_experiments", ResearchRefs),
         Create("qlab_datasets", OfExperiment),
         Create("qlab_models", OfExperiment),
         Create("qlab_runs", OfExperiment @@ [dataset_id |-> SetNull("qlab_datasets"),
                                              model_id |-> SetNull("qlab_models")]),
         Create("research_records", ResearchRefs)>>
DownResearch ==
    <<Drop("research_records"), Drop("qlab_runs"), Drop("qlab_models"),
      Drop("qlab_datasets"), Drop("qlab_experiments")>>

\* 0024: the second factor of a user.
MfaColumns ==
    {"mfa_secret_encrypted", "mfa_enabled", "mfa_last_accepted_step", "mfa_failed_attempts",
     "mfa_locked_until"}
UpMfa == <<AddColumns("users", MfaColumns)>>
DownMfa == <<DropColumns("users", MfaColumns)>>

\* 0025: documents of customers.
UpDocuments ==
    <<Create("customer_documents",
             [workspace_id |-> Cascade("workspaces"), target_user_id |-> Cascade("users"),
              uploaded_by_id |-> Restricted("users")]),
      EntityCheck(EntitiesWithDocument)>>
DownDocuments == <<EntityCheck(EntitiesWithWithdrawal), Drop("customer_documents")>>

\* 0026: settled trades and clearing accounts.
UpTrades ==
    <<AddColumns("financial_accounts", {"account_kind"}),
      Create("settled_trades",
             [workspace_id |-> Cascade("workspaces"), target_user_id |-> Restricted("users"),
              founder_actor_id |-> Restricted("users"),
              reversal_of_id |-> Restricted("settled_trades")]),
      AddColumns("financial_transactions", {"trade_id"}),
      Reference("financial_transactions", "trade_id", SetNull("settled_trades")),
      EntityCheck(EntitiesWithTrade)>>
LookForTrades == <<Require({"trade"})>>
DownTrades ==
    <<EntityCheck(EntitiesWithDocument),
      Unreference("financial_transactions", "trade_id"),
      DropColumns("financial_transactions", {"trade_id"}),
      Drop("settled_trades"), DropColumns("financial_accounts", {"account_kind"})>>

\* The chain: what each revision does, upwards and downwards. The parts of a step
\* are separated where it reads or erases rows before it locks their table.
Revision(up, down) == [up |-> up, down |-> down]
Revisions ==
    <<Revision(<<UpInitialDomain>>, <<DownInitialDomain>>),
      Revision(<<UpSessions>>, <<DownSessions>>),
      Revision(<<UpManagement>>, <<DownManagement>>),
      Revision(<<UpNotifications>>, <<DownNotifications>>),
      Revision(<<UpCrm>>, <<DownCrm>>),
      Revision(<<UpOutreach>>, <<DownOutreach>>),
      Revision(<<UpAgents>>, <<DownAgents>>),
      Revision(<<UpBackground>>, <<DownBackground>>),
      Revision(<<UpIdentity>>, <<DownIdentity>>),
      Revision(<<UpPipelinesByCreator>>, <<DownPipelinesByCreator>>),
      Revision(<<LookForTwinEmails, UpEmails>>, <<DownEmails>>),
      Revision(<<UpMarketPrices>>, <<DownMarketPrices>>),
      Revision(<<NoChange>>, <<NoChange>>),
      Revision(<<UpObservations>>, <<EraseObservations, DownObservations>>),
      Revision(<<UpVoice>>, <<DownVoice>>),
      Revision(<<UpVerifications>>, <<DownVerifications>>),
      Revision(<<UpIntelligence>>, <<DownIntelligence>>),
      Revision(<<UpDiagnostic>>, <<EraseDiagnostics, DownDiagnostic>>),
      Revision(<<UpCredentials>>, <<DownCredentials>>),
      Revision(<<UpWithdrawals>>, <<EraseWithdrawals, DownWithdrawals>>),
      Revision(<<UpLedger>>, <<DownLedger>>),
      Revision(<<UpExecutions>>, <<DownExecutions>>),
      Revision(<<UpDryRun>>, <<DownDryRun>>),
      Revision(<<UpTenants>>, <<DownTenants>>),
      Revision(<<UpResearch>>, <<DownResearch>>),
      Revision(<<UpMfa>>, <<DownMfa>>),
      Revision(<<UpDocuments>>, <<DownDocuments>>),
      Revision(<<UpTrades>>, <<LookForTrades, DownTrades>>)>>
LastRevision == Len(Revisions)
=============================================================================
