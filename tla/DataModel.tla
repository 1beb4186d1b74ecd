------------------------------ MODULE DataModel ------------------------------
(* The tables the program of the repository expects: one definition for each  *)
(* mapped class of src/app/database/models, its table with the columns that    *)
(* are foreign keys and what they do when the row they point at is deleted.    *)
EXTENDS SchemaRevisions

\* database/models/agent.py
AgentDefinitionTable == "agent_definitions" :> [created_by_id |-> Restricted("users")]
AgentConversationTable ==
    "agent_conversations" :> [agent_id |-> Restricted("agent_definitions"),
        owner_id |-> Cascade("users")]
AgentMessageTable ==
    "agent_messages" :> [conversation_id |-> Cascade("agent_conversations"),
        run_id |-> SetNull("agent_runs"), parent_message_id |-> SetNull("agent_messages"),
        created_by_id |-> SetNull("users")]
AgentRunTable ==
    "agent_runs" :> [conversation_id |-> Cascade("agent_conversations"),
        agent_id |-> Restricted("agent_definitions"), triggered_by_id |-> Restricted("users")]
AgentToolDefinitionTable == "agent_tool_definitions" :> NoRefs
AgentToolExecutionTable ==
    "agent_tool_executions" :> [run_id |-> Cascade("agent_runs"),
        tool_id |-> Restricted("agent_tool_definitions")]
AgentApprovalTable ==
    "agent_approvals" :> [run_id |-> Cascade("agent_runs"),
        tool_execution_id |-> SetNull("agent_tool_executions"),
        requested_by_id |-> Restricted("users"), decided_by_id |-> SetNull("users")]
AgentMemoryTable ==
    "agent_memories" :> [owner_id |-> Cascade("users"),
        agent_id |-> Cascade("agent_definitions"),
        conversation_id |-> Cascade("agent_conversations"),
        source_message_id |-> SetNull("agent_messages"), created_by_id |-> SetNull("users")]
AgentContextSnapshotTable == "agent_context_snapshots" :> [run_id |-> Cascade("agent_runs")]
AgentAttachmentTable ==
    "agent_attachments" :> [conversation_id |-> Cascade("agent_conversations"),
        message_id |-> SetNull("agent_messages"), uploaded_by_id |-> Restricted("users")]

\* database/models/audit_log.py
AuditLogTable == "audit_logs" :> [actor_id |-> SetNull("users")]

\* database/models/background.py
BackgroundJobDefinitionTable == "background_job_definitions" :> NoRefs
BackgroundJobScheduleTable ==
    "background_job_schedules" :> [
        job_definition_id |-> Restricted("background_job_definitions"),
        user_id |-> Cascade("users"), agent_id |-> Cascade("agent_definitions"),
        conversation_id |-> Cascade("agent_conversations"), run_id |-> Cascade("agent_runs")]
BackgroundJobExecutionTable ==
    "background_job_executions" :> [
        job_definition_id |-> Restricted("background_job_definitions"),
        schedule_id |-> SetNull("background_job_schedules"), user_id |-> Cascade("users"),
        agent_id |-> Cascade("agent_definitions"), run_id |-> Cascade("agent_runs")]
BackgroundJobAttemptTable ==
    "background_job_attempts" :> [execution_id |-> Cascade("background_job_executions")]
BackgroundJobEventTable ==
    "background_job_events" :> [execution_id |-> Cascade("background_job_executions"),
        schedule_id |-> Cascade("background_job_schedules")]

\* database/models/crm.py
CompanyTable ==
    "crm_companies" :> [owner_id |-> SetNull("users"), created_by |-> Restricted("users")]
ContactTable ==
    "crm_contacts" :> [company_id |-> SetNull("crm_companies"), owner_id |-> SetNull("users"),
        created_by |-> Restricted("users")]
LeadTable ==
    "crm_leads" :> [company_id |-> SetNull("crm_companies"),
        contact_id |-> SetNull("crm_contacts"), owner_id |-> SetNull("users"),
        created_by |-> Restricted("users")]
PipelineTable == "crm_pipelines" :> [created_by |-> Restricted("users")]
PipelineStageTable == "crm_pipeline_stages" :> [pipeline_id |-> Cascade("crm_pipelines")]
DealTable ==
    "crm_deals" :> [pipeline_id |-> Restricted("crm_pipelines"),
        stage_id |-> Restricted("crm_pipeline_stages"), company_id |-> SetNull("crm_companies"),
        primary_contact_id |-> SetNull("crm_contacts"),
        originating_lead_id |-> SetNull("crm_leads"), owner_id |-> Restricted("users"),
        created_by |-> Restricted("users")]
CRMNoteTable ==
    "crm_notes" :> [author_id |-> Restricted("users"), company_id |-> Cascade("crm_companies"),
        contact_id |-> Cascade("crm_contacts"), lead_id |-> Cascade("crm_leads"),
        deal_id |-> Cascade("crm_deals")]
CRMActivityTable ==
    "crm_activities" :> [company_id |-> SetNull("crm_companies"),
        contact_id |-> SetNull("crm_contacts"), lead_id |-> SetNull("crm_leads"),
        deal_id |-> SetNull("crm_deals"), actor_id |-> Restricted("users"),
        assigned_to |-> SetNull("users")]

\* database/models/data_feed_observation.py
DataFeedObservationTable == "data_feed_observations" :> [entered_by_id |-> Restricted("users")]

\* database/models/document.py
CustomerDocumentTable ==
    "customer_documents" :> [workspace_id |-> Cascade("workspaces"),
        target_user_id |-> Cascade("users"), uploaded_by_id |-> Restricted("users")]

\* database/models/financial.py
FinancialAccountTable ==
    "financial_accounts" :> [workspace_id |-> Cascade("workspaces"),
        user_id |-> Cascade("users")]
PortfolioTable ==
    "portfolios" :> [workspace_id |-> Cascade("workspaces"), user_id |-> Cascade("users")]
PortfolioPositionTable == "portfolio_positions" :> [portfolio_id |-> Cascade("portfolios")]
FinancialTransactionTable ==
    "financial_transactions" :> [workspace_id |-> Cascade("workspaces"),
        user_id |-> SetNull("users"), actor_id |-> SetNull("users"),
        trade_id |-> SetNull("settled_trades")]
LedgerEntryTable ==
    "ledger_entries" :> [transaction_id |-> Restricted("financial_transactions"),
        financial_account_id |-> Restricted("financial_accounts")]

\* database/models/integration.py
OAuthCredentialTable == "oauth_credentials" :> [actor_id |-> Cascade("users")]
OAuthStateTable == "oauth_states" :> [actor_id |-> Cascade("users")]

\* database/models/intelligence.py
WorkspaceAgentGrantTable ==
    "workspace_agent_grants" :> [workspace_id |-> Cascade("workspaces"),
        agent_id |-> Cascade("agent_definitions"), granted_by_id |-> Restricted("users")]
AIWorkspaceRunTable ==
    "ai_workspace_runs" :> [workspace_id |-> Cascade("workspaces"),
        run_id |-> Cascade("agent_runs"), user_id |-> Restricted("users")]
KnowledgeSourceTable == "knowledge_sources" :> [workspace_id |-> Cascade("workspaces")]
KnowledgeDocumentTable ==
    "knowledge_documents" :> [workspace_id |-> Cascade("workspaces"),
        source_id |-> Cascade("knowledge_sources")]
KnowledgeChunkTable ==
    "knowledge_chunks" :> [workspace_id |-> Cascade("workspaces"),
        document_id |-> Cascade("knowledge_documents")]
AIRetrievedContextTable ==
    "ai_retrieved_contexts" :> [workspace_id |-> Cascade("workspaces"),
        run_id |-> Cascade("agent_runs"), chunk_id |-> Restricted("knowledge_chunks")]
TelegramIdentityTable ==
    "telegram_identities" :> [workspace_id |-> Cascade("workspaces"),
        user_id |-> Cascade("users"), verified_by_id |-> Restricted("users")]
TelegramMessageTable ==
    "telegram_messages" :> [workspace_id |-> SetNull("workspaces"),
        user_id |-> SetNull("users"), identity_id |-> SetNull("telegram_identities"),
        conversation_id |-> SetNull("agent_conversations"), run_id |-> SetNull("agent_runs")]

\* database/models/market.py
MarketPriceTable == "market_prices" :> NoRefs

\* database/models/market_verification.py
MarketProviderVerificationTable == "market_provider_verifications" :> NoRefs

\* database/models/notification.py
NotificationTable == "notifications" :> [user_id |-> Cascade("users")]

\* database/models/outreach.py
MailboxConnectionTable ==
    "outreach_mailboxes" :> [owner_id |-> Cascade("users"), created_by |-> Restricted("users")]
EmailTemplateTable ==
    "outreach_templates" :> [owner_id |-> Cascade("users"), created_by |-> Restricted("users")]
EmailTemplateVersionTable ==
    "outreach_template_versions" :> [template_id |-> Cascade("outreach_templates"),
        created_by |-> Restricted("users")]
EmailDraftTable ==
    "outreach_drafts" :> [mailbox_id |-> Restricted("outreach_mailboxes"),
        template_version_id |-> SetNull("outreach_template_versions"),
        contact_id |-> SetNull("crm_contacts"), owner_id |-> Cascade("users"),
        created_by |-> Restricted("users")]
EmailAttachmentTable == "outreach_attachments" :> [draft_id |-> Cascade("outreach_drafts")]
SequenceTable ==
    "outreach_sequences" :> [owner_id |-> Cascade("users"), created_by |-> Restricted("users")]
SequenceStepTable ==
    "outreach_sequence_steps" :> [sequence_id |-> Cascade("outreach_sequences"),
        template_version_id |-> Restricted("outreach_template_versions")]
DynamicAudienceTable ==
    "outreach_audiences" :> [owner_id |-> Cascade("users"), created_by |-> Restricted("users")]
CampaignTable ==
    "outreach_campaigns" :> [sequence_id |-> Restricted("outreach_sequences"),
        audience_id |-> Restricted("outreach_audiences"),
        mailbox_id |-> Restricted("outreach_mailboxes"), owner_id |-> Cascade("users"),
        created_by |-> Restricted("users")]
SequenceEnrollmentTable ==
    "outreach_enrollments" :> [sequence_id |-> Restricted("outreach_sequences"),
        campaign_id |-> SetNull("outreach_campaigns"), contact_id |-> Cascade("crm_contacts"),
        owner_id |-> Cascade("users")]
SendQueueItemTable ==
    "outreach_send_queue" :> [draft_id |-> Cascade("outreach_drafts"),
        enrollment_id |-> SetNull("outreach_enrollments")]
SequenceExecutionTable ==
    "outreach_executions" :> [enrollment_id |-> Cascade("outreach_enrollments"),
        step_id |-> Restricted("outreach_sequence_steps"),
        queue_item_id |-> SetNull("outreach_send_queue")]
DeliveryEventTable ==
    "outreach_delivery_events" :> [queue_item_id |-> Cascade("outreach_send_queue")]
OutreachApprovalTable ==
    "outreach_approvals" :> [draft_id |-> Cascade("outreach_drafts"),
        requested_by |-> Restricted("users"), reviewer_id |-> SetNull("users")]
AutomationRuleTable ==
    "outreach_automations" :> [owner_id |-> Cascade("users"),
        created_by |-> Restricted("users")]

\* database/models/project.py
ProjectTable == "projects" :> [owner_id |-> Restricted("users"),
        created_by |-> Restricted("users")]

\* database/models/quant.py
TradeExecutionTable ==
    "trade_executions" :> [workspace_id |-> Cascade("workspaces"),
        actor_id |-> Restricted("users"), account_id |-> Restricted("users")]

\* database/models/refresh_token.py
RefreshTokenSessionTable == "refresh_token_sessions" :> [user_id |-> Cascade("users")]

\* database/models/research.py
QLabExperimentTable ==
    "qlab_experiments" :> [tenant_id |-> Restricted("tenants"),
        workspace_id |-> Cascade("workspaces"), account_id |-> Restricted("users"),
        created_by_id |-> Restricted("users")]
QLabDatasetTable ==
    "qlab_datasets" :> [tenant_id |-> Restricted("tenants"),
        workspace_id |-> Cascade("workspaces"), account_id |-> Restricted("users"),
        experiment_id |-> Cascade("qlab_experiments"), created_by_id |-> Restricted("users")]
QLabModelTable ==
    "qlab_models" :> [tenant_id |-> Restricted("tenants"),
        workspace_id |-> Cascade("workspaces"),
        account_id |-> Restricted("users"), experiment_id |-> Cascade("qlab_experiments"),
        created_by_id |-> Restricted("users")]
QLabRunTable ==
    "qlab_runs" :> [tenant_id |-> Restricted("tenants"), workspace_id |-> Cascade("workspaces"),
        account_id |-> Restricted("users"), experiment_id |-> Cascade("qlab_experiments"),
        dataset_id |-> SetNull("qlab_datasets"), model_id |-> SetNull("qlab_models"),
        created_by_id |-> Restricted("users")]
ResearchRecordTable ==
    "research_records" :> [tenant_id |-> Restricted("tenants"),
        workspace_id |-> Cascade("workspaces"), account_id |-> Restricted("users"),
        created_by_id |-> Restricted("users")]

\* database/models/role.py
RoleTable == "roles" :> NoRefs

\* database/models/security.py
SecurityTokenTable == "security_tokens" :> [user_id |-> Cascade("users")]
SecurityEventTable == "security_events" :> [user_id |-> SetNull("users")]
RateLimitBucketTable == "rate_limit_buckets" :> NoRefs

\* database/models/task.py
TaskTable ==
    "tasks" :> [project_id |-> Cascade("projects"), created_by |-> Restricted("users"),
        assignee_id |-> SetNull("users")]

\* database/models/trade.py
SettledTradeTable ==
    "settled_trades" :> [workspace_id |-> Cascade("workspaces"),
        target_user_id |-> Restricted("users"), founder_actor_id |-> Restricted("users"),
        reversal_of_id |-> Restricted("settled_trades")]

\* database/models/user.py
UserTable == "users" :> NoRefs

\* database/models/user_role.py
UserRoleTable == "user_roles" :> [user_id |-> Cascade("users"), role_id |-> Cascade("roles")]

\* database/models/voice.py
VoiceSessionRecordTable ==
    "voice_sessions" :> [user_id |-> Cascade("users"),
        conversation_id |-> SetNull("agent_conversations"), run_id |-> SetNull("agent_runs")]

\* database/models/withdrawal.py
WithdrawalRequestTable ==
    "withdrawal_requests" :> [workspace_id |-> Cascade("workspaces"),
        user_id |-> Cascade("users"), reviewed_by_id |-> SetNull("users"),
        approved_by_id |-> SetNull("users")]
WithdrawalCircuitBreakerTable ==
    "withdrawal_circuit_breakers" :> [workspace_id |-> Cascade("workspaces"),
        changed_by_id |-> SetNull("users")]

\* database/models/workspace.py
TenantTable == "tenants" :> NoRefs
WorkspaceTable ==
    "workspaces" :> [tenant_id |-> Restricted("tenants"), owner_id |-> Cascade("users")]
WorkspaceMembershipTable ==
    "workspace_memberships" :> [workspace_id |-> Cascade("workspaces"),
        user_id |-> Cascade("users")]

MappedTables ==
    AgentDefinitionTable @@ AgentConversationTable @@ AgentMessageTable @@ AgentRunTable @@
    AgentToolDefinitionTable @@ AgentToolExecutionTable @@ AgentApprovalTable @@
    AgentMemoryTable @@ AgentContextSnapshotTable @@ AgentAttachmentTable @@ AuditLogTable @@
    BackgroundJobDefinitionTable @@ BackgroundJobScheduleTable @@
    BackgroundJobExecutionTable @@ BackgroundJobAttemptTable @@ BackgroundJobEventTable @@
    CompanyTable @@ ContactTable @@ LeadTable @@ PipelineTable @@ PipelineStageTable @@
    DealTable @@ CRMNoteTable @@ CRMActivityTable @@ DataFeedObservationTable @@
    CustomerDocumentTable @@ FinancialAccountTable @@ PortfolioTable @@
    PortfolioPositionTable @@ FinancialTransactionTable @@ LedgerEntryTable @@
    OAuthCredentialTable @@ OAuthStateTable @@ WorkspaceAgentGrantTable @@
    AIWorkspaceRunTable @@ KnowledgeSourceTable @@ KnowledgeDocumentTable @@
    KnowledgeChunkTable @@ AIRetrievedContextTable @@ TelegramIdentityTable @@
    TelegramMessageTable @@ MarketPriceTable @@ MarketProviderVerificationTable @@
    NotificationTable @@ MailboxConnectionTable @@ EmailTemplateTable @@
    EmailTemplateVersionTable @@ EmailDraftTable @@ EmailAttachmentTable @@ SequenceTable @@
    SequenceStepTable @@ DynamicAudienceTable @@ CampaignTable @@ SequenceEnrollmentTable @@
    SendQueueItemTable @@ SequenceExecutionTable @@ DeliveryEventTable @@
    OutreachApprovalTable @@ AutomationRuleTable @@ ProjectTable @@ TradeExecutionTable @@
    RefreshTokenSessionTable @@ QLabExperimentTable @@ QLabDatasetTable @@ QLabModelTable @@
    QLabRunTable @@ ResearchRecordTable @@ RoleTable @@ SecurityTokenTable @@
    SecurityEventTable @@ RateLimitBucketTable @@ TaskTable @@ SettledTradeTable @@
    UserTable @@ UserRoleTable @@ VoiceSessionRecordTable @@ WithdrawalRequestTable @@
    WithdrawalCircuitBreakerTable @@ TenantTable @@ WorkspaceTable @@ WorkspaceMembershipTable

\* The enumerations the CHECK constraints admit.
AuditAction == {"read", "create", "update", "delete", "assignment", "status_change",
                "convert", "stage_change", "complete"}
AuditEntity ==
    {"voice_authorization_diagnostic", "project", "task", "company", "contact", "lead",
     "pipeline", "pipeline_stage", "deal", "crm_note", "crm_activity", "mailbox",
     "email_template", "email_draft", "sequence", "campaign", "automation",
     "data_feed_observation", "account", "withdrawal", "withdrawal_circuit_breaker",
     "document", "trade"}
NotificationType ==
    {"task_assigned", "task_due_soon", "task_overdue", "project_status_changed", "system",
     "lead_assigned", "deal_assigned", "deal_stage_changed", "lead_qualified",
     "lead_converted", "follow_up_due", "crm_activity_assigned",
     "outreach_approval_requested", "outreach_approval_decided", "outreach_send_failed",
     "campaign_completed"}
=============================================================================
