---------------------------- MODULE Conversations ----------------------------
(***************************************************************************)
(* Agent definitions, their one default, and the conversations held with   *)
(* them (services/agent.py, database/repositories/agent.py). Rows that are *)
(* changed are locked first; a message is numbered under the lock of its   *)
(* conversation. Requests interleave between their statements.             *)
(* Not modelled: names, prompts and titles, which the update operations    *)
(* change under the same locks, and who may call what.                     *)
(***************************************************************************)
EXTENDS Integers, FiniteSets, Sequences

CONSTANTS
    Agents,          \* AgentDefinition rows
    Chats,  \* AgentConversation rows
    Callers,         \* requests that may be under way at once
    MaxMessages,     \* bound: messages of a conversation
    NoAgent, NoConversation

ASSUME ConversationsAssumption ==
    /\ NoAgent \notin Agents /\ NoConversation \notin Chats
    /\ MaxMessages \in Nat

AgentStatuses == {"absent", "draft", "active", "disabled", "archived"}
ConversationStatuses == {"absent", "active", "closed", "archived"}

VARIABLES
    agentStatus,    \* [Agents -> status]
    defaults,       \* agents with is_default
    hadDefault,     \* history: some agent has been the default
    conversation,   \* [Chats -> status]
    numbers,        \* [Chats -> sequence numbers, in commit order]
    finalLength,    \* history: [Chats -> Len(numbers) when it stopped being active]
    turn            \* [Callers -> its transaction]

agentVars == <<agentStatus, defaults, hadDefault>>
messageVars == <<conversation, numbers, finalLength>>
conversationVars == <<agentVars, messageVars, turn>>

Turn == [stage : {"free", "candidate", "swap", "locked", "numbered"},
         agent : Agents \cup {NoAgent},
         found : SUBSET Agents,              \* defaults the SELECT found
         chat : Chats \cup {NoConversation},
         number : 0 .. MaxMessages]
NoTurn == [stage |-> "free", agent |-> NoAgent, found |-> {}, chat |-> NoConversation,
           number |-> 0]

ConversationsTypeOK ==
    /\ agentStatus \in [Agents -> AgentStatuses]
    /\ defaults \subseteq Agents /\ hadDefault \in BOOLEAN
    /\ conversation \in [Chats -> ConversationStatuses]
    /\ numbers \in [Chats -> Seq(1 .. MaxMessages)]
    /\ finalLength \in [Chats -> 0 .. MaxMessages]
    /\ turn \in [Callers -> Turn]

ConversationsInit ==
    /\ agentStatus = [a \in Agents |-> "absent"]
    /\ defaults = {} /\ hadDefault = FALSE
    /\ conversation = [c \in Chats |-> "absent"]
    /\ numbers = [c \in Chats |-> <<>>]
    /\ finalLength = [c \in Chats |-> 0]
    /\ turn = [p \in Callers |-> NoTurn]

Free(p) == turn[p].stage = "free"
Finish(p) == turn' = [turn EXCEPT ![p] = NoTurn]

\* get_for_update gets past the row's lock.
AgentUnlocked(p, S) == \A q \in Callers \ {p} : turn[q].agent \notin S

\* Faulty variant of ConversationUnlocked: the row is read without a lock.
ConversationNeverLocked(p, c) == TRUE
ConversationUnlocked(p, c) == \A q \in Callers \ {p} : turn[q].chat # c

-----------------------------------------------------------------------------
(* Agent definitions.                                                      *)

CreateAgent(p, a) ==
    /\ Free(p) /\ agentStatus[a] = "absent"
    /\ agentStatus' = [agentStatus EXCEPT ![a] = "draft"]
    /\ UNCHANGED <<defaults, hadDefault, messageVars, turn>>

\* _get_locked, and the refusal of an archived agent.
Locked(p, a) ==
    /\ Free(p) /\ AgentUnlocked(p, {a})
    /\ agentStatus[a] \notin {"absent", "archived"}

NotDefault(a) == a \notin defaults

ArchiveAgent(p, a) ==
    /\ Locked(p, a) /\ NotDefault(a)
    /\ agentStatus' = [agentStatus EXCEPT ![a] = "archived"]
    /\ defaults' = defaults \ {a}
    /\ UNCHANGED <<hadDefault, messageVars, turn>>

ActivateAgent(p, a) ==
    /\ Locked(p, a)
    /\ agentStatus' = [agentStatus EXCEPT ![a] = "active"]
    /\ UNCHANGED <<defaults, hadDefault, messageVars, turn>>

DisableAgent(p, a) ==
    /\ Locked(p, a) /\ NotDefault(a)
    /\ agentStatus' = [agentStatus EXCEPT ![a] = "disabled"]
    /\ UNCHANGED <<defaults, hadDefault, messageVars, turn>>

\* set_default locks the candidate ...
SetDefault(p, a) ==
    /\ Locked(p, a)
    /\ turn' = [turn EXCEPT ![p].stage = "candidate", ![p].agent = a]
    /\ UNCHANGED <<agentVars, messageVars>>

\* ... the SELECT takes its snapshot of the other defaults ...
FindDefaults(p) ==
    /\ turn[p].stage = "candidate"
    /\ turn' = [turn EXCEPT ![p].stage = "swap", ![p].found = defaults \ {turn[p].agent}]
    /\ UNCHANGED <<agentVars, messageVars>>

\* uq_agent_definitions_active_default: a default this SELECT did not find is
\* still there, the second flush fails and all is rolled back.
SecondDefault(p) ==
    \E b \in defaults \ (turn[p].found \cup {turn[p].agent}) : agentStatus[b] = "active"

\* ... waits for their locks and moves the flag.
MoveDefault(p) ==
    /\ turn[p].stage = "swap" /\ AgentUnlocked(p, turn[p].found)
    /\ ~SecondDefault(p)
    /\ defaults' = (defaults \ turn[p].found) \cup {turn[p].agent}
    /\ agentStatus' = [agentStatus EXCEPT ![turn[p].agent] = "active"]
    /\ hadDefault' = TRUE
    /\ Finish(p)
    /\ UNCHANGED messageVars

DefaultRefused(p) ==
    /\ turn[p].stage = "swap" /\ AgentUnlocked(p, turn[p].found)
    /\ SecondDefault(p)
    /\ Finish(p)
    /\ UNCHANGED <<agentVars, messageVars>>

-----------------------------------------------------------------------------
(* Conversations and messages.                                             *)

CreateConversation(p, c, a) ==
    /\ Free(p) /\ conversation[c] = "absent" /\ agentStatus[a] = "active"
    /\ conversation' = [conversation EXCEPT ![c] = "active"]
    /\ UNCHANGED <<agentVars, numbers, finalLength, turn>>

\* _get_mutable_owned
Mutable(p, c) ==
    /\ Free(p) /\ ConversationUnlocked(p, c)
    /\ conversation[c] \notin {"absent", "archived"}

Stops(c, status) ==
    /\ conversation' = [conversation EXCEPT ![c] = status]
    /\ finalLength' = [finalLength EXCEPT ![c] =
                         IF conversation[c] = "active" THEN Len(numbers[c]) ELSE @]
    /\ UNCHANGED <<agentVars, numbers, turn>>

CloseConversation(p, c) == Mutable(p, c) /\ Stops(c, "closed")
ArchiveConversation(p, c) == Mutable(p, c) /\ Stops(c, "archived")

\* MessageService._create locks the conversation, which must be active.
WriteMessage(p, c) ==
    /\ Free(p) /\ ConversationUnlocked(p, c) /\ conversation[c] = "active"
    /\ turn' = [turn EXCEPT ![p].stage = "locked", ![p].chat = c]
    /\ UNCHANGED <<agentVars, messageVars>>

Largest(s) == IF s = <<>> THEN 0 ELSE CHOOSE n \in {s[i] : i \in DOMAIN s} :
                                        \A i \in DOMAIN s : s[i] <= n
NextSequence(p) ==
    /\ turn[p].stage = "locked"
    /\ Largest(numbers[turn[p].chat]) < MaxMessages
    /\ turn' = [turn EXCEPT ![p].stage = "numbered",
                            ![p].number = Largest(numbers[turn[p].chat]) + 1]
    /\ UNCHANGED <<agentVars, messageVars>>

\* The unique index uq_agent_messages_conversation_sequence has nothing to refuse:
\* the number was taken under the lock of the conversation (NumberedInOrder).
CommitMessage(p) ==
    /\ turn[p].stage = "numbered"
    /\ numbers' = [numbers EXCEPT ![turn[p].chat] = Append(@, turn[p].number)]
    /\ Finish(p)
    /\ UNCHANGED <<agentVars, conversation, finalLength>>

\* The parent or the run belongs to another conversation, or the request dies.
MessageRefused(p) ==
    /\ turn[p].stage \in {"locked", "numbered"}
    /\ Finish(p)
    /\ UNCHANGED <<agentVars, messageVars>>

ConversationsNext == \E p \in Callers :
    \/ \E a \in Agents : \/ CreateAgent(p, a) \/ ArchiveAgent(p, a) \/ ActivateAgent(p, a)
                         \/ DisableAgent(p, a) \/ SetDefault(p, a)
                         \/ \E c \in Chats : CreateConversation(p, c, a)
    \/ FindDefaults(p) \/ MoveDefault(p) \/ DefaultRefused(p)
    \/ \E c \in Chats : CloseConversation(p, c) \/ ArchiveConversation(p, c)
                                 \/ WriteMessage(p, c)
    \/ NextSequence(p) \/ CommitMessage(p) \/ MessageRefused(p)

ConversationsSpec == ConversationsInit /\ [][ConversationsNext]_conversationVars

-----------------------------------------------------------------------------
(* The default is one active agent, and once there is one there always is, *)
(* whatever default changes, disabling and archiving overlap               *)
(* (set_active_default, archive, disable).                                 *)
OneDefault ==
    /\ Cardinality(defaults) <= 1
    /\ \A a \in defaults : agentStatus[a] = "active"
    /\ hadDefault => defaults # {}

(* Messages are numbered 1, 2, ... in the order in which they are          *)
(* committed: who has read up to a number never finds a smaller one later  *)
(* (create_sequenced).                                                     *)
NumberedInOrder == \A c \in Chats : \A i \in DOMAIN numbers[c] : numbers[c][i] = i

(* A closed or archived conversation receives no message, not even from a  *)
(* request that was waiting for it (_owned_conversation).                  *)
ClosedIsFinal == \A c \in Chats :
    conversation[c] \in {"closed", "archived"} => Len(numbers[c]) = finalLength[c]

ConversationsSafe == ConversationsTypeOK /\ OneDefault /\ NumberedInOrder /\ ClosedIsFinal
=============================================================================
