--------------------------- MODULE WorkspaceProofs ---------------------------
(***************************************************************************)
(* The records of a workspace, proved for every number of requests, rows   *)
(* and writes: what the caches serve, how messages are numbered and who is *)
(* the default agent, which refresh tokens can still be used, what the     *)
(* risk gate decides, what a Microsoft account's row is left with, what    *)
(* overlapping registrations leave behind, where deals stand, what an      *)
(* archived project holds, which reminders are sent, who was shown which   *)
(* document, and what migrations keep of the records; and that the         *)
(* workspace, which runs them all beside the outreach of OutreachProofs,   *)
(* keeps each of them so.                                                  *)
(***************************************************************************)
EXTENDS MCWorkspace, OutreachProofs, FiniteSums, SequenceTheorems

-----------------------------------------------------------------------------
(* Caches. A view that may be stored was computed after the last           *)
(* invalidation: no reader holds a generation that is yet to come.         *)

CachesInv ==
    /\ CachesTypeOK
    /\ DashboardFresh
    /\ \A c \in Caches : invalidated[c] <= data
    /\ \A r \in Readers : reader[r].stage # "away" =>
          reader[r].generation <= namespace[reader[r].cache]
    /\ \A r \in Readers :
          (/\ reader[r].stage = "computed"
           /\ reader[r].cache = "dashboard"
           /\ reader[r].generation = namespace["dashboard"])
          => reader[r].view # NoView /\ reader[r].view >= invalidated["dashboard"]

LEMMA CachesInvInit == CachesInit => CachesInv
BY CachesAssumption
   DEF CachesInit, CachesInv, CachesTypeOK, DashboardFresh, Caches, View, Reading, Away

LEMMA CachesInvStep == CachesInv /\ [CachesNext]_cacheVars => CachesInv'
<1> SUFFICES ASSUME CachesInv, [CachesNext]_cacheVars PROVE CachesInv'
  OBVIOUS
<1> USE CachesAssumption DEF CachesInv, CachesTypeOK, DashboardFresh, View, Reading
<1>1. ASSUME NEW r \in Readers, Compute(r) PROVE CachesInv'
  <2> DEFINE now == [reader[r] EXCEPT !.stage = "computed", !.view = data]
  <2>1. /\ reader' = [reader EXCEPT ![r] = now]
        /\ reader[r].stage = "missed"
        /\ UNCHANGED <<data, entry, namespace, invalidated, writer>>
    BY <1>1 DEF Compute
  <2>2. /\ now \in Reading
        /\ now.generation = reader[r].generation /\ now.cache = reader[r].cache
        /\ now.view = data /\ data # NoView /\ now.stage = "computed"
    <3>1. reader[r] \in Reading /\ data \in View /\ data # NoView
      OBVIOUS
    <3>2. now \in Reading
      BY <3>1
    <3>3. /\ now.generation = reader[r].generation /\ now.cache = reader[r].cache
          /\ now.view = data /\ now.stage = "computed"
      BY <3>1
    <3> QED
      BY <3>1, <3>2, <3>3
  <2>3. data >= invalidated["dashboard"]
    BY DEF Caches
  <2> HIDE DEF now
  <2>4. CachesTypeOK'
    BY <2>1, <2>2
  <2>5. \A q \in Readers : reader'[q] = IF q = r THEN now ELSE reader[q]
    BY <2>1
  <2> QED
    BY <2>1, <2>2, <2>3, <2>4, <2>5
<1>2. ASSUME NEW r \in Readers, Store(r) PROVE CachesInv'
  <2> DEFINE c == reader[r].cache
             accepted == Admits(c, reader[r].generation)
  <2>1. /\ reader[r].stage = "computed"
        /\ reader' = [reader EXCEPT ![r] = Away]
        /\ UNCHANGED <<data, namespace, invalidated, writer>>
    BY <1>2 DEF Store
  <2>2. entry' = IF accepted THEN [entry EXCEPT ![c] = reader[r].view] ELSE entry
    BY <1>2 DEF Store
  <2>3. c \in Caches /\ reader[r].view \in View \cup {NoView} /\ Away \in Reading
    BY DEF Away, Caches
  <2>4. CachesTypeOK'
    BY <2>1, <2>2, <2>3
  <2>5. DashboardFresh'
    <3>1. CASE accepted /\ c = "dashboard"
      <4>1. reader[r].generation = namespace["dashboard"]
        BY <3>1 DEF Admits, SameGeneration
      <4> QED
        BY <2>1, <2>2, <3>1, <4>1 DEF Caches
    <3>2. CASE ~(accepted /\ c = "dashboard")
      <4>1. entry'["dashboard"] = entry["dashboard"]
        BY <2>2, <2>3, <3>2 DEF Caches
      <4> QED
        BY <2>1, <4>1
    <3> QED
      BY <3>1, <3>2
  <2> QED
    BY <2>1, <2>4, <2>5 DEF Away
<1>3. ASSUME NEW r \in Readers, NEW c \in Caches, Miss(r, c) PROVE CachesInv'
  BY <1>3 DEF Miss, Caches
<1>4. ASSUME NEW c \in Caches, Lapse(c) PROVE CachesInv'
  BY <1>4 DEF Lapse, Caches
<1>5. ASSUME NEW w \in Writers, Write(w) PROVE CachesInv'
  BY <1>5 DEF Write, Caches
<1>6. ASSUME NEW w \in Writers, NEW c \in Caches, Invalidate(w, c) PROVE CachesInv'
  BY <1>6 DEF Invalidate, Caches
<1>7. CASE UNCHANGED cacheVars
  BY <1>7 DEF cacheVars, Caches
<1> QED
  BY <1>1, <1>2, <1>3, <1>4, <1>5, <1>6, <1>7 DEF CachesNext

(* A dashboard view that is served was computed after the last             *)
(* invalidation (InMemoryDashboardCache), whatever the readers, the        *)
(* writers and their number.                                               *)
THEOREM DashboardIsFresh == CachesSpec => []CachesSafe
<1>1. CachesInv => CachesSafe
  BY DEF CachesInv, CachesSafe
<1> QED
  BY <1>1, CachesInvInit, CachesInvStep, PTL DEF CachesSpec

-----------------------------------------------------------------------------
(* Conversations. The lock of a conversation is held by one request, which *)
(* found it active; the numbers are 1, 2, ... and the request that has     *)
(* taken one has taken the next. Nobody but set_default adds a default,    *)
(* and it commits only if it has found every other.                        *)

Writing(p) == turn[p].stage \in {"locked", "numbered"}

ChatInv ==
    /\ \A p \in Callers : Writing(p) => turn[p].chat \in Chats
    /\ \A p \in Callers : ~Writing(p) => turn[p].chat = NoConversation
    /\ \A p, q \in Callers : Writing(p) /\ turn[q].chat = turn[p].chat => p = q
    /\ \A p \in Callers : Writing(p) => conversation[turn[p].chat] = "active"
    /\ \A p \in Callers : turn[p].stage = "numbered" =>
          turn[p].number = Len(numbers[turn[p].chat]) + 1
    /\ NumberedInOrder
    /\ ClosedIsFinal

DefaultInv ==
    /\ \A a, b \in defaults : a = b
    /\ \A a \in defaults : agentStatus[a] = "active"
    /\ hadDefault => defaults # {}
    /\ \A p \in Callers : turn[p].stage \in {"candidate", "swap"} => turn[p].agent \in Agents

LEMMA LargestIsLength ==
    ASSUME NEW n \in Nat, NEW s \in Seq(1 .. n), \A i \in DOMAIN s : s[i] = i
    PROVE  Largest(s) = Len(s)
<1>1. CASE s = <<>>
  BY <1>1 DEF Largest
<1>2. CASE s # <<>>
  <2> DEFINE S == {s[i] : i \in DOMAIN s}
             Top(m) == m \in S /\ \A i \in DOMAIN s : s[i] <= m
  <2>1. DOMAIN s = 1 .. Len(s) /\ Len(s) \in Nat \ {0}
    BY <1>2
  <2>2. S = 1 .. Len(s)
    BY <2>1
  <2>3. Top(Len(s))
    BY <2>1, <2>2
  <2>4. \A m : Top(m) => m = Len(s)
    BY <2>1, <2>2
  <2>5. Largest(s) = CHOOSE m \in S : \A i \in DOMAIN s : s[i] <= m
    BY <1>2 DEF Largest
  <2> QED
    BY <2>3, <2>4, <2>5
<1> QED
  BY <1>1, <1>2

LEMMA ConversationsInvInit == ConversationsInit => ConversationsTypeOK /\ ChatInv /\ DefaultInv
<1> SUFFICES ASSUME ConversationsInit PROVE ConversationsTypeOK /\ ChatInv /\ DefaultInv
  OBVIOUS
<1> USE ConversationsAssumption DEF ConversationsInit
<1>1. ConversationsTypeOK
  <2>1. NoTurn \in Turn
    BY DEF NoTurn, Turn
  <2>2. numbers \in [Chats -> Seq(1 .. MaxMessages)]
    <3>1. <<>> \in Seq(1 .. MaxMessages)
      OBVIOUS
    <3> QED
      BY <3>1
  <2>3. finalLength \in [Chats -> 0 .. MaxMessages] /\ turn \in [Callers -> Turn]
    BY <2>1
  <2> QED
    BY <2>2, <2>3 DEF ConversationsTypeOK, AgentStatuses, ConversationStatuses
<1>2. ChatInv
  BY DEF ChatInv, Writing, NoTurn, NumberedInOrder, ClosedIsFinal
<1>3. DefaultInv
  BY DEF DefaultInv, NoTurn
<1> QED
  BY <1>1, <1>2, <1>3

LEMMA LengthIsBounded ==
    ASSUME ConversationsTypeOK, NumberedInOrder, NEW c \in Chats
    PROVE  Len(numbers[c]) \in 0 .. MaxMessages
<1>1. /\ numbers[c] \in Seq(1 .. MaxMessages) /\ Len(numbers[c]) \in Nat
      /\ DOMAIN numbers[c] = 1 .. Len(numbers[c])
  BY DEF ConversationsTypeOK
<1>2. CASE Len(numbers[c]) = 0
  BY <1>2, ConversationsAssumption
<1>3. CASE Len(numbers[c]) > 0
  <2>1. Len(numbers[c]) \in DOMAIN numbers[c]
    BY <1>1, <1>3
  <2>2. numbers[c][Len(numbers[c])] \in 1 .. MaxMessages
    BY <1>1, <2>1, ElementOfSeq
  <2>3. numbers[c][Len(numbers[c])] = Len(numbers[c])
    BY <2>1 DEF NumberedInOrder
  <2> QED
    BY <1>1, <2>2, <2>3
<1> QED
  BY <1>1, <1>2, <1>3

LEMMA NextNumber ==
    ASSUME ConversationsTypeOK, ChatInv, NEW p \in Callers, NextSequence(p)
    PROVE  /\ Largest(numbers[turn[p].chat]) = Len(numbers[turn[p].chat])
           /\ Largest(numbers[turn[p].chat]) + 1 \in 0 .. MaxMessages
<1> DEFINE c == turn[p].chat
<1>1. c \in Chats
  BY DEF ChatInv, Writing, NextSequence
<1>2. numbers[c] \in Seq(1 .. MaxMessages) /\ Len(numbers[c]) \in Nat
  BY <1>1 DEF ConversationsTypeOK
<1>3. \A i \in DOMAIN numbers[c] : numbers[c][i] = i
  BY <1>1 DEF ChatInv, NumberedInOrder
<1>4. Largest(numbers[c]) = Len(numbers[c])
  BY <1>2, <1>3, LargestIsLength, ConversationsAssumption
<1>5. Largest(numbers[c]) < MaxMessages
  BY DEF NextSequence
<1> QED
  BY <1>2, <1>4, <1>5, ConversationsAssumption

LEMMA ConversationsTypeStep ==
    ConversationsTypeOK /\ ChatInv /\ DefaultInv /\ [ConversationsNext]_conversationVars
    => ConversationsTypeOK'
<1> SUFFICES ASSUME ConversationsTypeOK, ChatInv, DefaultInv,
                    [ConversationsNext]_conversationVars
             PROVE  ConversationsTypeOK'
  OBVIOUS
<1> USE DEF ConversationsTypeOK, agentVars, messageVars
<1>0. NoTurn \in Turn
  BY ConversationsAssumption DEF NoTurn, Turn
<1>1. ASSUME NEW p \in Callers, NEW a \in Agents,
             CreateAgent(p, a) \/ ArchiveAgent(p, a) \/ ActivateAgent(p, a) \/ DisableAgent(p, a)
      PROVE  ConversationsTypeOK'
  BY <1>1 DEF CreateAgent, ArchiveAgent, ActivateAgent, DisableAgent, AgentStatuses
<1>2. ASSUME NEW p \in Callers, NEW a \in Agents, SetDefault(p, a)
      PROVE  ConversationsTypeOK'
  <2> DEFINE t == [turn[p] EXCEPT !.stage = "candidate", !.agent = a]
  <2>1. t \in Turn
    BY DEF Turn
  <2>2. turn' = [turn EXCEPT ![p] = t] /\ UNCHANGED <<agentVars, messageVars>>
    BY <1>2 DEF SetDefault
  <2> QED
    BY <2>1, <2>2
<1>3. ASSUME NEW p \in Callers, NEW a \in Agents, NEW c \in Chats, CreateConversation(p, c, a)
      PROVE  ConversationsTypeOK'
  BY <1>3 DEF CreateConversation, ConversationStatuses
<1>4. ASSUME NEW p \in Callers, FindDefaults(p)
      PROVE  ConversationsTypeOK'
  <2> DEFINE t == [turn[p] EXCEPT !.stage = "swap", !.found = defaults \ {turn[p].agent}]
  <2>1. t \in Turn
    BY DEF Turn
  <2>2. turn' = [turn EXCEPT ![p] = t] /\ UNCHANGED <<agentVars, messageVars>>
    BY <1>4 DEF FindDefaults
  <2> QED
    BY <2>1, <2>2
<1>5. ASSUME NEW p \in Callers, MoveDefault(p)
      PROVE  ConversationsTypeOK'
  <2>1. turn[p].agent \in Agents
    BY <1>5 DEF MoveDefault, DefaultInv
  <2> QED
    BY <1>0, <1>5, <2>1 DEF MoveDefault, Finish, AgentStatuses
<1>6. ASSUME NEW p \in Callers, DefaultRefused(p) \/ MessageRefused(p)
      PROVE  ConversationsTypeOK'
  BY <1>0, <1>6 DEF DefaultRefused, MessageRefused, Finish
<1>7. ASSUME NEW p \in Callers, NEW c \in Chats,
             CloseConversation(p, c) \/ ArchiveConversation(p, c)
      PROVE  ConversationsTypeOK'
  <2>1. PICK s \in {"closed", "archived"} : Stops(c, s)
    BY <1>7 DEF CloseConversation, ArchiveConversation
  <2>2. Len(numbers[c]) \in 0 .. MaxMessages
    BY LengthIsBounded DEF ChatInv
  <2> QED
    BY <2>1, <2>2 DEF Stops, ConversationStatuses
<1>8. ASSUME NEW p \in Callers, NEW c \in Chats, WriteMessage(p, c)
      PROVE  ConversationsTypeOK'
  <2> DEFINE t == [turn[p] EXCEPT !.stage = "locked", !.chat = c]
  <2>1. t \in Turn
    BY DEF Turn
  <2>2. turn' = [turn EXCEPT ![p] = t] /\ UNCHANGED <<agentVars, messageVars>>
    BY <1>8 DEF WriteMessage
  <2> QED
    BY <2>1, <2>2
<1>9. ASSUME NEW p \in Callers, NextSequence(p)
      PROVE  ConversationsTypeOK'
  <2> DEFINE n == Largest(numbers[turn[p].chat]) + 1
             t == [turn[p] EXCEPT !.stage = "numbered", !.number = n]
  <2>1. n \in 0 .. MaxMessages
    BY <1>9, NextNumber DEF NextSequence
  <2>2. t \in Turn
    BY <2>1 DEF Turn
  <2>3. turn' = [turn EXCEPT ![p] = t] /\ UNCHANGED <<agentVars, messageVars>>
    BY <1>9 DEF NextSequence
  <2> QED
    BY <2>2, <2>3
<1>10. ASSUME NEW p \in Callers, CommitMessage(p)
      PROVE  ConversationsTypeOK'
  <2> DEFINE c == turn[p].chat
  <2>1. c \in Chats /\ turn[p].number = Len(numbers[c]) + 1
    BY <1>10 DEF CommitMessage, ChatInv, Writing
  <2>2. turn[p].number \in 1 .. MaxMessages
    <3>1. turn[p].number \in 0 .. MaxMessages
      BY DEF Turn
    <3>2. Len(numbers[c]) \in Nat
      BY <2>1
    <3> QED
      BY <2>1, <3>1, <3>2
  <2>3. Append(numbers[c], turn[p].number) \in Seq(1 .. MaxMessages)
    BY <2>1, <2>2
  <2>4. /\ numbers' = [numbers EXCEPT ![c] = Append(numbers[c], turn[p].number)]
        /\ turn' = [turn EXCEPT ![p] = NoTurn]
        /\ UNCHANGED <<agentVars, conversation, finalLength>>
    BY <1>10 DEF CommitMessage, Finish
  <2> QED
    BY <1>0, <2>1, <2>3, <2>4
<1>11. CASE UNCHANGED conversationVars
  BY <1>11 DEF conversationVars
<1> QED
  BY <1>1, <1>2, <1>3, <1>4, <1>5, <1>6, <1>7, <1>8, <1>9, <1>10, <1>11 DEF ConversationsNext

LEMMA ChatInvStep ==
    ConversationsTypeOK /\ ChatInv /\ [ConversationsNext]_conversationVars => ChatInv'
<1> SUFFICES ASSUME ConversationsTypeOK, ChatInv, [ConversationsNext]_conversationVars
             PROVE  ChatInv'
  OBVIOUS
<1> USE ConversationsAssumption
    DEF ChatInv, Writing, NumberedInOrder, ClosedIsFinal, agentVars, messageVars
<1> USE DEF ConversationsTypeOK
<1>1. ASSUME UNCHANGED <<messageVars, turn>>
      PROVE  ChatInv'
  BY <1>1
<1>2. ASSUME NEW p \in Callers, UNCHANGED messageVars, ~Writing(p),
             turn'[p].stage \in {"free", "candidate", "swap"},
             turn'[p].chat = NoConversation,
             \A q \in Callers \ {p} : turn'[q] = turn[q]
      PROVE  ChatInv'
  BY <1>2
<1>3. ASSUME NEW p \in Callers, NEW a \in Agents,
             CreateAgent(p, a) \/ ArchiveAgent(p, a) \/ ActivateAgent(p, a) \/ DisableAgent(p, a)
      PROVE  ChatInv'
  BY <1>1, <1>3 DEF CreateAgent, ArchiveAgent, ActivateAgent, DisableAgent
<1>4. ASSUME NEW p \in Callers,
             \/ \E a \in Agents : SetDefault(p, a)
             \/ FindDefaults(p) \/ MoveDefault(p) \/ DefaultRefused(p)
      PROVE  ChatInv'
  <2>1. ~Writing(p) /\ UNCHANGED messageVars
    BY <1>4 DEF SetDefault, Locked, Free, FindDefaults, MoveDefault, DefaultRefused
  <2>2. \A q \in Callers \ {p} : turn'[q] = turn[q]
    BY <1>4 DEF SetDefault, FindDefaults, MoveDefault, DefaultRefused, Finish
  <2>3. turn[p].chat = NoConversation
    BY <2>1
  <2>4. turn'[p].stage \in {"free", "candidate", "swap"} /\ turn'[p].chat = NoConversation
    BY <1>4, <2>3 DEF SetDefault, FindDefaults, MoveDefault, DefaultRefused, Finish, NoTurn, Turn
  <2> HIDE DEF Writing
  <2> QED
    BY <1>2, <2>1, <2>2, <2>4
<1>5. ASSUME NEW p \in Callers, NEW c \in Chats, NEW a \in Agents, CreateConversation(p, c, a)
      PROVE  ChatInv'
  BY <1>5 DEF CreateConversation
<1>6. ASSUME NEW p \in Callers, NEW c \in Chats,
             CloseConversation(p, c) \/ ArchiveConversation(p, c)
      PROVE  ChatInv'
  <2>1. PICK s \in {"closed", "archived"} : Stops(c, s)
    BY <1>6 DEF CloseConversation, ArchiveConversation
  <2>2. Mutable(p, c)
    BY <1>6 DEF CloseConversation, ArchiveConversation
  <2>3. \A q \in Callers : Writing(q) => turn[q].chat # c
    BY <2>2 DEF Mutable, ConversationUnlocked, Free
  <2>4. /\ UNCHANGED <<numbers, turn>>
        /\ \A d \in Chats \ {c} : /\ conversation'[d] = conversation[d]
                                 /\ finalLength'[d] = finalLength[d]
        /\ conversation'[c] = s
    BY <2>1 DEF Stops
  <2>5. conversation[c] # "absent"
    BY <2>2 DEF Mutable
  <2>6. finalLength'[c] = Len(numbers[c])
    <3>1. finalLength'[c] = IF conversation[c] = "active" THEN Len(numbers[c])
                            ELSE finalLength[c]
      BY <2>1 DEF Stops
    <3>2. conversation[c] \in {"active", "closed", "archived"}
      BY <2>5 DEF ConversationStatuses
    <3> QED
      BY <3>1, <3>2
  <2>7. ClosedIsFinal' /\ NumberedInOrder'
    BY <2>4, <2>6
  <2> HIDE DEF ClosedIsFinal, NumberedInOrder, ConversationsTypeOK
  <2> QED
    BY <2>3, <2>4, <2>7
<1>7. ASSUME NEW p \in Callers, NEW c \in Chats, WriteMessage(p, c)
      PROVE  ChatInv'
  <2>1. /\ UNCHANGED messageVars /\ conversation[c] = "active"
        /\ turn'[p].stage = "locked" /\ turn'[p].chat = c
        /\ \A q \in Callers \ {p} : turn'[q] = turn[q]
    BY <1>7 DEF WriteMessage, Turn
  <2>2. \A q \in Callers \ {p} : turn[q].chat # c
    BY <1>7 DEF WriteMessage, ConversationUnlocked
  <2>3. ClosedIsFinal' /\ NumberedInOrder'
    BY <2>1
  <2> HIDE DEF ClosedIsFinal, NumberedInOrder, ConversationsTypeOK
  <2> QED
    BY <2>1, <2>2, <2>3
<1>8. ASSUME NEW p \in Callers, NextSequence(p)
      PROVE  ChatInv'
  <2>1. /\ UNCHANGED messageVars /\ Writing(p)
        /\ turn'[p].stage = "numbered" /\ turn'[p].chat = turn[p].chat
        /\ turn'[p].number = Largest(numbers[turn[p].chat]) + 1
        /\ \A q \in Callers \ {p} : turn'[q] = turn[q]
    BY <1>8 DEF NextSequence, Turn
  <2>2. Largest(numbers[turn[p].chat]) = Len(numbers[turn[p].chat])
    BY <1>8, NextNumber
  <2>3. ClosedIsFinal' /\ NumberedInOrder'
    BY <2>1
  <2> HIDE DEF ClosedIsFinal, NumberedInOrder, ConversationsTypeOK
  <2> QED
    BY <2>1, <2>2, <2>3
<1>9. ASSUME NEW p \in Callers, CommitMessage(p)
      PROVE  ChatInv'
  <2> DEFINE c == turn[p].chat
             n == turn[p].number
  <2>1. /\ Writing(p) /\ c \in Chats /\ conversation[c] = "active"
        /\ n = Len(numbers[c]) + 1
    BY <1>9 DEF CommitMessage
  <2>2. /\ numbers' = [numbers EXCEPT ![c] = Append(numbers[c], n)]
        /\ turn' = [turn EXCEPT ![p] = NoTurn]
        /\ UNCHANGED <<agentVars, conversation, finalLength>>
    BY <1>9 DEF CommitMessage, Finish
  <2>3. /\ Len(numbers'[c]) = n
        /\ \A i \in DOMAIN numbers'[c] : numbers'[c][i] = i
    <3>1. numbers[c] \in Seq(1 .. MaxMessages) /\ numbers'[c] = Append(numbers[c], n)
      BY <2>1, <2>2
    <3> QED
      BY <2>1, <3>1
  <2>4. \A d \in Chats \ {c} : numbers'[d] = numbers[d]
    BY <2>2
  <2>5. NumberedInOrder' /\ ClosedIsFinal'
    BY <2>1, <2>2, <2>3, <2>4
  <2>6. \A q \in Callers \ {p} : turn'[q] = turn[q] /\ (Writing(q) => turn[q].chat # c)
    BY <2>1, <2>2
  <2> QED
    BY <2>2, <2>4, <2>5, <2>6 DEF NoTurn
<1>10. ASSUME NEW p \in Callers, MessageRefused(p)
      PROVE  ChatInv'
  BY <1>10 DEF MessageRefused, Finish, NoTurn
<1>11. CASE UNCHANGED conversationVars
  BY <1>1, <1>11 DEF conversationVars
<1> QED
  BY <1>3, <1>4, <1>5, <1>6, <1>7, <1>8, <1>9, <1>10, <1>11 DEF ConversationsNext

LEMMA DefaultInvStep ==
    ConversationsTypeOK /\ DefaultInv /\ [ConversationsNext]_conversationVars => DefaultInv'
<1> SUFFICES ASSUME ConversationsTypeOK, DefaultInv, [ConversationsNext]_conversationVars
             PROVE  DefaultInv'
  OBVIOUS
<1> USE DEF DefaultInv, agentVars
<1> USE DEF ConversationsTypeOK
<1>1. ASSUME NEW p \in Callers, NEW a \in Agents,
             CreateAgent(p, a) \/ ArchiveAgent(p, a) \/ ActivateAgent(p, a) \/ DisableAgent(p, a)
      PROVE  DefaultInv'
  BY <1>1 DEF CreateAgent, ArchiveAgent, ActivateAgent, DisableAgent, Locked, NotDefault
<1>2. ASSUME NEW p \in Callers, NEW a \in Agents, SetDefault(p, a)
      PROVE  DefaultInv'
  <2>1. /\ UNCHANGED agentVars /\ turn'[p].agent = a
        /\ \A q \in Callers \ {p} : turn'[q] = turn[q]
    BY <1>2 DEF SetDefault, Turn
  <2> QED
    BY <2>1
<1>3. ASSUME NEW p \in Callers, UNCHANGED agentVars,
             FindDefaults(p) \/ NextSequence(p) \/ \E c \in Chats : WriteMessage(p, c)
      PROVE  DefaultInv'
  <2>1. /\ turn'[p].agent = turn[p].agent
        /\ turn'[p].stage \in {"candidate", "swap"} => turn[p].stage \in {"candidate", "swap"}
        /\ \A q \in Callers \ {p} : turn'[q] = turn[q]
    BY <1>3 DEF FindDefaults, NextSequence, WriteMessage, Turn
  <2> QED
    BY <1>3, <2>1
<1>4. ASSUME NEW p \in Callers, UNCHANGED agentVars, Finish(p)
      PROVE  DefaultInv'
  BY <1>4 DEF Finish, NoTurn
<1>5. ASSUME NEW p \in Callers, MoveDefault(p)
      PROVE  DefaultInv'
  <2> DEFINE a == turn[p].agent
  <2>1. a \in Agents
    BY <1>5 DEF MoveDefault
  <2>2. defaults \subseteq turn[p].found \cup {a}
    BY <1>5 DEF MoveDefault, SecondDefault
  <2>3. defaults' = {a}
    BY <1>5, <2>2 DEF MoveDefault
  <2>4. agentStatus'[a] = "active"
    BY <1>5, <2>1 DEF MoveDefault
  <2>5. \A q \in Callers : turn'[q].stage \in {"candidate", "swap"} => turn'[q] = turn[q]
    BY <1>5 DEF MoveDefault, Finish, NoTurn
  <2> QED
    BY <2>3, <2>4, <2>5
<1>6. CASE UNCHANGED <<agentVars, turn>>
  BY <1>6
<1>7. ASSUME NEW p \in Callers, NEW c \in Chats,
             \/ \E a \in Agents : CreateConversation(p, c, a)
             \/ CloseConversation(p, c) \/ ArchiveConversation(p, c)
      PROVE  DefaultInv'
  BY <1>6, <1>7 DEF CreateConversation, CloseConversation, ArchiveConversation, Stops
<1>8. ASSUME NEW p \in Callers, DefaultRefused(p) \/ CommitMessage(p) \/ MessageRefused(p)
      PROVE  DefaultInv'
  BY <1>4, <1>8 DEF DefaultRefused, CommitMessage, MessageRefused
<1>9. CASE UNCHANGED conversationVars
  BY <1>6, <1>9 DEF conversationVars
<1>10. ASSUME NEW p \in Callers,
              FindDefaults(p) \/ NextSequence(p) \/ \E c \in Chats : WriteMessage(p, c)
       PROVE  UNCHANGED agentVars
  BY <1>10 DEF FindDefaults, NextSequence, WriteMessage
<1> QED
  BY <1>1, <1>2, <1>3, <1>5, <1>7, <1>8, <1>9, <1>10 DEF ConversationsNext

(* Whatever requests overlap, there is one default agent and it is active, *)
(* messages are numbered in the order of their commits, and a conversation *)
(* that was closed gets no more (services/agent.py).                       *)
THEOREM ConversationsAreSafe == ConversationsSpec => []ConversationsSafe
<1>1. DefaultInv /\ ConversationsTypeOK => OneDefault
  <2> SUFFICES ASSUME DefaultInv, ConversationsTypeOK PROVE Cardinality(defaults) <= 1
    BY DEF DefaultInv, OneDefault
  <2>1. CASE defaults = {}
    BY <2>1, FS_EmptySet
  <2>2. ASSUME NEW a \in defaults PROVE Cardinality(defaults) <= 1
    <3>1. defaults = {a}
      BY <2>2 DEF DefaultInv
    <3>2. Cardinality({a}) = 1
      BY FS_Singleton, Zenon
    <3>3. Cardinality(defaults) = 1
      BY <3>1, <3>2, Zenon
    <3> QED
      BY <3>3
  <2> QED
    BY <2>1, <2>2
<1>2. ConversationsTypeOK /\ ChatInv /\ DefaultInv => ConversationsSafe
  BY <1>1 DEF ConversationsSafe, ChatInv
<1> QED
  BY <1>2, ConversationsInvInit, ConversationsTypeStep, ChatInvStep, DefaultInvStep, PTL
     DEF ConversationsSpec

-----------------------------------------------------------------------------
(* Sessions. A refresh holds the lock of an active token, a sweep commits  *)
(* only past such locks, and a link is locked by one request, which knows  *)
(* its state.                                                              *)

TokenInv ==
    /\ \A r \in Requests : txn[r].stage = "rotate" => txn[r].token \in ActiveTokens
    /\ \A r, q \in Requests : txn[r].token # NoToken /\ txn[r].token = txn[q].token => r = q
    /\ \A s, t \in ActiveTokens : family[s] = family[t] => s = t
    /\ RotationIsAChain

LinkInv ==
    /\ \A r \in Requests : txn[r].stage \in {"idle", "rotate"} => txn[r].link = NoLink
    /\ \A r \in Requests : txn[r].stage = "sweep" /\ txn[r].link # NoLink =>
          link[txn[r].link].state = "active"
    /\ \A r \in Requests : txn[r].stage \in {"issue", "mail"} =>
          txn[r].link \in Links /\ link[txn[r].link].state = "unissued"
    /\ \A r \in Requests : txn[r].stage = "mail" =>
          \A l \in txn[r].links : link[l].state = "active"
    /\ \A r, q \in Requests, l \in Links : LinkLockedBy(r, l) /\ LinkLockedBy(q, l) => r = q
    /\ LinksUsedOnce

LEMMA SessionsInvInit == SessionsInit => SessionsTypeOK /\ TokenInv /\ LinkInv
<1> SUFFICES ASSUME SessionsInit PROVE SessionsTypeOK /\ TokenInv /\ LinkInv
  OBVIOUS
<1> USE SessionsAssumption DEF SessionsInit
<1>1. NoTxn \in Transaction
  BY DEF NoTxn, Transaction, UserLocks
<1>2. SessionsTypeOK
  BY <1>1 DEF SessionsTypeOK, Purposes, LinkStates
<1>3. TokenInv
  BY DEF TokenInv, NoTxn, ActiveTokens, Issued, RotationIsAChain
<1>4. LinkInv
  BY DEF LinkInv, NoTxn, LinkLockedBy, LinksUsedOnce
<1> QED
  BY <1>2, <1>3, <1>4

(* The transactions that only begin: they have locked a token or a link    *)
(* and know what they are going to revoke.                                 *)
Begun(r, x) == txn' = [txn EXCEPT ![r] = x] /\ Idle(r)

Sweeping(r) ==
    \/ \E f \in Families : RevokeSession(r, f)
    \/ \E t \in Tokens : RefreshReused(r, t) \/ LogOut(r, t)
    \/ \E l \in Links : ResetPassword(r, l) \/ ConfirmEmailChange(r, l)
    \/ LogOutAll(r) \/ ChangePassword(r)

LEMMA SweepBegins ==
    ASSUME SessionsTypeOK, NEW r \in Requests, Sweeping(r)
    PROVE  /\ UNCHANGED <<tokenVars, linkVars>>
           /\ \E x \in Transaction :
                /\ Begun(r, x) /\ x.stage = "sweep"
                /\ x.token # NoToken => \A q \in Requests \ {r} : txn[q].token # x.token
                /\ x.link # NoLink => /\ link[x.link].state = "active"
                                     /\ \A q \in Requests \ {r} : ~LinkLockedBy(q, x.link)
<1> USE DEF SessionsTypeOK, Begun, Begin, FamilyTokens, ActiveTokens, Issued, RevokeFamily, UserLocks
<1> USE SessionsAssumption
<1>1. ASSUME NEW f \in Families, RevokeSession(r, f)
      PROVE  \E x \in Transaction :
                /\ Begun(r, x) /\ x.stage = "sweep" /\ x.token = NoToken /\ x.link = NoLink
  <2> DEFINE x == [NoTxn EXCEPT !.stage = "sweep", !.targets = RevokeFamily(f, {})]
  <2>1. x \in Transaction /\ x.stage = "sweep" /\ x.token = NoToken /\ x.link = NoLink
    BY DEF NoTxn, Transaction
  <2> QED
    BY <1>1, <2>1 DEF RevokeSession
<1>2. ASSUME NEW t \in Tokens, RefreshReused(r, t)
      PROVE  \E x \in Transaction :
                /\ Begun(r, x) /\ x.stage = "sweep" /\ x.token = NoToken /\ x.link = NoLink
  <2> DEFINE x == [NoTxn EXCEPT !.stage = "sweep", !.targets = RevokeFamily(family[t], {})]
  <2>1. x \in Transaction /\ x.stage = "sweep" /\ x.token = NoToken /\ x.link = NoLink
    BY DEF NoTxn, Transaction
  <2> QED
    BY <1>2, <2>1 DEF RefreshReused
<1>3. ASSUME NEW t \in Tokens, LogOut(r, t)
      PROVE  \E x \in Transaction :
                /\ Begun(r, x) /\ x.stage = "sweep" /\ x.link = NoLink
                /\ x.token # NoToken => \A q \in Requests \ {r} : txn[q].token # x.token
  <2> DEFINE own == {t} \cap ActiveTokens
             x == [NoTxn EXCEPT !.stage = "sweep",
                       !.token = IF own = {} THEN NoToken ELSE t,
                       !.targets = RevokeFamily(family[t], own)]
  <2>1. /\ x \in Transaction /\ x.stage = "sweep" /\ x.token \in {t, NoToken}
        /\ x.link = NoLink
    BY DEF NoTxn, Transaction
  <2>2. \A q \in Requests \ {r} : txn[q].token # t
    BY <1>3 DEF LogOut, Consumable, Unlocked, TokenLockedBy
  <2>3. Begun(r, x)
    BY <1>3 DEF LogOut
  <2> HIDE DEF x
  <2> QED
    BY <2>1, <2>2, <2>3
<1>4. ASSUME NEW l \in Links, ResetPassword(r, l) \/ ConfirmEmailChange(r, l)
      PROVE  \E x \in Transaction :
                /\ Begun(r, x) /\ x.stage = "sweep" /\ x.token = NoToken /\ x.link = l
  <2>1. PICK u \in {"update", "key"} : RevokeAll(r, l, u)
    BY <1>4 DEF ResetPassword, ConfirmEmailChange
  <2> DEFINE x == [NoTxn EXCEPT !.stage = "sweep", !.link = l, !.user = u,
                    !.targets = ActiveTokens]
  <2>2. x \in Transaction /\ x.stage = "sweep" /\ x.token = NoToken /\ x.link = l
    BY DEF NoTxn, Transaction
  <2> QED
    BY <1>4, <2>1, <2>2 DEF RevokeAll, ResetPassword, ConfirmEmailChange, Consumes
<1>5. ASSUME NEW l \in Links, ResetPassword(r, l) \/ ConfirmEmailChange(r, l)
      PROVE  link[l].state = "active" /\ \A q \in Requests \ {r} : ~LinkLockedBy(q, l)
  BY <1>5 DEF ResetPassword, ConfirmEmailChange, Consumes, LinksUnlocked, ActiveLinks
<1>6. ASSUME LogOutAll(r) \/ ChangePassword(r)
      PROVE  \E x \in Transaction :
                /\ Begun(r, x) /\ x.stage = "sweep" /\ x.token = NoToken /\ x.link = NoLink
  <2>1. PICK u \in {"none", "update"} : RevokeAll(r, NoLink, u)
    BY <1>6 DEF LogOutAll, ChangePassword
  <2> DEFINE x == [NoTxn EXCEPT !.stage = "sweep", !.link = NoLink, !.user = u,
                    !.targets = ActiveTokens]
  <2>2. x \in Transaction /\ x.stage = "sweep" /\ x.token = NoToken /\ x.link = NoLink
    BY DEF NoTxn, Transaction
  <2> QED
    BY <1>6, <2>1, <2>2 DEF RevokeAll, LogOutAll, ChangePassword
<1>7. UNCHANGED <<tokenVars, linkVars>>
  BY DEF Sweeping, RevokeSession, RefreshReused, LogOut, ResetPassword, ConfirmEmailChange, LogOutAll,
         ChangePassword
<1> HIDE DEF SessionsTypeOK, Begun, Begin, FamilyTokens, ActiveTokens, Issued, RevokeFamily
<1> QED
  BY <1>1, <1>2, <1>3, <1>4, <1>5, <1>6, <1>7 DEF Sweeping

\* Every step is one of these, or changes nothing.
LEMMA SessionsSteps ==
    ASSUME [SessionsNext]_sessionVars
    PROVE  \/ UNCHANGED sessionVars
           \/ \E r \in Requests :
                \/ Sweeping(r)
                \/ \E f \in Families : Login(r, f)
                \/ \E t \in Tokens : Refresh(r, t)
                \/ \E l \in Links : VerifyEmail(r, l)
                \/ IssueChild(r) \/ EndSweep(r)
                \/ RollBack(r) \/ LinkNotSent(r)
                \/ \E p \in Purposes : IssueLink(r, p)
                \/ InvalidateActive(r) \/ LinkSent(r)
BY DEF SessionsNext, Sweeping, Purposes, ResendVerification, RequestPasswordReset,
       RequestEmailChange

LEMMA SessionsTypeStep ==
    SessionsTypeOK /\ TokenInv /\ [SessionsNext]_sessionVars => SessionsTypeOK'
<1> SUFFICES ASSUME SessionsTypeOK, TokenInv, [SessionsNext]_sessionVars
             PROVE  SessionsTypeOK'
  OBVIOUS
<1> USE SessionsAssumption DEF SessionsTypeOK, tokenVars, linkVars
<1>0. NoTxn \in Transaction
  BY DEF NoTxn, Transaction, UserLocks
<1>1. ASSUME NEW r \in Requests, Sweeping(r)
      PROVE  SessionsTypeOK'
  <2>1. PICK x \in Transaction : Begun(r, x)
    BY <1>1, SweepBegins
  <2>2. UNCHANGED <<tokenVars, linkVars>>
    BY <1>1, SweepBegins
  <2> QED
    BY <2>1, <2>2 DEF Begun
<1>2. ASSUME NEW r \in Requests, NEW f \in Families, Login(r, f)
      PROVE  SessionsTypeOK'
  BY <1>2 DEF Login, Insert
<1>3. ASSUME NEW r \in Requests, NEW t \in Tokens, Refresh(r, t)
      PROVE  SessionsTypeOK'
  <2> DEFINE x == [NoTxn EXCEPT !.stage = "rotate", !.token = t]
  <2>1. x \in Transaction
    BY DEF NoTxn, Transaction, UserLocks
  <2>2. txn' = [txn EXCEPT ![r] = x] /\ UNCHANGED <<tokenVars, linkVars>>
    BY <1>3 DEF Refresh, Begin
  <2> QED
    BY <2>1, <2>2
<1>4. ASSUME NEW L \in SUBSET Links, Consume(L)
      PROVE  /\ link' \in [Links -> [purpose : Purposes, state : LinkStates]]
             /\ uses' \in [Links -> Nat]
  BY <1>4 DEF Consume, LinkStates
<1>5. ASSUME NEW r \in Requests, NEW l \in Links, VerifyEmail(r, l)
      PROVE  SessionsTypeOK'
  BY <1>4, <1>5 DEF VerifyEmail
<1>6. ASSUME NEW r \in Requests, IssueChild(r)
      PROVE  SessionsTypeOK'
  <2>1. PICK t \in Tokens \ Issued : Insert(t, family[txn[r].token], txn[r].token)
    BY <1>6 DEF IssueChild
  <2>2. txn[r].token \in Tokens \/ txn[r].token = NoToken
    BY DEF Transaction
  <2>3. family[txn[r].token] \in Families \cup {NoFamily} /\ txn[r].token \in Tokens
    BY <1>6, <2>2 DEF IssueChild, TokenInv, ActiveTokens, Issued
  <2> QED
    BY <1>0, <1>6, <2>1, <2>3 DEF IssueChild, Insert, End
<1>7. ASSUME NEW r \in Requests, EndSweep(r)
      PROVE  SessionsTypeOK'
  <2>1. txn[r].targets \subseteq Tokens
    BY DEF Transaction
  <2>2. Consume({txn[r].link} \cap Links) /\ {txn[r].link} \cap Links \subseteq Links
    BY <1>7 DEF EndSweep
  <2> QED
    BY <1>0, <1>4, <1>7, <2>1, <2>2 DEF EndSweep, End
<1>8. ASSUME NEW r \in Requests, RollBack(r) \/ LinkNotSent(r)
      PROVE  SessionsTypeOK'
  BY <1>0, <1>8 DEF RollBack, LinkNotSent, End
<1>9. ASSUME NEW r \in Requests, NEW p \in Purposes, IssueLink(r, p)
      PROVE  SessionsTypeOK'
  <2>1. PICK l \in Links :
          /\ txn' = [txn EXCEPT ![r] = [NoTxn EXCEPT !.stage = "issue", !.link = l,
                                          !.links = ActiveLinks(p)]]
          /\ link' = [link EXCEPT ![l].purpose = p]
    BY <1>9 DEF IssueLink, Begin
  <2> DEFINE x == [NoTxn EXCEPT !.stage = "issue", !.link = l, !.links = ActiveLinks(p)]
  <2>2. x \in Transaction
    BY DEF NoTxn, Transaction, UserLocks, ActiveLinks
  <2>3. link' \in [Links -> [purpose : Purposes, state : LinkStates]]
    BY <2>1
  <2> QED
    BY <1>9, <2>1, <2>2, <2>3 DEF IssueLink
<1>10. ASSUME NEW r \in Requests, InvalidateActive(r)
       PROVE  SessionsTypeOK'
  <2> DEFINE x == [txn[r] EXCEPT !.stage = "mail",
                     !.links = {l \in txn[r].links : link[l].state = "active"}]
  <2>1. x \in Transaction
    BY DEF Transaction
  <2>2. txn' = [txn EXCEPT ![r] = x] /\ UNCHANGED <<tokenVars, linkVars>>
    BY <1>10 DEF InvalidateActive
  <2> QED
    BY <2>1, <2>2
<1>11. ASSUME NEW r \in Requests, LinkSent(r)
       PROVE  SessionsTypeOK'
  <2>1. \A l \in Links : link'[l] \in [purpose : Purposes, state : LinkStates]
    BY <1>11 DEF LinkSent, LinkStates
  <2> QED
    BY <1>0, <1>11, <2>1 DEF LinkSent, End
<1>12. CASE UNCHANGED sessionVars
  BY <1>12 DEF sessionVars
<1> QED
  BY <1>1, <1>2, <1>3, <1>5, <1>6, <1>7, <1>8, <1>9, <1>10, <1>11, <1>12, SessionsSteps

\* Tokens are unchanged, and one request took a token nobody has locked, or
\* gave up its own.
LEMMA TokensRest ==
    ASSUME SessionsTypeOK, TokenInv, UNCHANGED tokenVars, NEW r \in Requests,
           NEW x, txn' = [txn EXCEPT ![r] = x],
           x.token # NoToken => \A q \in Requests \ {r} : txn[q].token # x.token,
           x.stage = "rotate" => x.token \in ActiveTokens
    PROVE  TokenInv'
BY DEF SessionsTypeOK, TokenInv, tokenVars, ActiveTokens, Issued, RotationIsAChain

LEMMA TokenInvStep == SessionsTypeOK /\ TokenInv /\ [SessionsNext]_sessionVars => TokenInv'
<1> SUFFICES ASSUME SessionsTypeOK, TokenInv, [SessionsNext]_sessionVars
             PROVE  TokenInv'
  OBVIOUS
<1> USE SessionsAssumption
<1>0. NoTxn.token = NoToken /\ NoTxn.stage = "idle"
  BY DEF NoTxn
<1>1. ASSUME NEW r \in Requests, Sweeping(r)
      PROVE  TokenInv'
  <2>1. PICK x \in Transaction :
          /\ Begun(r, x) /\ x.stage = "sweep"
          /\ x.token # NoToken => \A q \in Requests \ {r} : txn[q].token # x.token
    BY <1>1, SweepBegins
  <2>2. UNCHANGED tokenVars
    BY <1>1, SweepBegins
  <2> QED
    BY <2>1, <2>2, TokensRest DEF Begun
<1>2. ASSUME NEW r \in Requests, NEW f \in Families, Login(r, f)
      PROVE  TokenInv'
  <2>1. PICK t \in Tokens \ Issued : Insert(t, f, NoToken)
    BY <1>2 DEF Login
  <2>2. /\ family' = [family EXCEPT ![t] = f] /\ parent' = [parent EXCEPT ![t] = NoToken]
        /\ UNCHANGED <<revoked, txn>> /\ family[t] = NoFamily
        /\ \A u \in Tokens : family[u] # f
    BY <1>2, <2>1 DEF Login, Insert, Issued
  <2>3. Issued' = Issued \cup {t}
    BY <2>2 DEF Issued, SessionsTypeOK
  <2>4. \A u \in Issued : family'[u] = family[u] /\ parent'[u] = parent[u] /\ u # t
    BY <2>2 DEF Issued, SessionsTypeOK
  <2>5. family'[t] = f /\ parent'[t] = NoToken
    BY <2>2 DEF SessionsTypeOK
  <2>6. RotationIsAChain'
    <3>1. \A u \in Issued : parent[u] # NoToken => parent[u] \in Issued
      BY DEF TokenInv, RotationIsAChain, Issued, SessionsTypeOK
    <3> QED
      BY <2>2, <2>3, <2>4, <2>5, <3>1 DEF TokenInv, RotationIsAChain
  <2>7. ActiveTokens' \subseteq ActiveTokens \cup {t} /\ ActiveTokens \subseteq ActiveTokens'
    BY <2>2, <2>3 DEF ActiveTokens
  <2>8. \A u, v \in ActiveTokens' : family'[u] = family'[v] => u = v
    BY <2>2, <2>4, <2>5, <2>7 DEF TokenInv, ActiveTokens, Issued
  <2> QED
    BY <2>2, <2>6, <2>7, <2>8 DEF TokenInv
<1>3. ASSUME NEW r \in Requests, NEW t \in Tokens, Refresh(r, t)
      PROVE  TokenInv'
  <2> DEFINE x == [NoTxn EXCEPT !.stage = "rotate", !.token = t]
  <2>1. txn' = [txn EXCEPT ![r] = x] /\ UNCHANGED tokenVars
    BY <1>3 DEF Refresh, Begin
  <2>2. x.token = t /\ t \in ActiveTokens
    BY <1>3 DEF Refresh, Consumable, StillActive, ActiveTokens, NoTxn
  <2>3. \A q \in Requests \ {r} : txn[q].token # t
    BY <1>3 DEF Refresh, Consumable, Unlocked, TokenLockedBy
  <2> HIDE DEF x
  <2> QED
    BY <2>1, <2>2, <2>3, TokensRest
<1>4. ASSUME NEW r \in Requests, UNCHANGED tokenVars, End(r)
      PROVE  TokenInv'
  BY <1>0, <1>4, TokensRest DEF End
<1>5. ASSUME NEW r \in Requests, NEW l \in Links, VerifyEmail(r, l)
      PROVE  TokenInv'
  BY <1>5 DEF VerifyEmail, tokenVars, TokenInv, ActiveTokens, Issued, RotationIsAChain
<1>6. ASSUME NEW r \in Requests, IssueChild(r)
      PROVE  TokenInv'
  <2> DEFINE p == txn[r].token
  <2>1. PICK t \in Tokens \ Issued : Insert(t, family[p], p)
    BY <1>6 DEF IssueChild
  <2>2. p \in ActiveTokens /\ p \in Tokens /\ p \in Issued
    BY <1>6 DEF IssueChild, TokenInv, ActiveTokens, Issued
  <2>3. /\ family' = [family EXCEPT ![t] = family[p]] /\ parent' = [parent EXCEPT ![t] = p]
        /\ revoked' = revoked \cup {p} /\ txn' = [txn EXCEPT ![r] = NoTxn]
    BY <1>6, <2>1 DEF IssueChild, Insert, End
  <2>4. Issued' = Issued \cup {t}
    BY <2>2, <2>3 DEF Issued, SessionsTypeOK
  <2>5. \A u \in Issued : family'[u] = family[u] /\ parent'[u] = parent[u] /\ u # t
    BY <2>1, <2>3 DEF Issued, SessionsTypeOK
  <2>6. family'[t] = family[p] /\ parent'[t] = p
    BY <2>3 DEF SessionsTypeOK
  <2>7. RotationIsAChain'
    <3>1. \A u \in Issued : parent[u] # NoToken => parent[u] \in Issued /\ parent[u] # p
      BY <2>2 DEF TokenInv, RotationIsAChain, Issued, ActiveTokens, SessionsTypeOK
    <3> QED
      BY <2>2, <2>3, <2>4, <2>5, <2>6, <3>1 DEF TokenInv, RotationIsAChain
  <2>8. ActiveTokens' \subseteq (ActiveTokens \ {p}) \cup {t}
    BY <2>3, <2>4 DEF ActiveTokens
  <2>9. \A u, v \in ActiveTokens' : family'[u] = family'[v] => u = v
    BY <2>2, <2>5, <2>6, <2>8 DEF TokenInv, ActiveTokens
  <2>10. \A q \in Requests \ {r} : txn'[q] = txn[q] /\ txn[q].token # p
    BY <2>2, <2>3 DEF TokenInv
  <2>11. ActiveTokens \ {p} \subseteq ActiveTokens'
    BY <2>3, <2>4 DEF ActiveTokens
  <2>12. txn'[r] = NoTxn
    BY <2>3 DEF SessionsTypeOK
  <2> QED
    BY <1>0, <2>7, <2>9, <2>10, <2>11, <2>12 DEF TokenInv
<1>7. ASSUME NEW r \in Requests, EndSweep(r)
      PROVE  TokenInv'
  <2>1. /\ revoked' = revoked \cup txn[r].targets \cup ({txn[r].token} \cap Tokens)
        /\ UNCHANGED <<family, parent>> /\ txn' = [txn EXCEPT ![r] = NoTxn]
        /\ \A q \in Requests \ {r} : \A t \in txn[r].targets : txn[q].token # t
    BY <1>7 DEF EndSweep, End, Unlocked, TokenLockedBy
  <2>2. Issued' = Issued /\ ActiveTokens' \subseteq ActiveTokens
    BY <2>1 DEF Issued, ActiveTokens
  <2>3. \A q \in Requests \ {r} : txn[q].stage = "rotate" => txn[q].token \in ActiveTokens'
    <3>1. SUFFICES ASSUME NEW q \in Requests \ {r}, txn[q].stage = "rotate"
                   PROVE  txn[q].token \in ActiveTokens'
      OBVIOUS
    <3>2. txn[q].token \in ActiveTokens /\ txn[q].token \in Tokens
      BY <3>1 DEF TokenInv, ActiveTokens, Issued
    <3>3. txn[q].token # txn[r].token
      BY <3>2 DEF TokenInv
    <3> QED
      BY <2>1, <2>2, <3>2, <3>3 DEF ActiveTokens
  <2>4. txn'[r] = NoTxn /\ \A q \in Requests \ {r} : txn'[q] = txn[q]
    BY <2>1 DEF SessionsTypeOK
  <2>5. RotationIsAChain'
    BY <2>1, <2>2 DEF TokenInv, RotationIsAChain
  <2>6. \A u, v \in ActiveTokens' : family'[u] = family'[v] => u = v
    BY <2>1, <2>2 DEF TokenInv
  <2> QED
    BY <1>0, <2>3, <2>4, <2>5, <2>6 DEF TokenInv
<1>8. ASSUME NEW r \in Requests, RollBack(r) \/ LinkNotSent(r) \/ LinkSent(r)
      PROVE  TokenInv'
  BY <1>4, <1>8 DEF RollBack, LinkNotSent, LinkSent
<1>9. ASSUME NEW r \in Requests, NEW p \in Purposes, IssueLink(r, p)
      PROVE  TokenInv'
  <2>1. PICK l \in Links :
          txn' = [txn EXCEPT ![r] = [NoTxn EXCEPT !.stage = "issue", !.link = l,
                                          !.links = ActiveLinks(p)]]
    BY <1>9 DEF IssueLink, Begin
  <2> DEFINE x == [NoTxn EXCEPT !.stage = "issue", !.link = l, !.links = ActiveLinks(p)]
  <2>2. x.token = NoToken /\ x.stage = "issue" /\ UNCHANGED tokenVars
    BY <1>9 DEF NoTxn, IssueLink
  <2> HIDE DEF x
  <2> QED
    BY <2>1, <2>2, TokensRest DEF x
<1>10. ASSUME NEW r \in Requests, InvalidateActive(r)
       PROVE  TokenInv'
  <2>1. /\ txn'[r].token = txn[r].token /\ txn'[r].stage = "mail"
        /\ \A q \in Requests \ {r} : txn'[q] = txn[q]
    BY <1>10 DEF InvalidateActive, SessionsTypeOK, Transaction
  <2>2. UNCHANGED tokenVars
    BY <1>10 DEF InvalidateActive
  <2> QED
    BY <2>1, <2>2 DEF TokenInv, tokenVars, ActiveTokens, Issued, RotationIsAChain
<1>11. CASE UNCHANGED sessionVars
  BY <1>11 DEF sessionVars, tokenVars, TokenInv, ActiveTokens, Issued, RotationIsAChain
<1> QED
  BY <1>1, <1>2, <1>3, <1>5, <1>6, <1>7, <1>8, <1>9, <1>10, <1>11, SessionsSteps

\* Links are unchanged, and one request locked a link nobody had locked, or gave
\* up its own.
LEMMA LinksRest ==
    ASSUME SessionsTypeOK, LinkInv, UNCHANGED linkVars, NEW r \in Requests,
           NEW x, txn' = [txn EXCEPT ![r] = x],
           x.stage \in {"idle", "rotate", "sweep"},
           x.stage # "sweep" => x.link = NoLink,
           x.link # NoLink => /\ link[x.link].state = "active"
                              /\ \A q \in Requests \ {r} : ~LinkLockedBy(q, x.link)
    PROVE  LinkInv'
<1>1. \A q \in Requests \ {r} : txn'[q] = txn[q]
  BY DEF SessionsTypeOK
<1>2. txn'[r] = x
  BY DEF SessionsTypeOK
<1>3. \A q \in Requests \ {r}, l \in Links : LinkLockedBy(q, l)' <=> LinkLockedBy(q, l)
  BY <1>1 DEF LinkLockedBy
<1>4. \A l \in Links : LinkLockedBy(r, l)' => l = x.link /\ x.link # NoLink
  BY <1>2, SessionsAssumption DEF LinkLockedBy
<1> QED
  BY <1>1, <1>2, <1>3, <1>4 DEF LinkInv, linkVars, LinksUsedOnce

LEMMA LinkInvStep == SessionsTypeOK /\ LinkInv /\ [SessionsNext]_sessionVars => LinkInv'
<1> SUFFICES ASSUME SessionsTypeOK, LinkInv, [SessionsNext]_sessionVars
             PROVE  LinkInv'
  OBVIOUS
<1> USE SessionsAssumption
<1>0. NoTxn.link = NoLink /\ NoTxn.stage = "idle"
  BY DEF NoTxn
<1>1. ASSUME NEW r \in Requests, Sweeping(r)
      PROVE  LinkInv'
  <2>1. PICK x \in Transaction :
          /\ Begun(r, x) /\ x.stage = "sweep"
          /\ x.link # NoLink => /\ link[x.link].state = "active"
                               /\ \A q \in Requests \ {r} : ~LinkLockedBy(q, x.link)
    BY <1>1, SweepBegins
  <2>2. UNCHANGED linkVars
    BY <1>1, SweepBegins
  <2> QED
    BY <2>1, <2>2, LinksRest DEF Begun
<1>2. ASSUME UNCHANGED <<linkVars, txn>>
      PROVE  LinkInv'
  BY <1>2 DEF LinkInv, LinkLockedBy, LinksUsedOnce, linkVars
<1>3. ASSUME NEW r \in Requests, NEW t \in Tokens, Refresh(r, t)
      PROVE  LinkInv'
  <2> DEFINE x == [NoTxn EXCEPT !.stage = "rotate", !.token = t]
  <2>1. txn' = [txn EXCEPT ![r] = x] /\ UNCHANGED linkVars
    BY <1>3 DEF Refresh, Begin
  <2>2. x.link = NoLink /\ x.stage = "rotate"
    BY DEF NoTxn
  <2> HIDE DEF x
  <2> QED
    BY <2>1, <2>2, LinksRest
<1>4. ASSUME NEW r \in Requests, UNCHANGED linkVars, End(r)
      PROVE  LinkInv'
  BY <1>0, <1>4, LinksRest DEF End
<1>5. ASSUME NEW r \in Requests, NEW l \in Links, VerifyEmail(r, l)
      PROVE  LinkInv'
  <2>1. /\ txn[r].stage = "idle" /\ link[l].state = "active" /\ UNCHANGED txn
        /\ \A q \in Requests \ {r} : ~LinkLockedBy(q, l)
    BY <1>5 DEF VerifyEmail, Consumes, Idle, LinksUnlocked, ActiveLinks
  <2>2. \A q \in Requests : ~LinkLockedBy(q, l)
    BY <2>1 DEF LinkInv, LinkLockedBy
  <2>3. /\ \A k \in Links \ {l} : link'[k] = link[k] /\ uses'[k] = uses[k]
        /\ link'[l].state = "consumed" /\ uses'[l] = uses[l] + 1
    BY <1>5 DEF VerifyEmail, Consume, SessionsTypeOK
  <2>4. LinksUsedOnce'
    BY <2>1, <2>3 DEF LinkInv, LinksUsedOnce
  <2>5. \A q \in Requests : txn[q].link # l /\ (txn[q].stage = "mail" => l \notin txn[q].links)
    BY <2>2 DEF LinkLockedBy
  <2>6. \A q \in Requests : /\ txn[q].link \in Links \cup {NoLink}
                           /\ txn[q].links \subseteq Links
    BY DEF SessionsTypeOK, Transaction
  <2> QED
    BY <2>1, <2>3, <2>4, <2>5, <2>6 DEF LinkInv, LinkLockedBy
<1>6. ASSUME NEW r \in Requests, NEW f \in Families, Login(r, f)
      PROVE  LinkInv'
  BY <1>2, <1>6 DEF Login
<1>7. ASSUME NEW r \in Requests, EndSweep(r)
      PROVE  LinkInv'
  <2> DEFINE l == txn[r].link
  <2>1. /\ txn[r].stage = "sweep" /\ Consume({l} \cap Links) /\ txn' = [txn EXCEPT ![r] = NoTxn]
    BY <1>7 DEF EndSweep, End
  <2>2. CASE l = NoLink
    <3>1. UNCHANGED linkVars
      BY <2>1, <2>2 DEF Consume, linkVars, SessionsTypeOK
    <3> QED
      BY <1>7, <3>1, <1>4 DEF EndSweep
  <2>3. CASE l # NoLink
    <3>1. l \in Links /\ link[l].state = "active" /\ {l} \cap Links = {l}
      BY <2>1, <2>3 DEF LinkInv, SessionsTypeOK, Transaction
    <3>2. \A q \in Requests \ {r} : txn[q].link # l /\ (txn[q].stage = "mail" => l \notin txn[q].links)
      BY <3>1 DEF LinkInv, LinkLockedBy
    <3>3. /\ \A k \in Links \ {l} : link'[k] = link[k] /\ uses'[k] = uses[k]
          /\ link'[l].state = "consumed" /\ uses'[l] = uses[l] + 1
      BY <2>1, <3>1 DEF Consume, SessionsTypeOK
    <3>4. LinksUsedOnce'
      BY <3>1, <3>3 DEF LinkInv, LinksUsedOnce
    <3>5. \A q \in Requests : /\ txn[q].link \in Links \cup {NoLink}
                             /\ txn[q].links \subseteq Links
      BY DEF SessionsTypeOK, Transaction
    <3>6. txn'[r] = NoTxn /\ \A q \in Requests \ {r} : txn'[q] = txn[q]
      BY <2>1 DEF SessionsTypeOK
    <3> QED
      BY <1>0, <3>2, <3>3, <3>4, <3>5, <3>6 DEF LinkInv, LinkLockedBy
  <2> QED
    BY <2>2, <2>3
<1>8. ASSUME NEW r \in Requests, RollBack(r) \/ LinkNotSent(r)
      PROVE  LinkInv'
  BY <1>4, <1>8 DEF RollBack, LinkNotSent
<1>9. ASSUME NEW r \in Requests, NEW p \in Purposes, IssueLink(r, p)
      PROVE  LinkInv'
  <2>1. PICK l \in Links :
          /\ link[l].state = "unissued" /\ \A q \in Requests : txn[q].link # l
          /\ txn' = [txn EXCEPT ![r] = [NoTxn EXCEPT !.stage = "issue", !.link = l,
                                          !.links = ActiveLinks(p)]]
          /\ link' = [link EXCEPT ![l].purpose = p]
    BY <1>9 DEF IssueLink, Begin
  <2>2. UNCHANGED uses /\ \A k \in Links : link'[k].state = link[k].state
    BY <1>9, <2>1 DEF IssueLink, SessionsTypeOK
  <2>3. /\ txn'[r].stage = "issue" /\ txn'[r].link = l
        /\ \A q \in Requests \ {r} : txn'[q] = txn[q]
    BY <2>1 DEF SessionsTypeOK, NoTxn
  <2>4. \A q \in Requests \ {r} : ~LinkLockedBy(q, l)
    BY <2>1 DEF LinkInv, LinkLockedBy
  <2>5. \A q \in Requests : /\ txn[q].link \in Links \cup {NoLink}
                           /\ txn[q].links \subseteq Links
    BY DEF SessionsTypeOK, Transaction
  <2>6. LinksUsedOnce'
    BY <2>2 DEF LinkInv, LinksUsedOnce
  <2> QED
    BY <2>1, <2>2, <2>3, <2>4, <2>5, <2>6 DEF LinkInv, LinkLockedBy
<1>10. ASSUME NEW r \in Requests, InvalidateActive(r)
       PROVE  LinkInv'
  <2>1. /\ txn'[r].link = txn[r].link /\ txn'[r].stage = "mail" /\ txn[r].stage = "issue"
        /\ txn'[r].links = {l \in txn[r].links : link[l].state = "active"}
        /\ \A q \in Requests \ {r} : txn'[q] = txn[q]
        /\ UNCHANGED linkVars
    BY <1>10 DEF InvalidateActive, SessionsTypeOK, Transaction
  <2>2. \A q \in Requests \ {r} : \A l \in txn[r].links : ~LinkLockedBy(q, l)
    BY <1>10 DEF InvalidateActive, LinksUnlocked
  <2> QED
    BY <2>1, <2>2 DEF LinkInv, LinkLockedBy, LinksUsedOnce, linkVars
<1>11. ASSUME NEW r \in Requests, LinkSent(r)
       PROVE  LinkInv'
  <2> DEFINE l == txn[r].link
  <2>1. /\ txn[r].stage = "mail" /\ UNCHANGED uses /\ txn' = [txn EXCEPT ![r] = NoTxn]
        /\ l \in Links /\ link[l].state = "unissued"
        /\ \A k \in txn[r].links : link[k].state = "active"
    BY <1>11 DEF LinkSent, End, LinkInv
  <2>2. /\ link'[l].state = "active"
        /\ \A k \in Links \ {l} :
             /\ k \in txn[r].links => link'[k].state = "invalidated"
             /\ k \notin txn[r].links => link'[k] = link[k]
    BY <1>11, <2>1 DEF LinkSent, SessionsTypeOK
  <2>3. LinksUsedOnce'
    BY <2>1, <2>2 DEF LinkInv, LinksUsedOnce
  <2>4. txn'[r] = NoTxn /\ \A q \in Requests \ {r} : txn'[q] = txn[q]
    BY <2>1 DEF SessionsTypeOK
  <2>5. \A q \in Requests \ {r}, k \in Links :
          LinkLockedBy(q, k) => k # l /\ k \notin txn[r].links /\ link'[k] = link[k]
    BY <2>1, <2>2 DEF LinkInv, LinkLockedBy
  <2>6. \A q \in Requests : /\ txn[q].link \in Links \cup {NoLink}
                           /\ txn[q].links \subseteq Links
    BY DEF SessionsTypeOK, Transaction
  <2> QED
    BY <1>0, <2>3, <2>4, <2>5, <2>6 DEF LinkInv, LinkLockedBy
<1>12. CASE UNCHANGED sessionVars
  BY <1>2, <1>12 DEF sessionVars
<1>13. ASSUME NEW r \in Requests, IssueChild(r)
       PROVE  LinkInv'
  BY <1>4, <1>13 DEF IssueChild
<1> QED
  BY <1>1, <1>3, <1>5, <1>6, <1>7, <1>8, <1>9, <1>10, <1>11, <1>12, <1>13, SessionsSteps

(* Whatever refreshes, log-outs, password changes and links overlap, a     *)
(* session has one usable token, tokens are exchanged once, and a link     *)
(* takes effect once (auth/service.py).                                    *)
THEOREM SessionsAreSafe == SessionsSpec => []SessionsSafe
<1>1. SessionsTypeOK /\ TokenInv => OneActiveToken
  <2> SUFFICES ASSUME SessionsTypeOK, TokenInv, NEW f \in Families
               PROVE  Cardinality(FamilyTokens(f)) <= 1
    BY DEF OneActiveToken
  <2>1. CASE FamilyTokens(f) = {}
    BY <2>1, FS_EmptySet
  <2>2. ASSUME NEW t \in FamilyTokens(f) PROVE Cardinality(FamilyTokens(f)) <= 1
    <3>1. \A u \in FamilyTokens(f) : u = t
      BY <2>2 DEF FamilyTokens, TokenInv
    <3>2. FamilyTokens(f) = {t}
      BY <2>2, <3>1
    <3>3. Cardinality({t}) = 1
      BY FS_Singleton, Zenon
    <3>4. Cardinality(FamilyTokens(f)) = 1
      BY <3>2, <3>3, Zenon
    <3> QED
      BY <3>4
  <2> QED
    BY <2>1, <2>2
<1>2. SessionsTypeOK /\ TokenInv /\ LinkInv => SessionsSafe
  BY <1>1 DEF SessionsSafe, TokenInv, LinkInv
<1> QED
  BY <1>2, SessionsInvInit, SessionsTypeStep, TokenInvStep, LinkInvStep, PTL DEF SessionsSpec

-----------------------------------------------------------------------------
(* The risk gate. What a request has read of the circuit is so until its   *)
(* end, because it alone holds the row; and its key is its own, because it *)
(* alone has inserted it.                                                  *)

HoldsBreaker(g) == gate[g].step \in {"assess", "commit"} /\ gate[g].circuit # NoCircuit

GateShape ==
    \A g \in Gates :
        /\ gate[g].step # "idle" => gate[g].key \in ExecutionKeys /\ gate[g].signal \in Signals
        /\ gate[g].step \in {"insert", "circuit", "assess"} => gate[g].risk = "not_evaluated"
        /\ gate[g].step = "assess" => gate[g].circuit = "enabled"
        /\ gate[g].step = "commit" /\ gate[g].risk # "not_evaluated" => gate[g].circuit = "enabled"

GateExclusion ==
    /\ \A g \in Gates : Inserted(g) => decision[gate[g].key] = NoDecision
    /\ \A g, h \in Gates : Inserted(g) /\ Inserted(h) /\ gate[g].key = gate[h].key => g = h
    /\ \A g \in Gates : HoldsBreaker(g) => gate[g].circuit = breaker
    /\ \A g, h \in Gates : HoldsBreaker(g) /\ HoldsBreaker(h) => g = h

RiskInv == RiskGateSafe /\ GateShape /\ GateExclusion

LEMMA RiskInvInit == RiskInit => RiskInv
BY RiskGateAssumption
   DEF RiskInit, RiskInv, RiskGateSafe, RiskTypeOK, CircuitHolds, OneDecisionPerKey, NothingPasses, Decided,
       GateShape, GateExclusion, Inserted, HoldsBreaker, IdleGate, Gate, Circuits, NoCircuit, RiskOutcomes

\* A request that moves on without touching the tables.
LEMMA RequestMoves ==
    ASSUME RiskInv, NEW g \in Gates, NEW now \in Gate,
           gate' = [gate EXCEPT ![g] = now],
           UNCHANGED <<breaker, decision, switches, under, audits, answers>>,
           now.step # "idle" => now.key \in ExecutionKeys /\ now.signal \in Signals,
           now.step \in {"insert", "circuit", "assess"} => now.risk = "not_evaluated",
           now.step = "assess" => now.circuit = "enabled",
           now.step = "commit" /\ now.risk # "not_evaluated" => now.circuit = "enabled",
           now.step \in {"circuit", "assess", "commit"} =>
             /\ decision[now.key] = NoDecision
             /\ \A h \in Gates \ {g} : ~(Inserted(h) /\ gate[h].key = now.key),
           now.step \in {"assess", "commit"} /\ now.circuit # NoCircuit =>
             /\ now.circuit = breaker
             /\ \A h \in Gates \ {g} : ~HoldsBreaker(h)
    PROVE  RiskInv'
<1>1. \A h \in Gates : gate'[h] = IF h = g THEN now ELSE gate[h]
  BY DEF RiskInv, RiskGateSafe, RiskTypeOK
<1>2. RiskTypeOK'
  BY DEF RiskInv, RiskGateSafe, RiskTypeOK
<1>3. (CircuitHolds /\ OneDecisionPerKey /\ NothingPasses)'
  BY DEF RiskInv, RiskGateSafe, CircuitHolds, OneDecisionPerKey, NothingPasses, Decided
<1>4. GateShape'
  BY <1>1 DEF RiskInv, GateShape
<1>5. GateExclusion'
  BY <1>1 DEF RiskInv, GateExclusion, Inserted, HoldsBreaker
<1> QED
  BY <1>2, <1>3, <1>4, <1>5 DEF RiskInv, RiskGateSafe

LEMMA RiskInvStep == RiskInv /\ [RiskNext]_riskVars => RiskInv'
<1> SUFFICES ASSUME RiskInv, [RiskNext]_riskVars PROVE RiskInv'
  OBVIOUS
<1> USE RiskGateAssumption
<1>a. RiskTypeOK /\ CircuitHolds /\ OneDecisionPerKey /\ NothingPasses /\ GateShape /\ GateExclusion
  BY DEF RiskInv, RiskGateSafe
<1>b. \A g \in Gates : gate[g] \in Gate
  BY <1>a DEF RiskTypeOK
<1>c. IdleGate \in Gate
  BY DEF IdleGate, Gate, NoCircuit, RiskOutcomes
<1>1. ASSUME NEW g \in Gates, NEW k \in ExecutionKeys, NEW s \in Signals, AskGate(g, k, s) PROVE RiskInv'
  <2>1. CASE ReturnStored(k, s) /\ UNCHANGED gate
    <3>1. UNCHANGED <<breaker, decision, gate, switches, under, audits>>
      BY <1>1, <2>1 DEF AskGate
    <3>2. /\ decision[k] \in Decision /\ k \in Decided /\ s = decision[k].fingerprint
          /\ answers' = answers \cup {<<s, decision[k]>>}
      BY <1>a, <2>1 DEF ReturnStored, RiskTypeOK, Decided
    <3>3. RiskTypeOK'
      BY <1>a, <3>1, <3>2 DEF RiskTypeOK
    <3>4. OneDecisionPerKey'
      BY <1>a, <3>1, <3>2 DEF OneDecisionPerKey, Decided
    <3>5. (CircuitHolds /\ NothingPasses /\ GateShape /\ GateExclusion)'
      BY <1>a, <3>1 DEF CircuitHolds, NothingPasses, Decided, GateShape, GateExclusion, Inserted, HoldsBreaker
    <3> QED
      BY <3>3, <3>4, <3>5 DEF RiskInv, RiskGateSafe
  <2>2. CASE decision[k] = NoDecision /\ UNCHANGED answers
              /\ gate' = [gate EXCEPT ![g] = [IdleGate EXCEPT !.step = "insert", !.key = k, !.signal = s]]
    <3> DEFINE now == [IdleGate EXCEPT !.step = "insert", !.key = k, !.signal = s]
    <3>1. /\ now \in Gate /\ now.step = "insert" /\ now.key = k /\ now.signal = s
          /\ now.risk = "not_evaluated"
      BY DEF IdleGate, Gate, NoCircuit, RiskOutcomes
    <3>2. UNCHANGED <<breaker, decision, switches, under, audits, answers>> /\ gate' = [gate EXCEPT ![g] = now]
      BY <1>1, <2>2 DEF AskGate
    <3> HIDE DEF now
    <3> QED
      BY <3>1, <3>2, RequestMoves
  <2> QED
    BY <1>1, <2>1, <2>2 DEF AskGate
<1>2. ASSUME NEW g \in Gates, InsertDecision(g) PROVE RiskInv'
  <2> DEFINE now == [gate[g] EXCEPT !.step = "circuit"]
  <2>1. /\ now \in Gate /\ now.step = "circuit" /\ now.key = gate[g].key
        /\ now.signal = gate[g].signal /\ now.risk = gate[g].risk
    BY <1>b DEF Gate
  <2>2. /\ gate[g].step = "insert" /\ decision[gate[g].key] = NoDecision
        /\ \A h \in Gates : ~(Inserted(h) /\ gate[h].key = gate[g].key)
        /\ gate' = [gate EXCEPT ![g] = now]
        /\ UNCHANGED <<breaker, decision, switches, under, audits, answers>>
    BY <1>2 DEF InsertDecision
  <2>3. gate[g].key \in ExecutionKeys /\ gate[g].signal \in Signals /\ gate[g].risk = "not_evaluated"
    BY <1>a, <2>2 DEF GateShape
  <2> HIDE DEF now
  <2> QED
    BY <2>1, <2>2, <2>3, RequestMoves
<1>3. ASSUME NEW g \in Gates, KeyTaken(g) \/ DropRequest(g) PROVE RiskInv'
  <2>1. gate' = [gate EXCEPT ![g] = IdleGate] /\ UNCHANGED <<breaker, decision, switches, under, audits, answers>>
    BY <1>3 DEF KeyTaken, DropRequest
  <2>2. IdleGate.step = "idle"
    BY DEF IdleGate
  <2> QED
    BY <1>c, <2>1, <2>2, RequestMoves
<1>4. ASSUME NEW g \in Gates, ReadCircuit(g) PROVE RiskInv'
  <2> DEFINE now == [gate[g] EXCEPT !.circuit = breaker,
                        !.step = IF breaker = "enabled" THEN "assess" ELSE "commit"]
  <2>1. /\ gate[g].step = "circuit" /\ ~CircuitLocked
        /\ gate' = [gate EXCEPT ![g] = now]
        /\ UNCHANGED <<breaker, decision, switches, under, audits, answers>>
    BY <1>4 DEF ReadCircuit
  <2>2. /\ now \in Gate /\ now.step = IF breaker = "enabled" THEN "assess" ELSE "commit"
        /\ now.key = gate[g].key /\ now.circuit = breaker
        /\ now.signal = gate[g].signal /\ now.risk = gate[g].risk
    BY <1>a, <1>b DEF Gate, RiskTypeOK
  <2>3. /\ gate[g].key \in ExecutionKeys /\ gate[g].signal \in Signals /\ gate[g].risk = "not_evaluated"
        /\ decision[gate[g].key] = NoDecision
        /\ \A h \in Gates \ {g} : ~(Inserted(h) /\ gate[h].key = gate[g].key)
    BY <1>a, <2>1 DEF GateShape, GateExclusion, Inserted
  <2>4. \A h \in Gates : ~HoldsBreaker(h)
    BY <2>1 DEF CircuitLocked, HoldsBreaker
  <2> HIDE DEF now
  <2> QED
    BY <2>1, <2>2, <2>3, <2>4, RequestMoves
<1>5. ASSUME NEW g \in Gates, AssessRisk(g) PROVE RiskInv'
  <2>1. PICK v \in RiskOutcomes : gate' = [gate EXCEPT ![g].risk = v, ![g].step = "commit"]
    BY <1>5 DEF AssessRisk
  <2> DEFINE now == [gate[g] EXCEPT !.risk = v, !.step = "commit"]
  <2>2. /\ gate[g].step = "assess" /\ gate' = [gate EXCEPT ![g] = now]
        /\ UNCHANGED <<breaker, decision, switches, under, audits, answers>>
    BY <1>5, <2>1 DEF AssessRisk
  <2>3. /\ now \in Gate /\ now.step = "commit" /\ now.key = gate[g].key /\ now.circuit = gate[g].circuit
        /\ now.signal = gate[g].signal
    BY <1>b DEF Gate
  <2>4. /\ gate[g].key \in ExecutionKeys /\ gate[g].signal \in Signals
        /\ gate[g].circuit = "enabled" /\ gate[g].circuit = breaker
        /\ decision[gate[g].key] = NoDecision
        /\ \A h \in Gates \ {g} : ~(Inserted(h) /\ gate[h].key = gate[g].key)
        /\ \A h \in Gates \ {g} : ~HoldsBreaker(h)
    BY <1>a, <2>2 DEF GateShape, GateExclusion, Inserted, HoldsBreaker, NoCircuit
  <2> HIDE DEF now
  <2> QED
    BY <2>2, <2>3, <2>4, RequestMoves
<1>6. ASSUME NEW g \in Gates, CommitDecision(g) PROVE RiskInv'
  <2> DEFINE k == gate[g].key
             row == [fingerprint |-> gate[g].signal, circuit |-> gate[g].circuit,
                     risk |-> gate[g].risk, state |-> DecidedState(gate[g].risk)]
  <2>1. /\ gate[g].step = "commit"
        /\ decision' = [decision EXCEPT ![k] = row]
        /\ under' = [under EXCEPT ![k] = breaker]
        /\ audits' = [audits EXCEPT ![k] = @ + 1]
        /\ answers' = answers \cup {<<gate[g].signal, row>>}
        /\ gate' = [gate EXCEPT ![g] = IdleGate]
        /\ UNCHANGED <<breaker, switches>>
    BY <1>6 DEF CommitDecision
  <2>2. /\ k \in ExecutionKeys /\ gate[g].signal \in Signals /\ decision[k] = NoDecision /\ k \notin Decided
        /\ gate[g].circuit # NoCircuit => gate[g].circuit = breaker
        /\ gate[g].risk # "not_evaluated" => gate[g].circuit = "enabled"
    BY <1>a, <2>1 DEF GateShape, GateExclusion, Inserted, HoldsBreaker, Decided
  <2>3. /\ row \in Decision /\ row # NoDecision /\ row.fingerprint = gate[g].signal
        /\ row.circuit = gate[g].circuit /\ row.risk = gate[g].risk /\ row.state = "blocked"
    BY <1>b, <2>2 DEF Decision, Gate, DecidedState
  <2>4. \A h \in Gates : gate'[h] = IF h = g THEN IdleGate ELSE gate[h]
    BY <1>a, <2>1 DEF RiskTypeOK
  <2> HIDE DEF row, k
  <2>5. /\ decision'[k] = row /\ under'[k] = breaker /\ audits'[k] = audits[k] + 1
        /\ \A j \in ExecutionKeys \ {k} :
              decision'[j] = decision[j] /\ under'[j] = under[j] /\ audits'[j] = audits[j]
    BY <1>a, <2>1, <2>2 DEF RiskTypeOK
  <2>6. Decided' = Decided \cup {k}
    BY <2>2, <2>3, <2>5 DEF Decided
  <2>7. RiskTypeOK'
    BY <1>a, <1>c, <2>1, <2>2, <2>3 DEF RiskTypeOK
  <2>8. CircuitHolds' /\ NothingPasses'
    <3>1. ASSUME NEW j \in Decided'
          PROVE  /\ decision'[j].circuit # NoCircuit => under'[j] = decision'[j].circuit
                 /\ decision'[j].state = "blocked"
                 /\ decision'[j].risk # "not_evaluated" => under'[j] = "enabled"
      <4>1. CASE j = k
        BY <2>2, <2>3, <2>5, <4>1 DEF NoCircuit
      <4>2. CASE j # k
        <5>1. j \in Decided /\ j \in ExecutionKeys \ {k}
          BY <2>6, <4>2 DEF Decided
        <5> QED
          BY <1>a, <2>5, <5>1 DEF CircuitHolds, NothingPasses
      <4> QED
        BY <4>1, <4>2
    <3> QED
      BY <3>1 DEF CircuitHolds, NothingPasses
  <2>9. OneDecisionPerKey'
    <3>1. \A j \in ExecutionKeys : audits'[j] = IF j \in Decided' THEN 1 ELSE 0
      BY <1>a, <2>2, <2>5, <2>6 DEF OneDecisionPerKey
    <3>2. ASSUME NEW a \in answers' PROVE a[1] = a[2].fingerprint /\ \E j \in Decided' : decision'[j] = a[2]
      <4>1. CASE a \in answers
        <5>1. PICK j \in Decided : decision[j] = a[2]
          BY <1>a, <4>1 DEF OneDecisionPerKey
        <5>2. j \in Decided' /\ decision'[j] = a[2]
          BY <2>2, <2>5, <2>6, <5>1 DEF Decided
        <5> QED
          BY <1>a, <4>1, <5>2 DEF OneDecisionPerKey
      <4>2. CASE a = <<gate[g].signal, row>>
        BY <2>3, <2>5, <2>6, <4>2
      <4> QED
        BY <2>1, <4>1, <4>2
    <3> QED
      BY <3>1, <3>2 DEF OneDecisionPerKey
  <2>10. GateShape'
    BY <1>a, <2>4 DEF GateShape, IdleGate
  <2>11. GateExclusion'
    <3>1. \A h \in Gates : Inserted(h)' => h # g /\ Inserted(h) /\ gate'[h] = gate[h] /\ gate[h].key \in ExecutionKeys \ {k}
      BY <1>a, <2>1, <2>4 DEF GateShape, GateExclusion, Inserted, IdleGate, k
    <3>2. \A h \in Gates : HoldsBreaker(h)' => h # g /\ HoldsBreaker(h) /\ gate'[h] = gate[h]
      BY <2>4 DEF HoldsBreaker, IdleGate
    <3> QED
      BY <1>a, <2>1, <2>5, <3>1, <3>2 DEF GateExclusion
  <2> QED
    BY <2>7, <2>8, <2>9, <2>10, <2>11 DEF RiskInv, RiskGateSafe
<1>7. ASSUME SwitchCircuit PROVE RiskInv'
  <2>1. /\ \A g \in Gates : ~HoldsBreaker(g)
        /\ breaker' \in Circuits
        /\ switches < MaxSwitches /\ switches' = switches + 1
        /\ UNCHANGED <<decision, gate, under, audits, answers>>
    BY <1>7 DEF SwitchCircuit, CircuitLocked, HoldsBreaker
  <2>2. RiskTypeOK'
    BY <1>a, <2>1 DEF RiskTypeOK
  <2>3. (CircuitHolds /\ OneDecisionPerKey /\ NothingPasses /\ GateShape /\ GateExclusion)'
    BY <1>a, <2>1 DEF CircuitHolds, OneDecisionPerKey, NothingPasses, Decided, GateShape, GateExclusion,
                      Inserted, HoldsBreaker
  <2> QED
    BY <2>2, <2>3 DEF RiskInv, RiskGateSafe
<1>8. CASE UNCHANGED riskVars
  BY <1>8 DEF riskVars, RiskInv, RiskGateSafe, RiskTypeOK, CircuitHolds, OneDecisionPerKey, NothingPasses, Decided,
              GateShape, GateExclusion, Inserted, HoldsBreaker
<1> QED
  BY <1>1, <1>2, <1>3, <1>4, <1>5, <1>6, <1>7, <1>8 DEF RiskNext

(* However requests, circuit changes and failures interleave, for any      *)
(* number of keys and requests: the circuit a decision records was in      *)
(* force when it was committed, each key has one decision and one audit    *)
(* entry, and nothing is approved (evaluate, change_circuit).              *)
THEOREM RiskGateIsSafe == RiskSpec => []RiskGateSafe
<1>1. RiskInv => RiskGateSafe
  BY DEF RiskInv
<1> QED
  BY <1>1, RiskInvInit, RiskInvStep, PTL DEF RiskSpec

-----------------------------------------------------------------------------
(* The Microsoft account. A callback that holds tokens is the only one of  *)
(* its code, because the provider takes a code once; a callback under way  *)
(* whose OAuth state another one has consumed was under way at that time;  *)
(* and a row that was read stays a row.                                    *)

HasTokens(k) == k.step \in {"find", "store"}

FineCall(k) ==
    /\ HasTokens(k) => k.code \in spent /\ stored[k.code] = 0 /\ k.token \in 1 .. MaxTokens
    /\ k.step = "exchange" \/ HasTokens(k) =>
         /\ k.code \in Codes /\ oauthState[StateOf(k.code)] # "none"
         /\ oauthState[StateOf(k.code)] = "consumed" => k.code \in presented[StateOf(k.code)]
    /\ k.step \in {"exchange", "find"} => k.row = NoCredential
    /\ k.step \in {"send", "renew"} => k.row \in KnownRows
    /\ k.step = "store" /\ k.row # NoCredential => k.row \in KnownRows
    /\ k.rows \subseteq KnownRows
    /\ k.step = "send" => k.sends < MaxSends

CallsInv ==
    /\ \A c \in GraphCalls : FineCall(graphCall[c])
    /\ \A c, d \in GraphCalls :
         HasTokens(graphCall[c]) /\ HasTokens(graphCall[d])
           /\ graphCall[c].code = graphCall[d].code => c = d
    /\ \A k \in Codes \ spent : stored[k] = 0

MicrosoftInv == MicrosoftSafe /\ CallsInv

LEMMA CodesOfStates == \A k \in Codes : StateOf(k) \in Grants
BY DEF Codes, StateOf

LEMMA NoCallIsFine == NoCall \in Call /\ ~HasTokens(NoCall) /\ FineCall(NoCall)
BY MicrosoftAssumption DEF NoCall, Call, HasTokens, FineCall, MaxSends

LEMMA MicrosoftInvInit == MicrosoftInit => MicrosoftInv
<1> SUFFICES ASSUME MicrosoftInit PROVE MicrosoftInv
  OBVIOUS
<1>1. \A c \in GraphCalls : graphCall[c] = NoCall
  BY DEF MicrosoftInit
<1>2. CallsInv
  BY <1>1, NoCallIsFine DEF MicrosoftInit, CallsInv
<1>3. MicrosoftSafe
  <2>1. graphCall \in [GraphCalls -> Call]
    BY NoCallIsFine DEF MicrosoftInit
  <2>2. MicrosoftTypeOK
    <3>1. issued \in 0 .. MaxTokens
      BY MicrosoftAssumption DEF MicrosoftInit
    <3>4. spent \subseteq Codes /\ undone \in BOOLEAN
      BY DEF MicrosoftInit
    <3>2. /\ oauthState \in [Grants -> {"none", "open", "consumed"}]
          /\ stored \in [Codes -> Nat] /\ presented \in [Grants -> SUBSET Codes]
      BY DEF MicrosoftInit
    <3>3. credential \in [Credentials -> CredentialRow \cup {NoCredential}]
      BY DEF MicrosoftInit
    <3> QED
      BY <2>1, <3>1, <3>2, <3>3, <3>4 DEF MicrosoftTypeOK
  <2>3. ConsumedStateHolds /\ DisconnectHolds
    BY DEF MicrosoftInit, ConsumedStateHolds, DisconnectHolds
  <2> QED
    BY <2>2, <2>3 DEF MicrosoftSafe
<1> QED
  BY <1>2, <1>3 DEF MicrosoftInv

\* A call that moves on without writing a row.
LEMMA CallMoves ==
    ASSUME MicrosoftInv, NEW c \in GraphCalls, NEW now \in Call,
           graphCall' = [graphCall EXCEPT ![c] = now],
           UNCHANGED <<oauthState, spent, issued, credential, stored, presented, undone>>,
           FineCall(now),
           HasTokens(now) => HasTokens(graphCall[c]) /\ now.code = graphCall[c].code
    PROVE  MicrosoftInv'
<1> USE DEF MicrosoftInv, MicrosoftSafe, MicrosoftTypeOK
<1>1. \A d \in GraphCalls : graphCall'[d] = IF d = c THEN now ELSE graphCall[d]
  OBVIOUS
<1>2. MicrosoftSafe'
  BY DEF ConsumedStateHolds, DisconnectHolds
<1>3. \A k : FineCall(k)' <=> FineCall(k)
  BY DEF FineCall, KnownRows
<1>4. CallsInv'
  BY <1>1, <1>3 DEF CallsInv
<1> QED
  BY <1>2, <1>4

\* A call that writes rows it has read, and holds no callback's tokens afterwards.
LEMMA CallWrites ==
    ASSUME MicrosoftInv, NEW c \in GraphCalls, NEW now \in Call,
           graphCall' = [graphCall EXCEPT ![c] = now],
           UNCHANGED <<oauthState, spent, stored, presented, undone>>,
           issued' \in 0 .. MaxTokens,
           credential' \in [Credentials -> CredentialRow \cup {NoCredential}],
           KnownRows \subseteq KnownRows',
           FineCall(now), ~HasTokens(now)
    PROVE  MicrosoftInv'
<1> USE DEF MicrosoftInv, MicrosoftSafe, MicrosoftTypeOK
<1>1. \A d \in GraphCalls : graphCall'[d] = IF d = c THEN now ELSE graphCall[d]
  OBVIOUS
<1>2. MicrosoftSafe'
  BY DEF ConsumedStateHolds, DisconnectHolds
<1>3. \A k : FineCall(k) => FineCall(k)'
  BY DEF FineCall
<1>4. CallsInv'
  BY <1>1, <1>3 DEF CallsInv
<1> QED
  BY <1>2, <1>4

LEMMA MicrosoftInvStep == MicrosoftInv /\ [MicrosoftNext]_microsoftVars => MicrosoftInv'
<1> SUFFICES ASSUME MicrosoftInv, [MicrosoftNext]_microsoftVars PROVE MicrosoftInv'
  OBVIOUS
<1> USE MicrosoftAssumption
<1>a. MicrosoftTypeOK /\ ConsumedStateHolds /\ DisconnectHolds /\ CallsInv
  BY DEF MicrosoftInv, MicrosoftSafe
<1>b. \A c \in GraphCalls : graphCall[c] \in Call /\ FineCall(graphCall[c])
  BY <1>a DEF MicrosoftTypeOK, CallsInv
<1>c. \A x \in KnownRows : x \in Credentials /\ credential[x] \in CredentialRow /\ credential[x] # NoCredential
  BY <1>a DEF MicrosoftTypeOK, KnownRows
<1>1. ASSUME NEW g \in Grants, AuthorizeUrl(g) PROVE MicrosoftInv'
  <2>1. /\ oauthState[g] = "none" /\ oauthState' = [oauthState EXCEPT ![g] = "open"]
        /\ UNCHANGED <<spent, issued, credential, graphCall, stored, presented, undone>>
    BY <1>1 DEF AuthorizeUrl
  <2>2. MicrosoftSafe'
    BY <1>a, <2>1 DEF MicrosoftTypeOK, MicrosoftSafe, ConsumedStateHolds, DisconnectHolds
  <2>3. \A c \in GraphCalls : FineCall(graphCall[c])'
    BY <1>a, <1>b, <2>1, CodesOfStates DEF MicrosoftTypeOK, FineCall, HasTokens, KnownRows
  <2>4. CallsInv'
    BY <1>a, <2>1, <2>3 DEF CallsInv, HasTokens, MicrosoftTypeOK
  <2> QED
    BY <2>2, <2>4 DEF MicrosoftInv
<1>2. ASSUME NEW c \in GraphCalls, NEW k \in Codes, BeginCallback(c, k) PROVE MicrosoftInv'
  <2> DEFINE now == [NoCall EXCEPT !.step = "exchange", !.code = k]
  <2>1. /\ oauthState[StateOf(k)] = "open" /\ graphCall' = [graphCall EXCEPT ![c] = now]
        /\ UNCHANGED <<oauthState, spent, issued, credential, stored, presented, undone>>
    BY <1>2 DEF BeginCallback, Becomes
  <2>2. now \in Call
    BY NoCallIsFine DEF Call
  <2>3. now.step = "exchange" /\ now.code = k /\ now.rows = {} /\ now.row = NoCredential
    BY DEF NoCall
  <2> HIDE DEF now
  <2>4. FineCall(now) /\ ~HasTokens(now)
    BY <2>1, <2>3 DEF FineCall, HasTokens
  <2> QED
    BY <2>1, <2>2, <2>4, CallMoves
<1>3. ASSUME NEW c \in GraphCalls,
             graphCall' = [graphCall EXCEPT ![c] = NoCall],
             UNCHANGED <<oauthState, spent, issued, credential, stored, presented, undone>>
      PROVE  MicrosoftInv'
  BY <1>3, NoCallIsFine, CallMoves
<1>4. ASSUME NEW c \in GraphCalls, Exchange(c) PROVE MicrosoftInv'
  <2> DEFINE k == graphCall[c].code
             now == [graphCall[c] EXCEPT !.step = "find", !.token = issued + 1]
  <2>1. CASE ~(k \notin spent /\ issued < MaxTokens)
    BY <1>3, <1>4, <2>1 DEF Exchange, Ends, Becomes
  <2>2. CASE k \notin spent /\ issued < MaxTokens
    <3>1. /\ graphCall[c].step = "exchange"
          /\ spent' = spent \cup {k} /\ issued' = issued + 1
          /\ \/ graphCall' = [graphCall EXCEPT ![c] = now]
             \/ graphCall' = [graphCall EXCEPT ![c] = NoCall]
          /\ UNCHANGED <<oauthState, credential, stored, presented, undone>>
      BY <1>4, <2>2 DEF Exchange, Ends, Becomes, InStep
    <3>2. k \in Codes /\ stored[k] = 0
      BY <1>a, <1>b, <2>2, <3>1 DEF FineCall, CallsInv
    <3>3. issued + 1 \in 1 .. MaxTokens
      BY <1>a, <2>2 DEF MicrosoftTypeOK
    <3>4. /\ now \in Call
          /\ now.step = "find" /\ now.token = issued + 1 /\ now.code = k
          /\ now.rows = graphCall[c].rows /\ now.row = graphCall[c].row
      <4>1. issued + 1 \in 0 .. MaxTokens
        BY <3>3
      <4>2. now \in Call
        BY <1>b, <4>1 DEF Call
      <4>3. /\ now.step = "find" /\ now.token = issued + 1 /\ now.code = k
            /\ now.rows = graphCall[c].rows /\ now.row = graphCall[c].row
        BY <1>b DEF Call
      <4> QED
        BY <4>2, <4>3
    <3> HIDE DEF now
    <3>5. MicrosoftSafe'
      BY <1>a, <3>1, <3>2, <3>3, <3>4, NoCallIsFine
         DEF MicrosoftTypeOK, MicrosoftSafe, ConsumedStateHolds, DisconnectHolds
    <3>6. PICK call \in {now, NoCall} : graphCall' = [graphCall EXCEPT ![c] = call]
      BY <3>1
    <3>7. \A d \in GraphCalls : graphCall'[d] = IF d = c THEN call ELSE graphCall[d]
      BY <1>a, <3>6 DEF MicrosoftTypeOK
    <3>8. KnownRows' = KnownRows
      BY <3>1 DEF KnownRows
    <3>9. FineCall(call)'
      BY <1>b, <3>1, <3>2, <3>3, <3>4, <3>6, <3>8, NoCallIsFine DEF FineCall, HasTokens, NoCall
    <3>10. \A d \in GraphCalls \ {c} : FineCall(graphCall[d])'
      BY <1>b, <3>1, <3>7, <3>8 DEF FineCall, HasTokens
    <3>11. \A d \in GraphCalls \ {c} : HasTokens(graphCall[d]) => graphCall[d].code # k
      BY <1>b, <2>2 DEF FineCall
    <3>12. CallsInv'
      BY <1>a, <3>1, <3>4, <3>6, <3>7, <3>9, <3>10, <3>11, NoCallIsFine DEF CallsInv
    <3> QED
      BY <3>5, <3>12 DEF MicrosoftInv
  <2> QED
    BY <2>1, <2>2
<1>5. ASSUME NEW c \in GraphCalls, FindCredential(c) PROVE MicrosoftInv'
  <2>0. /\ graphCall[c].step = "find"
        /\ UNCHANGED <<oauthState, spent, issued, credential, stored, presented, undone>>
    BY <1>5 DEF FindCredential, InStep
  <2>1. CASE KnownRows = {} /\ Becomes(c, [graphCall[c] EXCEPT !.step = "store"])
    <3> DEFINE now == [graphCall[c] EXCEPT !.step = "store"]
    <3>1. /\ now \in Call /\ now.step = "store" /\ now.code = graphCall[c].code
          /\ now.token = graphCall[c].token /\ now.row = graphCall[c].row /\ now.rows = graphCall[c].rows
      BY <1>b DEF Call
    <3>2. graphCall' = [graphCall EXCEPT ![c] = now]
      BY <2>1 DEF Becomes
    <3> HIDE DEF now
    <3>3. FineCall(now) /\ HasTokens(graphCall[c])
      BY <1>b, <2>0, <3>1 DEF FineCall, HasTokens
    <3> QED
      BY <2>0, <3>1, <3>2, <3>3, CallMoves
  <2>2. ASSUME NEW x \in KnownRows,
               Becomes(c, [graphCall[c] EXCEPT !.step = "store", !.row = x,
                                               !.revoked = credential[x].revoked])
        PROVE  MicrosoftInv'
    <3> DEFINE now == [graphCall[c] EXCEPT !.step = "store", !.row = x, !.revoked = credential[x].revoked]
    <3>1. /\ now \in Call /\ now.step = "store" /\ now.code = graphCall[c].code
          /\ now.token = graphCall[c].token /\ now.row = x /\ now.rows = graphCall[c].rows
      BY <1>b, <1>c DEF Call, CredentialRow
    <3>2. graphCall' = [graphCall EXCEPT ![c] = now]
      BY <2>2 DEF Becomes
    <3> HIDE DEF now
    <3>3. FineCall(now) /\ HasTokens(graphCall[c])
      BY <1>b, <2>0, <3>1 DEF FineCall, HasTokens
    <3> QED
      BY <2>0, <3>1, <3>2, <3>3, CallMoves
  <2> QED
    BY <1>5, <2>1, <2>2 DEF FindCredential
<1>6. ASSUME NEW c \in GraphCalls, StoreCredential(c) PROVE MicrosoftInv'
  <2> DEFINE x == graphCall[c].row
             k == graphCall[c].code
             g == StateOf(k)
             token == graphCall[c].token
  <2>1. /\ graphCall[c].step = "store"
        /\ oauthState' = [oauthState EXCEPT ![g] = "consumed"]
        /\ stored' = [stored EXCEPT ![k] = @ + 1]
        /\ presented' = [presented EXCEPT ![g] = IF oauthState[g] = "open" THEN CodesUnderWay(g) ELSE @]
        /\ graphCall' = [graphCall EXCEPT ![c] = NoCall]
        /\ UNCHANGED <<spent, issued>>
    BY <1>6 DEF StoreCredential, InStep, Ends, Becomes
  <2>2. /\ k \in Codes /\ k \in spent /\ stored[k] = 0 /\ g \in Grants
        /\ token \in 1 .. MaxTokens
        /\ oauthState[g] = "open" \/ (oauthState[g] = "consumed" /\ k \in presented[g])
    BY <1>a, <1>b, <2>1, CodesOfStates DEF FineCall, HasTokens, MicrosoftTypeOK
  <2>3. /\ credential' \in [Credentials -> CredentialRow \cup {NoCredential}]
        /\ KnownRows \subseteq KnownRows'
        /\ undone' = FALSE
    <3>1. CASE x # NoCredential
      <4> DEFINE row == Connected(credential[x], token, graphCall[c].revoked)
      <4>1. x \in KnownRows /\ graphCall[c].revoked \in BOOLEAN
        BY <1>b, <2>1, <3>1 DEF FineCall, Call
      <4>2. row \in CredentialRow /\ row # NoCredential
        BY <1>c, <2>2, <4>1 DEF Connected, CredentialRow
      <4>3. /\ credential' = [credential EXCEPT ![x] = row]
            /\ undone' = (undone \/ (credential[x].revoked /\ ~credential'[x].revoked
                                        /\ ~graphCall[c].revoked))
        BY <1>6, <3>1 DEF StoreCredential
      <4>4. credential[x].revoked /\ ~graphCall[c].revoked => row.revoked
        BY <1>c, <4>1 DEF Connected, CredentialRow
      <4> HIDE DEF row
      <4>5. credential'[x] = row /\ \A y \in Credentials \ {x} : credential'[y] = credential[y]
        BY <1>a, <1>c, <4>1, <4>3 DEF MicrosoftTypeOK
      <4>6. undone' = FALSE
        <5>1. ~(credential[x].revoked /\ ~credential'[x].revoked /\ ~graphCall[c].revoked)
          BY <4>4, <4>5
        <5>2. undone = FALSE
          BY <1>a DEF DisconnectHolds, MicrosoftTypeOK
        <5> QED
          BY <4>3, <5>1, <5>2
      <4>7. credential' \in [Credentials -> CredentialRow \cup {NoCredential}]
        BY <1>a, <4>2, <4>3 DEF MicrosoftTypeOK
      <4>8. KnownRows \subseteq KnownRows'
        BY <4>2, <4>5 DEF KnownRows
      <4> QED
        BY <4>6, <4>7, <4>8
    <3>2. CASE x = NoCredential
      <4>1. PICK y \in Credentials \ KnownRows :
              credential' = [credential EXCEPT ![y] = [token |-> token, revoked |-> FALSE]]
        BY <1>6, <3>2 DEF StoreCredential
      <4>2. [token |-> token, revoked |-> FALSE] \in CredentialRow
        BY <2>2 DEF CredentialRow
      <4>3. undone' = FALSE
        BY <1>a, <1>6, <3>2 DEF StoreCredential, DisconnectHolds, MicrosoftTypeOK
      <4> QED
        BY <1>a, <4>1, <4>2, <4>3 DEF MicrosoftTypeOK, KnownRows
    <3> QED
      BY <3>1, <3>2
  <2> HIDE DEF x, token
  <2>4. \A d \in GraphCalls : graphCall'[d] = IF d = c THEN NoCall ELSE graphCall[d]
    BY <1>a, <2>1 DEF MicrosoftTypeOK
  <2>5. /\ \A h \in Grants : oauthState'[h] = IF h = g THEN "consumed" ELSE oauthState[h]
        /\ \A j \in Codes : stored'[j] = IF j = k THEN 1 ELSE stored[j]
    BY <1>a, <2>1, <2>2 DEF MicrosoftTypeOK
  <2>8. /\ oauthState[g] = "open" => presented'[g] = CodesUnderWay(g)
        /\ \A h \in Grants : h # g \/ oauthState[h] = "consumed" => presented'[h] = presented[h]
    BY <1>a, <2>1, <2>2 DEF MicrosoftTypeOK
  <2>9. \A d \in GraphCalls : graphCall[d].code \in Codes /\ StateOf(graphCall[d].code) = g
                                => graphCall[d].code \in CodesUnderWay(g)
    BY DEF CodesUnderWay
  <2>10. k = graphCall[c].code /\ StateOf(k) = g
    OBVIOUS
  <2> HIDE DEF k, g
  <2>6. MicrosoftSafe'
    <3>1. MicrosoftTypeOK'
      <4>1. graphCall' \in [GraphCalls -> Call]
        BY <1>a, <2>1, NoCallIsFine DEF MicrosoftTypeOK
      <4>2. /\ oauthState' \in [Grants -> {"none", "open", "consumed"}]
            /\ stored' \in [Codes -> Nat] /\ presented' \in [Grants -> SUBSET Codes]
        BY <1>a, <2>1, <2>2 DEF MicrosoftTypeOK, CodesUnderWay
      <4> QED
        BY <1>a, <2>1, <2>3, <4>1, <4>2 DEF MicrosoftTypeOK
    <3>2. \A h \in Grants :
             oauthState'[h] = "consumed" <=> \E j \in Codes : StateOf(j) = h /\ stored'[j] # 0
      BY <1>a, <2>2, <2>5, <2>10 DEF ConsumedStateHolds
    <3>3. ASSUME NEW j \in Codes PROVE stored'[j] <= 1 /\ (stored'[j] = 1 => j \in presented'[StateOf(j)])
      <4>1. CASE j = k
        BY <2>2, <2>5, <2>8, <2>9, <2>10, <4>1
      <4>2. CASE j # k
        <5>1. stored'[j] = stored[j] /\ stored[j] <= 1
          BY <1>a, <2>5, <4>2 DEF ConsumedStateHolds
        <5>2. stored[j] = 1 => oauthState[StateOf(j)] = "consumed" /\ j \in presented[StateOf(j)]
          BY <1>a, CodesOfStates DEF ConsumedStateHolds
        <5> QED
          BY <2>8, <5>1, <5>2, CodesOfStates
      <4> QED
        BY <4>1, <4>2
    <3>4. ConsumedStateHolds'
      BY <3>2, <3>3 DEF ConsumedStateHolds
    <3>5. DisconnectHolds'
      BY <2>3 DEF DisconnectHolds
    <3> QED
      BY <3>1, <3>4, <3>5 DEF MicrosoftSafe
  <2>7. CallsInv'
    <3>1. HasTokens(graphCall[c])
      BY <2>1 DEF HasTokens
    <3>2. \A d \in GraphCalls \ {c} : HasTokens(graphCall[d]) => graphCall[d].code # k
      BY <1>a, <2>10, <3>1 DEF CallsInv
    <3>3. ASSUME NEW d \in GraphCalls \ {c} PROVE FineCall(graphCall[d])'
      <4>1. graphCall'[d] = graphCall[d] /\ FineCall(graphCall[d])
        BY <1>b, <2>4
      <4>2. HasTokens(graphCall[d]) => graphCall[d].code \in Codes /\ stored'[graphCall[d].code] = 0
        BY <2>5, <3>2, <4>1 DEF FineCall
      <4>3. ASSUME graphCall[d].step = "exchange" \/ HasTokens(graphCall[d])
            PROVE  LET j == graphCall[d].code IN
                   /\ j \in Codes /\ oauthState'[StateOf(j)] # "none"
                   /\ oauthState'[StateOf(j)] = "consumed" => j \in presented'[StateOf(j)]
        <5> DEFINE j == graphCall[d].code
        <5>1. /\ j \in Codes /\ StateOf(j) \in Grants /\ oauthState[StateOf(j)] # "none"
              /\ oauthState[StateOf(j)] = "consumed" => j \in presented[StateOf(j)]
          BY <4>1, <4>3, CodesOfStates DEF FineCall
        <5>2. StateOf(j) = g => j \in CodesUnderWay(g)
          BY <2>9, <5>1
        <5> HIDE DEF j
        <5>3. /\ oauthState'[StateOf(j)] # "none"
              /\ oauthState'[StateOf(j)] = "consumed" => j \in presented'[StateOf(j)]
          BY <2>2, <2>5, <2>8, <5>1, <5>2
        <5> QED
          BY <5>1, <5>3 DEF j
      <4> QED
        BY <2>1, <2>3, <4>1, <4>2, <4>3 DEF FineCall, HasTokens
    <3>4. FineCall(graphCall[c])'
      BY <2>4, NoCallIsFine DEF FineCall, HasTokens, NoCall
    <3>5. \A j \in Codes \ spent' : stored'[j] = 0
      BY <1>a, <2>1, <2>2, <2>5 DEF CallsInv
    <3> QED
      BY <1>a, <2>4, <3>3, <3>4, <3>5, NoCallIsFine DEF CallsInv
  <2> QED
    BY <2>6, <2>7 DEF MicrosoftInv
<1>7. ASSUME NEW c \in GraphCalls, BeginDisconnect(c) PROVE MicrosoftInv'
  <2> DEFINE now == [NoCall EXCEPT !.step = "leave", !.rows = ActiveRows]
  <2>1. /\ graphCall' = [graphCall EXCEPT ![c] = now]
        /\ UNCHANGED <<oauthState, spent, issued, credential, stored, presented, undone>>
    BY <1>7 DEF BeginDisconnect, Becomes
  <2>a. now \in Call
    <3>1. ActiveRows \in SUBSET Credentials
      BY DEF ActiveRows, KnownRows
    <3> QED
      BY <3>1, NoCallIsFine DEF Call
  <2>2. now.step = "leave" /\ now.rows \subseteq KnownRows
    BY DEF NoCall, ActiveRows
  <2> HIDE DEF now
  <2>3. FineCall(now) /\ ~HasTokens(now)
    BY <2>2 DEF FineCall, HasTokens
  <2> QED
    BY <2>1, <2>a, <2>3, CallMoves
<1>8. ASSUME NEW c \in GraphCalls, Disconnect(c) PROVE MicrosoftInv'
  <2>1. /\ credential' = [x \in Credentials |->
                            IF x \in graphCall[c].rows THEN [credential[x] EXCEPT !.revoked = TRUE]
                            ELSE credential[x]]
        /\ graphCall' = [graphCall EXCEPT ![c] = NoCall]
        /\ UNCHANGED <<oauthState, spent, issued, stored, presented, undone>>
    BY <1>8 DEF Disconnect, Ends, Becomes
  <2>2. graphCall[c].rows \subseteq KnownRows
    BY <1>b DEF FineCall
  <2>3. \A x \in KnownRows : [credential[x] EXCEPT !.revoked = TRUE] \in CredentialRow
    BY <1>c DEF CredentialRow
  <2>4. credential' \in [Credentials -> CredentialRow \cup {NoCredential}]
    BY <1>a, <2>1, <2>2, <2>3 DEF MicrosoftTypeOK
  <2>5. KnownRows \subseteq KnownRows'
    BY <2>1, <2>2, <2>3 DEF KnownRows
  <2>6. issued' \in 0 .. MaxTokens
    BY <1>a, <2>1 DEF MicrosoftTypeOK
  <2> QED
    BY <2>1, <2>4, <2>5, <2>6, NoCallIsFine, CallWrites
<1>9. ASSUME NEW c \in GraphCalls, NEW x \in Credentials, Resolve(c, x) PROVE MicrosoftInv'
  <2>1. PICK status \in BOOLEAN, s \in {"send", "renew"} :
          Becomes(c, [NoCall EXCEPT !.step = s, !.row = x, !.token = credential[x].token, !.status = status])
    BY <1>9 DEF Resolve
  <2> DEFINE now == [NoCall EXCEPT !.step = s, !.row = x, !.token = credential[x].token, !.status = status]
  <2>2. /\ graphCall' = [graphCall EXCEPT ![c] = now]
        /\ UNCHANGED <<oauthState, spent, issued, credential, stored, presented, undone>>
    BY <1>9, <2>1 DEF Resolve, Becomes
  <2>3. x \in KnownRows /\ credential[x].token \in 0 .. MaxTokens
    BY <1>9, <1>c DEF Resolve, ActiveRows, CredentialRow
  <2>4. /\ now \in Call
        /\ now.step = s /\ now.row = x /\ now.sends = 0 /\ now.rows = {}
    <3>1. now \in Call
      BY <2>3, NoCallIsFine DEF Call
    <3>2. now.step = s /\ now.row = x /\ now.sends = 0 /\ now.rows = {}
      BY DEF NoCall
    <3> QED
      BY <3>1, <3>2
  <2> HIDE DEF now
  <2>5. FineCall(now) /\ ~HasTokens(now)
    BY <2>3, <2>4 DEF FineCall, HasTokens, MaxSends
  <2> QED
    BY <2>2, <2>4, <2>5, CallMoves
<1>10. ASSUME NEW c \in GraphCalls, ResolveAgain(c) PROVE MicrosoftInv'
  <2>1. CASE Ends(c)
    BY <1>3, <1>10, <2>1 DEF ResolveAgain, Ends, Becomes
  <2>2. ASSUME NEW x \in Credentials, ActiveRows = {x},
               Becomes(c, [graphCall[c] EXCEPT !.step = "renew", !.row = x,
                              !.token = IF graphCall[c].status THEN @ ELSE credential[x].token])
        PROVE  MicrosoftInv'
    <3> DEFINE token == IF graphCall[c].status THEN graphCall[c].token ELSE credential[x].token
               now == [graphCall[c] EXCEPT !.step = "renew", !.row = x, !.token = token]
    <3>1. /\ graphCall' = [graphCall EXCEPT ![c] = now]
          /\ UNCHANGED <<oauthState, spent, issued, credential, stored, presented, undone>>
      BY <1>10, <2>2 DEF ResolveAgain, Becomes
    <3>2. x \in KnownRows /\ token \in 0 .. MaxTokens
      BY <1>b, <1>c, <2>2 DEF ActiveRows, CredentialRow, Call
    <3> HIDE DEF token
    <3>3. now \in Call /\ now.step = "renew" /\ now.row = x /\ now.rows = graphCall[c].rows
      BY <1>b, <3>2 DEF Call
    <3> HIDE DEF now
    <3>4. FineCall(now) /\ ~HasTokens(now)
      BY <1>b, <3>2, <3>3 DEF FineCall, HasTokens
    <3> QED
      BY <3>1, <3>3, <3>4, CallMoves
  <2> QED
    BY <1>10, <2>1, <2>2 DEF ResolveAgain
<1>11. ASSUME NEW c \in GraphCalls, Renewed(c) PROVE MicrosoftInv'
  <2> DEFINE x == graphCall[c].row
             row == [credential[x] EXCEPT !.token = issued + 1]
             resent == [graphCall[c] EXCEPT !.step = "send", !.token = issued + 1]
             now == IF graphCall[c].sends < MaxSends THEN resent ELSE NoCall
  <2>1. /\ graphCall[c].step = "renew" /\ issued < MaxTokens /\ issued' = issued + 1
        /\ credential' = [credential EXCEPT ![x] = row]
        /\ graphCall' = [graphCall EXCEPT ![c] = now]
        /\ UNCHANGED <<oauthState, spent, stored, presented, undone>>
    BY <1>11 DEF Renewed, InStep, Becomes
  <2>2. x \in KnownRows
    BY <1>b, <2>1 DEF FineCall
  <2>3. issued + 1 \in 1 .. MaxTokens
    BY <1>a, <2>1 DEF MicrosoftTypeOK
  <2>4. row \in CredentialRow /\ row # NoCredential
    BY <1>c, <2>2, <2>3 DEF CredentialRow
  <2>5. /\ resent \in Call /\ resent.step = "send" /\ resent.row = x /\ resent.sends = graphCall[c].sends
        /\ resent.rows = graphCall[c].rows
    <3>1. issued + 1 \in 0 .. MaxTokens
      BY <2>3
    <3>2. resent \in Call
      BY <1>b, <3>1 DEF Call
    <3>3. /\ resent.step = "send" /\ resent.row = x /\ resent.sends = graphCall[c].sends
          /\ resent.rows = graphCall[c].rows
      BY <1>b DEF Call
    <3> QED
      BY <3>2, <3>3
  <2> HIDE DEF row, resent
  <2>6. now \in Call /\ FineCall(now) /\ ~HasTokens(now)
    BY <1>b, <2>2, <2>5, NoCallIsFine DEF FineCall, HasTokens
  <2> HIDE DEF now
  <2>7. credential' \in [Credentials -> CredentialRow \cup {NoCredential}] /\ KnownRows \subseteq KnownRows'
    BY <1>a, <2>1, <2>2, <2>4 DEF MicrosoftTypeOK, KnownRows
  <2>8. issued' \in 0 .. MaxTokens
    BY <1>a, <2>1, <2>3 DEF MicrosoftTypeOK
  <2> QED
    BY <2>1, <2>6, <2>7, <2>8, CallWrites
<1>12. ASSUME NEW c \in GraphCalls, RenewalRefused(c) PROVE MicrosoftInv'
  <2> DEFINE x == graphCall[c].row
             row == [credential[x] EXCEPT !.revoked = TRUE]
  <2>1. /\ graphCall[c].step = "renew"
        /\ credential' = [credential EXCEPT ![x] = row]
        /\ graphCall' = [graphCall EXCEPT ![c] = NoCall]
        /\ UNCHANGED <<oauthState, spent, issued, stored, presented, undone>>
    BY <1>12 DEF RenewalRefused, InStep, Ends, Becomes
  <2>2. x \in KnownRows
    BY <1>b, <2>1 DEF FineCall
  <2>3. row \in CredentialRow /\ row # NoCredential
    BY <1>c, <2>2 DEF CredentialRow
  <2> HIDE DEF row
  <2>4. credential' \in [Credentials -> CredentialRow \cup {NoCredential}] /\ KnownRows \subseteq KnownRows'
    BY <1>a, <2>1, <2>2, <2>3 DEF MicrosoftTypeOK, KnownRows
  <2>5. issued' \in 0 .. MaxTokens
    BY <1>a, <2>1 DEF MicrosoftTypeOK
  <2> QED
    BY <2>1, <2>4, <2>5, NoCallIsFine, CallWrites
<1>13. ASSUME NEW c \in GraphCalls, RenewalFails(c) PROVE MicrosoftInv'
  BY <1>3, <1>13 DEF RenewalFails, Ends, Becomes
<1>14. ASSUME NEW c \in GraphCalls, SendGraph(c) PROVE MicrosoftInv'
  <2> DEFINE tried == [graphCall[c] EXCEPT !.sends = @ + 1]
             again == [tried EXCEPT !.step = "again", !.forced = TRUE]
  <2>1. /\ graphCall[c].step = "send"
        /\ UNCHANGED <<oauthState, spent, issued, credential, stored, presented, undone>>
        /\ \/ graphCall' = [graphCall EXCEPT ![c] = again]
           \/ tried.sends < MaxSends /\ graphCall' = [graphCall EXCEPT ![c] = tried]
           \/ graphCall' = [graphCall EXCEPT ![c] = NoCall]
    BY <1>14 DEF SendGraph, InStep, Becomes, Ends
  <2>2. graphCall[c].sends \in 0 .. MaxSends - 1
    BY <1>b, <2>1 DEF FineCall, Call, MaxSends
  <2>3. /\ tried \in Call /\ tried.step = "send" /\ tried.row = graphCall[c].row
        /\ tried.rows = graphCall[c].rows
    <3>1. graphCall[c].sends + 1 \in 0 .. MaxSends
      BY <2>2 DEF MaxSends
    <3>2. tried \in Call
      BY <1>b, <3>1 DEF Call
    <3>3. tried.step = "send" /\ tried.row = graphCall[c].row /\ tried.rows = graphCall[c].rows
      BY <1>b, <2>1 DEF Call
    <3> QED
      BY <3>2, <3>3
  <2> HIDE DEF tried
  <2>4. again \in Call /\ again.step = "again" /\ again.rows = graphCall[c].rows
    <3>1. again \in Call
      BY <2>3 DEF Call
    <3>2. again.step = "again" /\ again.rows = graphCall[c].rows
      BY <2>3 DEF Call
    <3> QED
      BY <3>1, <3>2
  <2> HIDE DEF again
  <2>5. FineCall(again) /\ ~HasTokens(again) /\ ~HasTokens(tried)
        /\ (tried.sends < MaxSends => FineCall(tried))
    BY <1>b, <2>1, <2>3, <2>4 DEF FineCall, HasTokens
  <2> QED
    BY <1>3, <2>1, <2>3, <2>4, <2>5, CallMoves
<1>15. CASE UNCHANGED microsoftVars
  BY <1>15 DEF microsoftVars, MicrosoftInv, MicrosoftSafe, MicrosoftTypeOK, ConsumedStateHolds, DisconnectHolds,
               CallsInv, FineCall, HasTokens, KnownRows
<1> QED
  BY <1>1, <1>2, <1>4, <1>5, <1>6, <1>7, <1>8, <1>9, <1>10, <1>11, <1>12, <1>13, <1>14, <1>15 DEF MicrosoftNext

(* For any number of OAuth states, codes, rows and calls: a code leads to  *)
(* one credential write at most, a state is consumed by one, and after     *)
(* that only the callbacks write that were under way; neither a callback   *)
(* nor a renewal that never saw a disconnect undoes it                     *)
(* (complete_callback, _refresh, disconnect).                              *)
THEOREM MicrosoftIsSafe == MicrosoftSpec => []MicrosoftSafe
<1>1. MicrosoftInv => MicrosoftSafe
  BY DEF MicrosoftInv
<1> QED
  BY <1>1, MicrosoftInvInit, MicrosoftInvStep, PTL DEF MicrosoftSpec

-----------------------------------------------------------------------------
(* Registrations. Each request knows enough of the tables for its commit:  *)
(* the roles it does not miss are there or come with it, and what it has   *)
(* inserted comes before what it misses, so that nobody waits in a circle. *)

Seeding(x) == x.step \in {"seed", "default", "grant", "mail", "commit"}

FineApplicant(x) ==
    /\ x.step # "idle" => x.address \in Addresses
    /\ x.step = "counted" => x.count = counted[x.window] + 1
    /\ ~Seeding(x) => x.inserted = {}
    /\ Seeding(x) => DefaultRoles \ x.missing \subseteq roleNames \cup x.inserted
    /\ Seeding(x) /\ x.step # "seed" => x.missing = {}
    /\ x.step = "commit" => x.address \in linksMailed
    /\ \A i, j \in 1 .. 5 :
         DEFAULT_ROLES[i] \in x.inserted /\ DEFAULT_ROLES[j] \in x.missing => i < j

ApplicantsInv ==
    /\ \A a \in Applicants : FineApplicant(applicant[a])
    /\ \A a, b \in Applicants :
         At(a, "counted") /\ At(b, "counted") /\ applicant[a].window = applicant[b].window => a = b

TablesInv == WithinHourlyLimit /\ AccountsAreWhole /\ DuplicatesExist

LEMMA RoleNames ==
    /\ DOMAIN DEFAULT_ROLES = 1 .. 5
    /\ \A r \in DefaultRoles : \E i \in 1 .. 5 : r = DEFAULT_ROLES[i]
    /\ \A i \in 1 .. 5 : DEFAULT_ROLES[i] \in DefaultRoles
    /\ \A i, j \in 1 .. 5 : DEFAULT_ROLES[i] = DEFAULT_ROLES[j] => i = j
    /\ DEFAULT_USER_ROLE \in DefaultRoles
BY DEF DEFAULT_ROLES, DefaultRoles, DEFAULT_USER_ROLE

LEMMA IdleIsFine == NotRegistering \in Applicant /\ FineApplicant(NotRegistering)
BY RegistrationsAssumption DEF NotRegistering, Applicant, FineApplicant, Seeding, Windows

LEMMA RegistrationsInvInit ==
    RegistrationsInit => RegistrationsTypeOK /\ TablesInv /\ ApplicantsInv
<1> SUFFICES ASSUME RegistrationsInit PROVE RegistrationsTypeOK /\ TablesInv /\ ApplicantsInv
  OBVIOUS
<1>1. \A a \in Applicants : applicant[a] = NotRegistering
  BY DEF RegistrationsInit
<1>2. RegistrationsTypeOK
  BY IdleIsFine, RegistrationsAssumption
     DEF RegistrationsInit, RegistrationsTypeOK, NoAccount, SameDefault, Windows
<1>3. TablesInv
  BY RegistrationsAssumption
     DEF RegistrationsInit, TablesInv, WithinHourlyLimit, AccountsAreWhole, DuplicatesExist,
         Registered, NoAccount, Windows
<1>4. ApplicantsInv
  BY <1>1, IdleIsFine DEF ApplicantsInv, At, NotRegistering
<1> QED
  BY <1>2, <1>3, <1>4

\* A request that moves on, while the tables only grow.
LEMMA ApplicantMoves ==
    ASSUME RegistrationsTypeOK, ApplicantsInv, NEW a \in Applicants, NEW now \in Applicant,
           applicant' = [applicant EXCEPT ![a] = now],
           roleNames \subseteq roleNames', linksMailed \subseteq linksMailed',
           UNCHANGED counted, FineApplicant(now)',
           now.step = "counted" => ~BucketHeld(a) /\ now.window = applicant[a].window
    PROVE  applicant' \in [Applicants -> Applicant] /\ ApplicantsInv'
<1>1. \A b \in Applicants : applicant'[b] = IF b = a THEN now ELSE applicant[b]
  BY DEF RegistrationsTypeOK
<1>2. applicant' \in [Applicants -> Applicant]
  BY DEF RegistrationsTypeOK
<1>3. ASSUME NEW b \in Applicants PROVE FineApplicant(applicant[b])'
  <2>1. CASE b = a
    BY <1>1, <2>1 DEF FineApplicant
  <2>2. CASE b # a
    BY <1>1, <2>2 DEF FineApplicant, ApplicantsInv, Seeding
  <2> QED
    BY <2>1, <2>2
<1>4. ASSUME NEW b \in Applicants, NEW c \in Applicants, At(b, "counted")', At(c, "counted")',
             applicant'[b].window = applicant'[c].window
      PROVE  b = c
  BY <1>1, <1>4 DEF At, BucketHeld, ApplicantsInv
<1> QED
  BY <1>2, <1>3, <1>4 DEF ApplicantsInv


\* What a request reads and writes before its commit: itself, the mail, and the
\* answer that an address is taken.
LEMMA RequestStep ==
    ASSUME RegistrationsTypeOK, TablesInv, ApplicantsInv, NEW a \in Applicants,
           \/ \E m \in Addresses : Arrive(a, m)
           \/ FindBucket(a) \/ InsertBucket(a) \/ LookUpAddress(a) \/ ReadRoles(a)
           \/ InsertAccount(a) \/ ReadDefault(a) \/ InsertGrant(a) \/ MailLink(a) \/ Vanish(a)
    PROVE  (RegistrationsTypeOK /\ TablesInv /\ ApplicantsInv)'
<1> DEFINE old == applicant[a]
<1>0. old \in Applicant /\ FineApplicant(old)
  BY DEF RegistrationsTypeOK, ApplicantsInv
<1>1. /\ UNCHANGED <<roleNames, account, counted, hour, assistant, change, admitted>>
      /\ arrivals' \in 0 .. MaxArrivals
      /\ linksMailed \subseteq linksMailed' /\ linksMailed' \subseteq Addresses
      /\ duplicates' \subseteq Addresses /\ DuplicatesExist'
  <2> USE DEF Arrive, FindBucket, InsertBucket, LookUpAddress, ReadRoles, InsertAccount,
              ReadDefault, InsertGrant, MailLink, Vanish
  <2>1. UNCHANGED <<roleNames, account, counted, hour, assistant, change, admitted>>
    OBVIOUS
  <2>2. arrivals' = arrivals \/ (arrivals < MaxArrivals /\ arrivals' = arrivals + 1)
    OBVIOUS
  <2>3. linksMailed' = linksMailed \/ (linksMailed' = linksMailed \cup {old.address} /\ At(a, "mail"))
    OBVIOUS
  <2>4. \/ duplicates' = duplicates
        \/ /\ duplicates' = duplicates \cup {old.address} /\ Registered(old.address)
           /\ At(a, "look up") \/ At(a, "seed")
    BY DEF TellDuplicate
  <2> HIDE DEF Arrive, FindBucket, InsertBucket, LookUpAddress, ReadRoles, InsertAccount,
              ReadDefault, InsertGrant, MailLink, Vanish
  <2>5. arrivals' \in 0 .. MaxArrivals
    BY <2>2, RegistrationsAssumption DEF RegistrationsTypeOK
  <2>6. linksMailed \subseteq linksMailed' /\ linksMailed' \subseteq Addresses
    BY <1>0, <2>3 DEF RegistrationsTypeOK, FineApplicant, At
  <2>7. duplicates' \subseteq Addresses /\ DuplicatesExist'
    BY <1>0, <2>1, <2>4
       DEF RegistrationsTypeOK, FineApplicant, At, TablesInv, DuplicatesExist, Registered
  <2> QED
    BY <2>1, <2>5, <2>6, <2>7
<1>2. TablesInv'
  BY <1>1 DEF TablesInv, WithinHourlyLimit, AccountsAreWhole, Registered
<1>3. SUFFICES applicant' \in [Applicants -> Applicant] /\ ApplicantsInv'
  BY <1>1, <1>2 DEF RegistrationsTypeOK
<1>4. FineApplicant(NotRegistering)'
  BY DEF NotRegistering, FineApplicant, Seeding
<1>5. CASE LeavesOff(a)
  BY <1>1, <1>4, <1>5, IdleIsFine, ApplicantMoves DEF LeavesOff, NotRegistering
<1>6. ASSUME NEW m \in Addresses, Arrive(a, m) PROVE applicant' \in [Applicants -> Applicant] /\ ApplicantsInv'
  <2> DEFINE now == [NotRegistering EXCEPT !.step = "count", !.address = m, !.window = hour]
  <2>1. now \in Applicant
    BY IdleIsFine DEF RegistrationsTypeOK, Applicant
  <2>2. now.step = "count" /\ now.address = m /\ now.missing = {} /\ now.inserted = {}
    BY DEF NotRegistering
  <2>3. FineApplicant(now)'
    BY <2>2 DEF FineApplicant, Seeding
  <2>4. applicant' = [applicant EXCEPT ![a] = now]
    BY <1>6 DEF Arrive
  <2> QED
    BY <1>1, <2>1, <2>2, <2>3, <2>4, ApplicantMoves
<1>7. ASSUME NEW now \in Applicant, applicant' = [applicant EXCEPT ![a] = now],
             now.step # "counted", ~Seeding(now), ~Seeding(old),
             now.address = old.address, old.step # "idle",
             now.missing = old.missing, now.inserted = old.inserted
      PROVE  applicant' \in [Applicants -> Applicant] /\ ApplicantsInv'
  <2>1. FineApplicant(now)'
    BY <1>0, <1>7 DEF FineApplicant, Seeding
  <2> QED
    BY <1>1, <1>7, <2>1, ApplicantMoves
<1>8. CASE FindBucket(a) \/ InsertBucket(a)
  <2>1. CASE Counts(a) /\ ~BucketHeld(a) /\ old.step \in {"count", "bucket"}
    <3>1. old.window \in Windows
      BY <1>0 DEF Applicant
    <3>2. CountOf(a) \in Nat
      BY <3>1 DEF RegistrationsTypeOK, CountOf
    <3>3. [old EXCEPT !.step = "counted", !.count = CountOf(a)] \in Applicant
      BY <1>0, <3>2 DEF Applicant
    <3>4. PICK now \in Applicant : now = [old EXCEPT !.step = "counted", !.count = CountOf(a)]
      BY <3>3
    <3>5. /\ now.step = "counted" /\ now.count = counted[now.window] + 1
          /\ now.window = old.window /\ now.address \in Addresses /\ now.inserted = {}
      BY <1>0, <2>1, <3>4 DEF CountOf, Applicant, FineApplicant, Seeding
    <3>6. FineApplicant(now)'
      BY <1>1, <3>5 DEF FineApplicant, Seeding
    <3>7. applicant' = [applicant EXCEPT ![a] = now]
      BY <2>1, <3>4 DEF Counts
    <3> QED
      BY <1>1, <2>1, <3>5, <3>6, <3>7, ApplicantMoves
  <2>2. CASE old.step = "count" /\ Moves(a, "bucket")
    <3> DEFINE now == [old EXCEPT !.step = "bucket"]
    <3>1. now \in Applicant /\ now.step = "bucket" /\ now.address = old.address
          /\ now.missing = old.missing /\ now.inserted = old.inserted
      BY <1>0 DEF Applicant
    <3>2. applicant' = [applicant EXCEPT ![a] = now]
      BY <2>2 DEF Moves
    <3> HIDE DEF now
    <3> QED
      BY <1>7, <2>2, <3>1, <3>2 DEF Seeding
  <2> QED
    BY <1>8, <2>1, <2>2 DEF FindBucket, InsertBucket, At
<1>9. CASE LookUpAddress(a)
  <2>1. CASE Moves(a, "read roles")
    <3> DEFINE now == [old EXCEPT !.step = "read roles"]
    <3>1. now \in Applicant /\ now.step = "read roles" /\ now.address = old.address
          /\ now.missing = old.missing /\ now.inserted = old.inserted
      BY <1>0 DEF Applicant
    <3>2. applicant' = [applicant EXCEPT ![a] = now] /\ old.step = "look up"
      BY <1>9, <2>1 DEF Moves, LookUpAddress, At
    <3> HIDE DEF now
    <3> QED
      BY <1>7, <3>1, <3>2 DEF Seeding
  <2> QED
    BY <1>5, <1>9, <2>1 DEF LookUpAddress, TellDuplicate
<1>10. CASE ReadRoles(a)
  <2>1. [old EXCEPT !.step = "seed", !.missing = DefaultRoles \ roleNames] \in Applicant
    BY <1>0 DEF Applicant
  <2>2. PICK now \in Applicant :
          now = [old EXCEPT !.step = "seed", !.missing = DefaultRoles \ roleNames]
    BY <2>1
  <2>3. /\ now.step = "seed" /\ now.address \in Addresses
        /\ now.missing = DefaultRoles \ roleNames /\ now.inserted = {}
    BY <1>0, <1>10, <2>2 DEF Applicant, ReadRoles, At, FineApplicant, Seeding
  <2>4. applicant' = [applicant EXCEPT ![a] = now]
    BY <1>10, <2>2 DEF ReadRoles
  <2>5. FineApplicant(now)'
    BY <1>1, <2>3 DEF FineApplicant, Seeding
  <2> QED
    BY <1>1, <2>3, <2>4, <2>5, ApplicantMoves
\* From the account on, all roles are settled.
<1>11. ASSUME NEW now \in Applicant, applicant' = [applicant EXCEPT ![a] = now],
              Seeding(now), Seeding(old), now.address = old.address,
              old.missing = {}, now.missing = {}, now.inserted = old.inserted,
              now.step = "commit" => now.address \in linksMailed'
       PROVE  applicant' \in [Applicants -> Applicant] /\ ApplicantsInv'
  <2>1. FineApplicant(now)'
    BY <1>0, <1>1, <1>11 DEF FineApplicant, Seeding
  <2> QED
    BY <1>1, <1>11, <2>1, ApplicantMoves DEF Seeding
<1>12. CASE \E step \in {"default", "mail", "commit"} :
              /\ Moves(a, step) /\ Seeding(old) /\ old.missing = {}
              /\ step = "commit" => old.address \in linksMailed'
  <2> PICK step \in {"default", "mail", "commit"} :
              /\ Moves(a, step) /\ Seeding(old) /\ old.missing = {}
              /\ step = "commit" => old.address \in linksMailed'
    BY <1>12
  <2> DEFINE now == [old EXCEPT !.step = step]
  <2>1. /\ now \in Applicant /\ now.step = step /\ now.address = old.address
        /\ now.missing = old.missing /\ now.inserted = old.inserted
    BY <1>0 DEF Applicant
  <2>2. applicant' = [applicant EXCEPT ![a] = now]
    BY DEF Moves
  <2> HIDE DEF now
  <2> QED
    BY <1>11, <2>1, <2>2 DEF Seeding
<1>13. CASE InsertAccount(a)
  BY <1>5, <1>12, <1>13 DEF InsertAccount, TellDuplicate, At, Seeding
<1>14. CASE ReadDefault(a)
  <2> DEFINE now == [old EXCEPT !.agent = assistant,
                                !.step = IF assistant = NoAssistant THEN "mail" ELSE "grant"]
  <2>1. now.step \in {"mail", "grant"}
    BY <1>0 DEF Applicant
  <2>2. /\ now \in Applicant /\ now.address = old.address
        /\ now.missing = old.missing /\ now.inserted = old.inserted
    BY <1>0 DEF Applicant, RegistrationsTypeOK
  <2>3. applicant' = [applicant EXCEPT ![a] = now] /\ old.step = "default"
    BY <1>14 DEF ReadDefault, At
  <2> HIDE DEF now
  <2> QED
    BY <1>0, <1>11, <2>1, <2>2, <2>3 DEF Seeding, FineApplicant
<1>15. CASE InsertGrant(a)
  BY <1>0, <1>12, <1>15 DEF InsertGrant, At, Seeding, FineApplicant
<1>16. CASE MailLink(a)
  BY <1>0, <1>5, <1>12, <1>16 DEF MailLink, At, Seeding, FineApplicant
<1> QED
  BY <1>5, <1>6, <1>8, <1>9, <1>10, <1>13, <1>14, <1>15, <1>16 DEF Vanish

\* The buckets: only one request counts in a window at a time.
LEMMA CommitCountStep ==
    ASSUME RegistrationsTypeOK, TablesInv, ApplicantsInv, NEW a \in Applicants, CommitCount(a)
    PROVE  (RegistrationsTypeOK /\ TablesInv /\ ApplicantsInv)'
<1> DEFINE old == applicant[a]
<1>0. old \in Applicant /\ FineApplicant(old)
  BY DEF RegistrationsTypeOK, ApplicantsInv
<1>1. /\ old.step = "counted" /\ old.window \in Windows /\ old.count = counted[old.window] + 1
      /\ old.address \in Addresses /\ old.inserted = {} /\ old.count \in Nat
  BY <1>0 DEF Applicant, FineApplicant, CommitCount, At, Seeding
<1>2. /\ UNCHANGED <<roleNames, account, hour, assistant, change, arrivals, linksMailed, duplicates>>
      /\ counted' = [counted EXCEPT ![old.window] = old.count]
  BY DEF CommitCount
<1>3. counted' \in [Windows -> Nat]
  BY <1>1, <1>2 DEF RegistrationsTypeOK
<1>4. PICK now \in Applicant :
        /\ applicant' = [applicant EXCEPT ![a] = now]
        /\ ~Seeding(now) /\ now.step # "counted" /\ now.inserted = {}
        /\ now.step # "idle" => now.address \in Addresses
  <2>1. CASE LeavesOff(a)
    BY <2>1, IdleIsFine DEF LeavesOff, FineApplicant, NotRegistering, Seeding
  <2>2. CASE Moves(a, "look up")
    <3>1. [old EXCEPT !.step = "look up"] \in Applicant
      BY <1>0 DEF Applicant
    <3>2. PICK now \in Applicant : now = [old EXCEPT !.step = "look up"]
      BY <3>1
    <3>3. now.step = "look up" /\ now.address = old.address /\ now.inserted = old.inserted
      BY <1>0, <3>2 DEF Applicant
    <3> QED
      BY <1>1, <2>2, <3>2, <3>3 DEF Moves, Seeding
  <2> QED
    BY <2>1, <2>2 DEF CommitCount
<1>5. \A b \in Applicants : applicant'[b] = IF b = a THEN now ELSE applicant[b]
  BY <1>4 DEF RegistrationsTypeOK
<1>6. WithinHourlyLimit'
  <2> SUFFICES ASSUME NEW w \in Windows
               PROVE  admitted'[w] <= HourlyLimit /\ admitted'[w] <= counted'[w]
    BY DEF WithinHourlyLimit
  <2>1. /\ admitted[w] <= HourlyLimit /\ admitted[w] <= counted[w]
        /\ admitted[w] \in Nat /\ counted[w] \in Nat
    BY DEF TablesInv, WithinHourlyLimit, RegistrationsTypeOK
  <2>2. counted'[w] = IF w = old.window THEN counted[w] + 1 ELSE counted[w]
    BY <1>1, <1>2 DEF RegistrationsTypeOK
  <2>3. CASE UNCHANGED admitted
    BY <2>1, <2>2, <2>3, RegistrationsAssumption
  <2>4. CASE /\ old.count <= HourlyLimit
             /\ admitted' = [admitted EXCEPT ![old.window] = @ + 1]
    <3>1. admitted'[w] = IF w = old.window THEN admitted[w] + 1 ELSE admitted[w]
      BY <1>1, <2>4 DEF RegistrationsTypeOK
    <3>2. w = old.window => counted[w] + 1 <= HourlyLimit
      BY <1>1, <2>4
    <3> QED
      BY <2>1, <2>2, <3>1, <3>2, RegistrationsAssumption
  <2> QED
    BY <2>3, <2>4 DEF CommitCount
<1>7. admitted' \in [Windows -> Nat]
  <2>1. admitted' = admitted \/ admitted' = [admitted EXCEPT ![old.window] = @ + 1]
    BY DEF CommitCount
  <2> QED
    BY <1>1, <2>1 DEF RegistrationsTypeOK
<1>8. RegistrationsTypeOK'
  BY <1>2, <1>3, <1>4, <1>7 DEF RegistrationsTypeOK
<1>9. TablesInv'
  BY <1>2, <1>6 DEF TablesInv, AccountsAreWhole, DuplicatesExist, Registered
<1>10. ASSUME NEW b \in Applicants PROVE FineApplicant(applicant[b])'
  <2>1. CASE b = a
    <3>1. FineApplicant(now)'
      BY <1>4 DEF FineApplicant, Seeding
    <3> QED
      BY <1>5, <2>1, <3>1 DEF FineApplicant
  <2>2. CASE b # a
    <3>1. applicant'[b] = applicant[b] /\ FineApplicant(applicant[b])
      BY <1>5, <2>2 DEF ApplicantsInv
    <3>2. At(b, "counted") => applicant[b].window # old.window
      BY <1>1, <2>2 DEF ApplicantsInv, At
    <3>3. applicant[b].window \in Windows
      BY DEF RegistrationsTypeOK, Applicant
    <3>4. applicant[b].window # old.window => counted'[applicant[b].window] = counted[applicant[b].window]
      BY <1>1, <1>2, <3>3 DEF RegistrationsTypeOK
    <3> QED
      BY <1>2, <3>1, <3>2, <3>4 DEF FineApplicant, At, Seeding
  <2> QED
    BY <2>1, <2>2
<1>11. ASSUME NEW b \in Applicants, NEW c \in Applicants, At(b, "counted")', At(c, "counted")',
              applicant'[b].window = applicant'[c].window
       PROVE  b = c
  BY <1>4, <1>5, <1>11 DEF At, ApplicantsInv
<1> QED
  BY <1>8, <1>9, <1>10, <1>11 DEF ApplicantsInv

\* A role is taken in the order of DEFAULT_ROLES: all before it are settled.
LEMMA SeedRoleStep ==
    ASSUME RegistrationsTypeOK, TablesInv, ApplicantsInv, NEW a \in Applicants,
           NEW r \in DefaultRoles, SeedRole(a, r)
    PROVE  (RegistrationsTypeOK /\ TablesInv /\ ApplicantsInv)'
<1> DEFINE old == applicant[a]
<1>0. old \in Applicant /\ FineApplicant(old) /\ old.step = "seed"
  BY DEF RegistrationsTypeOK, ApplicantsInv, SeedRole, At
<1>1. /\ UNCHANGED <<roleNames, account, counted, hour, assistant, change, arrivals, admitted,
                     linksMailed, duplicates>>
      /\ r \in NextRoles(a)
  BY DEF SeedRole
<1>2. PICK more \in SUBSET DefaultRoles :
        /\ old.inserted \subseteq more /\ more \subseteq old.inserted \cup {r}
        /\ r \in roleNames \cup more
        /\ applicant' = [applicant EXCEPT ![a].missing = @ \ {r}, ![a].inserted = more]
  <2>1. old.inserted \subseteq DefaultRoles
    BY <1>0 DEF Applicant
  <2>2. CASE r \in roleNames
    BY <2>1, <2>2 DEF SeedRole
  <2>3. CASE r \notin roleNames
    BY <2>1, <2>3 DEF SeedRole
  <2> QED
    BY <2>2, <2>3
<1>3. [old EXCEPT !.missing = @ \ {r}, !.inserted = more] \in Applicant
  BY <1>0, <1>2 DEF Applicant
<1>4. PICK now \in Applicant : now = [old EXCEPT !.missing = @ \ {r}, !.inserted = more]
  BY <1>3
<1>5. /\ now.step = "seed" /\ now.address = old.address /\ now.missing = old.missing \ {r}
      /\ now.inserted = more
  BY <1>0, <1>4 DEF Applicant
<1>6. applicant' = [applicant EXCEPT ![a] = now]
  BY <1>2, <1>4 DEF RegistrationsTypeOK
<1>7. PICK p \in 1 .. 5 : /\ r = DEFAULT_ROLES[p]
                          /\ \A k \in 1 .. p - 1 : DEFAULT_ROLES[k] \notin old.missing
  BY <1>1, RoleNames DEF NextRoles
<1>8. ASSUME NEW i \in 1 .. 5, NEW j \in 1 .. 5,
             DEFAULT_ROLES[i] \in now.inserted, DEFAULT_ROLES[j] \in now.missing
      PROVE  i < j
  <2>1. DEFAULT_ROLES[j] \in old.missing /\ j # p /\ ~(j \in 1 .. p - 1)
    BY <1>5, <1>7, <1>8
  <2>2. p < j
    BY <2>1
  <2>3. CASE DEFAULT_ROLES[i] \in old.inserted
    BY <1>0, <2>1, <2>3 DEF FineApplicant
  <2>4. CASE DEFAULT_ROLES[i] = r
    BY <1>7, <2>2, <2>4, RoleNames
  <2> QED
    BY <1>2, <1>5, <1>8, <2>3, <2>4
<1>9. DefaultRoles \ now.missing \subseteq roleNames' \cup now.inserted
  BY <1>0, <1>1, <1>2, <1>5 DEF FineApplicant, Seeding
<1>10. now.address \in Addresses
  BY <1>0, <1>5 DEF FineApplicant
<1>11. FineApplicant(now)'
  BY <1>5, <1>8, <1>9, <1>10 DEF FineApplicant, Seeding
<1>12. applicant' \in [Applicants -> Applicant] /\ ApplicantsInv'
  BY <1>1, <1>5, <1>6, <1>11, ApplicantMoves
<1>13. TablesInv'
  BY <1>1 DEF TablesInv, WithinHourlyLimit, AccountsAreWhole, DuplicatesExist, Registered
<1> QED
  BY <1>1, <1>12, <1>13 DEF RegistrationsTypeOK

\* At the commit nothing is missing: the role of the account stands or comes along.
LEMMA CommitRegistrationStep ==
    ASSUME RegistrationsTypeOK, TablesInv, ApplicantsInv, NEW a \in Applicants,
           CommitRegistration(a)
    PROVE  (RegistrationsTypeOK /\ TablesInv /\ ApplicantsInv)'
<1> DEFINE old == applicant[a]
<1>0. old \in Applicant /\ FineApplicant(old) /\ old.step = "commit"
  BY DEF RegistrationsTypeOK, ApplicantsInv, CommitRegistration, At
<1>1. /\ old.address \in Addresses /\ old.address \in linksMailed
      /\ DEFAULT_USER_ROLE \in roleNames \cup old.inserted
  BY <1>0, RoleNames DEF FineApplicant, Seeding
<1>2. /\ roleNames' = roleNames \cup old.inserted
      /\ UNCHANGED <<counted, hour, assistant, change, arrivals, admitted, linksMailed, duplicates>>
      /\ applicant' = [applicant EXCEPT ![a] = NotRegistering]
  BY DEF CommitRegistration, LeavesOff
<1>3. FineApplicant(NotRegistering)' /\ NotRegistering.step # "counted"
  BY DEF NotRegistering, FineApplicant, Seeding
<1>4. applicant' \in [Applicants -> Applicant] /\ ApplicantsInv'
  BY <1>2, <1>3, IdleIsFine, ApplicantMoves
<1> DEFINE whole == [exists |-> TRUE, roles |-> {DEFAULT_USER_ROLE}, grant |-> old.agent]
<1>5. account' = [account EXCEPT ![old.address] = whole]
  BY DEF CommitRegistration
<1>6. /\ whole.exists /\ whole.roles = {DEFAULT_USER_ROLE}
      /\ whole \in [exists : BOOLEAN, roles : SUBSET DefaultRoles,
                    grant : Assistants \cup {NoAssistant}]
  BY <1>0, RoleNames DEF Applicant
<1> HIDE DEF whole
<1>7. account' \in [Addresses -> [exists : BOOLEAN, roles : SUBSET DefaultRoles,
                                  grant : Assistants \cup {NoAssistant}]]
  BY <1>1, <1>5, <1>6 DEF RegistrationsTypeOK
<1>8. \A m \in Addresses : account'[m] = IF m = old.address THEN whole ELSE account[m]
  BY <1>1, <1>5 DEF RegistrationsTypeOK
<1>9. AccountsAreWhole'
  <2> SUFFICES ASSUME NEW m \in Addresses, account'[m].exists
               PROVE  account'[m].roles \subseteq roleNames' /\ m \in linksMailed'
    BY DEF AccountsAreWhole, Registered
  <2>1. CASE m = old.address
    BY <1>1, <1>2, <1>6, <1>8, <2>1
  <2>2. CASE m # old.address
    BY <1>2, <1>8, <2>2 DEF TablesInv, AccountsAreWhole, Registered
  <2> QED
    BY <2>1, <2>2
<1>10. DuplicatesExist'
  <2>1. duplicates \subseteq Addresses /\ \A m \in duplicates : account[m].exists
    BY DEF TablesInv, DuplicatesExist, Registered, RegistrationsTypeOK
  <2> QED
    BY <1>2, <1>6, <1>8, <2>1 DEF DuplicatesExist, Registered
<1>11. WithinHourlyLimit'
  BY <1>2 DEF TablesInv, WithinHourlyLimit
<1>12. roleNames' \subseteq DefaultRoles
  BY <1>0, <1>2 DEF RegistrationsTypeOK, Applicant
<1> QED
  BY <1>2, <1>4, <1>7, <1>9, <1>10, <1>11, <1>12 DEF RegistrationsTypeOK, TablesInv

LEMMA DefaultStep ==
    ASSUME RegistrationsTypeOK, TablesInv, ApplicantsInv,
           \/ NextHour \/ (\E g \in Assistants : LockTarget(g)) \/ LockDefault \/ CommitDefault
           \/ UNCHANGED registrationVars
    PROVE  (RegistrationsTypeOK /\ TablesInv /\ ApplicantsInv)'
<1> USE DEF NextHour, LockTarget, LockDefault, CommitDefault, SameDefault, registrationVars
<1>1. UNCHANGED <<roleNames, account, counted, applicant, arrivals, admitted, linksMailed,
                  duplicates>>
  OBVIOUS
<1>2. hour' = hour \/ (hour < LastHour /\ hour' = hour + 1)
  OBVIOUS
<1>3. hour' \in Windows
  BY <1>2, RegistrationsAssumption DEF RegistrationsTypeOK, Windows
<1>4. /\ assistant' \in Assistants \cup {NoAssistant}
      /\ change' \in [step : {"none", "target", "all"}, target : Assistants \cup {NoAssistant}]
  BY DEF RegistrationsTypeOK
<1> HIDE DEF NextHour, LockTarget, LockDefault, CommitDefault, SameDefault, registrationVars
<1>5. RegistrationsTypeOK'
  BY <1>1, <1>3, <1>4 DEF RegistrationsTypeOK
<1>6. TablesInv'
  BY <1>1 DEF TablesInv, WithinHourlyLimit, AccountsAreWhole, DuplicatesExist, Registered
<1>7. ApplicantsInv'
  BY <1>1 DEF ApplicantsInv, FineApplicant, Seeding, At
<1> QED
  BY <1>5, <1>6, <1>7

LEMMA RegistrationsInvNext ==
    ASSUME RegistrationsTypeOK, TablesInv, ApplicantsInv, [RegistrationsNext]_registrationVars
    PROVE  (RegistrationsTypeOK /\ TablesInv /\ ApplicantsInv)'
<1>1. CASE \/ NextHour \/ (\E g \in Assistants : LockTarget(g)) \/ LockDefault \/ CommitDefault
           \/ UNCHANGED registrationVars
  BY <1>1, DefaultStep
<1>2. ASSUME NEW a \in Applicants,
             \/ \E m \in Addresses : Arrive(a, m)
             \/ FindBucket(a) \/ InsertBucket(a) \/ LookUpAddress(a) \/ ReadRoles(a)
             \/ InsertAccount(a) \/ ReadDefault(a) \/ InsertGrant(a) \/ MailLink(a) \/ Vanish(a)
      PROVE  (RegistrationsTypeOK /\ TablesInv /\ ApplicantsInv)'
  BY <1>2, RequestStep
<1>3. ASSUME NEW a \in Applicants, CommitCount(a)
      PROVE  (RegistrationsTypeOK /\ TablesInv /\ ApplicantsInv)'
  BY <1>3, CommitCountStep
<1>4. ASSUME NEW a \in Applicants, NEW r \in DefaultRoles, SeedRole(a, r)
      PROVE  (RegistrationsTypeOK /\ TablesInv /\ ApplicantsInv)'
  BY <1>4, SeedRoleStep
<1>5. ASSUME NEW a \in Applicants, CommitRegistration(a)
      PROVE  (RegistrationsTypeOK /\ TablesInv /\ ApplicantsInv)'
  BY <1>5, CommitRegistrationStep
<1> QED
  BY <1>1, <1>2, <1>3, <1>4, <1>5 DEF RegistrationsNext

\* The first of the missing roles.
LEMMA SomeRoleIsNext ==
    ASSUME RegistrationsTypeOK, NEW a \in Applicants, applicant[a].missing # {}
    PROVE  \E p \in 1 .. 5 : DEFAULT_ROLES[p] \in NextRoles(a) /\ DEFAULT_ROLES[p] \in applicant[a].missing
<1> DEFINE Missing(i) == DEFAULT_ROLES[i] \in applicant[a].missing
<1>1. \E i \in 1 .. 5 : Missing(i)
  <2>1. applicant[a].missing \subseteq DefaultRoles
    BY DEF RegistrationsTypeOK, Applicant
  <2>2. PICK r \in DefaultRoles : r \in applicant[a].missing
    BY <2>1
  <2> QED
    BY <2>2, RoleNames
<1> HIDE DEF Missing
<1>2. \E p \in 1 .. 5 : Missing(p) /\ \A k \in 1 .. p - 1 : ~Missing(k)
  <2>1. CASE Missing(1)
    BY <2>1
  <2>2. CASE ~Missing(1) /\ Missing(2)
    BY <2>2
  <2>3. CASE ~Missing(1) /\ ~Missing(2) /\ Missing(3)
    BY <2>3
  <2>4. CASE ~Missing(1) /\ ~Missing(2) /\ ~Missing(3) /\ Missing(4)
    BY <2>4
  <2>5. CASE ~Missing(1) /\ ~Missing(2) /\ ~Missing(3) /\ ~Missing(4) /\ Missing(5)
    BY <2>5
  <2> QED
    BY <1>1, <2>1, <2>2, <2>3, <2>4, <2>5
<1> QED
  BY <1>2, RoleNames DEF Missing, NextRoles

\* Who waits for a role waits for one that the other has inserted, and so for one
\* before all the other still misses; a request past the roles waits for no role.
LEMMA NobodyWaitsInACircle ==
    ASSUME RegistrationsTypeOK, ApplicantsInv PROVE NoCircularWait
<1> SUFFICES ASSUME NEW a \in Applicants, NEW b \in Applicants, WaitsFor(a, b), WaitsFor(b, a)
             PROVE  FALSE
  BY DEF NoCircularWait
<1>1. At(a, "seed") /\ At(b, "seed")
  BY DEF WaitsFor
<1>2. ~AccountFlushed(a) /\ ~AccountFlushed(b)
  BY <1>1 DEF AccountFlushed, At
<1>3. /\ applicant[a].missing # {} /\ \A r \in NextRoles(a) : r \in applicant[b].inserted
      /\ applicant[b].missing # {} /\ \A r \in NextRoles(b) : r \in applicant[a].inserted
  BY <1>2 DEF WaitsFor
<1>4. PICK p \in 1 .. 5 : DEFAULT_ROLES[p] \in NextRoles(a) /\ DEFAULT_ROLES[p] \in applicant[a].missing
  BY <1>3, SomeRoleIsNext
<1>5. PICK q \in 1 .. 5 : DEFAULT_ROLES[q] \in NextRoles(b) /\ DEFAULT_ROLES[q] \in applicant[b].missing
  BY <1>3, SomeRoleIsNext
<1>6. p < q
  BY <1>3, <1>4, <1>5 DEF ApplicantsInv, FineApplicant
<1>7. q < p
  BY <1>3, <1>4, <1>5 DEF ApplicantsInv, FineApplicant
<1> QED
  BY <1>6, <1>7

\* However registrations overlap, end and are rolled back: the limit holds, they
\* never wait in a circle for the missing roles, an account has its role and its link,
\* and who is told of a duplicate has an account.
THEOREM RegistrationsAreSafe == RegistrationsSpec => []RegistrationsSafe
<1>1. RegistrationsTypeOK /\ TablesInv /\ ApplicantsInv => RegistrationsSafe
  BY NobodyWaitsInACircle DEF RegistrationsSafe, TablesInv
<1>2. RegistrationsTypeOK /\ TablesInv /\ ApplicantsInv /\ [RegistrationsNext]_registrationVars
        => (RegistrationsTypeOK /\ TablesInv /\ ApplicantsInv)'
  BY RegistrationsInvNext
<1> QED
  BY <1>1, <1>2, RegistrationsInvInit, PTL DEF RegistrationsSpec

-----------------------------------------------------------------------------
(* Sales. The row locks keep apart the requests that write one lead or one *)
(* deal; what a request has read under its lock is true until it commits.  *)

\* A stage that exists belongs to a pipeline that does.
StagesHavePipelines ==
    \A s \in Stages : stageOf[s] # Nothing => stageOf[s] \in pipelines

\* A deal's row fits the catalog: its stage is one of its pipeline's, and its status
\* is the one of that stage, unless the stage has changed its kind since.
DealFits(r) ==
    /\ r.pipeline \in pipelines
    /\ stageOf[r.stage] = r.pipeline
    /\ r.stage \notin recast => r.status = stageKind[r.stage]

DealsStand == \A d \in Standing : DealFits(deal[d])

\* A converted lead has one deal, any other none.
OneDealEach ==
    \A l \in Leads :
       \/ lead[l] = "converted" /\ \E d \in Deals : DealsOf(l) = {d}
       \/ lead[l] # "converted" /\ DealsOf(l) = {}

\* No two requests have locked the same lead or the same deal.
DesksApart ==
    \A j, k \in Clerks : j # k =>
       /\ desk[j].lead = Nothing \/ desk[j].lead # desk[k].lead
       /\ desk[j].deal = Nothing \/ desk[j].deal # desk[k].deal

\* What the lock a request holds still vouches for.
WorkFits(w) ==
    /\ w.op = "move" => w.deal \in Deals /\ deal[w.deal] # Nothing
    /\ w.op \in {"update_lead", "convert", "place"} => w.lead \in Leads
    /\ w.op = "update_lead" => w.status \in LeadStatus /\ w.status = lead[w.lead]
    /\ w.op = "place" => w.pipeline \in Pipelines

DesksFit == \A k \in Clerks : WorkFits(desk[k])

CrmInv == CrmTypeOK /\ StagesHavePipelines /\ DealsStand /\ OneDealEach
          /\ DesksApart /\ DesksFit

LEMMA IdleDesk == NoWork \in Desk
BY DEF NoWork, Desk

LEMMA CrmInvInit == CrmInit => CrmInv
<1> SUFFICES ASSUME CrmInit PROVE CrmInv
  OBVIOUS
<1>2. CrmTypeOK
  BY IdleDesk, CrmAssumption DEF CrmInit, CrmTypeOK, StageKinds
<1>3. Standing = {} /\ \A l : DealsOf(l) = {}
  BY DEF CrmInit, Standing, DealsOf
<1>4. StagesHavePipelines /\ DealsStand /\ OneDealEach
  BY <1>3, CrmAssumption DEF CrmInit, StagesHavePipelines, DealsStand, OneDealEach, LeadStatus
<1>5. DesksApart /\ DesksFit
  BY DEF CrmInit, DesksApart, DesksFit, WorkFits, NoWork
<1> QED
  BY <1>2, <1>4, <1>5 DEF CrmInv

-----------------------------------------------------------------------------
(* Pipelines and stages: nothing a standing deal uses is dropped.          *)

\* The rows of pipelines and stages.
CatalogTypeOK ==
    /\ livePipelines \subseteq pipelines /\ mainPipelines \subseteq pipelines
    /\ pipelines \subseteq Pipelines
    /\ stageOf \in [Stages -> Pipelines \cup {Nothing}]
    /\ stageKind \in [Stages -> StageKinds]
    /\ recast \subseteq Stages /\ edits \in 0 .. MaxEdits

\* What a change of pipelines and stages can disturb.
Catalog == CatalogTypeOK /\ StagesHavePipelines /\ DealsStand

LEMMA EditCounts == ASSUME edits \in 0 .. MaxEdits, Edit PROVE edits' \in 0 .. MaxEdits
BY CrmAssumption DEF Edit

LEMMA DealRow ==
  ASSUME CrmInv, NEW d \in Standing
  PROVE  /\ d \in Deals /\ deal[d] \in Deal /\ DealFits(deal[d]) /\ deal[d].stage \in Stages
         /\ deal[d].pipeline \in Pipelines /\ stageOf[deal[d].stage] # Nothing
BY CrmAssumption DEF CrmInv, CrmTypeOK, DealsStand, DealFits, Standing, Deal

LEMMA PipelineKept ==
  ASSUME CrmInv, NEW p \in Pipelines, NEW main, NEW live, SetPipeline(p, main, live), Edit,
         UNCHANGED <<stageOf, stageKind, recast, deal>>
  PROVE  Catalog'
<1>1. CatalogTypeOK'
  BY EditCounts DEF CrmInv, CrmTypeOK, CatalogTypeOK, SetPipeline, Default
<1>2. StagesHavePipelines' /\ DealsStand'
  BY DEF CrmInv, SetPipeline, StagesHavePipelines, DealsStand, DealFits, Standing
<1> QED
  BY <1>1, <1>2 DEF Catalog

\* Stages no deal stands in may go.
LEMMA StagesDropped ==
  ASSUME CrmInv, NEW S, S \subseteq Stages, ~Referred(S), DropStages(S), Edit,
         pipelines' \subseteq pipelines, deal' = deal,
         livePipelines' \subseteq pipelines', mainPipelines' \subseteq pipelines',
         \A s \in Stages \ S : stageOf[s] \in pipelines => stageOf[s] \in pipelines'
  PROVE  Catalog'
<1>1. CatalogTypeOK'
  <2>1. /\ stageOf' \in [Stages -> Pipelines \cup {Nothing}]
        /\ stageKind' \in [Stages -> StageKinds]
        /\ recast' \subseteq Stages
    BY DEF CrmInv, CrmTypeOK, DropStages, StageKinds
  <2>2. edits' \in 0 .. MaxEdits
    BY EditCounts DEF CrmInv, CrmTypeOK
  <2> QED
    BY <2>1, <2>2 DEF CrmInv, CrmTypeOK, CatalogTypeOK
<1>2. /\ \A s \in S : stageOf'[s] = Nothing
      /\ \A s \in Stages \ S : stageOf'[s] = stageOf[s] /\ stageKind'[s] = stageKind[s]
      /\ recast' = recast \ S
  BY DEF DropStages
<1>3. StagesHavePipelines'
  BY <1>2 DEF CrmInv, StagesHavePipelines
<1>4. ASSUME NEW d \in Standing
      PROVE  /\ deal[d].pipeline \in pipelines'
             /\ stageOf'[deal[d].stage] = deal[d].pipeline
             /\ deal[d].stage \notin recast' => deal[d].status = stageKind'[deal[d].stage]
  <2>1. deal[d].stage \in Stages \ S
    BY DealRow DEF Referred
  <2> QED
    BY <1>2, <2>1 DEF CrmInv, DealsStand, DealFits
<1>5. DealsStand'
  BY <1>4 DEF DealsStand, DealFits, Standing
<1> QED
  BY <1>1, <1>3, <1>5 DEF Catalog

LEMMA StageWritten ==
  ASSUME CrmInv, NEW p \in Pipelines, NEW s \in UnusedStages, NEW kind \in StageKinds,
         stageOf' = [stageOf EXCEPT ![s] = p],
         stageKind' = [stageKind EXCEPT ![s] = kind],
         recast' = recast \ {s}, edits' \in 0 .. MaxEdits,
         pipelines' = pipelines \cup {p},
         livePipelines' \subseteq pipelines', mainPipelines' \subseteq pipelines'
  PROVE  /\ CatalogTypeOK' /\ StagesHavePipelines'
         /\ \A r \in Deal : DealFits(r) => DealFits(r)'
<1>1. s \in Stages /\ stageOf[s] = Nothing
  BY DEF UnusedStages
<1>2. CatalogTypeOK'
  BY <1>1 DEF CrmInv, CrmTypeOK, CatalogTypeOK
<1>3. /\ stageOf'[s] = p /\ stageKind'[s] = kind
      /\ \A t \in Stages \ {s} : stageOf'[t] = stageOf[t] /\ stageKind'[t] = stageKind[t]
  BY <1>1 DEF CrmInv, CrmTypeOK
<1>4. StagesHavePipelines'
  BY <1>3 DEF CrmInv, StagesHavePipelines
<1>5. ASSUME NEW r \in Deal, DealFits(r) PROVE DealFits(r)'
  <2>1. r.stage \in Stages /\ r.pipeline \in Pipelines /\ r.pipeline # Nothing
    BY CrmAssumption DEF Deal
  <2>2. r.stage # s
    BY <1>1, <1>5, <2>1 DEF DealFits
  <2> QED
    BY <1>3, <1>5, <2>1, <2>2 DEF DealFits
<1> QED
  BY <1>2, <1>4, <1>5

LEMMA StageRecast ==
  ASSUME CrmInv, NEW s \in Stages, NEW kind \in StageKinds,
         stageKind' = [stageKind EXCEPT ![s] = kind], recast' = recast \cup {s}, Edit,
         UNCHANGED <<pipelineRows, stageOf, deal>>
  PROVE  Catalog'
<1>1. CatalogTypeOK'
  BY EditCounts DEF CrmInv, CrmTypeOK, CatalogTypeOK, pipelineRows
<1>2. StagesHavePipelines'
  BY DEF CrmInv, StagesHavePipelines, pipelineRows
<1>3. \A t \in Stages \ {s} : stageKind'[t] = stageKind[t]
  BY DEF CrmInv, CrmTypeOK
<1>4. ASSUME NEW d \in Standing
      PROVE  /\ deal[d].pipeline \in pipelines'
             /\ stageOf'[deal[d].stage] = deal[d].pipeline
             /\ deal[d].stage \notin recast' => deal[d].status = stageKind'[deal[d].stage]
  BY <1>3, DealRow DEF CrmInv, DealsStand, DealFits, pipelineRows
<1>5. DealsStand'
  BY <1>4 DEF DealsStand, DealFits, Standing
<1> QED
  BY <1>1, <1>2, <1>5 DEF Catalog

\* The rest of CrmInv does not look at the catalog.
LEMMA CatalogStep ==
  ASSUME CrmInv, Catalog', UNCHANGED <<deal, leadRows, desk>>
  PROVE  CrmInv'
<1>1. CrmTypeOK'
  BY DEF CrmInv, CrmTypeOK, Catalog, CatalogTypeOK, leadRows
<1>2. \A l : DealsOf(l)' = DealsOf(l)
  BY DEF DealsOf, Standing
<1>3. OneDealEach'
  BY <1>2 DEF CrmInv, OneDealEach, leadRows
<1>4. DesksApart' /\ DesksFit'
  BY DEF CrmInv, DesksApart, DesksFit, WorkFits, leadRows
<1> QED
  BY <1>1, <1>3, <1>4 DEF CrmInv, Catalog

LEMMA CatalogActions ==
  ASSUME CrmInv, NEW k \in Clerks,
         \/ \E p \in Pipelines, main, live \in BOOLEAN :
              CreatePipeline(k, p, main, live) \/ UpdatePipeline(k, p, main, live)
         \/ \E p \in Pipelines : DeletePipeline(k, p)
         \/ \E s \in Stages, kind \in StageKinds :
              UpdateStage(k, s, kind) \/ \E p \in Pipelines : CreateStage(k, p, s, kind)
         \/ \E s \in Stages : DeleteStage(k, s)
  PROVE  CrmInv'
<1>1. ASSUME NEW p \in Pipelines, NEW main \in BOOLEAN, NEW live \in BOOLEAN,
             CreatePipeline(k, p, main, live) \/ UpdatePipeline(k, p, main, live)
      PROVE  CrmInv'
  <2>1. /\ SetPipeline(p, main, live) /\ Edit
        /\ UNCHANGED <<stageOf, stageKind, recast, deal, leadRows, desk>>
    BY <1>1 DEF CreatePipeline, UpdatePipeline
  <2> QED
    BY <2>1, PipelineKept, CatalogStep
<1>2. ASSUME NEW p \in Pipelines, DeletePipeline(k, p) PROVE CrmInv'
  <2> DEFINE S == StagesIn(p)
  <2>1. /\ p \in pipelines \ mainPipelines /\ ~Referred(S) /\ DropStages(S) /\ Edit
        /\ pipelines' = pipelines \ {p} /\ livePipelines' = livePipelines \ {p}
        /\ UNCHANGED <<mainPipelines, deal, leadRows, desk>>
    BY <1>2 DEF DeletePipeline
  <2>2. S \subseteq Stages /\ \A s \in Stages \ S : stageOf[s] # p
    BY DEF StagesIn
  <2>3. /\ pipelines' \subseteq pipelines
        /\ livePipelines' \subseteq pipelines' /\ mainPipelines' \subseteq pipelines'
        /\ \A s \in Stages \ S : stageOf[s] \in pipelines => stageOf[s] \in pipelines'
    BY <2>1, <2>2 DEF CrmInv, CrmTypeOK
  <2> HIDE DEF S
  <2>4. Catalog'
    BY <2>1, <2>2, <2>3, StagesDropped
  <2> QED
    BY <2>1, <2>4, CatalogStep
<1>3. ASSUME NEW s \in Stages, NEW kind \in StageKinds, UpdateStage(k, s, kind) PROVE CrmInv'
  <2>1. /\ stageKind' = [stageKind EXCEPT ![s] = kind] /\ recast' = recast \cup {s} /\ Edit
        /\ UNCHANGED <<pipelineRows, stageOf, deal, leadRows, desk>>
    BY <1>3 DEF UpdateStage
  <2> QED
    BY <2>1, StageRecast, CatalogStep
<1>4. ASSUME NEW s \in Stages, NEW kind \in StageKinds, NEW p \in Pipelines,
             CreateStage(k, p, s, kind)
      PROVE  CrmInv'
  <2>1. /\ p \in pipelines /\ s \in UnusedStages
        /\ stageOf' = [stageOf EXCEPT ![s] = p]
        /\ stageKind' = [stageKind EXCEPT ![s] = kind]
        /\ recast' = recast \ {s} /\ Edit
        /\ UNCHANGED <<pipelineRows, deal, leadRows, desk>>
    BY <1>4 DEF CreateStage, FirstOf
  <2>2. edits' \in 0 .. MaxEdits
    BY <2>1, EditCounts DEF CrmInv, CrmTypeOK
  <2>3. pipelines' = pipelines \cup {p}
        /\ livePipelines' \subseteq pipelines' /\ mainPipelines' \subseteq pipelines'
    BY <2>1 DEF CrmInv, CrmTypeOK, pipelineRows
  <2>4. /\ CatalogTypeOK' /\ StagesHavePipelines'
        /\ \A r \in Deal : DealFits(r) => DealFits(r)'
    BY <2>1, <2>2, <2>3, StageWritten
  <2>5. DealsStand'
    <3>1. Standing' = Standing
      BY <2>1 DEF Standing
    <3> QED
      BY <2>1, <2>4, <3>1, DealRow DEF DealsStand
  <2> QED
    BY <2>1, <2>4, <2>5, CatalogStep DEF Catalog
<1>5. ASSUME NEW s \in Stages, DeleteStage(k, s) PROVE CrmInv'
  <2> DEFINE S == {s}
  <2>1. /\ ~Referred(S) /\ DropStages(S) /\ Edit /\ S \subseteq Stages
        /\ UNCHANGED <<pipelineRows, deal, leadRows, desk>>
    BY <1>5 DEF DeleteStage
  <2>2. /\ pipelines' \subseteq pipelines
        /\ livePipelines' \subseteq pipelines' /\ mainPipelines' \subseteq pipelines'
        /\ \A t \in Stages \ S : stageOf[t] \in pipelines => stageOf[t] \in pipelines'
    BY <2>1 DEF CrmInv, CrmTypeOK, pipelineRows
  <2> HIDE DEF S
  <2>3. Catalog'
    BY <2>1, <2>2, StagesDropped
  <2> QED
    BY <2>1, <2>3, CatalogStep
<1> QED
  BY <1>1, <1>2, <1>3, <1>4, <1>5

-----------------------------------------------------------------------------
(* Deals: one that is written fits the catalog it was checked against.     *)

\* A deal is written where the catalog has room for it.
LEMMA DealWritten ==
  ASSUME CrmInv, NEW d \in Deals, NEW r \in Deal, deal' = [deal EXCEPT ![d] = r],
         CatalogTypeOK', StagesHavePipelines', DealFits(r)',
         \A q \in Deal : DealFits(q) => DealFits(q)'
  PROVE  /\ Catalog' /\ deal' \in [Deals -> Deal \cup {Nothing}]
         /\ Standing' = Standing \cup {d} /\ deal'[d] = r
         /\ \A e \in Deals \ {d} : deal'[e] = deal[e]
<1>1. /\ deal' \in [Deals -> Deal \cup {Nothing}] /\ deal'[d] = r
      /\ \A e \in Deals \ {d} : deal'[e] = deal[e]
  BY DEF CrmInv, CrmTypeOK
<1>2. Standing' = Standing \cup {d}
  BY <1>1, CrmAssumption DEF Standing
<1>3. ASSUME NEW e \in Standing' PROVE DealFits(deal[e])'
  <2>1. CASE e = d
    BY <1>1, <2>1
  <2>2. CASE e # d
    <3>1. e \in Standing /\ deal'[e] = deal[e]
      BY <1>1, <1>2, <2>2 DEF Standing
    <3> QED
      BY <3>1, DealRow
  <2> QED
    BY <2>1, <2>2
<1> QED
  BY <1>1, <1>2, <1>3 DEF Catalog, DealsStand

\* A deal that keeps its lead, or a new one without.
LEMMA DealStep ==
  ASSUME CrmInv, NEW d \in Deals, NEW r \in Deal, deal' = [deal EXCEPT ![d] = r],
         DealFits(r), r.lead = (IF d \in Standing THEN deal[d].lead ELSE Nothing),
         UNCHANGED <<pipelineRows, stageRows, leadRows>>,
         \/ desk' = desk
         \/ \E k \in Clerks : Leave(k)
  PROVE  CrmInv'
<1>1. CatalogTypeOK' /\ StagesHavePipelines' /\ \A q \in Deal : DealFits(q) <=> DealFits(q)'
  BY DEF CrmInv, CrmTypeOK, CatalogTypeOK, StagesHavePipelines, DealFits, pipelineRows, stageRows
<1>2. /\ Catalog' /\ deal' \in [Deals -> Deal \cup {Nothing}]
      /\ Standing' = Standing \cup {d} /\ deal'[d] = r
      /\ \A e \in Deals \ {d} : deal'[e] = deal[e]
  BY <1>1, DealWritten
<1>3. \A l \in Leads : DealsOf(l)' = DealsOf(l)
  <2>1. Nothing \notin Leads
    BY CrmAssumption
  <2> QED
    BY <1>2, <2>1 DEF DealsOf, Standing
<1>4. OneDealEach'
  BY <1>3 DEF CrmInv, OneDealEach, leadRows
<1>5. \A e \in Deals : deal[e] # Nothing => deal'[e] # Nothing
  BY <1>2, CrmAssumption
<1>6. desk' \in [Clerks -> Desk] /\ \A j \in Clerks : desk'[j] = desk[j] \/ desk'[j] = NoWork
  <2>1. CASE desk' = desk
    BY <2>1 DEF CrmInv, CrmTypeOK
  <2>2. ASSUME NEW k \in Clerks, Leave(k)
        PROVE  desk' \in [Clerks -> Desk]
               /\ \A j \in Clerks : desk'[j] = desk[j] \/ desk'[j] = NoWork
    BY <2>2, IdleDesk DEF CrmInv, CrmTypeOK, Leave
  <2> QED
    BY <2>1, <2>2
<1>7. DesksApart'
  BY <1>6, CrmAssumption DEF CrmInv, DesksApart, NoWork
<1>8. DesksFit'
  BY <1>5, <1>6 DEF CrmInv, DesksFit, WorkFits, NoWork, leadRows
<1>9. CrmTypeOK'
  BY <1>2, <1>6 DEF CrmInv, CrmTypeOK, Catalog, CatalogTypeOK, leadRows
<1> QED
  BY <1>2, <1>4, <1>7, <1>8, <1>9 DEF CrmInv, Catalog

LEMMA DealActions ==
  ASSUME CrmInv, NEW k \in Clerks,
         \/ \E s \in Stages : \/ UpdateDeal(k, s) \/ MoveDealStage(k, s)
                             \/ \E d \in Deals : CreateDeal(k, d, s)
         \/ \E d \in Deals : ArchiveDeal(k, d)
  PROVE  CrmInv'
<1>1. ASSUME NEW s \in Stages, NEW d \in Deals, CreateDeal(k, d, s) PROVE CrmInv'
  <2> DEFINE r == NewDeal(s, Nothing)
  <2>1. /\ s \notin UnusedStages /\ d \notin Standing /\ deal' = [deal EXCEPT ![d] = r]
        /\ UNCHANGED <<pipelineRows, stageRows, leadRows, desk>>
    BY <1>1 DEF CreateDeal, StageLocked, FirstOf
  <2>2. stageOf[s] \in pipelines /\ pipelines \subseteq Pipelines /\ stageKind[s] \in StageKinds
    BY <2>1 DEF UnusedStages, CrmInv, CrmTypeOK, StagesHavePipelines
  <2>3. r \in Deal /\ DealFits(r) /\ r.lead = Nothing
    BY <2>2 DEF NewDeal, Deal, DealFits
  <2> HIDE DEF r
  <2> QED
    BY <2>1, <2>3, DealStep
<1>2. ASSUME NEW s \in Stages, PutIn(k, s) PROVE CrmInv'
  <2>1. PICK d \in Deals : d = desk[k].deal /\ deal[d] # Nothing
    BY <1>2 DEF PutIn, CrmInv, DesksFit, WorkFits
  <2>2. PICK old \in Deal : old = deal[d]
    BY <2>1 DEF CrmInv, CrmTypeOK
  <2> DEFINE r == [old EXCEPT !.stage = s, !.pipeline = stageOf[s], !.status = stageKind[s]]
  <2>3. s \notin UnusedStages /\ deal' = [deal EXCEPT ![d] = r] /\ Leave(k)
        /\ UNCHANGED <<pipelineRows, stageRows, leadRows>>
    BY <1>2, <2>1, <2>2 DEF PutIn, StageLocked
  <2>4. stageOf[s] \in pipelines /\ pipelines \subseteq Pipelines /\ stageKind[s] \in StageKinds
    BY <2>3 DEF UnusedStages, CrmInv, CrmTypeOK, StagesHavePipelines
  <2>5. r \in Deal /\ r.stage = s /\ r.pipeline = stageOf[s] /\ r.status = stageKind[s]
        /\ r.lead = old.lead
    BY <2>4 DEF Deal
  <2> HIDE DEF r
  <2>6. DealFits(r)
    BY <2>4, <2>5 DEF DealFits
  <2>7. d \in Standing
    BY <2>1 DEF Standing
  <2> QED
    BY <2>2, <2>3, <2>5, <2>6, <2>7, DealStep
<1>3. ASSUME NEW d \in Deals, ArchiveDeal(k, d) PROVE CrmInv'
  <2>1. PICK old \in Deal : old = deal[d] /\ d \in Standing /\ DealFits(old)
    BY <1>3, DealRow DEF ArchiveDeal
  <2> DEFINE r == [old EXCEPT !.archived = TRUE]
  <2>2. deal' = [deal EXCEPT ![d] = r] /\ UNCHANGED <<pipelineRows, stageRows, leadRows, desk>>
    BY <1>3, <2>1 DEF ArchiveDeal
  <2>3. r \in Deal /\ r.stage = old.stage /\ r.pipeline = old.pipeline /\ r.status = old.status
        /\ r.lead = old.lead
    BY DEF Deal
  <2> HIDE DEF r
  <2>4. DealFits(r)
    BY <2>1, <2>3 DEF DealFits
  <2> QED
    BY <2>1, <2>2, <2>3, <2>4, DealStep
<1> QED
  BY <1>1, <1>2, <1>3 DEF UpdateDeal, MoveDealStage

-----------------------------------------------------------------------------
(* Requests and leads.                                                     *)

\* A request takes up work on a record no other request has locked, or drops it.
LEMMA DeskTaken ==
  ASSUME CrmInv, NEW k \in Clerks, NEW w \in Desk, Take(k, w), WorkFits(w),
         w.lead = Nothing \/ LeadFree(k, w.lead),
         w.deal = Nothing \/ DealFree(k, w.deal),
         UNCHANGED <<pipelineRows, stageRows, deal, leadRows>>
  PROVE  CrmInv'
<1>1. /\ desk' \in [Clerks -> Desk] /\ desk'[k] = w
      /\ \A j \in Clerks \ {k} : desk'[j] = desk[j]
  BY DEF Take, CrmInv, CrmTypeOK
<1>2. DesksApart'
  BY <1>1 DEF CrmInv, DesksApart, LeadFree, DealFree
<1>3. \A v : WorkFits(v)' <=> WorkFits(v)
  BY DEF WorkFits, leadRows
<1>4. DesksFit'
  BY <1>1, <1>3 DEF CrmInv, DesksFit, WorkFits, leadRows
<1>5. \A l : DealsOf(l)' = DealsOf(l)
  BY DEF DealsOf, Standing
<1>6. OneDealEach'
  BY <1>5 DEF CrmInv, OneDealEach, leadRows
<1>7. CrmTypeOK' /\ StagesHavePipelines' /\ DealsStand'
  BY <1>1 DEF CrmInv, CrmTypeOK, StagesHavePipelines, DealsStand, DealFits, Standing,
              pipelineRows, stageRows, leadRows
<1> QED
  BY <1>2, <1>4, <1>6, <1>7 DEF CrmInv

LEMMA DeskActions ==
  ASSUME CrmInv, NEW k \in Clerks,
         \/ \E d \in Deals : LockDeal(k, d)
         \/ \E l \in Leads : BeginUpdateLead(k, l) \/ BeginConvertLead(k, l)
         \/ \E p \in Pipelines : UsePipeline(k, p) \/ UseNewPipeline(k, p)
         \/ CrmRollBack(k)
  PROVE  CrmInv'
<1>1. ASSUME NEW d \in Deals, LockDeal(k, d) PROVE CrmInv'
  <2> DEFINE w == [NoWork EXCEPT !.op = "move", !.deal = d]
  <2>1. /\ deal[d] # Nothing /\ DealFree(k, d) /\ Take(k, w)
        /\ UNCHANGED <<pipelineRows, stageRows, deal, leadRows>>
    BY <1>1 DEF LockDeal, Standing
  <2>2. w \in Desk /\ w.op = "move" /\ w.deal = d /\ w.lead = Nothing
    BY DEF NoWork, Desk
  <2> HIDE DEF w
  <2>3. WorkFits(w)
    BY <2>1, <2>2 DEF WorkFits
  <2> QED
    BY <2>1, <2>2, <2>3, DeskTaken
<1>2. ASSUME NEW l \in Leads, NEW op \in {"update_lead", "convert"}, LockLead(k, l, op)
      PROVE  CrmInv'
  <2> DEFINE w == [NoWork EXCEPT !.op = op, !.lead = l, !.status = lead[l]]
  <2>1. /\ lead[l] # Nothing /\ LeadFree(k, l) /\ Take(k, w)
        /\ UNCHANGED <<pipelineRows, stageRows, deal, leadRows>>
    BY <1>2 DEF LockLead, LeadMutable
  <2>2. lead[l] \in LeadStatus
    BY <2>1 DEF CrmInv, CrmTypeOK
  <2>3. w \in Desk /\ w.op = op /\ w.lead = l /\ w.status = lead[l] /\ w.deal = Nothing
    BY <2>2 DEF NoWork, Desk
  <2> HIDE DEF w
  <2>4. WorkFits(w)
    BY <2>2, <2>3 DEF WorkFits
  <2> QED
    BY <2>1, <2>3, <2>4, DeskTaken
<1>3. ASSUME NEW p \in Pipelines, NEW fresh \in BOOLEAN, ChoosePipeline(k, p, fresh)
      PROVE  CrmInv'
  <2>1. PICK old \in Desk : old = desk[k]
    BY DEF CrmInv, CrmTypeOK
  <2> DEFINE w == [old EXCEPT !.op = "place", !.pipeline = p, !.fresh = fresh]
  <2>2. /\ old.op = "convert" /\ Take(k, w)
        /\ UNCHANGED <<pipelineRows, stageRows, deal, leadRows>>
    BY <1>3, <2>1 DEF ChoosePipeline
  <2>3. /\ w \in Desk /\ w.op = "place" /\ w.lead = old.lead /\ w.deal = old.deal
        /\ w.pipeline = p
    BY DEF Desk
  <2> HIDE DEF w
  <2>4. WorkFits(w)
    BY <2>1, <2>2, <2>3 DEF CrmInv, DesksFit, WorkFits
  <2>5. /\ w.lead = Nothing \/ LeadFree(k, w.lead)
        /\ w.deal = Nothing \/ DealFree(k, w.deal)
    BY <2>1, <2>3 DEF CrmInv, DesksApart, LeadFree, DealFree
  <2> QED
    BY <2>2, <2>3, <2>4, <2>5, DeskTaken
<1>4. CASE CrmRollBack(k)
  <2>1. Take(k, NoWork) /\ UNCHANGED <<pipelineRows, stageRows, deal, leadRows>>
    BY <1>4 DEF CrmRollBack, Leave, Take
  <2>2. WorkFits(NoWork) /\ NoWork.lead = Nothing /\ NoWork.deal = Nothing
    BY DEF NoWork, WorkFits
  <2> QED
    BY <2>1, <2>2, IdleDesk, DeskTaken
<1> QED
  BY <1>1, <1>2, <1>3, <1>4
     DEF BeginUpdateLead, BeginConvertLead, UsePipeline, UseNewPipeline

\* A lead that is not converted gets a status other than that.
LEMMA LeadStep ==
  ASSUME CrmInv, NEW k \in Clerks, NEW l \in Leads, NEW status \in LeadStatus,
         status # "converted", lead[l] # "converted",
         lead' = [lead EXCEPT ![l] = status],
         \/ lead[l] = Nothing /\ desk' = desk
         \/ desk[k].lead = l /\ Leave(k),
         UNCHANGED <<pipelineRows, stageRows, deal, shelved>>
  PROVE  CrmInv'
<1>1. /\ lead' \in [Leads -> LeadStatus \cup {Nothing}] /\ lead'[l] = status
      /\ \A m \in Leads \ {l} : lead'[m] = lead[m]
  BY DEF CrmInv, CrmTypeOK
<1>2. \A m : DealsOf(m)' = DealsOf(m)
  BY DEF DealsOf, Standing
<1>3. OneDealEach'
  BY <1>1, <1>2 DEF CrmInv, OneDealEach
<1>4. /\ desk' \in [Clerks -> Desk]
      /\ \A j \in Clerks : \/ desk'[j] = NoWork
                           \/ desk'[j] = desk[j] /\ (j # k \/ lead[l] = Nothing)
      /\ lead[l] = Nothing \/ desk[k].lead = l
  <2>1. CASE lead[l] = Nothing /\ desk' = desk
    BY <2>1 DEF CrmInv, CrmTypeOK
  <2>2. CASE desk[k].lead = l /\ Leave(k)
    BY <2>2, IdleDesk DEF CrmInv, CrmTypeOK, Leave
  <2> QED
    BY <2>1, <2>2
<1>5. DesksApart'
  BY <1>4, CrmAssumption DEF CrmInv, DesksApart, NoWork
<1>6. ASSUME NEW j \in Clerks PROVE WorkFits(desk[j])'
  <2>1. CASE desk'[j] = NoWork
    BY <2>1 DEF WorkFits, NoWork
  <2>2. CASE desk'[j] = desk[j] /\ (j # k \/ lead[l] = Nothing)
    <3>1. WorkFits(desk[j])
      BY DEF CrmInv, DesksFit
    <3>2. desk[j].op = "update_lead" => desk[j].lead # l
      <4>1. CASE lead[l] = Nothing
        BY <3>1, <4>1, CrmAssumption DEF WorkFits
      <4>2. CASE desk[k].lead = l /\ j # k
        BY <4>2, CrmAssumption DEF CrmInv, DesksApart
      <4> QED
        BY <1>4, <2>2, <4>1, <4>2
    <3> QED
      BY <1>1, <2>2, <3>1, <3>2 DEF WorkFits
  <2> QED
    BY <1>4, <2>1, <2>2
<1>7. CrmTypeOK' /\ StagesHavePipelines' /\ DealsStand'
  BY <1>1, <1>4 DEF CrmInv, CrmTypeOK, StagesHavePipelines, DealsStand, DealFits, Standing,
              pipelineRows, stageRows
<1> QED
  BY <1>3, <1>5, <1>6, <1>7 DEF CrmInv, DesksFit

LEMMA LeadActions ==
  ASSUME CrmInv, NEW k \in Clerks,
         \/ \E l \in Leads : \/ ArchiveLead(k, l)
                            \/ \E status \in Statuses : CreateLead(k, l, status)
         \/ \E status \in Statuses : UpdateLead(k, status)
  PROVE  CrmInv'
<1>1. ASSUME NEW l \in Leads, NEW status \in Statuses, CreateLead(k, l, status) PROVE CrmInv'
  <2>1. status \in LeadStatus /\ lead[l] # "converted"
    BY <1>1, CrmAssumption DEF CreateLead, LeadStatus
  <2> QED
    BY <1>1, <2>1, LeadStep DEF CreateLead
<1>2. ASSUME NEW status \in Statuses, UpdateLead(k, status) PROVE CrmInv'
  <2>1. PICK w \in Desk : w = desk[k]
    BY DEF CrmInv, CrmTypeOK
  <2>2. /\ w.op = "update_lead" /\ status \in LEAD_TRANSITIONS[w.status]
        /\ lead' = [lead EXCEPT ![w.lead] = status] /\ Leave(k)
        /\ UNCHANGED <<pipelineRows, stageRows, deal, shelved>>
    BY <1>2, <2>1 DEF UpdateLead
  <2>3. w.lead \in Leads /\ w.status \in LeadStatus /\ w.status = lead[w.lead]
    BY <2>1, <2>2 DEF CrmInv, DesksFit, WorkFits
  <2>4. w.status # "converted" /\ status # "converted" /\ status \in LeadStatus
    BY <2>2, <2>3 DEF LEAD_TRANSITIONS, LeadStatus
  <2> QED
    BY <2>1, <2>2, <2>3, <2>4, LeadStep
<1>3. ASSUME NEW l \in Leads, ArchiveLead(k, l) PROVE CrmInv'
  <2>1. /\ shelved' = shelved \cup {l}
        /\ UNCHANGED <<pipelineRows, stageRows, deal, lead, desk>>
    BY <1>3 DEF ArchiveLead
  <2>2. \A m : DealsOf(m)' = DealsOf(m)
    BY <2>1 DEF DealsOf, Standing
  <2>3. OneDealEach' /\ DesksApart' /\ DesksFit'
    BY <2>1, <2>2 DEF CrmInv, OneDealEach, DesksApart, DesksFit, WorkFits
  <2>4. CrmTypeOK' /\ StagesHavePipelines' /\ DealsStand'
    BY <2>1 DEF CrmInv, CrmTypeOK, StagesHavePipelines, DealsStand, DealFits, Standing,
                pipelineRows, stageRows
  <2> QED
    BY <2>3, <2>4 DEF CrmInv
<1> QED
  BY <1>1, <1>2, <1>3

LEMMA ConversionStep ==
  ASSUME CrmInv, NEW k \in Clerks, NEW d \in Deals, NEW s \in Stages, ConvertLead(k, d, s)
  PROVE  CrmInv'
<1>1. PICK w \in Desk : w = desk[k]
  BY DEF CrmInv, CrmTypeOK
<1> DEFINE l == w.lead
           p == w.pipeline
           r == [stage |-> s, pipeline |-> p, status |-> "open", lead |-> l, archived |-> FALSE]
<1>2. /\ w.op = "place" /\ d \notin Standing /\ DealsOf(l) = {}
      /\ deal' = [deal EXCEPT ![d] = r]
      /\ lead' = [lead EXCEPT ![l] = "converted"]
      /\ Leave(k) /\ shelved' = shelved
  BY <1>1 DEF ConvertLead, FirstOf
<1>3. l \in Leads /\ p \in Pipelines
  BY <1>1, <1>2 DEF CrmInv, DesksFit, WorkFits
<1>4. r \in Deal
  BY <1>3 DEF Deal, StageKinds
<1>5. /\ r.stage = s /\ r.pipeline = p /\ r.status = "open" /\ r.lead = l
  OBVIOUS
<1>6. \/ /\ s \in UnusedStages /\ pipelines' = pipelines \cup {p}
         /\ mainPipelines' = mainPipelines \cup {p} /\ livePipelines' = livePipelines \cup {p}
         /\ stageOf' = [stageOf EXCEPT ![s] = p]
         /\ stageKind' = [stageKind EXCEPT ![s] = "open"]
         /\ recast' = recast \ {s} /\ edits' = edits
      \/ /\ stageOf[s] = p /\ stageKind[s] = "open"
         /\ UNCHANGED <<pipelineRows, stageRows>>
  BY <1>1 DEF ConvertLead, FirstOf
<1> HIDE DEF r
<1>7. /\ CatalogTypeOK' /\ StagesHavePipelines' /\ DealFits(r)'
      /\ \A q \in Deal : DealFits(q) => DealFits(q)'
  <2>1. CASE /\ s \in UnusedStages /\ pipelines' = pipelines \cup {p}
             /\ mainPipelines' = mainPipelines \cup {p} /\ livePipelines' = livePipelines \cup {p}
             /\ stageOf' = [stageOf EXCEPT ![s] = p]
             /\ stageKind' = [stageKind EXCEPT ![s] = "open"]
             /\ recast' = recast \ {s} /\ edits' = edits
    <3>1. edits' \in 0 .. MaxEdits /\ "open" \in StageKinds
          /\ livePipelines' \subseteq pipelines' /\ mainPipelines' \subseteq pipelines'
      BY <2>1 DEF CrmInv, CrmTypeOK, StageKinds
    <3>2. /\ CatalogTypeOK' /\ StagesHavePipelines'
          /\ \A q \in Deal : DealFits(q) => DealFits(q)'
      BY <1>3, <2>1, <3>1, StageWritten
    <3>3. stageOf'[s] = p /\ stageKind'[s] = "open"
      BY <2>1 DEF CrmInv, CrmTypeOK
    <3>4. DealFits(r)'
      BY <1>5, <2>1, <3>3 DEF DealFits
    <3> QED
      BY <3>2, <3>4
  <2>2. CASE /\ stageOf[s] = p /\ stageKind[s] = "open"
             /\ UNCHANGED <<pipelineRows, stageRows>>
    <3>1. /\ CatalogTypeOK' /\ StagesHavePipelines'
          /\ \A q \in Deal : DealFits(q) => DealFits(q)'
      BY <2>2 DEF CrmInv, CrmTypeOK, CatalogTypeOK, StagesHavePipelines, DealFits,
                  pipelineRows, stageRows
    <3>2. p \in pipelines
      BY <1>3, <2>2, CrmAssumption DEF CrmInv, StagesHavePipelines
    <3>3. DealFits(r)'
      BY <1>5, <2>2, <3>2 DEF DealFits, pipelineRows, stageRows
    <3> QED
      BY <3>1, <3>3
  <2> QED
    BY <1>6, <2>1, <2>2
<1>8. /\ Catalog' /\ deal' \in [Deals -> Deal \cup {Nothing}]
      /\ Standing' = Standing \cup {d} /\ deal'[d] = r
      /\ \A e \in Deals \ {d} : deal'[e] = deal[e]
  BY <1>2, <1>4, <1>7, DealWritten
<1>9. /\ lead' \in [Leads -> LeadStatus \cup {Nothing}] /\ lead'[l] = "converted"
      /\ \A m \in Leads \ {l} : lead'[m] = lead[m]
  BY <1>2, <1>3 DEF CrmInv, CrmTypeOK, LeadStatus
<1>10. /\ DealsOf(l)' = {d}
       /\ \A m \in Leads \ {l} : DealsOf(m)' = DealsOf(m)
  <2>1. /\ DealsOf(l)' = DealsOf(l) \cup {d}
        /\ \A m \in Leads \ {l} : DealsOf(m)' = DealsOf(m)
    BY <1>2, <1>5, <1>8 DEF DealsOf, Standing
  <2> QED
    BY <1>2, <2>1
<1>11. OneDealEach'
  BY <1>9, <1>10 DEF CrmInv, OneDealEach
<1>12. /\ desk' \in [Clerks -> Desk] /\ desk'[k] = NoWork
       /\ \A j \in Clerks \ {k} : desk'[j] = desk[j]
  BY <1>2, IdleDesk DEF CrmInv, CrmTypeOK, Leave
<1>13. DesksApart'
  BY <1>12, CrmAssumption DEF CrmInv, DesksApart, NoWork
<1>14. ASSUME NEW j \in Clerks PROVE WorkFits(desk[j])'
  <2>1. CASE j = k
    BY <1>12, <2>1 DEF WorkFits, NoWork
  <2>2. CASE j # k
    <3>1. WorkFits(desk[j]) /\ desk[j].lead # l /\ desk'[j] = desk[j]
      BY <1>1, <1>3, <1>12, <2>2, CrmAssumption DEF CrmInv, DesksFit, DesksApart
    <3>2. \A e \in Deals : deal[e] # Nothing => deal'[e] # Nothing
      BY <1>4, <1>8, CrmAssumption
    <3> QED
      BY <1>9, <3>1, <3>2 DEF WorkFits
  <2> QED
    BY <2>1, <2>2
<1>15. CrmTypeOK'
  BY <1>2, <1>8, <1>9, <1>12 DEF CrmInv, CrmTypeOK, Catalog, CatalogTypeOK
<1> QED
  BY <1>8, <1>11, <1>13, <1>14, <1>15 DEF CrmInv, Catalog, DesksFit

LEMMA CrmInvStep == CrmInv /\ [CrmNext]_crmVars => CrmInv'
<1> SUFFICES ASSUME CrmInv, [CrmNext]_crmVars PROVE CrmInv'
  OBVIOUS
<1>1. ASSUME NEW k \in Clerks, NEW s \in Stages, NEW d \in Deals, ConvertLead(k, d, s)
      PROVE  CrmInv'
  BY <1>1, ConversionStep
<1>2. CASE UNCHANGED crmVars
  <2>1. UNCHANGED <<pipelineRows, stageRows, deal, leadRows, desk>>
    BY <1>2 DEF crmVars
  <2>2. Catalog'
    BY <2>1 DEF Catalog, CrmInv, CrmTypeOK, CatalogTypeOK, StagesHavePipelines, DealsStand,
                DealFits, Standing, pipelineRows, stageRows
  <2> QED
    BY <2>1, <2>2, CatalogStep
<1> QED
  BY <1>1, <1>2, CatalogActions, DealActions, DeskActions, LeadActions DEF CrmNext

\* The facts of the invariant in the words of the properties.
LEMMA CrmInvSafe == CrmInv => CrmSafe
<1> SUFFICES ASSUME CrmInv PROVE CrmSafe
  OBVIOUS
<1>1. ConvertedOnce
  <2> SUFFICES ASSUME NEW l \in Leads
               PROVE  Cardinality(DealsOf(l)) = IF lead[l] = "converted" THEN 1 ELSE 0
    BY DEF ConvertedOnce
  <2>1. ASSUME NEW d \in Deals, DealsOf(l) = {d} PROVE Cardinality(DealsOf(l)) = 1
    BY <2>1, FS_Singleton
  <2>2. ASSUME DealsOf(l) = {} PROVE Cardinality(DealsOf(l)) = 0
    BY <2>2, FS_EmptySet
  <2> QED
    BY <2>1, <2>2 DEF CrmInv, OneDealEach
<1>2. DealsStandInStages /\ StatusFollowsStage
  BY DEF CrmInv, DealsStand, DealFits, DealsStandInStages, StatusFollowsStage
<1> QED
  BY <1>1, <1>2 DEF CrmInv, CrmSafe

(* However many requests move deals, convert leads and edit the pipelines  *)
(* at once (CrmService): every deal stands in a stage of its pipeline,     *)
(* with the status that stage gave it, and a lead is converted once.       *)
THEOREM CrmIsSafe == CrmSpec => []CrmSafe
BY CrmInvInit, CrmInvStep, CrmInvSafe, PTL DEF CrmSpec

-----------------------------------------------------------------------------
(* Projects and tasks. A request that is about to commit holds the task    *)
(* and the projects it is in and goes to; while it does, nobody archives   *)
(* them or moves the task.                                                 *)

\* What a request under way looks like, whatever the rows hold.
RequestFits(r) ==
    /\ r.op = "idle" <=> r.step = "idle"
    /\ r.step # "idle" => r.project \in Projects /\ r.source \in Projects
    /\ r.op \in {"create_task", "update_task", "delete_task"} => r.task \in Tasks
    /\ r.op \in {"create", "rename"} => r.name \in Names
    /\ r.step # "idle" /\ r.op # "update_task" => r.project = r.source
    /\ r.op = "create" => r.step \in {"check", "commit"}
    /\ r.step = "task" => r.op \in {"update_task", "delete_task"}
    /\ r.step = "destination" => r.op = "update_task"
    /\ r.step = "check" => r.op \in {"create", "rename"}

\* What the locks a request holds have kept true since it took them.
Holds(c, r) ==
    /\ r.op = "create_task" => task[r.task] = NoTask
    /\ r.op \in {"update_task", "delete_task"} /\ r.step \in {"project", "destination", "commit"} =>
          locked[TaskRowOf(r.task)] = c
    /\ r.step \in {"destination", "check", "commit"} /\ r.op # "create" =>
          locked[ProjectRow(r.source)] = c /\ r.source \notin archived /\ Found(r)
    /\ r.step = "commit" /\ r.op = "update_task" =>
          locked[ProjectRow(r.project)] = c /\ r.project \notin archived

\* The row a request creates is its own until it commits.
OneCreator ==
    \A c, d \in Clients :
        client[c].op = "create_task" /\ client[d].op = "create_task"
            /\ client[c].task = client[d].task => c = d

\* The inductive invariant of projects and tasks.
WorkInv ==
    /\ WorkItemsSafe
    /\ \A c \in Clients : RequestFits(client[c]) /\ Holds(c, client[c])
    /\ OneCreator

LEMMA RowsApart ==
    /\ \A t \in Tasks : TaskRowOf(t) \in Rows
    /\ \A p \in Projects : ProjectRow(p) \in Rows
    /\ \A t \in Tasks, p \in Projects : TaskRowOf(t) # ProjectRow(p)
BY DEF Rows, TaskRowOf, ProjectRow

LEMMA IdleFits ==
    /\ NoRequestUnderWay \in WorkRequest /\ RequestFits(NoRequestUnderWay)
    /\ NoRequestUnderWay.op = "idle" /\ NoRequestUnderWay.step = "idle"
BY DEF NoRequestUnderWay, WorkRequest, RequestFits, TaskStatuses

LEMMA WorkInvInit == WorkItemsInit => WorkInv
<1> SUFFICES ASSUME WorkItemsInit PROVE WorkInv
  OBVIOUS
<1>1. WorkItemsTypeOK
  BY WorkItemsAssumption, IdleFits DEF WorkItemsInit, WorkItemsTypeOK, ProjectNames
<1>2. ArchivedStaysFrozen /\ ActiveNamesDiffer /\ CompletionHasItsTime /\ CommitsWhatItRead
  BY IdleFits DEF WorkItemsInit, ArchivedStaysFrozen, ActiveNamesDiffer, CompletionHasItsTime,
         CommitsWhatItRead, Created
<1>3. \A c \in Clients : client[c] = NoRequestUnderWay
  BY DEF WorkItemsInit
<1> QED
  BY <1>1, <1>2, <1>3, IdleFits DEF WorkInv, WorkItemsSafe, Holds, OneCreator

\* The request of one client moves on, with the rows as they are.
LEMMA WorkMoves ==
  ASSUME WorkInv, NEW c \in Clients, NEW r \in WorkRequest,
         client' = [client EXCEPT ![c] = r], UNCHANGED <<name, archived, task, frozen>>,
         asked' \in 0 .. MaxWork, locked' \in [Rows -> Clients \cup {Nobody}],
         \A row \in Rows : locked[row] \in Clients \ {c} => locked'[row] = locked[row],
         RequestFits(r), Holds(c, r)',
         r.op = "create_task" =>
            \/ client[c].op = "create_task" /\ client[c].task = r.task
            \/ \A d \in Clients \ {c} : client[d].op = "create_task" => client[d].task # r.task
  PROVE  WorkInv'
<1>1. client' \in [Clients -> WorkRequest] /\ client'[c] = r
      /\ \A d \in Clients \ {c} : client'[d] = client[d]
  BY DEF WorkInv, WorkItemsSafe, WorkItemsTypeOK
<1>2. ASSUME NEW d \in Clients PROVE RequestFits(client[d])' /\ Holds(d, client[d])'
  <2>1. CASE d = c
    BY <1>1, <2>1
  <2>2. CASE d # c
    <3>1. client'[d] = client[d] /\ RequestFits(client[d]) /\ Holds(d, client[d])
      BY <1>1, <2>2 DEF WorkInv
    <3>2. PICK w \in WorkRequest : w = client[d]
      BY DEF WorkInv, WorkItemsSafe, WorkItemsTypeOK
    <3>3. RequestFits(w) /\ Holds(d, w)
      BY <3>1, <3>2
    <3>4. \A row \in Rows : locked[row] = d => locked'[row] = d
      BY <2>2
    <3>5. Holds(d, w)'
      BY <3>3, <3>4, RowsApart DEF Holds, RequestFits, Found
    <3> QED
      BY <3>1, <3>2, <3>3, <3>5
  <2> QED
    BY <2>1, <2>2
<1>3. OneCreator'
  BY <1>1 DEF WorkInv, OneCreator
<1>4. WorkItemsTypeOK'
  BY <1>1 DEF WorkInv, WorkItemsSafe, WorkItemsTypeOK
<1>5. ArchivedStaysFrozen' /\ ActiveNamesDiffer' /\ CompletionHasItsTime'
  BY DEF WorkInv, WorkItemsSafe, ArchivedStaysFrozen, ActiveNamesDiffer, CompletionHasItsTime,
         TasksOf, Created
<1>6. CommitsWhatItRead'
  <2>1. \A d \in Clients : Holds(d, client[d])' /\ client'[d] \in WorkRequest
    BY <1>1, <1>2
  <2> QED
    BY <2>1 DEF CommitsWhatItRead, Holds
<1> QED
  BY <1>2, <1>3, <1>4, <1>5, <1>6 DEF WorkInv, WorkItemsSafe

\* A transaction that ends leaves the locks of the others.
LEMMA LocksAfterEnd ==
  ASSUME WorkInv, NEW c \in Clients, EndWork(c)
  PROVE  /\ locked' \in [Rows -> Clients \cup {Nobody}]
         /\ \A row \in Rows : locked[row] \in Clients \ {c} => locked'[row] = locked[row]
         /\ client' = [client EXCEPT ![c] = NoRequestUnderWay]
BY DEF WorkInv, WorkItemsSafe, WorkItemsTypeOK, EndWork

LEMMA WorkEnds ==
  ASSUME WorkInv, NEW c \in Clients, EndWork(c), UNCHANGED <<name, archived, task, frozen, asked>>
  PROVE  WorkInv'
<1>1. Holds(c, NoRequestUnderWay)'
  BY IdleFits DEF Holds
<1>2. asked' \in 0 .. MaxWork
  BY DEF WorkInv, WorkItemsSafe, WorkItemsTypeOK
<1> QED
  BY <1>1, <1>2, LocksAfterEnd, IdleFits, WorkMoves

\* A request is begun.
LEMMA RequestStarts ==
  ASSUME WorkInv, NEW c \in Clients, NEW r \in WorkRequest, Start(c, r), RequestFits(r),
         r.step = "task" \/ (r.step = "project" /\ r.op \notin {"update_task", "delete_task"})
            \/ (r.step = "check" /\ r.op = "create"),
         r.op = "create_task" =>
            /\ task[r.task] = NoTask
            /\ \A d \in Clients : client[d].op = "create_task" => client[d].task # r.task
  PROVE  WorkInv'
<1>1. /\ client' = [client EXCEPT ![c] = r] /\ UNCHANGED <<name, archived, task, frozen, locked>>
      /\ asked' \in 0 .. MaxWork /\ locked \in [Rows -> Clients \cup {Nobody}]
  BY WorkItemsAssumption DEF Start, WorkInv, WorkItemsSafe, WorkItemsTypeOK
<1>2. Holds(c, r)'
  BY <1>1 DEF Holds
<1> QED
  BY <1>1, <1>2, WorkMoves

LEMMA StartStep ==
  ASSUME WorkInv, NEW c \in Clients,
         \/ \E t \in Tasks, p \in Projects, s \in TaskStatuses : AskTask(c, "update_task", t, p, s)
         \/ \E t \in Tasks, p \in Projects :
               task[t] # NoTask /\ p = task[t].project /\ AskTask(c, "delete_task", t, p, "todo")
         \/ \E t \in Tasks, p \in Projects, s \in TaskStatuses : CreateTask(c, p, t, s)
         \/ \E p \in Projects : AskProject(c, "archive", p, NoName)
         \/ \E p \in Projects, n \in Names : AskProject(c, "rename", p, n) \/ CreateProject(c, p, n)
  PROVE  WorkInv'
<1>1. ASSUME NEW t \in Tasks, NEW p \in Projects, NEW s \in TaskStatuses,
             NEW op \in {"update_task", "delete_task"}, AskTask(c, op, t, p, s),
             op = "delete_task" => p = task[t].project
      PROVE  WorkInv'
  <2> DEFINE r == [NoRequestUnderWay EXCEPT !.op = op, !.step = "task", !.task = t,
                     !.project = p, !.source = task[t].project, !.status = s]
  <2>1. Start(c, r) /\ task[t].project \in Projects
    BY <1>1 DEF AskTask, WorkInv, WorkItemsSafe, WorkItemsTypeOK, TaskRow
  <2>2. r.op = op /\ r.step = "task" /\ r.task = t /\ r.project = p /\ r.source = task[t].project
    BY DEF NoRequestUnderWay
  <2>3. r \in WorkRequest
    BY <2>1 DEF NoRequestUnderWay, WorkRequest
  <2> HIDE DEF r
  <2>4. RequestFits(r)
    BY <1>1, <2>1, <2>2 DEF RequestFits
  <2> QED
    BY <2>1, <2>2, <2>3, <2>4, RequestStarts
<1>2. ASSUME NEW t \in Tasks, NEW p \in Projects, NEW s \in TaskStatuses, CreateTask(c, p, t, s)
      PROVE  WorkInv'
  <2> DEFINE r == [NoRequestUnderWay EXCEPT !.op = "create_task", !.step = "project", !.task = t,
                     !.project = p, !.source = p, !.status = s]
  <2>1. Start(c, r) /\ task[t] = NoTask
        /\ \A d \in Clients : client[d].op = "create_task" => client[d].task # t
    BY <1>2 DEF CreateTask
  <2>2. /\ r.op = "create_task" /\ r.step = "project" /\ r.task = t /\ r.project = p
        /\ r.source = p
    BY DEF NoRequestUnderWay
  <2>3. r \in WorkRequest
    BY DEF NoRequestUnderWay, WorkRequest
  <2> HIDE DEF r
  <2>4. RequestFits(r)
    BY <2>2 DEF RequestFits
  <2> QED
    BY <2>1, <2>2, <2>3, <2>4, RequestStarts
<1>3. ASSUME NEW p \in Projects, NEW n \in Names \cup {NoName}, NEW op \in {"archive", "rename"},
             AskProject(c, op, p, n), op = "rename" => n \in Names
      PROVE  WorkInv'
  <2> DEFINE r == [NoRequestUnderWay EXCEPT !.op = op, !.step = "project",
                     !.project = p, !.source = p, !.name = n]
  <2>1. Start(c, r)
    BY <1>3 DEF AskProject
  <2>2. r.op = op /\ r.step = "project" /\ r.project = p /\ r.source = p /\ r.name = n
    BY DEF NoRequestUnderWay
  <2>3. r \in WorkRequest
    BY DEF NoRequestUnderWay, WorkRequest, TaskStatuses
  <2> HIDE DEF r
  <2>4. RequestFits(r)
    BY <1>3, <2>2 DEF RequestFits
  <2> QED
    BY <2>1, <2>2, <2>3, <2>4, RequestStarts
<1>4. ASSUME NEW p \in Projects, NEW n \in Names, CreateProject(c, p, n)
      PROVE  WorkInv'
  <2> DEFINE r == [NoRequestUnderWay EXCEPT !.op = "create", !.step = "check",
                     !.project = p, !.source = p, !.name = n]
  <2>1. Start(c, r)
    BY <1>4 DEF CreateProject
  <2>2. r.op = "create" /\ r.step = "check" /\ r.project = p /\ r.source = p /\ r.name = n
    BY DEF NoRequestUnderWay
  <2>3. r \in WorkRequest
    BY DEF NoRequestUnderWay, WorkRequest, TaskStatuses
  <2> HIDE DEF r
  <2>4. RequestFits(r)
    BY <2>2 DEF RequestFits
  <2> QED
    BY <2>1, <2>2, <2>3, <2>4, RequestStarts
<1>5. ASSUME NEW t \in Tasks, NEW p \in Projects, task[t] # NoTask, p = task[t].project,
             AskTask(c, "delete_task", t, p, "todo")
      PROVE  WorkInv'
  <2>1. "todo" \in TaskStatuses
    BY DEF TaskStatuses
  <2> QED
    BY <1>1, <1>5, <2>1
<1> QED
  BY <1>1, <1>2, <1>3, <1>4, <1>5

\* A row is locked.
LEMMA LockMoves ==
  ASSUME WorkInv, NEW c \in Clients, NEW row \in Rows, NEW step, Lock(c, row, step),
         NEW r \in WorkRequest, r = [client[c] EXCEPT !.step = step],
         UNCHANGED <<name, archived, task, frozen, asked>>,
         RequestFits(r), Holds(c, r)'
  PROVE  WorkInv'
<1>1. /\ client' = [client EXCEPT ![c] = r] /\ locked' = [locked EXCEPT ![row] = c]
      /\ locked[row] \in {c, Nobody}
      /\ locked \in [Rows -> Clients \cup {Nobody}] /\ asked' \in 0 .. MaxWork
  BY DEF Lock, RowFree, WorkInv, WorkItemsSafe, WorkItemsTypeOK
<1>2. /\ locked' \in [Rows -> Clients \cup {Nobody}]
      /\ \A other \in Rows : locked[other] \in Clients \ {c} => locked'[other] = locked[other]
  BY <1>1, WorkItemsAssumption
<1>3. r.op = client[c].op /\ r.task = client[c].task
  BY DEF WorkInv, WorkItemsSafe, WorkItemsTypeOK, WorkRequest
<1> QED
  BY <1>1, <1>2, <1>3, WorkMoves

\* The request a client has under way, and what it has kept.
LEMMA UnderWay ==
  ASSUME WorkInv, NEW c \in Clients
  PROVE  /\ client[c] \in WorkRequest
         /\ RequestFits(client[c])
         /\ Holds(c, client[c])
         /\ locked \in [Rows -> Clients \cup {Nobody}]
BY DEF WorkInv, WorkItemsSafe, WorkItemsTypeOK

LEMMA LockStep ==
  ASSUME WorkInv, NEW c \in Clients,
         \/ LockTask(c) \/ LockProject(c) \/ RefuseProject(c)
         \/ LockDestination(c) \/ RefuseDestination(c) \/ RollBackWork(c)
         \/ CheckName(c) \/ NameConflict(c)
  PROVE  WorkInv'
<1>1. PICK w \in WorkRequest : w = client[c] /\ RequestFits(w) /\ Holds(c, w)
  BY UnderWay
<1>2. CASE LockTask(c)
  <2> DEFINE r == [w EXCEPT !.step = "project"]
  <2>1. /\ w.step = "task" /\ Lock(c, TaskRowOf(w.task), "project")
        /\ UNCHANGED <<name, archived, task, frozen, asked>>
    BY <1>1, <1>2 DEF LockTask
  <2>2. /\ r \in WorkRequest /\ r.step = "project" /\ r.op = w.op /\ r.task = w.task
        /\ r.project = w.project /\ r.source = w.source /\ r.name = w.name
    BY DEF WorkRequest
  <2>3. r = [client[c] EXCEPT !.step = "project"]
    BY <1>1
  <2> HIDE DEF r
  <2>4. RequestFits(r) /\ TaskRowOf(w.task) \in Rows
    BY <1>1, <2>1, <2>2, RowsApart DEF RequestFits
  <2>5. locked'[TaskRowOf(w.task)] = c
    BY <2>1, <2>4, UnderWay DEF Lock
  <2>6. Holds(c, r)'
    BY <1>1, <2>1, <2>2, <2>5 DEF Holds, RequestFits
  <2> QED
    BY <2>1, <2>2, <2>3, <2>4, <2>6, LockMoves
<1>3. CASE LockProject(c)
  <2> DEFINE step == IF w.op = "update_task" THEN "destination"
                     ELSE IF w.op = "rename" THEN "check" ELSE "commit"
             r == [w EXCEPT !.step = step]
  <2>1. /\ w.step = "project" /\ Lock(c, ProjectRow(w.source), step)
        /\ w.source \notin archived /\ Found(w)
        /\ UNCHANGED <<name, archived, task, frozen, asked>>
    BY <1>1, <1>3 DEF LockProject
  <2>2. /\ r \in WorkRequest /\ r.step = step /\ r.op = w.op /\ r.task = w.task
        /\ r.project = w.project /\ r.source = w.source /\ r.name = w.name
    BY DEF WorkRequest
  <2>3. r = [client[c] EXCEPT !.step = step]
    BY <1>1
  <2>4. RequestFits(r) /\ ProjectRow(w.source) \in Rows
    BY <1>1, <2>1, <2>2, RowsApart DEF RequestFits
  <2> HIDE DEF r, step
  <2>5. /\ locked'[ProjectRow(w.source)] = c
        /\ \A t \in Tasks : locked'[TaskRowOf(t)] = locked[TaskRowOf(t)]
    <3>1. locked' = [locked EXCEPT ![ProjectRow(w.source)] = c]
      BY <2>1 DEF Lock
    <3>2. w.source \in Projects
      BY <1>1, <2>1 DEF RequestFits
    <3> QED
      BY <2>4, <3>1, <3>2, UnderWay, RowsApart
  <2>6. Found(r)' /\ w.source \notin archived'
    BY <2>1, <2>2 DEF Found
  <2>7. Holds(c, r)'
    BY <1>1, <2>1, <2>2, <2>5, <2>6 DEF Holds, RequestFits, step
  <2> QED
    BY <2>1, <2>2, <2>3, <2>4, <2>7, LockMoves
<1>4. CASE LockDestination(c)
  <2> DEFINE r == [w EXCEPT !.step = "commit"]
  <2>1. /\ w.step = "destination" /\ Lock(c, ProjectRow(w.project), "commit")
        /\ w.project \notin archived
        /\ UNCHANGED <<name, archived, task, frozen, asked>>
    BY <1>1, <1>4 DEF LockDestination
  <2>2. /\ r \in WorkRequest /\ r.step = "commit" /\ r.op = w.op /\ r.task = w.task
        /\ r.project = w.project /\ r.source = w.source /\ r.name = w.name
    BY DEF WorkRequest
  <2>3. r = [client[c] EXCEPT !.step = "commit"]
    BY <1>1
  <2> HIDE DEF r
  <2>4. RequestFits(r) /\ ProjectRow(w.project) \in Rows
    BY <1>1, <2>1, <2>2, RowsApart DEF RequestFits
  <2>5. /\ locked'[ProjectRow(w.project)] = c
        /\ \A row \in Rows : locked[row] = c => locked'[row] = c
    BY <2>1, <2>4, UnderWay, RowsApart DEF Lock
  <2>6. Found(r)' /\ w.source \notin archived'
    BY <1>1, <2>1, <2>2 DEF Found, Holds, RequestFits
  <2>7. Holds(c, r)'
    BY <1>1, <2>1, <2>2, <2>5, <2>6, RowsApart DEF Holds, RequestFits
  <2> QED
    BY <2>1, <2>2, <2>3, <2>4, <2>7, LockMoves
<1>5. ASSUME CheckName(c), ~EndWork(c)
      PROVE  WorkInv'
  <2> DEFINE r == [w EXCEPT !.step = "commit"]
  <2>1. /\ w.step = "check" /\ client' = [client EXCEPT ![c] = r]
        /\ UNCHANGED <<name, archived, task, locked, frozen, asked>>
    BY <1>1, <1>5 DEF CheckName
  <2>2. /\ r \in WorkRequest /\ r.step = "commit" /\ r.op = w.op /\ r.task = w.task
        /\ r.project = w.project /\ r.source = w.source /\ r.name = w.name
    BY DEF WorkRequest
  <2> HIDE DEF r
  <2>3. RequestFits(r)
    BY <1>1, <2>1, <2>2 DEF RequestFits
  <2>4. Holds(c, r)'
    BY <1>1, <2>1, <2>2 DEF Holds, RequestFits, Found
  <2>5. asked' \in 0 .. MaxWork
    BY <2>1 DEF WorkInv, WorkItemsSafe, WorkItemsTypeOK
  <2>6. /\ locked' \in [Rows -> Clients \cup {Nobody}]
        /\ \A row \in Rows : locked[row] \in Clients \ {c} => locked'[row] = locked[row]
    BY <2>1, UnderWay
  <2>7. r.op # "create_task" /\ UNCHANGED <<name, archived, task, frozen>>
    BY <1>1, <2>1, <2>2 DEF RequestFits
  <2>8. client' = [client EXCEPT ![c] = r]
    BY <2>1
  <2> QED
    BY <2>2, <2>3, <2>4, <2>5, <2>6, <2>7, <2>8, WorkMoves
<1>6. ASSUME EndWork(c), UNCHANGED <<name, archived, task, frozen, asked>>
      PROVE  WorkInv'
  BY <1>6, WorkEnds
<1> QED
  BY <1>2, <1>3, <1>4, <1>5, <1>6 DEF RefuseProject, RefuseDestination, RollBackWork, CheckName,
     NameConflict

\* A commit leaves the requests of the others, if what they hold stays true.
LEMMA RequestCommits ==
  ASSUME WorkInv, NEW c \in Clients, EndWork(c), UNCHANGED asked,
         name' \in [Projects -> ProjectNames], archived' \subseteq Projects,
         task' \in [Tasks -> TaskRow \cup {NoTask}],
         frozen' \in [Projects -> SUBSET (Tasks \X TaskRow)],
         ArchivedStaysFrozen', ActiveNamesDiffer', CompletionHasItsTime',
         \A d \in Clients \ {c} : \A w \in WorkRequest : w = client[d] => Holds(d, w)'
  PROVE  WorkInv'
<1>1. client' \in [Clients -> WorkRequest] /\ client'[c] = NoRequestUnderWay
      /\ \A d \in Clients \ {c} : client'[d] = client[d]
  BY LocksAfterEnd, IdleFits DEF WorkInv, WorkItemsSafe, WorkItemsTypeOK
<1>2. ASSUME NEW d \in Clients PROVE RequestFits(client[d])' /\ Holds(d, client[d])'
  <2>1. CASE d = c
    BY <1>1, <2>1, IdleFits DEF Holds
  <2>2. CASE d # c
    <3>1. client'[d] = client[d] /\ RequestFits(client[d])
      BY <1>1, <2>2 DEF WorkInv
    <3>2. PICK w \in WorkRequest : w = client[d]
      BY DEF WorkInv, WorkItemsSafe, WorkItemsTypeOK
    <3>3. Holds(d, w)' /\ RequestFits(w)
      BY <2>2, <3>1, <3>2
    <3> QED
      BY <3>1, <3>2, <3>3
  <2> QED
    BY <2>1, <2>2
<1>3. OneCreator'
  BY <1>1, IdleFits DEF WorkInv, OneCreator
<1>4. WorkItemsTypeOK'
  BY <1>1, LocksAfterEnd DEF WorkInv, WorkItemsSafe, WorkItemsTypeOK
<1>5. CommitsWhatItRead'
  <2>1. \A d \in Clients : Holds(d, client[d])' /\ client'[d] \in WorkRequest
    BY <1>1, <1>2
  <2> QED
    BY <2>1 DEF CommitsWhatItRead, Holds
<1> QED
  BY <1>2, <1>3, <1>4, <1>5 DEF WorkInv, WorkItemsSafe

\* The other requests keep their locks, so what they rely on stays true if the rows
\* they hold are left alone.
LEMMA OthersHold ==
  ASSUME WorkInv, NEW c \in Clients, EndWork(c),
         \A p \in Projects : p \in archived' => p \in archived \/ locked[ProjectRow(p)] = c,
         \A t \in Tasks :
            \/ task'[t] = task[t]
            \/ task[t] # NoTask /\ locked[TaskRowOf(t)] = c
            \/ task[t] = NoTask /\ client[c].op = "create_task" /\ client[c].task = t
  PROVE  \A d \in Clients \ {c} : \A w \in WorkRequest : w = client[d] => Holds(d, w)'
<1> SUFFICES ASSUME NEW d \in Clients \ {c}, NEW w \in WorkRequest, w = client[d]
             PROVE  Holds(d, w)'
  OBVIOUS
<1>1. RequestFits(w) /\ Holds(d, w)
  BY UnderWay
<1>2. \A row \in Rows : locked[row] = d => locked'[row] = d
  BY LocksAfterEnd
<1>3. ASSUME w.op = "create_task" PROVE task'[w.task] = NoTask
  <2>1. w.task \in Tasks /\ task[w.task] = NoTask
    BY <1>1, <1>3 DEF Holds, RequestFits
  <2>2. ~(client[c].op = "create_task" /\ client[c].task = w.task)
    BY <1>3 DEF WorkInv, OneCreator
  <2> QED
    BY <2>1, <2>2
<1>4. ASSUME w.step \in {"destination", "check", "commit"}, w.op # "create"
      PROVE  w.source \notin archived' /\ Found(w)'
  <2>1. w.source \in Projects /\ locked[ProjectRow(w.source)] = d /\ w.source \notin archived
    BY <1>1, <1>4 DEF Holds, RequestFits
  <2>2. ASSUME w.op \in {"update_task", "delete_task"} PROVE task'[w.task] = task[w.task]
    <3>1. w.task \in Tasks /\ locked[TaskRowOf(w.task)] = d /\ task[w.task] # NoTask
      BY <1>1, <1>4, <2>2 DEF Holds, RequestFits, Found
    <3> QED
      BY <3>1
  <2> QED
    BY <1>1, <1>4, <2>1, <2>2 DEF Found, Holds
<1>5. ASSUME w.step = "commit", w.op = "update_task"
      PROVE  w.project \notin archived'
  BY <1>1, <1>5 DEF Holds, RequestFits
<1> QED
  BY <1>1, <1>2, <1>3, <1>4, <1>5, RowsApart DEF Holds, RequestFits

LEMMA CommitNameStep ==
  ASSUME WorkInv, NEW c \in Clients, CommitName(c)
  PROVE  WorkInv'
<1>1. PICK w \in WorkRequest : w = client[c] /\ RequestFits(w)
  BY UnderWay
<1>2. /\ w.project \in Projects /\ w.name \in Names /\ ~Taken(w.name, w.project)
      /\ name' = [name EXCEPT ![w.project] = w.name] /\ EndWork(c)
      /\ UNCHANGED <<archived, task, frozen, asked>>
  BY <1>1 DEF CommitName, RequestFits
<1>3. /\ name \in [Projects -> ProjectNames] /\ archived \subseteq Projects
      /\ task \in [Tasks -> TaskRow \cup {NoTask}]
      /\ frozen \in [Projects -> SUBSET (Tasks \X TaskRow)]
      /\ ArchivedStaysFrozen /\ ActiveNamesDiffer /\ CompletionHasItsTime
  BY DEF WorkInv, WorkItemsSafe, WorkItemsTypeOK
<1>4. name' \in [Projects -> ProjectNames]
  BY <1>2, <1>3 DEF ProjectNames
<1>5. ActiveNamesDiffer'
  BY <1>2, <1>3, WorkItemsAssumption DEF ActiveNamesDiffer, Taken, Created
<1>6. ArchivedStaysFrozen' /\ CompletionHasItsTime'
  BY <1>2, <1>3 DEF ArchivedStaysFrozen, TasksOf, CompletionHasItsTime
<1>7. \A d \in Clients \ {c} : \A u \in WorkRequest : u = client[d] => Holds(d, u)'
  BY <1>2, OthersHold
<1> QED
  BY <1>2, <1>3, <1>4, <1>5, <1>6, <1>7, RequestCommits

LEMMA CommitArchiveStep ==
  ASSUME WorkInv, NEW c \in Clients, CommitArchive(c)
  PROVE  WorkInv'
<1>1. PICK w \in WorkRequest : w = client[c] /\ RequestFits(w) /\ Holds(c, w)
  BY UnderWay
<1>2. /\ w.project \in Projects /\ locked[ProjectRow(w.project)] = c
      /\ archived' = archived \cup {w.project}
      /\ frozen' = [frozen EXCEPT ![w.project] = TasksOf(w.project)] /\ EndWork(c)
      /\ UNCHANGED <<name, task, asked>>
  BY <1>1 DEF CommitArchive, RequestFits, Holds
<1>3. /\ name \in [Projects -> ProjectNames] /\ archived \subseteq Projects
      /\ task \in [Tasks -> TaskRow \cup {NoTask}]
      /\ frozen \in [Projects -> SUBSET (Tasks \X TaskRow)]
      /\ ArchivedStaysFrozen /\ ActiveNamesDiffer /\ CompletionHasItsTime
  BY DEF WorkInv, WorkItemsSafe, WorkItemsTypeOK
<1>4. TasksOf(w.project) \in SUBSET (Tasks \X TaskRow)
  BY <1>3 DEF TasksOf
<1>5. frozen' \in [Projects -> SUBSET (Tasks \X TaskRow)] /\ archived' \subseteq Projects
  BY <1>2, <1>3, <1>4
<1>6. ArchivedStaysFrozen'
  <2>1. \A p : TasksOf(p)' = TasksOf(p)
    BY <1>2 DEF TasksOf
  <2> QED
    BY <1>2, <1>3, <2>1 DEF ArchivedStaysFrozen
<1>7. ActiveNamesDiffer' /\ CompletionHasItsTime'
  BY <1>2, <1>3 DEF ActiveNamesDiffer, Created, CompletionHasItsTime
<1>8. \A d \in Clients \ {c} : \A u \in WorkRequest : u = client[d] => Holds(d, u)'
  BY <1>2, OthersHold
<1> QED
  BY <1>2, <1>3, <1>5, <1>6, <1>7, <1>8, RequestCommits

LEMMA CommitTaskStep ==
  ASSUME WorkInv, NEW c \in Clients, CommitTask(c)
  PROVE  WorkInv'
<1>1. PICK w \in WorkRequest : w = client[c] /\ RequestFits(w) /\ Holds(c, w)
  BY UnderWay
<1>2. /\ w.step = "commit" /\ w.op \in {"create_task", "update_task", "delete_task"}
      /\ EndWork(c) /\ UNCHANGED <<name, archived, frozen, asked>>
  BY <1>1 DEF CommitTask
<1>3. /\ name \in [Projects -> ProjectNames] /\ archived \subseteq Projects
      /\ task \in [Tasks -> TaskRow \cup {NoTask}]
      /\ frozen \in [Projects -> SUBSET (Tasks \X TaskRow)]
      /\ ArchivedStaysFrozen /\ ActiveNamesDiffer /\ CompletionHasItsTime
  BY DEF WorkInv, WorkItemsSafe, WorkItemsTypeOK
<1>4. /\ w.task \in Tasks /\ w.project \in Projects \ archived /\ w.source \in Projects \ archived
  BY <1>1, <1>2 DEF RequestFits, Holds
<1>5. /\ task[w.task] = NoTask => w.op = "create_task"
      /\ task[w.task] # NoTask => task[w.task].project = w.source /\ locked[TaskRowOf(w.task)] = c
  BY <1>1, <1>2 DEF Holds, Found
<1>6. PICK row \in TaskRow \cup {NoTask} :
         /\ task' = [task EXCEPT ![w.task] = row]
         /\ row = NoTask \/ row.project = w.project
         /\ row = NoTask \/ (row.completedAt <=> row.status = "completed")
  <2>1. CASE w.op = "delete_task"
    BY <1>1, <2>1 DEF CommitTask
  <2>2. CASE w.op \in {"create_task", "update_task"}
    <3> DEFINE row == [project |-> w.project, status |-> w.status,
                       completedAt |-> CompletedAt(w.task, w.status)]
    <3>1. task' = [task EXCEPT ![w.task] = row]
      BY <1>1, <2>2 DEF CommitTask
    <3>2. CompletedAt(w.task, w.status) \in BOOLEAN
          /\ (CompletedAt(w.task, w.status) <=> w.status = "completed")
      BY <1>3, <1>4 DEF CompletedAt, CompletionHasItsTime, TaskRow
    <3>3. row \in TaskRow /\ row.project = w.project
          /\ (row.completedAt <=> row.status = "completed")
      BY <1>4, <3>2 DEF TaskRow, WorkRequest
    <3> HIDE DEF row
    <3> QED
      BY <3>1, <3>3
  <2> QED
    BY <1>2, <2>1, <2>2
<1>7. task' \in [Tasks -> TaskRow \cup {NoTask}] /\ task'[w.task] = row
      /\ \A t \in Tasks \ {w.task} : task'[t] = task[t]
  BY <1>3, <1>4, <1>6
<1>8. ArchivedStaysFrozen'
  <2> SUFFICES ASSUME NEW p \in archived PROVE TasksOf(p)' = TasksOf(p)
    BY <1>2, <1>3 DEF ArchivedStaysFrozen
  <2>1. \A t \in Tasks : task'[t] # NoTask /\ task'[t].project = p <=>
                         task[t] # NoTask /\ task[t].project = p
    BY <1>4, <1>5, <1>6, <1>7
  <2>2. \A t \in Tasks : task[t] # NoTask /\ task[t].project = p => task'[t] = task[t]
    BY <1>4, <1>5, <1>7
  <2> QED
    BY <2>1, <2>2 DEF TasksOf
<1>9. ActiveNamesDiffer' /\ CompletionHasItsTime'
  BY <1>2, <1>3, <1>6, <1>7 DEF ActiveNamesDiffer, Created, CompletionHasItsTime
<1>10. \A d \in Clients \ {c} : \A u \in WorkRequest : u = client[d] => Holds(d, u)'
  BY <1>1, <1>2, <1>5, <1>7, OthersHold
<1> QED
  BY <1>2, <1>3, <1>7, <1>8, <1>9, <1>10, RequestCommits

LEMMA WorkInvStep == WorkInv /\ [WorkItemsNext]_workItemsVars => WorkInv'
<1> SUFFICES ASSUME WorkInv, [WorkItemsNext]_workItemsVars PROVE WorkInv'
  OBVIOUS
<1>1. CASE UNCHANGED workItemsVars
  BY <1>1 DEF workItemsVars, WorkInv, WorkItemsSafe, WorkItemsTypeOK, ArchivedStaysFrozen,
              ActiveNamesDiffer, CompletionHasItsTime, CommitsWhatItRead, Found, Created, TasksOf,
              Holds, OneCreator
<1>2. CASE WorkItemsNext
  BY <1>2, StartStep, LockStep, CommitNameStep, CommitArchiveStep, CommitTaskStep
  DEF WorkItemsNext
<1> QED
  BY <1>1, <1>2

(* However many requests overlap (TaskService, ProjectService): an         *)
(* archived project's tasks never change, two active projects never share  *)
(* a name, and a completed task has its time and no other.                 *)
THEOREM WorkItemsAreSafe == WorkItemsSpec => []WorkItemsSafe
<1>1. WorkInv => WorkItemsSafe
  BY DEF WorkInv
<1> QED
  BY <1>1, WorkInvInit, WorkInvStep, PTL DEF WorkItemsSpec

-----------------------------------------------------------------------------
(* Reminders. All jobs take the keys in the order of the items, and a key  *)
(* inserted and not committed is one job's alone.                          *)

\* The fields of a run of a job.
NoticeJob == [step : {"idle", "insert", "recheck"}, todo : SUBSET Keys, mine : SUBSET Keys,
              listed : SUBSET Keys]

\* A job lists one key per item, and takes them in the order of the items.
JobFits(r) ==
    /\ r.todo \subseteq r.listed /\ r.mine \subseteq r.listed
    /\ \A k, l \in r.listed : k.item = l.item => k = l
    /\ \A m \in r.mine : \A k \in r.todo : m.item < k.item

\* What a job has dealt with is its own, committed, or deleted since.
Dealt(r) == \A k \in r.listed \ r.todo : k \in r.mine \cup notices \/ deleted[k] > 0

\* A key is inserted by one job at a time, and only while it is not committed.
NoticesInv ==
    /\ NoticesTypeOK /\ ToldOnce
    /\ job \in [Jobs -> NoticeJob]
    /\ \A j \in Jobs : JobFits(job[j]) /\ Dealt(job[j])
    /\ \A j \in Jobs : \A k \in job[j].mine : k \notin notices
    /\ \A j \in Jobs : \A l \in Jobs \ {j} : \A k \in job[j].mine : k \notin job[l].mine

LEMMA ItemsAreNumbers == \A k \in Keys : k.item \in Nat
BY DueNoticesAssumption DEF Keys

\* Two jobs that waited for each other would each have passed the other's next item.
LEMMA JobsInOrder == NoticesInv => JobsNeverCross
<1> SUFFICES ASSUME NoticesInv, NEW j \in Jobs, NEW l \in Jobs, JobWaits(j, l), JobWaits(l, j)
             PROVE  FALSE
  BY DEF JobsNeverCross
<1>1. PICK k \in job[j].todo : k \in job[l].mine
  BY DEF JobWaits
<1>2. PICK m \in job[l].todo : m \in job[j].mine
  BY DEF JobWaits
<1>3. k.item < m.item /\ m.item < k.item
  BY <1>1, <1>2 DEF NoticesInv, JobFits
<1>4. k \in Keys /\ m \in Keys
  BY <1>1, <1>2 DEF NoticesInv, NoticeJob
<1> QED
  BY <1>3, <1>4, ItemsAreNumbers

LEMMA NoticesInvIsSafe == NoticesInv => NoticesSafe
BY JobsInOrder DEF NoticesInv, NoticesSafe, NothingIsDropped, Dealt

LEMMA IdleJobFits == NoJobRun \in NoticeJob /\ JobFits(NoJobRun) /\ Dealt(NoJobRun) /\ NoJobRun.mine = {}
BY DEF NoJobRun, NoticeJob, JobFits, Dealt

LEMMA NoticesInvInit == NoticesInit => NoticesInv
<1> SUFFICES ASSUME NoticesInit PROVE NoticesInv
  OBVIOUS
<1>1. NoticesTypeOK
  BY DueNoticesAssumption DEF NoticesInit, NoticesTypeOK, NoJobRun
<1>2. ToldOnce
  BY DEF NoticesInit, ToldOnce
<1>3. job = [j \in Jobs |-> NoJobRun]
  BY DEF NoticesInit
<1> QED
  BY <1>1, <1>2, <1>3, IdleJobFits DEF NoticesInv

\* One job moves on, with what is committed as it is.
LEMMA JobMoves ==
  ASSUME NoticesInv, NEW j \in Jobs, NEW r \in NoticeJob, job' = [job EXCEPT ![j] = r],
         UNCHANGED <<due, clock, notices, read, sent, deleted>>,
         JobFits(r), Dealt(r), \A k \in r.mine : k \notin notices,
         \A l \in Jobs \ {j} : \A k \in r.mine : k \notin job[l].mine
  PROVE  NoticesInv'
<1>1. job' \in [Jobs -> NoticeJob] /\ job'[j] = r /\ \A l \in Jobs \ {j} : job'[l] = job[l]
  BY DEF NoticesInv
<1>2. \A l \in Jobs : JobFits(job'[l]) /\ Dealt(job'[l])
  BY <1>1 DEF NoticesInv
<1>3. \A l \in Jobs : JobFits(job[l])' /\ Dealt(job[l])'
  BY <1>2 DEF JobFits, Dealt
<1>4. NoticesTypeOK'
  <2>1. \A l \in Jobs : /\ job'[l].step \in {"idle", "insert", "recheck"}
                        /\ job'[l].listed \in SUBSET Keys
                        /\ job'[l].todo \subseteq job'[l].listed
                        /\ job'[l].mine \subseteq job'[l].listed
    BY <1>1, <1>2 DEF NoticeJob, JobFits
  <2> QED
    BY <2>1 DEF NoticesInv, NoticesTypeOK
<1>5. ToldOnce'
  BY DEF NoticesInv, ToldOnce
<1>6. \A l \in Jobs : \A k \in job'[l].mine : k \notin notices'
  BY <1>1 DEF NoticesInv
<1>7. \A i \in Jobs : \A l \in Jobs \ {i} : \A k \in job'[i].mine : k \notin job'[l].mine
  BY <1>1 DEF NoticesInv
<1> QED
  BY <1>1, <1>3, <1>4, <1>5, <1>6, <1>7 DEF NoticesInv

LEMMA JobStops ==
  ASSUME NoticesInv, NEW j \in Jobs, job' = [job EXCEPT ![j] = NoJobRun],
         UNCHANGED <<due, clock, notices, read, sent, deleted>>
  PROVE  NoticesInv'
BY JobMoves, IdleJobFits

LEMMA JobBegins ==
  ASSUME NoticesInv, NEW j \in Jobs, NEW scope, scope \subseteq Items, BeginJob(j, scope)
  PROVE  NoticesInv'
<1> DEFINE keys == {KeyOf(i) : i \in Candidates(scope)}
           r == [step |-> "insert", todo |-> keys, mine |-> {}, listed |-> keys]
<1>1. \A i \in Candidates(scope) : KeyOf(i) \in Keys /\ KeyOf(i).item = i
  BY DEF Candidates, KeyOf, Keys, NoticesInv, NoticesTypeOK
<1>2. keys \in SUBSET Keys
  BY <1>1
<1>3. \A k, l \in keys : k.item = l.item => k = l
  BY <1>1
<1>4. job' = [job EXCEPT ![j] = r] /\ UNCHANGED <<due, clock, notices, read, sent, deleted>>
  BY DEF BeginJob
<1> HIDE DEF keys
<1>5. r \in NoticeJob /\ r.todo = keys /\ r.mine = {} /\ r.listed = keys
  BY <1>2 DEF NoticeJob
<1> HIDE DEF r
<1>6. JobFits(r) /\ Dealt(r)
  BY <1>3, <1>5 DEF JobFits, Dealt
<1> QED
  BY <1>4, <1>5, <1>6, JobMoves

\* A key is dealt with: taken by this job, or found committed.
LEMMA JobInserts ==
  ASSUME NoticesInv, NEW j \in Jobs, NEW k \in job[j].todo,
         InsertNotice(j, k) \/ Duplicate(j, k) \/ Skip(j, k) \/ GiveUp(j, k)
  PROVE  NoticesInv'
<1>1. PICK w \in NoticeJob : w = job[j] /\ JobFits(w) /\ Dealt(w)
  BY DEF NoticesInv
<1>2. /\ \A m \in w.mine : m \notin notices
      /\ \A l \in Jobs \ {j} : \A m \in w.mine : m \notin job[l].mine
  BY <1>1 DEF NoticesInv
<1>3. k \in w.todo /\ w.todo \subseteq Keys /\ w.listed \subseteq Keys
  BY <1>1 DEF NoticeJob
<1>4. IsNext(j, k) => \A l \in w.todo \ {k} : k.item < l.item
  <2> SUFFICES ASSUME IsNext(j, k), NEW l \in w.todo \ {k} PROVE k.item < l.item
    OBVIOUS
  <2>1. k.item <= l.item /\ k.item # l.item
    BY <1>1, <1>3 DEF IsNext, JobFits
  <2> QED
    BY <1>3, <2>1, ItemsAreNumbers
<1>5. CASE InsertNotice(j, k)
  <2> DEFINE r == [w EXCEPT !.todo = w.todo \ {k}, !.mine = w.mine \cup {k}]
  <2>1. /\ job' = [job EXCEPT ![j] = r] /\ UNCHANGED <<due, clock, notices, read, sent, deleted>>
        /\ IsNext(j, k) /\ k \notin notices /\ \A l \in Jobs : k \notin job[l].mine
    BY <1>1, <1>5 DEF InsertNotice, NoticesInv
  <2>2. /\ r \in NoticeJob /\ r.todo = w.todo \ {k} /\ r.mine = w.mine \cup {k}
        /\ r.listed = w.listed
    BY <1>3 DEF NoticeJob
  <2> HIDE DEF r
  <2>3. JobFits(r)
    <3>1. \A m \in r.mine : \A l \in r.todo : m.item < l.item
      BY <1>1, <1>3, <1>4, <2>1, <2>2 DEF JobFits
    <3>2. r.todo \subseteq r.listed /\ r.mine \subseteq r.listed
      BY <1>1, <1>3, <2>2 DEF JobFits
    <3> QED
      BY <1>1, <2>2, <3>1, <3>2 DEF JobFits
  <2>4. Dealt(r)
    BY <1>1, <2>2 DEF Dealt
  <2>5. /\ \A m \in r.mine : m \notin notices
        /\ \A l \in Jobs \ {j} : \A m \in r.mine : m \notin job[l].mine
    BY <1>2, <2>1, <2>2
  <2> QED
    BY <2>1, <2>2, <2>3, <2>4, <2>5, JobMoves
<1>6. CASE Duplicate(j, k)
  <2> DEFINE r == [w EXCEPT !.step = "recheck"]
  <2>1. /\ job' = [job EXCEPT ![j] = r] /\ UNCHANGED <<due, clock, notices, read, sent, deleted>>
    BY <1>1, <1>6 DEF Duplicate
  <2>2. r \in NoticeJob /\ r.todo = w.todo /\ r.mine = w.mine /\ r.listed = w.listed
    BY DEF NoticeJob
  <2> HIDE DEF r
  <2>3. JobFits(r) /\ Dealt(r)
    BY <1>1, <2>2 DEF JobFits, Dealt
  <2> QED
    BY <1>2, <2>1, <2>2, <2>3, JobMoves
<1>7. CASE Skip(j, k)
  <2> DEFINE r == [w EXCEPT !.step = "insert", !.todo = w.todo \ {k}]
  <2>1. /\ job' = [job EXCEPT ![j] = r] /\ UNCHANGED <<due, clock, notices, read, sent, deleted>>
        /\ k \in notices
    BY <1>1, <1>7 DEF Skip, NoticesInv
  <2>2. r \in NoticeJob /\ r.todo = w.todo \ {k} /\ r.mine = w.mine /\ r.listed = w.listed
    BY DEF NoticeJob
  <2> HIDE DEF r
  <2>3. JobFits(r)
    BY <1>1, <2>2 DEF JobFits
  <2>4. Dealt(r)
    BY <1>1, <2>1, <2>2 DEF Dealt
  <2> QED
    BY <1>2, <2>1, <2>2, <2>3, <2>4, JobMoves
<1>8. CASE GiveUp(j, k)
  BY <1>8, JobStops DEF GiveUp
<1> QED
  BY <1>5, <1>6, <1>7, <1>8

LEMMA JobCommits ==
  ASSUME NoticesInv, NEW j \in Jobs, CommitNotices(j)
  PROVE  NoticesInv'
<1>1. PICK w \in NoticeJob : w = job[j] /\ JobFits(w) /\ Dealt(w)
  BY DEF NoticesInv
<1>2. /\ notices' = notices \cup w.mine
      /\ sent' = [k \in Keys |-> IF k \in w.mine THEN sent[k] + 1 ELSE sent[k]]
      /\ job' = [job EXCEPT ![j] = NoJobRun] /\ UNCHANGED <<due, clock, read, deleted>>
  BY <1>1 DEF CommitNotices
<1>3. /\ job' \in [Jobs -> NoticeJob] /\ job'[j] = NoJobRun
      /\ \A l \in Jobs \ {j} : job'[l] = job[l]
  BY <1>2, IdleJobFits DEF NoticesInv
<1>4. \A k \in w.mine : k \in Keys /\ k \notin notices /\ \A l \in Jobs \ {j} : k \notin job[l].mine
  BY <1>1 DEF NoticesInv, NoticeJob
<1>5. ToldOnce'
  <2> SUFFICES ASSUME NEW k \in Keys
               PROVE  sent'[k] = deleted'[k] + (IF k \in notices' THEN 1 ELSE 0)
    BY DEF ToldOnce
  <2>1. /\ sent[k] = deleted[k] + (IF k \in notices THEN 1 ELSE 0)
        /\ deleted'[k] = deleted[k] /\ deleted[k] \in Nat
    BY <1>2 DEF NoticesInv, ToldOnce, NoticesTypeOK
  <2>2. CASE k \in w.mine
    <3>1. sent'[k] = sent[k] + 1 /\ k \in notices' /\ k \notin notices
      BY <1>2, <1>4, <2>2
    <3> QED
      BY <2>1, <3>1
  <2>3. CASE k \notin w.mine
    <3>1. sent'[k] = sent[k] /\ (k \in notices' <=> k \in notices)
      BY <1>2, <2>3
    <3> QED
      BY <2>1, <3>1
  <2> QED
    BY <2>2, <2>3
<1>6. \A l \in Jobs : JobFits(job[l])' /\ Dealt(job[l])'
  <2> SUFFICES ASSUME NEW l \in Jobs PROVE JobFits(job[l])' /\ Dealt(job[l])'
    OBVIOUS
  <2>1. CASE l = j
    BY <1>3, <2>1 DEF NoJobRun, JobFits, Dealt
  <2>2. CASE l # j
    BY <1>2, <1>3, <2>2 DEF NoticesInv, JobFits, Dealt
  <2> QED
    BY <2>1, <2>2
<1>7. NoticesTypeOK'
  <2>1. \A l \in Jobs : /\ job'[l].step \in {"idle", "insert", "recheck"}
                        /\ job'[l].listed \in SUBSET Keys
                        /\ job'[l].todo \subseteq job'[l].listed
                        /\ job'[l].mine \subseteq job'[l].listed
    BY <1>3, <1>6 DEF NoticeJob, JobFits
  <2>2. sent' \in [Keys -> 0 .. MaxDeletes + 1]
    <3>1. \A k \in Keys : deleted'[k] \in 0 .. MaxDeletes
      BY <1>2 DEF NoticesInv, NoticesTypeOK
    <3>2. \A k \in Keys : sent'[k] \in 0 .. MaxDeletes + 1
      BY <1>5, <3>1, DueNoticesAssumption DEF ToldOnce
    <3> QED
      BY <1>2, <3>2
  <2>3. notices' \subseteq Keys /\ read' \subseteq notices'
    BY <1>2, <1>4 DEF NoticesInv, NoticesTypeOK
  <2> QED
    BY <1>2, <2>1, <2>2, <2>3 DEF NoticesInv, NoticesTypeOK
<1>8. \A l \in Jobs : \A k \in job'[l].mine : k \notin notices'
  BY <1>2, <1>3, <1>4, IdleJobFits DEF NoticesInv
<1>9. \A i \in Jobs : \A l \in Jobs \ {i} : \A k \in job'[i].mine : k \notin job'[l].mine
  BY <1>3, IdleJobFits DEF NoticesInv
<1> QED
  BY <1>3, <1>5, <1>6, <1>7, <1>8, <1>9 DEF NoticesInv

LEMMA NoticesChange ==
  ASSUME NoticesInv,
         \/ \E k \in notices : MarkRead(k) \/ DeleteNotice(k)
         \/ MarkAllRead \/ NoticeClock
         \/ \E i \in Items : Complete(i)
  PROVE  NoticesInv'
<1>1. ASSUME UNCHANGED <<notices, job, sent, deleted>>, due' \in [Items -> 0 .. MaxClock \cup {NoDue}],
             clock' \in 0 .. MaxClock, read' \subseteq notices
      PROVE  NoticesInv'
  BY <1>1 DEF NoticesInv, NoticesTypeOK, ToldOnce, JobFits, Dealt
<1>2. /\ due \in [Items -> 0 .. MaxClock \cup {NoDue}] /\ clock \in 0 .. MaxClock
      /\ read \subseteq notices /\ notices \subseteq Keys
      /\ sent \in [Keys -> 0 .. MaxDeletes + 1] /\ deleted \in [Keys -> 0 .. MaxDeletes]
  BY DEF NoticesInv, NoticesTypeOK
<1>3. ASSUME NEW k \in notices, MarkRead(k) PROVE NoticesInv'
  BY <1>1, <1>2, <1>3 DEF MarkRead
<1>4. ASSUME NEW k \in notices, DeleteNotice(k) PROVE NoticesInv'
  <2>1. /\ notices' = notices \ {k} /\ read' = read \ {k} /\ UNCHANGED <<due, clock, job, sent>>
        /\ k \in Keys /\ deleted[k] < MaxDeletes /\ deleted' = [deleted EXCEPT ![k] = deleted[k] + 1]
    BY <1>2, <1>4 DEF DeleteNotice
  <2>2. deleted' \in [Keys -> 0 .. MaxDeletes]
    BY <1>2, <2>1, DueNoticesAssumption
  <2>3. NoticesTypeOK'
    BY <1>2, <2>1, <2>2 DEF NoticesInv, NoticesTypeOK
  <2>4. ToldOnce'
    <3> SUFFICES ASSUME NEW l \in Keys
                 PROVE  sent'[l] = deleted'[l] + (IF l \in notices' THEN 1 ELSE 0)
      BY DEF ToldOnce
    <3>1. /\ sent[l] = deleted[l] + (IF l \in notices THEN 1 ELSE 0) /\ sent'[l] = sent[l]
          /\ deleted[l] \in Nat
      BY <1>2, <2>1 DEF NoticesInv, ToldOnce
    <3>2. l = k => deleted'[l] = deleted[l] + 1 /\ l \notin notices' /\ l \in notices
      BY <1>2, <2>1
    <3>3. l # k => deleted'[l] = deleted[l] /\ (l \in notices' <=> l \in notices)
      BY <1>2, <2>1
    <3> QED
      BY <3>1, <3>2, <3>3
  <2>5. ASSUME NEW j \in Jobs PROVE JobFits(job[j])' /\ Dealt(job[j])'
    <3>1. PICK w \in NoticeJob : w = job[j] /\ w = job'[j] /\ JobFits(w) /\ Dealt(w)
      BY <2>1 DEF NoticesInv
    <3>2. \A l \in Keys : deleted[l] \in Nat /\ deleted'[l] \in Nat /\ deleted'[l] >= deleted[l]
      BY <1>2, <2>1, <2>2
    <3>3. deleted'[k] > 0
      BY <1>2, <2>1
    <3>4. \A l \in w.listed \ w.todo : l \in w.mine \cup notices' \/ deleted'[l] > 0
      <4> SUFFICES ASSUME NEW l \in w.listed \ w.todo
                   PROVE  l \in w.mine \cup notices' \/ deleted'[l] > 0
        OBVIOUS
      <4>1. l \in Keys /\ (l \in w.mine \cup notices \/ deleted[l] > 0)
        BY <3>1 DEF NoticeJob, Dealt
      <4> QED
        BY <2>1, <3>2, <3>3, <4>1
    <3>5. Dealt(w)'
      BY <3>4 DEF Dealt
    <3> QED
      BY <3>1, <3>5
  <2> QED
    BY <2>1, <2>3, <2>4, <2>5 DEF NoticesInv
<1>5. CASE MarkAllRead
  BY <1>1, <1>2, <1>5 DEF MarkAllRead
<1>6. CASE NoticeClock
  BY <1>1, <1>2, <1>6, DueNoticesAssumption DEF NoticeClock
<1>7. ASSUME NEW i \in Items, Complete(i) PROVE NoticesInv'
  BY <1>1, <1>2, <1>7 DEF Complete
<1> QED
  BY <1>3, <1>4, <1>5, <1>6, <1>7

LEMMA NoticesInvStep == NoticesInv /\ [NoticesNext]_noticeVars => NoticesInv'
<1> SUFFICES ASSUME NoticesInv, [NoticesNext]_noticeVars PROVE NoticesInv'
  OBVIOUS
<1>1. CASE UNCHANGED noticeVars
  BY <1>1 DEF noticeVars, NoticesInv, NoticesTypeOK, ToldOnce, JobFits, Dealt
<1>2. ASSUME NEW j \in Jobs,
             \/ BeginTaskJob(j) \/ BeginCrmJob(j)
             \/ \E k \in job[j].todo :
                   InsertNotice(j, k) \/ Duplicate(j, k) \/ Skip(j, k) \/ GiveUp(j, k)
             \/ CommitNotices(j) \/ JobDies(j)
      PROVE  NoticesInv'
  <2>1. TaskItems \subseteq Items /\ CrmItems \subseteq Items
    BY DEF Items
  <2>2. CASE BeginTaskJob(j) \/ BeginCrmJob(j)
    BY <2>1, <2>2, JobBegins DEF BeginTaskJob, BeginCrmJob
  <2>3. CASE JobDies(j)
    BY <2>3, JobStops DEF JobDies
  <2> QED
    BY <1>2, <2>2, <2>3, JobInserts, JobCommits
<1> QED
  BY <1>1, <1>2, NoticesChange DEF NoticesNext

(* However many reminder jobs overlap, fail and die (NotificationService): *)
(* a due date is told once, and again only after its notice was deleted; a *)
(* duplicate loses no other notice; and no two jobs wait for each other.   *)
THEOREM NoticesAreSafe == NoticesSpec => []NoticesSafe
BY NoticesInvInit, NoticesInvStep, NoticesInvIsSafe, PTL DEF NoticesSpec

-----------------------------------------------------------------------------
(* Documents. The row is committed after the object is put, and the object *)
(* is deleted only when the row was rolled back.                           *)

\* The request of a reader.
Visit == [step : {"idle", "fetch", "log", "answer"}, paper : Papers \cup {NoPaper},
          content : BOOLEAN, founder : BOOLEAN]

\* A reader on the way to an answer asks for a document, and is logged before it.
VisitFits(v, w) ==
    /\ w.step # "idle" => w.paper \in Papers
    /\ w.step = "answer" => <<v, w.paper>> \in logged

\* A committed document's upload is over, and its object was put before.
DocumentsInv ==
    /\ DocumentsSafe
    /\ \A d \in Papers : paper[d] # "none" => upload[d] = "ended"
    /\ \A d \in Papers : upload[d] = "stored" => d \in bucket
    /\ \A v \in Visitors : VisitFits(v, visit[v])

LEMMA DocumentsInvInit == DocumentsInit => DocumentsInv
BY DEF DocumentsInit, DocumentsInv, DocumentsSafe, DocumentsTypeOK, PaperStatuses, VisitFits,
       FoundDocumentsHaveTheirObject, ShownIsLogged, NoVisit

\* An upload, or a change of status: readers are not concerned.
LEMMA UploadStep ==
  ASSUME DocumentsInv, NEW d \in Papers,
         \/ FlushRow(d) \/ Put(d) \/ PutFails(d) \/ CommitUpload(d) \/ CommitUploadFails(d)
         \/ CleanUp(d) \/ UploadDies(d)
         \/ \E status \in {"archived", "revoked"} : ChangeStatus(d, status)
  PROVE  DocumentsInv'
<1> USE DEF DocumentsInv, DocumentsSafe, FoundDocumentsHaveTheirObject, ShownIsLogged
<1>1. UNCHANGED <<visit, shown, logged>>
  BY DEF FlushRow, Put, PutFails, CommitUpload, CommitUploadFails, CleanUp, UploadDies,
         ChangeStatus
<1>2. /\ DocumentsTypeOK'
      /\ \A e \in Papers : paper'[e] # "none" => e \in bucket' /\ upload'[e] = "ended"
      /\ \A e \in Papers : upload'[e] = "stored" => e \in bucket'
  <2> USE DEF DocumentsTypeOK, PaperStatuses, Uploading
  <2>1. CASE FlushRow(d)
    BY <2>1 DEF FlushRow
  <2>2. CASE Put(d)
    BY <2>2 DEF Put
  <2>3. CASE PutFails(d)
    BY <2>3 DEF PutFails
  <2>4. CASE CommitUpload(d)
    BY <2>4 DEF CommitUpload
  <2>5. CASE CommitUploadFails(d)
    BY <2>5 DEF CommitUploadFails
  <2>6. CASE CleanUp(d)
    BY <2>6 DEF CleanUp
  <2>7. CASE UploadDies(d)
    BY <2>7 DEF UploadDies
  <2>8. ASSUME NEW status \in {"archived", "revoked"}, ChangeStatus(d, status)
        PROVE  /\ DocumentsTypeOK'
               /\ \A e \in Papers : paper'[e] # "none" => e \in bucket' /\ upload'[e] = "ended"
               /\ \A e \in Papers : upload'[e] = "stored" => e \in bucket'
    BY <2>8 DEF ChangeStatus
  <2> QED
    BY <2>1, <2>2, <2>3, <2>4, <2>5, <2>6, <2>7, <2>8
<1>3. \A v \in Visitors : VisitFits(v, visit[v])'
  BY <1>1 DEF VisitFits
<1> QED
  BY <1>1, <1>2, <1>3

\* One reader's request goes on.
LEMMA VisitMoves ==
  ASSUME DocumentsInv, NEW v \in Visitors, NEW w \in Visit, visit' = [visit EXCEPT ![v] = w],
         UNCHANGED <<paper, upload, bucket>>, logged \subseteq logged', shown' \subseteq logged',
         logged' \subseteq Visitors \X Papers, VisitFits(v, w)'
  PROVE  DocumentsInv'
<1>1. /\ visit'[v] = w /\ \A u \in Visitors \ {v} : visit'[u] = visit[u]
      /\ visit' \in [Visitors -> Visit]
  BY DEF DocumentsInv, DocumentsSafe, DocumentsTypeOK, Visit
<1>2. ASSUME NEW u \in Visitors PROVE VisitFits(u, visit[u])'
  BY <1>1 DEF DocumentsInv, VisitFits
<1>3. DocumentsSafe'
  BY <1>1 DEF DocumentsInv, DocumentsSafe, DocumentsTypeOK, Visit,
              FoundDocumentsHaveTheirObject, ShownIsLogged
<1> QED
  BY <1>2, <1>3 DEF DocumentsInv

LEMMA VisitStep ==
  ASSUME DocumentsInv, NEW v \in Visitors,
         \/ \E d \in Papers, content, founder \in BOOLEAN : Look(v, d, content, founder)
         \/ Fetch(v) \/ RecordAccess(v) \/ Answer(v) \/ VisitFails(v)
  PROVE  DocumentsInv'
<1>1. PICK w \in Visit : w = visit[v] /\ VisitFits(v, w)
  BY DEF DocumentsInv, DocumentsSafe, DocumentsTypeOK, Visit
<1>2. /\ logged \subseteq Visitors \X Papers /\ shown \subseteq logged
  BY DEF DocumentsInv, DocumentsSafe, DocumentsTypeOK, ShownIsLogged
<1>3. NoVisit \in Visit /\ VisitFits(v, NoVisit)'
  BY DEF NoVisit, Visit, VisitFits
<1>4. ASSUME NEW d \in Papers, NEW content \in BOOLEAN, NEW founder \in BOOLEAN,
             Look(v, d, content, founder)
      PROVE  DocumentsInv'
  <2> DEFINE now == [step |-> IF content THEN "fetch" ELSE "log", paper |-> d,
                     content |-> content, founder |-> founder]
  <2>1. visit' = [visit EXCEPT ![v] = now] /\ UNCHANGED <<paper, upload, bucket, shown, logged>>
    BY <1>4 DEF Look
  <2>2. now \in Visit /\ now.paper = d /\ now.step # "answer"
    BY DEF Visit
  <2> HIDE DEF now
  <2>3. VisitFits(v, now)'
    BY <2>2 DEF VisitFits
  <2> QED
    BY <1>2, <2>1, <2>2, <2>3, VisitMoves
<1>5. CASE Fetch(v)
  <2> DEFINE now == [w EXCEPT !.step = "log"]
  <2>1. /\ visit' = [visit EXCEPT ![v] = now] \/ visit' = [visit EXCEPT ![v] = NoVisit]
        /\ UNCHANGED <<paper, upload, bucket, shown, logged>> /\ w.step = "fetch"
    BY <1>1, <1>5 DEF Fetch
  <2>2. now \in Visit /\ now.paper = w.paper /\ now.step = "log"
    BY DEF Visit
  <2> HIDE DEF now
  <2>3. VisitFits(v, now)'
    BY <1>1, <2>1, <2>2 DEF VisitFits
  <2> QED
    BY <1>2, <1>3, <2>1, <2>2, <2>3, VisitMoves
<1>6. CASE RecordAccess(v)
  <2> DEFINE now == [w EXCEPT !.step = "answer"]
  <2>1. /\ visit' = [visit EXCEPT ![v] = now] /\ logged' = logged \cup {<<v, w.paper>>}
        /\ UNCHANGED <<paper, upload, bucket, shown>> /\ w.step = "log"
    BY <1>1, <1>6 DEF RecordAccess
  <2>2. now \in Visit /\ now.paper = w.paper /\ now.step = "answer"
    BY DEF Visit
  <2> HIDE DEF now
  <2>3. w.paper \in Papers
    BY <1>1, <2>1 DEF VisitFits
  <2>4. VisitFits(v, now)'
    BY <2>1, <2>2, <2>3 DEF VisitFits
  <2>5. /\ logged \subseteq logged' /\ shown' \subseteq logged'
        /\ logged' \subseteq Visitors \X Papers
    BY <1>2, <2>1, <2>3
  <2>6. visit' = [visit EXCEPT ![v] = now] /\ UNCHANGED <<paper, upload, bucket>>
    BY <2>1
  <2> QED
    BY <2>2, <2>4, <2>5, <2>6, VisitMoves
<1>7. CASE Answer(v)
  <2>1. /\ visit' = [visit EXCEPT ![v] = NoVisit] /\ shown' = shown \cup {<<v, w.paper>>}
        /\ UNCHANGED <<paper, upload, bucket, logged>> /\ w.step = "answer"
    BY <1>1, <1>7 DEF Answer
  <2>2. <<v, w.paper>> \in logged
    BY <1>1, <2>1 DEF VisitFits
  <2> QED
    BY <1>2, <1>3, <2>1, <2>2, VisitMoves
<1>8. CASE VisitFails(v)
  BY <1>2, <1>3, <1>8, VisitMoves DEF VisitFails
<1> QED
  BY <1>4, <1>5, <1>6, <1>7, <1>8

LEMMA DocumentsInvStep == DocumentsInv /\ [DocumentsNext]_documentVars => DocumentsInv'
<1> SUFFICES ASSUME DocumentsInv, [DocumentsNext]_documentVars PROVE DocumentsInv'
  OBVIOUS
<1>1. CASE UNCHANGED documentVars
  BY <1>1 DEF documentVars, DocumentsInv, DocumentsSafe, DocumentsTypeOK, VisitFits,
              FoundDocumentsHaveTheirObject, ShownIsLogged
<1> QED
  BY <1>1, UploadStep, VisitStep DEF DocumentsNext

(* However many uploads fail, die and are cleaned up (DocumentService): a  *)
(* document somebody can find has its object, and nobody is shown one      *)
(* whose access is not recorded.                                           *)
THEOREM DocumentsAreSafe == DocumentsSpec => []DocumentsSafe
<1>1. DocumentsInv => DocumentsSafe
  BY DEF DocumentsInv
<1> QED
  BY <1>1, DocumentsInvInit, DocumentsInvStep, PTL DEF DocumentsSpec

-----------------------------------------------------------------------------
(* Migrations. An operation does to each record what it would do were that *)
(* one alone in the database. So what ChainIsSound says of the parts of    *)
(* the chain and of one record at a time holds of any set of records; and  *)
(* a migration is the parts of its way, between which the running release  *)
(* writes only to tables that no part has touched.                         *)

\* The states that a run of operations leads through.
IsRunOf(f, ops, s0) ==
    f = [n \in 0..Len(ops) |-> IF n = 0 THEN s0 ELSE Perform(f[n - 1], ops[n])]

\* A run of operations on a database has an outcome, whatever they are.
LEMMA RunExists ==
  ASSUME NEW ops, NEW s0, Len(ops) \in Nat
  PROVE  \E f : IsRunOf(f, ops, s0)
<1> DEFINE IsRun(f, m) ==
             f = [n \in 0..m |-> IF n = 0 THEN s0 ELSE Perform(f[n - 1], ops[n])]
           none == {m \in Nat : ~ \E f : IsRun(f, m)}
<1>1. 0 \notin none
  <2>1. IsRun([n \in 0..0 |-> s0], 0)
    OBVIOUS
  <2> QED
    BY <2>1
<1>2. ASSUME NEW m \in Nat, \E f : IsRun(f, m) PROVE \E f : IsRun(f, m + 1)
  <2>1. PICK f : IsRun(f, m)
    BY <1>2
  <2> DEFINE g == [n \in 0..m + 1 |-> IF n = 0 THEN s0 ELSE Perform(f[n - 1], ops[n])]
  <2>2. \A n \in 0..m : g[n] = f[n]
    <3>1. \A n \in 0..m : f[n] = IF n = 0 THEN s0 ELSE Perform(f[n - 1], ops[n])
      BY <2>1
    <3>2. \A n \in 0..m : n \in 0..m + 1
      OBVIOUS
    <3> QED
      BY <3>1, <3>2
  <2>3. \A n \in 0..m + 1 : n # 0 => g[n - 1] = f[n - 1]
    <3>1. \A n \in 0..m + 1 : n # 0 => n - 1 \in 0..m
      OBVIOUS
    <3> HIDE DEF g
    <3> QED
      BY <2>2, <3>1
  <2>4. IsRun(g, m + 1)
    <3>1. \A n \in 0..m + 1 : (IF n = 0 THEN s0 ELSE Perform(f[n - 1], ops[n]))
                              = (IF n = 0 THEN s0 ELSE Perform(g[n - 1], ops[n]))
      <4> HIDE DEF g
      <4> QED
        BY <2>3
    <3> QED
      BY <3>1
  <2> HIDE DEF g
  <2> QED
    BY <2>4
<1>3. none = {}
  <2> SUFFICES ASSUME none # {} PROVE FALSE
    OBVIOUS
  <2>1. none \subseteq Nat
    OBVIOUS
  <2>2. PICK m \in none : \A k \in none : m <= k
    <3> HIDE DEF none
    <3> QED
      BY <2>1, LeastNumber
  <2>3. m \in Nat /\ m # 0
    BY <1>1, <2>1, <2>2
  <2>4. m - 1 \in Nat /\ m - 1 \notin none
    <3> HIDE DEF none
    <3> QED
      BY <2>1, <2>2, <2>3
  <2>5. \E f : IsRun(f, m - 1)
    BY <2>4
  <2>6. \E f : IsRun(f, (m - 1) + 1)
    <3> HIDE DEF IsRun
    <3> QED
      BY <1>2, <2>4, <2>5
  <2> QED
    BY <2>2, <2>3, <2>6
<1> QED
  BY <1>3 DEF IsRunOf

\* What a run comes to is the last of the states its operations lead through.
RunsTo(f, ops, start, held) ==
    /\ f[0] = [db |-> start, locked |-> held, outcome |-> "done"]
    /\ \A n \in 0..Len(ops) : n # 0 => f[n] = Perform(f[n - 1], ops[n])
    /\ Performed(ops, start, held) = f[Len(ops)]

\* There is such a sequence of states.
LEMMA RunOf ==
  ASSUME NEW ops, NEW start, NEW held, Len(ops) \in Nat
  PROVE  \E f : RunsTo(f, ops, start, held)
<1> DEFINE s0 == [db |-> start, locked |-> held, outcome |-> "done"]
           f0 == CHOOSE f : IsRunOf(f, ops, s0)
<1>1. f0 = [n \in 0..Len(ops) |-> IF n = 0 THEN s0 ELSE Perform(f0[n - 1], ops[n])]
  <2>1. \E f : IsRunOf(f, ops, s0)
    BY RunExists
  <2>2. IsRunOf(f0, ops, s0)
    BY <2>1
  <2> HIDE DEF f0, s0
  <2> QED
    BY <2>2 DEF IsRunOf
<1>2. Performed(ops, start, held) = f0[Len(ops)]
  BY DEF Performed, InOrder, IsRunOf
<1>3. f0[0] = s0 /\ \A n \in 0..Len(ops) : n # 0 => f0[n] = Perform(f0[n - 1], ops[n])
  <2> HIDE DEF f0, s0
  <2> QED
    BY <1>1
<1> HIDE DEF f0
<1> QED
  BY <1>2, <1>3 DEF RunsTo

\* A database, and what is left of one when only some of its records are looked at.
Database(t, c, u, k, x, y, z) ==
    [tables |-> t, columns |-> c, uniques |-> u, checks |-> k, rows |-> x, audit |-> y,
     notices |-> z]
IsDb(d) ==
    /\ d = Database(d.tables, d.columns, d.uniques, d.checks, d.rows, d.audit, d.notices)
    /\ d.rows \subseteq Records /\ d.audit \subseteq Records /\ d.notices \subseteq Records
Only(R, d) ==
    Database(d.tables, d.columns, d.uniques, d.checks, d.rows \cap R, d.audit \cap R,
             d.notices \cap R)

\* With another schema, or other audit rows.
WithTables(d, v) == [d EXCEPT !.tables = v]
WithColumns(d, v) == [d EXCEPT !.columns = v]
WithUniques(d, v) == [d EXCEPT !.uniques = v]
WithChecks(d, v) == [d EXCEPT !.checks = v]
WithAudit(d, v) == [d EXCEPT !.audit = v]

\* Each is a database with that field changed.
LEMMA DatabaseExcept ==
  ASSUME NEW t, NEW c, NEW u, NEW k, NEW x, NEW y, NEW z, NEW v, NEW d,
         d = Database(t, c, u, k, x, y, z)
  PROVE  /\ WithTables(d, v) = Database(v, c, u, k, x, y, z)
         /\ WithColumns(d, v) = Database(t, v, u, k, x, y, z)
         /\ WithUniques(d, v) = Database(t, c, v, k, x, y, z)
         /\ WithChecks(d, v) = Database(t, c, u, v, x, y, z)
         /\ WithAudit(d, v) = Database(t, c, u, k, x, v, z)
<1>1. WithTables(d, v) = Database(v, c, u, k, x, y, z)
  BY DEF Database, WithTables
<1>2. WithColumns(d, v) = Database(t, v, u, k, x, y, z)
  BY DEF Database, WithColumns
<1>3. WithUniques(d, v) = Database(t, c, v, k, x, y, z)
  BY DEF Database, WithUniques
<1>4. WithChecks(d, v) = Database(t, c, u, v, x, y, z)
  BY DEF Database, WithChecks
<1>5. WithAudit(d, v) = Database(t, c, u, k, x, v, z)
  BY DEF Database, WithAudit
<1> QED
  BY <1>1, <1>2, <1>3, <1>4, <1>5

\* The fields of a database, and what is left of it, read off its parts.
LEMMA DatabaseFields ==
  ASSUME NEW t, NEW c, NEW u, NEW k, NEW x, NEW y, NEW z, NEW d,
         d = Database(t, c, u, k, x, y, z)
  PROVE  /\ d.tables = t /\ d.columns = c /\ d.uniques = u /\ d.checks = k
         /\ d.rows = x /\ d.audit = y /\ d.notices = z
         /\ x \subseteq Records /\ y \subseteq Records /\ z \subseteq Records => IsDb(d)
         /\ \A R : Only(R, d) = Database(t, c, u, k, x \cap R, y \cap R, z \cap R)
<1>1. /\ d.tables = t /\ d.columns = c /\ d.uniques = u /\ d.checks = k
      /\ d.rows = x /\ d.audit = y /\ d.notices = z
  BY DEF Database
<1> QED
  BY <1>1 DEF IsDb, Only

\* What is left has the schema of the whole.
LEMMA OnlyIs ==
  ASSUME NEW R, NEW d, IsDb(d)
  PROVE  /\ Only(R, d).tables = d.tables /\ Only(R, d).columns = d.columns
         /\ Only(R, d).uniques = d.uniques /\ Only(R, d).checks = d.checks
         /\ Only(R, d).rows = d.rows \cap R /\ Only(R, d).audit = d.audit \cap R
         /\ Only(R, d).notices = d.notices \cap R
         /\ IsDb(Only(R, d))
<1>1. /\ d.rows \cap R \subseteq Records /\ d.audit \cap R \subseteq Records
      /\ d.notices \cap R \subseteq Records
  BY DEF IsDb
<1> QED
  BY <1>1, DatabaseFields DEF Only

\* Whether an operation fits a database depends on its schema alone, and a database
\* whose rows it accepts is one whose single rows it accepts.
LEMMA OnlyFits ==
  ASSUME NEW R, NEW d, NEW op, IsDb(d)
  PROVE  /\ Fits(op, Only(R, d)) <=> Fits(op, d)
         /\ AcceptsRows(op, d) => AcceptsRows(op, Only(R, d))
<1>1. \A t : HasTable(t, Only(R, d)) <=> HasTable(t, d)
  BY OnlyIs DEF HasTable
<1>2. \A t, cs : HasColumns(t, cs, Only(R, d)) <=> HasColumns(t, cs, d)
  BY OnlyIs DEF HasColumns
<1>3. \A t : PointedAt(t, Only(R, d)) <=> PointedAt(t, d)
  BY OnlyIs DEF PointedAt
<1>4. Only(R, d).tables = d.tables /\ Only(R, d).uniques = d.uniques
  BY OnlyIs
<1>5. Fits(op, Only(R, d)) <=> Fits(op, d)
  BY <1>1, <1>2, <1>3, <1>4 DEF Fits
<1>6. AcceptsRows(op, d) => AcceptsRows(op, Only(R, d))
  <2>1. Only(R, d).rows \subseteq d.rows
    BY OnlyIs
  <2>2. \A check : Checked(check, Only(R, d)) \subseteq Checked(check, d)
    BY OnlyIs DEF Checked
  <2>3. CASE op.do = "unique"
    BY <2>1, <2>3 DEF AcceptsRows
  <2>4. CASE op.do = "check"
    BY <2>2, <2>4 DEF AcceptsRows
  <2>5. CASE op.do = "require"
    BY <2>1, <2>5 DEF AcceptsRows
  <2>6. CASE op.do \notin {"unique", "check", "require"}
    BY <2>6 DEF AcceptsRows
  <2> QED
    BY <2>3, <2>4, <2>5, <2>6
<1> QED
  BY <1>5, <1>6

\* The operations that alter a database, and what they make of its parts.
Alterations ==
    {"create", "create if missing", "drop", "drop if present", "add columns", "drop columns",
     "reference", "unreference", "unique", "drop unique", "check", "erase audit"}
Referring(f, op) == [f EXCEPT ![op.table] = WithMore(f[op.table], op.column, op.ref)]
NotErased(op, y) == {r \in y : Written[r].entity \notin op.entities}
Unreferring(f, op) ==
    [f EXCEPT ![op.table] = [c \in DOMAIN f[op.table] \ {op.column} |-> f[op.table][c]]]
OneMoreUnique(op, u) ==
    u \cup {[table |-> op.table, index |-> op.index, bars |-> op.bars]}
OneLessUnique(op, us) == {u \in us : u.index # op.index}
Rechecked(op, cs) ==
    {c \in cs : c.check # op.check} \cup
        {[table |-> op.table, check |-> op.check, values |-> op.values]}

\* An operation does what its case says.
LEMMA DoneIs ==
  ASSUME NEW op, NEW d
  PROVE  /\ op.do \in {"create", "create if missing"} =>
              Done(op, d) = WithTables(d, WithMore(d.tables, op.table, op.refs))
         /\ op.do \in {"drop", "drop if present"} => Done(op, d) = Dropped(op.table, d)
         /\ op.do \in {"add columns"} =>
              Done(op, d) = WithColumns(d, d.columns \cup ({op.table} \X op.columns))
         /\ op.do \in {"drop columns"} =>
              Done(op, d) = WithColumns(d, d.columns \ ({op.table} \X op.columns))
         /\ op.do \in {"reference"} =>
              Done(op, d) = WithTables(d, Referring(d.tables, op))
         /\ op.do \in {"unreference"} =>
              Done(op, d) = WithTables(d, Unreferring(d.tables, op))
         /\ op.do \in {"unique"} => Done(op, d) = WithUniques(d, OneMoreUnique(op, d.uniques))
         /\ op.do \in {"drop unique"} => Done(op, d) = WithUniques(d, OneLessUnique(op, d.uniques))
         /\ op.do \in {"check"} => Done(op, d) = WithChecks(d, Rechecked(op, d.checks))
         /\ op.do \in {"erase audit"} =>
              Done(op, d) = WithAudit(d, NotErased(op, d.audit))
         /\ op.do \notin Alterations => Done(op, d) = d
<1>1. ASSUME op.do \in {"create", "create if missing"}
      PROVE  Done(op, d) = WithTables(d, WithMore(d.tables, op.table, op.refs))
  BY <1>1 DEF Done, WithTables
<1>2. ASSUME op.do \in {"drop", "drop if present"} PROVE Done(op, d) = Dropped(op.table, d)
  BY <1>2 DEF Done
<1>3. ASSUME op.do \in {"add columns"}
      PROVE  Done(op, d) = WithColumns(d, d.columns \cup ({op.table} \X op.columns))
  BY <1>3 DEF Done, WithColumns
<1>4. ASSUME op.do \in {"drop columns"}
      PROVE  Done(op, d) = WithColumns(d, d.columns \ ({op.table} \X op.columns))
  BY <1>4 DEF Done, WithColumns
<1>6. ASSUME op.do \in {"reference"}
      PROVE  Done(op, d) = WithTables(d, Referring(d.tables, op))
  <2> DEFINE v == WithMore(d.tables[op.table], op.column, op.ref)
  <2>1. Done(op, d) = [d EXCEPT !.tables[op.table] = v]
    BY <1>6 DEF Done
  <2> HIDE DEF v
  <2>2. Done(op, d) = WithTables(d, [d.tables EXCEPT ![op.table] = v])
    BY <2>1 DEF WithTables
  <2> QED
    BY <2>2 DEF v, Referring
<1>7. ASSUME op.do \in {"unreference"}
      PROVE  Done(op, d) = WithTables(d, Unreferring(d.tables, op))
  <2> DEFINE v == [c \in DOMAIN d.tables[op.table] \ {op.column} |-> d.tables[op.table][c]]
  <2>1. Done(op, d) = [d EXCEPT !.tables[op.table] = v]
    BY <1>7 DEF Done
  <2> HIDE DEF v
  <2>2. Done(op, d) = WithTables(d, [d.tables EXCEPT ![op.table] = v])
    BY <2>1 DEF WithTables
  <2> QED
    BY <2>2 DEF v, Unreferring
<1>8. ASSUME op.do \in {"unique"}
      PROVE  Done(op, d) = WithUniques(d, OneMoreUnique(op, d.uniques))
  BY <1>8 DEF Done, WithUniques, OneMoreUnique
<1>9. ASSUME op.do \in {"drop unique"}
      PROVE  Done(op, d) = WithUniques(d, OneLessUnique(op, d.uniques))
  BY <1>9 DEF Done, WithUniques, OneLessUnique
<1>10. ASSUME op.do \in {"check"} PROVE Done(op, d) = WithChecks(d, Rechecked(op, d.checks))
  BY <1>10 DEF Done, WithChecks, Rechecked
<1>11. ASSUME op.do \in {"erase audit"}
       PROVE  Done(op, d) = WithAudit(d, NotErased(op, d.audit))
  BY <1>11 DEF Done, WithAudit, NotErased
<1>12. ASSUME op.do \notin Alterations PROVE Done(op, d) = d
  BY <1>12 DEF Done, Alterations
<1> QED
  BY <1>1, <1>2, <1>3, <1>4, <1>6, <1>7, <1>8, <1>9, <1>10, <1>11, <1>12

\* What an operation does to some records it does whatever others there are, and it
\* takes no table away that it does not lock.
LEMMA OnlyDone ==
  ASSUME NEW R, NEW d, NEW op, IsDb(d)
  PROVE  /\ IsDb(Done(op, d))
         /\ Done(op, Only(R, d)) = Only(R, Done(op, d))
         /\ DOMAIN d.tables \subseteq DOMAIN Done(op, d).tables \cup Locks(op)
<1> DEFINE e == Only(R, d)
           Of(t, c, u, k) == Database(t, c, u, k, d.rows, d.audit, d.notices)
           Part(t, c, u, k) ==
             Database(t, c, u, k, d.rows \cap R, d.audit \cap R, d.notices \cap R)
<1>1. d = Of(d.tables, d.columns, d.uniques, d.checks)
  BY DEF IsDb
<1>2. e = Part(d.tables, d.columns, d.uniques, d.checks)
  BY DEF Only
<1>3. /\ e.tables = d.tables /\ e.columns = d.columns /\ e.uniques = d.uniques
      /\ e.checks = d.checks /\ e.rows = d.rows \cap R /\ e.audit = d.audit \cap R
      /\ e.notices = d.notices \cap R
  BY OnlyIs
<1>4. d.rows \subseteq Records /\ d.audit \subseteq Records /\ d.notices \subseteq Records
  BY DEF IsDb
<1> HIDE DEF e
<1>5. ASSUME NEW t, NEW c, NEW u, NEW k, Done(op, d) = Of(t, c, u, k),
             Done(op, e) = Part(t, c, u, k),
             DOMAIN d.tables \subseteq DOMAIN t \cup Locks(op)
      PROVE  /\ IsDb(Done(op, d)) /\ Done(op, e) = Only(R, Done(op, d))
             /\ DOMAIN d.tables \subseteq DOMAIN Done(op, d).tables \cup Locks(op)
  BY <1>4, <1>5, DatabaseFields
<1>6. ASSUME NEW t, Done(op, d) = WithTables(d, t), Done(op, e) = WithTables(e, t),
             DOMAIN d.tables \subseteq DOMAIN t \cup Locks(op)
      PROVE  /\ IsDb(Done(op, d)) /\ Done(op, e) = Only(R, Done(op, d))
             /\ DOMAIN d.tables \subseteq DOMAIN Done(op, d).tables \cup Locks(op)
  <2>1. WithTables(d, t) = Of(t, d.columns, d.uniques, d.checks)
    BY <1>1, DatabaseExcept
  <2>2. WithTables(e, t) = Part(t, d.columns, d.uniques, d.checks)
    BY <1>2, DatabaseExcept
  <2> HIDE DEF Of, Part
  <2> QED
    BY <1>5, <1>6, <2>1, <2>2
<1>7. ASSUME NEW c, Done(op, d) = WithColumns(d, c), Done(op, e) = WithColumns(e, c)
      PROVE  /\ IsDb(Done(op, d)) /\ Done(op, e) = Only(R, Done(op, d))
             /\ DOMAIN d.tables \subseteq DOMAIN Done(op, d).tables \cup Locks(op)
  <2>1. WithColumns(d, c) = Of(d.tables, c, d.uniques, d.checks)
    BY <1>1, DatabaseExcept
  <2>2. WithColumns(e, c) = Part(d.tables, c, d.uniques, d.checks)
    BY <1>2, DatabaseExcept
  <2> HIDE DEF Of, Part
  <2> QED
    BY <1>5, <1>7, <2>1, <2>2
<1>8. ASSUME NEW u, Done(op, d) = WithUniques(d, u), Done(op, e) = WithUniques(e, u)
      PROVE  /\ IsDb(Done(op, d)) /\ Done(op, e) = Only(R, Done(op, d))
             /\ DOMAIN d.tables \subseteq DOMAIN Done(op, d).tables \cup Locks(op)
  <2>1. WithUniques(d, u) = Of(d.tables, d.columns, u, d.checks)
    BY <1>1, DatabaseExcept
  <2>2. WithUniques(e, u) = Part(d.tables, d.columns, u, d.checks)
    BY <1>2, DatabaseExcept
  <2> HIDE DEF Of, Part
  <2> QED
    BY <1>5, <1>8, <2>1, <2>2
<1>9. ASSUME NEW k, Done(op, d) = WithChecks(d, k), Done(op, e) = WithChecks(e, k)
      PROVE  /\ IsDb(Done(op, d)) /\ Done(op, e) = Only(R, Done(op, d))
             /\ DOMAIN d.tables \subseteq DOMAIN Done(op, d).tables \cup Locks(op)
  <2>1. WithChecks(d, k) = Of(d.tables, d.columns, d.uniques, k)
    BY <1>1, DatabaseExcept
  <2>2. WithChecks(e, k) = Part(d.tables, d.columns, d.uniques, k)
    BY <1>2, DatabaseExcept
  <2> HIDE DEF Of, Part
  <2> QED
    BY <1>5, <1>9, <2>1, <2>2
<1>10. CASE op.do \in {"create", "create if missing"}
  <2> DEFINE v == WithMore(d.tables, op.table, op.refs)
  <2>1. DOMAIN d.tables \subseteq DOMAIN v
    BY DEF WithMore
  <2>2. Done(op, d) = WithTables(d, v) /\ Done(op, e) = WithTables(e, v)
    BY <1>3, <1>10, DoneIs
  <2> HIDE DEF v
  <2> QED
    BY <1>6, <2>1, <2>2 DEF e
<1>11. CASE op.do \in {"drop", "drop if present"}
  <2> DEFINE t == op.table
             f == [w \in DOMAIN d.tables \ {t} |-> d.tables[w]]
             c == {w \in d.columns : w[1] # t}
             u == {w \in d.uniques : w.table # t}
             k == {w \in d.checks : w.table # t}
             Gone(x, y, z) ==
               Database(f, c, u, k, {r \in x : t \notin Written[r].tables},
                        IF t = "audit_logs" THEN {} ELSE y,
                        IF t = "notifications" THEN {} ELSE z)
  <2>1. /\ Done(op, d) = Gone(d.rows, d.audit, d.notices)
        /\ Done(op, e) = Gone(d.rows \cap R, d.audit \cap R, d.notices \cap R)
    <3>1. Done(op, d) = Dropped(t, d) /\ Done(op, e) = Dropped(t, e)
      BY <1>11, DoneIs
    <3>2. Dropped(t, d) = Gone(d.rows, d.audit, d.notices)
      BY DEF Dropped, Database
    <3>3. Dropped(t, e) = Gone(d.rows \cap R, d.audit \cap R, d.notices \cap R)
      BY <1>3 DEF Dropped, Database
    <3> QED
      BY <3>1, <3>2, <3>3
  <2>2. DOMAIN d.tables \subseteq DOMAIN f \cup Locks(op)
    <3>1. Locks(op) = {t}
      BY <1>11 DEF Locks
    <3> QED
      BY <3>1
  <2>3. /\ {r \in d.rows : t \notin Written[r].tables} \cap R
             = {r \in d.rows \cap R : t \notin Written[r].tables}
        /\ (IF t = "audit_logs" THEN {} ELSE d.audit) \cap R
             = (IF t = "audit_logs" THEN {} ELSE d.audit \cap R)
        /\ (IF t = "notifications" THEN {} ELSE d.notices) \cap R
             = (IF t = "notifications" THEN {} ELSE d.notices \cap R)
    OBVIOUS
  <2>4. /\ {r \in d.rows : t \notin Written[r].tables} \subseteq Records
        /\ (IF t = "audit_logs" THEN {} ELSE d.audit) \subseteq Records
        /\ (IF t = "notifications" THEN {} ELSE d.notices) \subseteq Records
    BY <1>4
  <2> HIDE DEF f, c, u, k, t
  <2> QED
    BY <2>1, <2>2, <2>3, <2>4, DatabaseFields DEF e
<1>12. CASE op.do \in {"add columns"}
  <2> DEFINE v == d.columns \cup ({op.table} \X op.columns)
  <2>1. Done(op, d) = WithColumns(d, v) /\ Done(op, e) = WithColumns(e, v)
    <3>1. Done(op, d) = WithColumns(d, v)
      BY <1>12, DoneIs
    <3>2. Done(op, e) = WithColumns(e, e.columns \cup ({op.table} \X op.columns))
      BY <1>12, DoneIs
    <3> QED
      BY <1>3, <3>1, <3>2
  <2> HIDE DEF v
  <2> QED
    BY <1>7, <2>1 DEF e
<1>13. CASE op.do \in {"drop columns"}
  <2> DEFINE v == d.columns \ ({op.table} \X op.columns)
  <2>1. Done(op, d) = WithColumns(d, v) /\ Done(op, e) = WithColumns(e, v)
    <3>1. Done(op, d) = WithColumns(d, d.columns \ ({op.table} \X op.columns))
      BY <1>13, DoneIs
    <3>2. Done(op, e) = WithColumns(e, e.columns \ ({op.table} \X op.columns))
      BY <1>13, DoneIs
    <3> QED
      BY <1>3, <3>1, <3>2
  <2> HIDE DEF v
  <2> QED
    BY <1>7, <2>1 DEF e
<1>14. CASE op.do \in {"reference"}
  <2> DEFINE v == Referring(d.tables, op)
  <2>1. DOMAIN d.tables \subseteq DOMAIN v
    BY DEF Referring
  <2>2. Done(op, d) = WithTables(d, v) /\ Done(op, e) = WithTables(e, v)
    <3>1. Done(op, d) = WithTables(d, Referring(d.tables, op))
      BY <1>14, DoneIs
    <3>2. Done(op, e) = WithTables(e, Referring(e.tables, op))
      BY <1>14, DoneIs
    <3> QED
      BY <1>3, <3>1, <3>2
  <2> HIDE DEF v
  <2> QED
    BY <1>6, <2>1, <2>2 DEF e
<1>15. CASE op.do \in {"unreference"}
  <2> DEFINE v == Unreferring(d.tables, op)
  <2>1. DOMAIN d.tables \subseteq DOMAIN v
    BY DEF Unreferring
  <2>2. Done(op, d) = WithTables(d, v) /\ Done(op, e) = WithTables(e, v)
    <3>1. Done(op, d) = WithTables(d, Unreferring(d.tables, op))
      BY <1>15, DoneIs
    <3>2. Done(op, e) = WithTables(e, Unreferring(e.tables, op))
      BY <1>15, DoneIs
    <3> QED
      BY <1>3, <3>1, <3>2
  <2> HIDE DEF v
  <2> QED
    BY <1>6, <2>1, <2>2 DEF e
<1>16. CASE op.do \in {"unique"}
  <2>1. PICK v : Done(op, d) = WithUniques(d, v) /\ Done(op, e) = WithUniques(e, v)
    <3>1. Done(op, d) = WithUniques(d, OneMoreUnique(op, d.uniques))
      BY <1>16, DoneIs
    <3>2. Done(op, e) = WithUniques(e, OneMoreUnique(op, e.uniques))
      BY <1>16, DoneIs
    <3> QED
      BY <1>3, <3>1, <3>2
  <2> QED
    BY <1>8, <2>1 DEF e
<1>17. CASE op.do \in {"drop unique"}
  <2>1. PICK v : Done(op, d) = WithUniques(d, v) /\ Done(op, e) = WithUniques(e, v)
    <3>1. Done(op, d) = WithUniques(d, OneLessUnique(op, d.uniques))
      BY <1>17, DoneIs
    <3>2. Done(op, e) = WithUniques(e, OneLessUnique(op, e.uniques))
      BY <1>17, DoneIs
    <3> QED
      BY <1>3, <3>1, <3>2
  <2> QED
    BY <1>8, <2>1 DEF e
<1>18. CASE op.do \in {"check"}
  <2>1. PICK v : Done(op, d) = WithChecks(d, v) /\ Done(op, e) = WithChecks(e, v)
    <3>1. Done(op, d) = WithChecks(d, Rechecked(op, d.checks))
      BY <1>18, DoneIs
    <3>2. Done(op, e) = WithChecks(e, Rechecked(op, e.checks))
      BY <1>18, DoneIs
    <3> QED
      BY <1>3, <3>1, <3>2
  <2> QED
    BY <1>9, <2>1 DEF e
<1>19. CASE op.do \in {"erase audit"}
  <2> DEFINE Left(y) == NotErased(op, y)
  <2>1. Done(op, d) = WithAudit(d, Left(d.audit))
        /\ Done(op, e) = WithAudit(e, Left(d.audit \cap R))
    BY <1>3, <1>19, DoneIs
  <2>2. /\ WithAudit(d, Left(d.audit))
             = Database(d.tables, d.columns, d.uniques, d.checks, d.rows, Left(d.audit), d.notices)
        /\ WithAudit(e, Left(d.audit \cap R))
             = Database(d.tables, d.columns, d.uniques, d.checks, d.rows \cap R,
                        Left(d.audit \cap R), d.notices \cap R)
    <3> HIDE DEF Left
    <3>1. WithAudit(d, Left(d.audit))
             = Database(d.tables, d.columns, d.uniques, d.checks, d.rows, Left(d.audit), d.notices)
      BY <1>1, DatabaseExcept
    <3>2. WithAudit(e, Left(d.audit \cap R))
             = Database(d.tables, d.columns, d.uniques, d.checks, d.rows \cap R,
                        Left(d.audit \cap R), d.notices \cap R)
      BY <1>2, DatabaseExcept
    <3> QED
      BY <3>1, <3>2
  <2>3. Left(d.audit) \cap R = Left(d.audit \cap R) /\ Left(d.audit) \subseteq Records
    BY <1>4 DEF NotErased
  <2> HIDE DEF Left
  <2> QED
    BY <1>4, <2>1, <2>2, <2>3, DatabaseFields DEF e
<1>20. CASE op.do \notin Alterations
  <2>1. Done(op, d) = d /\ Done(op, e) = e
    BY <1>20, DoneIs
  <2> QED
    BY <2>1 DEF e
<1> QED
  BY <1>10, <1>11, <1>12, <1>13, <1>14, <1>15, <1>16, <1>17, <1>18, <1>19, <1>20
  DEF Alterations, e

\* A part of a migration on a whole database (s) and on some of its records (t).
IsState(s) ==
    /\ s = [db |-> s.db, locked |-> s.locked, outcome |-> s.outcome]
    /\ IsDb(s.db) /\ s.outcome \in {"done", "impossible", "refused"}
Alike(R, s, t, tables, held) ==
    /\ IsState(s) /\ IsState(t)
    /\ s.outcome = "done" => /\ t.outcome = "done" /\ t.db = Only(R, s.db)
                             /\ tables \subseteq DOMAIN s.db.tables \cup s.locked
                             /\ held \subseteq s.locked
    /\ t.outcome = "done" => s.outcome # "impossible"

\* What performing an operation comes to.
LEMMA PerformIs ==
  ASSUME NEW s, NEW op, IsState(s)
  PROVE  /\ IsState(Perform(s, op))
         /\ s.outcome # "done" => Perform(s, op) = s
         /\ s.outcome = "done" /\ ~Fits(op, s.db) => Perform(s, op).outcome = "impossible"
         /\ s.outcome = "done" /\ Fits(op, s.db) /\ ~AcceptsRows(op, s.db) =>
              Perform(s, op).outcome = "refused"
         /\ s.outcome = "done" /\ Fits(op, s.db) /\ AcceptsRows(op, s.db) =>
              /\ Perform(s, op).outcome = "done"
              /\ Perform(s, op).db = Done(op, s.db)
              /\ Perform(s, op).locked = s.locked \cup Locks(op)
<1>0. s = [db |-> s.db, locked |-> s.locked, outcome |-> s.outcome] /\ IsDb(s.db)
  BY DEF IsState
<1>1. CASE s.outcome # "done"
  BY <1>1 DEF Perform
<1>2. CASE s.outcome = "done" /\ ~Fits(op, s.db)
  <2>1. Perform(s, op) = [s EXCEPT !.outcome = "impossible"]
    BY <1>2 DEF Perform
  <2>2. Perform(s, op) = [db |-> s.db, locked |-> s.locked, outcome |-> "impossible"]
    BY <1>0, <2>1
  <2> QED
    BY <1>0, <1>2, <2>2 DEF IsState
<1>3. CASE s.outcome = "done" /\ Fits(op, s.db) /\ ~AcceptsRows(op, s.db)
  <2>1. Perform(s, op) = [s EXCEPT !.outcome = "refused"]
    BY <1>3 DEF Perform
  <2>2. Perform(s, op) = [db |-> s.db, locked |-> s.locked, outcome |-> "refused"]
    BY <1>0, <2>1
  <2> QED
    BY <1>0, <1>3, <2>2 DEF IsState
<1>4. CASE s.outcome = "done" /\ Fits(op, s.db) /\ AcceptsRows(op, s.db)
  <2>1. Perform(s, op) = [s EXCEPT !.db = Done(op, s.db), !.locked = s.locked \cup Locks(op)]
    BY <1>4 DEF Perform
  <2>2. Perform(s, op) =
          [db |-> Done(op, s.db), locked |-> s.locked \cup Locks(op), outcome |-> "done"]
    BY <1>0, <1>4, <2>1
  <2>3. IsDb(Done(op, s.db))
    BY <1>0, OnlyDone
  <2> QED
    BY <1>4, <2>2, <2>3 DEF IsState
<1> QED
  BY <1>1, <1>2, <1>3, <1>4

\* An operation keeps the agreement of the two.
LEMMA PerformAgree ==
  ASSUME NEW R, NEW s, NEW t, NEW tables, NEW held, NEW op, Alike(R, s, t, tables, held)
  PROVE  Alike(R, Perform(s, op), Perform(t, op), tables, held)
<1>1. IsState(s) /\ IsState(t) /\ IsState(Perform(s, op)) /\ IsState(Perform(t, op))
  BY PerformIs DEF Alike
<1>2. CASE s.outcome # "done"
  <2>1. s.outcome = "refused" \/ t.outcome # "done"
    BY <1>1, <1>2 DEF Alike, IsState
  <2>2. Perform(s, op) = s
    BY <1>1, <1>2, PerformIs
  <2>3. t.outcome # "done" => Perform(t, op) = t
    BY <1>1, PerformIs
  <2>4. Perform(t, op).outcome = "done" => s.outcome # "impossible"
    BY <2>1, <2>3
  <2> QED
    BY <1>1, <1>2, <2>2, <2>4 DEF Alike
<1>3. CASE s.outcome = "done"
  <2>1. /\ t.outcome = "done" /\ t.db = Only(R, s.db) /\ IsDb(s.db)
        /\ tables \subseteq DOMAIN s.db.tables \cup s.locked /\ held \subseteq s.locked
    BY <1>1, <1>3 DEF Alike, IsState
  <2>2. /\ Fits(op, t.db) <=> Fits(op, s.db)
        /\ AcceptsRows(op, s.db) => AcceptsRows(op, t.db)
    BY <2>1, OnlyFits
  <2>3. CASE ~Fits(op, s.db)
    <3>1. Perform(s, op).outcome = "impossible" /\ Perform(t, op).outcome = "impossible"
      BY <1>1, <1>3, <2>1, <2>2, <2>3, PerformIs
    <3> QED
      BY <1>1, <3>1 DEF Alike
  <2>4. CASE Fits(op, s.db) /\ ~AcceptsRows(op, s.db)
    <3>1. Perform(s, op).outcome = "refused"
      BY <1>1, <1>3, <2>4, PerformIs
    <3> QED
      BY <1>1, <3>1 DEF Alike
  <2>5. CASE Fits(op, s.db) /\ AcceptsRows(op, s.db)
    <3>1. /\ Perform(s, op).outcome = "done" /\ Perform(s, op).db = Done(op, s.db)
          /\ Perform(s, op).locked = s.locked \cup Locks(op)
      BY <1>1, <1>3, <2>5, PerformIs
    <3>2. Perform(t, op).outcome = "done" /\ Perform(t, op).db = Done(op, t.db)
      BY <1>1, <2>1, <2>2, <2>5, PerformIs
    <3>3. /\ Done(op, t.db) = Only(R, Done(op, s.db))
          /\ DOMAIN s.db.tables \subseteq DOMAIN Done(op, s.db).tables \cup Locks(op)
      BY <2>1, OnlyDone
    <3>4. tables \subseteq DOMAIN Perform(s, op).db.tables \cup Perform(s, op).locked
      BY <2>1, <3>1, <3>3
    <3>5. held \subseteq Perform(s, op).locked
      BY <2>1, <3>1
    <3> QED
      BY <1>1, <3>1, <3>2, <3>3, <3>4, <3>5 DEF Alike
  <2> QED
    BY <2>3, <2>4, <2>5
<1> QED
  BY <1>2, <1>3

\* A part of a migration does to some records what it does to them among others, is
\* refused at most because of the others, and locks what it drops.
LEMMA PerformedAgree ==
  ASSUME NEW R, NEW ops, NEW d, NEW held, Len(ops) \in Nat, IsDb(d)
  PROVE  Alike(R, Performed(ops, d, held), Performed(ops, Only(R, d), {}), DOMAIN d.tables, held)
<1>1. PICK f : RunsTo(f, ops, d, held)
  BY RunOf
<1>2. PICK g : RunsTo(g, ops, Only(R, d), {})
  BY RunOf
<1> DEFINE A(n) == Alike(R, f[n], g[n], DOMAIN d.tables, held)
           differ == {n \in 0..Len(ops) : ~A(n)}
<1>3. A(0)
  <2>1. IsDb(Only(R, d))
    BY OnlyIs
  <2>2. IsState(f[0]) /\ IsState(g[0])
    BY <1>1, <1>2, <2>1 DEF IsState, RunsTo
  <2> QED
    BY <1>1, <1>2, <2>2 DEF Alike, RunsTo
<1>4. ASSUME NEW n \in 0..Len(ops), n # 0, A(n - 1) PROVE A(n)
  <2>1. f[n] = Perform(f[n - 1], ops[n]) /\ g[n] = Perform(g[n - 1], ops[n])
    BY <1>1, <1>2, <1>4 DEF RunsTo
  <2> QED
    BY <1>4, <2>1, PerformAgree
<1> HIDE DEF A
<1>5. differ = {}
  <2> SUFFICES ASSUME differ # {} PROVE FALSE
    OBVIOUS
  <2>1. differ \subseteq Nat
    OBVIOUS
  <2>2. PICK n \in differ : \A m \in differ : n <= m
    <3> HIDE DEF differ
    <3> QED
      BY <2>1, LeastNumber
  <2>3. n \in 0..Len(ops) /\ n # 0
    BY <1>3
  <2>4. n - 1 \in 0..Len(ops) /\ n - 1 \notin differ
    <3>1. n - 1 \in 0..Len(ops)
      BY <2>3
    <3>2. ~(n <= n - 1)
      BY <2>3
    <3> HIDE DEF differ
    <3> QED
      BY <2>2, <3>1, <3>2
  <2> QED
    BY <1>4, <2>3, <2>4
<1>6. A(Len(ops))
  BY <1>5
<1> QED
  BY <1>1, <1>2, <1>6 DEF A, RunsTo

\* What holds of a database whose records the program wrote.
FineDb(d) == IsDb(d) /\ Placed(d) /\ Traced(d)
WayExists(r, up) == r \in 0..LastRevision /\ (IF up THEN r < LastRevision ELSE r > 0)
After(r, up) == IF up THEN r + 1 ELSE r - 1

\* Records are where they belong in a database if each of them is, alone.
LEMMA FineOnly ==
  ASSUME NEW d, IsDb(d)
  PROVE  /\ Placed(d) /\ Traced(d) <=>
              \A s \in Records : Placed(Only({s}, d)) /\ Traced(Only({s}, d))
         /\ HasTrade(d) <=> HasTrade(Only({"trade"}, d))
<1>1. \A R : /\ Only(R, d).tables = d.tables /\ Only(R, d).rows = d.rows \cap R
             /\ Only(R, d).audit = d.audit \cap R /\ Only(R, d).notices = d.notices \cap R
  BY OnlyIs
<1>2. d.rows \subseteq Records /\ d.audit \subseteq Records /\ d.notices \subseteq Records
  BY DEF IsDb
<1>3. /\ \A s : \A r : r \in d.rows \cap {s} <=> r = s /\ r \in d.rows
      /\ \A s : \A r : r \in d.audit \cap {s} <=> r = s /\ r \in d.audit
      /\ \A s : \A r : r \in d.notices \cap {s} <=> r = s /\ r \in d.notices
  OBVIOUS
<1>4. Placed(d) <=> \A s \in Records : Placed(Only({s}, d))
  <2> DEFINE Here(r) == Written[r].tables # {} /\ Written[r].tables \subseteq DOMAIN d.tables
             Audit(r) == IsAudited(r) /\ "audit_logs" \in DOMAIN d.tables
             Notice(r) == IsNoticed(r) /\ "notifications" \in DOMAIN d.tables
  <2>1. Placed(d) <=> /\ \A r \in d.rows : Here(r)
                      /\ \A r \in d.audit : Audit(r)
                      /\ \A r \in d.notices : Notice(r)
    BY DEF Placed, HasTable
  <2>2. \A s : Placed(Only({s}, d)) <=> /\ (s \in d.rows => Here(s))
                                        /\ (s \in d.audit => Audit(s))
                                        /\ (s \in d.notices => Notice(s))
    <3> TAKE s
    <3>1. Placed(Only({s}, d)) <=> /\ \A r \in d.rows \cap {s} : Here(r)
                                   /\ \A r \in d.audit \cap {s} : Audit(r)
                                   /\ \A r \in d.notices \cap {s} : Notice(r)
      BY <1>1 DEF Placed, HasTable
    <3> HIDE DEF Here, Audit, Notice
    <3> QED
      BY <1>3, <3>1
  <2> HIDE DEF Here, Audit, Notice
  <2> QED
    BY <1>2, <2>1, <2>2
<1>5. Traced(d) <=> \A s \in Records : Traced(Only({s}, d))
  <2>1. \A s : Traced(Only({s}, d)) <=>
                  (s \in d.audit \cup d.notices => (Written[s].tables # {} => s \in d.rows))
    <3> TAKE s
    <3>1. Traced(Only({s}, d)) <=>
            \A r \in (d.audit \cap {s}) \cup (d.notices \cap {s}) :
               Written[r].tables # {} => r \in d.rows \cap {s}
      BY <1>1 DEF Traced
    <3> QED
      BY <1>3, <3>1
  <2> QED
    BY <1>2, <2>1 DEF Traced
<1>6. HasTrade(d) <=> HasTrade(Only({"trade"}, d))
  BY <1>1 DEF HasTrade
<1> QED
  BY <1>4, <1>5, <1>6

\* A record alone is one of the cases the chain was evaluated for.
LEMMA OnlyHolds ==
  ASSUME NEW d, IsDb(d), NEW s
  PROVE  Only({s}, d) \in Holding(Only({}, d), s)
<1> DEFINE b == Only({}, d)
           x == d.rows \cap {s}
           y == d.audit \cap {s}
           z == d.notices \cap {s}
<1>1. x \in {{}, {s}} /\ y \in {{}, {s}} /\ z \in {{}, {s}}
  OBVIOUS
<1>2. b = Database(d.tables, d.columns, d.uniques, d.checks, d.rows \cap {}, d.audit \cap {},
                   d.notices \cap {})
  BY DEF Only
<1>3. Only({s}, d) = Database(d.tables, d.columns, d.uniques, d.checks, x, y, z)
  BY DEF Only
<1> HIDE DEF b, x, y, z
<1>4. [b EXCEPT !.rows = x, !.audit = y, !.notices = z] = Only({s}, d)
  <2> DEFINE b1 == [b EXCEPT !.rows = x]
             b2 == [b1 EXCEPT !.audit = y]
             b3 == [b2 EXCEPT !.notices = z]
  <2>1. [b EXCEPT !.rows = x, !.audit = y, !.notices = z] = b3
    OBVIOUS
  <2>2. b1 = Database(d.tables, d.columns, d.uniques, d.checks, x, d.audit \cap {},
                      d.notices \cap {})
    BY <1>2 DEF Database
  <2> HIDE DEF b1
  <2>3. b2 = Database(d.tables, d.columns, d.uniques, d.checks, x, y, d.notices \cap {})
    BY <2>2 DEF Database
  <2> HIDE DEF b2
  <2>4. b3 = Database(d.tables, d.columns, d.uniques, d.checks, x, y, z)
    BY <2>3 DEF Database
  <2> QED
    BY <1>3, <2>1, <2>4 DEF b1, b2
<1>5. [b EXCEPT !.rows = x, !.audit = y, !.notices = z] \in Holding(b, s)
  <2> DEFINE Of(x1, y1, z1) == [b EXCEPT !.rows = x1, !.audit = y1, !.notices = z1]
  <2>1. Holding(b, s) = {Of(x1, y1, z1) : x1, y1, z1 \in {{}, {s}}}
    BY DEF Holding
  <2> HIDE DEF Of
  <2>2. Of(x, y, z) \in Holding(b, s)
    BY <1>1, <2>1
  <2> QED
    BY <2>2 DEF Of
<1> QED
  BY <1>4, <1>5 DEF b

\* What the chain was evaluated for holds of each way there is.
LEMMA WayHolds ==
  ASSUME ChainIsSound, NEW r, NEW up \in BOOLEAN, WayExists(r, up)
  PROVE  WayIsSound(r, up)
<1>1. LastRevision \in Nat
  BY DEF LastRevision, Revisions
<1>2. CASE up = TRUE
  <2>1. r \in 0..LastRevision - 1
    BY <1>1, <1>2 DEF WayExists
  <2>2. WayIsSound(r, TRUE)
    BY <2>1 DEF ChainIsSound
  <2> QED
    BY <1>2, <2>2
<1>3. CASE up = FALSE
  <2>1. r \in 1..LastRevision
    BY <1>1, <1>3 DEF WayExists
  <2>2. WayIsSound(r, FALSE)
    BY <2>1 DEF ChainIsSound
  <2> QED
    BY <1>3, <2>2
<1> QED
  BY <1>2, <1>3

\* How a part of the way ends, be it refused or done: no operation met a schema it does
\* not fit; what it leaves has the schema that the next part, or the revision it leads
\* to, expects, and every record where it belongs.
EndsWell(r, up, n, d, held, end) ==
    /\ end.outcome # "impossible"
    /\ end.outcome = "done" =>
         /\ FineDb(end.db) /\ (HasTrade(d) => HasTrade(end.db))
         /\ Only({}, end.db) \in IF n < Len(PartsOf(r, up)) THEN SchemasOnWay(r, up)[n + 1]
                                 ELSE SchemasAt(After(r, up))
         /\ DOMAIN d.tables \subseteq DOMAIN end.db.tables \cup end.locked
         /\ held \subseteq end.locked

\* Each part ends so, whatever records it finds: none of them matters to another.
LEMMA PartOfTheWay ==
  ASSUME ChainIsSound, NEW r, NEW up \in BOOLEAN, WayExists(r, up),
         NEW n \in 1..Len(PartsOf(r, up)), NEW d, NEW held, FineDb(d),
         Only({}, d) \in SchemasOnWay(r, up)[n],
         NEW end, end = Performed(PartsOf(r, up)[n], d, held)
  PROVE  EndsWell(r, up, n, d, held, end)
<1> DEFINE ops == PartsOf(r, up)[n]
           bare == Performed(ops, Only({}, d), {})
           alone(s) == Performed(ops, Only({s}, d), {})
<1>1. /\ Len(ops) \in Nat
      /\ bare.outcome = "done"
      /\ bare.db \in IF n < Len(PartsOf(r, up)) THEN SchemasOnWay(r, up)[n + 1]
                     ELSE SchemasAt(After(r, up))
      /\ \A s \in Records : \A e \in Holding(Only({}, d), s) :
           Placed(e) /\ Traced(e) => KeepsRecord(ops, e)
  <2>1. WayIsSound(r, up)
    BY WayHolds
  <2> QED
    BY <2>1 DEF WayIsSound, After
<1>2. IsDb(d) /\ Placed(d) /\ Traced(d)
  BY DEF FineDb
<1>3. \A R : Alike(R, end, Performed(ops, Only(R, d), {}), DOMAIN d.tables, held)
  <2> HIDE DEF ops
  <2>1. end = Performed(ops, d, held)
    BY DEF ops
  <2> QED
    BY <1>1, <1>2, <2>1, PerformedAgree
<1>4. \A s \in Records : KeepsRecord(ops, Only({s}, d))
  <2> HIDE DEF ops
  <2> QED
    BY <1>1, <1>2, FineOnly, OnlyHolds
<1> HIDE DEF ops
<1>5. end.outcome # "impossible"
  BY <1>1, <1>3 DEF Alike
<1>6. ASSUME end.outcome = "done"
      PROVE  /\ FineDb(end.db) /\ (HasTrade(d) => HasTrade(end.db))
             /\ Only({}, end.db) = bare.db
             /\ DOMAIN d.tables \subseteq DOMAIN end.db.tables \cup end.locked
             /\ held \subseteq end.locked
  <2>1. /\ IsDb(end.db) /\ Only({}, end.db) = bare.db
        /\ DOMAIN d.tables \subseteq DOMAIN end.db.tables \cup end.locked
        /\ held \subseteq end.locked
    BY <1>3, <1>6 DEF Alike, IsState
  <2>2. \A s : alone(s).outcome = "done" /\ alone(s).db = Only({s}, end.db)
    BY <1>3, <1>6 DEF Alike
  <2>3. \A s \in Records : /\ Placed(alone(s).db) /\ Traced(alone(s).db)
                           /\ HasTrade(Only({s}, d)) => HasTrade(alone(s).db)
    BY <1>4, <2>2 DEF KeepsRecord
  <2>4. Placed(end.db) /\ Traced(end.db)
    <3>1. \A s \in Records : Placed(Only({s}, end.db)) /\ Traced(Only({s}, end.db))
      BY <2>2, <2>3
    <3> QED
      BY <2>1, <3>1, FineOnly
  <2>5. HasTrade(d) => HasTrade(end.db)
    <3>1. "trade" \in Records
      BY DEF Records, Written
    <3>2. HasTrade(Only({"trade"}, d)) => HasTrade(Only({"trade"}, end.db))
      BY <2>2, <2>3, <3>1
    <3> QED
      BY <1>2, <2>1, <3>2, FineOnly
  <2> QED
    BY <2>1, <2>4, <2>5 DEF FineDb
<1> QED
  BY <1>1, <1>5, <1>6 DEF EndsWell

\* The invariant: what is committed has a schema its revision may have; what a
\* migration has made of it has one the rest of its way can start from, and differs
\* from what the program writes to in no table that the migration does not hold.
SoundDb(d) == FineDb(d) /\ (settled => HasTrade(d))

OnItsWay ==
    /\ migration = [target |-> migration.target, at |-> migration.at, part |-> migration.part,
                    draft |-> migration.draft, locked |-> migration.locked]
    /\ migration.target \in 0..LastRevision /\ migration.at \in 0..LastRevision
    /\ SoundDb(migration.draft)
    /\ IF migration.at = migration.target
       THEN Only({}, migration.draft) \in SchemasAt(migration.at)
       ELSE /\ migration.part \in 1..Len(Parts)
            /\ Only({}, migration.draft) \in SchemasOnWay(migration.at, Upwards)[migration.part]
    /\ DOMAIN db.tables \subseteq DOMAIN migration.draft.tables \cup migration.locked

MigrationsInv ==
    /\ revision \in 0..LastRevision
    /\ SoundDb(db) /\ Only({}, db) \in SchemasAt(revision)
    /\ Migrating => OnItsWay
    /\ ~impossible

\* The chain is finite.
LEMMA LastIsNatural == LastRevision \in Nat
BY DEF LastRevision, Revisions

\* The empty database is the schema of the first revision.
LEMMA MigrationsInvInit == ASSUME ChainIsSound, MigrationsInit PROVE MigrationsInv
<1>1. db = Database([t \in {} |-> NoRefs], {}, {}, {}, {}, {}, {}) /\ db = EmptyDb
  BY DEF MigrationsInit, EmptyDb, Database
<1>2. /\ db.rows = {} /\ db.audit = {} /\ db.notices = {} /\ IsDb(db)
      /\ Only({}, db) = db
  <2>1. \A R : Only(R, db) = Database([t \in {} |-> NoRefs], {}, {}, {}, {} \cap R, {} \cap R,
                                      {} \cap R)
    BY <1>1, DatabaseFields
  <2> QED
    BY <1>1, <2>1, DatabaseFields
<1>3. FineDb(db)
  BY <1>2 DEF FineDb, Placed, Traced
<1>4. Schemas[0] = EmptyDb /\ Schemas[0] \in SchemasAt(0)
  BY DEF ChainIsSound, SchemasAt
<1>5. revision = 0 /\ ~settled /\ ~impossible /\ ~Migrating /\ 0 \in 0..LastRevision
  BY LastIsNatural DEF MigrationsInit, Migrating
<1>6. Only({}, db) \in SchemasAt(revision)
  BY <1>1, <1>2, <1>4, <1>5
<1> QED
  BY <1>3, <1>5, <1>6 DEF MigrationsInv, SoundDb

\* The first part of a way, from a revision on.
LEMMA WayBegins ==
  ASSUME ChainIsSound, NEW r, NEW up \in BOOLEAN, WayExists(r, up)
  PROVE  1 \in 1..Len(PartsOf(r, up)) /\ SchemasAt(r) \subseteq SchemasOnWay(r, up)[1]
<1>1. WayIsSound(r, up)
  BY WayHolds
<1> QED
  BY <1>1 DEF WayIsSound

\* A migration starts with the database as it is committed.
LEMMA BeginKeepsMigrations ==
  ASSUME ChainIsSound, MigrationsInv, NEW target \in 0..LastRevision, BeginMigration(target)
  PROVE  MigrationsInv'
<1> DEFINE way == [target |-> target, at |-> revision, part |-> 1, draft |-> db, locked |-> {}]
<1>1. migration' = way /\ UNCHANGED <<db, revision, settled, impossible>> /\ target # revision
  BY DEF BeginMigration
<1>2. /\ revision \in 0..LastRevision /\ SoundDb(db) /\ Only({}, db) \in SchemasAt(revision)
      /\ ~impossible
  BY DEF MigrationsInv
<1>3. (target > revision) \in BOOLEAN
  BY <1>2, LastIsNatural
<1>4. WayExists(revision, target > revision)
  BY <1>1, <1>2, LastIsNatural DEF WayExists
<1>5. /\ migration'.target = target /\ migration'.at = revision /\ migration'.part = 1
      /\ migration'.draft = db /\ migration'.locked = {}
  BY <1>1
<1>6. Upwards' = (target > revision) /\ Parts' = PartsOf(revision, target > revision)
  BY <1>5 DEF Upwards, Parts
<1>7. 1 \in 1..Len(Parts') /\ Only({}, db) \in SchemasOnWay(revision, Upwards')[1]
  BY <1>3, <1>2, <1>4, <1>6, WayBegins
<1>8. SoundDb(db)' /\ SoundDb(migration.draft)'
  BY <1>1, <1>2, <1>5 DEF SoundDb
<1>9. (Only({}, db))' = Only({}, db) /\ (Only({}, migration.draft))' = Only({}, db)
  BY <1>1, <1>5
<1>10. OnItsWay'
  <2>1. migration' = [target |-> migration'.target, at |-> migration'.at, part |-> migration'.part,
                      draft |-> migration'.draft, locked |-> migration'.locked]
    BY <1>1
  <2>2. migration'.part \in 1..Len(Parts')
        /\ Only({}, migration'.draft) \in SchemasOnWay(migration'.at, Upwards')[migration'.part]
    BY <1>5, <1>7
  <2> QED
    BY <1>1, <1>2, <1>5, <1>8, <2>1, <2>2 DEF OnItsWay
<1> QED
  BY <1>1, <1>2, <1>8, <1>9, <1>10 DEF MigrationsInv

\* A migration under way goes up or down from a revision it can leave, and its next
\* part ends well.
LEMMA WayGoesOn ==
  ASSUME ChainIsSound, MigrationsInv, Migrating, migration.at # migration.target
  PROVE  /\ Upwards \in BOOLEAN /\ WayExists(migration.at, Upwards)
         /\ \/ Upwards = TRUE /\ migration.at < migration.target /\ migration.at < LastRevision
            \/ Upwards = FALSE /\ migration.target < migration.at /\ migration.at > 0
         /\ EndsWell(migration.at, Upwards, migration.part, migration.draft, migration.locked,
                     Performance)
<1>1. PICK r, target, up : r = migration.at /\ target = migration.target /\ up = Upwards
  OBVIOUS
<1>2. /\ r \in 0..LastRevision /\ target \in 0..LastRevision /\ SoundDb(migration.draft)
      /\ migration.part \in 1..Len(Parts)
      /\ Only({}, migration.draft) \in SchemasOnWay(r, Upwards)[migration.part]
  BY <1>1 DEF MigrationsInv, OnItsWay
<1>3. Upwards = up /\ Parts = PartsOf(r, up)
  BY <1>1 DEF Parts
<1>4. target \in Nat /\ r \in Nat /\ target <= LastRevision /\ r <= LastRevision
  BY <1>2, LastIsNatural
<1>5. up = (target > r)
  BY <1>1 DEF Upwards
<1>6. up \in BOOLEAN
  BY <1>4, <1>5
<1>7. \/ up = TRUE /\ r < target /\ r < LastRevision
      \/ up = FALSE /\ target < r /\ r > 0
  <2>1. up = TRUE => r < target
    BY <1>4, <1>5
  <2>2. up = FALSE => ~(target > r)
    BY <1>5
  <2> QED
    BY <1>1, <1>4, <1>6, <2>1, <2>2, LastIsNatural
<1>8. WayExists(r, up)
  BY <1>2, <1>7 DEF WayExists
<1>9. EndsWell(r, up, migration.part, migration.draft, migration.locked, Performance)
  <2>1. FineDb(migration.draft)
    BY <1>2 DEF SoundDb
  <2>2. migration.part \in 1..Len(PartsOf(r, up))
    BY <1>2, <1>3
  <2>3. Only({}, migration.draft) \in SchemasOnWay(r, up)[migration.part]
    BY <1>2, <1>3
  <2>4. Performance = Performed(PartsOf(r, up)[migration.part], migration.draft, migration.locked)
    BY <1>3 DEF Performance
  <2> QED
    BY <1>6, <1>8, <2>1, <2>2, <2>3, <2>4, PartOfTheWay
<1> QED
  BY <1>1, <1>6, <1>7, <1>8, <1>9

\* A part that is done leads to the next one, to the next revision's way, or to the end.
LEMMA AlterKeepsMigrations ==
  ASSUME ChainIsSound, MigrationsInv, Alter
  PROVE  MigrationsInv'
<1>1. PICK r, target, n, d, held : /\ r = migration.at /\ target = migration.target
                                   /\ n = migration.part /\ d = migration.draft
                                   /\ held = migration.locked
  OBVIOUS
<1>2. PICK up : up = Upwards /\ up = (target > r)
  BY <1>1 DEF Upwards
<1>3. PICK ops : ops = PartsOf(r, up)
  OBVIOUS
<1>4. PICK end : end = Performance
  OBVIOUS
<1>5. /\ Migrating /\ r # target /\ end.outcome = "done" /\ Upwards = up /\ Parts = ops
      /\ UNCHANGED <<db, revision, settled, impossible>>
      /\ migration' = [migration EXCEPT
                       !.draft = end.db, !.locked = end.locked,
                       !.part = IF n < Len(ops) THEN n + 1 ELSE 1,
                       !.at = IF n < Len(ops) THEN r
                              ELSE IF up THEN r + 1 ELSE r - 1]
  BY <1>1, <1>2, <1>3, <1>4 DEF Alter, Parts, Upwards
<1> DEFINE nextPart == IF n < Len(ops) THEN n + 1 ELSE 1
           nextAt == IF n < Len(ops) THEN r ELSE After(r, up)
<1>6. /\ revision \in 0..LastRevision /\ SoundDb(db) /\ Only({}, db) \in SchemasAt(revision)
      /\ ~impossible /\ OnItsWay
  BY <1>5 DEF MigrationsInv
<1>7. /\ migration = [target |-> target, at |-> r, part |-> n, draft |-> d, locked |-> held]
      /\ r \in 0..LastRevision /\ target \in 0..LastRevision /\ SoundDb(d)
      /\ n \in 1..Len(ops) /\ Only({}, d) \in SchemasOnWay(r, up)[n]
      /\ DOMAIN db.tables \subseteq DOMAIN d.tables \cup held
  BY <1>1, <1>5, <1>6 DEF OnItsWay
<1>8. migration' = [target |-> target, at |-> nextAt, part |-> nextPart, draft |-> end.db,
                    locked |-> end.locked]
  BY <1>5, <1>7 DEF After
<1> HIDE DEF nextPart, nextAt
<1>9. /\ migration'.target = target /\ migration'.at = nextAt /\ migration'.part = nextPart
      /\ migration'.draft = end.db /\ migration'.locked = end.locked
  BY <1>8
<1>10. /\ up \in BOOLEAN /\ WayExists(r, up)
       /\ \/ up = TRUE /\ r < target /\ r < LastRevision
          \/ up = FALSE /\ target < r /\ r > 0
       /\ EndsWell(r, up, n, d, held, end)
  <2>1. Migrating /\ r # target
    BY <1>5
  <2>2. r = migration.at /\ target = migration.target
    BY <1>1
  <2>3. /\ up \in BOOLEAN /\ WayExists(r, up)
        /\ \/ up = TRUE /\ r < target /\ r < LastRevision
           \/ up = FALSE /\ target < r /\ r > 0
        /\ EndsWell(r, up, migration.part, migration.draft, migration.locked, Performance)
    <3>1. /\ Upwards \in BOOLEAN /\ WayExists(migration.at, Upwards)
          /\ \/ Upwards = TRUE /\ migration.at < migration.target /\ migration.at < LastRevision
             \/ Upwards = FALSE /\ migration.target < migration.at /\ migration.at > 0
          /\ EndsWell(migration.at, Upwards, migration.part, migration.draft, migration.locked,
                      Performance)
      BY <2>1, <2>2, WayGoesOn
    <3> QED
      BY <1>2, <2>2, <3>1
  <2> QED
    BY <1>1, <1>4, <2>3
<1>11. /\ FineDb(end.db) /\ (HasTrade(d) => HasTrade(end.db))
       /\ Only({}, end.db) \in IF n < Len(ops) THEN SchemasOnWay(r, up)[n + 1]
                               ELSE SchemasAt(After(r, up))
       /\ DOMAIN d.tables \subseteq DOMAIN end.db.tables \cup end.locked
       /\ held \subseteq end.locked
  BY <1>3, <1>5, <1>10 DEF EndsWell
<1>12. SoundDb(db)' /\ SoundDb(migration.draft)'
  BY <1>5, <1>6, <1>7, <1>9, <1>11 DEF SoundDb
<1>13. DOMAIN db'.tables \subseteq DOMAIN migration'.draft.tables \cup migration'.locked
  BY <1>5, <1>7, <1>9, <1>11
<1>14. /\ Upwards' = (target > nextAt) /\ Parts' = PartsOf(nextAt, Upwards')
  BY <1>9 DEF Upwards, Parts
<1>15. /\ nextAt \in 0..LastRevision
       /\ IF nextAt = target THEN Only({}, end.db) \in SchemasAt(nextAt)
          ELSE /\ nextPart \in 1..Len(Parts')
               /\ Only({}, end.db) \in SchemasOnWay(nextAt, Upwards')[nextPart]
  <2>1. Len(ops) \in Nat
    <3>1. WayIsSound(r, up)
      BY <1>10, WayHolds
    <3> QED
      BY <1>3, <3>1 DEF WayIsSound
  <2>2. CASE n < Len(ops)
    <3>1. nextAt = r /\ nextPart = n + 1 /\ Upwards' = up /\ Parts' = ops
      BY <1>2, <1>3, <1>14, <2>2 DEF nextAt, nextPart
    <3>2. n + 1 \in 1..Len(ops)
      BY <1>7, <2>1, <2>2
    <3>3. Only({}, end.db) \in SchemasOnWay(r, up)[n + 1]
      BY <1>11, <2>2
    <3> QED
      BY <1>5, <1>7, <3>1, <3>2, <3>3
  <2>3. CASE ~(n < Len(ops))
    <3>1. nextAt = After(r, up) /\ nextPart = 1 /\ Only({}, end.db) \in SchemasAt(nextAt)
      BY <1>11, <2>3 DEF nextAt, nextPart
    <3>2. nextAt \in 0..LastRevision
      BY <1>7, <1>10, <3>1, LastIsNatural DEF After
    <3>3. CASE nextAt = target
      BY <3>1, <3>2, <3>3
    <3>4. CASE nextAt # target
      <4>1. \/ up = TRUE /\ nextAt < target
            \/ up = FALSE /\ target < nextAt
        BY <1>7, <1>10, <3>1, <3>4, LastIsNatural DEF After
      <4>2. Upwards' = up
        BY <1>7, <1>10, <1>14, <3>2, <4>1, LastIsNatural
      <4>3. WayExists(nextAt, up)
        BY <1>7, <3>2, <4>1, LastIsNatural DEF WayExists
      <4>4. /\ 1 \in 1..Len(PartsOf(nextAt, up))
            /\ SchemasAt(nextAt) \subseteq SchemasOnWay(nextAt, up)[1]
        BY <1>10, <4>3, WayBegins
      <4> QED
        BY <1>14, <3>1, <3>2, <3>4, <4>2, <4>4
    <3> QED
      BY <3>3, <3>4
  <2> QED
    BY <2>2, <2>3
<1>16. OnItsWay'
  <2>1. migration' = [target |-> migration'.target, at |-> migration'.at, part |-> migration'.part,
                      draft |-> migration'.draft, locked |-> migration'.locked]
    BY <1>8, <1>9
  <2>2. Only({}, migration'.draft) = Only({}, end.db)
    BY <1>9
  <2> QED
    BY <1>7, <1>9, <1>12, <1>13, <1>15, <2>1, <2>2 DEF OnItsWay
<1> QED
  BY <1>5, <1>6, <1>12, <1>16 DEF MigrationsInv

\* What is committed becomes what the migration made, or stays what it was.
LEMMA CommitKeepsMigrations ==
  ASSUME ChainIsSound, MigrationsInv, CommitMigration
  PROVE  MigrationsInv'
<1>1. /\ Migrating /\ migration.at = migration.target /\ db' = migration.draft
      /\ revision' = migration.target /\ migration' = NoMigration
      /\ UNCHANGED <<settled, impossible>>
  BY DEF CommitMigration
<1>2. /\ migration.target \in 0..LastRevision /\ SoundDb(migration.draft)
      /\ Only({}, migration.draft) \in SchemasAt(migration.target) /\ ~impossible
  BY <1>1 DEF MigrationsInv, OnItsWay
<1>3. Only({}, db') \in SchemasAt(revision')
  <2>1. Only({}, db') = Only({}, migration.draft)
    BY <1>1
  <2> QED
    BY <1>1, <1>2, <2>1
<1>4. SoundDb(db)'
  BY <1>1, <1>2 DEF SoundDb
<1> QED
  BY <1>1, <1>2, <1>3, <1>4 DEF MigrationsInv, Migrating

\* A migration that is refused or dies leaves the database as it was; what refuses it is
\* never a schema that does not fit.
LEMMA EndingKeepsMigrations ==
  ASSUME ChainIsSound, MigrationsInv, Refuse \/ Die
  PROVE  MigrationsInv'
<1>1. migration' = NoMigration /\ UNCHANGED <<db, revision, settled>>
  BY DEF Refuse, Die
<1>2. ~impossible'
  <2>1. ~impossible
    BY DEF MigrationsInv
  <2>2. CASE Refuse
    <3>1. /\ Migrating /\ migration.at # migration.target
          /\ impossible' = (impossible \/ Performance.outcome = "impossible")
      BY <2>2 DEF Refuse
    <3>2. EndsWell(migration.at, Upwards, migration.part, migration.draft, migration.locked,
                   Performance)
      BY <3>1, WayGoesOn
    <3> QED
      BY <2>1, <3>1, <3>2 DEF EndsWell
  <2>3. CASE Die
    BY <2>1, <2>3 DEF Die
  <2> QED
    BY <2>2, <2>3
<1>3. SoundDb(db)' /\ Only({}, db') = Only({}, db)
  BY <1>1 DEF MigrationsInv, SoundDb
<1> QED
  BY <1>1, <1>2, <1>3 DEF MigrationsInv, Migrating

\* A record the program writes is where it belongs, and changes no schema.
LEMMA KeptIsFine ==
  ASSUME NEW r \in Records, NEW d, FineDb(d), TablesOf(r) \subseteq DOMAIN d.tables
  PROVE  /\ FineDb(Kept(r, d)) /\ Kept(r, d).tables = d.tables
         /\ Only({}, Kept(r, d)) = Only({}, d)
         /\ HasTrade(d) \/ r = "trade" => HasTrade(Kept(r, d))
<1> DEFINE x == IF Written[r].tables # {} THEN d.rows \cup {r} ELSE d.rows
           y == IF IsAudited(r) THEN d.audit \cup {r} ELSE d.audit
           z == IF IsNoticed(r) THEN d.notices \cup {r} ELSE d.notices
           k == Kept(r, d)
<1>1. IsDb(d) /\ Placed(d) /\ Traced(d)
  BY DEF FineDb
<1>2. d = Database(d.tables, d.columns, d.uniques, d.checks, d.rows, d.audit, d.notices)
  BY <1>1 DEF IsDb
<1>3. k = Database(d.tables, d.columns, d.uniques, d.checks, x, y, z)
  <2>1. k = [d EXCEPT !.rows = x, !.audit = y, !.notices = z]
    BY DEF Kept
  <2> HIDE DEF k, x, y, z
  <2> DEFINE b1 == [d EXCEPT !.rows = x]
             b2 == [b1 EXCEPT !.audit = y]
             b3 == [b2 EXCEPT !.notices = z]
  <2>2. [d EXCEPT !.rows = x, !.audit = y, !.notices = z] = b3
    OBVIOUS
  <2>3. b1 = Database(d.tables, d.columns, d.uniques, d.checks, x, d.audit, d.notices)
    BY <1>2 DEF Database
  <2> HIDE DEF b1
  <2>4. b2 = Database(d.tables, d.columns, d.uniques, d.checks, x, y, d.notices)
    BY <2>3 DEF Database
  <2> HIDE DEF b2
  <2>5. b3 = Database(d.tables, d.columns, d.uniques, d.checks, x, y, z)
    BY <2>4 DEF Database
  <2> QED
    BY <2>1, <2>2, <2>5 DEF b1, b2
<1>4. x \subseteq Records /\ y \subseteq Records /\ z \subseteq Records
  BY <1>1 DEF IsDb
<1>5. /\ k.tables = d.tables /\ k.rows = x /\ k.audit = y /\ k.notices = z /\ IsDb(k)
      /\ Only({}, k) = Database(d.tables, d.columns, d.uniques, d.checks, x \cap {}, y \cap {},
                                z \cap {})
  <2> HIDE DEF k, x, y, z
  <2> QED
    BY <1>3, <1>4, DatabaseFields
<1>6. Only({}, k) = Only({}, d)
  <2>1. /\ x \cap {} = d.rows \cap {} /\ y \cap {} = d.audit \cap {}
        /\ z \cap {} = d.notices \cap {}
    OBVIOUS
  <2> HIDE DEF k, x, y, z
  <2> QED
    BY <1>5, <2>1 DEF Only
<1> HIDE DEF k
<1>7. Placed(k)
  <2>1. /\ Written[r].tables \subseteq DOMAIN k.tables
        /\ IsAudited(r) => "audit_logs" \in DOMAIN k.tables
        /\ IsNoticed(r) => "notifications" \in DOMAIN k.tables
    BY <1>5 DEF TablesOf
  <2>2. \A q \in k.rows : Written[q].tables # {} /\ Written[q].tables \subseteq DOMAIN k.tables
    BY <1>1, <1>5, <2>1 DEF Placed
  <2>3. \A q \in k.audit : IsAudited(q) /\ "audit_logs" \in DOMAIN k.tables
    BY <1>1, <1>5, <2>1 DEF Placed, HasTable
  <2>4. \A q \in k.notices : IsNoticed(q) /\ "notifications" \in DOMAIN k.tables
    BY <1>1, <1>5, <2>1 DEF Placed, HasTable
  <2> QED
    BY <2>2, <2>3, <2>4 DEF Placed, HasTable
<1>8. Traced(k)
  BY <1>1, <1>5 DEF Traced
<1>9. HasTrade(d) \/ r = "trade" => HasTrade(k)
  <2>1. Written["trade"].tables # {} /\ IsAudited("trade")
    BY DEF Written, IsAudited, Audited, NoKind
  <2> QED
    BY <1>5, <2>1 DEF HasTrade
<1> QED
  BY <1>5, <1>6, <1>7, <1>8, <1>9 DEF FineDb, k

\* What the program writes during a migration is in what the migration leaves, too: it
\* touches no table that the migration holds or took away.
LEMMA SaveKeepsMigrations ==
  ASSUME ChainIsSound, MigrationsInv, NEW r \in Records, Save(r)
  PROVE  MigrationsInv'
<1>1. /\ TablesOf(r) \subseteq DOMAIN db.tables
      /\ Migrating => TablesOf(r) \cap migration.locked = {}
      /\ db' = Kept(r, db)
      /\ migration' = IF Migrating THEN [migration EXCEPT !.draft = Kept(r, migration.draft)]
                      ELSE migration
      /\ settled' = (settled \/ r = "trade") /\ UNCHANGED <<revision, impossible>>
  BY DEF Save, HasTable
<1>2. /\ revision \in 0..LastRevision /\ SoundDb(db) /\ Only({}, db) \in SchemasAt(revision)
      /\ ~impossible
  BY DEF MigrationsInv
<1>3. /\ FineDb(db') /\ db'.tables = db.tables /\ Only({}, db') = Only({}, db)
      /\ settled' => HasTrade(db')
  BY <1>1, <1>2, KeptIsFine DEF SoundDb
<1>4. SoundDb(db)'
  BY <1>3 DEF SoundDb
<1>5. CASE ~Migrating
  <2>1. ~Migrating'
    BY <1>1, <1>5 DEF Migrating
  <2> QED
    BY <1>1, <1>2, <1>3, <1>4, <2>1 DEF MigrationsInv
<1>6. CASE Migrating
  <2>1. PICK m : m = migration
    OBVIOUS
  <2>2. /\ m = [target |-> m.target, at |-> m.at, part |-> m.part, draft |-> m.draft,
                locked |-> m.locked]
        /\ m.target \in 0..LastRevision /\ m.at \in 0..LastRevision
        /\ FineDb(m.draft) /\ (settled => HasTrade(m.draft))
        /\ IF m.at = m.target THEN Only({}, m.draft) \in SchemasAt(m.at)
           ELSE /\ m.part \in 1..Len(Parts)
                /\ Only({}, m.draft) \in SchemasOnWay(m.at, Upwards)[m.part]
        /\ DOMAIN db.tables \subseteq DOMAIN m.draft.tables \cup m.locked
    BY <1>6, <2>1 DEF MigrationsInv, OnItsWay, SoundDb
  <2>3. PICK k : k = Kept(r, m.draft)
    OBVIOUS
  <2>4. migration' = [target |-> m.target, at |-> m.at, part |-> m.part, draft |-> k,
                      locked |-> m.locked]
    <3>1. migration' = [m EXCEPT !.draft = k]
      BY <1>1, <1>6, <2>1, <2>3
    <3> QED
      BY <2>2, <3>1
  <2>5. /\ migration'.target = m.target /\ migration'.at = m.at /\ migration'.part = m.part
        /\ migration'.draft = k /\ migration'.locked = m.locked
    BY <2>4
  <2>6. TablesOf(r) \subseteq DOMAIN m.draft.tables
    BY <1>1, <1>6, <2>1, <2>2
  <2>7. /\ FineDb(k) /\ k.tables = m.draft.tables /\ Only({}, k) = Only({}, m.draft)
        /\ HasTrade(m.draft) \/ r = "trade" => HasTrade(k)
    BY <2>2, <2>3, <2>6, KeptIsFine
  <2>8. Upwards' = Upwards /\ Parts' = Parts
    BY <2>1, <2>5 DEF Upwards, Parts
  <2>9. SoundDb(migration.draft)'
    BY <1>1, <2>2, <2>5, <2>7 DEF SoundDb
  <2>10. migration' = [target |-> migration'.target, at |-> migration'.at, part |-> migration'.part,
                       draft |-> migration'.draft, locked |-> migration'.locked]
    BY <2>4, <2>5
  <2>11. Only({}, migration'.draft) = Only({}, m.draft)
    BY <2>5, <2>7
  <2>12. OnItsWay'
    BY <1>3, <2>2, <2>5, <2>7, <2>8, <2>9, <2>10, <2>11 DEF OnItsWay
  <2> QED
    BY <1>1, <1>2, <1>3, <1>4, <2>12 DEF MigrationsInv
<1> QED
  BY <1>5, <1>6

\* The table made by hand is the one its revision would make.
LEMMA PricesKeepMigrations ==
  ASSUME ChainIsSound, MigrationsInv, MakeMarketPrices
  PROVE  MigrationsInv'
<1>1. PICK tables : tables = WithMore(db.tables, "market_prices", NoRefs)
  OBVIOUS
<1>2. /\ ~Migrating /\ ~HasTable("market_prices", db)
      /\ db' = WithTables(db, tables)
      /\ UNCHANGED <<revision, migration, settled, impossible>>
  BY <1>1 DEF MakeMarketPrices, WithTables
<1>3. /\ revision \in 0..LastRevision /\ FineDb(db) /\ (settled => HasTrade(db))
      /\ Only({}, db) \in SchemasAt(revision) /\ ~impossible /\ IsDb(db)
  BY DEF MigrationsInv, SoundDb, FineDb
<1>4. /\ db' = Database(tables, db.columns, db.uniques, db.checks, db.rows, db.audit, db.notices)
      /\ db.rows \subseteq Records /\ db.audit \subseteq Records /\ db.notices \subseteq Records
  BY <1>2, <1>3, DatabaseExcept DEF IsDb
<1>5. /\ db'.tables = tables /\ db'.rows = db.rows /\ db'.audit = db.audit
      /\ db'.notices = db.notices /\ IsDb(db')
      /\ Only({}, db') = Database(tables, db.columns, db.uniques, db.checks, db.rows \cap {},
                                  db.audit \cap {}, db.notices \cap {})
  BY <1>4, DatabaseFields
<1>6. DOMAIN db.tables \subseteq DOMAIN tables
  BY <1>1 DEF WithMore
<1>7. FineDb(db') /\ (settled => HasTrade(db'))
  <2>1. Placed(db')
    BY <1>3, <1>5, <1>6 DEF FineDb, Placed, HasTable
  <2>2. Traced(db')
    BY <1>3, <1>5 DEF FineDb, Traced
  <2> QED
    BY <1>3, <1>5, <2>1, <2>2 DEF FineDb, HasTrade
<1>8. Only({}, db') \in SchemasAt(revision)
  <2>1. Only({}, db).tables = db.tables
    BY <1>3, OnlyIs
  <2>2. BeforePrices(revision)
    BY <1>2, <1>3, <2>1 DEF ChainIsSound, SchemasAt, HasTable
  <2>3. Only({}, db) \in {Schemas[revision], WithPrices(Schemas[revision])}
    BY <1>3, <2>2 DEF SchemasAt
  <2>4. Only({}, db) # WithPrices(Schemas[revision])
    <3> SUFFICES ASSUME Only({}, db) = WithPrices(Schemas[revision]) PROVE FALSE
      OBVIOUS
    <3>1. "tables" \in DOMAIN Only({}, db)
      BY DEF Only, Database
    <3> DEFINE more == WithMore(Schemas[revision].tables, "market_prices", NoRefs)
    <3>2. Only({}, db) = [Schemas[revision] EXCEPT !.tables = more]
      BY DEF WithPrices
    <3>3. "market_prices" \in DOMAIN more
      BY DEF WithMore
    <3> HIDE DEF more
    <3>4. "tables" \in DOMAIN Schemas[revision]
      BY <3>1, <3>2
    <3>5. Only({}, db).tables = more
      BY <3>2, <3>4
    <3> QED
      BY <1>2, <2>1, <3>3, <3>5 DEF HasTable
  <2>5. Only({}, db') = WithTables(Only({}, db), tables)
    BY <1>5, DatabaseExcept DEF Only
  <2>6. WithPrices(Only({}, db)) = WithTables(Only({}, db), tables)
    BY <1>1, <2>1 DEF WithPrices, WithTables
  <2> QED
    BY <2>2, <2>3, <2>4, <2>5, <2>6 DEF SchemasAt
<1>9. SoundDb(db)'
  BY <1>2, <1>7 DEF SoundDb
<1> QED
  BY <1>2, <1>3, <1>8, <1>9 DEF MigrationsInv, Migrating

\* Every step keeps the invariant.
LEMMA MigrationsInvNext ==
  ASSUME ChainIsSound, MigrationsInv, [MigrationsNext]_migrationVars
  PROVE  MigrationsInv'
<1>1. ASSUME NEW target \in 0..LastRevision, BeginMigration(target) PROVE MigrationsInv'
  BY <1>1, BeginKeepsMigrations
<1>2. CASE Alter
  BY <1>2, AlterKeepsMigrations
<1>3. CASE CommitMigration
  BY <1>3, CommitKeepsMigrations
<1>4. CASE Refuse \/ Die
  BY <1>4, EndingKeepsMigrations
<1>5. ASSUME NEW r \in Records, Save(r) PROVE MigrationsInv'
  BY <1>5, SaveKeepsMigrations
<1>6. CASE MakeMarketPrices
  BY <1>6, PricesKeepMigrations
<1>7. CASE UNCHANGED migrationVars
  <2>1. UNCHANGED <<db, revision, migration, settled, impossible>>
    BY <1>7 DEF migrationVars
  <2> QED
    BY <2>1 DEF MigrationsInv, SoundDb, OnItsWay, Migrating, Upwards, Parts
<1> QED
  BY <1>1, <1>2, <1>3, <1>4, <1>5, <1>6, <1>7 DEF MigrationsNext

\* What the invariant says of the schema of a database at rest.
LEMMA MigrationsInvSafe == ASSUME ChainIsSound, MigrationsInv PROVE MigrationsSafe
<1>1. /\ revision \in 0..LastRevision /\ FineDb(db) /\ (settled => HasTrade(db))
      /\ Only({}, db) \in SchemasAt(revision) /\ ~impossible /\ IsDb(db)
  BY DEF MigrationsInv, SoundDb, FineDb
<1>2. PICK s : s = Schemas[revision]
  OBVIOUS
<1>3. PICK bare : bare = Only({}, db)
  OBVIOUS
<1>4. /\ bare.tables = db.tables /\ bare.columns = db.columns /\ bare.uniques = db.uniques
      /\ bare.checks = db.checks
  BY <1>1, <1>3, OnlyIs
<1>5. PICK less : less = [db EXCEPT !.tables = WithoutPrices(@)]
  OBVIOUS
<1>6. /\ less.tables = WithoutPrices(db.tables) /\ less.columns = db.columns
      /\ less.uniques = db.uniques /\ less.checks = db.checks
  <2>1. db = Database(db.tables, db.columns, db.uniques, db.checks, db.rows, db.audit, db.notices)
    BY <1>1 DEF IsDb
  <2> DEFINE tables == WithoutPrices(db.tables)
  <2>2. less = WithTables(db, tables)
    BY <1>5 DEF WithTables
  <2> HIDE DEF tables
  <2>3. less = Database(tables, db.columns, db.uniques, db.checks, db.rows, db.audit, db.notices)
    BY <2>1, <2>2, DatabaseExcept
  <2>4. /\ less.tables = tables /\ less.columns = db.columns /\ less.uniques = db.uniques
        /\ less.checks = db.checks
    BY <2>3, DatabaseFields
  <2> QED
    BY <2>4 DEF tables
<1>7. ASSUME ~BeforePrices(revision) PROVE Shape(db) = Shape(s)
  <2>1. bare = s
    BY <1>1, <1>2, <1>3, <1>7 DEF SchemasAt
  <2> QED
    BY <1>4, <2>1 DEF Shape
<1>8. ASSUME BeforePrices(revision) PROVE Shape(less) = Shape(s)
  <2>1. WithoutPrices(s.tables) = s.tables
    BY <1>1, <1>2, <1>8 DEF ChainIsSound
  <2>2. bare = s \/ bare = WithPrices(s)
    BY <1>1, <1>2, <1>3 DEF SchemasAt
  <2>3. CASE bare = s
    BY <1>4, <1>6, <2>1, <2>3 DEF Shape
  <2>4. CASE bare = WithPrices(s)
    <3> DEFINE more == WithMore(s.tables, "market_prices", NoRefs)
    <3>1. WithoutPrices(more) = s.tables
      <4>1. "market_prices" \notin DOMAIN s.tables
            /\ s.tables = [t \in DOMAIN s.tables |-> s.tables[t]]
        BY <2>1 DEF WithoutPrices
      <4>2. DOMAIN more \ {"market_prices"} = DOMAIN s.tables
            /\ \A t \in DOMAIN s.tables : more[t] = s.tables[t]
        BY <4>1 DEF WithMore
      <4>3. WithoutPrices(more) = [t \in DOMAIN s.tables |-> more[t]]
        BY <4>2 DEF WithoutPrices
      <4> HIDE DEF more
      <4> QED
        BY <4>1, <4>2, <4>3
    <3>2. bare = [s EXCEPT !.tables = more]
      BY <2>4 DEF WithPrices
    <3> HIDE DEF more
    <3>3. {"tables", "columns", "uniques", "checks"} \subseteq DOMAIN s
      <4>1. {"tables", "columns", "uniques", "checks"} \subseteq DOMAIN bare
        BY <1>3 DEF Only, Database
      <4> QED
        BY <3>2, <4>1
    <3>4. /\ bare.tables = more /\ bare.columns = s.columns /\ bare.uniques = s.uniques
          /\ bare.checks = s.checks
      BY <3>2, <3>3
    <3> QED
      BY <1>4, <1>6, <3>1, <3>4 DEF Shape
  <2> QED
    BY <2>2, <2>3, <2>4
<1>9. SchemaIsOfRevision
  BY <1>2, <1>5, <1>7, <1>8 DEF SchemaIsOfRevision
<1>10. HeadIsTheModel
  <2> SUFFICES ASSUME revision = LastRevision
               PROVE  /\ db.tables = MappedTables
                      /\ {<<c.check, c.values>> : c \in db.checks} =
                           {<<"audit_entity", AuditEntity>>, <<"audit_action", AuditAction>>,
                            <<"notification_type", NotificationType>>}
    BY DEF HeadIsTheModel
  <2>1. ~BeforePrices(revision) /\ s.tables = MappedTables
        /\ {<<c.check, c.values>> : c \in s.checks} =
              {<<"audit_entity", AuditEntity>>, <<"audit_action", AuditAction>>,
               <<"notification_type", NotificationType>>}
    BY <1>2 DEF ChainIsSound
  <2>2. bare = s
    BY <1>1, <1>2, <1>3, <2>1 DEF SchemasAt
  <2>3. db.tables = s.tables /\ db.checks = s.checks
    BY <1>4, <2>2
  <2> QED
    BY <2>1, <2>3
<1>11. TradesOutlive /\ TracesHaveRecords /\ ChainFits
  BY <1>1 DEF TradesOutlive, TracesHaveRecords, ChainFits, HasTrade, FineDb, Traced
<1> QED
  BY <1>9, <1>10, <1>11 DEF MigrationsSafe

(* Whatever way led to a revision, its schema is the one the chain builds   *)
(* from nothing; the head is the mapped model; no migration fails on a      *)
(* schema; and none drops a settled trade or leaves the traces of a record *)
(* it dropped, however the running release writes meanwhile, migrations    *)
(* are refused or die, and operators downgrade (database/migrations).      *)
THEOREM MigrationsAreSafe == MigrationsSpec => []MigrationsSafe
<1>1. MigrationsInit => MigrationsInv
  BY ChainAssumption, MigrationsInvInit
<1>2. MigrationsInv /\ [MigrationsNext]_migrationVars => MigrationsInv'
  BY ChainAssumption, MigrationsInvNext
<1>3. MigrationsInv => MigrationsSafe
  BY ChainAssumption, MigrationsInvSafe
<1> QED
  BY <1>1, <1>2, <1>3, PTL DEF MigrationsSpec

-----------------------------------------------------------------------------
(* The workspace. Its parts share nothing: a step of the workspace is a     *)
(* step of one part and leaves the others, and every part but the projects *)
(* starts where it starts alone. The projects start with a few rows.       *)

LEMMA ProjectsStart == WorkStart => WorkInv
<1> SUFFICES ASSUME WorkStart PROVE WorkInv
  OBVIOUS
<1>1. /\ task \in [Tasks -> TaskRow \cup {NoTask}]
      /\ \A t \in Tasks : task[t] = NoTask \/ (task[t].status = "todo" /\ ~task[t].completedAt)
  BY DEF WorkStart, TaskRow, TaskStatuses
<1>2. WorkItemsTypeOK
  BY <1>1, WorkItemsAssumption, IdleFits DEF WorkStart, WorkItemsTypeOK, ProjectNames
<1>3. ArchivedStaysFrozen /\ CommitsWhatItRead /\ CompletionHasItsTime
  BY <1>1, IdleFits DEF WorkStart, ArchivedStaysFrozen, CompletionHasItsTime, CommitsWhatItRead
<1>4. ActiveNamesDiffer
  BY WorkItemsAssumption DEF WorkStart, ActiveNamesDiffer, Created
<1>5. \A c \in Clients : client[c] = NoRequestUnderWay
  BY DEF WorkStart
<1> QED
  BY <1>2, <1>3, <1>4, <1>5, IdleFits DEF WorkInv, WorkItemsSafe, Holds, OneCreator

\* What the workspace does to a part, the part does alone.
LEMMA PartsStart ==
  WorkspaceInit => /\ OutreachInit /\ SessionsInit /\ ConversationsInit /\ CrmInit /\ CachesInit /\ WorkInv
                   /\ NoticesInit /\ DocumentsInit /\ RiskInit /\ MicrosoftInit
                   /\ RegistrationsInit /\ MigrationsInit
BY ProjectsStart DEF WorkspaceInit

LEMMA PartsStep ==
  ASSUME [WorkspaceNext]_workspaceVars
  PROVE  /\ [OutreachNext]_outreachVars /\ [SessionsNext]_sessionVars /\ [ConversationsNext]_conversationVars
         /\ [CrmNext]_crmVars /\ [CachesNext]_cacheVars /\ [WorkItemsNext]_workItemsVars
         /\ [NoticesNext]_noticeVars /\ [DocumentsNext]_documentVars /\ [RiskNext]_riskVars
         /\ [MicrosoftNext]_microsoftVars /\ [RegistrationsNext]_registrationVars
         /\ [MigrationsNext]_migrationVars
<1>1. [OutreachNext]_outreachVars
  BY DEF WorkspaceNext, workspaceVars, OutreachNext
<1> QED
  BY <1>1 DEF WorkspaceNext, workspaceVars, otherVars

LEMMA WorkspaceParts ==
  WorkspaceSpec => /\ OutreachSpec /\ SessionsSpec /\ ConversationsSpec /\ CrmSpec /\ CachesSpec
                   /\ []WorkInv /\ NoticesSpec /\ DocumentsSpec /\ RiskSpec
                   /\ MicrosoftSpec /\ RegistrationsSpec /\ MigrationsSpec
BY PartsStart, PartsStep, WorkInvStep, PTL
DEF WorkspaceSpec, OutreachSpec, SessionsSpec, ConversationsSpec, CrmSpec, CachesSpec, NoticesSpec,
    DocumentsSpec, RiskSpec, MicrosoftSpec, RegistrationsSpec, MigrationsSpec

(* No migration of the schema loses what it must keep, whatever the other   *)
(* parts of the workspace do (database/migrations).                        *)
THEOREM SchemaIsSafe == WorkspaceSpec => []SchemaSafe
<1>1. MigrationsSafe => SchemaSafe
  BY DEF SchemaSafe
<1> QED
  BY <1>1, WorkspaceParts, MigrationsAreSafe, PTL

(* What the workspace's run checks: for any number of messages, requests,  *)
(* jobs, uploads, executions, rows and records, no part of the workspace   *)
(* breaks its promise, and no part disturbs another.                       *)
THEOREM WorkspaceIsSafe ==
  WorkspaceSpec =>
    /\ [](/\ OutreachSafe /\ SessionsSafe /\ ConversationsSafe /\ CrmSafe /\ CachesSafe
          /\ RecordsSafe /\ SchemaSafe)
    /\ LaunchedStepsStay
    /\ ImplementsSendItem
<1>1. /\ WorkInv => WorkItemsSafe
      /\ WorkItemsSafe /\ NoticesSafe /\ DocumentsSafe /\ RiskGateSafe /\ MicrosoftSafe
           /\ RegistrationsSafe => RecordsSafe
  BY DEF WorkInv, RecordsSafe
<1> QED
  BY <1>1, WorkspaceParts, OutreachIsSafe, LaunchedStepsAreKept, OutreachImplementsSendItem,
     SessionsAreSafe, ConversationsAreSafe, CrmIsSafe, DashboardIsFresh, NoticesAreSafe,
     DocumentsAreSafe, RiskGateIsSafe, MicrosoftIsSafe, RegistrationsAreSafe,
     SchemaIsSafe, PTL
=============================================================================
