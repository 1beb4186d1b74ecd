--------------------------- MODULE MicrosoftAccess ---------------------------
(***************************************************************************)
(* The Microsoft account of one user in one workspace                      *)
(* (integrations/microsoft.py, integrations/microsoft_graph.py). Nothing   *)
(* locks a credential row and no index keeps an account to one row: a call *)
(* reads, talks to the provider, and writes the columns it changed later.  *)
(* Not modelled: a second account of the user, the cipher, the expiry of   *)
(* an OAuth state (refused like a consumed one) and the membership check.  *)
(***************************************************************************)
EXTENDS Integers, FiniteSets

CONSTANTS
    Grants,       \* OAuth states
    MaxCodes,     \* bound: codes the provider sends back for one state
    Credentials,  \* rows that may be written
    GraphCalls,   \* HTTP requests and tool calls that may be under way at once
    NoCredential,
    MaxTokens     \* bound: token pairs the provider issues

MaxSends == 3
CredentialRow == [token : 1 .. MaxTokens, revoked : BOOLEAN]

\* An authorization URL that is opened twice brings back two codes for its state,
\* both for the same PKCE challenge; the verifier of another state refuses them.
Codes == Grants \X (1 .. MaxCodes)
StateOf(k) == k[1]

ASSUME MicrosoftAssumption ==
    /\ MaxTokens \in Nat /\ MaxCodes \in Nat
    /\ NoCredential \notin Codes \cup Credentials \cup CredentialRow

VARIABLES
    oauthState, \* [Grants -> its OAuthState row]
    spent,      \* codes the provider has exchanged
    issued,     \* token pairs the provider has issued, numbered
    credential, \* [Credentials -> [token, revoked], NoCredential before the INSERT]
    graphCall,  \* [GraphCalls -> the request]
    stored,     \* history: [Codes -> credentials written with it]
    presented,  \* history: [Grants -> codes in callbacks when it was consumed]
    undone      \* history: a disconnect that a call which never saw it has undone

microsoftVars == <<oauthState, spent, issued, credential, graphCall, stored, presented, undone>>

\* A request's own copy: the code it came with, the row it works on, the token it
\* holds, what it read of revoked_at, how often it has sent and whether it was
\* renewed for a 401, whether it is a verification, and the rows it disconnects.
Call == [step : {"idle", "exchange", "find", "store", "send", "again", "renew", "leave"},
         code : Codes \cup {NoCredential}, row : Credentials \cup {NoCredential},
         token : 0 .. MaxTokens, revoked : BOOLEAN, sends : 0 .. MaxSends,
         forced : BOOLEAN, status : BOOLEAN, rows : SUBSET Credentials]
NoCall == [step |-> "idle", code |-> NoCredential, row |-> NoCredential, token |-> 0,
           revoked |-> FALSE, sends |-> 0, forced |-> FALSE, status |-> FALSE, rows |-> {}]

MicrosoftTypeOK ==
    /\ oauthState \in [Grants -> {"none", "open", "consumed"}]
    /\ spent \subseteq Codes
    /\ issued \in 0 .. MaxTokens
    /\ credential \in [Credentials -> CredentialRow \cup {NoCredential}]
    /\ graphCall \in [GraphCalls -> Call]
    /\ stored \in [Codes -> Nat]
    /\ presented \in [Grants -> SUBSET Codes]
    /\ undone \in BOOLEAN

MicrosoftInit ==
    /\ oauthState = [g \in Grants |-> "none"]
    /\ spent = {} /\ issued = 0
    /\ credential = [x \in Credentials |-> NoCredential]
    /\ graphCall = [c \in GraphCalls |-> NoCall]
    /\ stored = [k \in Codes |-> 0]
    /\ presented = [g \in Grants |-> {}]
    /\ undone = FALSE

KnownRows == {x \in Credentials : credential[x] # NoCredential}
ActiveRows == {x \in KnownRows : ~credential[x].revoked}
InStep(c, s) == graphCall[c].step = s
Becomes(c, fields) == graphCall' = [graphCall EXCEPT ![c] = fields]
Ends(c) == Becomes(c, NoCall)
CodesUnderWay(g) == {k \in Codes : StateOf(k) = g /\ \E c \in GraphCalls : graphCall[c].code = k}
FreshGrant(g) == g = CHOOSE h \in Grants : oauthState[h] = "none"
FreshRow(x) == x = CHOOSE y \in Credentials : credential[y] = NoCredential

-----------------------------------------------------------------------------
(* Connecting the account.                                                 *)

AuthorizeUrl(g) ==
    /\ oauthState[g] = "none" /\ FreshGrant(g)
    /\ oauthState' = [oauthState EXCEPT ![g] = "open"]
    /\ UNCHANGED <<spent, issued, credential, graphCall, stored, presented, undone>>

\* Faulty variant of BeginCallback: consumed_at is not looked at.
BeginCallbackUnchecked(c, k) ==
    /\ InStep(c, "idle") /\ oauthState[StateOf(k)] # "none"
    /\ Becomes(c, [NoCall EXCEPT !.step = "exchange", !.code = k])
    /\ UNCHANGED <<oauthState, spent, issued, credential, stored, presented, undone>>

\* The state is looked up without a lock, and not again before the commit.
BeginCallback(c, k) ==
    /\ InStep(c, "idle") /\ oauthState[StateOf(k)] = "open"
    /\ Becomes(c, [NoCall EXCEPT !.step = "exchange", !.code = k])
    /\ UNCHANGED <<oauthState, spent, issued, credential, stored, presented, undone>>

\* The provider takes a code once.
Exchange(c) ==
    /\ InStep(c, "exchange")
    /\ IF graphCall[c].code \notin spent /\ issued < MaxTokens
       THEN /\ spent' = spent \cup {graphCall[c].code}
            /\ issued' = issued + 1
            /\ \/ Becomes(c, [graphCall[c] EXCEPT !.step = "find", !.token = issued + 1])
               \/ Ends(c)     \* the answer or the profile call failed
       ELSE Ends(c) /\ UNCHANGED <<spent, issued>>
    /\ UNCHANGED <<oauthState, credential, stored, presented, undone>>

\* The row of the account, if there is one, active or revoked.
FindCredential(c) ==
    /\ InStep(c, "find")
    /\ \/ /\ KnownRows = {}
          /\ Becomes(c, [graphCall[c] EXCEPT !.step = "store"])
       \/ \E x \in KnownRows :
            Becomes(c, [graphCall[c] EXCEPT !.step = "store", !.row = x,
                           !.revoked = credential[x].revoked])
    /\ UNCHANGED <<oauthState, spent, issued, credential, stored, presented, undone>>

\* Faulty variant of Connected: the UPDATE always clears revoked_at.
ConnectedAgain(row, token, readRevoked) == [row EXCEPT !.token = token, !.revoked = FALSE]

\* Only columns that differ from what was read are written: revoked_at is cleared
\* only by a callback that had read it set.
Connected(row, token, readRevoked) ==
    [row EXCEPT !.token = token, !.revoked = @ /\ ~readRevoked]

StoreCredential(c) ==
    /\ InStep(c, "store")
    /\ LET x == graphCall[c].row IN
       \/ /\ x # NoCredential
          /\ credential' = [credential EXCEPT ![x] = Connected(@, graphCall[c].token, graphCall[c].revoked)]
          /\ undone' = (undone \/ (credential[x].revoked /\ ~credential'[x].revoked
                                     /\ ~graphCall[c].revoked))
       \/ /\ x = NoCredential
          /\ \E y \in Credentials \ KnownRows :
               /\ FreshRow(y)
               /\ credential' = [credential EXCEPT ![y] = [token |-> graphCall[c].token, revoked |-> FALSE]]
          /\ UNCHANGED undone
    /\ LET g == StateOf(graphCall[c].code) IN
       /\ oauthState' = [oauthState EXCEPT ![g] = "consumed"]
       /\ presented' = [presented EXCEPT ![g] = IF oauthState[g] = "open" THEN CodesUnderWay(g) ELSE @]
    /\ stored' = [stored EXCEPT ![graphCall[c].code] = @ + 1]
    /\ Ends(c)
    /\ UNCHANGED <<spent, issued>>

BeginDisconnect(c) ==
    /\ InStep(c, "idle")
    /\ Becomes(c, [NoCall EXCEPT !.step = "leave", !.rows = ActiveRows])
    /\ UNCHANGED <<oauthState, spent, issued, credential, stored, presented, undone>>

Disconnect(c) ==
    /\ InStep(c, "leave")
    /\ credential' = [x \in Credentials |->
                        IF x \in graphCall[c].rows THEN [credential[x] EXCEPT !.revoked = TRUE]
                        ELSE credential[x]]
    /\ Ends(c)
    /\ UNCHANGED <<oauthState, spent, issued, stored, presented, undone>>

-----------------------------------------------------------------------------
(* Using it.                                                               *)

\* resolve: one active row, or the call ends. A token about to expire is renewed
\* first. The verification keeps the row it has looked up.
Resolve(c, x) ==
    /\ InStep(c, "idle") /\ ActiveRows = {x}
    /\ \E status \in BOOLEAN, s \in {"send", "renew"} :
         Becomes(c, [NoCall EXCEPT !.step = s, !.row = x, !.token = credential[x].token,
                        !.status = status])
    /\ UNCHANGED <<oauthState, spent, issued, credential, stored, presented, undone>>

\* 401: resolve again, with a refresh. The session of a verification still holds
\* the row as it was read before.
ResolveAgain(c) ==
    /\ InStep(c, "again")
    /\ \/ \E x \in Credentials :
            /\ ActiveRows = {x}
            /\ Becomes(c, [graphCall[c] EXCEPT !.step = "renew", !.row = x,
                              !.token = IF graphCall[c].status THEN @ ELSE credential[x].token])
       \/ /\ Cardinality(ActiveRows) # 1
          /\ Ends(c)
    /\ UNCHANGED <<oauthState, spent, issued, credential, stored, presented, undone>>

\* The answer of the provider and the commit that follows it.
Renewed(c) ==
    /\ InStep(c, "renew") /\ issued < MaxTokens
    /\ issued' = issued + 1
    /\ credential' = [credential EXCEPT ![graphCall[c].row].token = issued + 1]
    /\ Becomes(c, IF graphCall[c].sends < MaxSends
                  THEN [graphCall[c] EXCEPT !.step = "send", !.token = issued + 1]
                  ELSE NoCall)
    /\ UNCHANGED <<oauthState, spent, stored, presented, undone>>

\* 400, 401, 403: the authorization must be renewed.
RenewalRefused(c) ==
    /\ InStep(c, "renew")
    /\ credential' = [credential EXCEPT ![graphCall[c].row].revoked = TRUE]
    /\ Ends(c)
    /\ UNCHANGED <<oauthState, spent, issued, stored, presented, undone>>

RenewalFails(c) ==
    /\ InStep(c, "renew")
    /\ Ends(c)
    /\ UNCHANGED <<oauthState, spent, issued, credential, stored, presented, undone>>

\* One round of the loop: sent, and answered with 401, with 429 or 5xx, or with
\* what ends the call.
SendGraph(c) ==
    /\ InStep(c, "send")
    /\ LET tried == [graphCall[c] EXCEPT !.sends = @ + 1] IN
       \/ /\ ~graphCall[c].forced
          /\ Becomes(c, [tried EXCEPT !.step = "again", !.forced = TRUE])
       \/ /\ tried.sends < MaxSends
          /\ Becomes(c, tried)
       \/ Ends(c)
    /\ UNCHANGED <<oauthState, spent, issued, credential, stored, presented, undone>>

MicrosoftNext ==
    \/ \E g \in Grants : AuthorizeUrl(g)
    \/ \E c \in GraphCalls :
         \/ \E k \in Codes : BeginCallback(c, k)
         \/ Exchange(c) \/ FindCredential(c) \/ StoreCredential(c)
         \/ BeginDisconnect(c) \/ Disconnect(c)
         \/ \E x \in Credentials : Resolve(c, x)
         \/ ResolveAgain(c) \/ Renewed(c) \/ RenewalRefused(c) \/ RenewalFails(c) \/ SendGraph(c)

MicrosoftSpec == MicrosoftInit /\ [][MicrosoftNext]_microsoftVars

-----------------------------------------------------------------------------
(* A code that comes back twice leads to one credential write at most, a   *)
(* state is consumed by one, and from then on only the callbacks write     *)
(* that had already come in: they do not look at the state again, so       *)
(* several codes of one state may each write (complete_callback).          *)
ConsumedStateHolds ==
    /\ \A g \in Grants :
         oauthState[g] = "consumed" <=> \E k \in Codes : StateOf(k) = g /\ stored[k] # 0
    /\ \A k \in Codes : stored[k] <= 1 /\ (stored[k] = 1 => k \in presented[StateOf(k)])

(* An account that was disconnected stays so for every call that did not   *)
(* see it disconnected: neither a callback nor a token renewal under way   *)
(* makes its row usable again.                                             *)
DisconnectHolds == ~undone

(* A request is sent at most three times, however 401 and 429 alternate:   *)
(* the type of sends.                                                      *)
MicrosoftSafe == MicrosoftTypeOK /\ ConsumedStateHolds /\ DisconnectHolds
=============================================================================
