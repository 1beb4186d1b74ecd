--------------------------- MODULE AccountSessions ---------------------------
(***************************************************************************)
(* The sign-in sessions of one account (auth/service.py). A session is a   *)
(* family of refresh-token rows: a refresh locks its token, revokes it and *)
(* inserts the child in one commit; logging out, changing the password and *)
(* the like revoke whatever the UPDATE finds. The one-time links that are  *)
(* mailed to the user (SecurityToken) are issued and consumed beside them. *)
(*                                                                         *)
(* Transactions are READ COMMITTED: an UPDATE takes the rows of its        *)
(* snapshot, waits for those another transaction has locked, and looks at  *)
(* each again. It is modelled as the snapshot and one later step.          *)
(* Not modelled: passwords, MFA, rate limits, expiry (the JWT of a row is  *)
(* refused when the row expires) and the history rows written alongside.   *)
(***************************************************************************)
EXTENDS Integers, FiniteSets

CONSTANTS
    Tokens,      \* refresh-token rows that may be written
    Families,    \* sessions
    Requests,    \* HTTP requests that may be under way at once
    Links,       \* SecurityToken rows that may be written
    NoToken, NoFamily, NoLink

ASSUME SessionsAssumption ==
    /\ IsFiniteSet(Tokens) /\ IsFiniteSet(Links)
    /\ NoToken \notin Tokens /\ NoFamily \notin Families /\ NoLink \notin Links

Purposes == {"email_verification", "password_reset", "email_change"}
LinkStates == {"unissued", "active", "invalidated", "consumed"}

\* What a transaction does to the account's row: nothing, an UPDATE, or an UPDATE
\* of the unique e-mail column, which no new reference to the row gets past.
UserLocks == {"none", "update", "key"}

VARIABLES
    family,    \* [Tokens -> family_id], NoFamily before the INSERT
    parent,    \* [Tokens -> parent_jti]
    revoked,   \* rows with a revoked_at
    link,      \* [Links -> [purpose, state]]
    uses,      \* history: committed consumptions of a link
    txn        \* [Requests -> its transaction]

tokenVars == <<family, parent, revoked>>
linkVars == <<link, uses>>
sessionVars == <<tokenVars, linkVars, txn>>

Transaction ==
    [stage : {"idle", "rotate", "sweep", "issue", "mail"},
     token : Tokens \cup {NoToken},     \* refresh token consumed, row locked
     link : Links \cup {NoLink},        \* link consumed, row locked
     user : UserLocks,
     targets : SUBSET Tokens,           \* rows an UPDATE is to revoke
     links : SUBSET Links]              \* rows an UPDATE invalidates
NoTxn == [stage |-> "idle", token |-> NoToken, link |-> NoLink, user |-> "none",
          targets |-> {}, links |-> {}]

SessionsTypeOK ==
    /\ family \in [Tokens -> Families \cup {NoFamily}]
    /\ parent \in [Tokens -> Tokens \cup {NoToken}]
    /\ revoked \subseteq Tokens
    /\ link \in [Links -> [purpose : Purposes, state : LinkStates]]
    /\ uses \in [Links -> Nat]
    /\ txn \in [Requests -> Transaction]

SessionsInit ==
    /\ family = [t \in Tokens |-> NoFamily]
    /\ parent = [t \in Tokens |-> NoToken]
    /\ revoked = {}
    /\ link = [l \in Links |-> [purpose |-> "email_verification", state |-> "unissued"]]
    /\ uses = [l \in Links |-> 0]
    /\ txn = [r \in Requests |-> NoTxn]

Idle(r) == txn[r].stage = "idle"
Begin(r, fields) == txn' = [txn EXCEPT ![r] = fields]
End(r) == txn' = [txn EXCEPT ![r] = NoTxn]

Issued == {t \in Tokens : family[t] # NoFamily}
ActiveTokens == Issued \ revoked
FamilyTokens(f) == {t \in ActiveTokens : family[t] = f}
FreshToken(t) == t = CHOOSE s \in Tokens : s \notin Issued
FreshFamily(f) == f = CHOOSE g \in Families : g \notin {family[t] : t \in Tokens}
FreshLink(l) ==
    l = CHOOSE k \in Links : link[k].state = "unissued" /\ \A q \in Requests : txn[q].link # k

TokenLockedBy(r, t) == txn[r].token = t
LinkLockedBy(r, l) == txn[r].link = l \/ (txn[r].stage = "mail" /\ l \in txn[r].links)
UserFree(r) == \A q \in Requests \ {r} : txn[q].user = "none"
Unlocked(r, S) == \A q \in Requests \ {r} : \A t \in S : ~TokenLockedBy(q, t)
LinksUnlocked(r, S) == \A q \in Requests \ {r} : \A l \in S : ~LinkLockedBy(q, l)

-----------------------------------------------------------------------------
(* Refresh tokens.                                                         *)

\* RefreshTokenSession rows of issue_token_pair.
Insert(t, f, p) ==
    /\ family' = [family EXCEPT ![t] = f]
    /\ parent' = [parent EXCEPT ![t] = p]

\* The account's row is updated and the first token of a new session inserted.
Login(r, f) ==
    /\ Idle(r) /\ UserFree(r)
    /\ f \notin {family[t] : t \in Tokens} /\ FreshFamily(f)
    /\ \E t \in Tokens \ Issued : FreshToken(t) /\ Insert(t, f, NoToken)
    /\ UNCHANGED <<revoked, linkVars, txn>>

\* Faulty variant of Consumable: the token is read without a lock.
ConsumableUnlocked(r, t) == t \in Issued

\* SELECT ... FOR UPDATE of the token waits for its lock and then sees whether
\* the row is still active.
Consumable(r, t) == t \in Issued /\ Unlocked(r, {t})
StillActive(t) == t \notin revoked

\* revoke_family: the UPDATE of a family's active rows.
RevokeFamily(f, own) == FamilyTokens(f) \ own

Refresh(r, t) ==
    /\ Idle(r) /\ Consumable(r, t) /\ StillActive(t)
    /\ Begin(r, [NoTxn EXCEPT !.stage = "rotate", !.token = t])
    /\ UNCHANGED <<tokenVars, linkVars>>

\* A token that was used before ends its whole family.
RefreshReused(r, t) ==
    /\ Idle(r) /\ Consumable(r, t) /\ ~StillActive(t)
    /\ Begin(r, [NoTxn EXCEPT !.stage = "sweep", !.targets = RevokeFamily(family[t], {})])
    /\ UNCHANGED <<tokenVars, linkVars>>

\* The child refers to the account: its INSERT waits for a change of the key.
IssueChild(r) ==
    /\ txn[r].stage = "rotate"
    /\ \A q \in Requests : txn[q].user # "key"
    /\ \E t \in Tokens \ Issued :
         FreshToken(t) /\ Insert(t, family[txn[r].token], txn[r].token)
    /\ revoked' = revoked \cup {txn[r].token}
    /\ End(r)
    /\ UNCHANGED linkVars

\* The account was deactivated or its token names another one: all is undone.
\* So it is when the deadlock detector chooses this request.
RollBack(r) ==
    /\ txn[r].stage \in {"rotate", "sweep"}
    /\ End(r)
    /\ UNCHANGED <<tokenVars, linkVars>>

LogOut(r, t) ==
    /\ Idle(r) /\ Consumable(r, t)
    /\ LET own == {t} \cap ActiveTokens
       IN Begin(r, [NoTxn EXCEPT !.stage = "sweep",
                       !.token = IF own = {} THEN NoToken ELSE t,
                       !.targets = RevokeFamily(family[t], own)])
    /\ UNCHANGED <<tokenVars, linkVars>>

\* The session must be in list_sessions.
RevokeSession(r, f) ==
    /\ Idle(r) /\ FamilyTokens(f) # {}
    /\ Begin(r, [NoTxn EXCEPT !.stage = "sweep", !.targets = RevokeFamily(f, {})])
    /\ UNCHANGED <<tokenVars, linkVars>>

\* revoke_all_for_user, with what the transaction locked before it.
RevokeAll(r, l, userLock) ==
    /\ userLock # "none" => UserFree(r)
    /\ Begin(r, [NoTxn EXCEPT !.stage = "sweep", !.link = l, !.user = userLock,
                    !.targets = ActiveTokens])

LogOutAll(r) ==
    /\ Idle(r) /\ RevokeAll(r, NoLink, "none")
    /\ UNCHANGED <<tokenVars, linkVars>>

ChangePassword(r) ==
    /\ Idle(r) /\ RevokeAll(r, NoLink, "update")
    /\ UNCHANGED <<tokenVars, linkVars>>

Consume(L) ==
    /\ link' = [l \in Links |-> IF l \in L THEN [link[l] EXCEPT !.state = "consumed"] ELSE link[l]]
    /\ uses' = [l \in Links |-> uses[l] + (IF l \in L THEN 1 ELSE 0)]

\* The rows of the snapshot are free: those still active are revoked. The
\* transaction commits.
EndSweep(r) ==
    /\ txn[r].stage = "sweep"
    /\ Unlocked(r, txn[r].targets)
    /\ revoked' = revoked \cup txn[r].targets \cup ({txn[r].token} \cap Tokens)
    /\ Consume({txn[r].link} \cap Links)
    /\ End(r)
    /\ UNCHANGED <<family, parent>>

-----------------------------------------------------------------------------
(* One-time links.                                                         *)

ActiveLinks(p) == {l \in Links : link[l] = [purpose |-> p, state |-> "active"]}

\* get_active_for_consumption: waits for the row and sees whether it is active.
Consumes(r, l, p) == Idle(r) /\ LinksUnlocked(r, {l}) /\ l \in ActiveLinks(p)

VerifyEmail(r, l) ==
    /\ Consumes(r, l, "email_verification") /\ UserFree(r)
    /\ Consume({l})
    /\ UNCHANGED <<tokenVars, txn>>

ResetPassword(r, l) ==
    /\ Consumes(r, l, "password_reset") /\ RevokeAll(r, l, "update")
    /\ UNCHANGED <<tokenVars, linkVars>>

\* Undone as a whole when the address turns out to be taken (RollBack).
ConfirmEmailChange(r, l) ==
    /\ Consumes(r, l, "email_change") /\ RevokeAll(r, l, "key")
    /\ UNCHANGED <<tokenVars, linkVars>>

\* _issue_security_token: the UPDATE of invalidate_active ...
IssueLink(r, p) ==
    /\ Idle(r)
    /\ \E l \in Links :
         /\ link[l].state = "unissued" /\ \A q \in Requests : txn[q].link # l
         /\ FreshLink(l)
         /\ Begin(r, [NoTxn EXCEPT !.stage = "issue", !.link = l, !.links = ActiveLinks(p)])
         /\ link' = [link EXCEPT ![l].purpose = p]
    /\ UNCHANGED <<tokenVars, uses>>

\* ... waits for its rows, keeps those still active, and the link is mailed.
InvalidateActive(r) ==
    /\ txn[r].stage = "issue" /\ LinksUnlocked(r, txn[r].links)
    /\ txn' = [txn EXCEPT ![r].stage = "mail",
                  ![r].links = {l \in @ : link[l].state = "active"}]
    /\ UNCHANGED <<tokenVars, linkVars>>

\* The commit follows the mail.
LinkSent(r) ==
    /\ txn[r].stage = "mail"
    /\ link' = [l \in Links |->
                  CASE l = txn[r].link -> [link[l] EXCEPT !.state = "active"]
                    [] l \in txn[r].links -> [link[l] EXCEPT !.state = "invalidated"]
                    [] OTHER -> link[l]]
    /\ End(r)
    /\ UNCHANGED <<tokenVars, uses>>

\* EmailDeliveryError: nothing was issued, nothing invalidated.
LinkNotSent(r) ==
    /\ txn[r].stage = "mail"
    /\ End(r)
    /\ UNCHANGED <<tokenVars, linkVars>>

ResendVerification(r) == IssueLink(r, "email_verification")
RequestPasswordReset(r) == IssueLink(r, "password_reset")
RequestEmailChange(r) == IssueLink(r, "email_change")

SessionsNext == \E r \in Requests :
    \/ \E f \in Families : Login(r, f) \/ RevokeSession(r, f)
    \/ \E t \in Tokens : Refresh(r, t) \/ RefreshReused(r, t) \/ LogOut(r, t)
    \/ \E l \in Links : VerifyEmail(r, l) \/ ResetPassword(r, l) \/ ConfirmEmailChange(r, l)
    \/ IssueChild(r) \/ RollBack(r) \/ LogOutAll(r) \/ ChangePassword(r) \/ EndSweep(r)
    \/ ResendVerification(r) \/ RequestPasswordReset(r) \/ RequestEmailChange(r)
    \/ InvalidateActive(r) \/ LinkSent(r) \/ LinkNotSent(r)

SessionsSpec == SessionsInit /\ [][SessionsNext]_sessionVars

-----------------------------------------------------------------------------
(* A session has at most one refresh token that can still be used, however *)
(* refreshes, a reuse of an old token and log-outs interleave              *)
(* (refresh_token_pair).                                                   *)
OneActiveToken == \A f \in Families : Cardinality(FamilyTokens(f)) <= 1

(* A token is exchanged at most once, for a token of its own session, and  *)
(* is revoked in the same commit.                                          *)
RotationIsAChain ==
    \A t \in Issued : parent[t] # NoToken =>
        /\ parent[t] \in revoked
        /\ family[parent[t]] = family[t]
        /\ \A s \in Issued : parent[s] = parent[t] => s = t

(* A mailed link takes effect at most once, and one that took effect is    *)
(* never overwritten by the issue of the next.                             *)
LinksUsedOnce == \A l \in Links : uses[l] = IF link[l].state = "consumed" THEN 1 ELSE 0

SessionsSafe == SessionsTypeOK /\ OneActiveToken /\ RotationIsAChain /\ LinksUsedOnce
=============================================================================
