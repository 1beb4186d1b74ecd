---------------------------- MODULE Registrations ----------------------------
(***************************************************************************)
(* Registration of accounts (auth/service.py, auth/roles.py,               *)
(* auth/security.py, intelligence/access.py) and the default agent their   *)
(* workspaces are granted. A request is two transactions: it is counted,   *)
(* and then the roles, the account with its workspace, the grant and the   *)
(* verification link are written and the mail is sent before the commit.   *)
(* Unique indexes make an insert wait for another one under way.           *)
(* Not modelled: names and passwords, the limits of the other routes, the  *)
(* tools bootstrapped with the agent.                                      *)
(***************************************************************************)
EXTENDS Naturals, FiniteSets, Sequences

CONSTANTS
    Applicants,      \* registrations that may be under way at once
    Addresses,       \* e-mail addresses
    Assistants,      \* agents that may be the default
    HourlyLimit,     \* registration_rate_limit_per_hour, of one client address
    LastHour,        \* bound: windows of the limit
    MaxArrivals,     \* bound: registrations asked for
    NoAddress, NoAssistant

ASSUME RegistrationsAssumption ==
    /\ HourlyLimit \in Nat \ {0} /\ LastHour \in Nat /\ MaxArrivals \in Nat
    /\ NoAddress \notin Addresses /\ NoAssistant \notin Assistants

DEFAULT_ROLES == <<"administrator", "executive", "manager", "analyst", "viewer">>
DefaultRoles == {DEFAULT_ROLES[i] : i \in DOMAIN DEFAULT_ROLES}
DEFAULT_USER_ROLE == "manager"

VARIABLES
    roleNames,      \* committed roles
    account,        \* [Addresses -> absent, or the roles and the grant of its account]
    counted,        \* [windows -> count of its bucket, 0 before it has a row]
    hour,           \* the current window
    applicant,      \* [Applicants -> the request]
    assistant,      \* the default agent
    change,         \* the transaction that changes the default
    arrivals,
    admitted,       \* history: [windows -> requests the limit has let through]
    linksMailed,    \* history: addresses a verification link was sent to
    duplicates      \* history: addresses answered to be registered already

registrationVars == <<roleNames, account, counted, hour, applicant, assistant, change,
                      arrivals, admitted, linksMailed, duplicates>>

Windows == 0 .. LastHour
NoAccount == [exists |-> FALSE, roles |-> {}, grant |-> NoAssistant]
Registered(m) == account[m].exists
NotRegistering == [step |-> "idle", address |-> NoAddress, window |-> 0, count |-> 0,
         missing |-> {}, inserted |-> {}, agent |-> NoAssistant]
SameDefault == [step |-> "none", target |-> NoAssistant]

Applicant ==
    [step : {"idle", "count", "bucket", "counted", "look up", "read roles", "seed",
             "default", "grant", "mail", "commit"},
     address : Addresses \cup {NoAddress}, window : Windows, count : Nat,
     missing : SUBSET DefaultRoles, inserted : SUBSET DefaultRoles,
     agent : Assistants \cup {NoAssistant}]

RegistrationsTypeOK ==
    /\ roleNames \subseteq DefaultRoles
    /\ account \in [Addresses -> [exists : BOOLEAN, roles : SUBSET DefaultRoles,
                                  grant : Assistants \cup {NoAssistant}]]
    /\ counted \in [Windows -> Nat] /\ hour \in Windows
    /\ applicant \in [Applicants -> Applicant]
    /\ assistant \in Assistants \cup {NoAssistant}
    /\ change \in [step : {"none", "target", "all"}, target : Assistants \cup {NoAssistant}]
    /\ arrivals \in 0 .. MaxArrivals
    /\ admitted \in [Windows -> Nat]
    /\ linksMailed \subseteq Addresses /\ duplicates \subseteq Addresses

\* A database whose roles are still to be seeded, or were.
RegistrationsInit ==
    /\ roleNames \in {{}, DefaultRoles}
    /\ account = [m \in Addresses |-> NoAccount]
    /\ counted = [w \in Windows |-> 0] /\ hour = 0
    /\ applicant = [a \in Applicants |-> NotRegistering]
    /\ assistant = NoAssistant /\ change = SameDefault
    /\ arrivals = 0 /\ admitted = [w \in Windows |-> 0]
    /\ linksMailed = {} /\ duplicates = {}

At(a, step) == applicant[a].step = step
Moves(a, step) == applicant' = [applicant EXCEPT ![a].step = step]
LeavesOff(a) == applicant' = [applicant EXCEPT ![a] = NotRegistering]

-----------------------------------------------------------------------------
(* The limit: one bucket per window, committed before the count is judged.  *)

NextHour ==
    /\ hour < LastHour
    /\ hour' = hour + 1
    /\ UNCHANGED <<roleNames, account, counted, applicant, assistant, change, arrivals,
                   admitted, linksMailed, duplicates>>

Arrive(a, m) ==
    /\ At(a, "idle") /\ arrivals < MaxArrivals
    /\ applicant' = [applicant EXCEPT ![a] =
                       [NotRegistering EXCEPT !.step = "count", !.address = m, !.window = hour]]
    /\ arrivals' = arrivals + 1
    /\ UNCHANGED <<roleNames, account, counted, hour, assistant, change, admitted,
                   linksMailed, duplicates>>

\* Faulty variant of BucketHeld: the bucket is read without FOR UPDATE.
BucketNeverHeld(a) == FALSE

\* Another request has incremented or inserted the bucket and has not committed.
BucketHeld(a) ==
    \E b \in Applicants \ {a} : At(b, "counted") /\ applicant[b].window = applicant[a].window

CountOf(a) == counted[applicant[a].window] + 1
Counts(a) == applicant' = [applicant EXCEPT ![a].step = "counted", ![a].count = CountOf(a)]

FindBucket(a) ==
    /\ At(a, "count")
    /\ \/ counted[applicant[a].window] = 0 /\ Moves(a, "bucket")
       \/ counted[applicant[a].window] > 0 /\ ~BucketHeld(a) /\ Counts(a)
    /\ UNCHANGED <<roleNames, account, counted, hour, assistant, change, arrivals, admitted,
                   linksMailed, duplicates>>

\* The insert waits for another one; if that commits, the row is read and locked.
InsertBucket(a) ==
    /\ At(a, "bucket") /\ ~BucketHeld(a)
    /\ Counts(a)
    /\ UNCHANGED <<roleNames, account, counted, hour, assistant, change, arrivals, admitted,
                   linksMailed, duplicates>>

CommitCount(a) ==
    /\ At(a, "counted")
    /\ counted' = [counted EXCEPT ![applicant[a].window] = applicant[a].count]
    /\ \/ applicant[a].count > HourlyLimit /\ LeavesOff(a) /\ UNCHANGED admitted
       \/ /\ applicant[a].count <= HourlyLimit /\ Moves(a, "look up")
          /\ admitted' = [admitted EXCEPT ![applicant[a].window] = @ + 1]
    /\ UNCHANGED <<roleNames, account, hour, assistant, change, arrivals, linksMailed,
                   duplicates>>

-----------------------------------------------------------------------------
(* The registration.                                                        *)

\* DuplicateEmailError
TellDuplicate(a) == LeavesOff(a) /\ duplicates' = duplicates \cup {applicant[a].address}

LookUpAddress(a) ==
    /\ At(a, "look up")
    /\ \/ Registered(applicant[a].address) /\ TellDuplicate(a)
       \/ ~Registered(applicant[a].address) /\ Moves(a, "read roles") /\ UNCHANGED duplicates
    /\ UNCHANGED <<roleNames, account, counted, hour, assistant, change, arrivals, admitted,
                   linksMailed>>

ReadRoles(a) ==
    /\ At(a, "read roles")
    /\ applicant' = [applicant EXCEPT ![a].step = "seed",
                                      ![a].missing = DefaultRoles \ roleNames]
    /\ UNCHANGED <<roleNames, account, counted, hour, assistant, change, arrivals, admitted,
                   linksMailed, duplicates>>

\* The missing roles are inserted in the order of DEFAULT_ROLES.
NextRoles(a) ==
    {DEFAULT_ROLES[i] : i \in {j \in DOMAIN DEFAULT_ROLES :
        /\ DEFAULT_ROLES[j] \in applicant[a].missing
        /\ \A k \in 1 .. j - 1 : DEFAULT_ROLES[k] \notin applicant[a].missing}}

RoleHeld(a, r) == \E b \in Applicants \ {a} : r \in applicant[b].inserted

\* A role committed meanwhile undoes the savepoint and is used as it is.
SeedRole(a, r) ==
    /\ At(a, "seed") /\ r \in NextRoles(a) /\ ~RoleHeld(a, r)
    /\ applicant' = [applicant EXCEPT
                       ![a].missing = @ \ {r},
                       ![a].inserted = IF r \in roleNames THEN @ ELSE @ \cup {r}]
    /\ UNCHANGED <<roleNames, account, counted, hour, assistant, change, arrivals, admitted,
                   linksMailed, duplicates>>

AccountFlushed(a) == applicant[a].step \in {"default", "grant", "mail", "commit"}
AddressHeld(a) ==
    \E b \in Applicants \ {a} : AccountFlushed(b) /\ applicant[b].address = applicant[a].address

\* User, tenant, workspace and membership are flushed. The unique address may have
\* been committed after the look-up.
InsertAccount(a) ==
    /\ At(a, "seed") /\ applicant[a].missing = {} /\ ~AddressHeld(a)
    /\ \/ Registered(applicant[a].address) /\ TellDuplicate(a)
       \/ ~Registered(applicant[a].address) /\ Moves(a, "default") /\ UNCHANGED duplicates
    /\ UNCHANGED <<roleNames, account, counted, hour, assistant, change, arrivals, admitted,
                   linksMailed>>

\* Without a default agent the workspace is granted none.
ReadDefault(a) ==
    /\ At(a, "default")
    /\ applicant' = [applicant EXCEPT
                       ![a].agent = assistant,
                       ![a].step = IF assistant = NoAssistant THEN "mail" ELSE "grant"]
    /\ UNCHANGED <<roleNames, account, counted, hour, assistant, change, arrivals, admitted,
                   linksMailed, duplicates>>

\* Agents the change of the default holds FOR UPDATE.
HeldByChange ==
    CASE change.step = "none" -> {}
      [] change.step = "target" -> {change.target}
      [] change.step = "all" -> {change.target, assistant}

\* The foreign key of the grant needs the agent's row.
InsertGrant(a) ==
    /\ At(a, "grant") /\ applicant[a].agent \notin HeldByChange
    /\ Moves(a, "mail")
    /\ UNCHANGED <<roleNames, account, counted, hour, assistant, change, arrivals, admitted,
                   linksMailed, duplicates>>

\* The link is mailed before the commit; a mail that fails rolls everything back.
MailLink(a) ==
    /\ At(a, "mail")
    /\ \/ Moves(a, "commit") /\ linksMailed' = linksMailed \cup {applicant[a].address}
       \/ LeavesOff(a) /\ UNCHANGED linksMailed
    /\ UNCHANGED <<roleNames, account, counted, hour, assistant, change, arrivals, admitted,
                   duplicates>>

CommitRegistration(a) ==
    /\ At(a, "commit")
    /\ roleNames' = roleNames \cup applicant[a].inserted
    /\ account' = [account EXCEPT ![applicant[a].address] =
                     [exists |-> TRUE, roles |-> {DEFAULT_USER_ROLE},
                      grant |-> applicant[a].agent]]
    /\ LeavesOff(a)
    /\ UNCHANGED <<counted, hour, assistant, change, arrivals, admitted, linksMailed,
                   duplicates>>

Vanish(a) ==
    /\ ~At(a, "idle") /\ LeavesOff(a)
    /\ UNCHANGED <<roleNames, account, counted, hour, assistant, change, arrivals, admitted,
                   linksMailed, duplicates>>

-----------------------------------------------------------------------------
(* The default agent: bootstrap before a deployment, or an administrator.    *)

GrantHeld(g) ==
    \E a \in Applicants : applicant[a].step \in {"mail", "commit"} /\ applicant[a].agent = g

LockTarget(g) ==
    /\ change.step = "none" /\ assistant # g /\ ~GrantHeld(g)
    /\ change' = [step |-> "target", target |-> g]
    /\ UNCHANGED <<roleNames, account, counted, hour, applicant, assistant, arrivals, admitted,
                   linksMailed, duplicates>>

LockDefault ==
    /\ change.step = "target" /\ (assistant # NoAssistant => ~GrantHeld(assistant))
    /\ change' = [change EXCEPT !.step = "all"]
    /\ UNCHANGED <<roleNames, account, counted, hour, applicant, assistant, arrivals, admitted,
                   linksMailed, duplicates>>

CommitDefault ==
    /\ change.step = "all"
    /\ assistant' = change.target /\ change' = SameDefault
    /\ UNCHANGED <<roleNames, account, counted, hour, applicant, arrivals, admitted,
                   linksMailed, duplicates>>

RegistrationsNext ==
    \/ NextHour
    \/ \E a \in Applicants :
         \/ \E m \in Addresses : Arrive(a, m)
         \/ FindBucket(a) \/ InsertBucket(a) \/ CommitCount(a)
         \/ LookUpAddress(a) \/ ReadRoles(a)
         \/ \E r \in DefaultRoles : SeedRole(a, r)
         \/ InsertAccount(a) \/ ReadDefault(a) \/ InsertGrant(a)
         \/ MailLink(a) \/ CommitRegistration(a) \/ Vanish(a)
    \/ \E g \in Assistants : LockTarget(g)
    \/ LockDefault \/ CommitDefault

RegistrationsSpec == RegistrationsInit /\ [][RegistrationsNext]_registrationVars

-----------------------------------------------------------------------------
(* Properties.                                                              *)

\* However requests overlap, the limit lets no more of them through in a window
\* than it says, and the bucket has counted every one of them (auth/security.py,
\* RateLimitRepository.increment).
WithinHourlyLimit ==
    \A w \in Windows : admitted[w] <= HourlyLimit /\ admitted[w] <= counted[w]

\* No registrations wait for each other in a circle, whoever inserts which of the
\* missing roles (auth/roles.py).
WaitsFor(a, b) ==
    \/ /\ At(a, "seed")
       /\ applicant[a].missing # {}
       /\ \A r \in NextRoles(a) : r \in applicant[b].inserted
    \/ /\ At(a, "seed") /\ applicant[a].missing = {}
       /\ AccountFlushed(b) /\ applicant[b].address = applicant[a].address
NoCircularWait ==
    \A a, b \in Applicants : a # b /\ WaitsFor(a, b) => ~WaitsFor(b, a)

\* An account has a role that stands, also when the role was being inserted by a
\* registration that was rolled back, and its owner was sent a link.
AccountsAreWhole ==
    \A m \in Addresses : Registered(m) => account[m].roles \subseteq roleNames /\ m \in linksMailed

\* "do not ... misclassify an unrelated persistence failure as a duplicate email"
\* (auth/service.py): whoever is told so has an account.
DuplicatesExist == \A m \in duplicates : Registered(m)

RegistrationsSafe ==
    /\ RegistrationsTypeOK
    /\ WithinHourlyLimit /\ NoCircularWait /\ AccountsAreWhole /\ DuplicatesExist
=============================================================================
