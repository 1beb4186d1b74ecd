----------------------------- MODULE MarketQuotes -----------------------------
(***************************************************************************)
(* A current price for customer display (market/gateway.py): the providers *)
(* are tried in the configured order, each only after the local gate, each *)
(* verified with its catalogue and a quote of every configured instrument  *)
(* (market/twelve_data.py) before the price is fetched, and the price      *)
(* answered only when every gate of market/service.py lets it through.     *)
(* The clock runs while providers answer.                                  *)
(***************************************************************************)
EXTENDS Integers, FiniteSets, Sequences

CONSTANTS
    Configurations,  \* a sequence of Configuration, the primary first
    Instruments,     \* the configured instruments
    Wanted,          \* the one whose price is asked for
    StaleAfter,      \* stale_after_seconds
    MaxClock,        \* bound on the clock
    NoQuote          \* no result

Configuration == [display : BOOLEAN, realTime : BOOLEAN, key : BOOLEAN]
Providers == DOMAIN Configurations

VerificationState == {"authentication_failed", "provider_unavailable", "not_configured",
    "symbol_unverified", "entitlement_unverified", "verified_internal",
    "verified_customer_display", "stale", "rate_limited", "error"}

InstrumentVerification ==
    [state : VerificationState, mapped : BOOLEAN, realTime : BOOLEAN, display : BOOLEAN]

MarketSnapshot == [provider : Providers, observed : 0 .. MaxClock, received : 0 .. MaxClock]

ASSUME MarketAssumption ==
    /\ Configurations \in Seq(Configuration) /\ Configurations # <<>>
    /\ Wanted \in Instruments
    /\ StaleAfter \in Nat /\ MaxClock \in Nat
    /\ NoQuote \notin MarketSnapshot

VARIABLES
    clock,
    member,         \* the user's membership of the workspace
    gateway,        \* where current_price is
    provider,       \* the configuration in turn
    todo,           \* instruments the verification has not asked about yet
    checkedAt,      \* when the verification began to fetch quotes
    instruments,    \* [Instruments -> InstrumentVerification] of this provider
    verified,       \* state of the ProviderVerification
    receivedAt,     \* when current_price sent its request
    observedAt,     \* the provider's timestamp of the price
    quote,          \* the result
    contacted,      \* history: providers that were called
    admitted        \* history: providers whose local gate passed

marketVars == <<clock, member, gateway, provider, todo, checkedAt, instruments,
                verified, receivedAt, observedAt, quote, contacted, admitted>>

Unknown == [state |-> "error", mapped |-> FALSE, realTime |-> FALSE, display |-> FALSE]

MarketTypeOK ==
    /\ clock \in 0 .. MaxClock /\ member \in BOOLEAN
    /\ gateway \in {"asked", "gate", "usage", "search", "quotes", "record", "price",
                    "fetching", "snapshot", "answered", "unavailable", "denied", "raised"}
    /\ provider \in Providers
    /\ todo \subseteq Instruments
    /\ instruments \in [Instruments -> InstrumentVerification]
    /\ verified \in VerificationState
    /\ {checkedAt, receivedAt, observedAt} \subseteq 0 .. MaxClock
    /\ quote \in MarketSnapshot \cup {NoQuote}
    /\ contacted \subseteq Providers /\ admitted \subseteq Providers

MarketInit ==
    /\ clock = 0 /\ member \in BOOLEAN
    /\ gateway = "asked" /\ provider = 1
    /\ todo = {} /\ contacted = {} /\ admitted = {}
    /\ checkedAt = 0 /\ receivedAt = 0 /\ observedAt = 0
    /\ instruments = [i \in Instruments |-> Unknown]
    /\ verified = "not_configured"
    /\ quote = NoQuote

verificationVars == <<todo, checkedAt, instruments, verified>>
priceVars == <<receivedAt, observedAt>>
historyVars == <<contacted, admitted>>

-----------------------------------------------------------------------------
(* The local gate.                                                          *)

Config == Configurations[provider]

\* The commercial scope configured for customer display.
Entitled == Config.display /\ Config.realTime

\* A provider that fails hands over to the next one.
NextProvider ==
    IF provider + 1 \in Providers
    THEN gateway' = "gate" /\ provider' = provider + 1
    ELSE gateway' = "unavailable" /\ UNCHANGED provider

\* The gate of the primary, before anything else: without its scope no fallback is tried.
Ask ==
    /\ gateway = "asked"
    /\ gateway' = IF ~member THEN "denied" ELSE IF ~Entitled THEN "unavailable" ELSE "gate"
    /\ UNCHANGED <<clock, member, provider, verificationVars, priceVars, quote, historyVars>>

Admit ==
    /\ gateway = "gate" /\ member /\ Entitled
    /\ gateway' = "usage"
    /\ admitted' = admitted \cup {provider}
    /\ instruments' = [i \in Instruments |-> Unknown]
    /\ UNCHANGED <<clock, member, provider, todo, checkedAt, verified, priceVars, quote, contacted>>

SkipProvider ==
    /\ gateway = "gate" /\ member /\ ~Entitled
    /\ NextProvider
    /\ UNCHANGED <<clock, member, verificationVars, priceVars, quote, historyVars>>

\* A lost membership is not a provider's failure: it ends the request.
Deny ==
    /\ gateway \in {"gate", "snapshot"} /\ ~member
    /\ gateway' = "denied"
    /\ UNCHANGED <<clock, member, provider, verificationVars, priceVars, quote, historyVars>>

-----------------------------------------------------------------------------
(* The verification of a provider.                                          *)

Contact == contacted' = contacted \cup {provider}

\* A verification that ends before its instruments carries the state to all of them.
VerificationFails(state) ==
    /\ gateway' = "record"
    /\ verified' = state
    /\ instruments' = [i \in Instruments |-> [Unknown EXCEPT !.state = state]]
    /\ todo' = {}

NotConfigured ==
    /\ gateway = "usage" /\ ~Config.key
    /\ VerificationFails("not_configured")
    /\ UNCHANGED <<clock, member, provider, checkedAt, priceVars, quote, historyVars>>

\* Credentials, the rate limit, the account plan, the network.
UsageFails ==
    /\ gateway = "usage" /\ Config.key
    /\ \E state \in {"authentication_failed", "rate_limited", "error",
                     "entitlement_unverified", "provider_unavailable"} :
          VerificationFails(state)
    /\ Contact
    /\ UNCHANGED <<clock, member, provider, checkedAt, priceVars, quote, admitted>>

Usage ==
    /\ gateway = "usage" /\ Config.key
    /\ gateway' = "search"
    /\ todo' = Instruments
    /\ Contact
    /\ UNCHANGED <<clock, member, provider, checkedAt, instruments, verified,
                   priceVars, quote, admitted>>

\* The catalogue's answer: malformed, without the instrument, beyond the plan, or good.
MappingResults ==
    {Unknown, [Unknown EXCEPT !.state = "symbol_unverified"],
     [state |-> "entitlement_unverified", mapped |-> TRUE, realTime |-> FALSE, display |-> FALSE],
     IF Entitled
     THEN [state |-> "verified_customer_display", mapped |-> TRUE, realTime |-> TRUE, display |-> TRUE]
     ELSE [state |-> "verified_internal", mapped |-> TRUE, realTime |-> Config.realTime,
           display |-> FALSE]}

Search(i) ==
    /\ gateway = "search" /\ i \in todo
    /\ \E r \in MappingResults : instruments' = [instruments EXCEPT ![i] = r]
    /\ todo' = todo \ {i}
    /\ UNCHANGED <<clock, member, gateway, provider, checkedAt, verified,
                   priceVars, quote, historyVars>>

\* One time for the quotes of all instruments, taken before the first is asked for.
FetchQuotes ==
    /\ gateway = "search" /\ todo = {}
    /\ gateway' = "quotes"
    /\ checkedAt' = clock
    /\ todo' = IF Config.realTime THEN {i \in Instruments : instruments[i].mapped} ELSE {}
    /\ UNCHANGED <<clock, member, provider, instruments, verified, priceVars, quote, historyVars>>

\* Faulty variant of Recent: the limit is not looked at.
RecentAlways(at, observed) == TRUE

Recent(at, observed) == at - observed <= StaleAfter

\* The quote's observation was made before it was answered, but perhaps after checkedAt.
FreshnessResult(r, observed) ==
    IF observed > checkedAt THEN [r EXCEPT !.state = "error", !.realTime = FALSE]
    ELSE IF ~Recent(checkedAt, observed)
         THEN [r EXCEPT !.state = "stale", !.realTime = FALSE, !.display = FALSE]
    ELSE [r EXCEPT !.realTime = TRUE]

\* Malformed, of another instrument, refused by the plan, or an observation.
QuoteResults(r) ==
    {[r EXCEPT !.state = state, !.realTime = FALSE] :
        state \in {"error", "symbol_unverified", "entitlement_unverified"}}
    \cup {FreshnessResult(r, observed) : observed \in 0 .. clock}

Quote(i) ==
    /\ gateway = "quotes" /\ i \in todo
    /\ \E r \in QuoteResults(instruments[i]) : instruments' = [instruments EXCEPT ![i] = r]
    /\ todo' = todo \ {i}
    /\ UNCHANGED <<clock, member, gateway, provider, checkedAt, verified,
                   priceVars, quote, historyVars>>

\* Rate limit, time-out or network in the middle of either round of calls.
AnswersStop ==
    /\ gateway \in {"search", "quotes"} /\ todo # {}
    /\ \E state \in {"rate_limited", "provider_unavailable", "error"} : VerificationFails(state)
    /\ UNCHANGED <<clock, member, provider, checkedAt, priceVars, quote, historyVars>>

Any(state) == \E i \in Instruments : instruments[i].state = state

OverallState ==
    IF Any("error") THEN "error"
    ELSE IF Any("symbol_unverified") THEN "symbol_unverified"
    ELSE IF Any("entitlement_unverified") THEN "entitlement_unverified"
    ELSE IF Any("stale") THEN "stale"
    ELSE IF \A i \in Instruments : instruments[i].state = "verified_customer_display"
         THEN "verified_customer_display"
    ELSE "verified_internal"

Conclude ==
    /\ gateway = "quotes" /\ todo = {}
    /\ gateway' = "record"
    /\ verified' = OverallState
    /\ UNCHANGED <<clock, member, provider, todo, checkedAt, instruments,
                   priceVars, quote, historyVars>>

\* The verification is recorded, whatever it says.
Record ==
    /\ gateway = "record"
    /\ gateway' = "price"
    /\ UNCHANGED <<clock, member, provider, verificationVars, priceVars, quote, historyVars>>

-----------------------------------------------------------------------------
(* The price and its snapshot.                                              *)

\* received_at is the time the request is sent.
SendRequest ==
    /\ gateway = "price" /\ Config.key
    /\ gateway' = "fetching"
    /\ receivedAt' = clock
    /\ UNCHANGED <<clock, member, provider, verificationVars, observedAt, quote, historyVars>>

PriceUnavailable ==
    /\ gateway = "fetching" \/ (gateway = "price" /\ ~Config.key)
    /\ NextProvider
    /\ UNCHANGED <<clock, member, verificationVars, priceVars, quote, historyVars>>

PriceArrives ==
    /\ gateway = "fetching"
    /\ observedAt' \in 0 .. clock
    /\ gateway' = IF observedAt' <= receivedAt THEN "snapshot" ELSE "raised"
    /\ UNCHANGED <<clock, member, provider, verificationVars, receivedAt, quote, historyVars>>

\* What snapshot_for asks of the verification and of the observation.
Available(r) ==
    /\ r.state = "verified_customer_display"
    /\ r.mapped /\ r.realTime /\ r.display

Acceptable ==
    /\ verified = "verified_customer_display"
    /\ Available(instruments[Wanted])
    /\ Recent(receivedAt, observedAt)

RejectQuote ==
    /\ gateway = "snapshot" /\ member /\ ~(Entitled /\ Acceptable)
    /\ NextProvider
    /\ UNCHANGED <<clock, member, verificationVars, priceVars, quote, historyVars>>

Snapshot ==
    /\ gateway = "snapshot" /\ member /\ Entitled /\ Acceptable
    /\ gateway' = "answered"
    /\ quote' = [provider |-> provider, observed |-> observedAt, received |-> receivedAt]
    /\ UNCHANGED <<clock, member, provider, verificationVars, priceVars, historyVars>>

\* A database error is not a provider's failure either.
DatabaseFails ==
    /\ gateway \in {"asked", "gate", "record", "snapshot"}
    /\ gateway' = "raised"
    /\ UNCHANGED <<clock, member, provider, verificationVars, priceVars, quote, historyVars>>

Tick ==
    /\ clock < MaxClock
    /\ clock' = clock + 1
    /\ UNCHANGED <<member, gateway, provider, verificationVars, priceVars, quote, historyVars>>

LeaveWorkspace ==
    /\ member /\ member' = FALSE
    /\ UNCHANGED <<clock, gateway, provider, verificationVars, priceVars, quote, historyVars>>

MarketNext ==
    \/ Ask \/ Admit \/ SkipProvider \/ Deny
    \/ NotConfigured \/ UsageFails \/ Usage
    \/ \E i \in Instruments : Search(i) \/ Quote(i)
    \/ FetchQuotes \/ AnswersStop \/ Conclude \/ Record
    \/ SendRequest \/ PriceUnavailable \/ PriceArrives \/ RejectQuote \/ Snapshot
    \/ DatabaseFails \/ Tick \/ LeaveWorkspace

MarketSpec == MarketInit /\ [][MarketNext]_marketVars

-----------------------------------------------------------------------------
(* Properties.                                                              *)

Scoped(p) == Configurations[p].display /\ Configurations[p].realTime

\* Only a provider within the commercial scope is called, in the configured order,
\* and never one after the one that answered.
OnlyScopedProvidersAreCalled ==
    /\ contacted \subseteq admitted
    /\ \A p \in admitted : Scoped(p) /\ p <= provider
    /\ \A p \in contacted : Configurations[p].key

\* The request gives up only when every provider in scope has been tried.
EveryFallbackIsTried ==
    gateway = "unavailable" /\ Scoped(1) =>
        \A p \in Providers : Scoped(p) => p \in admitted

\* A price that is answered comes from the provider in turn, fully verified, was fresh
\* when it was asked for and is from no later than that.
AnsweredQuoteIsGood ==
    /\ (quote # NoQuote) <=> (gateway = "answered")
    /\ gateway = "answered" =>
          /\ quote.provider = provider /\ provider \in contacted
          /\ Scoped(provider)
          /\ \A i \in Instruments : Available(instruments[i])
          /\ quote.observed <= quote.received /\ quote.received <= clock
          /\ quote.received - quote.observed <= StaleAfter

\* A failing provider never relaxes the gates of the next one
\* (MarketDataGateway.current_price, MarketDataService.snapshot_for).
QuotesSafe ==
    /\ MarketTypeOK
    /\ OnlyScopedProvidersAreCalled
    /\ EveryFallbackIsTried
    /\ AnsweredQuoteIsGood
=============================================================================
