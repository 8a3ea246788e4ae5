------------------------------ MODULE OnlineTopUp ------------------------------
(***************************************************************************)
(* Online wallet top-up, from the customer's request to the ledger credit: *)
(*                                                                         *)
(*   OnlineTopUpService.initiate      intent row, gateway claim, provider  *)
(*                                    session, redirect                    *)
(*   OnlineTopUpCallbackService       webhook and browser return: claim    *)
(*                                    the event, verify, credit, release   *)
(*   expireStaleOnlineTopUps          worker: Pending past its TTL         *)
(*   reconcileProviderTransactions    worker: report what got stuck        *)
(*                                                                         *)
(* No database transaction spans a provider call, so every statement of    *)
(* the two services commits on its own and a call may die between any two. *)
(* Initiations of one idempotency key, and callbacks of one order, are     *)
(* serialized by session-level advisory locks: these are lost with the     *)
(* database session, while the call that held one may still be waiting for *)
(* the provider and go on to credit the wallet over another connection.    *)
(*                                                                         *)
(* An intent is identified with the idempotency key it was created under.  *)
(* The wallet credit is the operation of WalletLedger, taken as one step.  *)
(***************************************************************************)
EXTENDS Integers

CONSTANTS
    Intents,        \* wallet_transactions ids of online top-ups (one per key)
    Events,         \* wallet_topup_callback_events.event_id
    Refs,           \* provider references (ref_id of a credit)
    Deliveries,     \* the callbacks that may arrive, each any number of times
    Starters,       \* concurrent initiate calls
    Handlers,       \* concurrent callback calls
    MaxStarts,      \* bound: initiate calls
    MaxDeliveries,  \* bound: callback calls
    MaxFaults,      \* bound: crashes, lost sessions, failed provider calls
    None

(* One callback.  matches: amount and authority are those of the order.    *)
(* webhook: it came through the signed webhook, not the browser return.    *)
(* ref: the provider reference a credit posted for it would carry.         *)
Delivery == [event: Events, order: Intents, status: {"paid", "unpaid"},
             matches: BOOLEAN, webhook: BOOLEAN, ref: Refs]

ASSUME DeliveriesAssumption == Deliveries \subseteq Delivery

ASSUME BoundsAssumption == {MaxStarts, MaxDeliveries, MaxFaults} \subseteq Nat


VARIABLES
    archived,   \* the customer's profile is archived
    posted,     \* top-up money on the wallet that is not yet spent
    intent,     \* the intent rows
    old,        \* intents past ONLINE_TOPUP_PENDING_TTL_MS
    event,      \* wallet_topup_callback_events rows
    stale,      \* events older than PROVIDER_PROCESSING_STALE_MS
    credits,    \* ledger rows of completed online top-ups
    requests,   \* start requests the provider has not served yet, per intent
    minted,     \* number of payment sessions the provider opened, per intent
    paid,       \* the sessions <<intent, authority>> that were paid
    start,      \* the initiate calls
    call,       \* the callback calls
    candidates, \* what the expiry scan selected
    reported,   \* reconciliation_exceptions
    starts,     \* initiate calls made so far
    deliveries, \* callback calls made so far
    faults      \* faults so far

rows == <<intent, event, credits, posted>>
provider == <<requests, minted, paid>>
clocks == <<old, stale>>
budgets == <<starts, deliveries, faults>>

vars == <<archived, rows, provider, clocks, start, call, candidates, reported,
          budgets>>

IntentStates == {"Pending", "Failed", "Rejected", "Released"}

(* The intent row.  gateway is the shape of metadata.gateway: absent, a    *)
(* claim without a session, the session, or the outcome that replaced it   *)
(* (jsonb || is shallow: the new gateway object replaces the old one).     *)
(* authority is ref_id, which nothing overwrites; expired is               *)
(* metadata.expiry.                                                        *)
IntentRow == [state: IntentStates, expired: BOOLEAN,
              gateway: {"none", "initializing", "session", "outcome"},
              claim: Starters \cup {None}, authority: Nat \cup {None}]

NewIntent == [state |-> "Pending", expired |-> FALSE, gateway |-> "none",
              claim |-> None, authority |-> None]

Outcomes == {"credited", "unpaid", "duplicate"}

EventRow == [order: Intents, status: {"processing"} \cup Outcomes]

ASSUME NoneNotMember ==
    /\ None \notin Starters \cup Nat \cup Intents \cup Delivery
    /\ None \notin IntentRow \cup EventRow
    /\ None \notin Outcomes

ONLINE_TOPUP_CALLBACK_OPEN_STATES == {"Pending", "Failed", "Rejected", "Released"}

ONLINE_TOPUP_INTENT_RELEASE_STATES == {"Pending", "Failed", "Rejected"}

(* Mutant: intents that reached the provider never expire.                 *)
EligibleWithoutSession(i) ==
    intent[i].state = "Pending" /\ i \in old /\ intent[i].gateway = "none"

isEligibleForOnlineTopUpExpiry(i) == intent[i].state = "Pending" /\ i \in old

(* Mutant: every attempt to credit takes a new key.                        *)
CreditKeyPerAttempt(d) == <<d.order, credits>>

onlineTopUpCreditIdempotencyKey(d) == <<d.order>>

CreditOf(i) == {c \in credits : c.order = i}

StartIdle == [pc |-> "idle", order |-> None, claim |-> None, got |-> None]

(* read is the state of the intent row as loadPendingTopUp saw it; ended:  *)
(* the database session, and with it the advisory lock, is gone.           *)
CallIdle == [pc |-> "idle", delivery |-> None, read |-> None, out |-> None,
             ended |-> FALSE]

StartSteps == {"insert", "claim", "ask", "waiting", "recover", "rejected",
               "persist", "checkout"}

CallSteps == {"load", "claim", "reopen", "find", "already", "fail", "verify",
              "credit", "release", "finalize"}

StartRow == [pc: StartSteps \cup {"idle"}, order: Intents \cup {None},
             claim: Starters \cup {None}, got: Nat \cup {None}]

CallRow == [pc: CallSteps \cup {"idle", "lock"}, delivery: Deliveries \cup {None},
            read: IntentStates \cup {None},
            out: Outcomes \cup {None}, ended: BOOLEAN]

-------------------------------------------------------------------------------
Init ==
    /\ archived = FALSE
    /\ posted = 0
    /\ intent = [i \in Intents |-> None]
    /\ old = {}
    /\ event = [e \in Events |-> None]
    /\ stale = {}
    /\ credits = {}
    /\ requests = [i \in Intents |-> 0]
    /\ minted = [i \in Intents |-> 0]
    /\ paid = {}
    /\ start = [s \in Starters |-> StartIdle]
    /\ call = [h \in Handlers |-> CallIdle]
    /\ candidates = {}
    /\ reported = {}
    /\ starts = 0
    /\ deliveries = 0
    /\ faults = 0

-------------------------------------------------------------------------------
(* OnlineTopUpService.initiate.                                            *)

StartHolds(s, i) == start[s].pc \in StartSteps /\ start[s].order = i

StartGoes(s, step) == start' = [start EXCEPT ![s].pc = step]

StartEnds(s) == start' = [start EXCEPT ![s] = StartIdle]

(* The customer asks, for the first time or again with the same key; the   *)
(* advisory lock on the key is taken.                                      *)
InitiateTopUp(s, i) ==
    /\ start[s].pc = "idle"
    /\ starts < MaxStarts
    /\ \A t \in Starters : ~StartHolds(t, i)
    /\ starts' = starts + 1
    /\ start' = [start EXCEPT ![s] = [StartIdle EXCEPT !.pc = "insert",
                                                      !.order = i]]
    /\ UNCHANGED <<archived, rows, provider, clocks, call, candidates,
                   reported, deliveries, faults>>

(* assertMatchingPendingTopUp(..., allowExpiredRecovery).                  *)
MatchingPendingTopUp(row, allowExpiredRecovery) ==
    \/ row.state = "Pending"
    \/ allowExpiredRecovery /\ row.state = "Rejected" /\ row.expired

(* Where initiate goes with the row it inserted or found.                  *)
AfterInsert(s, row) ==
    CASE row.gateway = "session" ->
            [start[s] EXCEPT !.pc = "checkout"]
      [] row.gateway = "initializing" ->
            [start[s] EXCEPT !.pc = "recover", !.claim = row.claim]
      [] row.gateway \in {"none", "outcome"} /\ row.state = "Pending" ->
            [start[s] EXCEPT !.pc = "claim"]
      [] OTHER -> StartIdle

(* Mutant: the active-profile lock is dropped from the insert.             *)
InsertOrReusePendingUnchecked(s) ==
    LET i == start[s].order IN
    /\ start[s].pc = "insert"
    /\ IF intent[i] = None
       THEN /\ intent' = [intent EXCEPT ![i] = NewIntent]
            /\ start' = [start EXCEPT ![s] = AfterInsert(s, NewIntent)]
       ELSE /\ start' = [start EXCEPT ![s] =
                            IF MatchingPendingTopUp(intent[i], TRUE)
                            THEN AfterInsert(s, intent[i]) ELSE StartIdle]
            /\ UNCHANGED intent
    /\ UNCHANGED <<archived, event, credits, posted, provider, clocks, call,
                   candidates, reported, budgets>>

(* insertOrReusePending: one transaction over the active profile (FOR      *)
(* SHARE) and its wallet.  The lookup of the row also serves the second    *)
(* read after a unique violation.                                          *)
InsertOrReusePending(s) ==
    LET i == start[s].order IN
    /\ start[s].pc = "insert"
    /\ CASE archived -> StartEnds(s) /\ UNCHANGED intent
         [] ~archived /\ intent[i] = None ->
                /\ intent' = [intent EXCEPT ![i] = NewIntent]
                /\ start' = [start EXCEPT ![s] = AfterInsert(s, NewIntent)]
         [] ~archived /\ intent[i] # None ->
                /\ start' = [start EXCEPT ![s] =
                                IF MatchingPendingTopUp(intent[i], TRUE)
                                THEN AfterInsert(s, intent[i]) ELSE StartIdle]
                /\ UNCHANGED intent
    /\ UNCHANGED <<archived, event, credits, posted, provider, clocks, call,
                   candidates, reported, budgets>>

(* claimGatewayInitialization: only one claim is ever written, and only a  *)
(* fresh claim may start a payment; everyone else recovers.                *)
ClaimGatewayInitialization(s) ==
    LET i == start[s].order IN
    /\ start[s].pc = "claim"
    /\ IF intent[i].state = "Pending" /\ intent[i].gateway = "none"
       THEN /\ intent' = [intent EXCEPT ![i].gateway = "initializing",
                                        ![i].claim = s]
            /\ start' = [start EXCEPT ![s].pc = "ask", ![s].claim = s]
       ELSE /\ start' = [start EXCEPT ![s] =
                            CASE intent[i].gateway = "session" ->
                                    [@ EXCEPT !.pc = "checkout"]
                              [] intent[i].gateway = "initializing" ->
                                    [@ EXCEPT !.pc = "recover",
                                              !.claim = intent[i].claim]
                              [] OTHER -> StartIdle]
            /\ UNCHANGED intent
    /\ UNCHANGED <<archived, event, credits, posted, provider, clocks, call,
                   candidates, reported, budgets>>

(* startPayment: the request leaves for the provider.                      *)
StartPayment(s) ==
    /\ start[s].pc = "ask"
    /\ requests' = [requests EXCEPT ![start[s].order] = @ + 1]
    /\ StartGoes(s, "waiting")
    /\ UNCHANGED <<archived, rows, minted, paid, clocks, call, candidates,
                   reported, budgets>>

(* The provider opens a session: a new one for every request, whatever     *)
(* idempotency key it carries.  The answer reaches the caller if it is     *)
(* still waiting.                                                          *)
ProviderStarts(i) ==
    /\ requests[i] > 0
    /\ requests' = [requests EXCEPT ![i] = @ - 1]
    /\ minted' = [minted EXCEPT ![i] = @ + 1]
    /\ start' = [s \in Starters |->
                    IF start[s].pc = "waiting" /\ start[s].order = i
                    THEN [start[s] EXCEPT !.pc = "persist",
                                          !.got = minted[i] + 1]
                    ELSE start[s]]
    /\ UNCHANGED <<archived, rows, paid, clocks, call, candidates, reported,
                   budgets>>

(* A definite rejection (PaymentGatewayRejectedError): no session exists.  *)
ProviderRejects(i) ==
    /\ requests[i] > 0
    /\ faults < MaxFaults
    /\ faults' = faults + 1
    /\ requests' = [requests EXCEPT ![i] = @ - 1]
    /\ start' = [s \in Starters |->
                    IF start[s].pc = "waiting" /\ start[s].order = i
                    THEN [start[s] EXCEPT !.pc = "rejected"]
                    ELSE start[s]]
    /\ UNCHANGED <<archived, rows, minted, paid, clocks, call, candidates,
                   reported, starts, deliveries>>

(* releaseGatewayClaim: a rejected start may be tried again.               *)
ReleaseGatewayClaim(s) ==
    LET i == start[s].order IN
    /\ start[s].pc = "rejected"
    /\ intent' = IF /\ intent[i].gateway = "initializing"
                    /\ intent[i].claim = start[s].claim
                 THEN [intent EXCEPT ![i].gateway = "none", ![i].claim = None]
                 ELSE intent
    /\ StartEnds(s)
    /\ UNCHANGED <<archived, event, credits, posted, provider, clocks, call,
                   candidates, reported, budgets>>

(* Mutant: a claim without a session is started over instead of recovered. *)
RecoverPaymentByStarting(s) ==
    /\ start[s].pc = "recover"
    /\ requests' = [requests EXCEPT ![start[s].order] = @ + 1]
    /\ StartGoes(s, "waiting")
    /\ UNCHANGED <<archived, rows, minted, paid, clocks, call, candidates,
                   reported, budgets>>

(* recoverPayment: an inquiry that never opens a session; it succeeds only *)
(* when the provider knows exactly one, and may come back empty anyway.    *)
RecoverPayment(s) ==
    LET i == start[s].order IN
    /\ start[s].pc = "recover"
    /\ \/ minted[i] = 1 /\ start' = [start EXCEPT ![s].pc = "persist",
                                                 ![s].got = 1]
       \/ StartEnds(s)
    /\ UNCHANGED <<archived, rows, provider, clocks, call, candidates,
                   reported, budgets>>

(* persistGatewaySession, and the stored session that answers in its place *)
(* when the UPDATE matches no row.                                         *)
PersistGatewaySession(s) ==
    LET i == start[s].order
        writable ==
            /\ MatchingPendingTopUp(intent[i], TRUE)
            /\ intent[i].claim = start[s].claim
            /\ intent[i].gateway = "initializing"
            /\ intent[i].authority = None IN
    /\ start[s].pc = "persist"
    /\ intent' = IF writable
                 THEN [intent EXCEPT ![i].gateway = "session",
                                     ![i].authority = start[s].got]
                 ELSE intent
    /\ IF writable \/ intent[i].gateway = "session"
       THEN StartGoes(s, "checkout") ELSE StartEnds(s)
    /\ UNCHANGED <<archived, event, credits, posted, provider, clocks, call,
                   candidates, reported, budgets>>

(* checkoutResult: the redirect is handed out only for a row that is still *)
(* Pending under its lock; otherwise the caller gets an error.             *)
CheckoutResult(s) ==
    /\ start[s].pc = "checkout"
    /\ StartEnds(s)
    /\ UNCHANGED <<archived, rows, provider, clocks, call, candidates,
                   reported, budgets>>

(* The call ends early: process crash, timeout of the provider call, lost  *)
(* session, or authority withdrawn between two statements.                 *)
StartDies(s) ==
    /\ start[s].pc \in StartSteps
    /\ faults < MaxFaults
    /\ faults' = faults + 1
    /\ StartEnds(s)
    /\ UNCHANGED <<archived, rows, provider, clocks, call, candidates,
                   reported, starts, deliveries>>

(* The customer pays a session, however late.                              *)
CustomerPays(i, n) ==
    /\ n \in 1..minted[i]
    /\ <<i, n>> \notin paid
    /\ paid' = paid \cup {<<i, n>>}
    /\ UNCHANGED <<archived, rows, requests, minted, clocks, start, call,
                   candidates, reported, budgets>>

-------------------------------------------------------------------------------
(* OnlineTopUpCallbackService.processVerifiedPayload.                      *)

Order(h) == call[h].delivery.order

EventOf(h) == call[h].delivery.event

(* The session-level advisory lock on the merchant order.                  *)
CallHolds(h, i) == call[h].pc \in CallSteps /\ ~call[h].ended /\ Order(h) = i

CallGoes(h, step) == call' = [call EXCEPT ![h].pc = step]

CallEnds(h) == call' = [call EXCEPT ![h] = CallIdle]

(* A statement of the call runs on its own database session.               *)
At(h, step) == call[h].pc = step /\ ~call[h].ended

(* handle and handleZarinpalReturn: a callback arrives, in any order and   *)
(* any number of times, and asks for the lock.                             *)
Deliver(h, d) ==
    /\ call[h].pc = "idle"
    /\ deliveries < MaxDeliveries
    /\ deliveries' = deliveries + 1
    /\ call' = [call EXCEPT ![h] = [CallIdle EXCEPT !.pc = "lock",
                                                   !.delivery = d]]
    /\ UNCHANGED <<archived, rows, provider, clocks, start, candidates,
                   reported, starts, faults>>

Lock(h) ==
    /\ call[h].pc = "lock"
    /\ \A g \in Handlers : ~CallHolds(g, Order(h))
    /\ CallGoes(h, "load")
    /\ UNCHANGED <<archived, rows, provider, clocks, start, candidates,
                   reported, budgets>>

Unmatched(e) == [kind |-> "callback", id |-> e, reason |-> "unmatched_callback"]

(* loadPendingTopUp and assertMerchantContext.  An unknown order is        *)
(* reported once per event when the signed webhook names it.               *)
LoadPendingTopUp(h) ==
    LET d == call[h].delivery
        row == intent[d.order] IN
    /\ At(h, "load")
    /\ reported' = IF row = None /\ d.webhook
                   THEN reported \cup {Unmatched(d.event)} ELSE reported
    /\ IF /\ row # None
          /\ row.authority # None
          /\ d.matches
          /\ row.state \in ONLINE_TOPUP_CALLBACK_OPEN_STATES
       THEN call' = [call EXCEPT ![h].pc = "claim", ![h].read = row.state]
       ELSE CallEnds(h)
    /\ UNCHANGED <<archived, rows, provider, clocks, start, candidates,
                   budgets>>

(* Mutant: every claimed event counts as handled, crashed ones included.   *)
AfterClaimNoResume(row, d) ==
    IF row.order # d.order THEN "idle" ELSE "already"

(* Mutant: the order the event was claimed for is not compared.            *)
AfterClaimAnyOrder(row, d) ==
    CASE row.status = "processing" -> "find"
      [] row.status = "unpaid" /\ d.status = "paid" -> "reopen"
      [] OTHER -> "already"

(* What a delivery does with an event that was claimed before.             *)
AfterClaim(row, d) ==
    CASE row.order # d.order -> "idle"
      [] row.order = d.order /\ row.status = "processing" -> "find"
      [] row.order = d.order /\ row.status = "unpaid" /\ d.status = "paid" ->
            "reopen"
      [] OTHER -> "already"

(* claimEvent: INSERT ... ON CONFLICT DO NOTHING, else read the claim.     *)
ClaimEvent(h) ==
    LET d == call[h].delivery
        next == AfterClaim(event[d.event], d) IN
    /\ At(h, "claim")
    /\ IF event[d.event] = None
       THEN /\ event' = [event EXCEPT ![d.event] =
                            [order |-> d.order, status |-> "processing"]]
            /\ CallGoes(h, "find")
       ELSE /\ IF next = "idle" THEN CallEnds(h) ELSE CallGoes(h, next)
            /\ UNCHANGED event
    /\ UNCHANGED <<archived, intent, credits, posted, provider, clocks, start,
                   candidates, reported, budgets>>

(* reopenUnpaidEvent: a paid delivery takes an unpaid event up again.      *)
ReopenUnpaidEvent(h) ==
    LET e == EventOf(h) IN
    /\ At(h, "reopen")
    /\ IF event[e].status = "unpaid"
       THEN event' = [event EXCEPT ![e].status = "processing"] /\ CallGoes(h, "find")
       ELSE CallEnds(h) /\ UNCHANGED event
    /\ UNCHANGED <<archived, intent, credits, posted, provider, clocks, start,
                   candidates, reported, budgets>>

(* alreadyProcessedResult: an event that ended credited or duplicate       *)
(* repairs an intent whose release was lost.                               *)
AlreadyProcessed(h) ==
    LET e == EventOf(h) IN
    /\ At(h, "already")
    /\ IF /\ event[e].status \in {"credited", "duplicate"}
          /\ CreditOf(Order(h)) # {}
          /\ call[h].read \in ONLINE_TOPUP_INTENT_RELEASE_STATES
       THEN call' = [call EXCEPT ![h].pc = "release", ![h].out = None]
       ELSE CallEnds(h)
    /\ UNCHANGED <<archived, rows, provider, clocks, start, candidates,
                   reported, budgets>>

(* The intent is marked Failed only if it was Pending when it was loaded.  *)
Unpaid(h) ==
    call' = [call EXCEPT ![h].pc = IF call[h].read = "Pending"
                                   THEN "fail" ELSE "finalize",
                         ![h].out = "unpaid"]

(* findExistingCredit: a credit is final, whatever this delivery says.     *)
FindExistingCredit(h) ==
    /\ At(h, "find")
    /\ CASE CreditOf(Order(h)) # {} ->
                call' = [call EXCEPT
                    ![h].pc = IF call[h].read \in ONLINE_TOPUP_INTENT_RELEASE_STATES
                              THEN "release" ELSE "finalize",
                    ![h].out = "duplicate"]
         [] CreditOf(Order(h)) = {} /\ call[h].delivery.status = "paid" ->
                CallGoes(h, "verify")
         [] CreditOf(Order(h)) = {} /\ call[h].delivery.status # "paid" ->
                Unpaid(h)
    /\ UNCHANGED <<archived, rows, provider, clocks, start, candidates,
                   reported, budgets>>

(* Mutant: the delivered status is believed.                               *)
VerifyPaymentUnasked(h) ==
    /\ call[h].pc = "verify"
    /\ CallGoes(h, "credit")
    /\ UNCHANGED <<archived, rows, provider, clocks, start, candidates,
                   reported, budgets>>

(* verifyPayment: the provider is asked about the stored authority, with   *)
(* no transaction open and possibly after the lock was lost.               *)
VerifyPayment(h) ==
    LET i == Order(h) IN
    /\ call[h].pc = "verify"
    /\ IF <<i, intent[i].authority>> \in paid
       THEN CallGoes(h, "credit") ELSE Unpaid(h)
    /\ UNCHANGED <<archived, rows, provider, clocks, start, candidates,
                   reported, budgets>>

(* WalletService.credit, over its own connection: a replay when the key is *)
(* taken by the same command, otherwise refused if it is taken or the      *)
(* profile is archived.                                                    *)
CreditWallet(h) ==
    LET d == call[h].delivery
        row == [order |-> d.order, key |-> onlineTopUpCreditIdempotencyKey(d),
                ref |-> d.ref]
        taken == {c \in credits : c.key = row.key}
        posting == taken = {} /\ ~archived IN
    /\ call[h].pc = "credit"
    /\ credits' = IF posting THEN credits \cup {row} ELSE credits
    /\ posted' = IF posting THEN posted + 1 ELSE posted
    /\ IF posting \/ row \in taken
       THEN call' = [call EXCEPT ![h].pc = "release", ![h].out = "credited"]
       ELSE CallEnds(h)
    /\ UNCHANGED <<archived, intent, event, provider, clocks, start,
                   candidates, reported, budgets>>

(* releasePendingIntent: zero updated rows is an error.                    *)
ReleasePendingIntent(h) ==
    LET i == Order(h) IN
    /\ At(h, "release")
    /\ IF intent[i].state \in ONLINE_TOPUP_INTENT_RELEASE_STATES
       THEN /\ intent' = [intent EXCEPT ![i].state = "Released",
                                        ![i].gateway = "outcome",
                                        ![i].claim = None]
            /\ IF call[h].out = None THEN CallEnds(h) ELSE CallGoes(h, "finalize")
       ELSE CallEnds(h) /\ UNCHANGED intent
    /\ UNCHANGED <<archived, event, credits, posted, provider, clocks, start,
                   candidates, reported, budgets>>

(* markPendingFailed: an error when the expiry scan got there first.       *)
MarkPendingFailed(h) ==
    LET i == Order(h) IN
    /\ At(h, "fail")
    /\ IF intent[i].state = "Pending"
       THEN /\ intent' = [intent EXCEPT ![i].state = "Failed",
                                        ![i].gateway = "outcome",
                                        ![i].claim = None]
            /\ CallGoes(h, "finalize")
       ELSE CallEnds(h) /\ UNCHANGED intent
    /\ UNCHANGED <<archived, event, credits, posted, provider, clocks, start,
                   candidates, reported, budgets>>

(* finalizeEvent, the last statement of the call.                          *)
FinalizeEvent(h) ==
    LET e == EventOf(h) IN
    /\ At(h, "finalize")
    /\ event' = IF event[e].status = "processing"
                THEN [event EXCEPT ![e].status = call[h].out] ELSE event
    /\ CallEnds(h)
    /\ UNCHANGED <<archived, intent, credits, posted, provider, clocks, start,
                   candidates, reported, budgets>>

(* The database session breaks while the call waits for the provider or    *)
(* credits over another connection: it runs on, without its lock, until    *)
(* its next statement fails.                                               *)
LoseSession(h) ==
    /\ call[h].pc \in {"verify", "credit"}
    /\ ~call[h].ended
    /\ faults < MaxFaults
    /\ faults' = faults + 1
    /\ call' = [call EXCEPT ![h].ended = TRUE]
    /\ UNCHANGED <<archived, rows, provider, clocks, start, candidates,
                   reported, starts, deliveries>>

StatementFails(h) ==
    /\ call[h].ended
    /\ call[h].pc \in CallSteps \ {"verify", "credit"}
    /\ CallEnds(h)
    /\ UNCHANGED <<archived, rows, provider, clocks, start, candidates,
                   reported, budgets>>

(* The process crashes, or verifyPayment throws (502): the event keeps     *)
(* status processing.                                                      *)
CallDies(h) ==
    /\ call[h].pc # "idle"
    /\ faults < MaxFaults
    /\ faults' = faults + 1
    /\ CallEnds(h)
    /\ UNCHANGED <<archived, rows, provider, clocks, start, candidates,
                   reported, starts, deliveries>>

-------------------------------------------------------------------------------
(* The workers, the wallet's owner and the clock.                          *)

PassTtl(i) ==
    /\ intent[i] # None
    /\ i \notin old
    /\ old' = old \cup {i}
    /\ UNCHANGED <<archived, rows, provider, stale, start, call, candidates,
                   reported, budgets>>

PassStaleLimit(e) ==
    /\ event[e] # None
    /\ e \notin stale
    /\ stale' = stale \cup {e}
    /\ UNCHANGED <<archived, rows, provider, old, start, call, candidates,
                   reported, budgets>>

(* expireStaleOnlineTopUps: the candidates are read before any lock.       *)
FindExpiredOnlineTopUps ==
    /\ candidates = {}
    /\ candidates' = {i \in Intents : /\ intent[i] # None
                                      /\ isEligibleForOnlineTopUpExpiry(i)}
    /\ candidates' # {}
    /\ UNCHANGED <<archived, rows, provider, clocks, start, call, reported,
                   budgets>>

(* Mutant: the candidate is rejected without looking at it again.          *)
RejectOneExpiredUnchecked(i) ==
    /\ i \in candidates
    /\ candidates' = candidates \ {i}
    /\ intent' = [intent EXCEPT ![i].state = "Rejected", ![i].expired = TRUE]
    /\ UNCHANGED <<archived, event, credits, posted, provider, clocks, start,
                   call, reported, budgets>>

(* rejectOneExpired: the row is locked and checked again, so a callback    *)
(* that came first wins; gateway and ref_id stay on the row.               *)
RejectOneExpired(i) ==
    /\ i \in candidates
    /\ candidates' = candidates \ {i}
    /\ intent' = IF isEligibleForOnlineTopUpExpiry(i)
                 THEN [intent EXCEPT ![i].state = "Rejected", ![i].expired = TRUE]
                 ELSE intent
    /\ UNCHANGED <<archived, event, credits, posted, provider, clocks, start,
                   call, reported, budgets>>

(* Mutant: only finished events are compared with the ledger.              *)
CallbackReasonFinishedOnly(e) ==
    IF event[e].status \in {"credited", "duplicate"}
       /\ CreditOf(event[e].order) = {} THEN "credit_mismatch" ELSE None

(* What reconcileProviderTransactions finds wrong with a callback event or *)
(* an intent.                                                              *)
CallbackReason(e) ==
    CASE event[e].status \in {"credited", "duplicate"}
            /\ CreditOf(event[e].order) = {} -> "credit_mismatch"
      [] event[e].status = "processing" /\ e \in stale -> "stalled_processing"
      [] OTHER -> None

IntentReason(i) ==
    IF \/ isEligibleForOnlineTopUpExpiry(i)
       \/ intent[i].state = "Rejected" /\ intent[i].expired
    THEN "expired_intent" ELSE None

(* One report per record and reason, and only while no callback of the     *)
(* order is in progress: the scan tries the callback's advisory lock and   *)
(* skips the record when it is taken.                                      *)
Report(kind, id, i, reason) ==
    /\ \A h \in Handlers : ~CallHolds(h, i)
    /\ reason # None
    /\ [kind |-> kind, id |-> id, reason |-> reason] \notin reported
    /\ reported' = reported \cup {[kind |-> kind, id |-> id, reason |-> reason]}
    /\ UNCHANGED <<archived, rows, provider, clocks, start, call, candidates,
                   budgets>>

ReportCallback(e) ==
    /\ event[e] # None
    /\ Report("callback", e, event[e].order, CallbackReason(e))

ReportIntent(i) ==
    /\ intent[i] # None
    /\ Report("intent", i, i, IntentReason(i))

SpendBalance ==
    /\ posted > 0
    /\ posted' = 0
    /\ UNCHANGED <<archived, intent, event, credits, provider, clocks, start,
                   call, candidates, reported, budgets>>

(* deleteProfile: an empty wallet and no Pending transaction.              *)
ArchiveProfile ==
    /\ ~archived
    /\ posted = 0
    /\ \A i \in Intents : intent[i] # None => intent[i].state # "Pending"
    /\ archived' = TRUE
    /\ UNCHANGED <<rows, provider, clocks, start, call, candidates, reported,
                   budgets>>

StartStep(s) ==
    \/ InsertOrReusePending(s) \/ ClaimGatewayInitialization(s)
    \/ StartPayment(s) \/ ReleaseGatewayClaim(s) \/ RecoverPayment(s)
    \/ PersistGatewaySession(s) \/ CheckoutResult(s)

CallStep(h) ==
    \/ LoadPendingTopUp(h) \/ ClaimEvent(h) \/ ReopenUnpaidEvent(h)
    \/ AlreadyProcessed(h) \/ FindExistingCredit(h) \/ VerifyPayment(h)
    \/ CreditWallet(h) \/ ReleasePendingIntent(h) \/ MarkPendingFailed(h)
    \/ FinalizeEvent(h) \/ StatementFails(h)

Next ==
    \/ \E s \in Starters, i \in Intents : InitiateTopUp(s, i)
    \/ \E s \in Starters : StartStep(s) \/ StartDies(s)
    \/ \E i \in Intents : ProviderStarts(i) \/ ProviderRejects(i)
    \/ \E i \in Intents : \E n \in 1..minted[i] : CustomerPays(i, n)
    \/ \E h \in Handlers, d \in Deliveries : Deliver(h, d)
    \/ \E h \in Handlers : Lock(h) \/ CallStep(h) \/ LoseSession(h) \/ CallDies(h)
    \/ \E i \in Intents : PassTtl(i) \/ RejectOneExpired(i) \/ ReportIntent(i)
    \/ \E e \in Events : PassStaleLimit(e) \/ ReportCallback(e)
    \/ FindExpiredOnlineTopUps
    \/ SpendBalance
    \/ ArchiveProfile

Spec == Init /\ [][Next]_vars

-------------------------------------------------------------------------------
(* Type invariant.                                                         *)
TypeOK ==
    /\ archived \in BOOLEAN
    /\ posted \in Nat
    /\ intent \in [Intents -> IntentRow \cup {None}]
    /\ event \in [Events -> EventRow \cup {None}]
    /\ old \subseteq Intents
    /\ stale \subseteq Events
    /\ credits \subseteq [order: Intents, ref: Refs, key: {<<i>> : i \in Intents}]
    /\ requests \in [Intents -> Nat]
    /\ minted \in [Intents -> Nat]
    /\ paid \subseteq Intents \X Nat
    /\ candidates \subseteq Intents
    /\ start \in [Starters -> StartRow]
    /\ \A s \in Starters : start[s].pc # "idle" => start[s].order \in Intents
    /\ call \in [Handlers -> CallRow]
    /\ \A h \in Handlers : call[h].pc # "idle" => call[h].delivery \in Deliveries

(* One payment is credited once, whatever number of callbacks arrive for   *)
(* it under whatever event ids, including two callbacks that run at the    *)
(* same time because one lost its advisory lock during the provider call   *)
(* (processVerifiedPayload).                                               *)
OneCreditPerIntent == \A c, d \in credits : c.order = d.order => c = d

(* Nothing is credited on the word of a callback: every credit is of an    *)
(* order whose stored authority the provider reports paid.                 *)
CreditIsPaid ==
    \A c \in credits : <<c.order, intent[c.order].authority>> \in paid

(* A Released intent, and an event recorded credited or duplicate, always  *)
(* have their ledger credit: no crash between the statements of the        *)
(* callback leaves a payment marked done without the money.  It is what    *)
(* keeps the reconciliation scan from reporting credit_mismatch.           *)
SettledIsCredited ==
    /\ \A i \in Intents :
          intent[i] # None /\ intent[i].state = "Released" => CreditOf(i) # {}
    /\ \A e \in Events :
          event[e] # None /\ event[e].status \in {"credited", "duplicate"} =>
              CreditOf(event[e].order) # {}

(* Retrying initiate with the same key never opens a second payment        *)
(* session at the provider, even after the first attempt crashed with its  *)
(* request still under way.                                                *)
OneSessionPerIntent == \A i \in Intents : minted[i] + requests[i] <= 1

(* An archived profile has no top-up money and no Pending intent: neither  *)
(* initiate nor a late callback gets past the archive check.               *)
ArchivedIsSettled ==
    archived =>
        /\ posted = 0
        /\ \A i \in Intents : intent[i] # None => intent[i].state # "Pending"

(* The intent lifecycle: Pending ends Failed, Rejected or Released; only a *)
(* credit moves a Failed or Rejected intent on, to Released; Released is   *)
(* final; the stored authority never changes.  The expiry scan, working    *)
(* from a stale list of candidates, is bound by it too.                    *)
IntentLifecycle ==
    [][\A i \in Intents : intent[i] # None =>
          /\ intent'[i] # None
          /\ intent[i].authority \in {None, intent'[i].authority}
          /\ \/ intent'[i].state = intent[i].state
             \/ /\ intent[i].state = "Pending"
                /\ intent'[i].state \in {"Failed", "Rejected"}
             \/ /\ intent[i].state # "Released"
                /\ intent'[i].state = "Released"
                /\ CreditOf(i) # {}]_vars

-------------------------------------------------------------------------------
(* Fairness.  A call that was not killed runs to its end, and PostgreSQL   *)
(* grants the advisory lock to its waiters in turn.  The workers run on    *)
(* timers; the reconciliation scan skips an order with a callback in       *)
(* progress and meets it free again and again.  Clocks advance.  Nothing   *)
(* is assumed of customers, callers or the provider.                       *)
Fairness ==
    /\ \A h \in Handlers : WF_vars(CallStep(h)) /\ SF_vars(Lock(h))
    /\ \A i \in Intents : WF_vars(PassTtl(i)) /\ WF_vars(RejectOneExpired(i))
    /\ \A e \in Events : WF_vars(PassStaleLimit(e)) /\ SF_vars(ReportCallback(e))
    /\ WF_vars(FindExpiredOnlineTopUps)

FairSpec == Spec /\ Fairness

(* A callback waits at h that reports order i paid, and the provider       *)
(* agrees; its event id is not in use for another order.                   *)
PaidDeliveryAt(h, i) ==
    /\ call[h].pc = "lock"
    /\ Order(h) = i
    /\ call[h].delivery.status = "paid"
    /\ call[h].delivery.matches
    /\ intent[i] # None
    /\ intent[i].authority # None
    /\ <<i, intent[i].authority>> \in paid
    /\ event[EventOf(h)] # None => event[EventOf(h)].order = i

(* One undisturbed paid callback is enough, whatever happened before it:   *)
(* unpaid callbacks, expiry, calls that died half way.  Only a new fault   *)
(* or an archived profile keeps the money from the wallet.                 *)
PaidCallbackCredits ==
    \A h \in Handlers, i \in Intents, f \in 0..MaxFaults :
        PaidDeliveryAt(h, i) /\ faults = f ~>
            CreditOf(i) # {} \/ archived \/ faults > f

Processing(e) == event[e] # None /\ event[e].status = "processing"

Pending(i) == intent[i] # None /\ intent[i].state = "Pending"

(* An event left in status processing does not stay unnoticed: it is       *)
(* finished by a later callback or reported to the finance staff.          *)
StuckEventIsReported ==
    \A e \in Events :
        Processing(e) ~>
            \/ ~Processing(e)
            \/ [kind |-> "callback", id |-> e, reason |-> "stalled_processing"]
                  \in reported

(* A Pending intent does not stay Pending: callback or expiry ends it.     *)
PendingEnds == \A i \in Intents : Pending(i) ~> ~Pending(i)

===============================================================================
