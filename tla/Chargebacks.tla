------------------------------ MODULE Chargebacks ------------------------------
(***************************************************************************)
(* Chargebacks: the payment provider takes the money of an online top-up   *)
(* back and says so in a signed notification.                              *)
(*                                                                         *)
(*   ChargebackDetectionService.handle   claim the event, find the top-up, *)
(*                                       reverse its credit, finalise      *)
(*   ChargebackAlertService              one alert per finance recipient   *)
(*   reconcileProviderTransactions       worker: report what is unclear    *)
(*                                                                         *)
(* Deliveries of one event are serialized by a session-level advisory      *)
(* lock; all statements under it run on the session that holds it, so a    *)
(* call that loses its session ends.  Events of the same top-up are not    *)
(* serialized.  The lock is given up before the alerts are sent.           *)
(*                                                                         *)
(* The credits are those of OnlineTopUp, the reversal is the operation of  *)
(* WalletLedger inside the handler's transaction, taken as one step.       *)
(***************************************************************************)
EXTENDS Integers

CONSTANTS
    Credits,        \* wallet_transactions ids of online top-up credits
    Wallets,        \* their wallets
    Names,          \* order ids, provider references, authorities
    TopUp,          \* what the row of each credit says (topUpAuthority: the
                    \* reference where no authority is stored)
    Events,         \* wallet_chargeback_events.event_id
    Deliveries,     \* the notifications that may arrive, each repeatedly
    Staff,          \* the finance recipients of alerts
    Handlers,       \* concurrent handle calls
    MaxDeliveries,  \* bound: handle calls
    MaxFaults,      \* bound: calls that die
    None

ASSUME TopUpAssumption ==
    TopUp \in [Credits -> [wallet: Wallets, amount: Nat \ {0}, order: Names,
                           ref: Names, authority: Names]]

(* The parsed notification, which may lack any of its locators; its        *)
(* reason, which the digest also covers, is left out.                      *)
Notification == [order: Names \cup {None}, ref: Names \cup {None},
                 authority: Names \cup {None}, amount: Nat]

ASSUME DeliveriesAssumption ==
    Deliveries \subseteq [event: Events, raw: Notification]

ASSUME BoundsAssumption == {MaxDeliveries, MaxFaults} \subseteq Nat

Statuses == {"processing", "reversed", "unmatched", "unresolved"}

(* A reversal row: its key is that of the event that posted it.            *)
Reversal == [of: Credits, key: Events]

(* reversal is the id of the reversal row.                                 *)
EventRow == [raw: Notification, status: Statuses,
             original: Credits \cup {None}, reversal: Reversal \cup {None}]

ASSUME NoneAssumption ==
    None \notin Names \cup Credits \cup EventRow \cup Reversal \cup Deliveries

VARIABLES
    archived,   \* wallets whose profile is archived
    available,  \* available balance of each wallet
    posted,     \* the credits that are in the ledger
    reversals,  \* the reversals that are in the ledger
    event,      \* wallet_chargeback_events rows
    stale,      \* events older than PROVIDER_PROCESSING_STALE_MS
    alerts,     \* outbox rows: event, kind and recipient (the unique key)
    reported,   \* reconciliation_exceptions: event and reason
    call,       \* the handle calls
    deliveries, \* handle calls so far
    faults      \* faults so far

wallet == <<archived, available, posted>>
budgets == <<deliveries, faults>>

vars == <<wallet, reversals, event, stale, alerts, reported, call, budgets>>

(* A handle call.  answer is the status of its result; todo are the        *)
(* recipients it has yet to alert.                                         *)
CallIdle == [pc |-> "idle", delivery |-> None, original |-> None,
             answer |-> None, todo |-> {}]

LockedSteps == {"claim", "match", "find", "reverse", "raced", "found",
                "unmatched", "unresolved"}

Call == [pc: {"idle", "lock", "alert"} \cup LockedSteps,
         delivery: Deliveries \cup {None}, original: Credits \cup {None},
         answer: Statuses \cup {None}, todo: SUBSET Staff]

Init ==
    /\ archived = {}
    /\ available = [w \in Wallets |-> 0]
    /\ posted = {}
    /\ reversals = {}
    /\ event = [e \in Events |-> None]
    /\ stale = {}
    /\ alerts = {}
    /\ reported = {}
    /\ call = [h \in Handlers |-> CallIdle]
    /\ deliveries = 0
    /\ faults = 0

-------------------------------------------------------------------------------
(* Finding the top-up.                                                     *)

(* The strongest locator that is present decides; it does not fall through *)
(* to a weaker one.                                                        *)
Located(n) ==
    {c \in posted :
        \/ n.order # None /\ TopUp[c].order = n.order
        \/ n.order = None /\ n.ref # None /\ TopUp[c].ref = n.ref
        \/ n.order = None /\ n.ref = None /\ TopUp[c].authority = n.authority}

(* uniqueAmountMatched: the one credit of that amount.                     *)
Matches(n, c) == {b \in Located(n) : TopUp[b].amount = n.amount} = {c}

ReversalsOf(c) == {r \in reversals : r.of = c}

-------------------------------------------------------------------------------
(* The handler.                                                            *)

EventOf(h) == call[h].delivery.event

RawOf(h) == call[h].delivery.raw

Goes(h, step) == call' = [call EXCEPT ![h].pc = step]

Ends(h) == call' = [call EXCEPT ![h] = CallIdle]

(* The answer is known; the recipients are read once the lock is free.     *)
Answers(h, status) ==
    call' = [call EXCEPT ![h].pc = "alert", ![h].answer = status,
                         ![h].todo = Staff]

HoldsEvent(h, e) == call[h].pc \in LockedSteps /\ EventOf(h) = e

Deliver(h, d) ==
    /\ call[h].pc = "idle"
    /\ deliveries < MaxDeliveries
    /\ deliveries' = deliveries + 1
    /\ call' = [call EXCEPT ![h] = [CallIdle EXCEPT !.pc = "lock",
                                                   !.delivery = d]]
    /\ UNCHANGED <<wallet, reversals, event, stale, alerts, reported, faults>>

Lock(h) ==
    /\ call[h].pc = "lock"
    /\ \A g \in Handlers : ~HoldsEvent(g, EventOf(h))
    /\ Goes(h, "claim")
    /\ UNCHANGED <<wallet, reversals, event, stale, alerts, reported, budgets>>

(* Mutant: whatever was claimed before counts as handled.                  *)
ResumesNever(row) == FALSE

(* A claimed event that was not finished is taken up again.                *)
Resumes(row) == row.status = "processing"

(* claimEvent, assertClaimedNotificationMatches, alreadyProcessedResult.   *)
ClaimEvent(h) ==
    LET e == EventOf(h)
        row == event[e] IN
    /\ call[h].pc = "claim"
    /\ \/ /\ row = None
          /\ event' = [event EXCEPT ![e] =
                          [raw |-> RawOf(h), status |-> "processing",
                           original |-> None, reversal |-> None]]
          /\ Goes(h, "match")
       \/ /\ row # None
          /\ CASE row.raw # RawOf(h) -> Ends(h)
               [] row.raw = RawOf(h) /\ Resumes(row) -> Goes(h, "match")
               [] OTHER -> Answers(h, row.status)
          /\ UNCHANGED event
    /\ UNCHANGED <<wallet, reversals, stale, alerts, reported, budgets>>

(* loadCandidates and matchChargebackToTopUp.                              *)
MatchTopUp(h) ==
    /\ call[h].pc = "match"
    /\ \/ \E c \in posted :
             /\ Matches(RawOf(h), c)
             /\ call' = [call EXCEPT ![h].pc = "find", ![h].original = c]
       \/ /\ \A c \in posted : ~Matches(RawOf(h), c)
          /\ Goes(h, "unmatched")
    /\ UNCHANGED <<wallet, reversals, event, stale, alerts, reported, budgets>>

(* findExistingReversal, before the reversal is attempted and again after  *)
(* another event won it.                                                   *)
FindExistingReversal(h) ==
    /\ call[h].pc \in {"find", "raced"}
    /\ IF ReversalsOf(call[h].original) # {} THEN Goes(h, "found")
       ELSE IF call[h].pc = "find" THEN Goes(h, "reverse")
       ELSE Ends(h)
    /\ UNCHANGED <<wallet, reversals, event, stale, alerts, reported, budgets>>

(* finalizeEvent: only an event in processing is written.                  *)
FinalRow(h, status, reversal) ==
    LET e == EventOf(h) IN
    IF event[e].status = "processing"
    THEN [event EXCEPT ![e] = [raw |-> event[e].raw, status |-> status,
                               original |-> call[h].original,
                               reversal |-> reversal]]
    ELSE event

(* Mutant: the reversal commits by itself and the event is left for later. *)
ReverseTopUpAlone(h) ==
    LET c == call[h].original
        w == TopUp[c].wallet
        row == [of |-> c, key |-> EventOf(h)] IN
    /\ call[h].pc = "reverse"
    /\ IF ReversalsOf(c) = {} /\ w \notin archived /\ available[w] >= TopUp[c].amount
       THEN /\ reversals' = reversals \cup {row}
            /\ available' = [available EXCEPT ![w] = @ - TopUp[c].amount]
            /\ Answers(h, "reversed")
       ELSE /\ Goes(h, "unresolved")
            /\ UNCHANGED <<available, reversals>>
    /\ UNCHANGED <<archived, posted, event, stale, alerts, reported, budgets>>

(* withLockClientTransaction: reverseTransaction and finalizeEvent in one  *)
(* transaction.  Whatever refuses the reversal rolls it back and sends the *)
(* handler on: to the reversal of another event, or to "unresolved" for an *)
(* archived profile or a balance that does not cover it.                   *)
ReverseTopUp(h) ==
    LET c == call[h].original
        w == TopUp[c].wallet
        row == [of |-> c, key |-> EventOf(h)]
        replayed == {r \in reversals : r.key = row.key} IN
    /\ call[h].pc = "reverse"
    /\ \/ /\ row \in replayed
          /\ event' = FinalRow(h, "reversed", row)
          /\ Answers(h, "reversed")
          /\ UNCHANGED <<available, reversals>>
       \/ /\ replayed \notin {{}, {row}}
          /\ Ends(h)
          /\ UNCHANGED <<available, reversals, event>>
       \/ /\ replayed = {}
          /\ ReversalsOf(c) # {}
          /\ Goes(h, "raced")
          /\ UNCHANGED <<available, reversals, event>>
       \/ /\ replayed = {}
          /\ ReversalsOf(c) = {}
          /\ w \in archived \/ available[w] < TopUp[c].amount
          /\ Goes(h, "unresolved")
          /\ UNCHANGED <<available, reversals, event>>
       \/ /\ replayed = {}
          /\ ReversalsOf(c) = {}
          /\ w \notin archived
          /\ available[w] >= TopUp[c].amount
          /\ reversals' = reversals \cup {row}
          /\ available' = [available EXCEPT ![w] = @ - TopUp[c].amount]
          /\ event' = FinalRow(h, "reversed", row)
          /\ Answers(h, "reversed")
    /\ UNCHANGED <<archived, posted, stale, alerts, reported, budgets>>

(* finalizeEvent as a statement of its own.                                *)
FinalizeEvent(h) ==
    /\ \/ /\ call[h].pc = "unmatched"
          /\ event' = FinalRow(h, "unmatched", None)
          /\ Answers(h, "unmatched")
       \/ /\ call[h].pc = "unresolved"
          /\ event' = FinalRow(h, "unresolved", None)
          /\ Answers(h, "unresolved")
       \/ /\ call[h].pc = "found"
          /\ \E r \in ReversalsOf(call[h].original) :
                event' = FinalRow(h, "reversed", r)
          /\ Answers(h, "reversed")
    /\ UNCHANGED <<wallet, reversals, stale, alerts, reported, budgets>>

(* An alert: FINANCE_CHARGEBACK_REVERSED or FINANCE_CHARGEBACK_ALERT.      *)
AlertKind(status) == IF status = "reversed" THEN "reversed" ELSE "unresolved"

(* notifyChargeback: a transaction per recipient; the unique key makes the *)
(* alert of an earlier delivery do.  Every finished status is alerted      *)
(* (needsFinanceChargebackAlert), so a redelivery repairs missed alerts.   *)
SendAlert(h) ==
    /\ call[h].pc = "alert"
    /\ \/ \E s \in call[h].todo :
             /\ alerts' = alerts \cup {<<EventOf(h), AlertKind(call[h].answer), s>>}
             /\ call' = [call EXCEPT ![h].todo = @ \ {s}]
       \/ call[h].todo = {} /\ Ends(h) /\ UNCHANGED alerts
    /\ UNCHANGED <<wallet, reversals, event, stale, reported, budgets>>

(* The process crashes or the database session is lost: an open            *)
(* transaction rolls back, the lock is free, the event stays as it is.     *)
CallDies(h) ==
    /\ call[h].pc # "idle"
    /\ faults < MaxFaults
    /\ faults' = faults + 1
    /\ Ends(h)
    /\ UNCHANGED <<wallet, reversals, event, stale, alerts, reported, deliveries>>

-------------------------------------------------------------------------------
(* The wallet's owner, the clock and the worker.                           *)

(* The top-up callback credits the wallet, before or after the provider    *)
(* takes the money back.                                                   *)
CreditTopUp(c) ==
    LET w == TopUp[c].wallet IN
    /\ c \notin posted
    /\ w \notin archived
    /\ posted' = posted \cup {c}
    /\ available' = [available EXCEPT ![w] = @ + TopUp[c].amount]
    /\ UNCHANGED <<archived, reversals, event, stale, alerts, reported, call,
                   budgets>>

SpendBalance(w) ==
    /\ available[w] > 0
    /\ available' = [available EXCEPT ![w] = 0]
    /\ UNCHANGED <<archived, posted, reversals, event, stale, alerts, reported,
                   call, budgets>>

ArchiveProfile(w) ==
    /\ w \notin archived
    /\ available[w] = 0
    /\ archived' = archived \cup {w}
    /\ UNCHANGED <<available, posted, reversals, event, stale, alerts, reported,
                   call, budgets>>

(* Only the age of an unfinished event is ever looked at.                  *)
PassStaleLimit(e) ==
    /\ event[e] # None
    /\ event[e].status = "processing"
    /\ e \notin stale
    /\ stale' = stale \cup {e}
    /\ UNCHANGED <<wallet, reversals, event, alerts, reported, call, budgets>>

(* Mutant: an unresolved chargeback has been answered and is left out.     *)
ReasonWithoutUnresolved(e) ==
    CASE event[e].status = "unmatched" -> "unmatched"
      [] event[e].status = "processing" /\ e \in stale -> "stalled_processing"
      [] OTHER -> None

(* What reconcileProviderTransactions finds wrong with a chargeback.       *)
Reason(e) ==
    CASE event[e].status \in {"unmatched", "unresolved"} -> event[e].status
      [] /\ event[e].status = "reversed"
         /\ \/ event[e].original \notin posted
            \/ event[e].reversal \notin ReversalsOf(event[e].original) ->
                "reversal_mismatch"
      [] event[e].status = "processing" /\ e \in stale -> "stalled_processing"
      [] OTHER -> None

(* One report per event and reason, while no handler holds its lock.       *)
ReportChargeback(e) ==
    /\ event[e] # None
    /\ \A h \in Handlers : ~HoldsEvent(h, e)
    /\ Reason(e) # None
    /\ <<e, Reason(e)>> \notin reported
    /\ reported' = reported \cup {<<e, Reason(e)>>}
    /\ UNCHANGED <<wallet, reversals, event, stale, alerts, call, budgets>>

Step(h) ==
    \/ ClaimEvent(h) \/ MatchTopUp(h) \/ FindExistingReversal(h)
    \/ ReverseTopUp(h) \/ FinalizeEvent(h) \/ SendAlert(h)

Next ==
    \/ \E h \in Handlers, d \in Deliveries : Deliver(h, d)
    \/ \E h \in Handlers : Lock(h) \/ Step(h) \/ CallDies(h)
    \/ \E c \in Credits : CreditTopUp(c)
    \/ \E w \in Wallets : SpendBalance(w) \/ ArchiveProfile(w)
    \/ \E e \in Events : PassStaleLimit(e) \/ ReportChargeback(e)

Spec == Init /\ [][Next]_vars

(* A call that is not killed runs on and is granted the lock in its turn.  *)
(* The scan runs on a timer; it skips an event with a call in progress and *)
(* meets it free again and again.  The clock advances.  Nothing is assumed *)
(* of the provider, the customer or the callbacks that credit.             *)
Fairness ==
    /\ \A h \in Handlers : WF_vars(Step(h)) /\ SF_vars(Lock(h))
    /\ \A e \in Events : WF_vars(PassStaleLimit(e)) /\ SF_vars(ReportChargeback(e))

FairSpec == Spec /\ Fairness

-------------------------------------------------------------------------------
TypeOK ==
    /\ archived \subseteq Wallets
    /\ available \in [Wallets -> Nat]
    /\ posted \subseteq Credits
    /\ reversals \subseteq Reversal
    /\ event \in [Events -> EventRow \cup {None}]
    /\ stale \subseteq Events
    /\ alerts \subseteq Events \X {"reversed", "unresolved"} \X Staff
    /\ call \in [Handlers -> Call]
    /\ \A h \in Handlers : call[h].pc # "idle" => call[h].delivery \in Deliveries

(* The money of a top-up is taken back at most once, whichever events the  *)
(* provider sends for it and however often, and a reversal never stands    *)
(* alone: the event that posted it says so.  An event that claims to be    *)
(* reversed names a reversal that exists, of a credit with the amount the  *)
(* provider named.  An alert is about a finished event and says as it does.*)
ReversalsAgree ==
    /\ \A r, q \in reversals : r.of = q.of => r = q
    /\ \A r \in reversals :
          /\ event[r.key] # None
          /\ event[r.key].status = "reversed"
          /\ event[r.key].reversal = r
    /\ \A e \in Events : event[e] # None /\ event[e].status = "reversed" =>
          /\ event[e].reversal \in ReversalsOf(event[e].original)
          /\ event[e].original \in posted
          /\ TopUp[event[e].original].amount = event[e].raw.amount
    /\ \A a \in alerts :
          /\ event[a[1]] # None
          /\ event[a[1]].status # "processing"
          /\ AlertKind(event[a[1]].status) = a[2]

Status(e) == IF event[e] = None THEN None ELSE event[e].status

(* A delivery of the event e waits, with the content e was claimed with,   *)
(* if it was.                                                              *)
DeliveryWaits(e) ==
    \E h \in Handlers :
        /\ call[h].pc = "lock"
        /\ EventOf(h) = e
        /\ event[e] # None => event[e].raw = RawOf(h)

Settled(e) ==
    /\ Status(e) \in Statuses \ {"processing"}
    /\ \A s \in Staff : <<e, AlertKind(Status(e)), s>> \in alerts

(* One undisturbed delivery settles an event and alerts every recipient,   *)
(* wherever the deliveries before it died; only a new fault keeps it from  *)
(* that.                                                                   *)
DeliverySettles ==
    \A e \in Events, f \in 0..MaxFaults :
        DeliveryWaits(e) /\ faults = f ~> Settled(e) \/ faults > f

(* No claimed chargeback stays out of sight: its money is back, or finance *)
(* has a reconciliation exception that names what is wrong with it.        *)
UnclearIsShown ==
    \A e \in Events : Status(e) # None ~>
        \/ Status(e) = "reversed"
        \/ \E reason \in {"unmatched", "unresolved", "stalled_processing"} :
              <<e, reason>> \in reported
===============================================================================
