-------------------------- MODULE ChargebacksProofs --------------------------
(***************************************************************************)
(* Proofs about Chargebacks, for any credits, events, notifications and    *)
(* concurrent deliveries: the types, that reversals, events and alerts     *)
(* agree, and that what is finished stays as it is.                        *)
(*                                                                         *)
(* ReversalsAgree is not inductive: it rests on what a delivery knows      *)
(* while it works.  Two deliveries of one event never work at the same     *)
(* time (LocksApart), so an event that one of them found unfinished is     *)
(* still unfinished when it posts, and whatever it has matched is still    *)
(* in the ledger (CallOK).                                                 *)
(***************************************************************************)
EXTENDS Chargebacks, TLAPS

Knows(h) == call[h].pc \in LockedSteps \ {"claim"}

LocksApart ==
    \A g, h \in Handlers :
        g # h /\ call[g].pc \in LockedSteps /\ call[h].pc \in LockedSteps
            => EventOf(g) # EventOf(h)

CallOK(h) ==
    /\ Knows(h) =>
          /\ event[EventOf(h)] # None
          /\ event[EventOf(h)].status = "processing"
          /\ event[EventOf(h)].raw = RawOf(h)
    /\ call[h].pc \in {"find", "reverse", "raced", "found"} =>
          /\ call[h].original \in posted
          /\ TopUp[call[h].original].amount = RawOf(h).amount
    /\ call[h].pc = "alert" =>
          /\ event[EventOf(h)] # None
          /\ event[EventOf(h)].status = call[h].answer
          /\ call[h].answer # "processing"

IInv ==
    /\ TypeOK
    /\ LocksApart
    /\ \A h \in Handlers : CallOK(h)
    /\ ReversalsAgree

(* What is finished stays: no event that has an answer gets another, and   *)
(* neither a reversal nor an alert is taken back (finalizeEvent's guard).  *)
Kept ==
    /\ \A e \in Events :
          event[e] # None /\ event[e].status # "processing"
              => event'[e] = event[e]
    /\ reversals \subseteq reversals'
    /\ alerts \subseteq alerts'

FinishedStays == [][Kept]_vars

-----------------------------------------------------------------------------
(* A delivery has a notification, which names an event.                    *)
LEMMA DeliveryTyped ==
    ASSUME TypeOK, NEW h \in Handlers, call[h].pc # "idle"
    PROVE  /\ call[h].delivery \in Deliveries
           /\ EventOf(h) \in Events
           /\ RawOf(h) \in Notification
BY DeliveriesAssumption DEF TypeOK, EventOf, RawOf

(* A step of h that stays with its notification.                           *)
LEMMA StepsTyped ==
    ASSUME TypeOK, NEW h \in Handlers, NEW row \in Call,
           call' = [call EXCEPT ![h] = row],
           row.pc # "idle" => row.delivery \in Deliveries
    PROVE  /\ call' \in [Handlers -> Call]
           /\ \A g \in Handlers : call'[g].pc # "idle" => call'[g].delivery \in Deliveries
BY DEF TypeOK

(* The lock stays with one delivery of an event.                           *)
LEMMA LocksKept ==
    ASSUME TypeOK, LocksApart, NEW h \in Handlers,
           \A g \in Handlers \ {h} : call'[g] = call[g],
           call'[h].pc \in LockedSteps =>
               call[h].pc \in LockedSteps /\ call'[h].delivery = call[h].delivery
    PROVE  LocksApart'
BY DEF LocksApart, EventOf

(* What the other deliveries know survives a step of h, which writes at    *)
(* most the unfinished event it holds the lock of.                         *)
LEMMA OthersKeep ==
    ASSUME IInv, NEW h \in Handlers,
           \A g \in Handlers \ {h} : call'[g] = call[g],
           \A e \in Events :
               \/ event'[e] = event[e]
               \/ /\ call[h].pc \in LockedSteps
                  /\ e = EventOf(h)
                  /\ event[e] = None \/ event[e].status = "processing",
           posted \subseteq posted'
    PROVE  \A g \in Handlers \ {h} : CallOK(g)'
<1> SUFFICES ASSUME NEW g \in Handlers \ {h}
             PROVE  CallOK(g)'
    OBVIOUS
<1>1. call'[g] = call[g] /\ CallOK(g) /\ LocksApart /\ TypeOK
    BY DEF IInv
<1>2. CASE Knows(g)
    <2>1. call[g].pc \in LockedSteps /\ call[g].pc # "idle" /\ call[g].pc # "alert"
        BY <1>2 DEF Knows, LockedSteps
    <2>2. EventOf(g) \in Events
        BY <1>1, <2>1, DeliveryTyped
    <2>3. event'[EventOf(g)] = event[EventOf(g)]
        BY <1>1, <2>1, <2>2 DEF LocksApart
    <2> QED
        BY <1>1, <1>2, <2>1, <2>3 DEF CallOK, Knows, EventOf, RawOf
<1>3. CASE call[g].pc = "alert"
    <2>1. EventOf(g) \in Events
        BY <1>1, <1>3, DeliveryTyped
    <2>2. event'[EventOf(g)] = event[EventOf(g)]
        BY <1>1, <1>3, <2>1 DEF CallOK
    <2> QED
        BY <1>1, <1>3, <2>2 DEF CallOK, Knows, LockedSteps, EventOf
<1>4. CASE ~Knows(g) /\ call[g].pc # "alert"
    BY <1>1, <1>4 DEF CallOK, Knows, LockedSteps
<1> QED
    BY <1>2, <1>3, <1>4

(* Steps that leave the tables of the handler alone.                       *)
LEMMA AgreeFrame ==
    ASSUME ReversalsAgree, UNCHANGED <<reversals, event, alerts>>,
           posted \subseteq posted'
    PROVE  ReversalsAgree'
BY DEF ReversalsAgree, ReversalsOf

-----------------------------------------------------------------------------
(* A step of h that writes none of the handler's tables.                   *)
LEMMA QuietStep ==
    ASSUME IInv, NEW h \in Handlers, NEW row \in Call,
           call' = [call EXCEPT ![h] = row],
           row.pc # "idle" => row.delivery \in Deliveries,
           row.pc \in LockedSteps =>
               call[h].pc \in LockedSteps /\ row.delivery = call[h].delivery,
           UNCHANGED <<wallet, reversals, event, stale, reported>>,
           alerts \subseteq alerts',
           alerts' \subseteq Events \X {"reversed", "unresolved"} \X Staff,
           ReversalsAgree',
           CallOK(h)'
    PROVE  IInv' /\ Kept
<1>1. /\ TypeOK /\ LocksApart
      /\ \A g \in Handlers \ {h} : call'[g] = call[g]
      /\ call'[h] = row
    BY DEF IInv, TypeOK
<1>2. TypeOK'
    BY <1>1, StepsTyped DEF TypeOK, wallet
<1>3. LocksApart'
    BY <1>1, LocksKept
<1>4. \A g \in Handlers \ {h} : CallOK(g)'
    BY <1>1, OthersKeep DEF wallet
<1> QED
    BY <1>2, <1>3, <1>4 DEF IInv, Kept

(* A step that touches no call.                                            *)
LEMMA IdleStep ==
    ASSUME IInv, UNCHANGED <<reversals, event, alerts, call>>,
           posted \subseteq posted',
           archived' \subseteq Wallets, posted' \subseteq Credits,
           available' \in [Wallets -> Nat], stale' \subseteq Events
    PROVE  IInv' /\ Kept
<1>1. TypeOK' /\ LocksApart' /\ Kept
    BY DEF IInv, TypeOK, LocksApart, EventOf, Kept
<1>2. ReversalsAgree'
    BY AgreeFrame DEF IInv
<1>3. \A g \in Handlers : CallOK(g)'
    BY DEF IInv, CallOK, Knows, EventOf, RawOf
<1> QED
    BY <1>1, <1>2, <1>3 DEF IInv

(* The rows a call goes through.                                           *)
LEMMA CallTyped ==
    ASSUME TypeOK, NEW h \in Handlers
    PROVE  /\ call[h] \in Call /\ CallIdle \in Call
           /\ CallIdle.pc = "idle"
           /\ \A d \in Deliveries :
                 [CallIdle EXCEPT !.pc = "lock", !.delivery = d] \in Call
           /\ \A p \in LockedSteps : [call[h] EXCEPT !.pc = p] \in Call
           /\ \A c \in Credits, p \in LockedSteps :
                 [call[h] EXCEPT !.pc = p, !.original = c] \in Call
           /\ \A a \in Statuses :
                 [call[h] EXCEPT !.pc = "alert", !.answer = a, !.todo = Staff] \in Call
           /\ \A s : [call[h] EXCEPT !.todo = @ \ {s}] \in Call
BY DEF TypeOK, Call, CallIdle

LEMMA GoRow ==
    ASSUME TypeOK, NEW h \in Handlers, NEW p \in LockedSteps, Goes(h, p)
    PROVE  LET row == [call[h] EXCEPT !.pc = p] IN
           /\ row \in Call /\ row.pc = p /\ row.delivery = call[h].delivery
           /\ row.original = call[h].original
           /\ call' = [call EXCEPT ![h] = row] /\ call'[h] = row
           /\ \A g \in Handlers \ {h} : call'[g] = call[g]
<1>1. [call[h] EXCEPT !.pc = p] \in Call
    BY CallTyped
<1>2. call[h] \in Call
    BY CallTyped
<1> QED
    BY <1>1, <1>2 DEF TypeOK, Call, Goes

LEMMA MatchRow ==
    ASSUME TypeOK, NEW h \in Handlers, NEW c \in Credits,
           call' = [call EXCEPT ![h].pc = "find", ![h].original = c]
    PROVE  LET row == [call[h] EXCEPT !.pc = "find", !.original = c] IN
           /\ row \in Call /\ row.pc = "find" /\ row.delivery = call[h].delivery
           /\ row.original = c
           /\ call' = [call EXCEPT ![h] = row] /\ call'[h] = row
<1>1. "find" \in LockedSteps
    BY DEF LockedSteps
<1>2. [call[h] EXCEPT !.pc = "find", !.original = c] \in Call
    BY <1>1, CallTyped
<1>3. call[h] \in Call
    BY CallTyped
<1> QED
    BY <1>2, <1>3 DEF TypeOK, Call

LEMMA AnswerRow ==
    ASSUME TypeOK, NEW h \in Handlers, NEW a \in Statuses, Answers(h, a)
    PROVE  LET row == [call[h] EXCEPT !.pc = "alert", !.answer = a, !.todo = Staff] IN
           /\ row \in Call /\ row.pc = "alert" /\ row.delivery = call[h].delivery
           /\ row.answer = a
           /\ call' = [call EXCEPT ![h] = row] /\ call'[h] = row
           /\ \A g \in Handlers \ {h} : call'[g] = call[g]
<1>1. /\ [call[h] EXCEPT !.pc = "alert", !.answer = a, !.todo = Staff] \in Call
      /\ call[h] \in Call
    BY CallTyped
<1> QED
    BY <1>1 DEF TypeOK, Call, Answers

LEMMA DeliverStep ==
    ASSUME IInv, NEW h \in Handlers, NEW d \in Deliveries, Deliver(h, d)
    PROVE  IInv' /\ Kept
<1> DEFINE row == [CallIdle EXCEPT !.pc = "lock", !.delivery = d]
<1>1. row \in Call /\ row.pc = "lock" /\ row.delivery = d
    BY CallTyped DEF IInv, CallIdle
<1>2. call' = [call EXCEPT ![h] = row] /\ call'[h] = row
    BY DEF Deliver, IInv, TypeOK
<1>3. UNCHANGED <<wallet, reversals, event, stale, alerts, reported>>
    BY DEF Deliver
<1>4. CallOK(h)'
    BY <1>1, <1>2 DEF CallOK, Knows, LockedSteps
<1>5. ReversalsAgree'
    BY <1>3, AgreeFrame DEF IInv, wallet
<1>6. row.pc \notin LockedSteps
    BY <1>1 DEF LockedSteps
<1> QED
    BY <1>1, <1>2, <1>3, <1>4, <1>5, <1>6, QuietStep DEF IInv, TypeOK

(* The call ends.                                                          *)
LEMMA EndStep ==
    ASSUME IInv, NEW h \in Handlers, Ends(h),
           UNCHANGED <<wallet, reversals, event, stale, alerts, reported>>
    PROVE  IInv' /\ Kept
<1>1. CallIdle \in Call /\ CallIdle.pc = "idle"
    BY CallTyped DEF IInv
<1>2. call' = [call EXCEPT ![h] = CallIdle] /\ call'[h] = CallIdle
    BY DEF Ends, IInv, TypeOK
<1>3. CallOK(h)'
    BY <1>1, <1>2 DEF CallOK, Knows, LockedSteps
<1>4. ReversalsAgree'
    BY AgreeFrame DEF IInv, wallet
<1>5. CallIdle.pc \notin LockedSteps
    BY <1>1 DEF LockedSteps
<1> QED
    BY <1>1, <1>2, <1>3, <1>4, <1>5, QuietStep DEF IInv, TypeOK

(* A delivery that works goes on to another step and writes nothing.       *)
LEMMA GoStep ==
    ASSUME IInv, NEW h \in Handlers, NEW p \in LockedSteps \ {"claim"}, Goes(h, p),
           Knows(h),
           p \in {"find", "reverse", "raced", "found"} =>
               call[h].pc \in {"find", "reverse", "raced", "found"},
           UNCHANGED <<wallet, reversals, event, stale, alerts, reported>>
    PROVE  IInv' /\ Kept
<1> DEFINE row == [call[h] EXCEPT !.pc = p]
<1>1. /\ row \in Call /\ row.pc = p /\ row.delivery = call[h].delivery
      /\ row.original = call[h].original
    BY CallTyped DEF IInv, TypeOK, Call
<1>2. call' = [call EXCEPT ![h] = row] /\ call'[h] = row
    BY DEF Goes, IInv, TypeOK
<1>3. call[h].pc \in LockedSteps /\ call[h].pc # "idle" /\ p # "alert"
    BY DEF Knows, LockedSteps
<1>4. CallOK(h)'
    BY <1>1, <1>2, <1>3 DEF IInv, CallOK, Knows, EventOf, RawOf, wallet
<1>5. ReversalsAgree'
    BY AgreeFrame DEF IInv, wallet
<1> QED
    BY <1>1, <1>2, <1>3, <1>4, <1>5, QuietStep, DeliveryTyped DEF IInv, TypeOK

LEMMA LockStep ==
    ASSUME IInv, NEW h \in Handlers, Lock(h)
    PROVE  IInv' /\ Kept
<1> DEFINE row == [call[h] EXCEPT !.pc = "claim"]
<1>1. "claim" \in LockedSteps /\ "lock" \notin LockedSteps
    BY DEF LockedSteps
<1>2. /\ row \in Call /\ row.pc = "claim" /\ row.delivery = call[h].delivery
      /\ call' = [call EXCEPT ![h] = row] /\ call'[h] = row
      /\ \A g \in Handlers \ {h} : call'[g] = call[g]
    BY <1>1, GoRow DEF IInv, Lock
<1>3. UNCHANGED <<wallet, reversals, event, stale, alerts, reported>>
    BY DEF Lock
<1>4. TypeOK'
    <2>1. row.delivery \in Deliveries
        BY <1>2, DeliveryTyped DEF IInv, Lock
    <2> QED
        BY <1>2, <1>3, <2>1, StepsTyped DEF IInv, TypeOK, wallet
<1>5. LocksApart'
    <2>1. \A g \in Handlers : ~HoldsEvent(g, EventOf(h))
        BY DEF Lock
    <2> QED
        BY <1>2, <2>1 DEF IInv, LocksApart, HoldsEvent, EventOf
<1>6. CallOK(h)'
    BY <1>2 DEF CallOK, Knows
<1>7. \A g \in Handlers \ {h} : CallOK(g)'
    BY <1>2, <1>3, OthersKeep DEF wallet
<1>8. ReversalsAgree'
    BY <1>3, AgreeFrame DEF IInv, wallet
<1> QED
    BY <1>3, <1>4, <1>5, <1>6, <1>7, <1>8 DEF IInv, Kept

(* The answer is known; the event has it already.                          *)
LEMMA AnswerStep ==
    ASSUME IInv, NEW h \in Handlers, NEW a \in Statuses \ {"processing"},
           Answers(h, a), call[h].pc \in LockedSteps,
           event[EventOf(h)] # None, event[EventOf(h)].status = a,
           UNCHANGED <<wallet, reversals, event, stale, alerts, reported>>
    PROVE  IInv' /\ Kept
<1> DEFINE row == [call[h] EXCEPT !.pc = "alert", !.answer = a, !.todo = Staff]
<1>1. /\ row \in Call /\ row.pc = "alert" /\ row.delivery = call[h].delivery
      /\ row.answer = a
    BY CallTyped DEF IInv, TypeOK, Call
<1>2. call' = [call EXCEPT ![h] = row] /\ call'[h] = row
    BY DEF Answers, IInv, TypeOK
<1>3. call[h].pc # "idle" /\ "alert" \notin LockedSteps
    BY DEF LockedSteps
<1>4. CallOK(h)'
    BY <1>1, <1>2 DEF CallOK, Knows, EventOf, LockedSteps
<1>5. ReversalsAgree'
    BY AgreeFrame DEF IInv, wallet
<1> QED
    BY <1>1, <1>2, <1>3, <1>4, <1>5, QuietStep, DeliveryTyped DEF IInv, TypeOK

LEMMA ClaimStep ==
    ASSUME IInv, NEW h \in Handlers, ClaimEvent(h)
    PROVE  IInv' /\ Kept
<1> DEFINE e == EventOf(h)
<1>0. /\ call[h].pc = "claim" /\ call[h].pc \in LockedSteps /\ call[h].pc # "idle"
      /\ "match" \in LockedSteps
      /\ UNCHANGED <<wallet, reversals, stale, alerts, reported>>
    BY DEF ClaimEvent, LockedSteps
<1>1. e \in Events /\ RawOf(h) \in Notification /\ call[h].delivery \in Deliveries
    BY <1>0, DeliveryTyped DEF IInv
<1>2. CASE event[e] = None
    <2> DEFINE new == [raw |-> RawOf(h), status |-> "processing",
                       original |-> None, reversal |-> None]
               row == [call[h] EXCEPT !.pc = "match"]
    <2>1. event' = [event EXCEPT ![e] = new] /\ Goes(h, "match")
        BY <1>2 DEF ClaimEvent
    <2>2. new \in EventRow /\ new # None /\ new.status = "processing"
          /\ new.raw = RawOf(h)
        BY <1>1, NoneAssumption DEF EventRow, Statuses
    <2>3. /\ event' \in [Events -> EventRow \cup {None}]
          /\ event'[e] = new /\ \A f \in Events \ {e} : event'[f] = event[f]
        BY <1>1, <2>1, <2>2 DEF IInv, TypeOK
    <2>4. /\ row \in Call /\ row.pc = "match" /\ row.delivery = call[h].delivery
          /\ call' = [call EXCEPT ![h] = row] /\ call'[h] = row
          /\ \A g \in Handlers \ {h} : call'[g] = call[g]
        BY <1>0, <2>1, GoRow DEF IInv
    <2>5. TypeOK'
        BY <1>0, <1>1, <2>3, <2>4, StepsTyped DEF IInv, TypeOK, wallet
    <2>6. LocksApart'
        BY <1>0, <2>4, LocksKept DEF IInv
    <2>7. CallOK(h)'
        <3>1. EventOf(h)' = e /\ RawOf(h)' = RawOf(h)
            BY <2>4 DEF EventOf, RawOf
        <3>2. event'[EventOf(h)'] = new /\ call'[h].pc = "match"
            BY <2>3, <2>4, <3>1
        <3> QED
            BY <2>2, <3>1, <3>2 DEF CallOK
    <2>8. \A g \in Handlers \ {h} : CallOK(g)'
        BY <1>0, <1>2, <2>3, <2>4, OthersKeep DEF wallet
    <2>9. ReversalsAgree'
        <3>1. \A r \in reversals : r.key # e /\ r.key \in Events
            BY <1>2 DEF IInv, TypeOK, ReversalsAgree, Reversal
        <3>2. \A a \in alerts : a[1] # e /\ a[1] \in Events
            BY <1>2 DEF IInv, TypeOK, ReversalsAgree
        <3> QED
            BY <1>0, <2>2, <2>3, <3>1, <3>2 DEF IInv, ReversalsAgree, ReversalsOf, wallet
    <2>10. Kept
        BY <1>0, <1>2, <2>3 DEF Kept
    <2> QED
        BY <2>5, <2>6, <2>7, <2>8, <2>9, <2>10 DEF IInv
<1>3. CASE event[e] # None
    <2>1. UNCHANGED event /\ event[e] \in EventRow
        BY <1>1, <1>3 DEF ClaimEvent, IInv, TypeOK
    <2>2. CASE event[e].raw # RawOf(h)
        BY <1>0, <1>3, <2>1, <2>2, EndStep DEF ClaimEvent
    <2>3. CASE event[e].raw = RawOf(h) /\ Resumes(event[e])
        <3> DEFINE row == [call[h] EXCEPT !.pc = "match"]
        <3>1. Goes(h, "match")
            BY <1>3, <2>3 DEF ClaimEvent
        <3>2. /\ row \in Call /\ row.pc = "match" /\ row.delivery = call[h].delivery
              /\ call' = [call EXCEPT ![h] = row] /\ call'[h] = row
            BY <1>0, <3>1, GoRow DEF IInv
        <3>3. CallOK(h)'
            BY <1>3, <2>1, <2>3, <3>2 DEF CallOK, Knows, EventOf, RawOf, Resumes
        <3>4. ReversalsAgree'
            BY <1>0, <2>1, AgreeFrame DEF IInv, wallet
        <3> QED
            BY <1>0, <1>1, <2>1, <3>2, <3>3, <3>4, QuietStep DEF IInv, TypeOK
    <2>4. CASE event[e].raw = RawOf(h) /\ ~Resumes(event[e])
        <3>1. Answers(h, event[e].status)
            BY <1>3, <2>4 DEF ClaimEvent
        <3>2. event[e].status \in Statuses \ {"processing"}
            BY <2>1, <2>4 DEF Resumes, EventRow
        <3> QED
            BY <1>0, <1>3, <2>1, <3>1, <3>2, AnswerStep
    <2> QED
        BY <2>2, <2>3, <2>4
<1> QED
    BY <1>2, <1>3

LEMMA MatchStep ==
    ASSUME IInv, NEW h \in Handlers, MatchTopUp(h)
    PROVE  IInv' /\ Kept
<1>1. /\ call[h].pc = "match" /\ Knows(h) /\ call[h].pc # "idle"
      /\ UNCHANGED <<wallet, reversals, event, stale, alerts, reported>>
    BY DEF MatchTopUp, Knows, LockedSteps
<1>2. ASSUME NEW c \in posted, Matches(RawOf(h), c),
             call' = [call EXCEPT ![h].pc = "find", ![h].original = c]
      PROVE  IInv' /\ Kept
    <2> DEFINE row == [call[h] EXCEPT !.pc = "find", !.original = c]
    <2>1. c \in Credits /\ TopUp[c].amount = RawOf(h).amount
        BY <1>2 DEF IInv, TypeOK, Matches
    <2>2. /\ row \in Call /\ row.pc = "find" /\ row.delivery = call[h].delivery
          /\ row.original = c
          /\ call' = [call EXCEPT ![h] = row] /\ call'[h] = row
        BY <1>2, <2>1, MatchRow DEF IInv
    <2>3. CallOK(h)'
        <3>1. EventOf(h)' = EventOf(h) /\ RawOf(h)' = RawOf(h)
            BY <2>2 DEF EventOf, RawOf
        <3>2. /\ event[EventOf(h)] # None
              /\ event[EventOf(h)].status = "processing"
              /\ event[EventOf(h)].raw = RawOf(h)
            BY <1>1 DEF IInv, CallOK
        <3>3. call'[h].pc = "find" /\ call'[h].original = c
            BY <2>2
        <3>4. event' = event /\ posted' = posted
            BY <1>1 DEF wallet
        <3> QED
            BY <1>2, <2>1, <3>1, <3>2, <3>3, <3>4 DEF CallOK
    <2>4. ReversalsAgree'
        BY <1>1, AgreeFrame DEF IInv, wallet
    <2>5. call[h].pc \in LockedSteps
        BY <1>1 DEF Knows
    <2> QED
        BY <1>1, <2>2, <2>3, <2>4, <2>5, QuietStep, DeliveryTyped DEF IInv, TypeOK
<1>3. CASE Goes(h, "unmatched")
    BY <1>1, <1>3, GoStep DEF LockedSteps
<1> QED
    BY <1>2, <1>3 DEF MatchTopUp

LEMMA FindStep ==
    ASSUME IInv, NEW h \in Handlers, FindExistingReversal(h)
    PROVE  IInv' /\ Kept
<1>1. /\ call[h].pc \in {"find", "raced"} /\ Knows(h)
      /\ UNCHANGED <<wallet, reversals, event, stale, alerts, reported>>
    BY DEF FindExistingReversal, Knows, LockedSteps
<1>2. Goes(h, "found") \/ Goes(h, "reverse") \/ Ends(h)
    BY DEF FindExistingReversal
<1> QED
    BY <1>1, <1>2, GoStep, EndStep DEF LockedSteps

-----------------------------------------------------------------------------
(* An event that is being worked on is finished.                           *)
LEMMA FinishStep ==
    ASSUME IInv, NEW h \in Handlers, Knows(h),
           NEW a \in Statuses \ {"processing"}, NEW rev \in Reversal \cup {None},
           Answers(h, a), event' = FinalRow(h, a, rev),
           UNCHANGED <<stale, alerts, reported, archived, posted>>,
           available' \in [Wallets -> Nat],
           reversals \subseteq reversals', reversals' \subseteq Reversal,
           \A r \in reversals' \ reversals : r = rev /\ r.key = EventOf(h),
           \A r \in reversals' \ reversals : ReversalsOf(r.of) = {},
           rev \in reversals' \ reversals => a = "reversed",
           a = "reversed" =>
               /\ rev \in reversals'
               /\ rev.of = call[h].original
               /\ call[h].pc \in {"reverse", "found"}
    PROVE  IInv' /\ Kept
<1> DEFINE e == EventOf(h)
           new == [raw |-> event[e].raw, status |-> a,
                   original |-> call[h].original, reversal |-> rev]
           row == [call[h] EXCEPT !.pc = "alert", !.answer = a, !.todo = Staff]
<1>1. /\ call[h].pc \in LockedSteps /\ call[h].pc # "idle" /\ "alert" \notin LockedSteps
      /\ event[e] # None /\ event[e].status = "processing" /\ event[e].raw = RawOf(h)
    BY DEF Knows, LockedSteps, IInv, CallOK
<1>2. e \in Events /\ call[h].delivery \in Deliveries /\ event[e] \in EventRow
    BY <1>1, DeliveryTyped DEF IInv, TypeOK
<1>3. /\ row \in Call /\ row.pc = "alert" /\ row.delivery = call[h].delivery
      /\ row.answer = a
      /\ call' = [call EXCEPT ![h] = row] /\ call'[h] = row
      /\ \A g \in Handlers \ {h} : call'[g] = call[g]
    BY AnswerRow DEF IInv
<1>4. new \in EventRow /\ new # None
    BY <1>2, NoneAssumption DEF IInv, TypeOK, Call, EventRow
<1>5. /\ event' = [event EXCEPT ![e] = new] /\ event'[e] = new
      /\ \A f \in Events \ {e} : event'[f] = event[f]
    BY <1>1, <1>2 DEF FinalRow, IInv, TypeOK
<1>6. TypeOK'
    BY <1>2, <1>3, <1>4, <1>5, StepsTyped DEF IInv, TypeOK
<1>7. LocksApart'
    BY <1>1, <1>3, LocksKept DEF IInv
<1>8. CallOK(h)'
    <2>1. EventOf(h)' = e
        BY <1>3 DEF EventOf
    <2>2. event'[EventOf(h)'] = new /\ call'[h].pc = "alert" /\ call'[h].answer = a
        BY <1>3, <1>5, <2>1
    <2> QED
        BY <1>1, <1>4, <2>2 DEF CallOK, Knows
<1>9. \A g \in Handlers \ {h} : CallOK(g)'
    BY <1>1, <1>3, <1>5, OthersKeep
<1>10. ReversalsAgree'
    <2>1. \A r \in reversals : r.key # e /\ r.key \in Events
        BY <1>1 DEF IInv, TypeOK, ReversalsAgree, Reversal
    <2>2. \A b \in alerts : b[1] # e /\ b[1] \in Events
        BY <1>1 DEF IInv, TypeOK, ReversalsAgree
    <2>3. \A f \in Events \ {e} : event'[f] = event[f]
        BY <1>5
    <2>4. new.status = a /\ new.reversal = rev /\ new.original = call[h].original
          /\ new.raw = RawOf(h)
        BY <1>1
    <2>5. \A r, q \in reversals' : r.of = q.of => r = q
        BY DEF IInv, ReversalsAgree, ReversalsOf
    <2>6. \A r \in reversals' : /\ event'[r.key] # None
                                /\ event'[r.key].status = "reversed"
                                /\ event'[r.key].reversal = r
        <3> SUFFICES ASSUME NEW r \in reversals'
                     PROVE  /\ event'[r.key] # None
                            /\ event'[r.key].status = "reversed"
                            /\ event'[r.key].reversal = r
            OBVIOUS
        <3>1. CASE r \in reversals
            BY <2>1, <2>3, <3>1 DEF IInv, ReversalsAgree
        <3>2. CASE r \notin reversals
            <4>1. r = rev /\ r.key = e /\ a = "reversed"
                BY <3>2
            <4> QED
                BY <1>4, <1>5, <2>4, <4>1
        <3> QED
            BY <3>1, <3>2
    <2>7. ASSUME NEW f \in Events, event'[f] # None, event'[f].status = "reversed"
          PROVE  /\ event'[f].reversal \in {r \in reversals' : r.of = event'[f].original}
                 /\ event'[f].original \in posted'
                 /\ TopUp[event'[f].original].amount = event'[f].raw.amount
        <3>1. CASE f = e
            <4>1. a = "reversed" /\ event'[f] = new
                BY <1>5, <2>4, <2>7, <3>1
            <4>2. /\ call[h].original \in posted
                  /\ TopUp[call[h].original].amount = RawOf(h).amount
                BY <4>1 DEF IInv, CallOK
            <4> QED
                BY <2>4, <4>1, <4>2
        <3>2. CASE f # e
            <4>1. event'[f] = event[f]
                BY <2>3, <3>2
            <4> QED
                BY <2>7, <4>1 DEF IInv, ReversalsAgree, ReversalsOf
        <3> QED
            BY <3>1, <3>2
    <2>8. \A b \in alerts' : /\ event'[b[1]] # None
                             /\ event'[b[1]].status # "processing"
                             /\ AlertKind(event'[b[1]].status) = b[2]
        BY <2>2, <2>3 DEF IInv, ReversalsAgree
    <2> QED
        BY <2>5, <2>6, <2>7, <2>8 DEF ReversalsAgree, ReversalsOf
<1>11. Kept
    BY <1>1, <1>5 DEF Kept
<1> QED
    BY <1>6, <1>7, <1>8, <1>9, <1>10, <1>11 DEF IInv

(* The reversal and the end of its event are one commit, so a key that     *)
(* posted before belongs to an event that is finished.                     *)
LEMMA ReverseStep ==
    ASSUME IInv, NEW h \in Handlers, ReverseTopUp(h)
    PROVE  IInv' /\ Kept
<1> DEFINE c == call[h].original
           w == TopUp[c].wallet
           row == [of |-> c, key |-> EventOf(h)]
           replayed == {r \in reversals : r.key = row.key}
<1>1. /\ call[h].pc = "reverse" /\ Knows(h) /\ call[h].pc # "idle"
      /\ UNCHANGED <<archived, posted, stale, alerts, reported, budgets>>
    BY DEF ReverseTopUp, Knows, LockedSteps
<1>2. EventOf(h) \in Events /\ c \in posted /\ c \in Credits
    BY <1>1, DeliveryTyped DEF IInv, CallOK, TypeOK
<1>3. replayed = {}
    BY <1>1 DEF IInv, CallOK, ReversalsAgree
<1>4. \/ Goes(h, "raced") /\ UNCHANGED <<available, reversals, event>>
      \/ Goes(h, "unresolved") /\ UNCHANGED <<available, reversals, event>>
      \/ /\ ReversalsOf(c) = {}
         /\ available[w] >= TopUp[c].amount
         /\ reversals' = reversals \cup {row}
         /\ available' = [available EXCEPT ![w] = @ - TopUp[c].amount]
         /\ event' = FinalRow(h, "reversed", row)
         /\ Answers(h, "reversed")
    BY <1>3 DEF ReverseTopUp
<1>5. CASE Goes(h, "raced") /\ UNCHANGED <<available, reversals, event>>
    BY <1>1, <1>5, GoStep DEF wallet, LockedSteps
<1>6. CASE Goes(h, "unresolved") /\ UNCHANGED <<available, reversals, event>>
    BY <1>1, <1>6, GoStep DEF wallet, LockedSteps
<1>7. CASE /\ ReversalsOf(c) = {}
           /\ available[w] >= TopUp[c].amount
           /\ reversals' = reversals \cup {row}
           /\ available' = [available EXCEPT ![w] = @ - TopUp[c].amount]
           /\ event' = FinalRow(h, "reversed", row)
           /\ Answers(h, "reversed")
    <2>1. row \in Reversal /\ row.of = c /\ row.key = EventOf(h)
        BY <1>2 DEF Reversal
    <2>2. available' \in [Wallets -> Nat]
        BY <1>2, <1>7, TopUpAssumption DEF IInv, TypeOK
    <2>3. reversals' \subseteq Reversal
        BY <1>7, <2>1 DEF IInv, TypeOK
    <2>4. "reversed" \in Statuses \ {"processing"}
        BY DEF Statuses
    <2> QED
        BY <1>1, <1>7, <2>1, <2>2, <2>3, <2>4, FinishStep
<1> QED
    BY <1>4, <1>5, <1>6, <1>7

LEMMA FinalizeStep ==
    ASSUME IInv, NEW h \in Handlers, FinalizeEvent(h)
    PROVE  IInv' /\ Kept
<1>1. /\ Knows(h)
      /\ UNCHANGED <<wallet, reversals, stale, alerts, reported>>
      /\ UNCHANGED <<stale, alerts, reported, archived, posted>>
      /\ available' \in [Wallets -> Nat]
      /\ reversals' \subseteq Reversal
    BY DEF FinalizeEvent, Knows, LockedSteps, wallet, IInv, TypeOK
<1>2. {"unmatched", "unresolved", "reversed"} \subseteq Statuses \ {"processing"}
    BY DEF Statuses
<1>3. ASSUME NEW a \in {"unmatched", "unresolved"},
             event' = FinalRow(h, a, None), Answers(h, a)
      PROVE  IInv' /\ Kept
    BY <1>1, <1>2, <1>3, FinishStep
<1>4. ASSUME NEW r \in ReversalsOf(call[h].original), call[h].pc = "found",
             event' = FinalRow(h, "reversed", r), Answers(h, "reversed")
      PROVE  IInv' /\ Kept
    <2>1. r \in Reversal /\ r \in reversals' /\ r.of = call[h].original
        BY <1>1, <1>4 DEF ReversalsOf
    <2> QED
        BY <1>1, <1>2, <1>4, <2>1, FinishStep
<1> QED
    BY <1>3, <1>4 DEF FinalizeEvent

LEMMA AlertStep ==
    ASSUME IInv, NEW h \in Handlers, SendAlert(h)
    PROVE  IInv' /\ Kept
<1> DEFINE e == EventOf(h)
<1>1. /\ call[h].pc = "alert" /\ call[h].pc # "idle" /\ "alert" \notin LockedSteps
      /\ UNCHANGED <<wallet, reversals, event, stale, reported>>
    BY DEF SendAlert, LockedSteps
<1>2. /\ e \in Events /\ call[h].delivery \in Deliveries
      /\ event[e] # None /\ event[e].status = call[h].answer
      /\ call[h].answer # "processing"
    BY <1>1, DeliveryTyped DEF IInv, CallOK
<1>3. ASSUME NEW s \in call[h].todo,
             alerts' = alerts \cup {<<e, AlertKind(call[h].answer), s>>},
             call' = [call EXCEPT ![h].todo = @ \ {s}]
      PROVE  IInv' /\ Kept
    <2> DEFINE row == [call[h] EXCEPT !.todo = @ \ {s}]
    <2>1. row \in Call /\ s \in Staff /\ call[h] \in Call
        BY <1>3, CallTyped DEF IInv, TypeOK, Call
    <2>2. /\ row.pc = "alert" /\ row.delivery = call[h].delivery
          /\ row.answer = call[h].answer
          /\ call' = [call EXCEPT ![h] = row] /\ call'[h] = row
        BY <1>1, <1>3, <2>1 DEF IInv, TypeOK, Call
    <2>3. CallOK(h)'
        <3>1. EventOf(h)' = e /\ call'[h].pc = "alert" /\ call'[h].answer = call[h].answer
            BY <2>2 DEF EventOf
        <3> QED
            BY <1>1, <1>2, <3>1 DEF CallOK, Knows
    <2>4. AlertKind(call[h].answer) \in {"reversed", "unresolved"}
        BY DEF AlertKind
    <2>5. alerts' \subseteq Events \X {"reversed", "unresolved"} \X Staff
        BY <1>2, <1>3, <2>1, <2>4 DEF IInv, TypeOK
    <2>6. ReversalsAgree'
        BY <1>1, <1>2, <1>3 DEF IInv, ReversalsAgree, ReversalsOf, wallet
    <2> QED
        BY <1>1, <1>2, <1>3, <2>1, <2>2, <2>3, <2>5, <2>6, QuietStep
<1>4. CASE Ends(h) /\ UNCHANGED alerts
    BY <1>1, <1>4, EndStep
<1> QED
    BY <1>1, <1>3, <1>4 DEF SendAlert

-----------------------------------------------------------------------------
(* The top-up credits, the customer spends, the profile is archived, time  *)
(* passes and the worker reports.                                          *)
LEMMA SurroundingsStep ==
    ASSUME IInv,
           \/ \E c \in Credits : CreditTopUp(c)
           \/ \E w \in Wallets : SpendBalance(w) \/ ArchiveProfile(w)
           \/ \E e \in Events : PassStaleLimit(e) \/ ReportChargeback(e)
    PROVE  IInv' /\ Kept
<1>1. TypeOK
    BY DEF IInv
<1>2. ASSUME NEW c \in Credits, CreditTopUp(c)
      PROVE  IInv' /\ Kept
    <2>1. available' \in [Wallets -> Nat]
        BY <1>1, <1>2, TopUpAssumption DEF CreditTopUp, TypeOK
    <2> QED
        BY <1>1, <1>2, <2>1, IdleStep DEF CreditTopUp, TypeOK
<1>3. ASSUME NEW w \in Wallets, SpendBalance(w) \/ ArchiveProfile(w)
      PROVE  IInv' /\ Kept
    BY <1>1, <1>3, IdleStep DEF SpendBalance, ArchiveProfile, TypeOK
<1>4. ASSUME NEW e \in Events, PassStaleLimit(e) \/ ReportChargeback(e)
      PROVE  IInv' /\ Kept
    BY <1>1, <1>4, IdleStep DEF PassStaleLimit, ReportChargeback, TypeOK, wallet
<1> QED
    BY <1>2, <1>3, <1>4

LEMMA InitStep == Init => IInv
<1> SUFFICES ASSUME Init
             PROVE  IInv
    OBVIOUS
<1>1. CallIdle \in Call /\ CallIdle.pc = "idle"
    BY DEF CallIdle, Call
<1>2. TypeOK
    BY <1>1 DEF Init, TypeOK
<1>3. LocksApart /\ \A h \in Handlers : CallOK(h)
    BY <1>1 DEF Init, LocksApart, CallOK, Knows, LockedSteps
<1>4. ReversalsAgree
    BY DEF Init, ReversalsAgree
<1> QED
    BY <1>2, <1>3, <1>4 DEF IInv

LEMMA NextStep == IInv /\ [Next]_vars => IInv' /\ [Kept]_vars
<1> SUFFICES ASSUME IInv, [Next]_vars
             PROVE  IInv' /\ [Kept]_vars
    OBVIOUS
<1>1. ASSUME NEW h \in Handlers, NEW d \in Deliveries, Deliver(h, d)
      PROVE  IInv' /\ Kept
    BY <1>1, DeliverStep
<1>2. ASSUME NEW h \in Handlers, Lock(h) \/ Step(h)
      PROVE  IInv' /\ Kept
    BY <1>2, LockStep, ClaimStep, MatchStep, FindStep, ReverseStep, FinalizeStep,
       AlertStep DEF Step
<1>3. ASSUME NEW h \in Handlers, CallDies(h)
      PROVE  IInv' /\ Kept
    BY <1>3, EndStep DEF CallDies
<1>4. CASE UNCHANGED vars
    BY <1>4 DEF vars, wallet, budgets, IInv, TypeOK, LocksApart, CallOK, Knows, EventOf,
       RawOf, ReversalsAgree, ReversalsOf
<1> QED
    BY <1>1, <1>2, <1>3, <1>4, SurroundingsStep DEF Next

LEMMA Inductive == Spec => []IInv
<1> QED
    BY InitStep, NextStep, PTL DEF Spec

(* Every table and every call of Chargebacks keeps its type: a balance     *)
(* that a chargeback reduces never goes below zero.                        *)
THEOREM TypeCorrect == Spec => []TypeOK
<1>1. IInv => TypeOK
    BY DEF IInv
<1> QED
    BY <1>1, Inductive, PTL

(* Money is taken back once per top-up, by an event that says so, and no   *)
(* alert contradicts its event.                                            *)
THEOREM ReversedOnce == Spec => []ReversalsAgree
<1>1. IInv => ReversalsAgree
    BY DEF IInv
<1> QED
    BY <1>1, Inductive, PTL

(* finalizeEvent: a finished event keeps its answer, a reversal and an     *)
(* alert are never taken back.                                             *)
THEOREM FinishedEventsStay == Spec => FinishedStays
<1> QED
    BY InitStep, NextStep, Inductive, PTL DEF Spec, FinishedStays
=============================================================================
