--------------------------- MODULE OnlineTopUpProofs ---------------------------
(***************************************************************************)
(* Proofs about OnlineTopUp, for any number of intents, events, deliveries *)
(* and calls and any bound on them.                                        *)
(*                                                                         *)
(* No transaction spans the statements of a call, so what a call does next *)
(* rests on what it established before: CallOK and StartOK say what is     *)
(* still true of it.  It is, because the tables only grow: an authority,   *)
(* an event's order, a payment and a credit are never taken back.          *)
(***************************************************************************)
EXTENDS OnlineTopUp, TLAPS

(* Payment sessions that exist or may still come to exist.                 *)
Opened(i) == minted[i] + requests[i]

(* A credit carries the key of its intent and was paid.                    *)
CreditOK(c) ==
    /\ c.key = <<c.order>>
    /\ intent[c.order] # None
    /\ intent[c.order].authority # None
    /\ <<c.order, intent[c.order].authority>> \in paid

CreditsOK == \A c \in credits : CreditOK(c)

(* What a callback call has established by the step it is at.              *)
CallOK(h) ==
    LET c == call[h]
        i == call[h].delivery.order
        e == call[h].delivery.event
    IN  /\ c.pc \in CallSteps \ {"load"} =>
              intent[i] # None /\ intent[i].authority # None
        /\ c.pc \in CallSteps \ {"load", "claim"} =>
              event[e] # None /\ event[e].order = i
        /\ c.pc = "credit" => <<i, intent[i].authority>> \in paid
        /\ c.pc = "release" => CreditOf(i) # {} /\ c.out # "unpaid"
        /\ c.pc = "fail" => c.out = "unpaid"
        /\ c.pc = "finalize" =>
              c.out # None /\ (c.out # "unpaid" => CreditOf(i) # {})

CallsOK == \A h \in Handlers : CallOK(h)

(* What an initiate call has established: whoever is about to ask for a    *)
(* session, or was refused one, knows that there is none.                  *)
StartOK(s) ==
    LET i == start[s].order
    IN  /\ start[s].pc \in StartSteps \ {"insert"} => intent[i] # None
        /\ start[s].pc \in {"ask", "waiting"} => intent[i].gateway # "none"
        /\ start[s].pc \in {"ask", "rejected"} => Opened(i) = 0
        /\ start[s].pc = "waiting" => minted[i] = 0 /\ requests[i] = 1

StartsOK == \A s \in Starters : StartOK(s)

(* The advisory lock on the key.                                           *)
OneStartPerKey ==
    \A s, t \in Starters :
        start[s].pc \in StartSteps /\ start[t].pc \in StartSteps
        /\ start[s].order = start[t].order => s = t

(* An intent that nobody claimed has no session.                           *)
UnclaimedIsUnopened ==
    \A i \in Intents :
        intent[i] = None \/ intent[i].gateway = "none" => Opened(i) = 0

(* The expiry scan works on rows that are there.                           *)
CandidatesExist == \A i \in candidates : intent[i] # None

IInv ==
    /\ TypeOK
    /\ OneCreditPerIntent
    /\ CreditsOK
    /\ SettledIsCredited
    /\ ArchivedIsSettled
    /\ CallsOK
    /\ StartsOK
    /\ OneStartPerKey
    /\ UnclaimedIsUnopened
    /\ OneSessionPerIntent
    /\ CandidatesExist

USE NoneNotMember, DeliveriesAssumption DEF Outcomes

-------------------------------------------------------------------------------
(* Frames                                                                  *)

(* What no step takes back.                                                *)
Grows ==
    /\ \A i \in Intents : intent[i] # None =>
          /\ intent'[i] # None
          /\ intent[i].authority # None => intent'[i].authority = intent[i].authority
    /\ \A e \in Events : event[e] # None =>
          event'[e] # None /\ event'[e].order = event[e].order
    /\ paid \subseteq paid'
    /\ credits \subseteq credits'

(* A call that does not move keeps what it has established.                *)
LEMMA CallKept ==
    ASSUME IInv, Grows, NEW h \in Handlers, call'[h] = call[h]
    PROVE  CallOK(h)'
<1>1. CallOK(h)
    BY DEF IInv, CallsOK
<1>2. CASE call[h].pc \in CallSteps
    <2>1. PICK d \in Deliveries : call[h].delivery = d
        BY <1>2 DEF IInv, TypeOK, CallSteps
    <2>2. d.order \in Intents /\ d.event \in Events
        BY DEF Delivery
    <2>3. CreditOf(d.order) # {} => CreditOf(d.order)' # {}
        BY DEF Grows, CreditOf
    <2>4. /\ intent[d.order] # None => intent'[d.order] # None
          /\ intent[d.order] # None /\ intent[d.order].authority # None =>
                intent'[d.order].authority = intent[d.order].authority
          /\ event[d.event] # None =>
                event'[d.event] # None /\ event'[d.event].order = event[d.event].order
        BY <2>2 DEF Grows
    <2>5. /\ call[h].pc \in CallSteps \ {"load"} =>
                intent'[d.order] # None /\ intent'[d.order].authority # None
          /\ call[h].pc \in CallSteps \ {"load", "claim"} =>
                event'[d.event] # None /\ event'[d.event].order = d.order
        BY <1>1, <2>1, <2>4 DEF CallOK
    <2>6. call[h].pc = "credit" => <<d.order, intent'[d.order].authority>> \in paid'
        BY <1>1, <2>1, <2>4 DEF CallOK, Grows, CallSteps
    <2>7. /\ call[h].pc = "release" => CreditOf(d.order)' # {} /\ call[h].out # "unpaid"
          /\ call[h].pc = "fail" => call[h].out = "unpaid"
          /\ call[h].pc = "finalize" =>
                call[h].out # None /\ (call[h].out # "unpaid" => CreditOf(d.order)' # {})
        BY <1>1, <2>1, <2>3 DEF CallOK
    <2> QED
        BY <2>1, <2>5, <2>6, <2>7 DEF CallOK
<1>3. CASE call[h].pc \notin CallSteps
    BY <1>3 DEF CallOK, CallSteps
<1> QED
    BY <1>2, <1>3

(* A credit that was good stays good.                                      *)
LEMMA CreditKept ==
    ASSUME IInv, Grows, NEW c \in credits
    PROVE  CreditOK(c)'
<1>1. CreditOK(c) /\ c.order \in Intents
    BY DEF IInv, CreditsOK, TypeOK
<1> QED
    BY <1>1 DEF Grows, CreditOK

(* Initiation does not disturb what callbacks and credits rest on.         *)
CallSide == <<event, credits, call>>

LEMMA CallSideKept ==
    ASSUME IInv, Grows, UNCHANGED CallSide
    PROVE  OneCreditPerIntent' /\ CreditsOK' /\ CallsOK'
<1>1. OneCreditPerIntent'
    BY DEF IInv, OneCreditPerIntent, CallSide
<1>2. CreditsOK'
    BY CreditKept DEF CreditsOK, CallSide
<1>3. CallsOK'
    BY CallKept DEF CallsOK, CallSide
<1> QED
    BY <1>1, <1>2, <1>3

(* Callbacks do not disturb what initiation rests on.                      *)
StartSide == <<start, minted, requests>>

LEMMA StartSideKept ==
    ASSUME IInv, UNCHANGED StartSide,
           \A i \in Intents : /\ intent[i] # None => intent'[i] # None
                              /\ intent'[i] # None => intent[i] # None
                              /\ intent[i] # None /\ intent[i].gateway # "none" =>
                                    intent'[i].gateway # "none"
    PROVE  StartsOK' /\ OneStartPerKey' /\ UnclaimedIsUnopened' /\ OneSessionPerIntent'
<1>1. \A i \in Intents : Opened(i)' = Opened(i)
    BY DEF StartSide, Opened
<1>2. StartsOK'
    <2> SUFFICES ASSUME NEW s \in Starters PROVE StartOK(s)'
        BY DEF StartsOK
    <2>1. StartOK(s)
        BY DEF IInv, StartsOK
    <2>2. CASE start[s].pc \in StartSteps
        <3>1. PICK i \in Intents : start[s].order = i
            BY <2>2 DEF IInv, TypeOK, StartSteps
        <3> QED
            BY <2>1, <2>2, <3>1, <1>1 DEF StartOK, StartSide, StartSteps
    <2>3. CASE start[s].pc \notin StartSteps
        BY <2>3 DEF StartOK, StartSide, StartSteps
    <2> QED
        BY <2>2, <2>3
<1>3. OneStartPerKey'
    BY DEF IInv, OneStartPerKey, StartSide
<1>4. UnclaimedIsUnopened'
    BY <1>1 DEF IInv, UnclaimedIsUnopened
<1>5. OneSessionPerIntent'
    BY DEF IInv, OneSessionPerIntent, StartSide
<1> QED
    BY <1>2, <1>3, <1>4, <1>5

(* Only the state, the gateway and the claim of intents matter to the      *)
(* properties of settlement.                                               *)
LEMMA SettlementKept ==
    ASSUME IInv, UNCHANGED <<event, credits, archived, posted>>,
           \A i \in Intents : intent'[i] # None =>
              \/ intent[i] # None /\ intent'[i].state = intent[i].state
              \/ intent'[i].state \in {"Failed", "Rejected"}
              \/ intent'[i].state = "Pending" /\ ~archived
              \/ intent'[i].state = "Released" /\ CreditOf(i) # {}
    PROVE  SettledIsCredited' /\ ArchivedIsSettled'
<1>1. \A i \in Intents : CreditOf(i)' = CreditOf(i)
    BY DEF CreditOf
<1>2. SettledIsCredited'
    <2>1. ASSUME NEW i \in Intents, intent'[i] # None, intent'[i].state = "Released"
          PROVE  CreditOf(i)' # {}
        BY <1>1, <2>1 DEF IInv, SettledIsCredited
    <2>2. ASSUME NEW e \in Events, NEW o \in Intents,
                 event[e] # None, event[e].order = o,
                 event[e].status \in {"credited", "duplicate"}
          PROVE  CreditOf(o)' # {}
        BY <1>1, <2>2 DEF IInv, SettledIsCredited
    <2>3. \A e \in Events : event[e] # None => event[e].order \in Intents
        BY DEF IInv, TypeOK, EventRow
    <2> QED
        BY <2>1, <2>2, <2>3 DEF SettledIsCredited
<1>3. ArchivedIsSettled'
    BY DEF IInv, ArchivedIsSettled
<1> QED
    BY <1>2, <1>3

-------------------------------------------------------------------------------
(* Callbacks                                                               *)

(* Call h alone moves, and stays typed.                                    *)
Moves(h) ==
    /\ call' \in [Handlers -> CallRow]
    /\ \A g \in Handlers : g # h => call'[g] = call[g]
    /\ call'[h].pc # "idle" => call'[h].delivery \in Deliveries

LEMMA EndsMoves ==
    ASSUME IInv, NEW h \in Handlers, CallEnds(h)
    PROVE  Moves(h) /\ CallOK(h)'
<1>1. Moves(h)
    BY DEF IInv, TypeOK, CallEnds, Moves, CallIdle, CallRow
<1>2. call'[h].pc = "idle"
    BY DEF IInv, TypeOK, CallEnds, CallIdle
<1> QED
    BY <1>1, <1>2 DEF CallOK, CallSteps

LEMMA GoesMoves ==
    ASSUME IInv, NEW h \in Handlers, NEW step \in CallSteps, CallGoes(h, step),
           call[h].pc # "idle"
    PROVE  /\ Moves(h)
           /\ call'[h] = [call[h] EXCEPT !.pc = step]
<1>1. call'[h] = [call[h] EXCEPT !.pc = step]
    BY DEF IInv, TypeOK, CallGoes
<1>2. Moves(h)
    BY <1>1 DEF IInv, TypeOK, CallGoes, Moves, CallRow
<1> QED
    BY <1>1, <1>2

(* A step that sets pc and one more field of the call.                     *)
LEMMA TurnMoves ==
    ASSUME IInv, NEW h \in Handlers, call[h].pc # "idle", NEW step \in CallSteps,
           NEW read \in IntentStates \cup {None},
           NEW out \in Outcomes \cup {None},
           \/ call' = [call EXCEPT ![h].pc = step, ![h].read = read]
           \/ call' = [call EXCEPT ![h].pc = step, ![h].out = out]
    PROVE  /\ Moves(h)
           /\ call'[h].pc = step /\ call'[h].delivery = call[h].delivery
           /\ call' = [call EXCEPT ![h].pc = step, ![h].out = out] => call'[h].out = out
<1> DEFINE c == call[h]
<1>1. /\ c.pc \in CallSteps \cup {"idle", "lock"}
      /\ c.delivery \in Deliveries
      /\ c.read \in IntentStates \cup {None}
      /\ c.out \in Outcomes \cup {None}
      /\ c.ended \in BOOLEAN
      /\ c = [pc |-> c.pc, delivery |-> c.delivery, read |-> c.read, out |-> c.out,
              ended |-> c.ended]
    BY DEF IInv, TypeOK, CallRow
<1>2. CASE call' = [call EXCEPT ![h].pc = step, ![h].read = read]
    <2> DEFINE n == [pc |-> step, delivery |-> c.delivery, read |-> read,
                     out |-> c.out, ended |-> c.ended]
    <2>1. call'[h] = [c EXCEPT !.pc = step, !.read = read]
        BY <1>2 DEF IInv, TypeOK
    <2>2. n \in CallRow /\ n.delivery \in Deliveries
        BY <1>1 DEF CallRow
    <2>3. call'[h] = n
        BY <1>1, <2>1
    <2>4. Moves(h)
        <3> HIDE DEF n
        <3>1. call' = [g \in Handlers |-> IF g = h THEN call'[h] ELSE call[g]]
            BY <1>2 DEF IInv, TypeOK
        <3> QED
            BY <2>2, <2>3, <3>1 DEF IInv, TypeOK, Moves
    <2>5. call' = [call EXCEPT ![h].pc = step, ![h].out = out] => call'[h].out = out
        BY DEF IInv, TypeOK, CallRow
    <2> QED
        BY <2>3, <2>4, <2>5
<1>3. CASE call' = [call EXCEPT ![h].pc = step, ![h].out = out]
    <2> DEFINE n == [pc |-> step, delivery |-> c.delivery, read |-> c.read,
                     out |-> out, ended |-> c.ended]
    <2>1. call'[h] = [c EXCEPT !.pc = step, !.out = out]
        BY <1>3 DEF IInv, TypeOK
    <2>2. n \in CallRow /\ n.delivery \in Deliveries
        BY <1>1 DEF CallRow
    <2>3. call'[h] = n
        BY <1>1, <2>1
    <2>4. Moves(h)
        <3> HIDE DEF n
        <3>1. call' = [g \in Handlers |-> IF g = h THEN call'[h] ELSE call[g]]
            BY <1>3 DEF IInv, TypeOK
        <3> QED
            BY <2>2, <2>3, <3>1 DEF IInv, TypeOK, Moves
    <2> QED
        BY <2>3, <2>4
<1> QED
    BY <1>2, <1>3

LEMMA CallsMove ==
    ASSUME IInv, Grows, NEW h \in Handlers, Moves(h), CallOK(h)'
    PROVE  CallsOK'
BY CallKept DEF CallsOK, Moves

(* A step of a call that changes no table but reconciliation_exceptions.   *)
LEMMA CallOnly ==
    ASSUME IInv, NEW h \in Handlers, Moves(h), CallOK(h)',
           UNCHANGED <<archived, rows, provider, clocks, start, candidates>>
    PROVE  IInv'
<1> USE DEF rows, provider, clocks
<1>1. Grows
    BY DEF Grows
<1>2. CallsOK'
    BY <1>1, CallsMove
<1>3. TypeOK'
    BY DEF IInv, TypeOK, Moves
<1>4. CreditsOK' /\ OneCreditPerIntent'
    BY <1>1, CreditKept DEF CreditsOK, IInv, OneCreditPerIntent
<1>5. SettledIsCredited' /\ ArchivedIsSettled'
    BY SettlementKept
<1>6. StartsOK' /\ OneStartPerKey' /\ UnclaimedIsUnopened' /\ OneSessionPerIntent'
    BY StartSideKept DEF StartSide
<1>7. CandidatesExist'
    BY DEF IInv, CandidatesExist
<1> QED
    BY <1>2, <1>3, <1>4, <1>5, <1>6, <1>7 DEF IInv

LEMMA DeliverStep ==
    ASSUME IInv, NEW h \in Handlers, NEW d \in Deliveries, Deliver(h, d)
    PROVE  IInv'
<1>1. call'[h].pc = "lock" /\ call'[h].delivery = d
    BY DEF IInv, TypeOK, Deliver, CallIdle
<1>2. Moves(h)
    BY <1>1 DEF IInv, TypeOK, Deliver, Moves, CallIdle, CallRow
<1>3. CallOK(h)'
    BY <1>1 DEF CallOK, CallSteps
<1> QED
    BY <1>2, <1>3, CallOnly DEF Deliver

LEMMA LockStep ==
    ASSUME IInv, NEW h \in Handlers, Lock(h)
    PROVE  IInv'
<1>1. Moves(h) /\ call'[h] = [call[h] EXCEPT !.pc = "load"]
    BY GoesMoves DEF Lock, CallSteps
<1>2. call'[h].pc = "load"
    BY <1>1 DEF IInv, TypeOK, CallRow
<1>3. CallOK(h)'
    BY <1>2 DEF CallOK, CallSteps
<1> QED
    BY <1>1, <1>3, CallOnly DEF Lock

LEMMA LoadStep ==
    ASSUME IInv, NEW h \in Handlers, LoadPendingTopUp(h)
    PROVE  IInv'
<1>1. CASE CallEnds(h)
    BY <1>1, EndsMoves, CallOnly DEF LoadPendingTopUp
<1>2. CASE ~CallEnds(h)
    <2>1. PICK d \in Deliveries : call[h].delivery = d
        BY DEF LoadPendingTopUp, At, IInv, TypeOK
    <2>2. d.order \in Intents
        BY DEF Delivery
    <2>3. /\ intent[d.order] # None /\ intent[d.order].authority # None
          /\ call' = [call EXCEPT ![h].pc = "claim", ![h].read = intent[d.order].state]
        BY <1>2, <2>1 DEF LoadPendingTopUp
    <2>4. intent[d.order].state \in IntentStates
        BY <2>2, <2>3 DEF IInv, TypeOK, IntentRow
    <2>5. Moves(h) /\ call'[h].pc = "claim" /\ call'[h].delivery = d
        <3> DEFINE state == intent[d.order].state
        <3>1. call[h].pc = "load"
            BY DEF LoadPendingTopUp, At
        <3>2. state \in IntentStates \cup {None} /\ None \in Outcomes \cup {None}
            BY <2>4
        <3>3. call' = [call EXCEPT ![h].pc = "claim", ![h].read = state]
            BY <2>3
        <3> HIDE DEF state
        <3> QED
            BY <2>1, <3>1, <3>2, <3>3, TurnMoves DEF CallSteps
    <2>6. CallOK(h)'
        <3>1. intent' = intent
            BY DEF LoadPendingTopUp, rows
        <3> QED
            BY <2>3, <2>5, <3>1 DEF CallOK
    <2> QED
        BY <2>5, <2>6, CallOnly DEF LoadPendingTopUp
<1> QED
    BY <1>1, <1>2

LEMMA AlreadyStep ==
    ASSUME IInv, NEW h \in Handlers, AlreadyProcessed(h)
    PROVE  IInv'
<1>1. CASE CallEnds(h)
    BY <1>1, EndsMoves, CallOnly DEF AlreadyProcessed
<1>2. CASE ~CallEnds(h)
    <2>1. PICK d \in Deliveries : call[h].delivery = d
        BY DEF AlreadyProcessed, At, IInv, TypeOK
    <2>2. /\ CreditOf(d.order) # {}
          /\ call' = [call EXCEPT ![h].pc = "release", ![h].out = None]
        BY <1>2, <2>1 DEF AlreadyProcessed, Order
    <2>3. /\ Moves(h) /\ call'[h].pc = "release" /\ call'[h].delivery = d
          /\ call'[h].out = None
        BY <2>1, <2>2, TurnMoves DEF AlreadyProcessed, At, CallSteps
    <2>4. CallOK(h)'
        <3>1. UNCHANGED <<intent, event, credits>> /\ CreditOf(d.order)' = CreditOf(d.order)
            BY DEF AlreadyProcessed, rows, CreditOf
        <3>2. CallOK(h) /\ call[h].pc = "already"
            BY DEF IInv, CallsOK, AlreadyProcessed, At
        <3>3. /\ intent'[d.order] # None /\ intent'[d.order].authority # None
              /\ event'[d.event] # None /\ event'[d.event].order = d.order
            BY <2>1, <3>1, <3>2 DEF CallOK, CallSteps
        <3> QED
            BY <2>2, <2>3, <3>1, <3>3 DEF CallOK, CreditOf
    <2> QED
        BY <2>3, <2>4, CallOnly DEF AlreadyProcessed
<1> QED
    BY <1>1, <1>2

(* What Unpaid leaves of a call that knows its intent and its event.       *)
LEMMA UnpaidMoves ==
    ASSUME IInv, NEW h \in Handlers, call[h].pc \in {"find", "verify"}, Unpaid(h),
           UNCHANGED rows
    PROVE  Moves(h) /\ CallOK(h)'
<1>1. PICK d \in Deliveries : call[h].delivery = d
    BY DEF IInv, TypeOK
<1>2. PICK step \in {"fail", "finalize"} :
            call' = [call EXCEPT ![h].pc = step, ![h].out = "unpaid"]
    BY DEF Unpaid
<1>3. /\ Moves(h) /\ call'[h].pc = step /\ call'[h].delivery = d
      /\ call'[h].out = "unpaid"
    BY <1>1, <1>2, TurnMoves DEF CallSteps
<1>4. CallOK(h)
    BY DEF IInv, CallsOK
<1>5. /\ intent'[d.order] # None /\ intent'[d.order].authority # None
      /\ event'[d.event] # None /\ event'[d.event].order = d.order
    BY <1>1, <1>4 DEF CallOK, CallSteps, rows
<1> QED
    BY <1>3, <1>5 DEF CallOK

LEMMA FindStep ==
    ASSUME IInv, NEW h \in Handlers, FindExistingCredit(h)
    PROVE  IInv'
<1>1. PICK d \in Deliveries : call[h].delivery = d /\ call[h].pc = "find"
    BY DEF FindExistingCredit, At, IInv, TypeOK
<1>2. CallOK(h) /\ UNCHANGED <<intent, event, credits>>
    BY DEF IInv, CallsOK, FindExistingCredit, rows
<1>3. CreditOf(d.order)' = CreditOf(d.order)
    BY <1>2 DEF CreditOf
<1>4. CASE CreditOf(d.order) # {}
    <2>1. PICK step \in {"release", "finalize"} :
                call' = [call EXCEPT ![h].pc = step, ![h].out = "duplicate"]
        BY <1>1, <1>4 DEF FindExistingCredit, Order
    <2>2. /\ Moves(h) /\ call'[h].pc = step /\ call'[h].delivery = d
          /\ call'[h].out = "duplicate"
        BY <1>1, <2>1, TurnMoves DEF CallSteps
    <2>3. /\ intent'[d.order] # None /\ intent'[d.order].authority # None
          /\ event'[d.event] # None /\ event'[d.event].order = d.order
        BY <1>1, <1>2 DEF CallOK, CallSteps
    <2>4. CallOK(h)'
        BY <1>3, <1>4, <2>2, <2>3 DEF CallOK, CreditOf
    <2> QED
        BY <2>2, <2>4, CallOnly DEF FindExistingCredit
<1>5. CASE CreditOf(d.order) = {} /\ d.status = "paid"
    <2>1. Moves(h) /\ call'[h] = [call[h] EXCEPT !.pc = "verify"]
        BY <1>1, <1>5, GoesMoves DEF FindExistingCredit, Order, CallSteps
    <2>2. call'[h].pc = "verify" /\ call'[h].delivery = d
        BY <1>1, <2>1 DEF IInv, TypeOK, CallRow
    <2>3. CallOK(h)'
        BY <1>1, <1>2, <2>2 DEF CallOK, CallSteps
    <2> QED
        BY <2>1, <2>3, CallOnly DEF FindExistingCredit
<1>6. CASE CreditOf(d.order) = {} /\ d.status # "paid"
    <2>1. Moves(h) /\ CallOK(h)'
        BY <1>1, <1>6, UnpaidMoves DEF FindExistingCredit, Order
    <2> QED
        BY <2>1, CallOnly DEF FindExistingCredit
<1> QED
    BY <1>4, <1>5, <1>6

LEMMA VerifyStep ==
    ASSUME IInv, NEW h \in Handlers, VerifyPayment(h)
    PROVE  IInv'
<1>1. PICK d \in Deliveries : call[h].delivery = d /\ call[h].pc = "verify"
    BY DEF VerifyPayment, IInv, TypeOK
<1>2. CallOK(h) /\ UNCHANGED <<intent, event, credits, paid>>
    BY DEF IInv, CallsOK, VerifyPayment, rows, provider
<1>3. CASE <<d.order, intent[d.order].authority>> \in paid
    <2>1. Moves(h) /\ call'[h] = [call[h] EXCEPT !.pc = "credit"]
        BY <1>1, <1>3, GoesMoves DEF VerifyPayment, Order, CallSteps
    <2>2. call'[h].pc = "credit" /\ call'[h].delivery = d
        BY <1>1, <2>1 DEF IInv, TypeOK, CallRow
    <2>3. CallOK(h)'
        BY <1>1, <1>2, <1>3, <2>2 DEF CallOK, CallSteps
    <2> QED
        BY <2>1, <2>3, CallOnly DEF VerifyPayment
<1>4. CASE <<d.order, intent[d.order].authority>> \notin paid
    <2>1. Moves(h) /\ CallOK(h)'
        BY <1>1, <1>4, UnpaidMoves DEF VerifyPayment, Order
    <2> QED
        BY <2>1, CallOnly DEF VerifyPayment
<1> QED
    BY <1>3, <1>4

LEMMA LoseSessionStep ==
    ASSUME IInv, NEW h \in Handlers, LoseSession(h)
    PROVE  IInv'
<1>1. /\ call'[h].pc = call[h].pc /\ call'[h].delivery = call[h].delivery
      /\ call'[h].out = call[h].out
    BY DEF IInv, TypeOK, CallRow, LoseSession
<1>2. Moves(h)
    <2>1. call' = [g \in Handlers |->
                IF g = h THEN [call[h] EXCEPT !.ended = TRUE] ELSE call[g]]
        BY DEF IInv, TypeOK, LoseSession
    <2>2. [call[h] EXCEPT !.ended = TRUE] \in CallRow
        BY DEF IInv, TypeOK, CallRow
    <2>3. call'[h].pc # "idle" => call'[h].delivery \in Deliveries
        BY <1>1 DEF IInv, TypeOK
    <2> QED
        BY <2>1, <2>2, <2>3 DEF IInv, TypeOK, Moves
<1>3. CallOK(h) /\ UNCHANGED <<intent, event, credits, paid>>
    BY DEF IInv, CallsOK, LoseSession, rows, provider
<1>4. CallOK(h)'
    BY <1>1, <1>3 DEF CallOK, LoseSession
<1> QED
    BY <1>2, <1>4, CallOnly DEF LoseSession

LEMMA CallEndsStep ==
    ASSUME IInv, NEW h \in Handlers, StatementFails(h) \/ CallDies(h)
    PROVE  IInv'
BY EndsMoves, CallOnly DEF StatementFails, CallDies

(* A step of a call that changes intents or events.                        *)
LEMMA CallTables ==
    ASSUME IInv, NEW h \in Handlers, Moves(h), CallOK(h)', Grows,
           UNCHANGED <<archived, credits, posted, provider, clocks, start, candidates>>,
           intent' \in [Intents -> IntentRow \cup {None}],
           event' \in [Events -> EventRow \cup {None}],
           SettledIsCredited', ArchivedIsSettled',
           \A i \in Intents : /\ intent[i] = None => intent'[i] = None
                              /\ intent[i] # None /\ intent[i].gateway # "none" =>
                                    intent'[i].gateway # "none"
    PROVE  IInv'
<1> USE DEF provider, clocks
<1>1. CallsOK'
    BY CallsMove
<1>2. TypeOK'
    BY DEF IInv, TypeOK, Moves
<1>3. CreditsOK' /\ OneCreditPerIntent'
    BY CreditKept DEF CreditsOK, IInv, OneCreditPerIntent
<1>4. \A i \in Intents : intent[i] # None => intent'[i] # None
    BY DEF Grows
<1>5. StartsOK' /\ OneStartPerKey' /\ UnclaimedIsUnopened' /\ OneSessionPerIntent'
    BY <1>4, StartSideKept DEF StartSide
<1>6. CandidatesExist'
    BY <1>4 DEF IInv, TypeOK, CandidatesExist
<1> QED
    BY <1>1, <1>2, <1>3, <1>5, <1>6 DEF IInv

(* The event is claimed, or found claimed for this order or another.       *)
LEMMA ClaimEventStep ==
    ASSUME IInv, NEW h \in Handlers, ClaimEvent(h)
    PROVE  IInv'
<1>1. PICK d \in Deliveries : call[h].delivery = d /\ call[h].pc = "claim"
    BY DEF ClaimEvent, At, IInv, TypeOK
<1>2. CallOK(h) /\ UNCHANGED <<intent, credits>>
    BY DEF IInv, CallsOK, ClaimEvent
<1>3. d.order \in Intents /\ d.event \in Events
    BY DEF Delivery
<1>4. /\ intent'[d.order] # None /\ intent'[d.order].authority # None
    BY <1>1, <1>2 DEF CallOK, CallSteps
<1>5. CASE event[d.event] = None
    <2> DEFINE row == [order |-> d.order, status |-> "processing"]
    <2>1. row \in EventRow /\ row # None /\ row.order = d.order
        BY <1>3 DEF EventRow
    <2>2. event' = [event EXCEPT ![d.event] = row] /\ CallGoes(h, "find")
        BY <1>1, <1>5 DEF ClaimEvent
    <2> HIDE DEF row
    <2>3. event' \in [Events -> EventRow \cup {None}]
        BY <2>1, <2>2 DEF IInv, TypeOK
    <2>4. Grows
        BY <1>2, <1>5, <2>2 DEF Grows, IInv, TypeOK, ClaimEvent, provider
    <2>5. event'[d.event] = row
        BY <1>3, <2>2 DEF IInv, TypeOK
    <2>6. Moves(h) /\ call'[h] = [call[h] EXCEPT !.pc = "find"]
        BY <1>1, <2>2, GoesMoves DEF CallSteps
    <2>7. call'[h].pc = "find" /\ call'[h].delivery = d
        BY <1>1, <2>6 DEF IInv, TypeOK, CallRow
    <2>8. CallOK(h)'
        BY <1>4, <2>1, <2>5, <2>7 DEF CallOK
    <2>9. SettledIsCredited'
        <3>1. row.status = "processing"
            BY DEF row
        <3>2. \A e \in Events : event'[e] = event[e] \/ event'[e] = row
            BY <2>2 DEF IInv, TypeOK
        <3> QED
            BY <1>2, <3>1, <3>2 DEF IInv, SettledIsCredited, CreditOf
    <2>10. ArchivedIsSettled'
        BY <1>2 DEF IInv, ArchivedIsSettled, ClaimEvent
    <2> QED
        BY <1>2, <2>3, <2>4, <2>6, <2>8, <2>9, <2>10, CallTables
        DEF ClaimEvent, IInv, TypeOK
<1>6. CASE event[d.event] # None
    <2> DEFINE next == AfterClaim(event[d.event], d)
    <2>1. CASE next = "idle"
        <3>1. CallEnds(h)
            BY <1>1, <1>6, <2>1 DEF ClaimEvent
        <3> QED
            BY <1>6, <1>1, <3>1, EndsMoves, CallOnly DEF ClaimEvent, rows
    <2>2. CASE next # "idle"
        <3>1. event[d.event].order = d.order
            BY <2>2 DEF AfterClaim
        <3>2. PICK step \in {"find", "reopen", "already"} : next = step
            BY <2>2 DEF AfterClaim
        <3>3. CallGoes(h, step) /\ UNCHANGED event
            BY <1>1, <1>6, <2>2, <3>2 DEF ClaimEvent
        <3>4. Moves(h) /\ call'[h] = [call[h] EXCEPT !.pc = step]
            BY <1>1, <3>3, GoesMoves DEF CallSteps
        <3>5. call'[h].pc = step /\ call'[h].delivery = d
            BY <1>1, <3>4 DEF IInv, TypeOK, CallRow
        <3>6. CallOK(h)'
            BY <1>4, <1>6, <3>1, <3>3, <3>5 DEF CallOK
        <3> QED
            BY <3>3, <3>4, <3>6, CallOnly DEF ClaimEvent, rows
    <2> QED
        BY <2>1, <2>2
<1> QED
    BY <1>5, <1>6

LEMMA ReopenStep ==
    ASSUME IInv, NEW h \in Handlers, ReopenUnpaidEvent(h)
    PROVE  IInv'
<1>1. PICK d \in Deliveries : call[h].delivery = d /\ call[h].pc = "reopen"
    BY DEF ReopenUnpaidEvent, At, IInv, TypeOK
<1>2. CallOK(h) /\ UNCHANGED <<intent, credits>>
    BY DEF IInv, CallsOK, ReopenUnpaidEvent
<1>3. d.order \in Intents /\ d.event \in Events
    BY DEF Delivery
<1>4. /\ intent[d.order] # None /\ intent[d.order].authority # None
      /\ event[d.event] # None /\ event[d.event].order = d.order
    BY <1>1, <1>2 DEF CallOK, CallSteps
<1>5. CASE event[d.event].status = "unpaid"
    <2> DEFINE row == [event[d.event] EXCEPT !.status = "processing"]
    <2>1. row \in EventRow /\ row.order = d.order /\ row.status = "processing"
        BY <1>3, <1>4 DEF IInv, TypeOK, EventRow
    <2>2. event' = [event EXCEPT ![d.event] = row] /\ CallGoes(h, "find")
        BY <1>1, <1>5 DEF ReopenUnpaidEvent, EventOf
    <2> HIDE DEF row
    <2>3. event' \in [Events -> EventRow \cup {None}] /\ event'[d.event] = row
        BY <1>3, <2>1, <2>2 DEF IInv, TypeOK
    <2>4. \A e \in Events : event'[e] = event[e] \/ e = d.event
        BY <2>2 DEF IInv, TypeOK
    <2>5. Grows
        BY <1>2, <1>4, <2>1, <2>3, <2>4 DEF Grows, ReopenUnpaidEvent, provider
    <2>6. Moves(h) /\ call'[h] = [call[h] EXCEPT !.pc = "find"]
        BY <1>1, <2>2, GoesMoves DEF CallSteps
    <2>7. call'[h].pc = "find" /\ call'[h].delivery = d
        BY <1>1, <2>6 DEF IInv, TypeOK, CallRow
    <2>8. CallOK(h)'
        BY <1>2, <1>4, <2>1, <2>3, <2>7 DEF CallOK
    <2>9. SettledIsCredited'
        BY <1>2, <2>1, <2>3, <2>4 DEF IInv, SettledIsCredited, CreditOf
    <2>10. ArchivedIsSettled'
        BY <1>2 DEF IInv, ArchivedIsSettled, ReopenUnpaidEvent
    <2> QED
        BY <1>2, <2>3, <2>5, <2>6, <2>8, <2>9, <2>10, CallTables
        DEF ReopenUnpaidEvent, IInv, TypeOK
<1>6. CASE event[d.event].status # "unpaid"
    <2>1. CallEnds(h) /\ UNCHANGED event
        BY <1>1, <1>6 DEF ReopenUnpaidEvent, EventOf
    <2> QED
        BY <2>1, EndsMoves, CallOnly DEF ReopenUnpaidEvent, rows
<1> QED
    BY <1>5, <1>6

(* The event ends as what the call found out, credited only with a credit. *)
LEMMA FinalizeStep ==
    ASSUME IInv, NEW h \in Handlers, FinalizeEvent(h)
    PROVE  IInv'
<1>1. PICK d \in Deliveries : call[h].delivery = d /\ call[h].pc = "finalize"
    BY DEF FinalizeEvent, At, IInv, TypeOK
<1>2. CallOK(h) /\ UNCHANGED <<intent, credits>> /\ CallEnds(h)
    BY DEF IInv, CallsOK, FinalizeEvent
<1>3. d.order \in Intents /\ d.event \in Events
    BY DEF Delivery
<1>4. /\ event[d.event] # None /\ event[d.event].order = d.order
      /\ call[h].out \in Outcomes
      /\ call[h].out # "unpaid" => CreditOf(d.order) # {}
    BY <1>1, <1>2 DEF CallOK, CallSteps, IInv, TypeOK, CallRow
<1>5. CASE event[d.event].status = "processing"
    <2> DEFINE row == [event[d.event] EXCEPT !.status = call[h].out]
    <2>1. row \in EventRow /\ row.order = d.order /\ row.status = call[h].out
        BY <1>3, <1>4 DEF IInv, TypeOK, EventRow
    <2>2. event' = [event EXCEPT ![d.event] = row]
        BY <1>1, <1>5 DEF FinalizeEvent, EventOf
    <2> HIDE DEF row
    <2>3. event' \in [Events -> EventRow \cup {None}] /\ event'[d.event] = row
        BY <1>3, <2>1, <2>2 DEF IInv, TypeOK
    <2>4. \A e \in Events : event'[e] = event[e] \/ e = d.event
        BY <2>2 DEF IInv, TypeOK
    <2>5. Grows
        BY <1>2, <1>4, <2>1, <2>3, <2>4 DEF Grows, FinalizeEvent, provider
    <2>6. SettledIsCredited'
        BY <1>2, <1>4, <2>1, <2>3, <2>4 DEF IInv, SettledIsCredited, CreditOf
    <2>7. ArchivedIsSettled'
        BY <1>2 DEF IInv, ArchivedIsSettled, FinalizeEvent
    <2> QED
        BY <1>2, <2>3, <2>5, <2>6, <2>7, EndsMoves, CallTables
        DEF FinalizeEvent, IInv, TypeOK
<1>6. CASE event[d.event].status # "processing"
    <2>1. UNCHANGED event
        BY <1>1, <1>6 DEF FinalizeEvent, EventOf
    <2> QED
        BY <1>2, <2>1, EndsMoves, CallOnly DEF FinalizeEvent, rows
<1> QED
    BY <1>5, <1>6

(* One intent leaves its state, keeping its authority.                     *)
Settles(i, row) ==
    /\ intent' = [j \in Intents |-> IF j = i THEN row ELSE intent[j]]
    /\ row \in IntentRow
    /\ row.authority = intent[i].authority
    /\ row.gateway = "none" => intent[i].gateway = "none"

(* The row with an outcome in place of its gateway.                        *)
LEMMA OutcomeRow ==
    ASSUME NEW r \in IntentRow, NEW state \in IntentStates
    PROVE  [r EXCEPT !.state = state, !.gateway = "outcome", !.claim = None]
              = [state |-> state, expired |-> r.expired, gateway |-> "outcome",
                 claim |-> None, authority |-> r.authority]
<1> DEFINE n == [r EXCEPT !.state = state, !.gateway = "outcome", !.claim = None]
<1>1. n \in IntentRow /\ n.state = state /\ n.expired = r.expired
      /\ n.gateway = "outcome" /\ n.claim = None /\ n.authority = r.authority
    BY DEF IntentRow
<1> HIDE DEF n
<1>2. n = [state |-> state, expired |-> r.expired, gateway |-> "outcome",
           claim |-> None, authority |-> r.authority]
    BY <1>1 DEF IntentRow
<1> QED
    BY <1>2 DEF n

LEMMA SettlesGrows ==
    ASSUME IInv, NEW i \in Intents, NEW row, Settles(i, row), intent[i] # None,
           UNCHANGED <<event, credits, paid>>
    PROVE  /\ intent' \in [Intents -> IntentRow \cup {None}]
           /\ intent'[i] = row /\ \A j \in Intents : j # i => intent'[j] = intent[j]
           /\ Grows
           /\ \A j \in Intents : /\ intent[j] = None => intent'[j] = None
                                 /\ intent[j] # None => intent'[j] # None
                                 /\ intent[j] # None /\ intent[j].gateway # "none" =>
                                       intent'[j].gateway # "none"
<1>1. /\ intent' \in [Intents -> IntentRow \cup {None}]
      /\ intent'[i] = row /\ \A j \in Intents : j # i => intent'[j] = intent[j]
    BY DEF IInv, TypeOK, Settles
<1>2. row # None
    BY DEF Settles
<1> QED
    BY <1>1, <1>2 DEF Settles, Grows

LEMMA ReleaseStep ==
    ASSUME IInv, NEW h \in Handlers, ReleasePendingIntent(h)
    PROVE  IInv'
<1>1. PICK d \in Deliveries : call[h].delivery = d /\ call[h].pc = "release"
    BY DEF ReleasePendingIntent, At, IInv, TypeOK
<1>2. CallOK(h) /\ UNCHANGED <<event, credits>>
    BY DEF IInv, CallsOK, ReleasePendingIntent
<1>3. d.order \in Intents /\ d.event \in Events
    BY DEF Delivery
<1>4. /\ intent[d.order] # None /\ intent[d.order].authority # None
      /\ event[d.event] # None /\ event[d.event].order = d.order
      /\ CreditOf(d.order) # {} /\ call[h].out # "unpaid"
    BY <1>1, <1>2 DEF CallOK, CallSteps
<1>5. CASE intent[d.order].state \in ONLINE_TOPUP_INTENT_RELEASE_STATES
    <2> DEFINE old0 == intent[d.order]
               row == [state |-> "Released", expired |-> old0.expired,
                       gateway |-> "outcome", claim |-> None,
                       authority |-> old0.authority]
    <2>1. old0 \in IntentRow
        BY <1>3, <1>4 DEF IInv, TypeOK
    <2>2. intent' = [j \in Intents |-> IF j = d.order THEN
                [old0 EXCEPT !.state = "Released", !.gateway = "outcome", !.claim = None]
                ELSE intent[j]]
        BY <1>1, <1>3, <1>5 DEF ReleasePendingIntent, Order, IInv, TypeOK
    <2>3. Settles(d.order, row) /\ row.state = "Released"
        <3>1. row \in IntentRow
            BY <2>1 DEF IntentRow, IntentStates
        <3>2. [old0 EXCEPT !.state = "Released", !.gateway = "outcome", !.claim = None] = row
            BY <2>1, OutcomeRow DEF IntentStates
        <3> QED
            BY <2>2, <3>1, <3>2 DEF Settles
    <2> HIDE DEF row, old0
    <2>4. /\ intent' \in [Intents -> IntentRow \cup {None}]
          /\ intent'[d.order] = row
          /\ \A j \in Intents : j # d.order => intent'[j] = intent[j]
          /\ Grows
          /\ \A j \in Intents : /\ intent[j] = None => intent'[j] = None
                                /\ intent[j] # None /\ intent[j].gateway # "none" =>
                                      intent'[j].gateway # "none"
        BY <1>2, <1>3, <1>4, <2>3, SettlesGrows DEF ReleasePendingIntent, provider
    <2>5. SettledIsCredited' /\ ArchivedIsSettled'
        BY <1>2, <1>4, <2>3, <2>4, SettlementKept DEF ReleasePendingIntent
    <2>6. Moves(h) /\ CallOK(h)'
        <3>1. CASE call[h].out = None
            BY <1>1, <1>5, <3>1, EndsMoves DEF ReleasePendingIntent, Order
        <3>2. CASE call[h].out # None
            <4>1. Moves(h) /\ call'[h] = [call[h] EXCEPT !.pc = "finalize"]
                BY <1>1, <1>5, <3>2, GoesMoves
                DEF ReleasePendingIntent, Order, CallSteps
            <4>2. /\ call'[h].pc = "finalize" /\ call'[h].delivery = d
                  /\ call'[h].out = call[h].out
                BY <1>1, <4>1 DEF IInv, TypeOK, CallRow
            <4>3. intent'[d.order] # None /\ intent'[d.order].authority # None
                BY <1>3, <1>4, <2>4 DEF Grows
            <4> QED
                BY <1>2, <1>4, <3>2, <4>1, <4>2, <4>3 DEF CallOK, CreditOf
        <3> QED
            BY <3>1, <3>2
    <2> QED
        BY <1>2, <2>4, <2>5, <2>6, CallTables DEF ReleasePendingIntent, IInv, TypeOK
<1>6. CASE intent[d.order].state \notin ONLINE_TOPUP_INTENT_RELEASE_STATES
    <2>1. CallEnds(h) /\ UNCHANGED intent
        BY <1>1, <1>6 DEF ReleasePendingIntent, Order
    <2> QED
        BY <2>1, EndsMoves, CallOnly DEF ReleasePendingIntent, rows
<1> QED
    BY <1>5, <1>6

LEMMA FailStep ==
    ASSUME IInv, NEW h \in Handlers, MarkPendingFailed(h)
    PROVE  IInv'
<1>1. PICK d \in Deliveries : call[h].delivery = d /\ call[h].pc = "fail"
    BY DEF MarkPendingFailed, At, IInv, TypeOK
<1>2. CallOK(h) /\ UNCHANGED <<event, credits>>
    BY DEF IInv, CallsOK, MarkPendingFailed
<1>3. d.order \in Intents /\ d.event \in Events
    BY DEF Delivery
<1>4. /\ intent[d.order] # None /\ intent[d.order].authority # None
      /\ event[d.event] # None /\ event[d.event].order = d.order
      /\ call[h].out = "unpaid"
    BY <1>1, <1>2 DEF CallOK, CallSteps
<1>5. CASE intent[d.order].state = "Pending"
    <2> DEFINE old0 == intent[d.order]
               row == [state |-> "Failed", expired |-> old0.expired,
                       gateway |-> "outcome", claim |-> None,
                       authority |-> old0.authority]
    <2>1. old0 \in IntentRow
        BY <1>3, <1>4 DEF IInv, TypeOK
    <2>2. intent' = [j \in Intents |-> IF j = d.order THEN
                [old0 EXCEPT !.state = "Failed", !.gateway = "outcome", !.claim = None]
                ELSE intent[j]]
        BY <1>1, <1>3, <1>5 DEF MarkPendingFailed, Order, IInv, TypeOK
    <2>3. Settles(d.order, row) /\ row.state = "Failed"
        <3>1. row \in IntentRow
            BY <2>1 DEF IntentRow, IntentStates
        <3>2. [old0 EXCEPT !.state = "Failed", !.gateway = "outcome", !.claim = None] = row
            BY <2>1, OutcomeRow DEF IntentStates
        <3> QED
            BY <2>2, <3>1, <3>2 DEF Settles
    <2> HIDE DEF row, old0
    <2>4. /\ intent' \in [Intents -> IntentRow \cup {None}]
          /\ intent'[d.order] = row
          /\ \A j \in Intents : j # d.order => intent'[j] = intent[j]
          /\ Grows
          /\ \A j \in Intents : /\ intent[j] = None => intent'[j] = None
                                /\ intent[j] # None /\ intent[j].gateway # "none" =>
                                      intent'[j].gateway # "none"
        BY <1>2, <1>3, <1>4, <2>3, SettlesGrows DEF MarkPendingFailed, provider
    <2>5. SettledIsCredited' /\ ArchivedIsSettled'
        BY <1>2, <1>4, <2>3, <2>4, SettlementKept DEF MarkPendingFailed
    <2>6. Moves(h) /\ call'[h] = [call[h] EXCEPT !.pc = "finalize"]
        BY <1>1, <1>5, GoesMoves DEF MarkPendingFailed, Order, CallSteps
    <2>7. /\ call'[h].pc = "finalize" /\ call'[h].delivery = d
          /\ call'[h].out = "unpaid"
        BY <1>1, <1>4, <2>6 DEF IInv, TypeOK, CallRow
    <2>8. CallOK(h)'
        <3>1. intent'[d.order] # None /\ intent'[d.order].authority # None
            BY <1>3, <1>4, <2>4 DEF Grows
        <3> QED
            BY <1>2, <1>4, <2>7, <3>1 DEF CallOK
    <2> QED
        BY <1>2, <2>4, <2>5, <2>6, <2>8, CallTables DEF MarkPendingFailed, IInv, TypeOK
<1>6. CASE intent[d.order].state # "Pending"
    <2>1. CallEnds(h) /\ UNCHANGED intent
        BY <1>1, <1>6 DEF MarkPendingFailed, Order
    <2> QED
        BY <2>1, EndsMoves, CallOnly DEF MarkPendingFailed, rows
<1> QED
    BY <1>5, <1>6

(* The wallet posts once per key, and only what the provider confirmed,    *)
(* with or without the call's lock.                                        *)
LEMMA CreditStep ==
    ASSUME IInv, NEW h \in Handlers, CreditWallet(h)
    PROVE  IInv'
<1>1. PICK d \in Deliveries : call[h].delivery = d /\ call[h].pc = "credit"
    BY DEF CreditWallet, IInv, TypeOK
<1>2. /\ CallOK(h)
      /\ UNCHANGED <<archived, intent, event, provider, clocks, start, candidates>>
    BY DEF IInv, CallsOK, CreditWallet
<1>3. d.order \in Intents /\ d.event \in Events /\ d.ref \in Refs
    BY DEF Delivery
<1>4. /\ intent[d.order] # None /\ intent[d.order].authority # None
      /\ event[d.event] # None /\ event[d.event].order = d.order
      /\ <<d.order, intent[d.order].authority>> \in paid
    BY <1>1, <1>2 DEF CallOK, CallSteps
<1> DEFINE row == [order |-> d.order, key |-> <<d.order>>, ref |-> d.ref]
           posting == {c \in credits : c.key = <<d.order>>} = {} /\ ~archived
<1>5. /\ credits' = IF posting THEN credits \cup {row} ELSE credits
      /\ posted' = IF posting THEN posted + 1 ELSE posted
      /\ IF posting \/ row \in {c \in credits : c.key = <<d.order>>}
         THEN call' = [call EXCEPT ![h].pc = "release", ![h].out = "credited"]
         ELSE CallEnds(h)
    BY <1>1 DEF CreditWallet, onlineTopUpCreditIdempotencyKey
<1>6. row.order = d.order /\ row.key = <<d.order>>
      /\ row \in [order: Intents, ref: Refs, key: {<<i>> : i \in Intents}]
    BY <1>3
<1>7. /\ Grows
      /\ \A c \in credits' : c \in credits \/ (c = row /\ posting)
    BY <1>2, <1>5 DEF Grows, provider
<1>8. credits' \subseteq [order: Intents, ref: Refs, key: {<<i>> : i \in Intents}]
    BY <1>6, <1>7 DEF IInv, TypeOK
<1>9. OneCreditPerIntent'
    <2> SUFFICES ASSUME NEW b \in credits', NEW c \in credits', b.order = c.order
                 PROVE  b = c
        BY DEF OneCreditPerIntent
    <2>1. \A x \in credits : x.key = <<x.order>>
        BY DEF IInv, CreditsOK, CreditOK
    <2>2. posting => \A x \in credits : x.order # d.order
        BY <2>1
    <2> HIDE DEF row, posting
    <2> QED
        BY <1>6, <1>7, <2>2 DEF IInv, OneCreditPerIntent
<1>10. CreditsOK'
    <2> HIDE DEF row, posting
    <2>1. ASSUME NEW c \in credits' PROVE CreditOK(c)'
        <3>1. CASE c \in credits
            BY <1>7, <3>1, CreditKept
        <3>2. CASE c = row
            BY <1>2, <1>4, <1>6, <3>2 DEF CreditOK, provider
        <3> QED
            BY <1>7, <3>1, <3>2
    <2> QED
        BY <2>1 DEF CreditsOK
<1>11. Moves(h) /\ CallOK(h)'
    <2>1. CASE posting \/ row \in {c \in credits : c.key = <<d.order>>}
        <3>1. call' = [call EXCEPT ![h].pc = "release", ![h].out = "credited"]
            BY <1>5, <2>1
        <3>2. /\ Moves(h) /\ call'[h].pc = "release" /\ call'[h].delivery = d
              /\ call'[h].out = "credited"
            <4>1. /\ "release" \in CallSteps /\ "credited" \in Outcomes \cup {None}
                  /\ None \in IntentStates \cup {None}
                BY DEF CallSteps
            <4> QED
                BY <1>1, <3>1, <4>1, TurnMoves
        <3>3. row \in credits'
            BY <1>5, <2>1
        <3>4. {c \in credits' : c.order = d.order} # {}
            BY <1>6, <3>3
        <3> QED
            BY <1>2, <1>4, <3>2, <3>4 DEF CallOK, CreditOf
    <2>2. CASE ~(posting \/ row \in {c \in credits : c.key = <<d.order>>})
        BY <1>5, <2>2, EndsMoves
    <2> QED
        BY <2>1, <2>2
<1>12. CallsOK'
    BY <1>7, <1>11, CallsMove
<1>13. SettledIsCredited'
    <2>1. \A i : CreditOf(i) \subseteq {c \in credits' : c.order = i}
        BY <1>7 DEF CreditOf, Grows
    <2> QED
        BY <1>2, <2>1 DEF IInv, SettledIsCredited, CreditOf
<1>14. posted' \in Nat /\ ArchivedIsSettled'
    <2>1. posted' = posted \/ (posted' = posted + 1 /\ ~archived)
        BY <1>5
    <2> QED
        BY <1>2, <2>1 DEF IInv, TypeOK, ArchivedIsSettled
<1>15. TypeOK'
    BY <1>2, <1>8, <1>11, <1>14 DEF IInv, TypeOK, Moves, provider, clocks
<1>16. StartsOK' /\ OneStartPerKey' /\ UnclaimedIsUnopened' /\ OneSessionPerIntent'
    BY <1>2, StartSideKept DEF StartSide, provider
<1>17. CandidatesExist'
    BY <1>2 DEF IInv, CandidatesExist
<1> QED
    BY <1>9, <1>10, <1>12, <1>13, <1>14, <1>15, <1>16, <1>17 DEF IInv

-------------------------------------------------------------------------------
(* Workers, clocks, the wallet's owner                                     *)

(* The expiry scan rejects only what is Pending when it comes to it.       *)
LEMMA RejectOneExpiredStep ==
    ASSUME IInv, NEW i \in Intents, RejectOneExpired(i)
    PROVE  IInv'
<1>1. i \in candidates /\ intent[i] # None /\ intent[i] \in IntentRow
    BY DEF RejectOneExpired, IInv, CandidatesExist, TypeOK
<1>2. UNCHANGED <<archived, event, credits, posted, provider, clocks, start, call>>
    BY DEF RejectOneExpired
<1>3. candidates' \subseteq candidates
    BY DEF RejectOneExpired
<1>4. /\ intent' \in [Intents -> IntentRow \cup {None}]
      /\ Grows
      /\ \A j \in Intents : /\ intent[j] = None => intent'[j] = None
                            /\ intent[j] # None => intent'[j] # None
                            /\ intent[j] # None /\ intent[j].gateway # "none" =>
                                  intent'[j].gateway # "none"
      /\ \A j \in Intents : \/ intent'[j] = intent[j]
                            \/ intent'[j] # None /\ intent'[j].state = "Rejected"
    <2>1. CASE UNCHANGED intent
        BY <1>2, <2>1 DEF Grows, IInv, TypeOK, provider
    <2>2. CASE ~UNCHANGED intent
        <3> DEFINE row == [intent[i] EXCEPT !.state = "Rejected", !.expired = TRUE]
        <3>1. row \in IntentRow /\ row.authority = intent[i].authority
              /\ row.gateway = intent[i].gateway /\ row.state = "Rejected"
            BY <1>1 DEF IntentRow, IntentStates
        <3>2. intent' = [j \in Intents |-> IF j = i THEN row ELSE intent[j]]
            BY <2>2 DEF RejectOneExpired, IInv, TypeOK
        <3> HIDE DEF row
        <3>3. Settles(i, row)
            BY <3>1, <3>2 DEF Settles
        <3>4. UNCHANGED <<event, credits, paid>>
            BY <1>2 DEF provider
        <3> QED
            BY <1>1, <3>1, <3>3, <3>4, SettlesGrows
    <2> QED
        BY <2>1, <2>2
<1>5. OneCreditPerIntent' /\ CreditsOK' /\ CallsOK'
    BY <1>2, <1>4, CallSideKept DEF CallSide
<1>6. SettledIsCredited' /\ ArchivedIsSettled'
    BY <1>2, <1>4, SettlementKept
<1>7. StartsOK' /\ OneStartPerKey' /\ UnclaimedIsUnopened' /\ OneSessionPerIntent'
    BY <1>2, <1>4, StartSideKept DEF StartSide, provider
<1>8. TypeOK'
    BY <1>2, <1>3, <1>4 DEF IInv, TypeOK, provider, clocks
<1>9. CandidatesExist'
    BY <1>3, <1>4 DEF IInv, TypeOK, CandidatesExist
<1> QED
    BY <1>5, <1>6, <1>7, <1>8, <1>9 DEF IInv

(* Steps that leave intents, events, credits, sessions and calls alone.    *)
LEMMA QuietStep ==
    ASSUME IInv,
           UNCHANGED <<intent, event, credits, requests, minted, start, call>>,
           paid \subseteq paid', TypeOK', ArchivedIsSettled', CandidatesExist'
    PROVE  IInv'
<1>1. Grows
    BY DEF Grows
<1>2. OneCreditPerIntent' /\ CreditsOK' /\ CallsOK'
    BY <1>1, CallSideKept DEF CallSide
<1>3. SettledIsCredited'
    BY DEF IInv, SettledIsCredited, CreditOf
<1>4. StartsOK' /\ OneStartPerKey' /\ UnclaimedIsUnopened' /\ OneSessionPerIntent'
    BY StartSideKept DEF StartSide
<1> QED
    BY <1>2, <1>3, <1>4 DEF IInv

LEMMA EnvironmentStep ==
    ASSUME IInv,
           \/ \E i \in Intents : PassTtl(i) \/ ReportIntent(i)
           \/ \E e \in Events : PassStaleLimit(e) \/ ReportCallback(e)
           \/ \E i \in Intents : \E n \in 1..minted[i] : CustomerPays(i, n)
           \/ FindExpiredOnlineTopUps
           \/ SpendBalance
           \/ ArchiveProfile
    PROVE  IInv'
<1> USE DEF rows, provider, clocks
<1>1. ASSUME NEW i \in Intents, PassTtl(i) PROVE IInv'
    <2>1. TypeOK' /\ ArchivedIsSettled' /\ CandidatesExist'
        BY <1>1 DEF PassTtl, IInv, TypeOK, ArchivedIsSettled, CandidatesExist
    <2> QED
        BY <1>1, <2>1, QuietStep DEF PassTtl
<1>2. ASSUME NEW i \in Intents, ReportIntent(i) PROVE IInv'
    <2>1. TypeOK' /\ ArchivedIsSettled' /\ CandidatesExist'
        BY <1>2 DEF ReportIntent, Report, IInv, TypeOK, ArchivedIsSettled, CandidatesExist
    <2> QED
        BY <1>2, <2>1, QuietStep DEF ReportIntent, Report
<1>3. ASSUME NEW e \in Events, PassStaleLimit(e) PROVE IInv'
    <2>1. TypeOK' /\ ArchivedIsSettled' /\ CandidatesExist'
        BY <1>3 DEF PassStaleLimit, IInv, TypeOK, ArchivedIsSettled, CandidatesExist
    <2> QED
        BY <1>3, <2>1, QuietStep DEF PassStaleLimit
<1>4. ASSUME NEW e \in Events, ReportCallback(e) PROVE IInv'
    <2>1. TypeOK' /\ ArchivedIsSettled' /\ CandidatesExist'
        BY <1>4 DEF ReportCallback, Report, IInv, TypeOK, ArchivedIsSettled, CandidatesExist
    <2> QED
        BY <1>4, <2>1, QuietStep DEF ReportCallback, Report
<1>5. ASSUME NEW i \in Intents, NEW n \in 1..minted[i], CustomerPays(i, n) PROVE IInv'
    <2>1. minted[i] \in Nat /\ n \in Nat
        BY DEF IInv, TypeOK
    <2>2. TypeOK' /\ ArchivedIsSettled' /\ CandidatesExist'
        BY <1>5, <2>1 DEF CustomerPays, IInv, TypeOK, ArchivedIsSettled, CandidatesExist
    <2> QED
        BY <1>5, <2>2, QuietStep DEF CustomerPays
<1>6. CASE FindExpiredOnlineTopUps
    <2>1. TypeOK' /\ ArchivedIsSettled' /\ CandidatesExist'
        BY <1>6 DEF FindExpiredOnlineTopUps, IInv, TypeOK, ArchivedIsSettled, CandidatesExist
    <2> QED
        BY <1>6, <2>1, QuietStep DEF FindExpiredOnlineTopUps
<1>7. CASE SpendBalance
    <2>1. TypeOK' /\ ArchivedIsSettled' /\ CandidatesExist'
        BY <1>7 DEF SpendBalance, IInv, TypeOK, ArchivedIsSettled, CandidatesExist
    <2> QED
        BY <1>7, <2>1, QuietStep DEF SpendBalance
<1>8. CASE ArchiveProfile
    <2>1. TypeOK' /\ ArchivedIsSettled' /\ CandidatesExist'
        BY <1>8 DEF ArchiveProfile, IInv, TypeOK, ArchivedIsSettled, CandidatesExist
    <2> QED
        BY <1>8, <2>1, QuietStep DEF ArchiveProfile
<1> QED
    BY <1>1, <1>2, <1>3, <1>4, <1>5, <1>6, <1>7, <1>8

-------------------------------------------------------------------------------
(* Initiation                                                              *)

(* Call s alone moves, within its key.                                     *)
StartMoves(s) ==
    /\ start' \in [Starters -> StartRow]
    /\ \A t \in Starters : t # s => start'[t] = start[t]
    /\ start'[s].pc # "idle" =>
          start[s].pc \in StartSteps /\ start'[s].order = start[s].order

LEMMA StartEndsMoves ==
    ASSUME IInv, NEW s \in Starters, StartEnds(s)
    PROVE  StartMoves(s) /\ StartOK(s)'
<1>1. StartMoves(s)
    BY DEF IInv, TypeOK, StartEnds, StartMoves, StartIdle, StartRow
<1>2. start'[s].pc = "idle"
    BY DEF IInv, TypeOK, StartEnds, StartIdle
<1> QED
    BY <1>1, <1>2 DEF StartOK, StartSteps

LEMMA StartTurns ==
    ASSUME IInv, NEW s \in Starters, start[s].pc \in StartSteps, NEW row \in StartRow,
           row.order = start[s].order,
           start' = [t \in Starters |-> IF t = s THEN row ELSE start[t]]
    PROVE  StartMoves(s) /\ start'[s] = row
BY DEF IInv, TypeOK, StartMoves

(* A step of s in its key, which nobody else holds.                        *)
LEMMA StartStepKept ==
    ASSUME IInv, NEW s \in Starters, start[s].pc \in StartSteps,
           StartMoves(s), StartOK(s)',
           UNCHANGED <<archived, posted, CallSide, paid, clocks, candidates>>,
           intent' \in [Intents -> IntentRow \cup {None}],
           minted' \in [Intents -> Nat], requests' \in [Intents -> Nat],
           \A i \in Intents : i # start[s].order =>
              intent'[i] = intent[i] /\ minted'[i] = minted[i] /\ requests'[i] = requests[i],
           Grows, SettledIsCredited', ArchivedIsSettled',
           minted'[start[s].order] + requests'[start[s].order] <= 1,
           \/ intent'[start[s].order] = None
           \/ intent'[start[s].order].gateway = "none"
           => minted'[start[s].order] + requests'[start[s].order] = 0
    PROVE  IInv'
<1>1. PICK i \in Intents : i = start[s].order
    BY DEF IInv, TypeOK, StartSteps
<1>2. OneCreditPerIntent' /\ CreditsOK' /\ CallsOK'
    BY CallSideKept
<1>3. TypeOK'
    BY DEF IInv, TypeOK, StartMoves, CallSide, clocks, StartSteps
<1>4. StartsOK'
    <2>1. ASSUME NEW t \in Starters, t # s PROVE StartOK(t)'
        <3>1. StartOK(t) /\ start'[t] = start[t]
            BY <2>1 DEF IInv, StartsOK, StartMoves
        <3>2. CASE start[t].pc \in StartSteps
            <4>1. PICK j \in Intents : j = start[t].order
                BY <3>2 DEF IInv, TypeOK, StartSteps
            <4>2. j # i
                BY <1>1, <2>1, <3>2, <4>1 DEF IInv, OneStartPerKey
            <4>3. intent'[j] = intent[j] /\ minted'[j] = minted[j] /\ requests'[j] = requests[j]
                BY <1>1, <4>2
            <4> QED
                BY <3>1, <4>1, <4>3 DEF StartOK, Opened
        <3>3. CASE start[t].pc \notin StartSteps
            BY <3>1, <3>3 DEF StartOK, StartSteps
        <3> QED
            BY <3>2, <3>3
    <2> QED
        BY <2>1 DEF StartsOK
<1>5. OneStartPerKey'
    <2> SUFFICES ASSUME NEW t \in Starters, NEW u \in Starters,
                        start'[t].pc \in StartSteps, start'[u].pc \in StartSteps,
                        start'[t].order = start'[u].order
                 PROVE  t = u
        BY DEF OneStartPerKey
    <2>1. \A x \in Starters : start'[x].pc \in StartSteps =>
              start[x].pc \in StartSteps /\ start'[x].order = start[x].order
        BY DEF StartMoves, StartSteps
    <2> QED
        BY <2>1 DEF IInv, OneStartPerKey
<1>6. UnclaimedIsUnopened' /\ OneSessionPerIntent'
    BY <1>1 DEF IInv, UnclaimedIsUnopened, OneSessionPerIntent, Opened
<1>7. CandidatesExist'
    BY DEF IInv, TypeOK, CandidatesExist, Grows
<1> QED
    BY <1>2, <1>3, <1>4, <1>5, <1>6, <1>7 DEF IInv

(* A step of s that changes nothing but its own place.                     *)
LEMMA StartOnly ==
    ASSUME IInv, NEW s \in Starters, start[s].pc \in StartSteps,
           StartMoves(s), StartOK(s)',
           UNCHANGED <<archived, rows, provider, clocks, call, candidates>>
    PROVE  IInv'
<1> USE DEF rows, provider
<1>1. PICK i \in Intents : i = start[s].order
    BY DEF IInv, TypeOK, StartSteps
<1>2. Grows
    BY DEF Grows
<1>3. SettledIsCredited' /\ ArchivedIsSettled'
    BY DEF IInv, SettledIsCredited, ArchivedIsSettled, CreditOf
<1>4. /\ minted'[i] + requests'[i] <= 1
      /\ (\/ intent'[i] = None \/ intent'[i].gateway = "none")
            => minted'[i] + requests'[i] = 0
    BY DEF IInv, OneSessionPerIntent, UnclaimedIsUnopened, Opened
<1>5. /\ intent' \in [Intents -> IntentRow \cup {None}]
      /\ minted' \in [Intents -> Nat] /\ requests' \in [Intents -> Nat]
    BY DEF IInv, TypeOK
<1> QED
    BY <1>1, <1>2, <1>3, <1>4, <1>5, StartStepKept DEF CallSide

LEMMA StartEndsStep ==
    ASSUME IInv, NEW s \in Starters,
           CheckoutResult(s) \/ StartDies(s)
    PROVE  IInv'
<1>1. start[s].pc \in StartSteps
    BY DEF CheckoutResult, StartDies, StartSteps
<1> QED
    BY <1>1, StartEndsMoves, StartOnly DEF CheckoutResult, StartDies

LEMMA InitiateStep ==
    ASSUME IInv, NEW s \in Starters, NEW i \in Intents, InitiateTopUp(s, i)
    PROVE  IInv'
<1> DEFINE row == [StartIdle EXCEPT !.pc = "insert", !.order = i]
<1>1. row \in StartRow /\ row.pc = "insert" /\ row.order = i
    BY DEF StartIdle, StartRow, StartSteps
<1>2. start' = [t \in Starters |-> IF t = s THEN row ELSE start[t]]
    BY DEF InitiateTopUp, IInv, TypeOK
<1> HIDE DEF row
<1> USE DEF InitiateTopUp, rows, provider, clocks
<1>3. Grows
    BY DEF Grows
<1>4. OneCreditPerIntent' /\ CreditsOK' /\ CallsOK'
    BY <1>3, CallSideKept DEF CallSide
<1>5. SettledIsCredited' /\ ArchivedIsSettled' /\ CandidatesExist'
    BY DEF IInv, SettledIsCredited, ArchivedIsSettled, CreditOf, CandidatesExist
<1>6. TypeOK'
    BY <1>1, <1>2 DEF IInv, TypeOK
<1>7. StartsOK'
    <2>1. ASSUME NEW t \in Starters PROVE StartOK(t)'
        <3>1. CASE t = s
            BY <1>1, <1>2, <3>1 DEF StartOK
        <3>2. CASE t # s
            BY <1>2, <3>2 DEF IInv, StartsOK, StartOK, Opened
        <3> QED
            BY <3>1, <3>2
    <2> QED
        BY <2>1 DEF StartsOK
<1>8. OneStartPerKey'
    BY <1>1, <1>2 DEF IInv, OneStartPerKey, StartHolds
<1>9. UnclaimedIsUnopened' /\ OneSessionPerIntent'
    BY DEF IInv, UnclaimedIsUnopened, OneSessionPerIntent, Opened
<1> QED
    BY <1>4, <1>5, <1>6, <1>7, <1>8, <1>9 DEF IInv

(* Where the row that was found sends the call: never to ask, and never    *)
(* without a row.                                                          *)
LEMMA AfterInsertRow ==
    ASSUME IInv, NEW s \in Starters, start[s].pc \in StartSteps,
           NEW row \in IntentRow
    PROVE  /\ AfterInsert(s, row) \in StartRow
           /\ AfterInsert(s, row).pc \in {"checkout", "recover", "claim", "idle"}
           /\ AfterInsert(s, row).pc # "idle" => AfterInsert(s, row).order = start[s].order
<1>1. start[s] \in StartRow
    BY DEF IInv, TypeOK
<1>2. row.gateway \in {"none", "initializing", "session", "outcome"}
      /\ row.claim \in Starters \cup {None}
    BY DEF IntentRow
<1> DEFINE c == [start[s] EXCEPT !.pc = "checkout"]
           r == [start[s] EXCEPT !.pc = "recover", !.claim = row.claim]
           k == [start[s] EXCEPT !.pc = "claim"]
<1>3. /\ c \in StartRow /\ c.pc = "checkout" /\ c.order = start[s].order
      /\ r \in StartRow /\ r.pc = "recover" /\ r.order = start[s].order
      /\ k \in StartRow /\ k.pc = "claim" /\ k.order = start[s].order
      /\ StartIdle \in StartRow /\ StartIdle.pc = "idle"
    BY <1>1, <1>2 DEF StartRow, StartSteps, StartIdle
<1>4. AfterInsert(s, row) \in {c, r, k, StartIdle}
    BY <1>2 DEF AfterInsert
<1> QED
    BY <1>3, <1>4

(* At these places a call has established no more than that its row is     *)
(* there.                                                                  *)
LEMMA PlaceOK ==
    ASSUME NEW s \in Starters, NEW i \in Intents, intent'[i] # None,
           start'[s].pc \in {"idle", "claim", "recover", "persist", "checkout"},
           start'[s].pc # "idle" => start'[s].order = i
    PROVE  StartOK(s)'
<1>1. CASE start'[s].pc = "idle"
    BY <1>1 DEF StartOK, StartSteps
<1>2. CASE start'[s].order = i
    BY <1>2 DEF StartOK
<1> QED
    BY <1>1, <1>2

LEMMA InsertStep ==
    ASSUME IInv, NEW s \in Starters, InsertOrReusePending(s)
    PROVE  IInv'
<1>1. PICK i \in Intents : i = start[s].order /\ start[s].pc = "insert"
    BY DEF InsertOrReusePending, IInv, TypeOK
<1>2. start[s].pc \in StartSteps
    BY <1>1 DEF StartSteps
<1>3. UNCHANGED <<archived, event, credits, posted, provider, clocks, call, candidates>>
    BY DEF InsertOrReusePending
<1>4. CASE StartEnds(s) /\ UNCHANGED intent
    BY <1>2, <1>3, <1>4, StartEndsMoves, StartOnly DEF rows
<1>5. CASE ~archived /\ intent[i] = None
    <2>1. NewIntent \in IntentRow /\ NewIntent.gateway = "none"
          /\ NewIntent.state = "Pending"
        BY DEF NewIntent, IntentRow, IntentStates
    <2>2. intent' = [intent EXCEPT ![i] = NewIntent]
          /\ start' = [start EXCEPT ![s] = AfterInsert(s, NewIntent)]
        BY <1>1, <1>5 DEF InsertOrReusePending
    <2> DEFINE row == AfterInsert(s, NewIntent)
    <2>3. /\ row \in StartRow /\ row.pc \in {"checkout", "recover", "claim", "idle"}
          /\ row.pc # "idle" => row.order = start[s].order
        BY <1>2, <2>1, AfterInsertRow
    <2>4. start' = [t \in Starters |-> IF t = s THEN row ELSE start[t]]
        BY <2>2 DEF IInv, TypeOK
    <2> HIDE DEF row
    <2>5. StartMoves(s) /\ start'[s] = row
        BY <1>2, <2>3, <2>4 DEF IInv, TypeOK, StartMoves
    <2>6. /\ intent' \in [Intents -> IntentRow \cup {None}]
          /\ intent'[i] = NewIntent /\ NewIntent # None
          /\ \A j \in Intents : j # i => intent'[j] = intent[j]
        BY <2>1, <2>2 DEF IInv, TypeOK
    <2>7. StartOK(s)'
        BY <1>1, <2>3, <2>5, <2>6, PlaceOK
    <2>8. Grows
        BY <1>3, <1>5, <2>6 DEF Grows, provider
    <2>9. SettledIsCredited' /\ ArchivedIsSettled'
        BY <1>3, <1>5, <2>1, <2>6, SettlementKept
    <2>10. minted[i] + requests[i] = 0
        BY <1>5 DEF IInv, UnclaimedIsUnopened, Opened
    <2>11. /\ minted' \in [Intents -> Nat] /\ requests' \in [Intents -> Nat]
           /\ minted' = minted /\ requests' = requests /\ UNCHANGED paid
        BY <1>3 DEF IInv, TypeOK, provider
    <2> QED
        BY <1>1, <1>2, <1>3, <2>5, <2>6, <2>7, <2>8, <2>9, <2>10, <2>11, StartStepKept
        DEF CallSide
<1>6. CASE ~archived /\ intent[i] # None /\ MatchingPendingTopUp(intent[i], TRUE)
    <2>1. UNCHANGED intent /\ start' = [start EXCEPT ![s] = AfterInsert(s, intent[i])]
        BY <1>1, <1>6 DEF InsertOrReusePending
    <2>2. intent[i] \in IntentRow
        BY <1>6 DEF IInv, TypeOK
    <2> DEFINE row == AfterInsert(s, intent[i])
    <2>3. /\ row \in StartRow /\ row.pc \in {"checkout", "recover", "claim", "idle"}
          /\ row.pc # "idle" => row.order = start[s].order
        BY <1>2, <2>2, AfterInsertRow
    <2>4. start' = [t \in Starters |-> IF t = s THEN row ELSE start[t]]
        BY <2>1 DEF IInv, TypeOK
    <2> HIDE DEF row
    <2>5. StartMoves(s) /\ start'[s] = row
        BY <1>2, <2>3, <2>4 DEF IInv, TypeOK, StartMoves
    <2>6. StartOK(s)'
        BY <1>1, <1>6, <2>1, <2>3, <2>5, PlaceOK
    <2> QED
        BY <1>2, <1>3, <2>1, <2>5, <2>6, StartOnly DEF rows
<1>7. CASE ~archived /\ intent[i] # None /\ ~MatchingPendingTopUp(intent[i], TRUE)
    <2>1. UNCHANGED intent /\ StartEnds(s)
        BY <1>1, <1>7 DEF InsertOrReusePending, StartEnds
    <2> QED
        BY <1>4, <2>1
<1>8. CASE archived
    <2>1. UNCHANGED intent /\ StartEnds(s)
        BY <1>8 DEF InsertOrReusePending
    <2> QED
        BY <1>4, <2>1
<1> QED
    BY <1>5, <1>6, <1>7, <1>8 DEF IInv, TypeOK
(* An initiation writes the gateway of its row, never its state, and an    *)
(* authority only where there was none.                                    *)
Writes(i, row) ==
    /\ intent' = [j \in Intents |-> IF j = i THEN row ELSE intent[j]]
    /\ row \in IntentRow
    /\ row.state = intent[i].state
    /\ intent[i].authority \in {None, row.authority}

LEMMA WritesKept ==
    ASSUME IInv, NEW i \in Intents, NEW row, Writes(i, row), intent[i] # None,
           UNCHANGED <<event, credits, paid, archived, posted>>
    PROVE  /\ intent' \in [Intents -> IntentRow \cup {None}]
           /\ intent'[i] = row /\ row # None
           /\ \A j \in Intents : j # i => intent'[j] = intent[j]
           /\ Grows /\ SettledIsCredited' /\ ArchivedIsSettled'
<1>1. /\ intent' \in [Intents -> IntentRow \cup {None}]
      /\ intent'[i] = row /\ row # None
      /\ \A j \in Intents : j # i => intent'[j] = intent[j]
    BY DEF IInv, TypeOK, Writes
<1>2. Grows
    BY <1>1 DEF Writes, Grows
<1>3. SettledIsCredited' /\ ArchivedIsSettled'
    BY <1>1, SettlementKept DEF Writes
<1> QED
    BY <1>1, <1>2, <1>3

(* Only a claim on an unclaimed row leads to a request, and there is no    *)
(* session then.                                                           *)
LEMMA ClaimStep ==
    ASSUME IInv, NEW s \in Starters, ClaimGatewayInitialization(s)
    PROVE  IInv'
<1>1. PICK i \in Intents : i = start[s].order /\ start[s].pc = "claim"
    BY DEF ClaimGatewayInitialization, IInv, TypeOK
<1>2. start[s].pc \in StartSteps /\ start[s] \in StartRow
    BY <1>1 DEF StartSteps, IInv, TypeOK
<1>3. UNCHANGED <<archived, event, credits, posted, provider, clocks, call, candidates>>
    BY DEF ClaimGatewayInitialization
<1>4. intent[i] # None /\ intent[i] \in IntentRow
    BY <1>1, <1>2 DEF IInv, TypeOK, StartsOK, StartOK
<1>5. CASE intent[i].state = "Pending" /\ intent[i].gateway = "none"
    <2> DEFINE row == [intent[i] EXCEPT !.gateway = "initializing", !.claim = s]
               place == [start[s] EXCEPT !.pc = "ask", !.claim = s]
    <2>1. /\ row \in IntentRow /\ row.gateway = "initializing"
          /\ row.state = intent[i].state /\ row.authority = intent[i].authority
        BY <1>4 DEF IntentRow
    <2>2. place \in StartRow /\ place.pc = "ask" /\ place.order = i
        BY <1>1, <1>2 DEF StartRow, StartSteps
    <2>3. /\ intent' = [j \in Intents |-> IF j = i THEN row ELSE intent[j]]
          /\ start' = [t \in Starters |-> IF t = s THEN place ELSE start[t]]
        <3>1. /\ intent' = [intent EXCEPT ![i].gateway = "initializing", ![i].claim = s]
              /\ start' = [start EXCEPT ![s].pc = "ask", ![s].claim = s]
            BY <1>1, <1>5 DEF ClaimGatewayInitialization
        <3> QED
            BY <3>1 DEF IInv, TypeOK
    <2> HIDE DEF row, place
    <2>4. Writes(i, row)
        BY <2>1, <2>3 DEF Writes
    <2>5. /\ intent' \in [Intents -> IntentRow \cup {None}]
          /\ intent'[i] = row /\ row # None
          /\ \A j \in Intents : j # i => intent'[j] = intent[j]
          /\ Grows /\ SettledIsCredited' /\ ArchivedIsSettled'
        BY <1>3, <1>4, <2>4, WritesKept DEF provider
    <2>6. StartMoves(s) /\ start'[s] = place
        BY <1>1, <1>2, <2>2, <2>3, StartTurns
    <2>7. /\ minted' = minted /\ requests' = requests /\ UNCHANGED paid
          /\ minted \in [Intents -> Nat] /\ requests \in [Intents -> Nat]
          /\ minted[i] + requests[i] = 0
        BY <1>3, <1>5 DEF IInv, TypeOK, UnclaimedIsUnopened, Opened, provider
    <2>8. StartOK(s)'
        BY <2>1, <2>2, <2>5, <2>6, <2>7 DEF StartOK, Opened
    <2> QED
        BY <1>1, <1>2, <1>3, <2>1, <2>5, <2>6, <2>7, <2>8, StartStepKept DEF CallSide
<1>6. CASE ~(intent[i].state = "Pending" /\ intent[i].gateway = "none")
    <2> DEFINE c == [start[s] EXCEPT !.pc = "checkout"]
               r == [start[s] EXCEPT !.pc = "recover", !.claim = intent[i].claim]
               place == CASE intent[i].gateway = "session" -> c
                          [] intent[i].gateway = "initializing" -> r
                          [] OTHER -> StartIdle
    <2>1. /\ c \in StartRow /\ c.pc = "checkout" /\ c.order = i
          /\ r \in StartRow /\ r.pc = "recover" /\ r.order = i
          /\ StartIdle \in StartRow /\ StartIdle.pc = "idle"
        BY <1>1, <1>2, <1>4 DEF StartRow, StartSteps, StartIdle, IntentRow
    <2>2. place \in {c, r, StartIdle}
        OBVIOUS
    <2>3. UNCHANGED intent
          /\ start' = [t \in Starters |-> IF t = s THEN place ELSE start[t]]
        BY <1>1, <1>6 DEF ClaimGatewayInitialization, IInv, TypeOK
    <2> HIDE DEF place
    <2>4. /\ place \in StartRow /\ place.pc \in {"checkout", "recover", "idle"}
          /\ place.pc # "idle" => place.order = i
        BY <2>1, <2>2
    <2>5. StartMoves(s) /\ start'[s] = place
        BY <1>1, <1>2, <2>3, <2>4 DEF IInv, TypeOK, StartMoves
    <2>6. StartOK(s)'
        BY <1>4, <2>3, <2>4, <2>5, PlaceOK
    <2> QED
        BY <1>2, <1>3, <2>3, <2>5, <2>6, StartOnly DEF rows
<1> QED
    BY <1>5, <1>6

LEMMA StartPaymentStep ==
    ASSUME IInv, NEW s \in Starters, StartPayment(s)
    PROVE  IInv'
<1>1. PICK i \in Intents : i = start[s].order /\ start[s].pc = "ask"
    BY DEF StartPayment, IInv, TypeOK
<1>2. start[s].pc \in StartSteps /\ start[s] \in StartRow
    BY <1>1 DEF StartSteps, IInv, TypeOK
<1>3. UNCHANGED <<archived, rows, minted, paid, clocks, call, candidates>>
    BY DEF StartPayment
<1>4. /\ intent[i] # None /\ intent[i].gateway # "none"
      /\ minted[i] + requests[i] = 0
      /\ minted \in [Intents -> Nat] /\ requests \in [Intents -> Nat]
      /\ intent \in [Intents -> IntentRow \cup {None}]
    BY <1>1, <1>2 DEF IInv, TypeOK, StartsOK, StartOK, Opened
<1> DEFINE place == [start[s] EXCEPT !.pc = "waiting"]
<1>5. place \in StartRow /\ place.pc = "waiting" /\ place.order = i
    BY <1>1, <1>2 DEF StartRow, StartSteps
<1>6. /\ requests' = [requests EXCEPT ![i] = @ + 1]
      /\ start' = [t \in Starters |-> IF t = s THEN place ELSE start[t]]
    BY <1>1 DEF StartPayment, StartGoes, IInv, TypeOK
<1> HIDE DEF place
<1>7. StartMoves(s) /\ start'[s] = place
    BY <1>1, <1>2, <1>5, <1>6, StartTurns
<1>8. /\ minted'[i] = 0 /\ requests'[i] = 1
      /\ requests' \in [Intents -> Nat]
      /\ \A j \in Intents : j # i => requests'[j] = requests[j]
    BY <1>3, <1>4, <1>6
<1>9. StartOK(s)'
    BY <1>3, <1>4, <1>5, <1>7, <1>8 DEF StartOK, rows
<1>10. Grows
    BY <1>3 DEF Grows, rows
<1>11. SettledIsCredited' /\ ArchivedIsSettled'
    BY <1>3 DEF IInv, SettledIsCredited, ArchivedIsSettled, CreditOf, rows
<1> QED
    BY <1>1, <1>2, <1>3, <1>4, <1>7, <1>8, <1>9, <1>10, <1>11, StartStepKept
    DEF CallSide, rows

(* A claim is given back only after a definite refusal.                    *)
LEMMA ReleaseClaimStep ==
    ASSUME IInv, NEW s \in Starters, ReleaseGatewayClaim(s)
    PROVE  IInv'
<1>1. PICK i \in Intents : i = start[s].order /\ start[s].pc = "rejected"
    BY DEF ReleaseGatewayClaim, IInv, TypeOK
<1>2. start[s].pc \in StartSteps
    BY <1>1 DEF StartSteps
<1>3. /\ UNCHANGED <<archived, event, credits, posted, provider, clocks, call, candidates>>
      /\ StartEnds(s)
    BY DEF ReleaseGatewayClaim
<1>4. /\ intent[i] # None /\ intent[i] \in IntentRow
      /\ minted[i] + requests[i] = 0
      /\ minted \in [Intents -> Nat] /\ requests \in [Intents -> Nat]
    BY <1>1, <1>2 DEF IInv, TypeOK, StartsOK, StartOK, Opened
<1>5. StartMoves(s) /\ StartOK(s)'
    BY <1>3, StartEndsMoves
<1>6. CASE UNCHANGED intent
    BY <1>2, <1>3, <1>5, <1>6, StartOnly DEF rows
<1>7. CASE ~UNCHANGED intent
    <2> DEFINE row == [intent[i] EXCEPT !.gateway = "none", !.claim = None]
    <2>1. /\ row \in IntentRow
          /\ row.state = intent[i].state /\ row.authority = intent[i].authority
        BY <1>4 DEF IntentRow
    <2>2. intent' = [j \in Intents |-> IF j = i THEN row ELSE intent[j]]
        <3>1. intent' = [intent EXCEPT ![i].gateway = "none", ![i].claim = None]
            BY <1>1, <1>7 DEF ReleaseGatewayClaim
        <3> QED
            BY <3>1 DEF IInv, TypeOK
    <2> HIDE DEF row
    <2>3. Writes(i, row)
        BY <2>1, <2>2 DEF Writes
    <2>4. /\ intent' \in [Intents -> IntentRow \cup {None}]
          /\ intent'[i] = row /\ row # None
          /\ \A j \in Intents : j # i => intent'[j] = intent[j]
          /\ Grows /\ SettledIsCredited' /\ ArchivedIsSettled'
        BY <1>3, <1>4, <2>3, WritesKept DEF provider
    <2>5. minted' = minted /\ requests' = requests /\ UNCHANGED paid
        BY <1>3 DEF provider
    <2> QED
        BY <1>1, <1>2, <1>3, <1>4, <1>5, <2>4, <2>5, StartStepKept DEF CallSide
<1> QED
    BY <1>6, <1>7

LEMMA RecoverStep ==
    ASSUME IInv, NEW s \in Starters, RecoverPayment(s)
    PROVE  IInv'
<1>1. PICK i \in Intents : i = start[s].order /\ start[s].pc = "recover"
    BY DEF RecoverPayment, IInv, TypeOK
<1>2. start[s].pc \in StartSteps /\ start[s] \in StartRow
    BY <1>1 DEF StartSteps, IInv, TypeOK
<1>3. UNCHANGED <<archived, rows, provider, clocks, call, candidates>>
    BY DEF RecoverPayment
<1>4. CASE StartEnds(s)
    BY <1>2, <1>3, <1>4, StartEndsMoves, StartOnly
<1>5. CASE start' = [start EXCEPT ![s].pc = "persist", ![s].got = 1]
    <2> DEFINE place == [start[s] EXCEPT !.pc = "persist", !.got = 1]
    <2>1. place \in StartRow /\ place.pc = "persist" /\ place.order = i
        BY <1>1, <1>2 DEF StartRow, StartSteps
    <2>2. start' = [t \in Starters |-> IF t = s THEN place ELSE start[t]]
        BY <1>5 DEF IInv, TypeOK
    <2> HIDE DEF place
    <2>3. StartMoves(s) /\ start'[s] = place
        BY <1>1, <1>2, <2>1, <2>2, StartTurns
    <2>4. intent'[i] # None
        BY <1>1, <1>2, <1>3 DEF IInv, StartsOK, StartOK, rows
    <2>5. StartOK(s)'
        BY <2>1, <2>3, <2>4, PlaceOK
    <2> QED
        BY <1>2, <1>3, <2>3, <2>5, StartOnly
<1> QED
    BY <1>4, <1>5 DEF RecoverPayment

LEMMA PersistStep ==
    ASSUME IInv, NEW s \in Starters, PersistGatewaySession(s)
    PROVE  IInv'
<1>1. PICK i \in Intents : i = start[s].order /\ start[s].pc = "persist"
    BY DEF PersistGatewaySession, IInv, TypeOK
<1>2. start[s].pc \in StartSteps /\ start[s] \in StartRow
    BY <1>1 DEF StartSteps, IInv, TypeOK
<1>3. UNCHANGED <<archived, event, credits, posted, provider, clocks, call, candidates>>
    BY DEF PersistGatewaySession
<1>4. /\ intent[i] # None /\ intent[i] \in IntentRow
      /\ minted \in [Intents -> Nat] /\ requests \in [Intents -> Nat]
      /\ minted[i] + requests[i] <= 1
    BY <1>1, <1>2 DEF IInv, TypeOK, StartsOK, StartOK, OneSessionPerIntent
<1> DEFINE row == [intent[i] EXCEPT !.gateway = "session", !.authority = start[s].got]

<1>5. /\ row \in IntentRow /\ row.gateway = "session" /\ row.state = intent[i].state
    BY <1>2, <1>4 DEF IntentRow, StartRow
<1>6. \/ UNCHANGED intent
      \/ /\ intent' = [j \in Intents |-> IF j = i THEN row ELSE intent[j]]
         /\ intent[i].authority = None
    BY <1>1 DEF PersistGatewaySession, IInv, TypeOK
<1> HIDE DEF row
<1>7. \/ UNCHANGED intent
      \/ /\ Writes(i, row)
         /\ row.gateway = "session"
    BY <1>5, <1>6 DEF Writes
<1>8. /\ intent' \in [Intents -> IntentRow \cup {None}]
      /\ intent'[i] # None
      /\ \A j \in Intents : j # i => intent'[j] = intent[j]
      /\ Grows /\ SettledIsCredited' /\ ArchivedIsSettled'
      /\ intent'[i].gateway = "none" => intent[i].gateway = "none"
    <2>1. CASE UNCHANGED intent
        BY <1>3, <1>4, <2>1
        DEF IInv, TypeOK, Grows, SettledIsCredited, ArchivedIsSettled, CreditOf, provider
    <2>2. CASE Writes(i, row) /\ row.gateway = "session"
        BY <1>3, <1>4, <2>2, WritesKept DEF provider
    <2> QED
        BY <1>7, <2>1, <2>2
<1>9. StartMoves(s) /\ StartOK(s)'
    <2>1. CASE StartEnds(s)
        BY <2>1, StartEndsMoves
    <2>2. CASE StartGoes(s, "checkout")
        <3> DEFINE place == [start[s] EXCEPT !.pc = "checkout"]
        <3>1. place \in StartRow /\ place.pc = "checkout" /\ place.order = i
            BY <1>1, <1>2 DEF StartRow, StartSteps
        <3>2. start' = [t \in Starters |-> IF t = s THEN place ELSE start[t]]
            BY <2>2 DEF StartGoes, IInv, TypeOK
        <3> HIDE DEF place
        <3>3. StartMoves(s) /\ start'[s] = place
            BY <1>1, <1>2, <3>1, <3>2, StartTurns
        <3> QED
            BY <1>8, <3>1, <3>3, PlaceOK
    <2> QED
        BY <2>1, <2>2 DEF PersistGatewaySession
<1>10. minted' = minted /\ requests' = requests /\ UNCHANGED paid
    BY <1>3 DEF provider
<1>11. intent[i].gateway = "none" => minted[i] + requests[i] = 0
    BY DEF IInv, UnclaimedIsUnopened, Opened
<1> QED
    BY <1>1, <1>2, <1>3, <1>4, <1>8, <1>9, <1>10, <1>11, StartStepKept DEF CallSide
(* The call that waits for the provider has its answer; no other moves.    *)
Answered(s, i, place) ==
    \/ start'[s] = start[s] /\ ~(start[s].pc = "waiting" /\ start[s].order = i)
    \/ /\ start[s].pc = "waiting" /\ start[s].order = i
       /\ start'[s].pc = place /\ start'[s].order = i

(* At most one call is in a key, and no other was affected by an answer of *)
(* the provider for it.                                                    *)
LEMMA ProviderKept ==
    ASSUME IInv, NEW i \in Intents,
           UNCHANGED <<archived, rows, paid, clocks, call, candidates>>,
           NEW place \in {"persist", "rejected"},
           start' \in [Starters -> StartRow],
           \A s \in Starters : Answered(s, i, place),
           requests[i] > 0,
           minted' \in [Intents -> Nat], requests' \in [Intents -> Nat],
           \A j \in Intents : j # i => minted'[j] = minted[j] /\ requests'[j] = requests[j],
           minted'[i] + requests'[i] <= minted[i] + requests[i],
           place = "rejected" /\ minted[i] = 0 /\ requests[i] = 1 =>
              minted'[i] + requests'[i] = 0
    PROVE  IInv'
<1> USE DEF rows
<1>1. Grows
    BY DEF Grows
<1>2. OneCreditPerIntent' /\ CreditsOK' /\ CallsOK'
    BY <1>1, CallSideKept DEF CallSide
<1>3. SettledIsCredited' /\ ArchivedIsSettled' /\ CandidatesExist'
    BY DEF IInv, SettledIsCredited, ArchivedIsSettled, CreditOf, CandidatesExist
<1>4. /\ start \in [Starters -> StartRow]
      /\ \A s \in Starters : start[s].pc # "idle" => start[s].order \in Intents
    BY DEF IInv, TypeOK
<1>5. \A s \in Starters : Answered(s, i, place)
    OBVIOUS
<1> USE DEF Answered
<1>6. /\ start' \in [Starters -> StartRow]
      /\ \A s \in Starters : start'[s].pc # "idle" => start'[s].order \in Intents
    BY <1>4, <1>5
<1>7. TypeOK'
    BY <1>6 DEF IInv, TypeOK, clocks
<1>8. StartsOK'
    <2> SUFFICES ASSUME NEW s \in Starters PROVE StartOK(s)'
        BY DEF StartsOK
    <2>1. StartOK(s)
        BY DEF IInv, StartsOK
    <2>2. CASE start'[s] = start[s] /\ start[s].pc \notin StartSteps
        BY <2>2 DEF StartOK, StartSteps
    <2>3. CASE start'[s] = start[s] /\ start[s].pc \in StartSteps /\ start[s].order # i
        <3>1. PICK j \in Intents : j = start[s].order
            BY <1>4, <2>3 DEF StartSteps
        <3>2. minted'[j] = minted[j] /\ requests'[j] = requests[j]
            BY <2>3, <3>1
        <3> QED
            BY <2>1, <2>3, <3>1, <3>2 DEF StartOK, Opened
    <2>4. CASE start'[s] = start[s] /\ start[s].pc \in StartSteps /\ start[s].order = i
        <3>1. start[s].pc \notin {"ask", "rejected", "waiting"}
            <4>1. minted[i] + requests[i] # 0
                BY DEF IInv, TypeOK
            <4> QED
                BY <1>5, <2>1, <2>4, <4>1 DEF StartOK, Opened
        <3> QED
            BY <2>1, <2>4, <3>1 DEF StartOK
    <2>5. CASE start[s].pc = "waiting" /\ start[s].order = i
        <3>1. start'[s].pc = place /\ start'[s].order = i
            BY <1>5, <2>5
        <3>2. intent[i] # None /\ minted[i] = 0 /\ requests[i] = 1
            BY <2>1, <2>5 DEF StartOK, StartSteps
        <3> QED
            BY <3>1, <3>2 DEF StartOK, Opened
    <2> QED
        BY <1>5, <2>2, <2>3, <2>4, <2>5
<1>9. OneStartPerKey'
    <2> SUFFICES ASSUME NEW t \in Starters, NEW u \in Starters,
                        start'[t].pc \in StartSteps, start'[u].pc \in StartSteps,
                        start'[t].order = start'[u].order
                 PROVE  t = u
        BY DEF OneStartPerKey
    <2>1. \A x \in Starters : start'[x].pc \in StartSteps =>
              start[x].pc \in StartSteps /\ start'[x].order = start[x].order
        BY <1>5 DEF StartSteps
    <2> QED
        BY <2>1 DEF IInv, OneStartPerKey
<1>10. UnclaimedIsUnopened' /\ OneSessionPerIntent'
    <2>1. minted \in [Intents -> Nat] /\ requests \in [Intents -> Nat]
        BY DEF IInv, TypeOK
    <2>2. ASSUME NEW j \in Intents
          PROVE  minted'[j] + requests'[j] <= minted[j] + requests[j]
                 /\ minted'[j] \in Nat /\ requests'[j] \in Nat
                 /\ minted[j] \in Nat /\ requests[j] \in Nat
        BY <2>1
    <2>3. UnclaimedIsUnopened'
        BY <2>2 DEF IInv, UnclaimedIsUnopened, Opened
    <2>4. OneSessionPerIntent'
        BY <2>2 DEF IInv, OneSessionPerIntent
    <2> QED
        BY <2>3, <2>4
<1> QED
    BY <1>2, <1>3, <1>7, <1>8, <1>9, <1>10 DEF IInv

LEMMA ProviderStartsStep ==
    ASSUME IInv, NEW i \in Intents, ProviderStarts(i)
    PROVE  IInv'
<1>1. minted \in [Intents -> Nat] /\ requests \in [Intents -> Nat]
    BY DEF IInv, TypeOK
<1>2. /\ minted' \in [Intents -> Nat] /\ requests' \in [Intents -> Nat]
      /\ \A j \in Intents : j # i => minted'[j] = minted[j] /\ requests'[j] = requests[j]
      /\ minted'[i] + requests'[i] = minted[i] + requests[i]
      /\ requests[i] > 0 /\ minted[i] + 1 \in Nat
    <2>1. /\ requests' = [requests EXCEPT ![i] = requests[i] - 1] /\ requests[i] > 0
          /\ minted' = [minted EXCEPT ![i] = minted[i] + 1]
        BY DEF ProviderStarts
    <2>2. requests[i] - 1 \in Nat /\ minted[i] + 1 \in Nat
        BY <1>1, <2>1
    <2>3. requests'[i] = requests[i] - 1 /\ minted'[i] = minted[i] + 1
        BY <1>1, <2>1
    <2>4. minted'[i] + requests'[i] = minted[i] + requests[i]
        BY <1>1, <2>3
    <2>5. minted' \in [Intents -> Nat] /\ requests' \in [Intents -> Nat]
        BY <1>1, <2>1, <2>2
    <2> QED
        BY <1>1, <2>1, <2>2, <2>4, <2>5
<1>3. start' \in [Starters -> StartRow] /\ \A s \in Starters : Answered(s, i, "persist")
    <2>1. ASSUME NEW r \in StartRow, NEW got \in Nat
          PROVE  /\ [r EXCEPT !.pc = "persist", !.got = got] \in StartRow
                 /\ [r EXCEPT !.pc = "persist", !.got = got].pc = "persist"
                 /\ [r EXCEPT !.pc = "persist", !.got = got].order = r.order
        BY DEF StartRow, StartSteps
    <2>2. start \in [Starters -> StartRow]
        BY DEF IInv, TypeOK
    <2> QED
        BY <1>2, <2>1, <2>2 DEF ProviderStarts, Answered
<1>4. UNCHANGED <<archived, rows, paid, clocks, call, candidates>>
    BY DEF ProviderStarts
<1> QED
    BY <1>2, <1>3, <1>4, ProviderKept

LEMMA ProviderRejectsStep ==
    ASSUME IInv, NEW i \in Intents, ProviderRejects(i)
    PROVE  IInv'
<1>1. /\ minted \in [Intents -> Nat] /\ requests \in [Intents -> Nat]
      /\ start \in [Starters -> StartRow]
      /\ \A s \in Starters : StartOK(s)
    BY DEF IInv, TypeOK, StartsOK
<1>2. /\ minted' = minted /\ requests' \in [Intents -> Nat]
      /\ \A j \in Intents : j # i => requests'[j] = requests[j]
      /\ requests[i] > 0 /\ requests'[i] = requests[i] - 1
    BY <1>1 DEF ProviderRejects
<1>3. UNCHANGED <<archived, rows, paid, clocks, call, candidates>>
    BY DEF ProviderRejects
<1>4. /\ minted'[i] + requests'[i] <= minted[i] + requests[i]
      /\ minted[i] = 0 /\ requests[i] = 1 => minted'[i] + requests'[i] = 0
    BY <1>1, <1>2
<1>5. start' \in [Starters -> StartRow] /\ \A s \in Starters : Answered(s, i, "rejected")
    <2>1. ASSUME NEW r \in StartRow
          PROVE  /\ [r EXCEPT !.pc = "rejected"] \in StartRow
                 /\ [r EXCEPT !.pc = "rejected"].pc = "rejected"
                 /\ [r EXCEPT !.pc = "rejected"].order = r.order
        BY DEF StartRow, StartSteps
    <2> QED
        BY <1>1, <2>1 DEF ProviderRejects, Answered
<1> QED
    BY <1>1, <1>2, <1>3, <1>4, <1>5, ProviderKept
-------------------------------------------------------------------------------
(* The invariant                                                           *)

LEMMA InitStep ==
    ASSUME Init
    PROVE  IInv
<1> USE DEF Init
<1>1. TypeOK
    BY DEF TypeOK, StartIdle, StartRow, CallIdle, CallRow
<1>2. CallsOK /\ StartsOK
    BY DEF CallsOK, CallOK, CallIdle, CallSteps, StartsOK, StartOK, StartIdle, StartSteps
<1>3. OneCreditPerIntent /\ CreditsOK /\ SettledIsCredited /\ ArchivedIsSettled
      /\ CandidatesExist
    BY DEF OneCreditPerIntent, CreditsOK, SettledIsCredited, ArchivedIsSettled,
           CandidatesExist
<1>4. OneStartPerKey /\ UnclaimedIsUnopened /\ OneSessionPerIntent
    BY DEF OneStartPerKey, UnclaimedIsUnopened, OneSessionPerIntent, Opened,
           StartIdle, StartSteps
<1> QED
    BY <1>1, <1>2, <1>3, <1>4 DEF IInv

LEMMA NextStep ==
    ASSUME IInv, Next
    PROVE  IInv'
<1>1. ASSUME NEW s \in Starters, StartStep(s) \/ StartDies(s) PROVE IInv'
    BY <1>1, InsertStep, ClaimStep, StartPaymentStep, ReleaseClaimStep, RecoverStep,
       PersistStep, StartEndsStep DEF StartStep
<1>2. ASSUME NEW h \in Handlers, Lock(h) \/ CallStep(h) \/ LoseSession(h) \/ CallDies(h)
      PROVE  IInv'
    BY <1>2, LockStep, LoadStep, ClaimEventStep, ReopenStep, AlreadyStep, FindStep,
       VerifyStep, CreditStep, ReleaseStep, FailStep, FinalizeStep, LoseSessionStep,
       CallEndsStep DEF CallStep
<1>3. ASSUME NEW i \in Intents, ProviderStarts(i) \/ ProviderRejects(i) PROVE IInv'
    BY <1>3, ProviderStartsStep, ProviderRejectsStep
<1>4. ASSUME NEW i \in Intents, RejectOneExpired(i) PROVE IInv'
    BY <1>4, RejectOneExpiredStep
<1>5. ASSUME NEW s \in Starters, NEW i \in Intents, InitiateTopUp(s, i) PROVE IInv'
    BY <1>5, InitiateStep
<1>6. ASSUME NEW h \in Handlers, NEW d \in Deliveries, Deliver(h, d) PROVE IInv'
    BY <1>6, DeliverStep
<1> QED
    BY <1>1, <1>2, <1>3, <1>4, <1>5, <1>6, EnvironmentStep DEF Next

LEMMA StutterStep ==
    ASSUME IInv, UNCHANGED vars
    PROVE  IInv'
<1> USE DEF vars, rows, provider, clocks, budgets
<1>1. TypeOK' /\ ArchivedIsSettled' /\ CandidatesExist'
    BY DEF IInv, TypeOK, ArchivedIsSettled, CandidatesExist
<1> QED
    BY <1>1, QuietStep

LEMMA Inductive == Spec => []IInv
<1>1. Init => IInv
    BY InitStep
<1>2. IInv /\ [Next]_vars => IInv'
    BY NextStep, StutterStep
<1> QED
    BY <1>1, <1>2, PTL DEF Spec

(* Every row, call and counter of the top-up is well formed, whatever the  *)
(* calls, callbacks and workers of OnlineTopUpService, the callback        *)
(* service and expireStaleOnlineTopUps interleave to.                      *)
THEOREM TypeCorrect == Spec => []TypeOK
<1>1. IInv => TypeOK
    BY DEF IInv
<1> QED
    BY <1>1, Inductive, PTL

(* processVerifiedPayload credits a payment once, for any number of        *)
(* callbacks, event ids, lost locks and crashes.                           *)
THEOREM OneCredit == Spec => []OneCreditPerIntent
<1>1. IInv => OneCreditPerIntent
    BY DEF IInv
<1> QED
    BY <1>1, Inductive, PTL

(* Every credit is of the stored authority, which verifyPayment found paid *)
(* at the provider: no callback credits on its own word.                   *)
THEOREM PaidCredits == Spec => []CreditIsPaid
<1>1. IInv => CreditIsPaid
    BY DEF IInv, CreditsOK, CreditOK, CreditIsPaid
<1> QED
    BY <1>1, Inductive, PTL

(* releasePendingIntent and finalizeEvent record a payment as done only    *)
(* when its credit is in the ledger, wherever the call before them died.   *)
THEOREM Settled == Spec => []SettledIsCredited
<1>1. IInv => SettledIsCredited
    BY DEF IInv
<1> QED
    BY <1>1, Inductive, PTL

(* deleteProfile leaves neither top-up money nor a Pending intent behind,  *)
(* and no later initiate or callback brings one back.                      *)
THEOREM Archived == Spec => []ArchivedIsSettled
<1>1. IInv => ArchivedIsSettled
    BY DEF IInv
<1> QED
    BY <1>1, Inductive, PTL

(* initiate, repeated with one key any number of times and dying anywhere, *)
(* has at most one payment session opened at the provider.                 *)
THEOREM OneSession == Spec => []OneSessionPerIntent
<1>1. IInv => OneSessionPerIntent
    BY DEF IInv
<1> QED
    BY <1>1, Inductive, PTL
-------------------------------------------------------------------------------
(* The lifecycle of an intent                                              *)

LifecycleStep ==
    \A i \in Intents : intent[i] # None =>
          /\ intent'[i] # None
          /\ intent[i].authority \in {None, intent'[i].authority}
          /\ \/ intent'[i].state = intent[i].state
             \/ /\ intent[i].state = "Pending"
                /\ intent'[i].state \in {"Failed", "Rejected"}
             \/ /\ intent[i].state # "Released"
                /\ intent'[i].state = "Released"
                /\ CreditOf(i) # {}

LEMMA UnchangedLifecycle ==
    ASSUME UNCHANGED intent
    PROVE  LifecycleStep
BY DEF LifecycleStep

(* A step that writes one row.                                             *)
LEMMA RowLifecycle ==
    ASSUME IInv, NEW i \in Intents, NEW row \in IntentRow,
           intent' = [intent EXCEPT ![i] = row],
           intent[i] # None => /\ intent[i].authority \in {None, row.authority}
                               /\ \/ row.state = intent[i].state
                                  \/ /\ intent[i].state = "Pending"
                                     /\ row.state \in {"Failed", "Rejected"}
                                  \/ /\ intent[i].state # "Released"
                                     /\ row.state = "Released"
                                     /\ CreditOf(i) # {}
    PROVE  LifecycleStep
BY DEF LifecycleStep, IInv, TypeOK

LEMMA StartLifecycle ==
    ASSUME IInv, NEW s \in Starters, StartStep(s)
    PROVE  LifecycleStep
<1>1. CASE StartPayment(s) \/ RecoverPayment(s) \/ CheckoutResult(s)
    BY <1>1, UnchangedLifecycle DEF StartPayment, RecoverPayment, CheckoutResult, rows
<1>2. ASSUME start[s].pc \in StartSteps \ {"insert"}
      PROVE  /\ start[s].order \in Intents
             /\ intent[start[s].order] # None
             /\ intent[start[s].order] \in IntentRow
    BY <1>2 DEF IInv, TypeOK, StartsOK, StartOK, StartSteps
<1>3. CASE InsertOrReusePending(s)
    <2>1. PICK i \in Intents : i = start[s].order
        BY <1>3 DEF InsertOrReusePending, IInv, TypeOK
    <2>2. \/ UNCHANGED intent
          \/ intent[i] = None /\ intent' = [intent EXCEPT ![i] = NewIntent]
        BY <1>3, <2>1 DEF InsertOrReusePending
    <2>3. NewIntent \in IntentRow
        BY DEF NewIntent, IntentRow, IntentStates
    <2> QED
        BY <2>2, <2>3, UnchangedLifecycle, RowLifecycle
<1>4. CASE ClaimGatewayInitialization(s)
    <2>1. PICK i \in Intents : /\ i = start[s].order
                               /\ intent[i] # None /\ intent[i] \in IntentRow
        BY <1>2, <1>4 DEF ClaimGatewayInitialization, StartSteps
    <2> DEFINE row == [intent[i] EXCEPT !.gateway = "initializing", !.claim = s]
    <2>2. row \in IntentRow /\ row.state = intent[i].state
          /\ row.authority = intent[i].authority
        BY <2>1 DEF IntentRow
    <2>3. UNCHANGED intent \/ intent' = [intent EXCEPT ![i] = row]
        BY <1>4, <2>1 DEF ClaimGatewayInitialization, IInv, TypeOK
    <2> HIDE DEF row
    <2> QED
        BY <2>2, <2>3, UnchangedLifecycle, RowLifecycle
<1>5. CASE ReleaseGatewayClaim(s)
    <2>1. PICK i \in Intents : /\ i = start[s].order
                               /\ intent[i] # None /\ intent[i] \in IntentRow
        BY <1>2, <1>5 DEF ReleaseGatewayClaim, StartSteps
    <2> DEFINE row == [intent[i] EXCEPT !.gateway = "none", !.claim = None]
    <2>2. row \in IntentRow /\ row.state = intent[i].state
          /\ row.authority = intent[i].authority
        BY <2>1 DEF IntentRow
    <2>3. UNCHANGED intent \/ intent' = [intent EXCEPT ![i] = row]
        BY <1>5, <2>1 DEF ReleaseGatewayClaim, IInv, TypeOK
    <2> HIDE DEF row
    <2> QED
        BY <2>2, <2>3, UnchangedLifecycle, RowLifecycle
<1>6. CASE PersistGatewaySession(s)
    <2>1. PICK i \in Intents : /\ i = start[s].order
                               /\ intent[i] # None /\ intent[i] \in IntentRow
        BY <1>2, <1>6 DEF PersistGatewaySession, StartSteps
    <2>2. start[s] \in StartRow
        BY DEF IInv, TypeOK
    <2> DEFINE row == [intent[i] EXCEPT !.gateway = "session",
                                        !.authority = start[s].got]
    <2>3. row \in IntentRow /\ row.state = intent[i].state
        BY <2>1, <2>2 DEF IntentRow, StartRow
    <2>4. \/ UNCHANGED intent
          \/ intent[i].authority = None /\ intent' = [intent EXCEPT ![i] = row]
        BY <1>6, <2>1 DEF PersistGatewaySession, IInv, TypeOK
    <2> HIDE DEF row
    <2> QED
        BY <2>3, <2>4, UnchangedLifecycle, RowLifecycle
<1> QED
    BY <1>1, <1>3, <1>4, <1>5, <1>6 DEF StartStep

LEMMA CallLifecycle ==
    ASSUME IInv, NEW h \in Handlers, CallStep(h)
    PROVE  LifecycleStep
<1>1. CASE ~(ReleasePendingIntent(h) \/ MarkPendingFailed(h))
    BY <1>1, UnchangedLifecycle
    DEF CallStep, LoadPendingTopUp, ClaimEvent, ReopenUnpaidEvent, AlreadyProcessed,
        FindExistingCredit, VerifyPayment, CreditWallet, FinalizeEvent, StatementFails,
        rows
<1>2. CASE ReleasePendingIntent(h) \/ MarkPendingFailed(h)
    <2>1. PICK d \in Deliveries : call[h].delivery = d
        BY <1>2 DEF ReleasePendingIntent, MarkPendingFailed, At, IInv, TypeOK
    <2>2. d.order \in Intents /\ CallOK(h)
        BY DEF Delivery, IInv, CallsOK
    <2>3. intent[d.order] # None /\ intent[d.order] \in IntentRow
        BY <1>2, <2>1, <2>2
        DEF ReleasePendingIntent, MarkPendingFailed, At, CallOK, CallSteps, IInv, TypeOK
    <2> DEFINE done(state) == [intent[d.order] EXCEPT !.state = state,
                                  !.gateway = "outcome", !.claim = None]
    <2>4. \A state \in IntentStates :
             /\ done(state) \in IntentRow /\ done(state).state = state
             /\ done(state).authority = intent[d.order].authority
        BY <2>3 DEF IntentRow
    <2>5. \/ UNCHANGED intent
          \/ /\ intent[d.order].state \in {"Pending", "Failed", "Rejected"}
             /\ CreditOf(d.order) # {}
             /\ intent' = [intent EXCEPT ![d.order] = done("Released")]
          \/ /\ intent[d.order].state = "Pending"
             /\ intent' = [intent EXCEPT ![d.order] = done("Failed")]
        <3>1. CASE ReleasePendingIntent(h)
            <4>1. CreditOf(d.order) # {}
                BY <2>1, <2>2, <3>1 DEF CallOK, ReleasePendingIntent, At
            <4>2. \/ UNCHANGED intent
                  \/ /\ intent[d.order].state \in {"Pending", "Failed", "Rejected"}
                     /\ intent' = [intent EXCEPT ![d.order].state = "Released",
                                        ![d.order].gateway = "outcome",
                                        ![d.order].claim = None]
                BY <2>1, <3>1
                DEF ReleasePendingIntent, Order, ONLINE_TOPUP_INTENT_RELEASE_STATES
            <4> QED
                BY <2>2, <2>3, <4>1, <4>2 DEF IInv, TypeOK
        <3>2. CASE MarkPendingFailed(h)
            <4>1. \/ UNCHANGED intent
                  \/ /\ intent[d.order].state = "Pending"
                     /\ intent' = [intent EXCEPT ![d.order].state = "Failed",
                                        ![d.order].gateway = "outcome",
                                        ![d.order].claim = None]
                BY <2>1, <3>2 DEF MarkPendingFailed, Order
            <4> QED
                BY <2>2, <2>3, <4>1 DEF IInv, TypeOK
        <3> QED
            BY <1>2, <3>1, <3>2
    <2>6. "Released" \in IntentStates /\ "Failed" \in IntentStates
        BY DEF IntentStates
    <2> HIDE DEF done
    <2> QED
        BY <2>2, <2>4, <2>5, <2>6, UnchangedLifecycle, RowLifecycle
<1> QED
    BY <1>1, <1>2

(* Pending ends Failed, Rejected or Released; only a credit moves a Failed *)
(* or Rejected intent on, to Released; Released is final and the stored    *)
(* authority never changes, though rejectOneExpired, releasePendingIntent, *)
(* markPendingFailed and persistGatewaySession run in any order.           *)
THEOREM Lifecycle == Spec => IntentLifecycle
<1>1. ASSUME IInv, Next PROVE LifecycleStep
    <2>1. ASSUME NEW i \in Intents, RejectOneExpired(i) PROVE LifecycleStep
        <3>1. intent[i] # None /\ intent[i] \in IntentRow
            BY <1>1, <2>1 DEF RejectOneExpired, IInv, TypeOK, CandidatesExist
        <3> DEFINE row == [intent[i] EXCEPT !.state = "Rejected", !.expired = TRUE]
        <3>2. row \in IntentRow /\ row.state = "Rejected"
              /\ row.authority = intent[i].authority
            BY <3>1 DEF IntentRow, IntentStates
        <3>3. \/ UNCHANGED intent
              \/ intent[i].state = "Pending" /\ intent' = [intent EXCEPT ![i] = row]
            BY <1>1, <2>1 DEF RejectOneExpired, isEligibleForOnlineTopUpExpiry, IInv, TypeOK
        <3> HIDE DEF row
        <3> QED
            BY <1>1, <3>2, <3>3, UnchangedLifecycle, RowLifecycle
    <2>2. ASSUME NEW s \in Starters, NEW i \in Intents, InitiateTopUp(s, i)
          PROVE  LifecycleStep
        BY <2>2, UnchangedLifecycle DEF InitiateTopUp, rows
    <2>3. ASSUME NEW s \in Starters, StartStep(s) \/ StartDies(s) PROVE LifecycleStep
        BY <1>1, <2>3, StartLifecycle, UnchangedLifecycle DEF StartDies, rows
    <2>4. ASSUME NEW i \in Intents, ProviderStarts(i) \/ ProviderRejects(i)
          PROVE  LifecycleStep
        BY <2>4, UnchangedLifecycle DEF ProviderStarts, ProviderRejects, rows
    <2>5. ASSUME NEW i \in Intents, NEW n \in 1..minted[i], CustomerPays(i, n)
          PROVE  LifecycleStep
        BY <2>5, UnchangedLifecycle DEF CustomerPays, rows
    <2>6. ASSUME NEW h \in Handlers, NEW d \in Deliveries, Deliver(h, d)
          PROVE  LifecycleStep
        BY <2>6, UnchangedLifecycle DEF Deliver, rows
    <2>7. ASSUME NEW h \in Handlers,
                 Lock(h) \/ CallStep(h) \/ LoseSession(h) \/ CallDies(h)
          PROVE  LifecycleStep
        BY <1>1, <2>7, CallLifecycle, UnchangedLifecycle
        DEF Lock, LoseSession, CallDies, rows
    <2>8. ASSUME NEW i \in Intents, PassTtl(i) \/ ReportIntent(i) PROVE LifecycleStep
        BY <2>8, UnchangedLifecycle DEF PassTtl, ReportIntent, Report, rows
    <2>9. ASSUME NEW e \in Events, PassStaleLimit(e) \/ ReportCallback(e)
          PROVE  LifecycleStep
        BY <2>9, UnchangedLifecycle DEF PassStaleLimit, ReportCallback, Report, rows
    <2>10. CASE FindExpiredOnlineTopUps \/ SpendBalance \/ ArchiveProfile
        BY <2>10, UnchangedLifecycle
        DEF FindExpiredOnlineTopUps, SpendBalance, ArchiveProfile, rows
    <2> QED
        BY <1>1, <2>1, <2>2, <2>3, <2>4, <2>5, <2>6, <2>7, <2>8, <2>9, <2>10 DEF Next
<1>2. IInv /\ [Next]_vars => [LifecycleStep]_vars
    BY <1>1
<1>3. [][LifecycleStep]_vars => IntentLifecycle
    BY PTL DEF IntentLifecycle, LifecycleStep
<1> QED
    BY <1>2, <1>3, Inductive, PTL DEF Spec

===============================================================================
