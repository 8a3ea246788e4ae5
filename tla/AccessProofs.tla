----------------------------- MODULE AccessProofs -----------------------------
(***************************************************************************)
(* Proofs about OneTimeCodes, ConfigCache and Sessions: by which code,     *)
(* under which settings and for how long a user is let in.  The three      *)
(* share no state, and the proofs of one cite nothing of another.          *)
(***************************************************************************)
EXTENDS OneTimeCodes, ConfigCache, Sessions, FiniteSetTheorems, TLAPS

(***************************************************************************)
(* OneTimeCodes, for any number of challenges, answers, resends and        *)
(* workers.                                                                *)
(*                                                                         *)
(* The wrong answers to a challenge and the attempts it has left share one *)
(* budget (ChallengeOK), because an answer keeps its challenge to itself   *)
(* from the check to the commit (GuessOK).  A code that is void stays      *)
(* void: its challenge only gets other codes, its attempts only decrease   *)
(* and the user's version only rises (VoidStays).                          *)
(***************************************************************************)
LEMMA Attempts == MAX_ATTEMPTS \in Nat /\ {0, MAX_ATTEMPTS} \subseteq 0 .. MAX_ATTEMPTS
<1>1. MAX_ATTEMPTS \in Nat
    BY CodesAssumption
<1> QED
    BY <1>1

Used(d) == delivery[d].status # "unused"

ChallengeOK == \A c \in Challenges :
    /\ challenge[c].version <= user.version
    /\ wrong[c] + challenge[c].attempts <= MAX_ATTEMPTS
    /\ challenge[c].status # "open" =>
          wrong[c] = 0 /\ ~challenge[c].consumed /\ challenge[c].grant = "none"
    /\ challenge[c].status = "open" /\ challenge[c].purpose = "password_reset" =>
          newest # Nil

(* An answer has its challenge locked, alone, and the code it brings has   *)
(* an attempt left.                                                        *)
GuessOK ==
    /\ \A g \in Guesses : guess[g].pc = "locked" =>
          /\ guess[g].of \in Challenges
          /\ challenge[guess[g].of].status = "open"
          /\ guess[g].by = "code" => challenge[guess[g].of].attempts > 0
    /\ \A g, h \in Guesses :
          /\ guess[g].pc = "locked" /\ guess[h].pc = "locked"
          /\ guess[g].of = guess[h].of
          => g = h

DeliveryOK == \A d \in Deliveries : Used(d) => delivery[d].of \in Challenges

WorkOK == \A w \in Workers : worker[w].pc # "idle" =>
    /\ worker[w].of \in Deliveries
    /\ Used(worker[w].of)
    /\ worker[w].pc = "cancelled" => ~Valid(worker[w].of)

CodesInv == /\ CodesTypeOK /\ ChallengeOK /\ GuessOK
            /\ user.current = newest
            /\ DeliveryOK /\ WorkOK /\ CancelledIsVoid

-------------------------------------------------------------------------------
(* What every step keeps of a challenge: it is not open, or has a code     *)
(* that was never used before, or is no nearer to being answerable.        *)
ChallengesKept == \A c \in Challenges :
    \/ challenge'[c].status # "open"
    \/ \E d \in Deliveries : challenge'[c].code = d /\ ~Used(d)
    \/ /\ challenge'[c].status = challenge[c].status
       /\ challenge'[c].code = challenge[c].code
       /\ challenge'[c].version = challenge[c].version
       /\ challenge[c].consumed => challenge'[c].consumed
       /\ challenge[c].expired => challenge'[c].expired
       /\ challenge'[c].attempts <= challenge[c].attempts

UserKept ==
    \/ user'.version = user.version /\ user'.disabled = user.disabled
    \/ user'.version > user.version

DeliveriesKept == \A d \in Deliveries :
    \/ delivery'[d] = delivery[d]
    \/ ~Used(d) /\ delivery'[d].status = "pending" /\ delivery'[d].of \in Challenges

LEMMA VoidStays ==
    ASSUME CodesInv, CodesTypeOK', ChallengesKept, UserKept,
           NEW d \in Deliveries, Used(d), ~Valid(d), delivery'[d].of = delivery[d].of
    PROVE  ~Valid(d)'
<1> SUFFICES ASSUME Valid(d)' PROVE FALSE
    OBVIOUS
<1>1. PICK c \in Challenges : c = delivery[d].of
    BY DEF CodesInv, DeliveryOK
<1>2. /\ challenge'[c].code = d
      /\ challenge'[c].status = "open"
      /\ ~challenge'[c].consumed /\ ~challenge'[c].expired
      /\ challenge'[c].attempts > 0
      /\ user'.version = challenge'[c].version /\ ~user'.disabled
    BY <1>1 DEF Valid, Answerable, AccountIsCurrent
<1>3. /\ challenge'[c].status = challenge[c].status
      /\ challenge'[c].code = challenge[c].code
      /\ challenge'[c].version = challenge[c].version
      /\ ~challenge[c].consumed /\ ~challenge[c].expired
      /\ challenge'[c].attempts <= challenge[c].attempts
    BY <1>2 DEF ChallengesKept
<1>4. /\ challenge[c].attempts \in Nat /\ challenge'[c].attempts \in Nat
      /\ challenge[c].version \in Nat /\ user.version \in Nat /\ user'.version \in Nat
      /\ challenge[c].version <= user.version
    BY DEF CodesInv, CodesTypeOK, ChallengeOK, Challenge, User
<1>5. Answerable(c) /\ challenge[c].code = d
    BY <1>2, <1>3, <1>4 DEF Answerable
<1>6. user.version = challenge[c].version /\ ~user.disabled
    BY <1>2, <1>3, <1>4 DEF UserKept
<1> QED
    BY <1>1, <1>5, <1>6 DEF Valid, AccountIsCurrent

(* What every step does: it keeps the invariant and brings no code back.   *)
NothingRevives == \A d \in Deliveries : Used(d) /\ ~Valid(d) => ~Valid(d)'

CodesStep == CodesInv' /\ NothingRevives

(* Steps that do not deliver.                                              *)
LEMMA DeliveriesStay ==
    ASSUME CodesInv, CodesTypeOK', ChallengesKept, UserKept, DeliveriesKept,
           worker' = worker
    PROVE  DeliveryOK' /\ WorkOK' /\ CancelledIsVoid' /\ NothingRevives
<1>1. ASSUME NEW d \in Deliveries, Used(d)
      PROVE  /\ Used(d)' /\ delivery'[d] = delivery[d]
             /\ ~Valid(d) => ~Valid(d)'
    <2>1. delivery'[d] = delivery[d]
        BY <1>1 DEF DeliveriesKept
    <2> QED
        BY <1>1, <2>1, VoidStays DEF Used
<1>2. DeliveryOK'
    BY DEF CodesInv, DeliveryOK, DeliveriesKept, Used
<1>3. WorkOK'
    BY <1>1 DEF CodesInv, WorkOK
<1>4. CancelledIsVoid'
    <2> SUFFICES ASSUME NEW d \in Deliveries, delivery'[d].status = "cancelled"
                 PROVE  ~Valid(d)'
        BY DEF CancelledIsVoid
    <2>1. Used(d) /\ delivery'[d] = delivery[d]
        BY DEF DeliveriesKept, Used
    <2> QED
        BY <1>1, <2>1 DEF CodesInv, CancelledIsVoid
<1> QED
    BY <1>1, <1>2, <1>3, <1>4 DEF NothingRevives

LEMMA QueueStep ==
    ASSUME CodesInv, NEW c \in Challenges, NEW d \in Deliveries, Queue(d, c)
    PROVE  ~Used(d) /\ DeliveriesKept /\ delivery' \in [Deliveries -> Delivery]
<1>1. delivery \in [Deliveries -> Delivery] /\ delivery[d].status = "unused"
    BY DEF Queue, CodesInv, CodesTypeOK
<1> DEFINE x == [delivery[d] EXCEPT !.status = "pending", !.of = c]
<1>2. x \in Delivery /\ x.status = "pending" /\ x.of = c
    BY <1>1 DEF Delivery
<1>3. delivery' = [delivery EXCEPT ![d] = x]
    BY DEF Queue
<1> HIDE DEF x
<1>4. /\ delivery' \in [Deliveries -> Delivery]
      /\ \A b \in Deliveries : delivery'[b] = IF b = d THEN x ELSE delivery[b]
    BY <1>1, <1>2, <1>3
<1> QED
    BY <1>1, <1>2, <1>4 DEF DeliveriesKept, Used

(* Nothing of a challenge or of the user changes.                          *)
LEMMA ChallengesSame ==
    ASSUME CodesInv, UNCHANGED <<user, challenge>>
    PROVE  ChallengesKept /\ UserKept
<1>1. \A c \in Challenges : challenge[c].attempts <= challenge[c].attempts
    BY DEF CodesInv, CodesTypeOK, Challenge
<1> QED
    BY <1>1 DEF ChallengesKept, UserKept

LEMMA DeliveriesSame ==
    ASSUME delivery' = delivery PROVE DeliveriesKept
BY DEF DeliveriesKept

LEMMA RowTyped ==
    ASSUME CodesInv, NEW c \in Challenges, NEW x \in Challenge,
           challenge' = [challenge EXCEPT ![c] = x]
    PROVE  /\ challenge' \in [Challenges -> Challenge]
           /\ \A b \in Challenges : challenge'[b] = IF b = c THEN x ELSE challenge[b]
BY DEF CodesInv, CodesTypeOK

(* One challenge changes, to x.                                            *)
LEMMA RowKept ==
    ASSUME CodesInv, NEW c \in Challenges, NEW x,
           challenge' = [challenge EXCEPT ![c] = x],
           \/ x.status # "open"
           \/ \E d \in Deliveries : x.code = d /\ ~Used(d)
           \/ /\ x.status = challenge[c].status /\ x.code = challenge[c].code
              /\ x.version = challenge[c].version
              /\ challenge[c].consumed => x.consumed
              /\ challenge[c].expired => x.expired
              /\ x.attempts <= challenge[c].attempts
    PROVE  ChallengesKept
<1> SUFFICES ASSUME NEW b \in Challenges
             PROVE  \/ challenge'[b].status # "open"
                    \/ \E d \in Deliveries : challenge'[b].code = d /\ ~Used(d)
                    \/ /\ challenge'[b].status = challenge[b].status
                       /\ challenge'[b].code = challenge[b].code
                       /\ challenge'[b].version = challenge[b].version
                       /\ challenge[b].consumed => challenge'[b].consumed
                       /\ challenge[b].expired => challenge'[b].expired
                       /\ challenge'[b].attempts <= challenge[b].attempts
    BY DEF ChallengesKept
<1>1. challenge'[b] = IF b = c THEN x ELSE challenge[b]
    BY DEF CodesInv, CodesTypeOK
<1>2. challenge[b].attempts <= challenge[b].attempts
    BY DEF CodesInv, CodesTypeOK, Challenge
<1> QED
    BY <1>1, <1>2

-------------------------------------------------------------------------------
LEMMA CodesInitOK == CodesInit => CodesInv
<1> SUFFICES ASSUME CodesInit PROVE CodesInv
    OBVIOUS
<1>1. CodesTypeOK
    BY CodesAssumption DEF CodesInit, CodesTypeOK, Unasked, Unwritten, NoGuess, Quiet, User,
           Challenge, Delivery, Guess, Resend, Worker
<1>2. ChallengeOK /\ GuessOK /\ user.current = newest
    BY Attempts DEF CodesInit, ChallengeOK, GuessOK, Unasked, NoGuess
<1>3. DeliveryOK /\ WorkOK /\ CancelledIsVoid
    BY DEF CodesInit, DeliveryOK, WorkOK, CancelledIsVoid, Used, Unwritten, Quiet
<1> QED
    BY <1>1, <1>2, <1>3 DEF CodesInv

LEMMA LookUpStep ==
    ASSUME CodesInv, NEW c \in Challenges, NEW purpose \in Purposes,
           LookUpAccount(c, purpose)
    PROVE  CodesStep
<1>1. /\ UNCHANGED <<user, delivery, guess, resend, worker, wrong, newest, events>>
      /\ challenge[c].status = "new"
    BY DEF LookUpAccount
<1>2. challenge[c] \in Challenge /\ user.version \in Nat
    BY DEF CodesInv, CodesTypeOK, User
<1> DEFINE x == [challenge[c] EXCEPT !.status = "asked", !.purpose = purpose,
                                     !.version = user.version]
<1>3. /\ x \in Challenge /\ x.status = "asked" /\ x.version = user.version
      /\ x.attempts = challenge[c].attempts /\ x.grant = challenge[c].grant
      /\ x.consumed => challenge[c].consumed
    BY <1>2 DEF Challenge
<1>4. challenge' = [challenge EXCEPT ![c] = x]
    BY DEF LookUpAccount
<1> HIDE DEF x
<1>5. /\ challenge' \in [Challenges -> Challenge]
      /\ \A b \in Challenges : challenge'[b] = IF b = c THEN x ELSE challenge[b]
    BY <1>3, <1>4, RowTyped
<1>6. CodesTypeOK'
    BY <1>1, <1>5 DEF CodesInv, CodesTypeOK
<1>7. ChallengeOK' /\ user'.current = newest'
    BY <1>1, <1>2, <1>3, <1>5 DEF CodesInv, ChallengeOK
<1>8. GuessOK'
    BY <1>1, <1>5 DEF CodesInv, GuessOK
<1>9. ChallengesKept /\ UserKept /\ DeliveriesKept
    BY <1>1, <1>3, <1>4, RowKept, DeliveriesSame DEF UserKept
<1> QED
    BY <1>1, <1>6, <1>7, <1>8, <1>9, DeliveriesStay DEF CodesInv, CodesStep

LEMMA CreateChallengeStep ==
    ASSUME CodesInv, NEW c \in Challenges, createAccountChallenge(c)
    PROVE  CodesStep
<1>1. /\ challenge[c].status = "asked" /\ UNCHANGED <<guess, resend, worker, wrong, events>>
      /\ challenge[c] \in Challenge /\ challenge[c].version <= user.version
      /\ wrong[c] = 0 /\ user.version \in Nat
    BY DEF createAccountChallenge, CodesInv, CodesTypeOK, ChallengeOK, User
<1>2. \A g \in Guesses : guess[g].pc = "locked" => guess[g].of # c
    BY <1>1 DEF CodesInv, GuessOK
<1>3. CASE AccountIsCurrent(challenge[c].version)
    <2>1. PICK d \in Deliveries :
              /\ Queue(d, c)
              /\ challenge' = [challenge EXCEPT ![c] =
                    [@ EXCEPT !.status = "open", !.code = d,
                              !.attempts = MAX_ATTEMPTS]]
        BY <1>3 DEF createAccountChallenge
    <2>2. IF challenge[c].purpose = "password_reset"
          THEN user' = [user EXCEPT !.current = c] /\ newest' = c
          ELSE UNCHANGED <<user, newest>>
        BY <1>3 DEF createAccountChallenge
    <2>3. ~Used(d) /\ DeliveriesKept /\ delivery' \in [Deliveries -> Delivery]
        BY <2>1, QueueStep
    <2> DEFINE x == [challenge[c] EXCEPT !.status = "open", !.code = d,
                                         !.attempts = MAX_ATTEMPTS]
    <2>4. /\ x \in Challenge /\ x.code = d /\ x.attempts = MAX_ATTEMPTS
          /\ x.status = "open" /\ x.version = challenge[c].version
          /\ x.purpose = challenge[c].purpose
        BY <1>1, Attempts DEF Challenge
    <2>5. challenge' = [challenge EXCEPT ![c] = x]
        BY <2>1
    <2> HIDE DEF x
    <2>6. /\ challenge' \in [Challenges -> Challenge]
          /\ \A b \in Challenges : challenge'[b] = IF b = c THEN x ELSE challenge[b]
        BY <2>4, <2>5, RowTyped
    <2>7. /\ user' \in User /\ newest' \in Challenges \cup {Nil}
          /\ user'.current = newest' /\ user'.version = user.version
          /\ user'.disabled = user.disabled
          /\ newest # Nil => newest' # Nil
          /\ challenge[c].purpose = "password_reset" => newest' # Nil
        BY <2>2, CodesAssumption DEF CodesInv, CodesTypeOK, User
    <2>8. CodesTypeOK'
        BY <1>1, <2>3, <2>6, <2>7 DEF CodesInv, CodesTypeOK
    <2>9. ChallengeOK'
        BY <1>1, <2>4, <2>6, <2>7, Attempts DEF CodesInv, ChallengeOK
    <2>10. GuessOK'
        BY <1>1, <1>2, <2>6 DEF CodesInv, GuessOK
    <2>11. ChallengesKept /\ UserKept
        BY <2>3, <2>4, <2>5, <2>7, RowKept DEF UserKept
    <2> QED
        BY <1>1, <2>3, <2>7, <2>8, <2>9, <2>10, <2>11, DeliveriesStay DEF CodesInv, CodesStep
<1>4. CASE ~AccountIsCurrent(challenge[c].version)
    <2>1. /\ challenge' = [challenge EXCEPT ![c] = [Unasked EXCEPT !.status = "refused"]]
          /\ UNCHANGED <<user, newest, delivery>>
        BY <1>4 DEF createAccountChallenge
    <2> DEFINE x == [Unasked EXCEPT !.status = "refused"]
    <2>2. /\ x \in Challenge /\ x.status = "refused" /\ x.version = 0
          /\ x.attempts = 0 /\ x.grant = "none" /\ ~x.consumed
        BY Attempts DEF Unasked, Challenge
    <2>3. challenge' = [challenge EXCEPT ![c] = x]
        BY <2>1
    <2> HIDE DEF x
    <2>4. /\ challenge' \in [Challenges -> Challenge]
          /\ \A b \in Challenges : challenge'[b] = IF b = c THEN x ELSE challenge[b]
        BY <2>2, <2>3, RowTyped
    <2>5. CodesTypeOK'
        BY <1>1, <2>1, <2>4 DEF CodesInv, CodesTypeOK
    <2>6. ChallengeOK'
        <3> SUFFICES ASSUME NEW b \in Challenges
                     PROVE  /\ challenge'[b].version <= user'.version
                            /\ wrong'[b] + challenge'[b].attempts <= MAX_ATTEMPTS
                            /\ challenge'[b].status # "open" =>
                                  /\ wrong'[b] = 0 /\ ~challenge'[b].consumed
                                  /\ challenge'[b].grant = "none"
                            /\ challenge'[b].status = "open"
                                  /\ challenge'[b].purpose = "password_reset"
                                => newest' # Nil
            BY DEF ChallengeOK
        <3>1. CASE b = c
            <4>1. challenge'[b] = x
                BY <2>4, <3>1
            <4>2. 0 <= user'.version
                BY <1>1, <2>1
            <4>3. wrong'[b] = 0 /\ 0 + 0 <= MAX_ATTEMPTS
                BY <1>1, <3>1, Attempts
            <4> QED
                BY <2>2, <4>1, <4>2, <4>3
        <3>2. CASE b # c
            BY <1>1, <2>1, <2>4, <3>2 DEF CodesInv, ChallengeOK
        <3> QED
            BY <3>1, <3>2
    <2>7. GuessOK'
        BY <1>1, <1>2, <2>4 DEF CodesInv, GuessOK
    <2>8. ChallengesKept /\ UserKept /\ DeliveriesKept
        BY <2>1, <2>2, <2>3, RowKept, DeliveriesSame DEF UserKept
    <2> QED
        BY <1>1, <2>1, <2>5, <2>6, <2>7, <2>8, DeliveriesStay DEF CodesInv, CodesStep
<1> QED
    BY <1>3, <1>4

LEMMA ExpireStep ==
    ASSUME CodesInv, NEW c \in Challenges, Expire(c)
    PROVE  CodesStep
<1>1. UNCHANGED <<user, delivery, guess, resend, worker, wrong, newest>>
    BY DEF Expire
<1>2. challenge[c] \in Challenge /\ events' \in 0 .. MaxEvents
    BY CodesAssumption DEF Expire, Happens, CodesInv, CodesTypeOK
<1> DEFINE x == [challenge[c] EXCEPT !.expired = TRUE]
<1>3. /\ x \in Challenge /\ x.status = challenge[c].status
      /\ x.code = challenge[c].code /\ x.version = challenge[c].version
      /\ x.purpose = challenge[c].purpose /\ x.grant = challenge[c].grant
      /\ x.consumed = challenge[c].consumed
      /\ x.expired /\ x.attempts = challenge[c].attempts
    BY <1>2, Attempts DEF Challenge
<1>4. challenge' = [challenge EXCEPT ![c] = x]
    BY DEF Expire
<1> HIDE DEF x
<1>5. /\ challenge' \in [Challenges -> Challenge]
      /\ \A b \in Challenges : challenge'[b] = IF b = c THEN x ELSE challenge[b]
    BY <1>3, <1>4, RowTyped
<1>6. CodesTypeOK'
    BY <1>1, <1>2, <1>5 DEF CodesInv, CodesTypeOK
<1>7. ChallengeOK' /\ user'.current = newest'
    BY <1>1, <1>3, <1>5 DEF CodesInv, ChallengeOK
<1>8. GuessOK'
    BY <1>1, <1>3, <1>5 DEF CodesInv, GuessOK
<1>9. x.attempts <= challenge[c].attempts
    BY <1>2, <1>3 DEF Challenge
<1>10. ChallengesKept /\ UserKept /\ DeliveriesKept
    BY <1>1, <1>3, <1>4, <1>9, RowKept, DeliveriesSame DEF UserKept
<1> QED
    BY <1>1, <1>6, <1>7, <1>8, <1>10, DeliveriesStay DEF CodesInv, CodesStep

(* The other code has the attempts that were left.                         *)
LEMMA ResendSteps ==
    ASSUME CodesInv, NEW n \in Resends,
           resendChallenge(n) \/ \E c \in Challenges : ReadForResend(n, c)
    PROVE  CodesStep
<1>1. ASSUME NEW c \in Challenges, ReadForResend(n, c) PROVE CodesStep
    <2>1. CodesTypeOK'
        BY <1>1, CodesAssumption DEF ReadForResend, Happens, CodesInv, CodesTypeOK, Resend, Challenge
    <2>2. UNCHANGED <<user, challenge, delivery, guess, worker, wrong, newest>>
        BY <1>1 DEF ReadForResend
    <2>3. ChallengeOK' /\ GuessOK' /\ user'.current = newest'
        BY <2>2 DEF CodesInv, ChallengeOK, GuessOK
    <2> QED
        BY <2>1, <2>2, <2>3, ChallengesSame, DeliveriesSame, DeliveriesStay DEF CodesInv, CodesStep
<1>2. CASE resendChallenge(n)
    <2>1. PICK c : c = resend[n].of
        OBVIOUS
    <2>2. /\ c \in Challenges /\ ~Locked(c)
          /\ resend' = [resend EXCEPT ![n] = [of |-> Nil, code |-> Nil]]
          /\ UNCHANGED <<user, guess, worker, wrong, newest, events>>
        BY <1>2, <2>1 DEF resendChallenge, CodesInv, CodesTypeOK, Resend
    <2>3. resend' \in [Resends -> Resend]
        BY <2>2 DEF CodesInv, CodesTypeOK, Resend
    <2>4. CASE Answerable(c) /\ challenge[c].code = resend[n].code
        <3>1. PICK d \in Deliveries :
                  Queue(d, c) /\ challenge' = [challenge EXCEPT ![c].code = d]
            BY <1>2, <2>1, <2>4 DEF resendChallenge
        <3>2. ~Used(d) /\ DeliveriesKept /\ delivery' \in [Deliveries -> Delivery]
            BY <2>2, <3>1, QueueStep
        <3> DEFINE x == [challenge[c] EXCEPT !.code = d]
        <3>3. /\ x \in Challenge /\ x.code = d /\ x.status = challenge[c].status
              /\ x.version = challenge[c].version /\ x.purpose = challenge[c].purpose
              /\ x.attempts = challenge[c].attempts /\ x.grant = challenge[c].grant
              /\ x.consumed => challenge[c].consumed
            BY <2>2 DEF CodesInv, CodesTypeOK, Challenge
        <3>4. challenge' = [challenge EXCEPT ![c] = x]
            BY <3>1
        <3> HIDE DEF x
        <3>5. /\ challenge' \in [Challenges -> Challenge]
              /\ \A b \in Challenges : challenge'[b] = IF b = c THEN x ELSE challenge[b]
            BY <2>2, <3>3, <3>4, RowTyped
        <3>6. CodesTypeOK'
            BY <2>2, <2>3, <3>2, <3>5 DEF CodesInv, CodesTypeOK
        <3>7. ChallengeOK' /\ user'.current = newest'
            BY <2>2, <3>3, <3>5 DEF CodesInv, ChallengeOK
        <3>8. GuessOK'
            BY <2>2, <3>3, <3>5 DEF CodesInv, GuessOK
        <3>9. ChallengesKept /\ UserKept
            BY <2>2, <3>2, <3>3, <3>4, RowKept DEF UserKept
        <3> QED
            BY <2>2, <3>2, <3>6, <3>7, <3>8, <3>9, DeliveriesStay DEF CodesInv, CodesStep
    <2>5. CASE ~(Answerable(c) /\ challenge[c].code = resend[n].code)
        <3>1. UNCHANGED <<challenge, delivery>>
            BY <1>2, <2>1, <2>5 DEF resendChallenge
        <3>2. CodesTypeOK'
            BY <2>2, <2>3, <3>1 DEF CodesInv, CodesTypeOK
        <3>3. ChallengeOK' /\ GuessOK' /\ user'.current = newest'
            BY <2>2, <3>1 DEF CodesInv, ChallengeOK, GuessOK
        <3> QED
            BY <2>2, <3>1, <3>2, <3>3, ChallengesSame, DeliveriesSame, DeliveriesStay
               DEF CodesInv, CodesStep
    <2> QED
        BY <2>4, <2>5
<1> QED
    BY <1>1, <1>2

-------------------------------------------------------------------------------
LEMMA LockStep ==
    ASSUME CodesInv, NEW g \in Guesses, NEW c \in Challenges,
           NEW by \in {"code", "grant"}, LockChallenge(g, c, by)
    PROVE  CodesStep
<1>1. CodesTypeOK'
    BY DEF LockChallenge, CodesInv, CodesTypeOK, Guess
<1>2. UNCHANGED <<user, challenge, delivery, worker, wrong, newest>>
    BY DEF LockChallenge
<1>3. ChallengeOK' /\ user'.current = newest'
    BY <1>2 DEF CodesInv, ChallengeOK
<1>4. challenge[c].status = "open" /\ (by = "code" => challenge[c].attempts > 0)
    BY DEF LockChallenge, Answerable, CodesInv, ChallengeOK
<1>5. \A h \in Guesses : guess[h].pc = "locked" => guess[h].of # c
    BY DEF LockChallenge, Locked
<1>6. \A h \in Guesses :
          guess'[h] = IF h = g THEN [pc |-> "locked", of |-> c, by |-> by] ELSE guess[h]
    BY DEF LockChallenge, CodesInv, CodesTypeOK
<1>7. GuessOK'
    BY <1>2, <1>4, <1>5, <1>6 DEF CodesInv, GuessOK
<1> QED
    BY <1>1, <1>2, <1>3, <1>7, ChallengesSame, DeliveriesSame, DeliveriesStay DEF CodesInv, CodesStep

(* The end of an answer: its challenge becomes x, others keep theirs.      *)
LEMMA ReleaseStep ==
    ASSUME CodesInv, NEW g \in Guesses, guess[g].pc = "locked", Release(g),
           UNCHANGED <<delivery, resend, worker, newest, events>>,
           NEW x, challenge' = [challenge EXCEPT ![guess[g].of] = x],
           x.status = "open", x.version = challenge[guess[g].of].version,
           x.purpose = challenge[guess[g].of].purpose,
           x.code = challenge[guess[g].of].code,
           x.expired = challenge[guess[g].of].expired,
           challenge[guess[g].of].consumed => x.consumed,
           x.attempts <= challenge[guess[g].of].attempts,
           wrong'[guess[g].of] + x.attempts <= MAX_ATTEMPTS,
           \A b \in Challenges : b # guess[g].of => wrong'[b] = wrong[b],
           user'.current = user.current, UserKept, user'.version >= user.version,
           x \in Challenge, user' \in User, wrong' \in [Challenges -> Nat]
    PROVE  CodesStep
<1>1. PICK c \in Challenges : c = guess[g].of
    BY DEF CodesInv, GuessOK
<1>2. challenge[c].status = "open"
    BY <1>1 DEF CodesInv, GuessOK
<1>3. /\ challenge' \in [Challenges -> Challenge]
      /\ \A b \in Challenges : challenge'[b] = IF b = c THEN x ELSE challenge[b]
    BY <1>1, RowTyped
<1>4. CodesTypeOK'
    BY <1>3 DEF Release, NoGuess, Guess, CodesInv, CodesTypeOK
<1>5. ChallengeOK'
    <2> SUFFICES ASSUME NEW b \in Challenges
                 PROVE  /\ challenge'[b].version <= user'.version
                        /\ wrong'[b] + challenge'[b].attempts <= MAX_ATTEMPTS
                        /\ challenge'[b].status # "open" =>
                              /\ wrong'[b] = 0 /\ ~challenge'[b].consumed
                              /\ challenge'[b].grant = "none"
                        /\ challenge'[b].status = "open"
                              /\ challenge'[b].purpose = "password_reset" => newest' # Nil
        BY DEF ChallengeOK
    <2>1. /\ user.version \in Nat /\ user'.version \in Nat
          /\ challenge[b].version \in Nat /\ challenge[b].version <= user.version
        BY DEF CodesInv, CodesTypeOK, ChallengeOK, Challenge, User
    <2>2. challenge[b].version <= user'.version
        BY <2>1
    <2> QED
        BY <1>1, <1>2, <1>3, <2>2 DEF CodesInv, ChallengeOK
<1>6. \A h \in Guesses : guess'[h] = IF h = g THEN NoGuess ELSE guess[h]
    BY DEF Release, CodesInv, CodesTypeOK
<1>7. \A h \in Guesses : h # g /\ guess[h].pc = "locked" => guess[h].of # c
    BY <1>1 DEF CodesInv, GuessOK
<1>8. GuessOK'
    BY <1>3, <1>6, <1>7 DEF CodesInv, GuessOK, NoGuess
<1>9. ChallengesKept
    BY <1>1, <1>2, RowKept
<1> QED
    BY <1>5, <1>8, <1>9, <1>4, DeliveriesSame, DeliveriesStay DEF CodesInv, CodesStep

LEMMA AnswerSteps ==
    ASSUME CodesInv, NEW g \in Guesses,
           Reject(g) \/ RejectCode(g) \/ AcceptCode(g) \/ resetByChallenge(g)
    PROVE  CodesStep
<1>1. guess[g].pc = "locked" /\ Release(g)
      /\ UNCHANGED <<delivery, resend, worker, newest, events>>
    BY DEF Reject, RejectCode, AcceptCode, resetByChallenge
<1>2. PICK c \in Challenges : c = guess[g].of
    BY <1>1 DEF CodesInv, GuessOK
<1>3. /\ challenge[c] \in Challenge /\ challenge[c].status = "open"
      /\ wrong \in [Challenges -> Nat]
      /\ wrong[c] + challenge[c].attempts <= MAX_ATTEMPTS
      /\ guess[g].by = "code" => challenge[c].attempts > 0
      /\ user \in User
    BY <1>1, <1>2 DEF CodesInv, CodesTypeOK, GuessOK, ChallengeOK
<1>4. user' = user => UserKept /\ user'.version >= user.version /\ user' \in User
    BY <1>3 DEF UserKept, User
<1>5. CASE Reject(g)
    <2>1. UNCHANGED <<user, challenge, wrong>>
        BY <1>5 DEF Reject
    <2>2. challenge' = [challenge EXCEPT ![c] = challenge[c]]
        BY <2>1 DEF CodesInv, CodesTypeOK
    <2>3. challenge[c].attempts <= challenge[c].attempts
        BY <1>3 DEF Challenge
    <2> QED
        BY <1>1, <1>2, <1>3, <1>4, <2>1, <2>2, <2>3, ReleaseStep
<1>6. CASE RejectCode(g)
    <2>1. /\ challenge' = [challenge EXCEPT ![c].attempts = @ - 1]
          /\ wrong' = [wrong EXCEPT ![c] = @ + 1]
          /\ user' = user /\ guess[g].by = "code"
        BY <1>2, <1>6 DEF RejectCode
    <2> DEFINE x == [challenge[c] EXCEPT !.attempts = @ - 1]
    <2>2. challenge' = [challenge EXCEPT ![c] = x]
        BY <2>1
    <2>3. /\ x \in Challenge
          /\ x.status = "open" /\ x.version = challenge[c].version
          /\ x.purpose = challenge[c].purpose /\ x.code = challenge[c].code
          /\ x.expired = challenge[c].expired
          /\ x.consumed = challenge[c].consumed
          /\ x.attempts = challenge[c].attempts - 1
        BY <1>3, <2>1, Attempts DEF Challenge
    <2> HIDE DEF x
    <2>4. /\ wrong' \in [Challenges -> Nat] /\ wrong'[c] = wrong[c] + 1
          /\ \A b \in Challenges : b # c => wrong'[b] = wrong[b]
        BY <1>3, <2>1
    <2>5. wrong'[c] + x.attempts <= MAX_ATTEMPTS /\ x.attempts <= challenge[c].attempts
        BY <1>3, <2>3, <2>4, Attempts DEF Challenge
    <2>6. /\ guess[g].of = c
          /\ challenge[c].consumed => x.consumed
          /\ \A b \in Challenges : b # guess[g].of => wrong'[b] = wrong[b]
        BY <1>2, <2>3, <2>4
    <2>7. /\ user' \in User /\ user'.current = user.current
          /\ UserKept /\ user'.version >= user.version
        BY <1>4, <2>1
    <2> QED
        BY <1>1, <2>2, <2>3, <2>4, <2>5, <2>6, <2>7, ReleaseStep
<1>7. CASE AcceptCode(g)
    <2>1. PICK grant \in {"none", "issued"} :
              challenge' = [challenge EXCEPT ![c] = Spend(@, grant)]
        BY <1>2, <1>7 DEF AcceptCode
    <2>2. UNCHANGED <<user, wrong>>
        BY <1>7 DEF AcceptCode
    <2> DEFINE x == Spend(challenge[c], grant)
    <2>3. challenge' = [challenge EXCEPT ![c] = x]
        BY <2>1
    <2>4. /\ x \in Challenge
          /\ x.status = "open" /\ x.version = challenge[c].version
          /\ x.purpose = challenge[c].purpose /\ x.code = challenge[c].code
          /\ x.expired = challenge[c].expired /\ x.consumed /\ x.attempts = 0
        BY <1>3, Attempts DEF Spend, Challenge
    <2> HIDE DEF x
    <2>5. wrong'[c] + x.attempts <= MAX_ATTEMPTS /\ x.attempts <= challenge[c].attempts
        BY <1>3, <2>2, <2>4, Attempts DEF Challenge
    <2> QED
        BY <1>1, <1>2, <1>3, <1>4, <2>2, <2>3, <2>4, <2>5, ReleaseStep
<1>8. CASE resetByChallenge(g)
    <2> DEFINE x == IF guess[g].by = "code" THEN Spend(challenge[c], "none")
                    ELSE [challenge[c] EXCEPT !.grant = "spent"]
    <2>1. challenge' = [challenge EXCEPT ![c] = x]
        BY <1>2, <1>8 DEF resetByChallenge
    <2>2. user' = [user EXCEPT !.version = @ + 1] /\ wrong' = wrong
        BY <1>8 DEF resetByChallenge, NewPassword
    <2>3. /\ x \in Challenge
          /\ x.status = "open" /\ x.version = challenge[c].version
          /\ x.purpose = challenge[c].purpose /\ x.code = challenge[c].code
          /\ x.expired = challenge[c].expired
        BY <1>3, Attempts DEF Spend, Challenge
    <2>4. /\ x.consumed = challenge[c].consumed \/ x.consumed = TRUE
          /\ x.attempts = challenge[c].attempts \/ x.attempts = 0
        <3>1. CASE guess[g].by = "code"
            <4>1. x = Spend(challenge[c], "none")
                BY <3>1
            <4> QED
                BY <1>3, <4>1 DEF Spend, Challenge
        <3>2. CASE guess[g].by # "code"
            <4>1. x = [challenge[c] EXCEPT !.grant = "spent"]
                BY <3>2
            <4> QED
                BY <1>3, <4>1 DEF Challenge
        <3> QED
            BY <3>1, <3>2
    <2> HIDE DEF x
    <2>5. wrong'[c] + x.attempts <= MAX_ATTEMPTS /\ x.attempts <= challenge[c].attempts
        BY <1>3, <2>2, <2>3, <2>4, Attempts DEF Challenge
    <2>6. /\ user' \in User /\ user'.version = user.version + 1
          /\ user'.current = user.current
        BY <1>3, <2>2 DEF User
    <2>7. UserKept /\ user'.version >= user.version
        BY <1>3, <2>6 DEF UserKept, User
    <2> QED
        BY <1>1, <1>2, <1>3, <2>1, <2>2, <2>3, <2>4, <2>5, <2>6, <2>7, ReleaseStep
<1> QED
    BY <1>5, <1>6, <1>7, <1>8

LEMMA ChangeStep == ASSUME CodesInv, ChangeAccount PROVE CodesStep
<1>1. PICK off \in BOOLEAN : user' = [user EXCEPT !.version = @ + 1, !.disabled = off]
    BY DEF ChangeAccount
<1>2. /\ UNCHANGED <<challenge, delivery, guess, resend, worker, wrong, newest>>
      /\ events' \in 0 .. MaxEvents
    BY CodesAssumption DEF ChangeAccount, Happens, CodesInv, CodesTypeOK
<1>3. user \in User /\ user.version \in Nat
    BY DEF CodesInv, CodesTypeOK, User
<1>4. /\ user' \in User /\ user'.version = user.version + 1
      /\ user'.current = user.current
    <2> DEFINE x == [version |-> user.version + 1, disabled |-> off,
                     current |-> user.current]
    <2>1. user' = x
        BY <1>1, <1>3 DEF User
    <2>2. x \in User
        BY <1>3 DEF User
    <2> QED
        BY <2>1, <2>2
<1>5. CodesTypeOK'
    BY <1>2, <1>4 DEF CodesInv, CodesTypeOK
<1>6. ChallengeOK'
    BY <1>2, <1>3, <1>4 DEF CodesInv, CodesTypeOK, ChallengeOK, Challenge
<1>7. GuessOK' /\ user'.current = newest'
    BY <1>2, <1>4 DEF CodesInv, GuessOK
<1>8. \A c \in Challenges : challenge[c].attempts <= challenge[c].attempts
    BY DEF CodesInv, CodesTypeOK, Challenge
<1>9. ChallengesKept /\ UserKept /\ DeliveriesKept
    BY <1>2, <1>3, <1>4, <1>8, DeliveriesSame DEF ChallengesKept, UserKept
<1> QED
    BY <1>2, <1>5, <1>6, <1>7, <1>9, DeliveriesStay DEF CodesInv, CodesStep

-------------------------------------------------------------------------------
(* Deliveries.  A step of a worker changes no challenge, so what is void   *)
(* is void after it.                                                       *)
LEMMA WorkStep ==
    ASSUME CodesInv, UNCHANGED codes,
           delivery' \in [Deliveries -> Delivery],
           worker' \in [Workers -> Worker],
           events' \in 0 .. MaxEvents,
           \A d \in Deliveries :
              /\ delivery'[d].of = delivery[d].of
              /\ Used(d) <=> delivery'[d].status # "unused"
              /\ delivery'[d].status = "cancelled" => ~Valid(d),
           \A w \in Workers : worker'[w].pc # "idle" =>
              /\ worker'[w].of \in Deliveries
              /\ Used(worker'[w].of)
              /\ worker'[w].pc = "cancelled" => ~Valid(worker'[w].of)
    PROVE  CodesStep
<1>1. UNCHANGED <<user, challenge, guess, resend, wrong, newest>>
    BY DEF codes
<1>2. CodesTypeOK'
    BY <1>1 DEF CodesInv, CodesTypeOK
<1>3. ChallengeOK' /\ GuessOK' /\ user'.current = newest'
    BY <1>1 DEF CodesInv, ChallengeOK, GuessOK
<1>4. \A d \in Deliveries : (Valid(d)' <=> Valid(d)) /\ (Used(d)' <=> Used(d))
    BY <1>1 DEF Valid, Answerable, AccountIsCurrent, Used
<1>5. DeliveryOK' /\ WorkOK' /\ CancelledIsVoid'
    BY <1>4 DEF CodesInv, DeliveryOK, WorkOK, CancelledIsVoid
<1> QED
    BY <1>2, <1>3, <1>4, <1>5 DEF CodesInv, CodesStep, NothingRevives

LEMMA WorkerSteps ==
    ASSUME CodesInv, NEW w \in Workers,
           \/ Work(w)
           \/ WorkerDies(w)
           \/ \E d \in Deliveries : Claim(w, d) \/ Reclaim(w, d)
    PROVE  CodesStep
<1>1. /\ delivery \in [Deliveries -> Delivery] /\ worker \in [Workers -> Worker]
      /\ events \in 0 .. MaxEvents
      /\ Happens => events' \in 0 .. MaxEvents
    BY CodesAssumption DEF CodesInv, CodesTypeOK, Happens
<1>2. \A d \in Deliveries : delivery[d].status = "cancelled" => ~Valid(d)
    BY DEF CodesInv, CancelledIsVoid
<1>3. \A v \in Workers : worker[v].pc # "idle" =>
          /\ worker[v].of \in Deliveries
          /\ Used(worker[v].of)
          /\ worker[v].pc = "cancelled" => ~Valid(worker[v].of)
    BY DEF CodesInv, WorkOK
<1>4. ASSUME NEW d \in Deliveries, Used(d), Lease(w, d), events' \in 0 .. MaxEvents
      PROVE  CodesStep
    <2>1. UNCHANGED codes
        BY <1>4 DEF Lease
    <2>2. /\ delivery' \in [Deliveries -> Delivery]
          /\ \A b \in Deliveries :
                /\ delivery'[b].of = delivery[b].of
                /\ Used(b) <=> delivery'[b].status # "unused"
                /\ delivery'[b].status = "cancelled" => delivery[b].status = "cancelled"
        BY <1>1, <1>4 DEF Lease, Used, Delivery
    <2>3. /\ worker' \in [Workers -> Worker]
          /\ \A v \in Workers : \/ worker'[v] = worker[v]
                                \/ /\ worker'[v].pc = "claimed"
                                   /\ worker'[v].of = d
        BY <1>1, <1>4 DEF Lease, Worker, Delivery
    <2>4. \A v \in Workers : worker'[v].pc # "idle" =>
              /\ worker'[v].of \in Deliveries
              /\ Used(worker'[v].of)
              /\ worker'[v].pc = "cancelled" => ~Valid(worker'[v].of)
        BY <1>3, <1>4, <2>3
    <2> QED
        BY <1>2, <1>4, <2>1, <2>2, <2>3, <2>4, WorkStep
<1>5. ASSUME NEW d \in Deliveries, Claim(w, d) \/ Reclaim(w, d) PROVE CodesStep
    <2>1. Used(d) /\ Lease(w, d) /\ events' \in 0 .. MaxEvents
        BY <1>1, <1>5 DEF Claim, Reclaim, Used
    <2> QED
        BY <1>4, <2>1
<1>6. ASSUME NEW to \in {"sending", "sent", "failed", "cancelled", "dead"},
             worker[w].pc # "idle", to = "cancelled" => ~Valid(worker[w].of),
             Go(w, to), UNCHANGED <<codes, delivery, events>>
      PROVE  CodesStep
    <2>1. /\ worker' \in [Workers -> Worker]
          /\ \A v \in Workers : \/ worker'[v] = worker[v]
                                \/ /\ worker'[v].pc = to
                                   /\ worker'[v].of = worker[w].of
        BY <1>1, <1>6 DEF Go, Worker
    <2>2. \A v \in Workers : worker'[v].pc # "idle" =>
              /\ worker'[v].of \in Deliveries
              /\ Used(worker'[v].of)
              /\ worker'[v].pc = "cancelled" => ~Valid(worker'[v].of)
        BY <1>3, <1>6, <2>1
    <2> QED
        BY <1>1, <1>2, <1>6, <2>1, <2>2, WorkStep DEF Used
<1>7. CASE Check(w)
    BY <1>6, <1>7 DEF Check
<1>8. CASE Send(w)
    BY <1>6, <1>8 DEF Send
<1>9. ASSUME UNCHANGED codes, worker' = [worker EXCEPT ![w] = Quiet],
             events' \in 0 .. MaxEvents, delivery' \in [Deliveries -> Delivery],
             \A d \in Deliveries :
                /\ delivery'[d].of = delivery[d].of
                /\ Used(d) <=> delivery'[d].status # "unused"
                /\ delivery'[d].status = "cancelled" => ~Valid(d)
      PROVE  CodesStep
    <2>1. /\ worker' \in [Workers -> Worker]
          /\ \A v \in Workers : worker'[v] = worker[v] \/ worker'[v].pc = "idle"
        BY <1>1, <1>9 DEF Quiet, Worker
    <2>2. \A v \in Workers : worker'[v].pc # "idle" =>
              /\ worker'[v].of \in Deliveries
              /\ Used(worker'[v].of)
              /\ worker'[v].pc = "cancelled" => ~Valid(worker'[v].of)
        BY <1>3, <2>1
    <2> QED
        BY <1>9, <2>1, <2>2, WorkStep
<1>10. ASSUME NEW status \in {"pending", "sent", "cancelled", "dead"},
              worker[w].pc # "idle", status = "cancelled" => ~Valid(worker[w].of),
              End(w, status)
       PROVE  CodesStep
    <2>1. PICK d \in Deliveries : d = worker[w].of /\ Used(d)
        BY <1>3, <1>10
    <2>2. delivery' \in {delivery, [delivery EXCEPT ![d] = Ended(@, status)]}
          /\ worker' = [worker EXCEPT ![w] = Quiet] /\ UNCHANGED <<codes, events>>
        BY <1>10, <2>1 DEF End
    <2>3. delivery[d] \in Delivery
        BY <1>1
    <2>4. /\ Ended(delivery[d], status) \in Delivery
          /\ Ended(delivery[d], status).of = delivery[d].of
          /\ Ended(delivery[d], status).status = status
        BY <2>3 DEF Ended, Delivery
    <2>5. PICK x \in Delivery : x = Ended(delivery[d], status)
        BY <2>4
    <2>6. delivery' \in {delivery, [delivery EXCEPT ![d] = x]}
        BY <2>2, <2>5
    <2>7. /\ delivery' \in [Deliveries -> Delivery]
          /\ \A b \in Deliveries :
                delivery'[b] = delivery[b] \/ (b = d /\ delivery'[b] = x)
        BY <1>1, <2>6
    <2>8. \A b \in Deliveries :
              /\ delivery'[b].of = delivery[b].of
              /\ Used(b) <=> delivery'[b].status # "unused"
              /\ delivery'[b].status = "cancelled" => ~Valid(b)
        BY <1>2, <1>10, <2>1, <2>4, <2>5, <2>7 DEF Used
    <2> QED
        BY <1>1, <1>9, <2>2, <2>7, <2>8
<1>11. CASE Finish(w)
    BY <1>3, <1>10, <1>11 DEF Finish
<1>12. CASE Fail(w)
    BY <1>10, <1>12 DEF Fail
<1>13. CASE WorkerDies(w)
    BY <1>1, <1>2, <1>9, <1>13 DEF WorkerDies, Used
<1> QED
    BY <1>5, <1>7, <1>8, <1>11, <1>12, <1>13 DEF Work

LEMMA CodesNextOK == CodesInv /\ [CodesNext]_codesVars => CodesStep
<1> SUFFICES ASSUME CodesInv, [CodesNext]_codesVars PROVE CodesStep
    OBVIOUS
<1>1. CASE UNCHANGED codesVars
    <2>1. UNCHANGED codes /\ UNCHANGED <<delivery, worker, events>>
        BY <1>1 DEF codesVars, codes
    <2>2. CodesTypeOK /\ DeliveryOK /\ WorkOK /\ CancelledIsVoid
        BY DEF CodesInv
    <2>3. \A d \in Deliveries : Used(d) <=> delivery'[d].status # "unused"
        BY <2>1 DEF Used
    <2> QED
        BY <2>1, <2>2, <2>3, WorkStep DEF CodesTypeOK, WorkOK, CancelledIsVoid
<1>2. CASE CodesNext
    BY <1>2, LookUpStep, CreateChallengeStep, ExpireStep, ResendSteps, LockStep,
       AnswerSteps, ChangeStep, WorkerSteps DEF CodesNext
<1> QED
    BY <1>1, <1>2

LEMMA CodesInvariance == CodesSpec => []CodesInv
BY CodesInitOK, CodesNextOK, PTL DEF CodesSpec, CodesStep

-------------------------------------------------------------------------------
(* The types of the model's state.                                         *)
THEOREM CodesTypeCorrect == CodesSpec => []CodesTypeOK
<1>1. CodesInv => CodesTypeOK
    BY DEF CodesInv
<1> QED
    BY <1>1, CodesInvariance, PTL

(* verifyOtp, resendOtp: the codes of a challenge share one budget of      *)
(* attempts, whoever answers or resends at the same time.                  *)
THEOREM CodesShareABudget == CodesSpec => []GuessesAreBounded
<1>1. ASSUME CodesInv PROVE GuessesAreBounded
    <2> SUFFICES ASSUME NEW c \in Challenges PROVE wrong[c] <= MAX_ATTEMPTS
        BY DEF GuessesAreBounded
    <2>1. /\ wrong[c] \in Nat /\ challenge[c].attempts \in Nat
          /\ wrong[c] + challenge[c].attempts <= MAX_ATTEMPTS
        BY <1>1 DEF CodesInv, CodesTypeOK, ChallengeOK, Challenge
    <2> QED
        BY <2>1, Attempts
<1> QED
    BY <1>1, CodesInvariance, PTL

(* The worker's check before it sends: a code it cancels could never be    *)
(* used again.                                                             *)
THEOREM OnlyVoidCodesAreCancelled == CodesSpec => []CancelledIsVoid
<1>1. CodesInv => CancelledIsVoid
    BY DEF CodesInv
<1> QED
    BY <1>1, CodesInvariance, PTL

(* verifyOtp, resendOtp: whatever resends, answers and changes of the       *)
(* account do, a code that was void stays void.                            *)
THEOREM VoidIsForever == CodesSpec => VoidCodesStayVoid
<1>1. CodesInv /\ [CodesNext]_codesVars =>
          [\A d \in Deliveries :
              delivery[d].status # "unused" /\ ~Valid(d) => ~Valid(d)']_codesVars
    BY CodesNextOK DEF CodesStep, NothingRevives, Used
<1> QED
    BY <1>1, CodesInvariance, PTL DEF CodesSpec, VoidCodesStayVoid

(* What a step that consumes a reset or spends its token has established.  *)
LEMMA ResetStep ==
    ASSUME CodesInv, CodesNext, NEW c \in Challenges,
           challenge[c].purpose = "password_reset",
           \/ challenge'[c].consumed # challenge[c].consumed
           \/ challenge'[c].grant # challenge[c].grant
    PROVE  c = newest /\ AccountIsCurrent(challenge[c].version)
<1>1. \A b \in Challenges :
          /\ challenge[b] \in Challenge
          /\ challenge[b].status # "open" =>
                ~challenge[b].consumed /\ challenge[b].grant = "none"
    BY DEF CodesInv, CodesTypeOK, ChallengeOK
<1>2. ASSUME NEW b \in Challenges, NEW x \in Challenge,
             challenge' = [challenge EXCEPT ![b] = x],
             x.consumed = challenge[b].consumed, x.grant = challenge[b].grant
      PROVE  FALSE
    <2>1. challenge'[c] = IF c = b THEN x ELSE challenge[c]
        BY <1>2, RowTyped
    <2> QED
        BY <1>2, <2>1
<1>3. ASSUME NEW b \in Challenges, NEW purpose \in Purposes, LookUpAccount(b, purpose)
      PROVE  FALSE
    <2> DEFINE x == [challenge[b] EXCEPT !.status = "asked", !.purpose = purpose,
                                         !.version = user.version]
    <2>1. user.version \in Nat
        BY DEF CodesInv, CodesTypeOK, User
    <2>2. /\ x \in Challenge /\ x.consumed = challenge[b].consumed
          /\ x.grant = challenge[b].grant
        BY <1>1, <2>1 DEF Challenge
    <2>3. challenge' = [challenge EXCEPT ![b] = x]
        BY <1>3 DEF LookUpAccount
    <2> HIDE DEF x
    <2> QED
        BY <1>2, <2>2, <2>3
<1>4. ASSUME NEW b \in Challenges, createAccountChallenge(b) PROVE FALSE
    <2>1. ~challenge[b].consumed /\ challenge[b].grant = "none"
        BY <1>1, <1>4 DEF createAccountChallenge
    <2>2. ASSUME NEW d \in Deliveries,
                 challenge' = [challenge EXCEPT ![b] =
                    [@ EXCEPT !.status = "open", !.code = d, !.attempts = MAX_ATTEMPTS]]
          PROVE  FALSE
        <3> DEFINE x == [challenge[b] EXCEPT !.status = "open", !.code = d,
                                             !.attempts = MAX_ATTEMPTS]
        <3>1. /\ x \in Challenge /\ x.consumed = challenge[b].consumed
              /\ x.grant = challenge[b].grant
            BY <1>1, Attempts DEF Challenge
        <3>2. challenge' = [challenge EXCEPT ![b] = x]
            BY <2>2
        <3> HIDE DEF x
        <3> QED
            BY <1>2, <3>1, <3>2
    <2>3. CASE challenge' = [challenge EXCEPT ![b] = [Unasked EXCEPT !.status = "refused"]]
        <3> DEFINE x == [Unasked EXCEPT !.status = "refused"]
        <3>1. /\ x \in Challenge /\ x.consumed = FALSE /\ x.grant = "none"
            BY Attempts DEF Challenge, Unasked
        <3>2. challenge[b].consumed = FALSE
            BY <1>1, <2>1 DEF Challenge
        <3>3. challenge' = [challenge EXCEPT ![b] = x]
            BY <2>3
        <3> HIDE DEF x
        <3> QED
            BY <1>2, <2>1, <3>1, <3>2, <3>3
    <2> QED
        BY <1>4, <2>2, <2>3 DEF createAccountChallenge
<1>5. ASSUME NEW b \in Challenges, Expire(b) PROVE FALSE
    <2> DEFINE x == [challenge[b] EXCEPT !.expired = TRUE]
    <2>1. /\ x \in Challenge /\ x.consumed = challenge[b].consumed
          /\ x.grant = challenge[b].grant
        BY <1>1 DEF Challenge
    <2>2. challenge' = [challenge EXCEPT ![b] = x]
        BY <1>5 DEF Expire
    <2> HIDE DEF x
    <2> QED
        BY <1>2, <2>1, <2>2
<1>6. ASSUME NEW n \in Resends, resendChallenge(n) PROVE FALSE
    <2>1. PICK b \in Challenges : b = resend[n].of
        BY <1>6 DEF resendChallenge, CodesInv, CodesTypeOK, Resend
    <2>2. PICK d \in Deliveries : challenge' = [challenge EXCEPT ![b].code = d]
        BY <1>6, <2>1 DEF resendChallenge
    <2> DEFINE x == [challenge[b] EXCEPT !.code = d]
    <2>3. /\ x \in Challenge /\ x.consumed = challenge[b].consumed
          /\ x.grant = challenge[b].grant
        BY <1>1 DEF Challenge
    <2>4. challenge' = [challenge EXCEPT ![b] = x]
        BY <2>2
    <2> HIDE DEF x
    <2> QED
        BY <1>2, <2>3, <2>4
<1>7. ASSUME NEW g \in Guesses, RejectCode(g) PROVE FALSE
    <2>1. PICK b \in Challenges : b = guess[g].of
        BY <1>7 DEF RejectCode, CodesInv, GuessOK
    <2> DEFINE x == [challenge[b] EXCEPT !.attempts = @ - 1]
    <2>2. challenge[b].attempts > 0
        BY <1>7, <2>1 DEF RejectCode, CodesInv, GuessOK
    <2>3. /\ x \in Challenge /\ x.consumed = challenge[b].consumed
          /\ x.grant = challenge[b].grant
        BY <1>1, <2>2, Attempts DEF Challenge
    <2>4. challenge' = [challenge EXCEPT ![b] = x]
        BY <1>7, <2>1 DEF RejectCode
    <2> HIDE DEF x
    <2> QED
        BY <1>2, <2>3, <2>4
<1>8. challenge' # challenge
    OBVIOUS
<1>9. ASSUME NEW w \in Workers, Work(w) \/ WorkerDies(w) PROVE FALSE
    BY <1>8, <1>9 DEF Work, Check, Send, Finish, Fail, End, WorkerDies, codes
<1>10. ASSUME NEW w \in Workers, NEW d \in Deliveries, Claim(w, d) \/ Reclaim(w, d)
       PROVE  FALSE
    BY <1>8, <1>10 DEF Claim, Reclaim, Lease, codes
<1>11. PICK g \in Guesses : AcceptCode(g) \/ resetByChallenge(g)
    BY <1>3, <1>4, <1>5, <1>6, <1>7, <1>8, <1>9, <1>10
       DEF CodesNext, ReadForResend, LockChallenge, Reject, ChangeAccount
<1>12. PICK b \in Challenges : b = guess[g].of
    BY <1>11 DEF AcceptCode, resetByChallenge, CodesInv, GuessOK
<1>13. Authorized(b) /\ challenge[b].status = "open"
    BY <1>11, <1>12 DEF AcceptCode, resetByChallenge, CodesInv, GuessOK
<1>14. PICK x : challenge' = [challenge EXCEPT ![b] = x]
    BY <1>11, <1>12 DEF AcceptCode, resetByChallenge
<1>15. c = b
    BY <1>14 DEF CodesInv, CodesTypeOK
<1>16. newest # Nil /\ user.current = newest
    BY <1>13, <1>15 DEF CodesInv, ChallengeOK
<1> QED
    BY <1>13, <1>15, <1>16 DEF Authorized

(* resetPassword, verifyResetOtp: a reset is honoured for the last request *)
(* only, and for the account as it was when the request was made.          *)
THEOREM OnlyTheLastResetCounts == CodesSpec => ResetsFollowTheLastRequest
<1>1. CodesInv /\ [CodesNext]_codesVars =>
          [\A c \in Challenges :
              /\ challenge[c].purpose = "password_reset"
              /\ \/ challenge'[c].consumed # challenge[c].consumed
                 \/ challenge'[c].grant # challenge[c].grant
              => c = newest /\ AccountIsCurrent(challenge[c].version)]_codesVars
    BY ResetStep
<1> QED
    BY <1>1, CodesInvariance, PTL DEF CodesSpec, ResetsFollowTheLastRequest

-------------------------------------------------------------------------------
(***************************************************************************)
(* ConfigCache, for every set of keys and readers and any number of        *)
(* writes.                                                                 *)
(*                                                                         *)
(* A version of a row never outlives the global version it was committed   *)
(* with: while the global version stands still no row changes.  A stamp    *)
(* equal to the current version, wherever it is held - in Redis, by a      *)
(* reader that checks an entry, by one about to store - therefore goes     *)
(* with the current row.  That is the inductive invariant.                 *)
(***************************************************************************)
(* A stamp is no later than the global version, and a version it          *)
(* certifies is the row's.                                                 *)
Certifies(version, stamp, k) ==
    /\ stamp <= global
    /\ stamp = global => version = row[k]

EntryOK == \A k \in Keys : entry[k] # Absent =>
    Certifies(entry[k].version, entry[k].stamp, k)

(* What a call holds: an entry it checks, a version it read before the     *)
(* value, a value no older than the call's beginning.                      *)
CallOK(c) ==
    /\ c.pc = "check" => c.seen # Absent
    /\ c.seen # Absent => Certifies(c.seen.version, c.seen.stamp, c.key)
    /\ c.pc \in {"after", "store"} => c.before # Absent
    /\ c.pc \in {"after", "store", "done"} => c.version # Absent
    /\ c.before # Absent => c.before <= global
    /\ c.before # Absent /\ c.version # Absent => Certifies(c.version, c.before, c.key)
    /\ c.asked <= row[c.key]
    /\ c.version # Absent => c.asked <= c.version

ReaderOK == \A r \in Readers : reader[r] # Absent => CallOK(reader[r])

(* A seen entry is at least as new as the call when it is fresh, since     *)
(* then it is the row.                                                     *)
CacheInv == CacheTypeOK /\ EntryOK /\ ReaderOK

USE CacheAssumption, AbsentIsNoEntry

-------------------------------------------------------------------------------
LEMMA CacheInitOK == CacheInit => CacheInv
<1> SUFFICES ASSUME CacheInit PROVE CacheInv
    OBVIOUS
<1>1. CacheTypeOK
    BY DEF CacheInit, CacheTypeOK
<1>2. EntryOK /\ ReaderOK
    BY DEF CacheInit, EntryOK, ReaderOK
<1> QED
    BY <1>1, <1>2 DEF CacheInv

(* A step of one call that leaves the tables alone: its new state is all   *)
(* there is to look at.                                                    *)
LEMMA CallStep ==
    ASSUME CacheInv, NEW r \in Readers, NEW x \in Call \cup {Absent},
           x # Absent => CallOK(x),
           reader' = [reader EXCEPT ![r] = x],
           UNCHANGED <<row, global, entry, evict, writes>>,
           faults' \in 0..MaxFaults
    PROVE  CacheInv'
<1>1. CacheTypeOK'
    BY DEF CacheInv, CacheTypeOK
<1>2. EntryOK'
    BY DEF CacheInv, EntryOK, Certifies
<1>3. ReaderOK'
    <2> SUFFICES ASSUME NEW q \in Readers, reader'[q] # Absent
                 PROVE  CallOK(reader[q])'
        BY DEF ReaderOK
    <2>1. PICK c : c = reader'[q]
        OBVIOUS
    <2>2. c = IF q = r THEN x ELSE reader[q]
        BY <2>1 DEF CacheInv, CacheTypeOK
    <2>3. CallOK(c)
        BY <2>1, <2>2 DEF CacheInv, ReaderOK
    <2> QED
        BY <2>1, <2>3 DEF CallOK, Certifies
<1> QED
    BY <1>1, <1>2, <1>3 DEF CacheInv

(* What Go builds is a call of the same key and beginning.                 *)
LEMMA GoStep ==
    ASSUME CacheInv, NEW r \in Readers, reader[r] # Absent,
           NEW pc \in Steps, NEW seen \in Entry \cup {Absent},
           NEW before \in Nat \cup {Absent}, NEW version \in Nat \cup {Absent},
           pc = "check" => seen # Absent,
           seen # Absent => Certifies(seen.version, seen.stamp, reader[r].key),
           pc \in {"after", "store"} => before # Absent,
           pc \in {"after", "store", "done"} => version # Absent,
           before # Absent => before <= global,
           before # Absent /\ version # Absent => Certifies(version, before, reader[r].key),
           version # Absent => reader[r].asked <= version,
           GoTo(r, pc, seen, before, version),
           UNCHANGED <<row, global, entry, evict, writes>>,
           faults' \in 0..MaxFaults
    PROVE  CacheInv'
<1> DEFINE c == reader[r]
           x == [pc |-> pc, key |-> c.key, peek |-> c.peek, asked |-> c.asked,
                 seen |-> seen, before |-> before, version |-> version]
<1>1. c \in Call /\ c.asked <= row[c.key]
    BY DEF CacheInv, CacheTypeOK, ReaderOK, CallOK
<1>2. x \in Call
    BY <1>1 DEF Call
<1>3. CallOK(x)
    BY <1>1 DEF CallOK
<1>4. reader' = [reader EXCEPT ![r] = x]
    BY DEF GoTo
<1> HIDE DEF x
<1> QED
    BY <1>2, <1>3, <1>4, CallStep

LEMMA EndStep ==
    ASSUME CacheInv, NEW r \in Readers, EndCall(r),
           UNCHANGED <<row, global, entry, evict, writes>>,
           faults' \in 0..MaxFaults
    PROVE  CacheInv'
<1>1. reader' = [reader EXCEPT ![r] = Absent]
    BY DEF EndCall
<1> QED
    BY <1>1, CallStep

LEMMA MissStep ==
    ASSUME CacheInv, NEW r \in Readers, reader[r] # Absent, Miss(r),
           UNCHANGED <<row, global, entry, evict, writes>>,
           faults' \in 0..MaxFaults
    PROVE  CacheInv'
<1>1. CASE reader[r].peek
    BY <1>1, EndStep DEF Miss
<1>2. CASE ~reader[r].peek
    <2>1. GoTo(r, "before", Absent, Absent, Absent)
        BY <1>2 DEF Miss
    <2>2. "before" \in Steps
        BY DEF Steps
    <2> QED
        BY <2>1, <2>2, GoStep
<1> QED
    BY <1>1, <1>2

-------------------------------------------------------------------------------
LEMMA ReaderSteps ==
    ASSUME CacheInv, NEW r \in Readers, ReaderStep(r)
    PROVE  CacheInv'
<1> DEFINE c == reader[r]
<1>0. /\ faults \in 0..MaxFaults
      /\ global \in Nat
      /\ \A k \in Keys : row[k] \in Nat /\ entry[k] \in Entry \cup {Absent}
      /\ c # Absent => c \in Call /\ CallOK(c)
      /\ Fault => faults' \in 0..MaxFaults
    BY DEF CacheInv, CacheTypeOK, ReaderOK, Fault
<1>s. /\ "lookup" \in Steps /\ "check" \in Steps /\ "before" \in Steps
      /\ "value" \in Steps /\ "after" \in Steps /\ "store" \in Steps /\ "done" \in Steps
    BY DEF Steps
<1>1. ASSUME NEW k \in Keys, NEW peek \in BOOLEAN, Start(r, k, peek) PROVE CacheInv'
    <2> DEFINE x == [pc |-> "lookup", key |-> k, peek |-> peek, asked |-> row[k],
                     seen |-> Absent, before |-> Absent, version |-> Absent]
    <2>1. x \in Call /\ CallOK(x)
        BY <1>0, <1>s DEF Call, CallOK
    <2>2. reader' = [reader EXCEPT ![r] = x]
        BY <1>1 DEF Start, Begin
    <2> HIDE DEF x
    <2> QED
        BY <1>0, <1>1, <2>1, <2>2, CallStep DEF Start
<1>2. CASE Lookup(r)
    <2> DEFINE e == entry[c.key]
    <2>1. c # Absent /\ c.key \in Keys
        BY <1>0, <1>2 DEF Lookup, At, Call
    <2>2. CASE e = Absent
        BY <1>0, <1>2, <2>1, <2>2, MissStep DEF Lookup
    <2>3. CASE e # Absent
        <3>1. GoTo(r, "check", e, Absent, Absent)
            BY <1>2, <2>3 DEF Lookup
        <3>2. e \in Entry /\ Certifies(e.version, e.stamp, c.key)
            BY <1>0, <2>1, <2>3 DEF CacheInv, EntryOK
        <3> HIDE DEF e
        <3> QED
            BY <1>0, <1>s, <1>2, <2>1, <2>3, <3>1, <3>2, GoStep DEF Lookup
    <2> QED
        BY <2>2, <2>3
<1>3. CASE CheckEntry(r)
    <2> DEFINE e == c.seen
    <2>1. c # Absent /\ c.pc = "check"
        BY <1>3 DEF CheckEntry, At
    <2>2. e \in Entry /\ Certifies(e.version, e.stamp, c.key) /\ c.asked <= row[c.key]
        BY <1>0, <2>1 DEF CallOK, Call
    <2>3. CASE isFreshEntry(e)
        <3>1. e.version \in Nat /\ e.version = row[c.key]
            BY <2>2, <2>3 DEF isFreshEntry, Certifies, Entry
        <3>2. PICK v \in Nat : v = e.version
            BY <3>1
        <3>3. GoTo(r, "done", Absent, Absent, v)
            BY <1>3, <2>3, <3>2 DEF CheckEntry, Answer
        <3>4. c.asked <= v
            BY <2>2, <3>1, <3>2
        <3>5. UNCHANGED <<row, global, entry, evict, writes, faults>>
            BY <1>3 DEF CheckEntry
        <3> QED
            BY <1>0, <1>s, <2>1, <3>3, <3>4, <3>5, GoStep
    <2>4. CASE ~isFreshEntry(e)
        BY <1>0, <1>3, <2>1, <2>4, MissStep DEF CheckEntry
    <2> QED
        BY <2>3, <2>4
<1>4. CASE FetchVersionBefore(r)
    <2>1. PICK g \in Nat : g = global
        BY <1>0
    <2>2. GoTo(r, "value", Absent, g, Absent) /\ c # Absent
        BY <1>4, <2>1 DEF FetchVersionBefore, At
    <2>3. UNCHANGED <<row, global, entry, evict, writes, faults>>
        BY <1>4 DEF FetchVersionBefore
    <2>4. g <= global /\ g # Absent /\ faults' \in 0..MaxFaults
        BY <1>0, <2>1, <2>3
    <2> HIDE DEF c
    <2> QED
        BY <1>s, <2>2, <2>3, <2>4, GoStep DEF c
<1>5. CASE FetchValue(r)
    <2> DEFINE w == row[c.key]
    <2>1. /\ c # Absent /\ c \in Call /\ c.key \in Keys /\ CallOK(c)
          /\ c.before \in Nat \cup {Absent}
        BY <1>0, <1>5 DEF FetchValue, At, Call
    <2>2. w \in Nat /\ c.asked <= w /\ (c.before # Absent => Certifies(w, c.before, c.key))
        BY <1>0, <2>1 DEF CallOK, Certifies
    <2>3. CASE w = 0 \/ c.before = Absent
        <3>1. GoTo(r, "done", Absent, Absent, w)
            BY <1>5, <2>3 DEF FetchValue, Answer
        <3> HIDE DEF w
        <3> QED
            BY <1>0, <1>s, <1>5, <2>1, <2>2, <3>1, GoStep DEF FetchValue
    <2>4. CASE ~(w = 0 \/ c.before = Absent)
        <3>1. GoTo(r, "after", Absent, c.before, w)
            BY <1>5, <2>4 DEF FetchValue
        <3>2. c.before # Absent /\ c.before <= global
            BY <2>1, <2>4 DEF CallOK
        <3> HIDE DEF w
        <3> QED
            BY <1>0, <1>s, <1>5, <2>1, <2>2, <3>1, <3>2, GoStep DEF FetchValue
    <2> QED
        BY <2>3, <2>4
<1>6. CASE FetchVersionAfter(r)
    <2>1. /\ c # Absent /\ c.before # Absent /\ c.version \in Nat /\ c.asked <= c.version
          /\ Certifies(c.version, c.before, c.key)
        BY <1>0, <1>6 DEF FetchVersionAfter, At, CallOK, Call
    <2>2. PICK v \in Nat, g \in Nat : v = c.version /\ g = global
        BY <1>0, <2>1
    <2>3. UNCHANGED <<row, global, entry, evict, writes, faults>>
        BY <1>6 DEF FetchVersionAfter
    <2>4. CASE Certified(c.before)
        <3>1. GoTo(r, "store", Absent, g, v)
            BY <1>6, <2>2, <2>4 DEF FetchVersionAfter
        <3>2. Certifies(v, g, c.key)
            BY <1>0, <2>1, <2>2, <2>4 DEF Certified
        <3> QED
            BY <1>0, <1>s, <2>1, <2>2, <2>3, <3>1, <3>2, GoStep
    <2>5. CASE ~Certified(c.before)
        <3>1. GoTo(r, "done", Absent, Absent, v)
            BY <1>6, <2>2, <2>5 DEF FetchVersionAfter, Answer
        <3>2. c # Absent /\ c.asked <= v /\ faults' \in 0..MaxFaults
            BY <1>0, <2>1, <2>2, <2>3
        <3> HIDE DEF c
        <3> QED
            BY <1>s, <2>3, <3>1, <3>2, GoStep DEF c
    <2> QED
        BY <2>4, <2>5
<1>7. CASE Store(r)
    <2>1. /\ c # Absent /\ c \in Call /\ c.key \in Keys
          /\ c.before \in Nat /\ c.version \in Nat /\ c.asked <= c.version
          /\ Certifies(c.version, c.before, c.key)
        BY <1>0, <1>7 DEF Store, At, CallOK, Call
    <2>2. entry' = [entry EXCEPT ![c.key] = [version |-> c.version, stamp |-> c.before]]
        BY <1>7 DEF Store
    <2>3. [version |-> c.version, stamp |-> c.before] \in Entry
        BY <2>1 DEF Entry
    <2> DEFINE x == [pc |-> "done", key |-> c.key, peek |-> c.peek, asked |-> c.asked,
                     seen |-> Absent, before |-> Absent, version |-> c.version]
    <2>4. x \in Call /\ CallOK(x)
        BY <1>0, <1>s, <2>1 DEF Call, CallOK
    <2>5. reader' = [reader EXCEPT ![r] = x]
        BY <1>7 DEF Store, Answer, GoTo
    <2> HIDE DEF x
    <2>6. CacheTypeOK'
        BY <1>7, <2>2, <2>3, <2>4, <2>5 DEF Store, CacheInv, CacheTypeOK
    <2>7. EntryOK'
        <3> SUFFICES ASSUME NEW k \in Keys, entry'[k] # Absent
                     PROVE  Certifies(entry[k].version, entry[k].stamp, k)'
            BY DEF EntryOK
        <3>1. PICK e : e = entry'[k]
            OBVIOUS
        <3>2. e = IF k = c.key THEN [version |-> c.version, stamp |-> c.before]
                  ELSE entry[k]
            BY <2>2, <3>1 DEF CacheInv, CacheTypeOK
        <3>3. Certifies(e.version, e.stamp, k)
            BY <2>1, <3>1, <3>2 DEF CacheInv, EntryOK
        <3> QED
            BY <1>7, <3>1, <3>3 DEF Store, Certifies
    <2>8. ReaderOK'
        <3> SUFFICES ASSUME NEW q \in Readers, reader'[q] # Absent
                     PROVE  CallOK(reader[q])'
            BY DEF ReaderOK
        <3>1. PICK d : d = reader'[q]
            OBVIOUS
        <3>2. d = IF q = r THEN x ELSE reader[q]
            BY <2>5, <3>1 DEF CacheInv, CacheTypeOK
        <3>3. CallOK(d)
            BY <2>4, <3>1, <3>2 DEF CacheInv, ReaderOK
        <3> QED
            BY <1>7, <3>1, <3>3 DEF Store, CallOK, Certifies
    <2> QED
        BY <2>6, <2>7, <2>8 DEF CacheInv
<1>8. CASE FinishCall(r)
    BY <1>0, <1>8, EndStep DEF FinishCall
<1>9. CASE FailCall(r)
    <2>1. faults' \in 0..MaxFaults /\ UNCHANGED <<row, global, entry, evict, writes>>
        BY <1>0, <1>9 DEF FailCall
    <2>2. CASE (At(r, "lookup") \/ At(r, "check")) /\ Miss(r)
        BY <2>1, <2>2, MissStep DEF At
    <2>3. CASE At(r, "before") /\ GoTo(r, "value", Absent, Absent, Absent)
        BY <1>s, <2>1, <2>3, GoStep DEF At
    <2>4. CASE (At(r, "after") \/ At(r, "store")) /\ Answer(r, c.version)
        <3>1. c # Absent /\ c.version \in Nat /\ c.asked <= c.version
            BY <1>0, <2>4 DEF At, CallOK, Call
        <3>2. GoTo(r, "done", Absent, Absent, c.version)
            BY <2>4 DEF Answer
        <3> QED
            BY <1>s, <2>1, <3>1, <3>2, GoStep
    <2> QED
        BY <1>9, <2>2, <2>3, <2>4 DEF FailCall
<1> QED
    BY <1>1, <1>2, <1>3, <1>4, <1>5, <1>6, <1>7, <1>8, <1>9 DEF ReaderStep

(* A write certifies nothing any more: every stamp is now in the past.     *)
LEMMA WriteStep ==
    ASSUME CacheInv, NEW k \in Keys, NEW evicts \in BOOLEAN, Write(k, evicts)
    PROVE  CacheInv'
<1>1. CacheTypeOK'
    BY DEF Write, CacheInv, CacheTypeOK
<1>2. /\ global \in Nat /\ global' = global + 1
      /\ \A j \in Keys : row[j] \in Nat /\ row'[j] \in Nat /\ row[j] <= row'[j]
    BY DEF Write, CacheInv, CacheTypeOK
<1>3. ASSUME NEW version, NEW stamp \in Nat, NEW j \in Keys, Certifies(version, stamp, j)
      PROVE  Certifies(version, stamp, j)'
    BY <1>2, <1>3 DEF Certifies
<1>4. EntryOK'
    BY <1>3 DEF Write, CacheInv, CacheTypeOK, EntryOK, Entry
<1>5. ReaderOK'
    <2> SUFFICES ASSUME NEW q \in Readers, reader[q] # Absent
                 PROVE  CallOK(reader[q])'
        BY DEF ReaderOK, Write
    <2> DEFINE c == reader[q]
    <2>1. c \in Call /\ CallOK(c)
        BY DEF CacheInv, CacheTypeOK, ReaderOK
    <2>2. /\ c.key \in Keys /\ c.asked \in Nat
          /\ c.before # Absent => c.before \in Nat
          /\ c.seen # Absent => c.seen.stamp \in Nat
          /\ reader' = reader
        BY <2>1 DEF Call, Entry, Write
    <2>3. c.asked <= row'[c.key]
        BY <1>2, <2>1, <2>2 DEF CallOK
    <2>4. c.seen # Absent => Certifies(c.seen.version, c.seen.stamp, c.key)'
        BY <1>3, <2>1, <2>2 DEF CallOK
    <2>5. c.before # Absent /\ c.version # Absent => Certifies(c.version, c.before, c.key)'
        BY <1>3, <2>1, <2>2 DEF CallOK
    <2>6. c.before # Absent => c.before <= global'
        BY <1>2, <2>1, <2>2 DEF CallOK
    <2> QED
        BY <2>1, <2>2, <2>3, <2>4, <2>5, <2>6 DEF CallOK
<1> QED
    BY <1>1, <1>4, <1>5 DEF CacheInv

LEMMA EntrySteps ==
    ASSUME CacheInv, NEW k \in Keys, Evict(k) \/ ExpireEntry(k)
    PROVE  CacheInv'
<1>1. /\ entry' \in {entry, [entry EXCEPT ![k] = Absent]}
      /\ UNCHANGED <<row, global, reader, writes>>
      /\ evict' \subseteq evict
      /\ faults' \in 0..MaxFaults
    BY DEF Evict, ExpireEntry, Fault, CacheInv, CacheTypeOK
<1>2. CacheTypeOK'
    BY <1>1 DEF CacheInv, CacheTypeOK
<1>3. EntryOK'
    BY <1>1 DEF CacheInv, CacheTypeOK, EntryOK, Certifies
<1>4. ReaderOK'
    BY <1>1 DEF CacheInv, ReaderOK, CallOK, Certifies
<1> QED
    BY <1>2, <1>3, <1>4 DEF CacheInv

LEMMA CacheNextOK == CacheInv /\ [CacheNext]_cacheVars => CacheInv'
<1> SUFFICES ASSUME CacheInv, [CacheNext]_cacheVars PROVE CacheInv'
    OBVIOUS
<1>1. CASE UNCHANGED cacheVars
    <2>1. CacheTypeOK'
        BY <1>1 DEF cacheVars, CacheInv, CacheTypeOK
    <2>2. EntryOK'
        BY <1>1 DEF cacheVars, CacheInv, EntryOK, Certifies
    <2>3. ReaderOK'
        BY <1>1 DEF cacheVars, CacheInv, ReaderOK, CallOK, Certifies
    <2> QED
        BY <2>1, <2>2, <2>3 DEF CacheInv
<1>2. CASE CacheNext
    BY <1>2, ReaderSteps, WriteStep, EntrySteps DEF CacheNext
<1> QED
    BY <1>1, <1>2

LEMMA CacheInvariance == CacheSpec => []CacheInv
BY CacheInitOK, CacheNextOK, PTL DEF CacheSpec

-------------------------------------------------------------------------------
(* The types of the model's state.                                         *)
THEOREM CacheTypeCorrect == CacheSpec => []CacheTypeOK
<1>1. CacheInv => CacheTypeOK
    BY DEF CacheInv
<1> QED
    BY <1>1, CacheInvariance, PTL

(* getWithVersion: whatever was stored late or never evicted, an entry     *)
(* that would be accepted is the row.                                      *)
THEOREM FreshEntriesAreCurrent == CacheSpec => []FreshEntryIsCurrent
<1>1. CacheInv => FreshEntryIsCurrent
    BY DEF CacheInv, EntryOK, Certifies, FreshEntryIsCurrent
<1> QED
    BY <1>1, CacheInvariance, PTL

(* get: no call answers with a value older than its beginning.             *)
THEOREM AnswersAreNotStale == CacheSpec => []NoStaleAnswer
<1>1. ASSUME CacheInv PROVE NoStaleAnswer
    <2> SUFFICES ASSUME NEW r \in Readers, At(r, "done")
                 PROVE  reader[r].version >= reader[r].asked
        BY DEF NoStaleAnswer
    <2>1. reader[r] \in Call /\ CallOK(reader[r]) /\ reader[r].pc = "done"
        BY <1>1 DEF At, CacheInv, CacheTypeOK, ReaderOK
    <2>2. /\ reader[r].version \in Nat /\ reader[r].asked \in Nat
          /\ reader[r].asked <= reader[r].version
        BY <2>1 DEF CallOK, Call
    <2> QED
        BY <2>2
<1> QED
    BY <1>1, CacheInvariance, PTL

-------------------------------------------------------------------------------
(***************************************************************************)
(* Sessions, for any number of sessions, tokens, logins and refreshes and  *)
(* any lifetimes and cap.                                                  *)
(*                                                                         *)
(* The invariant is in parts, one for each table: what a pending login     *)
(* knows of the account (LoginOK), how the sessions of a family hang       *)
(* together (FamilyOK), and what the tokens say of their sessions          *)
(* (TokenOK).                                                              *)
(***************************************************************************)
(* A login whose version is still the account's has the account's          *)
(* password, and saw no demand for a new one.                              *)
LoginOK == \A l \in Logins : login[l] # None =>
    /\ login[l].version <= account.version
    /\ login[l].version = account.version =>
          /\ login[l].password = account.password
          /\ login[l].step # "mustChange" => ~account.mustChange

(* A family is named by a session of its own, whose expiry all share; one  *)
(* of its sessions at most is not revoked.                                 *)
FamilyOK ==
    /\ \A s \in Sids : session[s] # None =>
          /\ session[session[s].family] # None
          /\ session[session[s].family].created + AbsoluteTimeout = session[s].expires
    /\ \A s, r \in Sids :
          /\ session[s] # None /\ ~session[s].revoked
          /\ session[r] # None /\ ~session[r].revoked
          /\ session[s].family = session[r].family
          => s = r

TokenOK ==
    /\ \A t \in Toks : token[t] # None =>
          /\ session[token[t].session] # None
          /\ session[token[t].session].family = token[t].family
    /\ \A t, u \in Toks :
          /\ token[t] # None /\ ~token[t].consumed
          /\ token[u] # None /\ ~token[u].consumed
          /\ token[t].session = token[u].session
          => t = u
    /\ \A r \in Refreshers : refresh[r] # None => token[refresh[r]] # None

ReusedOK == \A f \in reused : session[f] # None

SessionInv == /\ TypeOK /\ LoginOK /\ SessionsAreCurrent
        /\ FamilyOK /\ TokenOK /\ ReusedOK /\ ReplayedFamilyIsDead /\ SessionCap

USE SessionsAssumption, NoneIsNoValue

-------------------------------------------------------------------------------
(* What no statement changes of a row, and the revocation none takes back. *)
SameRow(x, y) ==
    /\ y.family = x.family
    /\ y.created = x.created
    /\ y.expires = x.expires
    /\ y.password = x.password
    /\ x.revoked => y.revoked

(* Row y of sessions stands where x stood, or none where none did.         *)
KeptRow(x, y) == IF x = None THEN y = None ELSE y # None /\ SameRow(x, y)

KeptToken(x, y) ==
    IF x = None THEN y = None
    ELSE /\ y # None
         /\ y.family = x.family
         /\ y.session = x.session
         /\ x.consumed => y.consumed

SessionsKept == \A s \in Sids : KeptRow(session[s], session'[s])
TokensKept == \A t \in Toks : KeptToken(token[t], token'[t])

LEMMA RevokedRow ==
    ASSUME NEW x \in Session
    PROVE  /\ Revoked(x) \in Session /\ Revoked(x) # None
           /\ Revoked(x).revoked = TRUE /\ Revoked(x).idle = x.idle
           /\ SameRow(x, Revoked(x))
<1>1. Revoked(x) \in Session
    BY DEF Revoked, Session
<1>2. Revoked(x).revoked = TRUE /\ Revoked(x).idle = x.idle /\ SameRow(x, Revoked(x))
    BY DEF Revoked, SameRow
<1> QED
    BY <1>1, <1>2

LEMMA ConsumedRow ==
    ASSUME NEW x \in Token
    PROVE  /\ Consumed(x) \in Token /\ Consumed(x) # None
           /\ Consumed(x).consumed = TRUE /\ KeptToken(x, Consumed(x))
<1>1. Consumed(x) \in Token
    BY DEF Consumed, Token
<1>2. Consumed(x).consumed = TRUE
    BY DEF Consumed
<1>3. Consumed(x).family = x.family /\ Consumed(x).session = x.session
    BY DEF Consumed
<1> QED
    BY <1>1, <1>2, <1>3 DEF KeptToken

LEMMA TouchedRow ==
    ASSUME NEW x \in Session, clock \in Nat
    PROVE  /\ Touched(x) \in Session /\ Touched(x) # None
           /\ SameRow(x, Touched(x)) /\ Touched(x).revoked = x.revoked
<1>1. Touched(x) \in Session
    BY DEF Touched, Session, Earlier
<1>2. SameRow(x, Touched(x)) /\ Touched(x).revoked = x.revoked
    BY DEF Touched, SameRow
<1> QED
    BY <1>1, <1>2

(* Revoke and Consume keep every row and end the ones they name.           *)
LEMMA RevokeRows ==
    ASSUME TypeOK, NEW S
    PROVE  /\ Revoke(S) \in [Sids -> Session \cup {None}]
           /\ \A s \in Sids :
                 /\ KeptRow(session[s], Revoke(S)[s])
                 /\ s \in S /\ session[s] # None => Revoke(S)[s].revoked
                 /\ s \notin S => Revoke(S)[s] = session[s]
                 /\ session[s] # None => Revoke(S)[s].idle = session[s].idle
<1>1. ASSUME NEW s \in Sids
      PROVE  /\ Revoke(S)[s] \in Session \cup {None}
             /\ KeptRow(session[s], Revoke(S)[s])
             /\ s \in S /\ session[s] # None => Revoke(S)[s].revoked
             /\ s \notin S => Revoke(S)[s] = session[s]
             /\ session[s] # None => Revoke(S)[s].idle = session[s].idle
    <2>1. session[s] \in Session \cup {None}
        BY DEF TypeOK
    <2>2. Revoke(S)[s] = IF s \in S /\ session[s] # None THEN Revoked(session[s])
                         ELSE session[s]
        BY DEF Revoke
    <2>3. CASE s \in S /\ session[s] # None
        <3>1. session[s] \in Session /\ Revoke(S)[s] = Revoked(session[s])
            BY <2>1, <2>2, <2>3
        <3> QED
            BY <2>3, <3>1, RevokedRow DEF KeptRow
    <2>4. CASE ~(s \in S /\ session[s] # None)
        <3>1. Revoke(S)[s] = session[s]
            BY <2>2, <2>4
        <3> QED
            BY <2>1, <2>4, <3>1 DEF KeptRow, SameRow
    <2> QED
        BY <2>3, <2>4
<1>2. Revoke(S) \in [Sids -> Session \cup {None}]
    <2>1. Revoke(S) = [s \in Sids |-> Revoke(S)[s]]
        BY DEF Revoke
    <2> QED
        BY <1>1, <2>1
<1> QED
    BY <1>1, <1>2

LEMMA ConsumeRows ==
    ASSUME TypeOK, NEW T
    PROVE  /\ Consume(T) \in [Toks -> Token \cup {None}]
           /\ \A t \in Toks :
                 /\ KeptToken(token[t], Consume(T)[t])
                 /\ t \in T /\ token[t] # None => Consume(T)[t].consumed
                 /\ t \notin T => Consume(T)[t] = token[t]
<1>1. ASSUME NEW t \in Toks
      PROVE  /\ Consume(T)[t] \in Token \cup {None}
             /\ KeptToken(token[t], Consume(T)[t])
             /\ t \in T /\ token[t] # None => Consume(T)[t].consumed
             /\ t \notin T => Consume(T)[t] = token[t]
    <2>1. token[t] \in Token \cup {None}
        BY DEF TypeOK
    <2>2. Consume(T)[t] = IF t \in T /\ token[t] # None THEN Consumed(token[t])
                          ELSE token[t]
        BY DEF Consume
    <2>3. CASE t \in T /\ token[t] # None
        <3>1. token[t] \in Token /\ Consume(T)[t] = Consumed(token[t])
            BY <2>1, <2>2, <2>3
        <3> QED
            BY <2>3, <3>1, ConsumedRow
    <2>4. CASE ~(t \in T /\ token[t] # None)
        <3>1. Consume(T)[t] = token[t]
            BY <2>2, <2>4
        <3> QED
            BY <2>1, <2>4, <3>1 DEF KeptToken
    <2> QED
        BY <2>3, <2>4
<1>2. Consume(T) \in [Toks -> Token \cup {None}]
    <2>1. Consume(T) = [t \in Toks |-> Consume(T)[t]]
        BY DEF Consume
    <2> QED
        BY <1>1, <2>1
<1> QED
    BY <1>1, <1>2

(* An id for a new row is not in use.                                      *)
LEMMA FreshIds ==
    ASSUME NEW ids, NEW rows, NEW x \in Fresh(ids, rows)
    PROVE  x \in ids /\ rows[x] = None
BY DEF Fresh

-------------------------------------------------------------------------------
(* Steps that insert no row keep each part of the invariant.               *)
LEMMA FamilyKept == ASSUME SessionInv, TypeOK', SessionsKept PROVE FamilyOK'
<1>1. \A s \in Sids : session'[s] # None =>
          /\ session[s] # None
          /\ session[s] \in Session
          /\ SameRow(session[s], session'[s])
    BY DEF SessionInv, TypeOK, SessionsKept, KeptRow
<1>2. \A s \in Sids : session'[s] # None => session'[s] \in Session
    BY DEF TypeOK
<1>3. ASSUME NEW s \in Sids, session'[s] # None
      PROVE  /\ session'[session'[s].family] # None
             /\ session'[session'[s].family].created + AbsoluteTimeout = session'[s].expires
    <2>1. PICK f \in Sids : f = session[s].family
        BY <1>1, <1>3 DEF Session
    <2>2. session[f] # None /\ session[f].created + AbsoluteTimeout = session[s].expires
        BY <1>1, <1>3, <2>1 DEF SessionInv, FamilyOK
    <2>3. session'[f] # None /\ session'[f].created = session[f].created
        BY <2>1, <2>2 DEF SessionsKept, KeptRow, SameRow
    <2>4. session'[s].family = f /\ session'[s].expires = session[s].expires
        BY <1>1, <1>3, <2>1 DEF SameRow
    <2> QED
        BY <2>2, <2>3, <2>4
<1>4. ASSUME NEW s \in Sids, NEW r \in Sids,
             session'[s] # None, ~session'[s].revoked,
             session'[r] # None, ~session'[r].revoked,
             session'[s].family = session'[r].family
      PROVE  s = r
    BY <1>1, <1>4 DEF SameRow, SessionInv, FamilyOK
<1> QED
    BY <1>3, <1>4 DEF FamilyOK

(* The tokens hang on their sessions.                                      *)
LEMMA TokenKept ==
    ASSUME SessionInv, TypeOK', SessionsKept, TokensKept,
           \A r \in Refreshers : refresh'[r] # None => token[refresh'[r]] # None
    PROVE  TokenOK'
<1>1. \A t \in Toks : token'[t] # None =>
          /\ token[t] # None /\ token[t] \in Token
          /\ token'[t].family = token[t].family
          /\ token'[t].session = token[t].session
          /\ token[t].consumed => token'[t].consumed
    BY DEF SessionInv, TypeOK, TokensKept, KeptToken
<1>2. ASSUME NEW t \in Toks, token'[t] # None
      PROVE  /\ session'[token'[t].session] # None
             /\ session'[token'[t].session].family = token'[t].family
    <2>1. PICK s \in Sids : s = token[t].session
        BY <1>1, <1>2 DEF Token
    <2>2. session[s] # None /\ session[s].family = token[t].family
        BY <1>1, <1>2, <2>1 DEF SessionInv, TokenOK
    <2>3. session'[s] # None /\ session'[s].family = session[s].family
        BY <2>1, <2>2 DEF SessionsKept, KeptRow, SameRow
    <2> QED
        BY <1>1, <1>2, <2>1, <2>2, <2>3
<1>3. ASSUME NEW t \in Toks, NEW u \in Toks,
             token'[t] # None, ~token'[t].consumed,
             token'[u] # None, ~token'[u].consumed,
             token'[t].session = token'[u].session
      PROVE  t = u
    BY <1>1, <1>3 DEF SessionInv, TokenOK
<1>4. ASSUME NEW r \in Refreshers, refresh'[r] # None
      PROVE  token'[refresh'[r]] # None
    <2>1. PICK t \in Toks : t = refresh'[r]
        BY <1>4 DEF TypeOK
    <2> QED
        BY <1>4, <2>1 DEF TokensKept, KeptToken
<1> QED
    BY <1>2, <1>3, <1>4 DEF TokenOK

(* A dead family stays dead.                                               *)
LEMMA DeadKept ==
    ASSUME SessionInv, TypeOK', SessionsKept, TokensKept, reused' = reused
    PROVE  ReusedOK' /\ ReplayedFamilyIsDead'
<1>1. ReusedOK'
    BY DEF SessionInv, TypeOK, ReusedOK, SessionsKept, KeptRow
<1>2. ASSUME NEW f \in reused, NEW s \in Sids, session'[s] # None, session'[s].family = f
      PROVE  session'[s].revoked
    <2>1. session[s] # None /\ session[s].family = f
        BY <1>2 DEF SessionsKept, KeptRow, SameRow
    <2>2. session[s].revoked
        BY <2>1 DEF SessionInv, ReplayedFamilyIsDead, FamilySessions
    <2> QED
        BY <2>1, <2>2 DEF SessionsKept, KeptRow, SameRow
<1>3. ASSUME NEW f \in reused, NEW t \in Toks, token'[t] # None, token'[t].family = f
      PROVE  token'[t].consumed
    <2>1. token[t] # None /\ token[t].family = f
        BY <1>3 DEF TokensKept, KeptToken
    <2>2. token[t].consumed
        BY <2>1 DEF SessionInv, ReplayedFamilyIsDead, FamilyTokens
    <2> QED
        BY <2>1, <2>2 DEF TokensKept, KeptToken
<1>4. ReplayedFamilyIsDead'
    BY <1>2, <1>3 DEF ReplayedFamilyIsDead, FamilySessions, FamilyTokens
<1> QED
    BY <1>1, <1>4

LEMMA LiveFinite == IsFiniteSet(LiveSessions)
<1>1. LiveSessions \in SUBSET Sids
    BY DEF LiveSessions
<1> QED
    BY <1>1, FS_Subset

(* No more live sessions than before.                                      *)
LEMMA CapKept ==
    ASSUME SessionInv, NEW L \in SUBSET LiveSessions, LiveSessions' = L
    PROVE  SessionCap'
<1>1. Cardinality(L) <= Cardinality(LiveSessions) /\ IsFiniteSet(L)
    BY LiveFinite, FS_Subset
<1>2. Cardinality(L) \in Nat /\ Cardinality(LiveSessions) \in Nat
    BY <1>1, LiveFinite, FS_CardinalityType
<1>3. Cardinality(LiveSessions') = Cardinality(L)
    OBVIOUS
<1> QED
    BY <1>1, <1>2, <1>3 DEF SessionInv, SessionCap

LEMMA KeptStep ==
    ASSUME SessionInv, TypeOK', SessionsKept, TokensKept, reused' = reused,
           \A r \in Refreshers : refresh'[r] # None => token[refresh'[r]] # None,
           \A s \in Sids : Live(s)' => Live(s),
           LoginOK', SessionsAreCurrent'
    PROVE  SessionInv'
<1>1. SessionCap'
    <2>1. PICK L : L = LiveSessions'
        OBVIOUS
    <2>2. L \in SUBSET LiveSessions
        BY <2>1 DEF LiveSessions
    <2> QED
        BY <2>1, <2>2, CapKept
<1> QED
    BY <1>1, FamilyKept, TokenKept, DeadKept DEF SessionInv

(* No session comes to life by what is kept of its row.                    *)
LEMMA LiveKept ==
    ASSUME SessionInv, TypeOK', SessionsKept, clock <= clock',
           \A s \in Sids : session[s] # None =>
               session'[s].idle = session[s].idle \/ Live(s)
    PROVE  \A s \in Sids : Live(s)' => Live(s)
<1> SUFFICES ASSUME NEW s \in Sids, Live(s)' PROVE Live(s)
    OBVIOUS
<1>1. /\ session'[s] # None /\ ~session'[s].revoked
      /\ session'[s].expires > clock' /\ session'[s].idle > clock'
    BY DEF Live
<1>2. /\ session[s] # None /\ session[s] \in Session /\ SameRow(session[s], session'[s])
      /\ clock \in Nat /\ clock' \in Nat
    BY <1>1 DEF SessionsKept, KeptRow, SessionInv, TypeOK
<1>3. session[s].expires \in Nat /\ session[s].idle \in Nat
    BY <1>2 DEF Session
<1>4. ~session[s].revoked /\ session[s].expires > clock
    BY <1>1, <1>2, <1>3 DEF SameRow
<1>5. CASE Live(s)
    BY <1>5
<1>6. CASE session'[s].idle = session[s].idle
    BY <1>1, <1>2, <1>3, <1>4, <1>6 DEF Live
<1> QED
    BY <1>2, <1>5, <1>6

(* What is left of the sessions of an account still suits it.              *)
LEMMA CurrentKept ==
    ASSUME SessionInv, SessionsKept,
           account'.password = account.password,
           account'.mustChange = account.mustChange,
           account'.disabled => account.disabled
    PROVE  SessionsAreCurrent'
BY DEF SessionInv, SessionsAreCurrent, SessionsKept, KeptRow, SameRow

LEMMA LoginKept ==
    ASSUME SessionInv, TypeOK',
           \A l \in Logins : login'[l] # None =>
               login[l] # None /\ login'[l].version = login[l].version
               /\ login'[l].password = login[l].password
               /\ (login'[l].step # "mustChange" => login[l].step # "mustChange"),
           account'.version = account.version,
           account'.password = account.password,
           account'.mustChange = account.mustChange
    PROVE  LoginOK'
BY DEF SessionInv, LoginOK

LEMMA LoginEnds ==
    ASSUME SessionInv, NEW l \in Logins, EndLogin(l), account' = account
    PROVE  login' \in [Logins -> Login \cup {None}] /\ LoginOK'
<1>1. \A k \in Logins : login'[k] = IF k = l THEN None ELSE login[k]
    BY DEF EndLogin, SessionInv, TypeOK
<1>2. login' \in [Logins -> Login \cup {None}]
    BY DEF EndLogin, SessionInv, TypeOK
<1>3. LoginOK'
    BY <1>1 DEF SessionInv, LoginOK
<1> QED
    BY <1>2, <1>3

LEMMA TablesSame ==
    ASSUME SessionInv
    PROVE  /\ session' = session => SessionsKept
           /\ token' = token => TokensKept
BY DEF SessionsKept, TokensKept, KeptRow, KeptToken, SameRow

(* Steps that revoke sessions and consume tokens, and change nothing else. *)
LEMMA RevokeStep ==
    ASSUME SessionInv, NEW S, NEW T, session' = Revoke(S), token' = Consume(T),
           UNCHANGED <<account, login, refresh, reused, clock>>
    PROVE  SessionInv'
<1>1. TypeOK'
    BY RevokeRows, ConsumeRows DEF SessionInv, TypeOK
<1>2. SessionsKept /\ TokensKept
    BY RevokeRows, ConsumeRows DEF SessionInv, SessionsKept, TokensKept
<1>3. \A s \in Sids : session[s] # None => session'[s].idle = session[s].idle
    BY RevokeRows DEF SessionInv
<1>4. \A s \in Sids : Live(s)' => Live(s)
    <2>1. clock <= clock'
        BY DEF SessionInv, TypeOK
    <2> QED
        BY <1>1, <1>2, <1>3, <2>1, LiveKept
<1>5. \A r \in Refreshers : refresh'[r] # None => token[refresh'[r]] # None
    BY DEF SessionInv, TokenOK
<1>6. SessionsAreCurrent'
    BY <1>2, CurrentKept
<1>7. LoginOK'
    BY DEF SessionInv, LoginOK
<1> QED
    BY <1>1, <1>2, <1>4, <1>5, <1>6, <1>7, KeptStep

(* Steps that leave both tables alone but for a session that is touched.   *)
LEMMA TouchStep ==
    ASSUME SessionInv, NEW s \in Sids, Live(s),
           session' = [session EXCEPT ![s] = Touched(session[s])],
           UNCHANGED clock
    PROVE  /\ session' \in [Sids -> Session \cup {None}]
           /\ SessionsKept
           /\ \A r \in Sids : session[r] # None =>
                 session'[r].idle = session[r].idle \/ Live(r)
<1>1. session[s] \in Session /\ clock \in Nat
    BY DEF SessionInv, TypeOK, Live
<1>2. /\ Touched(session[s]) \in Session /\ Touched(session[s]) # None
      /\ SameRow(session[s], Touched(session[s]))
    BY <1>1, TouchedRow
<1>3. \A r \in Sids : session'[r] = IF r = s THEN Touched(session[s]) ELSE session[r]
    BY DEF SessionInv, TypeOK
<1>4. session' \in [Sids -> Session \cup {None}]
    BY <1>2 DEF SessionInv, TypeOK
<1>5. SessionsKept
    BY <1>1, <1>2, <1>3 DEF SessionsKept, KeptRow, SameRow
<1>6. ASSUME NEW r \in Sids PROVE session'[r].idle = session[r].idle \/ Live(r)
    BY <1>3
<1> QED
    BY <1>4, <1>5, <1>6

(* Steps that insert session n with its token t, and revoke S so that n is *)
(* the only one of its family and within the cap.                          *)
LEMMA InsertStep ==
    ASSUME SessionInv, NEW n \in Sids, session[n] = None, NEW t \in Toks, token[t] = None,
           NEW x \in Session, ~x.revoked,
           NEW S, NEW T,
           session' = [Revoke(S) EXCEPT ![n] = x],
           token' = [Consume(T) EXCEPT ![t] =
               [family |-> x.family, session |-> n, consumed |-> FALSE]],
           UNCHANGED <<account, refresh, reused, clock>>,
           login' \in [Logins -> Login \cup {None}], LoginOK',
           x.family \notin reused,
           \/ x.family = n /\ x.created + AbsoluteTimeout = x.expires
           \/ /\ session[x.family] # None
              /\ session[x.family].created + AbsoluteTimeout = x.expires,
           \A s \in Sids : session[s] # None /\ ~session[s].revoked
                             /\ session[s].family = x.family => s \in S,
           x.password = account.password, ~account.disabled, ~account.mustChange,
           Cardinality(LiveSessions \ S) < MaxSessions
    PROVE  SessionInv'
<1> DEFINE y == [family |-> x.family, session |-> n, consumed |-> FALSE]
<1>0. x # None /\ x.family \in Sids /\ n \notin reused
    BY DEF Session, SessionInv, ReusedOK
<1>y. y \in Token /\ y # None /\ y.family = x.family /\ y.session = n /\ ~y.consumed
    <2>1. y \in Token
        BY <1>0 DEF Token
    <2> QED
        BY <2>1
<1> HIDE DEF y
<1>1. /\ session' \in [Sids -> Session \cup {None}]
      /\ session'[n] = x
      /\ \A s \in Sids : s # n => /\ KeptRow(session[s], session'[s])
                                  /\ s \in S /\ session[s] # None => session'[s].revoked
                                  /\ session[s] # None => session'[s].idle = session[s].idle
    BY RevokeRows DEF SessionInv
<1>2. /\ token' \in [Toks -> Token \cup {None}]
      /\ token'[t] = y
      /\ \A u \in Toks : u # t => KeptToken(token[u], token'[u])
    BY <1>y, ConsumeRows DEF SessionInv, y
<1>3. TypeOK'
    BY <1>1, <1>2 DEF SessionInv, TypeOK
<1>4. \A s \in Sids : s # n /\ session'[s] # None =>
          /\ session[s] # None /\ session[s] \in Session
          /\ SameRow(session[s], session'[s])
          /\ session'[s].revoked \/ s \notin S
    BY <1>1 DEF SessionInv, TypeOK, KeptRow
<1>f. \A s \in Sids : session[s] # None => session[s].family \in Sids /\ session[s].family # n
    BY DEF SessionInv, TypeOK, FamilyOK, Session
<1>5. FamilyOK'
    <2>1. ASSUME NEW s \in Sids, session'[s] # None
          PROVE  /\ session'[session'[s].family] # None
                 /\ session'[session'[s].family].created + AbsoluteTimeout = session'[s].expires
        <3>1. CASE s = n /\ x.family = n
            BY <1>0, <1>1, <3>1
        <3>2. CASE s = n /\ x.family # n
            <4>1. PICK f \in Sids : f = x.family
                BY <1>0
            <4>2. session[f] # None /\ session[f].created + AbsoluteTimeout = x.expires
                BY <3>2, <4>1
            <4>3. session'[f] # None /\ session'[f].created = session[f].created
                BY <1>1, <3>2, <4>1, <4>2 DEF KeptRow, SameRow
            <4> QED
                BY <1>1, <3>2, <4>1, <4>2, <4>3
        <3>3. CASE s # n
            <4>1. PICK f \in Sids : f = session[s].family /\ f # n
                BY <1>4, <1>f, <2>1, <3>3
            <4>2. session[f] # None /\ session[f].created + AbsoluteTimeout = session[s].expires
                BY <1>4, <2>1, <3>3, <4>1 DEF SessionInv, FamilyOK
            <4>3. session'[f] # None /\ session'[f].created = session[f].created
                BY <1>1, <4>1, <4>2 DEF KeptRow, SameRow
            <4>4. session'[s].family = f /\ session'[s].expires = session[s].expires
                BY <1>4, <2>1, <3>3, <4>1 DEF SameRow
            <4> QED
                BY <4>2, <4>3, <4>4
        <3> QED
            BY <3>1, <3>2, <3>3
    <2>2. ASSUME NEW s \in Sids, s # n, session'[s] # None, ~session'[s].revoked
          PROVE  session'[s].family # x.family
        BY <1>4, <2>2 DEF SameRow
    <2>3. ASSUME NEW s \in Sids, NEW r \in Sids,
                 session'[s] # None, ~session'[s].revoked,
                 session'[r] # None, ~session'[r].revoked,
                 session'[s].family = session'[r].family
          PROVE  s = r
        <3>1. CASE s = n \/ r = n
            BY <1>1, <2>2, <2>3, <3>1
        <3>2. CASE s # n /\ r # n
            BY <1>4, <2>3, <3>2 DEF SameRow, SessionInv, FamilyOK
        <3> QED
            BY <3>1, <3>2
    <2> QED
        BY <2>1, <2>3 DEF FamilyOK
<1>6. \A u \in Toks : u # t /\ token'[u] # None =>
          /\ token[u] # None /\ token[u] \in Token
          /\ token'[u].family = token[u].family
          /\ token'[u].session = token[u].session
          /\ token[u].consumed => token'[u].consumed
          /\ token[u].session \in Sids /\ token[u].session # n
          /\ session[token[u].session] # None
          /\ session[token[u].session].family = token[u].family
    BY <1>2 DEF SessionInv, TypeOK, KeptToken, TokenOK, Token
<1>7. TokenOK'
    <2>1. ASSUME NEW u \in Toks, token'[u] # None
          PROVE  /\ session'[token'[u].session] # None
                 /\ session'[token'[u].session].family = token'[u].family
        <3>1. CASE u = t
            BY <1>0, <1>1, <1>2, <1>y, <3>1
        <3>2. CASE u # t
            <4>1. PICK s \in Sids : s = token[u].session /\ s # n
                BY <1>6, <2>1, <3>2
            <4>2. session'[s] # None /\ session'[s].family = session[s].family
                BY <1>1, <1>6, <2>1, <3>2, <4>1 DEF KeptRow, SameRow
            <4> QED
                BY <1>6, <2>1, <3>2, <4>1, <4>2
        <3> QED
            BY <3>1, <3>2
    <2>2. ASSUME NEW u \in Toks, NEW v \in Toks,
                 token'[u] # None, ~token'[u].consumed,
                 token'[v] # None, ~token'[v].consumed,
                 token'[u].session = token'[v].session
          PROVE  u = v
        <3>1. CASE u = t \/ v = t
            BY <1>2, <1>6, <1>y, <2>2, <3>1
        <3>2. CASE u # t /\ v # t
            BY <1>6, <2>2, <3>2 DEF SessionInv, TokenOK
        <3> QED
            BY <3>1, <3>2
    <2>3. ASSUME NEW r \in Refreshers, refresh'[r] # None
          PROVE  token'[refresh'[r]] # None
        <3>1. PICK u \in Toks : u = refresh[r] /\ token[u] # None
            BY <2>3 DEF SessionInv, TypeOK, TokenOK
        <3> QED
            BY <1>2, <3>1 DEF KeptToken
    <2> QED
        BY <2>1, <2>2, <2>3 DEF TokenOK
<1>8. ReusedOK'
    BY <1>0, <1>1 DEF SessionInv, TypeOK, ReusedOK, KeptRow
<1>9. ReplayedFamilyIsDead'
    <2>1. ASSUME NEW f \in reused, NEW s \in Sids, session'[s] # None, session'[s].family = f
          PROVE  session'[s].revoked
        <3>1. s # n
            BY <1>1, <2>1
        <3>2. session[s].revoked
            BY <1>4, <2>1, <3>1 DEF SameRow, SessionInv, ReplayedFamilyIsDead, FamilySessions
        <3> QED
            BY <1>4, <2>1, <3>1, <3>2 DEF SameRow
    <2>2. ASSUME NEW f \in reused, NEW u \in Toks, token'[u] # None, token'[u].family = f
          PROVE  token'[u].consumed
        <3>1. u # t
            BY <1>2, <1>y, <2>2
        <3>2. token[u].consumed
            BY <1>6, <2>2, <3>1 DEF SessionInv, ReplayedFamilyIsDead, FamilyTokens
        <3> QED
            BY <1>6, <2>2, <3>1, <3>2
    <2> QED
        BY <2>1, <2>2 DEF ReplayedFamilyIsDead, FamilySessions, FamilyTokens
<1>10. SessionsAreCurrent'
    BY <1>1, <1>4 DEF SameRow, SessionInv, SessionsAreCurrent
<1>11. SessionCap'
    <2>1. ASSUME NEW s \in Sids, Live(s)', s # n PROVE s \in LiveSessions \ S
        <3>1. session'[s] # None /\ ~session'[s].revoked
              /\ session'[s].expires > clock /\ session'[s].idle > clock
            BY <2>1 DEF Live
        <3> QED
            BY <1>1, <1>4, <2>1, <3>1 DEF SameRow, Live, LiveSessions
    <2>2. PICK L : L = LiveSessions'
        OBVIOUS
    <2>3. PICK R : R = LiveSessions \ S
        OBVIOUS
    <2>4. L \in SUBSET (R \cup {n})
        BY <2>1, <2>2, <2>3 DEF LiveSessions
    <2>5. IsFiniteSet(R)
        BY <2>3, LiveFinite, FS_Difference
    <2>6. IsFiniteSet(R \cup {n}) /\ Cardinality(R \cup {n}) <= Cardinality(R) + 1
        <3>1. Cardinality(R) \in Nat
            BY <2>5, FS_CardinalityType
        <3>2. /\ IsFiniteSet(R \cup {n})
              /\ Cardinality(R \cup {n}) =
                    IF n \in R THEN Cardinality(R) ELSE Cardinality(R) + 1
            BY <2>5, FS_AddElement
        <3> QED
            BY <3>1, <3>2
    <2>7. Cardinality(L) <= Cardinality(R \cup {n}) /\ IsFiniteSet(L)
        BY <2>4, <2>6, FS_Subset
    <2>8. Cardinality(L) \in Nat /\ Cardinality(R) \in Nat /\ Cardinality(R \cup {n}) \in Nat
        BY <2>5, <2>6, <2>7, FS_CardinalityType
    <2>9. Cardinality(R) < MaxSessions
        BY <2>3
    <2>10. Cardinality(L) <= MaxSessions
        BY <2>6, <2>7, <2>8, <2>9
    <2> QED
        BY <2>2, <2>10 DEF SessionCap
<1> QED
    BY <1>3, <1>5, <1>7, <1>8, <1>9, <1>10, <1>11 DEF SessionInv

(* Steps that leave both tables alone.                                     *)
LEMMA RestStep ==
    ASSUME SessionInv, TypeOK', UNCHANGED <<session, token, reused>>, clock <= clock',
           LoginOK', SessionsAreCurrent',
           \A r \in Refreshers : refresh'[r] # None => token[refresh'[r]] # None
    PROVE  SessionInv'
<1>1. SessionsKept /\ TokensKept
    BY TablesSame
<1>2. \A s \in Sids : Live(s)' => Live(s)
    BY <1>1, LiveKept
<1> QED
    BY <1>1, <1>2, KeptStep

(* The same where the account and the refreshes stay as well.              *)
LEMMA LoginOnlyStep ==
    ASSUME SessionInv, UNCHANGED <<account, session, token, refresh, reused, clock>>,
           login' \in [Logins -> Login \cup {None}], LoginOK'
    PROVE  SessionInv'
<1>1. TypeOK' /\ clock <= clock'
    BY DEF SessionInv, TypeOK
<1>2. SessionsAreCurrent'
    BY DEF SessionInv, SessionsAreCurrent
<1>3. \A r \in Refreshers : refresh'[r] # None => token[refresh'[r]] # None
    BY DEF SessionInv, TokenOK
<1> QED
    BY <1>1, <1>2, <1>3, RestStep

-------------------------------------------------------------------------------
LEMMA SessionInitOK == Init => SessionInv
<1> SUFFICES ASSUME Init PROVE SessionInv
    OBVIOUS
<1>1. TypeOK
    BY DEF Init, TypeOK, Account
<1>2. LoginOK /\ SessionsAreCurrent /\ FamilyOK /\ TokenOK /\ ReusedOK
    BY DEF Init, LoginOK, SessionsAreCurrent, FamilyOK, TokenOK, ReusedOK
<1>3. ReplayedFamilyIsDead
    BY DEF Init, ReplayedFamilyIsDead
<1>4. SessionCap
    <2>1. LiveSessions = {}
        BY DEF Init, LiveSessions, Live
    <2>2. Cardinality({}) = 0
        BY FS_EmptySet
    <2> QED
        BY <2>1, <2>2 DEF SessionCap
<1> QED
    BY <1>1, <1>2, <1>3, <1>4 DEF SessionInv

(* There is room for one more without the oldest.                          *)
LEMMA OldestMakeRoom ==
    ASSUME SessionInv, NEW old, Oldest(old)
    PROVE  Cardinality(LiveSessions \ old) < MaxSessions
<1>1. PICK L : L = LiveSessions
    OBVIOUS
<1>2. IsFiniteSet(L) /\ Cardinality(L) \in Nat /\ Cardinality(L) <= MaxSessions
    BY <1>1, LiveFinite, FS_CardinalityType DEF SessionInv, SessionCap
<1>3. /\ old \subseteq L
      /\ Cardinality(old) = IF Cardinality(L) - MaxSessions + 1 > 0
                            THEN Cardinality(L) - MaxSessions + 1 ELSE 0
    BY <1>1 DEF Oldest, Excess
<1>4. Cardinality(L \ old) = Cardinality(L) - Cardinality(L \cap old)
    BY <1>2, FS_Difference
<1>5. Cardinality(L \cap old) = Cardinality(old)
    <2>1. L \cap old = old
        BY <1>3
    <2> QED
        BY <2>1
<1>6. PICK c \in Nat, d \in Nat : c = Cardinality(L) /\ d = Cardinality(old)
    <2>1. IsFiniteSet(old)
        BY <1>2, <1>3, FS_Subset
    <2> QED
        BY <1>2, <2>1, FS_CardinalityType
<1>7. c <= MaxSessions /\ d = IF c - MaxSessions + 1 > 0 THEN c - MaxSessions + 1 ELSE 0
    BY <1>2, <1>3, <1>6
<1>8. c - d < MaxSessions
    BY <1>7
<1>9. Cardinality(L \ old) < MaxSessions
    BY <1>4, <1>5, <1>6, <1>8
<1> QED
    BY <1>1, <1>9

(* A login whose account is current creates a session that is.             *)
LEMMA CreateStep ==
    ASSUME SessionInv, NEW l \in Logins, NEW s \in NewSids, NEW t \in NewToks,
           login[l] # None, login[l].step # "mustChange", CurrentAccount(l),
           createSession(s, t, login[l].password), EndLogin(l),
           UNCHANGED <<account, refresh, reused, clock>>
    PROVE  SessionInv'
<1>1. s \in Sids /\ session[s] = None /\ t \in Toks /\ token[t] = None
    BY FreshIds DEF NewSids, NewToks
<1>2. login[l] \in Login /\ clock \in Nat
    BY DEF SessionInv, TypeOK
<1>3. PICK x : x = FirstSession(s, login[l].password)
    OBVIOUS
<1>4. x \in Session
    BY <1>1, <1>2, <1>3 DEF FirstSession, Session, Login
<1>5. /\ x.family = s /\ x.created + AbsoluteTimeout = x.expires /\ ~x.revoked
      /\ x.password = login[l].password
    BY <1>3 DEF FirstSession
<1>6. /\ login[l].password = account.password /\ ~account.disabled /\ ~account.mustChange
    BY DEF SessionInv, LoginOK, CurrentAccount
<1>7. s \notin reused
    BY <1>1 DEF SessionInv, ReusedOK
<1>8. \A r \in Sids : session[r] # None => session[r].family # s
    BY <1>1 DEF SessionInv, FamilyOK
<1>9. login' \in [Logins -> Login \cup {None}] /\ LoginOK'
    BY LoginEnds
<1>10. PICK old : Oldest(old) /\ session' = [Revoke(old) EXCEPT ![s] = x]
    BY <1>3 DEF createSession
<1>11. token' = [Consume({}) EXCEPT ![t] =
          [family |-> x.family, session |-> s, consumed |-> FALSE]]
    <2>1. Consume({}) = token
        BY DEF Consume, SessionInv, TypeOK
    <2> QED
        BY <1>5, <2>1 DEF createSession
<1>12. Cardinality(LiveSessions \ old) < MaxSessions
    BY <1>10, OldestMakeRoom
<1> QED
    BY <1>1, <1>4, <1>5, <1>6, <1>7, <1>8, <1>9, <1>10, <1>11, <1>12, InsertStep

LEMMA LoginSteps == ASSUME SessionInv, NEW l \in Logins, LoginStep(l) PROVE SessionInv'
<1>t. account \in Account /\ login \in [Logins -> Login \cup {None}]
    BY DEF SessionInv, TypeOK
<1>1. CASE CheckPassword(l)
    <2> DEFINE x == [step |-> IF account.mustChange THEN "mustChange" ELSE "checked",
                     version |-> account.version, password |-> account.password]
    <2>1. x \in Login /\ x.version = account.version /\ x.password = account.password
          /\ (x.step # "mustChange" => ~account.mustChange)
        BY <1>t DEF Account, Login
    <2>2. login' = [login EXCEPT ![l] = x]
        BY <1>1 DEF CheckPassword
    <2> HIDE DEF x
    <2>3. login' \in [Logins -> Login \cup {None}]
        BY <1>t, <2>1, <2>2
    <2>4. \A k \in Logins : login'[k] = IF k = l THEN x ELSE login[k]
        BY <1>t, <2>2
    <2>5. LoginOK'
        BY <1>1, <1>t, <2>1, <2>4 DEF CheckPassword, SessionInv, LoginOK, Account
    <2> QED
        BY <1>1, <2>3, <2>5, LoginOnlyStep DEF CheckPassword
<1>2. CASE \E s \in NewSids, t \in NewToks : LoginTrusted(l, s, t) \/ completeLogin(l, s, t)
    BY <1>2, CreateStep DEF LoginTrusted, completeLogin, AtStep
<1>3. CASE SendCode(l)
    <2> DEFINE x == [step |-> "challenge", version |-> login[l].version,
                     password |-> login[l].password]
    <2>1. login[l] \in Login /\ login[l].step = "checked"
        BY <1>3, <1>t DEF SendCode, AtStep
    <2>2. x \in Login /\ x.version = login[l].version /\ x.password = login[l].password
        BY <2>1 DEF Login
    <2>3. login' = [login EXCEPT ![l] = x]
        BY <1>3 DEF SendCode
    <2> HIDE DEF x
    <2>4. login' \in [Logins -> Login \cup {None}]
        BY <1>t, <2>2, <2>3
    <2>5. \A k \in Logins : login'[k] = IF k = l THEN x ELSE login[k]
        BY <1>t, <2>3
    <2>6. LoginOK'
        BY <1>3, <2>1, <2>2, <2>5 DEF SendCode, AtStep, SessionInv, LoginOK
    <2> QED
        BY <1>3, <2>4, <2>6, LoginOnlyStep DEF SendCode
<1>4. CASE IssueChangeToken(l)
    <2>1. /\ account' \in Account
          /\ account'.version = account.version /\ account'.password = account.password
          /\ account'.mustChange = account.mustChange /\ account'.disabled = account.disabled
        BY <1>4, <1>t DEF IssueChangeToken, Account
    <2>2. \A k \in Logins : login'[k] = IF k = l THEN None ELSE login[k]
        BY <1>4, <1>t DEF IssueChangeToken, EndLogin
    <2>3. login' \in [Logins -> Login \cup {None}]
        BY <1>4, <1>t DEF IssueChangeToken, EndLogin
    <2>4. LoginOK'
        BY <2>1, <2>2 DEF SessionInv, LoginOK
    <2>5. TypeOK' /\ clock <= clock'
        BY <1>4, <2>1, <2>3 DEF IssueChangeToken, SessionInv, TypeOK
    <2>6. SessionsKept
        BY <1>4, TablesSame DEF IssueChangeToken
    <2>7. SessionsAreCurrent'
        BY <2>1, <2>6, CurrentKept
    <2>8. \A r \in Refreshers : refresh'[r] # None => token[refresh'[r]] # None
        BY <1>4 DEF IssueChangeToken, SessionInv, TokenOK
    <2> QED
        BY <1>4, <2>4, <2>5, <2>7, <2>8, RestStep DEF IssueChangeToken
<1>5. CASE Abandon(l)
    BY <1>5, LoginEnds, LoginOnlyStep DEF Abandon
<1> QED
    BY <1>1, <1>2, <1>3, <1>4, <1>5 DEF LoginStep

LEMMA RefreshEnds ==
    ASSUME SessionInv, NEW r \in Refreshers, EndRefresh(r)
    PROVE  /\ refresh' \in [Refreshers -> Toks \cup {None}]
           /\ \A q \in Refreshers : refresh'[q] # None => token[refresh'[q]] # None
BY DEF EndRefresh, SessionInv, TypeOK, TokenOK

(* The new token of a session takes the place of the one redeemed.         *)
LEMMA RedeemStep ==
    ASSUME SessionInv, NEW r \in Refreshers, NEW t \in NewToks, Redeem(r, t)
    PROVE  SessionInv'
<1>1. PICK old \in Toks : old = refresh[r] /\ token[old] # None
    BY DEF Redeem, SessionInv, TypeOK, TokenOK
<1>2. PICK s \in Sids : s = token[old].session
    BY <1>1 DEF SessionInv, TypeOK, Token
<1>3. PICK f \in Sids : f = token[old].family
    BY <1>1 DEF SessionInv, TypeOK, Token
<1>4. /\ ~token[old].consumed /\ Live(s)
      /\ session' = [session EXCEPT ![s] = Touched(session[s])]
      /\ EndRefresh(r)
      /\ UNCHANGED <<account, login, reused, clock>>
    BY <1>1, <1>2 DEF Redeem
<1>5. t \in Toks /\ token[t] = None
    BY FreshIds DEF NewToks
<1>6. PICK y : y = [family |-> f, session |-> s, consumed |-> FALSE]
    OBVIOUS
<1>7. token' = [Consume({old}) EXCEPT ![t] = y]
    BY <1>1, <1>2, <1>3, <1>6 DEF Redeem
<1>8. y \in Token /\ y # None /\ y.family = f /\ y.session = s /\ ~y.consumed
    <2>1. y \in Token
        BY <1>6 DEF Token
    <2> QED
        BY <1>6, <2>1
<1>9. /\ token' \in [Toks -> Token \cup {None}]
      /\ token'[t] = y
      /\ token'[old].consumed
      /\ \A u \in Toks : u # t => KeptToken(token[u], token'[u])
    <2>1. old # t
        BY <1>1, <1>5
    <2> QED
        BY <1>1, <1>5, <1>7, <1>8, <2>1, ConsumeRows DEF SessionInv
<1>10. /\ session' \in [Sids -> Session \cup {None}]
       /\ SessionsKept
       /\ \A q \in Sids : session[q] # None => session'[q].idle = session[q].idle \/ Live(q)
    BY <1>4, TouchStep
<1>11. /\ refresh' \in [Refreshers -> Toks \cup {None}]
       /\ \A q \in Refreshers : refresh'[q] # None => token[refresh'[q]] # None
    BY <1>4, RefreshEnds
<1>12. TypeOK' /\ clock <= clock'
    BY <1>4, <1>9, <1>10, <1>11 DEF SessionInv, TypeOK
<1>13. FamilyOK' /\ SessionsAreCurrent'
    BY <1>4, <1>10, <1>12, FamilyKept, CurrentKept
<1>14. LoginOK'
    BY <1>4 DEF SessionInv, LoginOK
<1>15. SessionCap'
    <2>1. PICK L : L = LiveSessions'
        OBVIOUS
    <2>2. \A q \in Sids : Live(q)' => Live(q)
        BY <1>10, <1>12, LiveKept
    <2>3. L \in SUBSET LiveSessions
        BY <2>1, <2>2 DEF LiveSessions
    <2> QED
        BY <2>1, <2>3, CapKept
<1>16. session[s] # None /\ session[s].family = f /\ ~session[s].revoked /\ f \notin reused
    BY <1>1, <1>2, <1>3, <1>4 DEF SessionInv, TokenOK, Live, ReplayedFamilyIsDead, FamilySessions
<1>17. session'[s] # None /\ session'[s].family = f
    BY <1>10, <1>16 DEF SessionsKept, KeptRow, SameRow
<1>18. \A u \in Toks : u # t /\ token'[u] # None =>
          /\ token[u] # None /\ token[u] \in Token
          /\ token'[u].family = token[u].family
          /\ token'[u].session = token[u].session
          /\ token[u].consumed => token'[u].consumed
    BY <1>9 DEF SessionInv, TypeOK, KeptToken
<1>19. TokenOK'
    <2>1. ASSUME NEW u \in Toks, token'[u] # None
          PROVE  /\ session'[token'[u].session] # None
                 /\ session'[token'[u].session].family = token'[u].family
        <3>1. CASE u = t
            BY <1>8, <1>9, <1>17, <3>1
        <3>2. CASE u # t
            <4>1. PICK q \in Sids : q = token[u].session
                BY <1>18, <2>1, <3>2 DEF Token
            <4>2. session[q] # None /\ session[q].family = token[u].family
                BY <1>18, <2>1, <3>2, <4>1 DEF SessionInv, TokenOK
            <4>3. session'[q] # None /\ session'[q].family = session[q].family
                BY <1>10, <4>2 DEF SessionsKept, KeptRow, SameRow
            <4> QED
                BY <1>18, <2>1, <3>2, <4>1, <4>2, <4>3
        <3> QED
            BY <3>1, <3>2
    <2>2. ASSUME NEW u \in Toks, u # t, token'[u] # None, ~token'[u].consumed
          PROVE  token'[u].session # s
        <3>1. token[u] # None /\ ~token[u].consumed /\ token'[u].session = token[u].session
            BY <1>18, <2>2
        <3>2. u # old
            BY <1>9, <2>2
        <3> QED
            BY <1>1, <1>2, <1>4, <3>1, <3>2 DEF SessionInv, TokenOK
    <2>3. ASSUME NEW u \in Toks, NEW v \in Toks,
                 token'[u] # None, ~token'[u].consumed,
                 token'[v] # None, ~token'[v].consumed,
                 token'[u].session = token'[v].session
          PROVE  u = v
        <3>1. CASE u = t \/ v = t
            BY <1>8, <1>9, <2>2, <2>3, <3>1
        <3>2. CASE u # t /\ v # t
            BY <1>18, <2>3, <3>2 DEF SessionInv, TokenOK
        <3> QED
            BY <3>1, <3>2
    <2>4. ASSUME NEW q \in Refreshers, refresh'[q] # None
          PROVE  token'[refresh'[q]] # None
        <3>1. PICK u \in Toks : u = refresh'[q] /\ token[u] # None
            BY <1>11, <2>4
        <3> QED
            BY <1>5, <1>9, <3>1 DEF KeptToken
    <2> QED
        BY <2>1, <2>3, <2>4 DEF TokenOK
<1>20. ReusedOK'
    BY <1>4, <1>10 DEF SessionInv, TypeOK, ReusedOK, SessionsKept, KeptRow
<1>21. ReplayedFamilyIsDead'
    <2>1. ASSUME NEW g \in reused, NEW q \in Sids, session'[q] # None, session'[q].family = g
          PROVE  session'[q].revoked
        <3>1. session[q] # None /\ session[q].family = g
            BY <1>10, <2>1 DEF SessionsKept, KeptRow, SameRow
        <3>2. session[q].revoked
            BY <3>1 DEF SessionInv, ReplayedFamilyIsDead, FamilySessions
        <3> QED
            BY <1>10, <3>1, <3>2 DEF SessionsKept, KeptRow, SameRow
    <2>2. ASSUME NEW g \in reused, NEW u \in Toks, token'[u] # None, token'[u].family = g
          PROVE  token'[u].consumed
        <3>1. u # t
            BY <1>8, <1>9, <1>16, <2>2
        <3>2. token[u].consumed
            BY <1>18, <2>2, <3>1 DEF SessionInv, ReplayedFamilyIsDead, FamilyTokens
        <3> QED
            BY <1>18, <2>2, <3>1, <3>2
    <2> QED
        BY <1>4, <2>1, <2>2 DEF ReplayedFamilyIsDead, FamilySessions, FamilyTokens
<1> QED
    BY <1>12, <1>13, <1>14, <1>15, <1>19, <1>20, <1>21 DEF SessionInv

(* A token presented again ends its family.                                *)
LEMMA RedeemConsumedStep ==
    ASSUME SessionInv, NEW r \in Refreshers, RedeemConsumed(r)
    PROVE  SessionInv'
<1>1. PICK old \in Toks : old = refresh[r] /\ token[old] # None
    BY DEF RedeemConsumed, SessionInv, TypeOK, TokenOK
<1>2. PICK f \in Sids : f = token[old].family
    BY <1>1 DEF SessionInv, TypeOK, Token
<1>3. /\ session' = Revoke(FamilySessions(f)) /\ token' = Consume(FamilyTokens(f))
      /\ reused' = reused \cup {f}
      /\ EndRefresh(r)
      /\ UNCHANGED <<account, login, clock>>
    BY <1>1, <1>2 DEF RedeemConsumed, KillFamily
<1>4. /\ session' \in [Sids -> Session \cup {None}]
      /\ \A s \in Sids :
            /\ KeptRow(session[s], session'[s])
            /\ session[s] # None => session'[s].idle = session[s].idle
            /\ session[s] # None /\ session[s].family = f => session'[s].revoked
    BY <1>3, RevokeRows DEF SessionInv, FamilySessions
<1>5. /\ token' \in [Toks -> Token \cup {None}]
      /\ \A t \in Toks :
            /\ KeptToken(token[t], token'[t])
            /\ token[t] # None /\ token[t].family = f => token'[t].consumed
    BY <1>3, ConsumeRows DEF SessionInv, FamilyTokens
<1>6. /\ refresh' \in [Refreshers -> Toks \cup {None}]
      /\ \A q \in Refreshers : refresh'[q] # None => token[refresh'[q]] # None
    BY <1>3, RefreshEnds
<1>7. TypeOK' /\ clock <= clock'
    BY <1>3, <1>4, <1>5, <1>6 DEF SessionInv, TypeOK
<1>8. SessionsKept /\ TokensKept
    BY <1>4, <1>5 DEF SessionsKept, TokensKept
<1>9. FamilyOK' /\ TokenOK' /\ SessionsAreCurrent'
    BY <1>3, <1>6, <1>7, <1>8, FamilyKept, TokenKept, CurrentKept
<1>10. LoginOK'
    BY <1>3 DEF SessionInv, LoginOK
<1>11. SessionCap'
    <2>1. PICK L : L = LiveSessions'
        OBVIOUS
    <2>2. \A q \in Sids : Live(q)' => Live(q)
        BY <1>4, <1>7, <1>8, LiveKept
    <2>3. L \in SUBSET LiveSessions
        BY <2>1, <2>2 DEF LiveSessions
    <2> QED
        BY <2>1, <2>3, CapKept
<1>12. session[f] # None
    <2>1. PICK s \in Sids : s = token[old].session /\ session[s] # None /\ session[s].family = f
        BY <1>1, <1>2 DEF SessionInv, TypeOK, TokenOK, Token
    <2> QED
        BY <2>1 DEF SessionInv, FamilyOK
<1>13. ReusedOK'
    BY <1>3, <1>8, <1>12 DEF SessionInv, TypeOK, ReusedOK, SessionsKept, KeptRow
<1>14. ReplayedFamilyIsDead'
    <2>1. ASSUME NEW g \in reused', NEW s \in Sids, session'[s] # None, session'[s].family = g
          PROVE  session'[s].revoked
        <3>1. session[s] # None /\ session[s].family = g
            BY <1>4, <2>1 DEF KeptRow, SameRow
        <3>2. CASE g = f
            BY <1>4, <3>1, <3>2
        <3>3. CASE g \in reused
            BY <1>4, <3>1, <3>3 DEF KeptRow, SameRow, SessionInv, ReplayedFamilyIsDead, FamilySessions
        <3> QED
            BY <1>3, <3>2, <3>3
    <2>2. ASSUME NEW g \in reused', NEW t \in Toks, token'[t] # None, token'[t].family = g
          PROVE  token'[t].consumed
        <3>1. token[t] # None /\ token[t].family = g
            BY <1>5, <2>2 DEF KeptToken
        <3>2. CASE g = f
            BY <1>5, <3>1, <3>2
        <3>3. CASE g \in reused
            BY <1>5, <3>1, <3>3 DEF KeptToken, SessionInv, ReplayedFamilyIsDead, FamilyTokens
        <3> QED
            BY <1>3, <3>2, <3>3
    <2> QED
        BY <2>1, <2>2 DEF ReplayedFamilyIsDead, FamilySessions, FamilyTokens
<1> QED
    BY <1>7, <1>9, <1>10, <1>11, <1>13, <1>14 DEF SessionInv

LEMMA RefreshSteps == ASSUME SessionInv, NEW r \in Refreshers, RefreshStep(r) PROVE SessionInv'
<1>1. ASSUME refresh' \in [Refreshers -> Toks \cup {None}],
             \A q \in Refreshers : refresh'[q] # None => token[refresh'[q]] # None,
             UNCHANGED <<account, session, token, login, reused, clock>>
      PROVE  SessionInv'
    <2>1. TypeOK' /\ clock <= clock'
        BY <1>1 DEF SessionInv, TypeOK
    <2>2. LoginOK' /\ SessionsAreCurrent'
        BY <1>1 DEF SessionInv, LoginOK, SessionsAreCurrent
    <2> QED
        BY <1>1, <2>1, <2>2, RestStep
<1>2. ASSUME NEW t \in Toks, validateRefreshCsrf(r, t) PROVE SessionInv'
    <2>1. /\ refresh' \in [Refreshers -> Toks \cup {None}]
          /\ \A q \in Refreshers : refresh'[q] # None => token[refresh'[q]] # None
        BY <1>2 DEF validateRefreshCsrf, SessionInv, TypeOK, TokenOK
    <2> QED
        BY <1>1, <1>2, <2>1 DEF validateRefreshCsrf
<1>3. CASE RefuseRefresh(r)
    BY <1>1, <1>3, RefreshEnds DEF RefuseRefresh
<1> QED
    BY <1>2, <1>3, RedeemStep, RedeemConsumedStep DEF RefreshStep

(* The session that replaces s belongs to its family, which is not dead,   *)
(* and takes its place under the cap.                                      *)
LEMMA RotatedStep ==
    ASSUME SessionInv, NEW s \in Sids, NEW n \in NewSids, NEW t \in NewToks, NEW others,
           Rotated(s, n, t, others),
           UNCHANGED <<account, login, refresh, reused, clock>>
    PROVE  SessionInv'
<1>1. n \in Sids /\ session[n] = None /\ t \in Toks /\ token[t] = None
    BY FreshIds DEF NewSids, NewToks
<1>2. session[s] \in Session /\ session[s] # None /\ ~session[s].revoked /\ clock \in Nat
    BY DEF Rotated, Live, SessionInv, TypeOK
<1>3. PICK x : x = Replacement(session[s])
    OBVIOUS
<1>4. x \in Session
    BY <1>2, <1>3 DEF Replacement, Session, Earlier
<1>5. /\ x.family = session[s].family /\ x.expires = session[s].expires /\ ~x.revoked
      /\ x.password = session[s].password
    BY <1>3 DEF Replacement
<1>6. x.password = account.password /\ ~account.disabled /\ ~account.mustChange
    BY <1>2, <1>5 DEF SessionInv, SessionsAreCurrent
<1>7. x.family \notin reused
    BY <1>2, <1>5 DEF SessionInv, ReplayedFamilyIsDead, FamilySessions
<1>8. /\ session[x.family] # None
      /\ session[x.family].created + AbsoluteTimeout = x.expires
    BY <1>2, <1>5 DEF SessionInv, FamilyOK
<1>9. PICK S : S = {s} \cup others
    OBVIOUS
<1>10. session' = [Revoke(S) EXCEPT ![n] = x]
    BY <1>3, <1>9 DEF Rotated
<1>11. \A r \in Sids : session[r] # None /\ ~session[r].revoked
                         /\ session[r].family = x.family => r \in S
    BY <1>2, <1>5, <1>9 DEF SessionInv, FamilyOK
<1>12. PICK T : T = FamilyTokens(session[s].family) \cup TokensOfSessions(others)
    OBVIOUS
<1>13. token' = [Consume(T) EXCEPT ![t] =
          [family |-> x.family, session |-> n, consumed |-> FALSE]]
    BY <1>5, <1>12 DEF Rotated
<1>14. Cardinality(LiveSessions \ S) < MaxSessions
    <2>1. PICK L : L = LiveSessions
        OBVIOUS
    <2>2. s \in L
        BY <2>1 DEF Rotated, LiveSessions
    <2>3. IsFiniteSet(L) /\ Cardinality(L) \in Nat /\ Cardinality(L) <= MaxSessions
        BY <2>1, LiveFinite, FS_CardinalityType DEF SessionInv, SessionCap
    <2>4. IsFiniteSet(L \ {s}) /\ Cardinality(L \ {s}) = Cardinality(L) - 1
        BY <2>2, <2>3, FS_RemoveElement
    <2>5. IsFiniteSet(L \ S) /\ Cardinality(L \ S) <= Cardinality(L \ {s})
        <3>1. L \ S \in SUBSET (L \ {s})
            BY <1>9
        <3> QED
            BY <2>4, <3>1, FS_Subset
    <2>6. Cardinality(L \ S) \in Nat
        BY <2>5, FS_CardinalityType
    <2>7. Cardinality(L \ S) < MaxSessions
        BY <2>3, <2>4, <2>5, <2>6
    <2> QED
        BY <2>1, <2>7
<1>15. login' \in [Logins -> Login \cup {None}] /\ LoginOK'
    BY DEF SessionInv, TypeOK, LoginOK
<1> QED
    BY <1>1, <1>4, <1>5, <1>6, <1>7, <1>8, <1>10, <1>11, <1>13, <1>14, <1>15, InsertStep

(* A higher version leaves every pending login behind.                     *)
LEMMA ChangedAccount ==
    ASSUME SessionInv, NEW password \in Nat, NEW disabled \in BOOLEAN, NEW must \in BOOLEAN,
           Changed(password, disabled, must), login' = login
    PROVE  /\ account' \in Account
           /\ account'.password = password
           /\ account'.disabled = disabled
           /\ account'.mustChange = must
           /\ LoginOK'
<1>1. account.version \in Nat
    BY DEF SessionInv, TypeOK, Account
<1>2. /\ account' = [version |-> account.version + 1, password |-> password,
                     disabled |-> disabled, mustChange |-> must, changeToken |-> FALSE]
      /\ account' \in Account
    BY <1>1 DEF Changed, Account
<1>3. /\ account'.version = account.version + 1 /\ account'.password = password
      /\ account'.disabled = disabled /\ account'.mustChange = must
    BY <1>2
<1>4. LoginOK'
    <2> SUFFICES ASSUME NEW l \in Logins, login[l] # None
                 PROVE  login[l].version <= account'.version
                        /\ login[l].version # account'.version
        BY DEF LoginOK
    <2>1. login[l].version \in Nat /\ login[l].version <= account.version
        BY DEF SessionInv, TypeOK, Login, LoginOK
    <2> QED
        BY <1>1, <1>3, <2>1
<1> QED
    BY <1>2, <1>3, <1>4

(* All sessions end with the change, so the new account may be any.        *)
LEMMA RevokeAllStep ==
    ASSUME SessionInv, RevokeAll, account' \in Account, LoginOK', AccountOnly
    PROVE  SessionInv'
<1>1. /\ session' \in [Sids -> Session \cup {None}]
      /\ \A s \in Sids : /\ KeptRow(session[s], session'[s])
                         /\ session[s] # None => session'[s].revoked
                         /\ session[s] # None => session'[s].idle = session[s].idle
    BY RevokeRows DEF SessionInv, RevokeAll
<1>2. token' \in [Toks -> Token \cup {None}] /\ TokensKept
    BY ConsumeRows DEF SessionInv, RevokeAll, TokensKept
<1>3. TypeOK' /\ clock <= clock'
    BY <1>1, <1>2 DEF AccountOnly, SessionInv, TypeOK
<1>4. SessionsKept
    BY <1>1 DEF SessionsKept
<1>5. SessionsAreCurrent'
    BY <1>1 DEF SessionsAreCurrent, KeptRow
<1>6. \A s \in Sids : Live(s)' => Live(s)
    BY <1>1, <1>3, <1>4, LiveKept
<1>7. \A r \in Refreshers : refresh'[r] # None => token[refresh'[r]] # None
    BY DEF AccountOnly, SessionInv, TokenOK
<1> QED
    BY <1>2, <1>3, <1>4, <1>5, <1>6, <1>7, KeptStep DEF AccountOnly

LEMMA SessionSteps == ASSUME SessionInv, NEW s \in Sids, SessionStep(s) PROVE SessionInv'
<1>t. account \in Account /\ account.password \in Nat /\ account.mustChange \in BOOLEAN
    BY DEF SessionInv, TypeOK, Account
<1>k. \A r \in Refreshers : refresh[r] # None => token[refresh[r]] # None
    BY DEF SessionInv, TokenOK
<1>1. CASE validateSession(s)
    <2>1. /\ session' \in [Sids -> Session \cup {None}]
          /\ SessionsKept
          /\ \A q \in Sids : session[q] # None => session'[q].idle = session[q].idle \/ Live(q)
        BY <1>1, TouchStep DEF validateSession
    <2>2. UNCHANGED <<account, token, login, refresh, reused, clock>>
        BY <1>1 DEF validateSession
    <2>3. TypeOK' /\ clock <= clock' /\ TokensKept
        BY <2>1, <2>2, TablesSame DEF SessionInv, TypeOK
    <2>4. \A q \in Sids : Live(q)' => Live(q)
        BY <2>1, <2>3, LiveKept
    <2>5. LoginOK' /\ SessionsAreCurrent'
        BY <2>1, <2>2, CurrentKept DEF SessionInv, LoginOK
    <2> QED
        BY <1>k, <2>1, <2>2, <2>3, <2>4, <2>5, KeptStep
<1>2. CASE \E n \in NewSids, t \in NewToks : rotateSession(s, n, t) \/ AcceptInvitation(s, n, t)
    BY <1>2, RotatedStep DEF rotateSession, AcceptInvitation
<1>3. CASE revokeSession(s)
    BY <1>3, RevokeStep DEF revokeSession
<1>4. ASSUME NEW S, revokeOwnSessions(s, S) PROVE SessionInv'
    BY <1>4, RevokeStep DEF revokeOwnSessions
<1>5. CASE changeUsername(s)
    <2>1. Changed(account.password, FALSE, account.mustChange) /\ login' = login
        BY <1>5 DEF changeUsername, AccountOnly
    <2>2. /\ account' \in Account /\ account'.password = account.password
          /\ ~account'.disabled /\ account'.mustChange = account.mustChange /\ LoginOK'
        BY <1>t, <2>1, ChangedAccount
    <2>3. session' = Revoke(Sids \ {s}) /\ token' = token
          /\ UNCHANGED <<login, refresh, reused, clock>>
        BY <1>5 DEF changeUsername, AccountOnly
    <2>4. /\ session' \in [Sids -> Session \cup {None}]
          /\ \A q \in Sids : /\ KeptRow(session[q], session'[q])
                             /\ session[q] # None => session'[q].idle = session[q].idle
        BY <2>3, RevokeRows DEF SessionInv
    <2>5. TypeOK' /\ clock <= clock' /\ TokensKept
        <3>1. TypeOK'
            BY <2>2, <2>3, <2>4 DEF SessionInv, TypeOK
        <3>2. clock <= clock'
            BY <2>3 DEF SessionInv, TypeOK
        <3> QED
            BY <2>3, <3>1, <3>2, TablesSame
    <2>6. SessionsKept
        BY <2>4 DEF SessionsKept
    <2>7. SessionsAreCurrent'
        BY <2>2, <2>6, CurrentKept
    <2>8. \A q \in Sids : Live(q)' => Live(q)
        BY <2>4, <2>5, <2>6, LiveKept
    <2> QED
        BY <1>k, <2>2, <2>3, <2>5, <2>6, <2>7, <2>8, KeptStep
<1>6. CASE addContact(s)
    <2>1. Changed(account.password, FALSE, account.mustChange)
          /\ UNCHANGED <<session, token, login, refresh, reused, clock>>
        BY <1>6 DEF addContact, AccountOnly
    <2>2. /\ account' \in Account /\ account'.password = account.password
          /\ ~account'.disabled /\ account'.mustChange = account.mustChange /\ LoginOK'
        BY <1>t, <2>1, ChangedAccount
    <2>3. TypeOK' /\ clock <= clock'
        BY <2>1, <2>2 DEF SessionInv, TypeOK
    <2>4. SessionsAreCurrent'
        BY <2>1, <2>2, TablesSame, CurrentKept
    <2> QED
        BY <1>k, <2>1, <2>2, <2>3, <2>4, RestStep
<1> QED
    BY <1>1, <1>2, <1>3, <1>4, <1>5, <1>6 DEF SessionStep

LEMMA AccountSteps == ASSUME SessionInv, AccountStep PROVE SessionInv'
<1>t. /\ account \in Account /\ account.password \in Nat /\ account.password + 1 \in Nat
      /\ account.mustChange \in BOOLEAN /\ account.disabled \in BOOLEAN
    BY DEF SessionInv, TypeOK, Account
<1>1. CASE expireSessions
    <2>1. account' = account /\ AccountOnly /\ RevokeAll
        BY <1>1 DEF expireSessions, AccountOnly
    <2>2. LoginOK'
        BY <2>1 DEF AccountOnly, SessionInv, LoginOK
    <2> QED
        BY <1>t, <2>1, <2>2, RevokeAllStep
<1>2. ASSUME NEW password \in Nat, NEW disabled \in BOOLEAN, NEW must \in BOOLEAN,
             Changed(password, disabled, must), RevokeAll, AccountOnly
      PROVE  SessionInv'
    <2>1. login' = login
        BY <1>2 DEF AccountOnly
    <2>2. account' \in Account /\ LoginOK'
        BY <1>2, <2>1, ChangedAccount
    <2> QED
        BY <1>2, <2>2, RevokeAllStep
<1>3. CASE resetPassword
    BY <1>t, <1>2, <1>3 DEF resetPassword
<1>4. CASE forceChangePassword
    BY <1>t, <1>2, <1>4 DEF forceChangePassword
<1>5. ASSUME NEW recovery \in BOOLEAN, RequirePasswordChange(recovery) PROVE SessionInv'
    <2>1. CASE recovery \/ ~account.mustChange
        BY <1>t, <1>2, <1>5, <2>1 DEF RequirePasswordChange
    <2>2. CASE ~(recovery \/ ~account.mustChange)
        <3>1. account' = account /\ AccountOnly /\ RevokeAll
            BY <1>5, <2>2 DEF RequirePasswordChange
        <3>2. LoginOK'
            BY <3>1 DEF AccountOnly, SessionInv, LoginOK
        <3> QED
            BY <1>t, <3>1, <3>2, RevokeAllStep
    <2> QED
        BY <2>1, <2>2
<1>6. CASE disableStaffUser
    BY <1>t, <1>2, <1>6 DEF disableStaffUser
<1> QED
    BY <1>1, <1>3, <1>4, <1>5, <1>6 DEF AccountStep

LEMMA SessionNextOK == SessionInv /\ [Next]_vars => SessionInv'
<1> SUFFICES ASSUME SessionInv, [Next]_vars PROVE SessionInv'
    OBVIOUS
<1>k. \A r \in Refreshers : refresh[r] # None => token[refresh[r]] # None
    BY DEF SessionInv, TokenOK
<1>1. ASSUME UNCHANGED <<account, session, token, login, refresh, reused>>,
             clock' \in Nat, clock <= clock'
      PROVE  SessionInv'
    <2>1. TypeOK' /\ LoginOK' /\ SessionsAreCurrent'
        BY <1>1 DEF SessionInv, TypeOK, LoginOK, SessionsAreCurrent
    <2> QED
        BY <1>k, <1>1, <2>1, RestStep
<1>2. clock \in Nat
    BY DEF SessionInv, TypeOK
<1>3. CASE Tick
    BY <1>1, <1>2, <1>3 DEF Tick
<1>4. CASE UNCHANGED vars
    BY <1>1, <1>2, <1>4 DEF vars
<1> QED
    BY <1>3, <1>4, LoginSteps, RefreshSteps, SessionSteps, AccountSteps DEF Next

LEMMA SessionInvariance == Spec => []SessionInv
BY SessionInitOK, SessionNextOK, PTL DEF Spec

-------------------------------------------------------------------------------
(* The types of the model's state.                                         *)
THEOREM SessionTypeCorrect == Spec => []TypeOK
<1>1. SessionInv => TypeOK
    BY DEF SessionInv
<1> QED
    BY <1>1, SessionInvariance, PTL

(* disableStaffUser, resetPassword, forceChangePassword, createSession: no *)
(* session in force stems from a password that is not the account's, or    *)
(* from an account that is disabled or must change its password.           *)
THEOREM NoSessionOutlivesItsCredential == Spec => []SessionsAreCurrent
<1>1. SessionInv => SessionsAreCurrent
    BY DEF SessionInv
<1> QED
    BY <1>1, SessionInvariance, PTL

(* redeemRefreshToken: a family whose consumed token came again stays dead *)
(* in all its sessions and tokens, whatever rotates at the same time.      *)
THEOREM ReplayEndsTheFamily == Spec => []ReplayedFamilyIsDead
<1>1. SessionInv => ReplayedFamilyIsDead
    BY DEF SessionInv
<1> QED
    BY <1>1, SessionInvariance, PTL

(* createSession, rotateSession, redeemRefreshToken: one usable token for  *)
(* a login, one absolute lifetime, and no more live sessions than the cap. *)
THEOREM LoginsStayBounded == Spec => []LoginsAreBounded
<1>1. ASSUME SessionInv PROVE LoginsAreBounded
    <2>1. OneTokenPerFamily
        <3> SUFFICES ASSUME NEW t \in Toks, NEW u \in Toks, Redeemable(t), Redeemable(u),
                            token[t].family = token[u].family
                     PROVE  t = u
            BY DEF OneTokenPerFamily
        <3>1. /\ token[t] \in Token /\ token[u] \in Token
              /\ token[t] # None /\ ~token[t].consumed
              /\ token[u] # None /\ ~token[u].consumed
            BY <1>1 DEF Redeemable, SessionInv, TypeOK
        <3>2. PICK s \in Sids, r \in Sids : s = token[t].session /\ r = token[u].session
            BY <3>1 DEF Token
        <3>3. /\ session[s] # None /\ ~session[s].revoked
              /\ session[r] # None /\ ~session[r].revoked
            BY <3>2 DEF Redeemable, Live
        <3>4. session[s].family = session[r].family
            BY <1>1, <3>1, <3>2 DEF SessionInv, TokenOK
        <3>5. s = r
            BY <1>1, <3>3, <3>4 DEF SessionInv, FamilyOK
        <3> QED
            BY <1>1, <3>1, <3>2, <3>5 DEF SessionInv, TokenOK
    <2>2. WithinAbsoluteLifetime
        <3> SUFFICES ASSUME NEW s \in Sids, Live(s)
                     PROVE  /\ session[session[s].family] # None
                            /\ clock < session[session[s].family].created + AbsoluteTimeout
            BY DEF WithinAbsoluteLifetime, LiveSessions
        <3>1. session[s] \in Session /\ session[s].expires \in Nat /\ clock \in Nat
            BY <1>1 DEF Live, SessionInv, TypeOK, Session
        <3> QED
            BY <1>1, <3>1 DEF Live, SessionInv, FamilyOK
    <2> QED
        BY <1>1, <2>1, <2>2 DEF SessionInv, LoginsAreBounded
<1> QED
    BY <1>1, SessionInvariance, PTL

===============================================================================
