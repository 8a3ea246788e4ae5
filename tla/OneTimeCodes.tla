----------------------------- MODULE OneTimeCodes -----------------------------
(***************************************************************************)
(* One-time codes of one account, from the request to the message and to   *)
(* the answer: AuthService and OtpService (apps/api/src/auth) over         *)
(* otp_challenges, with the worker that delivers the codes                 *)
(* (apps/worker/src/auth-delivery/runner.ts) from auth_delivery_outbox.    *)
(*                                                                         *)
(* A challenge is a request for a code, to sign in or to reset the         *)
(* password.  A code is generated together with the row that delivers it,  *)
(* so the delivery's id stands for the code: challenge[c].code is          *)
(* otp_hash, and a resend gives the challenge another one.                 *)
(*                                                                         *)
(* An answer (guess) is a transaction that first locks its challenge and   *)
(* then the account; requests for other codes and changes of the account   *)
(* come in between.  A request locks only the account, a resend reads its  *)
(* challenge without a lock and compares when it writes.                   *)
(***************************************************************************)
EXTENDS Integers

CONSTANTS
    Challenges,     \* challenge_id: every request for a code has its own
    Deliveries,     \* auth_delivery_outbox.id, and the code it carries
    Guesses,        \* concurrent answers
    Resends,        \* concurrent requests for another code
    Workers,        \* processes that deliver
    MAX_ATTEMPTS,   \* wrong codes per challenge
    MaxSends,       \* attempts per delivery
    MaxEvents,      \* bound on resends, changes of the account, passed
                    \* deadlines, killed workers and leases that lapse
    Nil

VARIABLES
    user,       \* users: version, disabled_at, password_reset_challenge_id
    challenge,  \* otp_challenges, from the moment the request is made
    delivery,   \* auth_delivery_outbox, with the worker that holds the lease
    guess,      \* the answers in progress and the lock each holds
    resend,     \* what each resend has read
    worker,     \* what each worker has in hand
    wrong,      \* history: wrong codes answered per challenge
    newest,     \* history: the last password reset that was asked for
    events      \* counts what MaxEvents bounds

codesVars == <<user, challenge, delivery, guess, resend, worker, wrong,
               newest, events>>

codes == <<user, challenge, guess, resend, wrong, newest>>

Purposes == {"login", "password_reset"}

ASSUME CodesAssumption ==
    /\ MAX_ATTEMPTS \in Nat
    /\ MaxSends \in Nat
    /\ MaxEvents \in Nat
    /\ Nil \notin Challenges \cup Deliveries \cup Workers \cup Purposes

Unasked ==
    [status |-> "new", purpose |-> Nil, version |-> 0, code |-> Nil,
     attempts |-> 0, expired |-> FALSE, consumed |-> FALSE, grant |-> "none"]

Unwritten ==
    [status |-> "unused", of |-> Nil, attempts |-> 0, holder |-> Nil]

NoGuess == [pc |-> "idle", of |-> Nil, by |-> "code"]

Quiet == [pc |-> "idle", of |-> Nil, attempts |-> 0]

CodesInit ==
    /\ user = [version |-> 1, disabled |-> FALSE, current |-> Nil]
    /\ challenge = [c \in Challenges |-> Unasked]
    /\ delivery = [d \in Deliveries |-> Unwritten]
    /\ guess = [g \in Guesses |-> NoGuess]
    /\ resend = [n \in Resends |-> [of |-> Nil, code |-> Nil]]
    /\ worker = [w \in Workers |-> Quiet]
    /\ wrong = [c \in Challenges |-> 0]
    /\ newest = Nil
    /\ events = 0

Happens == events < MaxEvents /\ events' = events + 1

-------------------------------------------------------------------------------
(* Asking for a code.                                                      *)

(* The caller found the account, by its destination or by checking the     *)
(* password, and remembers the version it saw.  Ids are random: which      *)
(* fresh one a challenge or a delivery gets makes no difference.           *)
LookUpAccount(c, purpose) ==
    /\ challenge[c].status = "new"
    /\ c = CHOOSE x \in Challenges : challenge[x].status = "new"
    /\ purpose = "login" => ~user.disabled
    /\ challenge' = [challenge EXCEPT ![c] =
          [@ EXCEPT !.status = "asked", !.purpose = purpose,
                    !.version = user.version]]
    /\ UNCHANGED <<user, delivery, guess, resend, worker, wrong, newest,
                   events>>

AccountIsCurrent(version) == user.version = version /\ ~user.disabled

Queue(d, c) ==
    /\ delivery[d].status = "unused"
    /\ d = CHOOSE x \in Deliveries : delivery[x].status = "unused"
    /\ delivery' = [delivery EXCEPT ![d].status = "pending", ![d].of = c]

(* The challenge and its delivery are inserted by one statement, if the    *)
(* account is still the one that was looked up; for a password reset the   *)
(* same statement makes the challenge the account's current one.           *)
createAccountChallenge(c) ==
    /\ challenge[c].status = "asked"
    /\ \/ /\ AccountIsCurrent(challenge[c].version)
          /\ \E d \in Deliveries :
                /\ Queue(d, c)
                /\ challenge' = [challenge EXCEPT ![c] =
                      [@ EXCEPT !.status = "open", !.code = d,
                                !.attempts = MAX_ATTEMPTS]]
          /\ IF challenge[c].purpose = "password_reset"
             THEN /\ user' = [user EXCEPT !.current = c]
                  /\ newest' = c
             ELSE UNCHANGED <<user, newest>>
       \/ /\ ~AccountIsCurrent(challenge[c].version)
          /\ challenge' = [challenge EXCEPT ![c] =
                                 [Unasked EXCEPT !.status = "refused"]]
          /\ UNCHANGED <<user, newest, delivery>>
    /\ UNCHANGED <<guess, resend, worker, wrong, events>>

Answerable(c) ==
    /\ challenge[c].status = "open"
    /\ ~challenge[c].consumed
    /\ ~challenge[c].expired
    /\ challenge[c].attempts > 0

Locked(c) == \E g \in Guesses : guess[g].pc = "locked" /\ guess[g].of = c

(* A resend reads the challenge without a lock and generates a code.       *)
ReadForResend(n, c) ==
    /\ Happens
    /\ resend[n].of = Nil
    /\ Answerable(c)
    /\ resend' = [resend EXCEPT ![n] = [of |-> c, code |-> challenge[c].code]]
    /\ UNCHANGED <<user, challenge, delivery, guess, worker, wrong, newest>>

(* As below, but a new code comes with new attempts.                       *)
resendChallengeAfresh(n) ==
    LET c == resend[n].of
    IN  /\ c # Nil
        /\ ~Locked(c)
        /\ Answerable(c)
        /\ challenge[c].code = resend[n].code
        /\ resend' = [resend EXCEPT ![n] = [of |-> Nil, code |-> Nil]]
        /\ \E d \in Deliveries :
              /\ Queue(d, c)
              /\ challenge' = [challenge EXCEPT ![c].code = d,
                                                ![c].attempts = MAX_ATTEMPTS]
        /\ UNCHANGED <<user, guess, worker, wrong, newest, events>>

(* Its UPDATE waits for an answer that holds the row and goes through only *)
(* if the challenge still has the code that was read and is answerable.    *)
(* The attempts that are left stay: they belong to the challenge, not to   *)
(* the code.                                                               *)
resendChallenge(n) ==
    LET c == resend[n].of
    IN  /\ c # Nil
        /\ ~Locked(c)
        /\ resend' = [resend EXCEPT ![n] = [of |-> Nil, code |-> Nil]]
        /\ \/ /\ Answerable(c)
              /\ challenge[c].code = resend[n].code
              /\ \E d \in Deliveries :
                    /\ Queue(d, c)
                    /\ challenge' = [challenge EXCEPT ![c].code = d]
           \/ /\ ~(Answerable(c) /\ challenge[c].code = resend[n].code)
              /\ UNCHANGED <<challenge, delivery>>
        /\ UNCHANGED <<user, guess, worker, wrong, newest, events>>

-------------------------------------------------------------------------------
(* Answering.                                                              *)

(* An answer brings a code or, for a password reset, the token it got for  *)
(* one.  It locks the challenge and checks it; a token that was never      *)
(* given changes nothing.                                                  *)
LockChallenge(g, c, by) ==
    /\ guess[g].pc = "idle"
    /\ ~Locked(c)
    /\ IF by = "code"
       THEN Answerable(c)
       ELSE challenge[c].grant = "issued" /\ ~challenge[c].expired
    /\ guess' = [guess EXCEPT ![g] = [pc |-> "locked", of |-> c, by |-> by]]
    /\ UNCHANGED <<user, challenge, delivery, resend, worker, wrong,
                   newest, events>>

(* As below, but the account's current challenge is not asked for.         *)
AuthorizedByVersion(c) ==
    AccountIsCurrent(challenge[c].version) /\ ~challenge[c].expired

(* Under the account's lock: the account is the one the challenge was made *)
(* for, no other reset was asked for meanwhile, the deadline is not over.  *)
Authorized(c) ==
    /\ AccountIsCurrent(challenge[c].version)
    /\ challenge[c].purpose = "password_reset" => user.current \in {Nil, c}
    /\ ~challenge[c].expired

Release(g) == guess' = [guess EXCEPT ![g] = NoGuess]

(* Anything else, and a new password that was used before, rolls back.     *)
Reject(g) ==
    /\ guess[g].pc = "locked"
    /\ \/ ~Authorized(guess[g].of)
       \/ challenge[guess[g].of].purpose = "password_reset"
    /\ Release(g)
    /\ UNCHANGED <<user, challenge, delivery, resend, worker, wrong,
                   newest, events>>

(* A wrong code costs an attempt, and that is committed.                   *)
RejectCode(g) ==
    LET c == guess[g].of
    IN  /\ guess[g].pc = "locked"
        /\ guess[g].by = "code"
        /\ Authorized(c)
        /\ challenge' = [challenge EXCEPT ![c].attempts = @ - 1]
        /\ wrong' = [wrong EXCEPT ![c] = @ + 1]
        /\ Release(g)
        /\ UNCHANGED <<user, delivery, resend, worker, newest, events>>

Spend(row, grant) ==
    [row EXCEPT !.consumed = TRUE, !.attempts = 0, !.grant = grant]

(* The trigger users_auth_version counts every change of the credentials.  *)
NewPassword == user' = [user EXCEPT !.version = @ + 1]

(* The right code signs in or is exchanged for a token (verifyResetOtp).   *)
AcceptCode(g) ==
    LET c == guess[g].of
    IN  /\ guess[g].pc = "locked"
        /\ guess[g].by = "code"
        /\ Authorized(c)
        /\ challenge' = [challenge EXCEPT ![c] =
               Spend(@, IF @.purpose = "login" THEN "none" ELSE "issued")]
        /\ Release(g)
        /\ UNCHANGED <<user, delivery, resend, worker, wrong, newest,
                       events>>

(* The right code, or the token, sets the new password.                    *)
resetByChallenge(g) ==
    LET c == guess[g].of
    IN  /\ guess[g].pc = "locked"
        /\ challenge[c].purpose = "password_reset"
        /\ Authorized(c)
        /\ challenge' = [challenge EXCEPT ![c] =
               IF guess[g].by = "code" THEN Spend(@, "none")
                                       ELSE [@ EXCEPT !.grant = "spent"]]
        /\ NewPassword
        /\ Release(g)
        /\ UNCHANGED <<delivery, resend, worker, wrong, newest, events>>

-------------------------------------------------------------------------------
(* What happens to the account and to the clock.                           *)

ChangeAccount ==
    /\ Happens
    /\ \E off \in BOOLEAN :
          user' = [user EXCEPT !.version = @ + 1, !.disabled = off]
    /\ UNCHANGED <<challenge, delivery, guess, resend, worker, wrong,
                   newest>>

(* The deadline of a challenge passes; nobody reads that of one that is    *)
(* spent.                                                                  *)
Expire(c) ==
    /\ Happens
    /\ Answerable(c) \/ challenge[c].grant = "issued"
    /\ ~challenge[c].expired
    /\ challenge' = [challenge EXCEPT ![c].expired = TRUE]
    /\ UNCHANGED <<user, delivery, guess, resend, worker, wrong, newest>>

-------------------------------------------------------------------------------
(* Delivering.                                                             *)

(* A claim counts as an attempt, also when nothing comes of it.            *)
Lease(w, d) ==
    /\ worker[w].pc = "idle"
    /\ delivery' = [delivery EXCEPT ![d].status = "leased", ![d].holder = w,
                                    ![d].attempts = @ + 1]
    /\ worker' = [worker EXCEPT ![w] = [pc |-> "claimed", of |-> d,
                                        attempts |-> delivery[d].attempts + 1]]
    /\ UNCHANGED codes

(* A queued row is claimed, after its back-off.                            *)
Claim(w, d) ==
    /\ delivery[d].status = "pending"
    /\ Lease(w, d)
    /\ UNCHANGED events

(* So is a row whose lease is over: its worker is dead, or only slow.      *)
Reclaim(w, d) ==
    /\ delivery[d].status = "leased"
    /\ IF worker[delivery[d].holder].of = d
       THEN Happens
       ELSE UNCHANGED events
    /\ Lease(w, d)

Go(w, to) == worker' = [worker EXCEPT ![w].pc = to]

(* The code is still the challenge's, and an answer could still use it.    *)
Valid(d) ==
    LET c == delivery[d].of
    IN  /\ challenge[c].code = d
        /\ Answerable(c)
        /\ AccountIsCurrent(challenge[c].version)

(* As below, but a challenge that an answer holds is skipped.              *)
CheckUnlocked(w) ==
    LET d == worker[w].of
    IN  /\ worker[w].pc = "claimed"
        /\ Go(w, IF ~Valid(d) \/ Locked(delivery[d].of) THEN "cancelled"
                 ELSE IF worker[w].attempts > MaxSends THEN "dead"
                 ELSE "sending")
        /\ UNCHANGED <<codes, delivery, events>>

(* The worker asks whether the code is worth sending and acts later.       *)
Check(w) ==
    /\ worker[w].pc = "claimed"
    /\ \/ ~Valid(worker[w].of) /\ Go(w, "cancelled")
       \/ /\ Valid(worker[w].of)
          /\ Go(w, IF worker[w].attempts > MaxSends THEN "dead" ELSE "sending")
    /\ UNCHANGED <<codes, delivery, events>>

(* The provider is called outside any transaction and accepts; or it       *)
(* refuses, its answer is lost, or the payload or the lease, which the     *)
(* first attempt of an e-mail checks again, is not in order.               *)
Send(w) ==
    /\ worker[w].pc = "sending"
    /\ Go(w, "sent") \/ Go(w, "failed")
    /\ UNCHANGED <<codes, delivery, events>>

(* The attempts of a row that is done are not read again.                  *)
Ended(row, status) ==
    [row EXCEPT !.status = status, !.holder = Nil,
                !.attempts = IF status = "pending" THEN @ ELSE 0]

(* The end of an attempt goes by lease token only: a worker that lost its  *)
(* lease changes nothing.                                                  *)
End(w, status) ==
    /\ delivery' = LET d == worker[w].of
                   IN  IF delivery[d].holder = w
                       THEN [delivery EXCEPT ![d] = Ended(@, status)]
                       ELSE delivery
    /\ worker' = [worker EXCEPT ![w] = Quiet]
    /\ UNCHANGED <<codes, events>>

Finish(w) ==
    /\ worker[w].pc \in {"sent", "cancelled", "dead"}
    /\ End(w, worker[w].pc)

(* A failed attempt goes back to the queue, the last one does not.         *)
Fail(w) ==
    /\ worker[w].pc = "failed"
    /\ End(w, IF worker[w].attempts >= MaxSends THEN "dead" ELSE "pending")

WorkerDies(w) ==
    /\ worker[w].pc # "idle"
    /\ Happens
    /\ worker' = [worker EXCEPT ![w] = Quiet]
    /\ UNCHANGED <<codes, delivery>>

-------------------------------------------------------------------------------
Work(w) == Check(w) \/ Send(w) \/ Finish(w) \/ Fail(w)

CodesNext ==
    \/ \E c \in Challenges :
          \/ \E purpose \in Purposes : LookUpAccount(c, purpose)
          \/ createAccountChallenge(c)
          \/ Expire(c)
          \/ \E n \in Resends : ReadForResend(n, c)
          \/ \E g \in Guesses, by \in {"code", "grant"} :
                LockChallenge(g, c, by)
    \/ \E n \in Resends : resendChallenge(n)
    \/ \E g \in Guesses :
          Reject(g) \/ RejectCode(g) \/ AcceptCode(g) \/ resetByChallenge(g)
    \/ ChangeAccount
    \/ \E w \in Workers :
          \/ Work(w)
          \/ WorkerDies(w)
          \/ \E d \in Deliveries : Claim(w, d) \/ Reclaim(w, d)

CodesSpec == CodesInit /\ [][CodesNext]_codesVars

-------------------------------------------------------------------------------
(* Properties.                                                             *)

User == [version: Nat, disabled: BOOLEAN, current: Challenges \cup {Nil}]

Challenge ==
    [status: {"new", "asked", "open", "refused"},
     purpose: Purposes \cup {Nil}, version: Nat,
     code: Deliveries \cup {Nil}, attempts: 0 .. MAX_ATTEMPTS,
     expired: BOOLEAN, consumed: BOOLEAN,
     grant: {"none", "issued", "spent"}]

Delivery ==
    [status: {"unused", "pending", "leased", "sent", "cancelled", "dead"},
     of: Challenges \cup {Nil}, attempts: Nat, holder: Workers \cup {Nil}]

Guess == [pc: {"idle", "locked"}, of: Challenges \cup {Nil},
          by: {"code", "grant"}]

Resend == [of: Challenges \cup {Nil}, code: Deliveries \cup {Nil}]

Worker ==
    [pc: {"idle", "claimed", "sending", "sent", "failed", "cancelled", "dead"},
     of: Deliveries \cup {Nil}, attempts: Nat]

CodesTypeOK ==
    /\ user \in User
    /\ challenge \in [Challenges -> Challenge]
    /\ delivery \in [Deliveries -> Delivery]
    /\ guess \in [Guesses -> Guess]
    /\ resend \in [Resends -> Resend]
    /\ worker \in [Workers -> Worker]
    /\ wrong \in [Challenges -> Nat]
    /\ newest \in Challenges \cup {Nil}
    /\ events \in 0 .. MaxEvents

(* However answers and resends interleave, a challenge takes no more than  *)
(* MAX_ATTEMPTS wrong codes, whichever of its codes they were meant for    *)
(* (otp.service.ts: "new OTP, same attempts budget").                      *)
GuessesAreBounded == \A c \in Challenges : wrong[c] <= MAX_ATTEMPTS

(* Only the last reset that was asked for opens the account, and only the  *)
(* account it was asked for: a code or token is honoured on no other       *)
(* version, and not once another reset was requested while it waited.      *)
ResetsFollowTheLastRequest ==
    [][\A c \in Challenges :
          /\ challenge[c].purpose = "password_reset"
          /\ \/ challenge'[c].consumed # challenge[c].consumed
             \/ challenge'[c].grant # challenge[c].grant
          => c = newest /\ AccountIsCurrent(challenge[c].version)]_codesVars

(* A delivery is cancelled only when its code is void for good: no later   *)
(* resend, change of the account or answer makes it usable again, so no    *)
(* customer waits for a code that would work and is never sent.            *)
CancelledIsVoid ==
    \A d \in Deliveries : delivery[d].status = "cancelled" => ~Valid(d)

(* A code that was written and can not be answered any more never can be   *)
(* again: nothing gives attempts, time or an account version back, and a   *)
(* resend only puts other codes in its place (verifyOtp, resendOtp).       *)
VoidCodesStayVoid ==
    [][\A d \in Deliveries :
          delivery[d].status # "unused" /\ ~Valid(d) => ~Valid(d)']_codesVars

===============================================================================
