----------------------------- MODULE WalletLedger -----------------------------
(***************************************************************************)
(* The customer wallet: WalletService (apps/api/src/wallet) over the       *)
(* tables wallets and wallet_transactions, with the credit posting shared  *)
(* with the refund worker (packages/db/src/wallet-credit.ts).              *)
(*                                                                         *)
(* A client is one API or worker call that owns a database transaction.    *)
(* Its steps are the statements at which another transaction can get in    *)
(* between:                                                                *)
(*                                                                         *)
(*   submitted  the call was made; BEGIN                                   *)
(*   locked     profile FOR SHARE and wallet row FOR UPDATE are held       *)
(*   clear      the idempotency key was looked up and not found, and the   *)
(*              checks of the operation passed                             *)
(*   posted     the balance UPDATE and the ledger INSERT are done, not     *)
(*              yet committed                                              *)
(*   violated   the INSERT hit the unique index; the transaction was       *)
(*              rolled back and the winner's row is about to be read       *)
(*   replied    the caller has its answer                                  *)
(*                                                                         *)
(* The wallet lock serializes calls on one wallet.  It does not serialize  *)
(* two calls on different wallets that carry the same idempotency key: for *)
(* these only the unique index decides.                                    *)
(*                                                                         *)
(* Amounts are unbounded integers: BIGINT columns and JavaScript BigInt.   *)
(* Domain references and reversal reasons are abstract values of Refs.     *)
(***************************************************************************)
EXTENDS Integers, FiniteSetsExt

CONSTANTS
    Wallets,    \* wallets.profile_id: one wallet per customer profile
    TxIds,      \* wallet_transactions.id; its size bounds the ledger
    Keys,       \* idempotency keys
    Refs,       \* domain references and reversal reasons
    Clients,    \* concurrent calls
    Requests,   \* the commands the callers may issue
    None        \* SQL NULL / no row

Ops == {"credit", "debit", "reserve", "release", "reverse"}

CreditTypes == {"topup", "refund", "compensating"}

DebitTypes == {"payment", "compensating"}

REVERSIBLE_WALLET_LEDGER_TYPES == {"topup", "payment", "refund", "compensating"}

LedgerTypes == REVERSIBLE_WALLET_LEDGER_TYPES \cup {"reservation", "reversal"}

LedgerStates == {"Reserved", "Completed", "Released"}

(* A row of wallet_transactions.  ref is the domain reference; on a        *)
(* reversal it is the reason, the field a replay compares in its place.    *)
Row == [wallet: Wallets, type: LedgerTypes, amount: Int \ {0},
        state: LedgerStates, key: Keys, ref: Refs,
        reverses: TxIds \cup {None}]

(* A command.  release and reverse name a ledger row (target) and take the *)
(* wallet from it; the others name the wallet.  versioned: the caller      *)
(* passes the version it read earlier as expectedVersion (debit only).     *)
Request == [op: Ops, wallet: Wallets, type: LedgerTypes, amount: Int,
            key: Keys, ref: Refs, target: TxIds \cup {None},
            versioned: BOOLEAN]

ASSUME RequestsAssumption == Requests \subseteq Request

ASSUME NoneAssumption == None \notin TxIds /\ None \notin Row /\ None \notin Int

VARIABLES
    archived,   \* profiles.archived
    opened,     \* profiles that have a row in wallets
    wallets,    \* committed wallets rows: posted, reserved, version
    ledger,     \* committed wallet_transactions rows, by id
    pc,         \* where each client's call is
    req,        \* its command
    expected,   \* expectedVersion of its command, or None
    seen,       \* the wallet and profile row it read under its locks
    draft,      \* its uncommitted ledger write: row id and row
    after,      \* its uncommitted wallets row
    reply       \* what the caller was told: "ok" with a row id, or "error"

vars == <<archived, opened, wallets, ledger, pc, req, expected, seen, draft,
          after, reply>>

Balance == [posted: Int, reserved: Int, version: Nat]

Seen == [wallet: Wallets, balance: Balance, archived: BOOLEAN]

Empty == [posted |-> 0, reserved |-> 0, version |-> 0]

NoDraft == [id |-> None, row |-> None]

NoReply == [status |-> "none", id |-> None]

Error == [status |-> "error", id |-> None]

Ok(id) == [status |-> "ok", id |-> id]

Available(balance) == balance.posted - balance.reserved

(* The transaction of c holds its locks: the profile row FOR SHARE and the *)
(* wallet row FOR UPDATE.                                                  *)
Holding(c) == pc[c] \in {"locked", "clear", "posted"}

Holds(c, w) == Holding(c) /\ seen[c].wallet = w

RowsWithKey(k) == {id \in TxIds : ledger[id] # None /\ ledger[id].key = k}

ReversalsOf(target) ==
    {id \in TxIds : ledger[id] # None /\ ledger[id].reverses = target}

TargetsRow(r) == r.op \in {"release", "reverse"}

(* lockWalletProfile(source): the wallet a command works on.               *)
WalletOf(r) == IF TargetsRow(r) THEN ledger[r.target].wallet ELSE r.wallet

(* The ledger row a command inserts.  A replay has to find exactly this    *)
(* row: same wallet, type, signed amount, state, reference and original.   *)
CommandRow(r) ==
    [wallet   |-> WalletOf(r),
     type     |-> CASE r.op = "reserve" -> "reservation"
                    [] r.op = "reverse" -> "reversal"
                    [] OTHER -> r.type,
     amount   |-> CASE r.op = "debit" -> -r.amount
                    [] r.op = "reverse" -> -ledger[r.target].amount
                    [] OTHER -> r.amount,
     state    |-> IF r.op = "reserve" THEN "Reserved" ELSE "Completed",
     key      |-> r.key,
     ref      |-> r.ref,
     reverses |-> IF r.op = "reverse" THEN r.target ELSE None]

(* Mutant: a known key is a replay, whatever was posted under it.          *)
ReplayReplyByKeyOnly(r, id) == Ok(id)

(* assertMatching...Replay: what the key lookup answers.                   *)
ReplayReply(r, id) == IF ledger[id] = CommandRow(r) THEN Ok(id) ELSE Error

(* What has to be available before the command may post.                   *)
availableRequired(r) ==
    CASE r.op = "credit" -> 0
      [] r.op \in {"debit", "reserve"} -> r.amount
      [] r.op = "reverse" -> IF ledger[r.target].amount > 0
                             THEN ledger[r.target].amount ELSE 0

(* Argument validation, before any statement is sent.                      *)
Valid(r) ==
    CASE r.op = "credit"  -> r.amount > 0 /\ r.type \in CreditTypes
      [] r.op = "debit"   -> r.amount > 0 /\ r.type \in DebitTypes
      [] r.op = "reserve" -> r.amount > 0
      [] r.op \in {"release", "reverse"} -> r.target # None

(* The checks of reverseTransaction on the original row.                   *)
Reversible(id) ==
    /\ ledger[id].type \in REVERSIBLE_WALLET_LEDGER_TYPES
    /\ ledger[id].state = "Completed"

-------------------------------------------------------------------------------
Init ==
    /\ archived = [w \in Wallets |-> FALSE]
    /\ opened = {}
    /\ wallets = [w \in Wallets |-> Empty]
    /\ ledger = [id \in TxIds |-> None]
    /\ pc = [c \in Clients |-> "idle"]
    /\ req = [c \in Clients |-> None]
    /\ expected = [c \in Clients |-> None]
    /\ seen = [c \in Clients |-> None]
    /\ draft = [c \in Clients |-> NoDraft]
    /\ after = [c \in Clients |-> Empty]
    /\ reply = [c \in Clients |-> NoReply]

(* createWallet: one INSERT ... SELECT from the active profile; a wallet   *)
(* that exists is left alone.                                              *)
CreateWallet(w) ==
    /\ w \notin opened
    /\ ~archived[w]
    /\ opened' = opened \cup {w}
    /\ UNCHANGED <<archived, wallets, ledger, pc, req, expected, seen, draft,
                   after, reply>>

(* Mutant: the profile is read without waiting for its FOR SHARE holders.  *)
ArchiveProfileUnlocked(w) ==
    /\ ~archived[w]
    /\ wallets[w].posted = 0
    /\ wallets[w].reserved = 0
    /\ archived' = [archived EXCEPT ![w] = TRUE]
    /\ UNCHANGED <<opened, wallets, ledger, pc, req, expected, seen, draft,
                   after, reply>>

(* deleteProfile and staffExecuteClosure: the profile row is locked FOR    *)
(* UPDATE, which waits for every FOR SHARE holder, and archived only over  *)
(* an empty wallet.                                                        *)
ArchiveProfile(w) ==
    /\ ~archived[w]
    /\ \A c \in Clients : ~Holds(c, w)
    /\ wallets[w].posted = 0
    /\ wallets[w].reserved = 0
    /\ archived' = [archived EXCEPT ![w] = TRUE]
    /\ UNCHANGED <<opened, wallets, ledger, pc, req, expected, seen, draft,
                   after, reply>>

(* A caller issues a command, for the first time or again.  Invalid        *)
(* arguments are refused before the database is touched.  expectedVersion  *)
(* is whatever the caller read earlier.                                    *)
Submit(c, r) ==
    /\ pc[c] \in {"idle", "replied"}
    /\ req' = [req EXCEPT ![c] = r]
    /\ expected' = [expected EXCEPT ![c] =
                      IF r.op = "debit" /\ r.versioned
                      THEN wallets[r.wallet].version ELSE None]
    /\ pc' = [pc EXCEPT ![c] = IF Valid(r) THEN "submitted" ELSE "replied"]
    /\ reply' = [reply EXCEPT ![c] = IF Valid(r) THEN NoReply ELSE Error]
    /\ UNCHANGED <<archived, opened, wallets, ledger, seen, draft, after>>

(* COMMIT or ROLLBACK: the locks and what the transaction had read or      *)
(* written but not published are gone.                                     *)
EndTransaction(c) ==
    /\ seen' = [seen EXCEPT ![c] = None]
    /\ draft' = [draft EXCEPT ![c] = NoDraft]
    /\ after' = [after EXCEPT ![c] = Empty]

(* The call ends with an answer.                                           *)
Finish(c, answer) ==
    /\ EndTransaction(c)
    /\ pc' = [pc EXCEPT ![c] = "replied"]
    /\ reply' = [reply EXCEPT ![c] = answer]

(* NotFound: no such ledger row, or no wallet for the profile.             *)
NotFound(c) ==
    /\ pc[c] = "submitted"
    /\ \/ TargetsRow(req[c]) /\ ledger[req[c].target] = None
       \/ ~TargetsRow(req[c]) /\ req[c].wallet \notin opened
    /\ Finish(c, Error)
    /\ UNCHANGED <<archived, opened, wallets, ledger, req, expected>>

(* lockWalletProfile, then SELECT ... FROM wallets ... FOR UPDATE (for     *)
(* release and reverse the ledger row in between).  The FOR UPDATE waits   *)
(* until no other transaction holds the wallet.                            *)
LockWallet(c) ==
    /\ pc[c] = "submitted"
    /\ TargetsRow(req[c]) => ledger[req[c].target] # None
    /\ LET w == WalletOf(req[c])
       IN  /\ w \in opened
           /\ \A d \in Clients \ {c} : ~Holds(d, w)
           /\ seen' = [seen EXCEPT ![c] =
                         [wallet |-> w, balance |-> wallets[w],
                          archived |-> archived[w]]]
    /\ pc' = [pc EXCEPT ![c] = "locked"]
    /\ UNCHANGED <<archived, opened, wallets, ledger, req, expected, draft,
                   after, reply>>

(* What refuses a command whose key is new: assertWalletProfileWritable,   *)
(* expectedVersion, the reversal checks, and the balance.                  *)
Refused(c) ==
    LET r == req[c]
    IN  \/ seen[c].archived
        \/ expected[c] # None /\ seen[c].balance.version # expected[c]
        \/ r.op = "reverse" /\ ReversalsOf(r.target) # {}
        \/ Available(seen[c].balance) < availableRequired(r)

(* The idempotency lookup and the checks of credit, debit, reserve and     *)
(* reverseTransaction.  reverseTransaction tests its original first.       *)
Lookup(c) ==
    /\ pc[c] = "locked"
    /\ req[c].op # "release"
    /\ LET r == req[c]
           found == RowsWithKey(r.key)
       IN  IF r.op = "reverse" /\ ~Reversible(r.target) THEN Finish(c, Error)
           ELSE IF found # {}
                THEN Finish(c, ReplayReply(r, CHOOSE id \in found : TRUE))
           ELSE IF Refused(c) THEN Finish(c, Error)
           ELSE /\ pc' = [pc EXCEPT ![c] = "clear"]
                /\ UNCHANGED <<seen, draft, after, reply>>
    /\ UNCHANGED <<archived, opened, wallets, ledger, req, expected>>

(* Mutant: no unique index behind the lookup.                              *)
UniqueViolationNever(row) == FALSE

(* The unique indexes idx_wallet_tx_idempotency and                        *)
(* uq_wallet_tx_reverses_transaction against a committed row ...           *)
UniqueViolation(row) ==
    \/ RowsWithKey(row.key) # {}
    \/ row.reverses # None /\ ReversalsOf(row.reverses) # {}

(* Mutant: an INSERT also waits for transactions that only looked the key  *)
(* up.                                                                     *)
InsertWaitsForLookups(c, row) ==
    \E d \in Clients \ {c} :
        pc[d] \in {"clear", "posted"} /\ req[d].key = row.key

(* ... and against another transaction's uncommitted row, which an INSERT  *)
(* waits for.                                                              *)
InsertWaits(c, row) ==
    \E d \in Clients \ {c} :
        /\ pc[d] = "posted"
        /\ req[d].op # "release"
        /\ \/ draft[d].row.key = row.key
           \/ row.reverses # None /\ draft[d].row.reverses = row.reverses

FreeIds == {id \in TxIds : /\ ledger[id] = None
                           /\ \A d \in Clients : draft[d].id # id}

(* The UPDATE of wallets and the INSERT into wallet_transactions of one    *)
(* command.  guard is the WHERE clause beside version = expectedVersion;   *)
(* no row updated is a Conflict and a ROLLBACK.                            *)
PostRow(c, guard, balance) ==
    LET w == seen[c].wallet
        row == CommandRow(req[c])
    IN  /\ ~InsertWaits(c, row)
        /\ IF UniqueViolation(row)
           THEN /\ EndTransaction(c)
                /\ pc' = [pc EXCEPT ![c] = "violated"]
                /\ UNCHANGED reply
           ELSE IF wallets[w].version # seen[c].balance.version \/ ~guard
           THEN Finish(c, Error)
           ELSE \E id \in FreeIds :
                /\ draft' = [draft EXCEPT ![c] = [id |-> id, row |-> row]]
                /\ after' = [after EXCEPT ![c] = balance]
                /\ pc' = [pc EXCEPT ![c] = "posted"]
                /\ UNCHANGED <<seen, reply>>
        /\ UNCHANGED <<archived, opened, wallets, ledger, req, expected>>

(* credit -> postWalletCredit                                              *)
PostCredit(c) ==
    LET b == wallets[seen[c].wallet]
    IN  /\ pc[c] = "clear"
        /\ req[c].op = "credit"
        /\ PostRow(c, b.posted >= 0,
                   [posted |-> b.posted + req[c].amount,
                    reserved |-> b.reserved, version |-> b.version + 1])

(* Mutant: the debit reserves the amount and never completes it.           *)
PostDebitReserveOnly(c) ==
    LET b == wallets[seen[c].wallet]
    IN  /\ pc[c] = "clear"
        /\ req[c].op = "debit"
        /\ PostRow(c, Available(b) >= req[c].amount,
                   [posted |-> b.posted,
                    reserved |-> b.reserved + req[c].amount,
                    version |-> b.version + 1])

(* debit: reserve the amount, then complete it; each UPDATE bumps version. *)
PostDebit(c) ==
    LET b == wallets[seen[c].wallet]
    IN  /\ pc[c] = "clear"
        /\ req[c].op = "debit"
        /\ PostRow(c, Available(b) >= req[c].amount /\ b.posted >= req[c].amount,
                   [posted |-> b.posted - req[c].amount,
                    reserved |-> b.reserved, version |-> b.version + 2])

(* reserve: the amount moves from available to reserved.                   *)
PostReserve(c) ==
    LET b == wallets[seen[c].wallet]
    IN  /\ pc[c] = "clear"
        /\ req[c].op = "reserve"
        /\ PostRow(c, Available(b) >= req[c].amount,
                   [posted |-> b.posted,
                    reserved |-> b.reserved + req[c].amount,
                    version |-> b.version + 1])

(* reverseTransaction -> applyPostedBalanceDelta                           *)
PostReversal(c) ==
    LET b == wallets[seen[c].wallet]
    IN  /\ pc[c] = "clear"
        /\ req[c].op = "reverse"
        /\ PostRow(c, b.posted >= 0 /\ Available(b) >= availableRequired(req[c]),
                   [posted |-> b.posted - ledger[req[c].target].amount,
                    reserved |-> b.reserved, version |-> b.version + 1])

(* release: no idempotency key; the state of the reservation row decides.  *)
Release(c) ==
    LET id == req[c].target
        row == ledger[id]
        b == wallets[seen[c].wallet]
    IN  /\ pc[c] = "locked"
        /\ req[c].op = "release"
        /\ IF row.type # "reservation"
           THEN Finish(c, Error)
           ELSE IF row.state = "Released"
           THEN Finish(c, Ok(id))
           ELSE IF \/ row.state # "Reserved"
                   \/ seen[c].archived
                   \/ row.amount <= 0
                   \/ b.version # seen[c].balance.version
                   \/ b.reserved < row.amount
           THEN Finish(c, Error)
           ELSE /\ draft' = [draft EXCEPT ![c] =
                               [id |-> id,
                                row |-> [row EXCEPT !.state = "Released"]]]
                /\ after' = [after EXCEPT ![c] =
                               [posted |-> b.posted,
                                reserved |-> b.reserved - row.amount,
                                version |-> b.version + 1]]
                /\ pc' = [pc EXCEPT ![c] = "posted"]
                /\ UNCHANGED <<seen, reply>>
        /\ UNCHANGED <<archived, opened, wallets, ledger, req, expected>>

(* COMMIT: both writes become visible and the locks are freed.             *)
Commit(c) ==
    /\ pc[c] = "posted"
    /\ ledger' = [ledger EXCEPT ![draft[c].id] = draft[c].row]
    /\ wallets' = [wallets EXCEPT ![seen[c].wallet] = after[c]]
    /\ Finish(c, Ok(draft[c].id))
    /\ UNCHANGED <<archived, opened, req, expected>>

(* After the ROLLBACK that a unique violation forces, the committed row is *)
(* read and compared as a replay would be.                                 *)
ReadWinner(c) ==
    LET found == RowsWithKey(req[c].key)
    IN  /\ pc[c] = "violated"
        /\ Finish(c, IF found = {} THEN Error
                     ELSE ReplayReply(req[c], CHOOSE id \in found : TRUE))
        /\ UNCHANGED <<archived, opened, wallets, ledger, req, expected>>

(* The process or its connection dies: PostgreSQL rolls back.              *)
Crash(c) ==
    /\ pc[c] \in {"submitted", "locked", "clear", "posted", "violated"}
    /\ EndTransaction(c)
    /\ pc' = [pc EXCEPT ![c] = "idle"]
    /\ req' = [req EXCEPT ![c] = None]
    /\ expected' = [expected EXCEPT ![c] = None]
    /\ UNCHANGED <<archived, opened, wallets, ledger, reply>>

(* The steps a running call takes by itself.                               *)
Step(c) ==
    \/ NotFound(c)
    \/ LockWallet(c)
    \/ Lookup(c)
    \/ PostCredit(c)
    \/ PostDebit(c)
    \/ PostReserve(c)
    \/ PostReversal(c)
    \/ Release(c)
    \/ Commit(c)
    \/ ReadWinner(c)

Next ==
    \/ \E w \in Wallets : CreateWallet(w) \/ ArchiveProfile(w)
    \/ \E c \in Clients : \E r \in Requests : Submit(c, r)
    \/ \E c \in Clients : Step(c) \/ Crash(c)

Spec == Init /\ [][Next]_vars

(* PostgreSQL serves lock waiters in arrival order, so a call that waits   *)
(* for the wallet row or for another INSERT of its key is eventually       *)
(* served: strong fairness of each call's own steps.  Callers need not     *)
(* submit, profiles need not be archived, crashes need not happen.         *)
FairSpec == Spec /\ \A c \in Clients : SF_vars(Step(c))

(* The abstract accounts behind the tables: what is committed.             *)
Accounts == INSTANCE WalletAccounts WITH
    posted   <- [w \in Wallets |-> wallets[w].posted],
    reserved <- [w \in Wallets |-> wallets[w].reserved],
    closed   <- {w \in Wallets : archived[w]},
    done     <- {ledger[id].key : id \in {i \in TxIds : ledger[i] # None}}

-------------------------------------------------------------------------------
(* Properties.                                                             *)

TypeOK ==
    /\ archived \in [Wallets -> BOOLEAN]
    /\ opened \in SUBSET Wallets
    /\ wallets \in [Wallets -> Balance]
    /\ ledger \in [TxIds -> Row \cup {None}]
    /\ pc \in [Clients -> {"idle", "submitted", "locked", "clear", "posted",
                           "violated", "replied"}]
    /\ req \in [Clients -> Requests \cup {None}]
    /\ expected \in [Clients -> Nat \cup {None}]
    /\ seen \in [Clients -> Seen \cup {None}]
    /\ draft \in [Clients -> [id: TxIds \cup {None}, row: Row \cup {None}]]
    /\ after \in [Clients -> Balance]
    /\ reply \in [Clients -> [status: {"none", "ok", "error"},
                              id: TxIds \cup {None}]]

RowsOf(w, state) ==
    {id \in TxIds : ledger[id] # None /\ ledger[id].wallet = w
                                      /\ ledger[id].state = state}

SumOf(ids) == SumFunctionOnSet([id \in ids |-> ledger[id].amount], ids)

(* The cached balances are the sums of the ledger they summarize: posted   *)
(* of its Completed rows, reserved of its Reserved ones                    *)
(* (wallet.service.ts and wallet-reversal.ts: "postedBalance =             *)
(* SUM(Completed amounts)").                                               *)
BalanceMatchesLedger ==
    \A w \in Wallets :
        /\ wallets[w].posted = SumOf(RowsOf(w, "Completed"))
        /\ wallets[w].reserved = SumOf(RowsOf(w, "Reserved"))

(* No interleaving of credits, debits, reservations, releases and          *)
(* reversals spends or reserves money that is not there.                   *)
NeverOverdrawn ==
    \A w \in Wallets : 0 <= wallets[w].reserved /\ wallets[w].reserved <= wallets[w].posted

(* However often a command is retried, and whichever wallets race for one  *)
(* key, an idempotency key posts at most one ledger row; and an original   *)
(* is undone by at most one reversal, of exactly its amount, in its own    *)
(* wallet, while the original stays Completed.                             *)
EffectsAreSingle ==
    \A i, j \in TxIds : ledger[i] # None /\ ledger[j] # None =>
        /\ ledger[i].key = ledger[j].key => i = j
        /\ ledger[i].reverses = j =>
              /\ Reversible(j)
              /\ ledger[i].amount = -ledger[j].amount
              /\ ledger[i].wallet = ledger[j].wallet
              /\ ReversalsOf(j) = {i}

(* A caller that was answered with success, on the first call, on a        *)
(* replay, or after losing a unique-index race, was given a committed row  *)
(* that is its own command and no other.                                   *)
OkReplyIsBacked ==
    \A c \in Clients : pc[c] = "replied" /\ reply[c].status = "ok" =>
        LET row == ledger[reply[c].id]
        IN  CASE req[c].op = "release" -> /\ reply[c].id = req[c].target
                                          /\ row.state = "Released"
              [] req[c].op = "reserve" ->
                    row \in {[CommandRow(req[c]) EXCEPT !.state = s] :
                             s \in {"Reserved", "Released"}}
              [] OTHER -> row = CommandRow(req[c])

(* A profile is archived only over an empty wallet and nothing is ever     *)
(* posted to it afterwards, even by a call that read the profile before.   *)
ArchivedWalletIsEmpty ==
    \A w \in Wallets : archived[w] =>
        wallets[w].posted = 0 /\ wallets[w].reserved = 0

(* Ledger history is immutable: a committed row never changes, except that *)
(* a reservation is released once.                                         *)
LedgerIsAppendOnly ==
    [][\A id \in TxIds : ledger[id] # None =>
          \/ ledger'[id] = ledger[id]
          \/ /\ ledger[id].state = "Reserved"
             /\ ledger'[id] = [ledger[id] EXCEPT !.state = "Released"]]_vars

(* What a ledger row contributes to the posted and the reserved balance.   *)
PostedPart(row) ==
    IF row # None /\ row.state = "Completed" THEN row.amount ELSE 0

ReservedPart(row) ==
    IF row # None /\ row.state = "Reserved" THEN row.amount ELSE 0

(* A balance changes only together with one ledger row of that wallet, by  *)
(* exactly what the change of that row is worth, and under a new version.  *)
BalanceChangeIsLedgered ==
    [][\A w \in Wallets : wallets'[w] # wallets[w] =>
          /\ wallets'[w].version > wallets[w].version
          /\ \E id \in TxIds :
                /\ ledger' = [ledger EXCEPT ![id] = ledger'[id]]
                /\ ledger'[id].wallet = w
                /\ wallets'[w].posted - wallets[w].posted
                     = PostedPart(ledger'[id]) - PostedPart(ledger[id])
                /\ wallets'[w].reserved - wallets[w].reserved
                     = ReservedPart(ledger'[id]) - ReservedPart(ledger[id])]_vars

(* The transactions over the two tables implement the atomic accounts of   *)
(* WalletAccounts: every COMMIT is one account step, and every other       *)
(* statement of WalletService is invisible.                                *)
ImplementsAccounts == Accounts!Spec

(* A call that reached the database ends: nobody waits for ever for a      *)
(* wallet lock or for another INSERT of the same key.                      *)
EveryCallEnds ==
    \A c \in Clients : pc[c] = "submitted" ~> pc[c] \in {"idle", "replied"}
===============================================================================
