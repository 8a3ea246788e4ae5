-------------------------- MODULE WalletLedgerProofs --------------------------
(***************************************************************************)
(* Proofs about WalletLedger, for any number of wallets, ledger rows,      *)
(* keys, concurrent calls and commands.                                    *)
(*                                                                         *)
(* Neither type correctness nor the balance properties are inductive by    *)
(* themselves: a COMMIT publishes what the transaction prepared earlier.   *)
(* The inductive invariant therefore says what a call may rely on while it *)
(* is on its way: its locks are exclusive and keep what it read current,   *)
(* its checks still hold when it posts, and its uncommitted write is worth *)
(* exactly the change of balance it is about to publish.                   *)
(*                                                                         *)
(* What a key, a reversal and an answer stand for takes a second invariant,*)
(* UInv, on top of the first: it is about the ledger rows in flight.  The  *)
(* refinement of WalletAccounts follows from both.                         *)
(***************************************************************************)
EXTENDS WalletLedger, FiniteSums, TLAPS

Running == {"submitted", "locked", "clear", "posted", "violated"}

(* A call that is on its way carries a valid command.                      *)
CallsAreValid ==
    \A c \in Clients : pc[c] \in Running =>
        req[c] \in Requests /\ Valid(req[c])

(* While a call holds its locks nobody else works on its wallet, and what  *)
(* it read of the wallet and of the profile is still what is committed.    *)
LockProtects(c) ==
    /\ seen[c] \in Seen
    /\ seen[c].balance = wallets[seen[c].wallet]
    /\ seen[c].archived = archived[seen[c].wallet]
    /\ TargetsRow(req[c]) => ledger[req[c].target] # None
    /\ seen[c].wallet = WalletOf(req[c])
    /\ \A d \in Clients : Holds(d, seen[c].wallet) => d = c

LocksProtect == \A c \in Clients : Holding(c) => LockProtects(c)

(* A call that is about to post has passed the profile check.              *)
ChecksHold ==
    \A c \in Clients : pc[c] = "clear" =>
        req[c].op # "release" /\ ~archived[seen[c].wallet]

(* An uncommitted write inserts one row or releases one reservation, and   *)
(* the balance prepared with it differs from the committed one by what     *)
(* that is worth, without overdrawing.                                     *)
WriteIsSound(c) ==
    LET w == seen[c].wallet
        old == ledger[draft[c].id]
        new == draft[c].row
    IN  /\ ~archived[w]
        /\ draft[c].id \in TxIds
        /\ new \in Row
        /\ new.wallet = w
        /\ \/ old = None
           \/ /\ old.state = "Reserved"
              /\ new = [old EXCEPT !.state = "Released"]
        /\ after[c].posted - wallets[w].posted = PostedPart(new) - PostedPart(old)
        /\ after[c].reserved - wallets[w].reserved
             = ReservedPart(new) - ReservedPart(old)
        /\ after[c].version > wallets[w].version
        /\ after[c].reserved >= 0
        /\ Available(after[c]) >= 0

WritesAreSound == \A c \in Clients : pc[c] = "posted" => WriteIsSound(c)

(* No two uncommitted writes are to the same ledger row, and only a posted *)
(* call has one.                                                           *)
WriteIsOwn(c) ==
    /\ pc[c] = "posted"
    /\ \A d \in Clients : draft[d].id = draft[c].id => d = c

WritesAreDisjoint == \A c \in Clients : draft[c].id # None => WriteIsOwn(c)

IInv ==
    /\ TypeOK
    /\ CallsAreValid
    /\ LocksProtect
    /\ ChecksHold
    /\ WritesAreSound
    /\ WritesAreDisjoint
    /\ NeverOverdrawn
    /\ ArchivedWalletIsEmpty

-------------------------------------------------------------------------------
USE DEF Ops, CreditTypes, DebitTypes, REVERSIBLE_WALLET_LEDGER_TYPES,
        LedgerTypes, LedgerStates

(* The row a valid command inserts is a row of the table.                  *)
LEMMA CommandRowType ==
    ASSUME NEW r \in Requests, Valid(r), r.op # "release",
           ledger \in [TxIds -> Row \cup {None}],
           TargetsRow(r) => ledger[r.target] # None
    PROVE  CommandRow(r) \in Row
  <1>1. r \in Request
    BY RequestsAssumption
  <1>2. CASE r.op = "reverse"
    <2>1. r.target \in TxIds /\ ledger[r.target] \in Row
      BY <1>1, <1>2, NoneAssumption DEF Request, TargetsRow, Valid
    <2>2. QED
      BY <1>1, <1>2, <2>1 DEF CommandRow, WalletOf, TargetsRow, Request, Row
  <1>3. ASSUME r.op \in {"credit", "debit", "reserve"}
        PROVE  r.amount \in Int /\ r.amount > 0
    BY <1>1, <1>3 DEF Request, Valid
  <1>4. CASE r.op = "credit"
    BY <1>1, <1>3, <1>4 DEF CommandRow, WalletOf, TargetsRow, Request, Row
  <1>5. CASE r.op = "debit"
    BY <1>1, <1>3, <1>5 DEF CommandRow, WalletOf, TargetsRow, Request, Row
  <1>6. CASE r.op = "reserve"
    BY <1>1, <1>3, <1>6 DEF CommandRow, WalletOf, TargetsRow, Request, Row
  <1>7. QED
    BY <1>1, <1>2, <1>4, <1>5, <1>6 DEF Request

LEMMA InitIInv == Init => IInv
  BY NoneAssumption
     DEF Init, IInv, TypeOK, CallsAreValid, LocksProtect, ChecksHold,
         WritesAreSound, WritesAreDisjoint, NeverOverdrawn, ArchivedWalletIsEmpty,
         Running, Holding, Empty, NoDraft, NoReply, Balance, Available

(* A step of c that publishes nothing.  The others keep all they rely on   *)
(* when c neither takes a wallet that another call holds nor writes to a   *)
(* ledger row that another call writes to; what is left is about c.        *)
LEMMA PrivateStep ==
    ASSUME IInv, NEW c \in Clients, TypeOK',
           UNCHANGED <<archived, opened, wallets, ledger>>,
           \A d \in Clients \ {c} :
              /\ pc'[d] = pc[d] /\ req'[d] = req[d] /\ seen'[d] = seen[d]
              /\ draft'[d] = draft[d] /\ after'[d] = after[d],
           pc'[c] \in Running => req'[c] \in Requests /\ Valid(req'[c]),
           pc'[c] \in {"locked", "clear", "posted"} =>
              /\ LockProtects(c)'
              /\ \A d \in Clients \ {c} : ~Holds(d, seen'[c].wallet),
           pc'[c] = "clear" =>
              req'[c].op # "release" /\ ~archived[seen'[c].wallet],
           pc'[c] = "posted" => WriteIsSound(c)',
           draft'[c].id # None =>
              /\ pc'[c] = "posted"
              /\ \A d \in Clients \ {c} : draft[d].id # draft'[c].id
    PROVE  IInv'
  <1>1. /\ TypeOK /\ CallsAreValid /\ LocksProtect /\ ChecksHold
        /\ WritesAreSound /\ WritesAreDisjoint /\ NeverOverdrawn
        /\ ArchivedWalletIsEmpty
    BY DEF IInv
  <1>2. CallsAreValid'
    BY <1>1 DEF CallsAreValid, Running
  <1>3. LocksProtect'
    <2>1. SUFFICES ASSUME NEW d \in Clients, Holding(d)', d # c
                   PROVE  LockProtects(d)'
      BY DEF LocksProtect, Holding
    <2>2. Holding(d) /\ LockProtects(d)
      BY <1>1, <2>1 DEF LocksProtect, Holding
    <2>3. QED
      BY <2>1, <2>2 DEF LockProtects, Holds, Holding, TargetsRow, WalletOf
  <1>4. ChecksHold'
    BY <1>1 DEF ChecksHold
  <1>5. WritesAreSound'
    <2>1. SUFFICES ASSUME NEW d \in Clients, pc'[d] = "posted", d # c
                   PROVE  WriteIsSound(d)'
      BY DEF WritesAreSound
    <2>2. WriteIsSound(d)
      BY <1>1, <2>1 DEF WritesAreSound
    <2>3. QED
      BY <2>1, <2>2 DEF WriteIsSound, PostedPart, ReservedPart, Available
  <1>6. WritesAreDisjoint'
    <2>1. SUFFICES ASSUME NEW d \in Clients, draft'[d].id # None
                   PROVE  WriteIsOwn(d)'
      BY DEF WritesAreDisjoint
    <2>2. CASE d = c
      BY <2>1, <2>2 DEF WriteIsOwn
    <2>3. CASE d # c
      <3>1. draft[d].id # None /\ WriteIsOwn(d)
        BY <1>1, <2>1, <2>3 DEF WritesAreDisjoint
      <3>2. QED
        BY <2>1, <2>3, <3>1 DEF WriteIsOwn
    <2>4. QED
      BY <2>2, <2>3
  <1>7. NeverOverdrawn' /\ ArchivedWalletIsEmpty'
    BY <1>1 DEF NeverOverdrawn, ArchivedWalletIsEmpty, Available
  <1>8. QED
    BY <1>2, <1>3, <1>4, <1>5, <1>6, <1>7 DEF IInv

(* A transaction that ends without publishing anything.                    *)
LEMMA QuietEnd ==
    ASSUME IInv, NEW c \in Clients, EndTransaction(c),
           NEW p \in {"idle", "replied", "violated"},
           pc' = [pc EXCEPT ![c] = p],
           p = "violated" => pc[c] \in Running,
           p = "violated" => UNCHANGED req,
           \A d \in Clients \ {c} : req'[d] = req[d],
           req' \in [Clients -> Requests \cup {None}],
           expected' \in [Clients -> Nat \cup {None}],
           reply' \in [Clients -> [status: {"none", "ok", "error"},
                                  id: TxIds \cup {None}]],
           UNCHANGED <<archived, opened, wallets, ledger>>
    PROVE  IInv'
  <1>1. TypeOK /\ CallsAreValid
    BY DEF IInv
  <1>2. TypeOK'
    BY <1>1 DEF TypeOK, EndTransaction, NoDraft, Empty, Balance
  <1>3. /\ pc'[c] = p
        /\ draft'[c].id = None
        /\ \A d \in Clients \ {c} :
             /\ pc'[d] = pc[d] /\ seen'[d] = seen[d]
             /\ draft'[d] = draft[d] /\ after'[d] = after[d]
    BY <1>1 DEF TypeOK, EndTransaction, NoDraft
  <1>4. pc'[c] \in Running => req'[c] \in Requests /\ Valid(req'[c])
    BY <1>1, <1>3 DEF CallsAreValid, Running
  <1>5. QED
    BY <1>2, <1>3, <1>4, PrivateStep

(* Every answer a call can be given is well-typed.                         *)
LEMMA ReplyType ==
    ASSUME TypeOK, NEW c \in Clients, NEW answer,
           answer \in [status: {"none", "ok", "error"}, id: TxIds \cup {None}],
           reply' = [reply EXCEPT ![c] = answer]
    PROVE  reply' \in [Clients -> [status: {"none", "ok", "error"},
                                  id: TxIds \cup {None}]]
  BY DEF TypeOK

LEMMA FinishIInv ==
    ASSUME IInv, NEW c \in Clients, NEW answer,
           answer \in [status: {"none", "ok", "error"}, id: TxIds \cup {None}],
           Finish(c, answer),
           UNCHANGED <<archived, opened, wallets, ledger, req, expected>>
    PROVE  IInv'
  <1>1. TypeOK
    BY DEF IInv
  <1>2. EndTransaction(c) /\ pc' = [pc EXCEPT ![c] = "replied"]
    BY DEF Finish
  <1>3. reply' \in [Clients -> [status: {"none", "ok", "error"},
                               id: TxIds \cup {None}]]
    BY <1>1, ReplyType DEF Finish
  <1>4. QED
    BY <1>1, <1>2, <1>3, QuietEnd DEF TypeOK

LEMMA AnswerTypes ==
    /\ Error \in [status: {"none", "ok", "error"}, id: TxIds \cup {None}]
    /\ \A id \in TxIds :
         Ok(id) \in [status: {"none", "ok", "error"}, id: TxIds \cup {None}]
    /\ \A r, id : id \in TxIds =>
         ReplayReply(r, id) \in [status: {"none", "ok", "error"},
                                id: TxIds \cup {None}]
  BY DEF Error, Ok, ReplayReply

(* The steps that only end a call.                                         *)
LEMMA NotFoundIInv ==
    ASSUME IInv, NEW c \in Clients, NotFound(c)
    PROVE  IInv'
  BY AnswerTypes, FinishIInv DEF NotFound

LEMMA ReadWinnerIInv ==
    ASSUME IInv, NEW c \in Clients, ReadWinner(c)
    PROVE  IInv'
  <1> DEFINE found == RowsWithKey(req[c].key)
             answer == IF found = {} THEN Error
                       ELSE ReplayReply(req[c], CHOOSE id \in found : TRUE)
  <1>1. answer \in [status: {"none", "ok", "error"}, id: TxIds \cup {None}]
    <2>1. CASE found = {}
      BY <2>1, AnswerTypes
    <2>2. CASE found # {}
      <3>1. (CHOOSE id \in found : TRUE) \in TxIds
        BY <2>2 DEF RowsWithKey
      <3>2. QED
        BY <2>2, <3>1, AnswerTypes
    <2>3. QED
      BY <2>1, <2>2
  <1>2. Finish(c, answer)
    BY DEF ReadWinner
  <1>3. UNCHANGED <<archived, opened, wallets, ledger, req, expected>>
    BY DEF ReadWinner
  <1>4. QED
    BY <1>1, <1>2, <1>3, FinishIInv

LEMMA CrashIInv ==
    ASSUME IInv, NEW c \in Clients, Crash(c)
    PROVE  IInv'
  <1>1. TypeOK
    BY DEF IInv
  <1>2. /\ EndTransaction(c)
        /\ pc' = [pc EXCEPT ![c] = "idle"]
        /\ UNCHANGED <<archived, opened, wallets, ledger>>
        /\ req' \in [Clients -> Requests \cup {None}]
        /\ \A d \in Clients \ {c} : req'[d] = req[d]
        /\ expected' \in [Clients -> Nat \cup {None}]
        /\ reply' \in [Clients -> [status: {"none", "ok", "error"},
                                   id: TxIds \cup {None}]]
    BY <1>1 DEF Crash, TypeOK
  <1>3. QED
    BY <1>2, QuietEnd

(* The steps a call takes on its way.                                      *)
LEMMA SubmitIInv ==
    ASSUME IInv, NEW c \in Clients, NEW r \in Requests, Submit(c, r)
    PROVE  IInv'
  <1>1. TypeOK /\ WritesAreDisjoint
    BY DEF IInv
  <1>2. r \in Request
    BY RequestsAssumption
  <1>3. (IF r.op = "debit" /\ r.versioned THEN wallets[r.wallet].version
                                          ELSE None) \in Nat \cup {None}
    BY <1>1, <1>2 DEF TypeOK, Request, Balance
  <1>4. TypeOK'
    BY <1>1, <1>3 DEF TypeOK, Submit, NoReply, Error
  <1>5. /\ pc'[c] = IF Valid(r) THEN "submitted" ELSE "replied"
        /\ req'[c] = r
        /\ draft'[c].id = None
        /\ \A d \in Clients \ {c} : pc'[d] = pc[d] /\ req'[d] = req[d]
        /\ UNCHANGED <<seen, draft, after, archived, opened, wallets, ledger>>
    BY <1>1 DEF TypeOK, Submit, WritesAreDisjoint, WriteIsOwn
  <1>6. pc'[c] \in Running => req'[c] \in Requests /\ Valid(req'[c])
    BY <1>5 DEF Running
  <1>7. QED
    BY <1>4, <1>5, <1>6, PrivateStep

LEMMA LockWalletIInv ==
    ASSUME IInv, NEW c \in Clients, LockWallet(c)
    PROVE  IInv'
  <1> DEFINE w == WalletOf(req[c])
  <1>1. TypeOK /\ WritesAreDisjoint /\ CallsAreValid
    BY DEF IInv
  <1>2. /\ w \in Wallets
        /\ \A d \in Clients \ {c} : ~Holds(d, w)
        /\ TargetsRow(req[c]) => ledger[req[c].target] # None
    BY <1>1 DEF LockWallet, TypeOK
  <1>3. [wallet |-> w, balance |-> wallets[w], archived |-> archived[w]] \in Seen
    BY <1>1, <1>2 DEF TypeOK, Seen
  <1>4. TypeOK'
    BY <1>1, <1>3 DEF TypeOK, LockWallet
  <1>5. /\ pc[c] = "submitted" /\ pc'[c] = "locked"
        /\ seen'[c] = [wallet |-> w, balance |-> wallets[w],
                       archived |-> archived[w]]
        /\ draft'[c].id = None
        /\ \A d \in Clients \ {c} : pc'[d] = pc[d] /\ seen'[d] = seen[d]
        /\ UNCHANGED <<req, draft, after, archived, opened, wallets, ledger>>
    BY <1>1 DEF TypeOK, LockWallet, WritesAreDisjoint, WriteIsOwn
  <1>6. req'[c] \in Requests /\ Valid(req'[c])
    BY <1>1, <1>5 DEF CallsAreValid, Running
  <1>7. LockProtects(c)'
    <2>1. w' = w
      BY <1>5 DEF WalletOf, TargetsRow
    <2>2. QED
      BY <1>2, <1>3, <1>5, <2>1 DEF LockProtects, Holds, Holding, TargetsRow
  <1>8. QED
    BY <1>2, <1>4, <1>5, <1>6, <1>7, PrivateStep

LEMMA LookupIInv ==
    ASSUME IInv, NEW c \in Clients, Lookup(c)
    PROVE  IInv'
  <1> DEFINE found == RowsWithKey(req[c].key)
             winner == CHOOSE id \in found : TRUE
  <1>1. /\ TypeOK /\ WritesAreDisjoint /\ CallsAreValid /\ LocksProtect
        /\ pc[c] = "locked" /\ req[c].op # "release"
        /\ UNCHANGED <<archived, opened, wallets, ledger, req, expected>>
    BY DEF IInv, Lookup
  <1>2. CASE Finish(c, Error)
    BY <1>1, <1>2, AnswerTypes, FinishIInv
  <1>3. CASE found # {} /\ Finish(c, ReplayReply(req[c], winner))
    <2>1. winner \in TxIds
      BY <1>3 DEF RowsWithKey
    <2>2. QED
      BY <1>1, <1>3, <2>1, AnswerTypes, FinishIInv
  <1>4. CASE /\ ~Refused(c)
             /\ pc' = [pc EXCEPT ![c] = "clear"]
             /\ UNCHANGED <<seen, draft, after, reply>>
    <2>1. TypeOK'
      BY <1>1, <1>4 DEF TypeOK
    <2>2. /\ pc'[c] = "clear"
          /\ draft'[c].id = None
          /\ \A d \in Clients \ {c} : pc'[d] = pc[d]
      BY <1>1, <1>4 DEF TypeOK, WritesAreDisjoint, WriteIsOwn
    <2>3. req'[c] \in Requests /\ Valid(req'[c])
      BY <1>1 DEF CallsAreValid, Running
    <2>4. Holding(c) /\ LockProtects(c)
      BY <1>1 DEF LocksProtect, Holding
    <2>5. /\ LockProtects(c)'
          /\ \A d \in Clients \ {c} : ~Holds(d, seen'[c].wallet)
      BY <1>1, <1>4, <2>2, <2>4
         DEF LockProtects, Holds, Holding, TargetsRow, WalletOf
    <2>6. ~archived[seen'[c].wallet]
      BY <1>4, <2>4 DEF Refused, LockProtects
    <2>7. QED
      BY <1>1, <1>4, <2>1, <2>2, <2>3, <2>5, <2>6, PrivateStep
  <1>5. QED
    BY <1>2, <1>3, <1>4 DEF Lookup

(* The UPDATE and the INSERT of a command, given that the balance they     *)
(* write is worth the row they insert and overdraws nothing.               *)
LEMMA PostRowIInv ==
    ASSUME IInv, NEW c \in Clients, pc[c] = "clear", NEW guard, NEW balance,
           PostRow(c, guard, balance),
           guard => /\ balance \in Balance
                    /\ balance.posted - wallets[seen[c].wallet].posted
                         = PostedPart(CommandRow(req[c]))
                    /\ balance.reserved - wallets[seen[c].wallet].reserved
                         = ReservedPart(CommandRow(req[c]))
                    /\ balance.version > wallets[seen[c].wallet].version
                    /\ balance.reserved >= 0
                    /\ Available(balance) >= 0
    PROVE  IInv'
  <1> DEFINE row == CommandRow(req[c])
  <1>1. /\ TypeOK /\ WritesAreDisjoint /\ CallsAreValid /\ LocksProtect
        /\ ChecksHold
        /\ UNCHANGED <<archived, opened, wallets, ledger, req, expected>>
    BY DEF IInv, PostRow
  <1>2. CASE Finish(c, Error)
    BY <1>1, <1>2, AnswerTypes, FinishIInv
  <1>3. CASE /\ EndTransaction(c)
             /\ pc' = [pc EXCEPT ![c] = "violated"]
             /\ UNCHANGED reply
    BY <1>1, <1>3, QuietEnd DEF TypeOK, Running
  <1>4. CASE /\ guard
             /\ pc' = [pc EXCEPT ![c] = "posted"]
             /\ after' = [after EXCEPT ![c] = balance]
             /\ \E id \in FreeIds :
                   draft' = [draft EXCEPT ![c] = [id |-> id, row |-> row]]
             /\ UNCHANGED <<seen, reply>>
    <2>1. PICK id \in FreeIds :
                draft' = [draft EXCEPT ![c] = [id |-> id, row |-> row]]
      BY <1>4
    <2>2. /\ req[c] \in Requests /\ Valid(req[c]) /\ req[c].op # "release"
          /\ Holding(c) /\ LockProtects(c) /\ ~archived[seen[c].wallet]
      BY <1>1 DEF CallsAreValid, Running, LocksProtect, Holding, ChecksHold
    <2>3. row \in Row /\ row.wallet = seen[c].wallet
      BY <1>1, <2>2, CommandRowType DEF TypeOK, LockProtects, CommandRow
    <2>4. id \in TxIds /\ ledger[id] = None /\ \A d \in Clients : draft[d].id # id
      BY DEF FreeIds
    <2>5. TypeOK'
      BY <1>1, <1>4, <2>1, <2>3, <2>4 DEF TypeOK
    <2>6. /\ pc'[c] = "posted"
          /\ after'[c] = balance
          /\ draft'[c] = [id |-> id, row |-> row]
          /\ \A d \in Clients \ {c} :
               pc'[d] = pc[d] /\ draft'[d] = draft[d] /\ after'[d] = after[d]
      BY <1>1, <1>4, <2>1 DEF TypeOK
    <2>7. /\ LockProtects(c)'
          /\ \A d \in Clients \ {c} : ~Holds(d, seen'[c].wallet)
      BY <1>1, <1>4, <2>2, <2>6
         DEF LockProtects, Holds, Holding, TargetsRow, WalletOf
    <2>8. WriteIsSound(c)'
      <3>1. PostedPart(row) \in Int /\ ReservedPart(row) \in Int
        BY <2>3 DEF PostedPart, ReservedPart, Row
      <3>2. PostedPart(ledger[id]) = 0 /\ ReservedPart(ledger[id]) = 0
        BY <2>4 DEF PostedPart, ReservedPart
      <3>3. /\ balance.posted - wallets[seen[c].wallet].posted
                 = PostedPart(row) - PostedPart(ledger[id])
            /\ balance.reserved - wallets[seen[c].wallet].reserved
                 = ReservedPart(row) - ReservedPart(ledger[id])
        BY <1>4, <3>1, <3>2
      <3>4. QED
        BY <1>1, <1>4, <2>2, <2>3, <2>4, <2>6, <3>3
           DEF WriteIsSound, PostedPart, ReservedPart, Available
    <2>9. QED
      BY <1>1, <1>4, <2>2, <2>4, <2>5, <2>6, <2>7, <2>8, PrivateStep
  <1>5. QED
    BY <1>2, <1>3, <1>4 DEF PostRow

(* What a call that is about to post knows about its wallet.               *)
LEMMA ClearCall ==
    ASSUME IInv, NEW c \in Clients, pc[c] = "clear"
    PROVE  /\ req[c] \in Request /\ Valid(req[c])
           /\ TargetsRow(req[c]) =>
                /\ req[c].target \in TxIds
                /\ ledger[req[c].target] \in Row
           /\ seen[c].wallet \in Wallets
           /\ wallets[seen[c].wallet] \in Balance
           /\ wallets[seen[c].wallet].reserved >= 0
           /\ Available(wallets[seen[c].wallet]) >= 0
           /\ CommandRow(req[c]) # None
  <1>1. /\ TypeOK /\ CallsAreValid /\ LocksProtect /\ ChecksHold
        /\ NeverOverdrawn
    BY DEF IInv
  <1>2. /\ req[c] \in Requests /\ req[c] \in Request /\ Valid(req[c])
        /\ LockProtects(c) /\ req[c].op # "release"
    BY <1>1, RequestsAssumption
       DEF CallsAreValid, Running, LocksProtect, Holding, ChecksHold
  <1>3. TargetsRow(req[c]) => req[c].target \in TxIds
    BY <1>2 DEF TargetsRow, Valid, Request
  <1>4. TargetsRow(req[c]) => ledger[req[c].target] \in Row
    BY <1>1, <1>2, <1>3 DEF LockProtects, TypeOK
  <1>5. /\ seen[c].wallet \in Wallets
        /\ wallets[seen[c].wallet] \in Balance
        /\ wallets[seen[c].wallet].reserved >= 0
        /\ Available(wallets[seen[c].wallet]) >= 0
    BY <1>1, <1>2 DEF LockProtects, Seen, TypeOK, NeverOverdrawn, Available,
                      Balance
  <1>6. CommandRow(req[c]) # None
    BY <1>1, <1>2, CommandRowType, NoneAssumption DEF TypeOK, LockProtects
  <1>7. QED
    BY <1>2, <1>3, <1>4, <1>5, <1>6

LEMMA PostCreditIInv ==
    ASSUME IInv, NEW c \in Clients, PostCredit(c)
    PROVE  IInv'
  <1> DEFINE b == wallets[seen[c].wallet]
             balance == [posted |-> b.posted + req[c].amount,
                         reserved |-> b.reserved, version |-> b.version + 1]
  <1>1. /\ pc[c] = "clear" /\ req[c].op = "credit"
        /\ PostRow(c, b.posted >= 0, balance)
    BY DEF PostCredit
  <1>2. /\ b \in Balance /\ b.reserved >= 0 /\ Available(b) >= 0
        /\ req[c].amount \in Int /\ req[c].amount > 0
        /\ CommandRow(req[c]) # None
    BY <1>1, ClearCall DEF Request, Valid
  <1>3. /\ PostedPart(CommandRow(req[c])) = req[c].amount
        /\ ReservedPart(CommandRow(req[c])) = 0
    BY <1>1, <1>2 DEF PostedPart, ReservedPart, CommandRow
  <1>4. /\ balance \in Balance
        /\ balance.posted - b.posted = req[c].amount
        /\ balance.reserved - b.reserved = 0
        /\ balance.version > b.version
        /\ balance.reserved >= 0
        /\ Available(balance) >= 0
    BY <1>2 DEF Balance, Available
  <1>5. QED
    BY <1>1, <1>3, <1>4, PostRowIInv

LEMMA PostDebitIInv ==
    ASSUME IInv, NEW c \in Clients, PostDebit(c)
    PROVE  IInv'
  <1> DEFINE b == wallets[seen[c].wallet]
             guard == Available(b) >= req[c].amount /\ b.posted >= req[c].amount
             balance == [posted |-> b.posted - req[c].amount,
                         reserved |-> b.reserved, version |-> b.version + 2]
  <1>1. pc[c] = "clear" /\ req[c].op = "debit" /\ PostRow(c, guard, balance)
    BY DEF PostDebit
  <1>2. /\ b \in Balance /\ b.reserved >= 0 /\ Available(b) >= 0
        /\ req[c].amount \in Int /\ req[c].amount > 0
        /\ CommandRow(req[c]) # None
    BY <1>1, ClearCall DEF Request, Valid
  <1>3. /\ PostedPart(CommandRow(req[c])) = -req[c].amount
        /\ ReservedPart(CommandRow(req[c])) = 0
    BY <1>1, <1>2 DEF PostedPart, ReservedPart, CommandRow
  <1>4. guard => /\ balance \in Balance
                 /\ balance.posted - b.posted = -req[c].amount
                 /\ balance.reserved - b.reserved = 0
                 /\ balance.version > b.version
                 /\ balance.reserved >= 0
                 /\ Available(balance) >= 0
    BY <1>2 DEF Balance, Available
  <1>5. QED
    BY <1>1, <1>3, <1>4, PostRowIInv

LEMMA PostReserveIInv ==
    ASSUME IInv, NEW c \in Clients, PostReserve(c)
    PROVE  IInv'
  <1> DEFINE b == wallets[seen[c].wallet]
             guard == Available(b) >= req[c].amount
             balance == [posted |-> b.posted,
                         reserved |-> b.reserved + req[c].amount,
                         version |-> b.version + 1]
  <1>1. pc[c] = "clear" /\ req[c].op = "reserve" /\ PostRow(c, guard, balance)
    BY DEF PostReserve
  <1>2. /\ b \in Balance /\ b.reserved >= 0 /\ Available(b) >= 0
        /\ req[c].amount \in Int /\ req[c].amount > 0
        /\ CommandRow(req[c]) # None
    BY <1>1, ClearCall DEF Request, Valid
  <1>3. /\ PostedPart(CommandRow(req[c])) = 0
        /\ ReservedPart(CommandRow(req[c])) = req[c].amount
    BY <1>1, <1>2 DEF PostedPart, ReservedPart, CommandRow
  <1>4. guard => /\ balance \in Balance
                 /\ balance.posted - b.posted = 0
                 /\ balance.reserved - b.reserved = req[c].amount
                 /\ balance.version > b.version
                 /\ balance.reserved >= 0
                 /\ Available(balance) >= 0
    BY <1>2 DEF Balance, Available
  <1>5. QED
    BY <1>1, <1>3, <1>4, PostRowIInv

LEMMA PostReversalIInv ==
    ASSUME IInv, NEW c \in Clients, PostReversal(c)
    PROVE  IInv'
  <1> DEFINE b == wallets[seen[c].wallet]
             a == ledger[req[c].target].amount
             guard == b.posted >= 0 /\ Available(b) >= availableRequired(req[c])
             balance == [posted |-> b.posted - a,
                         reserved |-> b.reserved, version |-> b.version + 1]
  <1>1. pc[c] = "clear" /\ req[c].op = "reverse" /\ PostRow(c, guard, balance)
    BY DEF PostReversal
  <1>2. /\ b \in Balance /\ b.reserved >= 0 /\ Available(b) >= 0
        /\ a \in Int
        /\ CommandRow(req[c]) # None
    BY <1>1, ClearCall DEF TargetsRow, Row
  <1>3. /\ PostedPart(CommandRow(req[c])) = -a
        /\ ReservedPart(CommandRow(req[c])) = 0
    BY <1>1, <1>2 DEF PostedPart, ReservedPart, CommandRow
  <1>4. availableRequired(req[c]) = IF a > 0 THEN a ELSE 0
    BY <1>1 DEF availableRequired
  <1>5. guard => /\ balance \in Balance
                 /\ balance.posted - b.posted = -a
                 /\ balance.reserved - b.reserved = 0
                 /\ balance.version > b.version
                 /\ balance.reserved >= 0
                 /\ Available(balance) >= 0
    BY <1>2, <1>4 DEF Balance, Available
  <1>6. QED
    BY <1>1, <1>3, <1>5, PostRowIInv

LEMMA ReleaseIInv ==
    ASSUME IInv, NEW c \in Clients, Release(c)
    PROVE  IInv'
  <1> DEFINE id == req[c].target
             row == ledger[id]
             w == seen[c].wallet
             b == wallets[w]
             new == [row EXCEPT !.state = "Released"]
             balance == [posted |-> b.posted,
                         reserved |-> b.reserved - row.amount,
                         version |-> b.version + 1]
  <1>1. /\ TypeOK /\ WritesAreDisjoint /\ CallsAreValid /\ LocksProtect
        /\ NeverOverdrawn /\ WritesAreSound
        /\ pc[c] = "locked" /\ req[c].op = "release"
        /\ UNCHANGED <<archived, opened, wallets, ledger, req, expected>>
    BY DEF IInv, Release
  <1>2. /\ req[c] \in Requests /\ Valid(req[c]) /\ id \in TxIds
        /\ Holding(c) /\ LockProtects(c) /\ row \in Row /\ row.wallet = w
    <2>1. /\ req[c] \in Requests /\ req[c] \in Request /\ Valid(req[c])
          /\ Holding(c) /\ LockProtects(c)
      BY <1>1, RequestsAssumption
         DEF CallsAreValid, Running, LocksProtect, Holding
    <2>2. id \in TxIds
      BY <1>1, <2>1 DEF Valid, Request
    <2>3. row \in Row /\ row.wallet = w
      BY <1>1, <2>1, <2>2 DEF LockProtects, TargetsRow, WalletOf, TypeOK
    <2>4. QED
      BY <2>1, <2>2, <2>3
  <1>3. CASE Finish(c, Error)
    BY <1>1, <1>3, AnswerTypes, FinishIInv
  <1>4. CASE Finish(c, Ok(id))
    BY <1>1, <1>2, <1>4, AnswerTypes, FinishIInv
  <1>5. CASE /\ row.state = "Reserved" /\ ~seen[c].archived
             /\ ~(row.amount <= 0) /\ ~(b.reserved < row.amount)
             /\ draft' = [draft EXCEPT ![c] = [id |-> id, row |-> new]]
             /\ after' = [after EXCEPT ![c] = balance]
             /\ pc' = [pc EXCEPT ![c] = "posted"]
             /\ UNCHANGED <<seen, reply>>
    <2>1. /\ w \in Wallets /\ b \in Balance /\ b.reserved >= 0
          /\ Available(b) >= 0 /\ row.amount \in Int /\ ~archived[w]
      BY <1>1, <1>2, <1>5 DEF LockProtects, Seen, TypeOK, NeverOverdrawn, Row,
                              Available, Balance
    <2>2. /\ new \in Row /\ new.wallet = w
          /\ new.state = "Released" /\ new.amount = row.amount
      BY <1>2 DEF Row
    <2>3. balance \in Balance
      BY <1>5, <2>1 DEF Balance
    <2>4. TypeOK'
      BY <1>1, <1>2, <1>5, <2>2, <2>3 DEF TypeOK
    <2>5. /\ pc'[c] = "posted"
          /\ after'[c] = balance
          /\ draft'[c] = [id |-> id, row |-> new]
          /\ \A d \in Clients \ {c} :
               pc'[d] = pc[d] /\ draft'[d] = draft[d] /\ after'[d] = after[d]
      BY <1>1, <1>5 DEF TypeOK
    <2>6. /\ LockProtects(c)'
          /\ \A d \in Clients \ {c} : ~Holds(d, seen'[c].wallet)
      BY <1>1, <1>5, <1>2, <2>5
         DEF LockProtects, Holds, Holding, TargetsRow, WalletOf
    <2>7. WriteIsSound(c)'
      <3>1. /\ PostedPart(new) = 0 /\ PostedPart(row) = 0
            /\ ReservedPart(new) = 0 /\ ReservedPart(row) = row.amount
        BY <1>2, <1>5, <2>2, NoneAssumption DEF PostedPart, ReservedPart
      <3>2. /\ balance.posted - b.posted = PostedPart(new) - PostedPart(row)
            /\ balance.reserved - b.reserved
                 = ReservedPart(new) - ReservedPart(row)
            /\ balance.version > b.version
            /\ balance.reserved >= 0
            /\ Available(balance) >= 0
        BY <1>5, <2>1, <3>1 DEF Balance, Available
      <3>3. /\ seen'[c].wallet = w /\ wallets'[w] = b /\ archived'[w] = archived[w]
            /\ draft'[c].id = id /\ ledger'[id] = row
            /\ draft'[c].row = new /\ after'[c] = balance
        BY <1>1, <1>5, <2>5
      <3> HIDE DEF new, balance, row, b, w, id
      <3>4. QED
        BY <1>2, <1>5, <2>1, <2>2, <3>2, <3>3
           DEF WriteIsSound, PostedPart, ReservedPart, Available, new
    <2>8. \A d \in Clients \ {c} : draft[d].id # id
      <3>1. SUFFICES ASSUME NEW d \in Clients \ {c}, draft[d].id = id
                     PROVE  FALSE
        OBVIOUS
      <3>2. pc[d] = "posted" /\ WriteIsSound(d)
        BY <1>1, <1>2, <3>1, NoneAssumption
           DEF WritesAreDisjoint, WriteIsOwn, WritesAreSound
      <3>3. draft[d].row.wallet = row.wallet
        BY <1>2, <3>1, <3>2, NoneAssumption DEF WriteIsSound, Row
      <3>4. Holds(d, w)
        BY <1>2, <3>2, <3>3 DEF Holds, Holding, WriteIsSound
      <3>5. QED
        BY <1>2, <3>4 DEF LockProtects
    <2>9. QED
      BY <1>1, <1>2, <1>5, <2>4, <2>5, <2>6, <2>7, <2>8, PrivateStep
  <1>6. QED
    BY <1>3, <1>4, <1>5 DEF Release

(* What a COMMIT publishes: one ledger row and one wallets row.            *)
LEMMA CommitWrites ==
    ASSUME IInv, NEW c \in Clients, Commit(c)
    PROVE  /\ WriteIsSound(c) /\ seen[c].wallet \in Wallets
           /\ ledger'[draft[c].id] = draft[c].row
           /\ \A id \in TxIds : id # draft[c].id => ledger'[id] = ledger[id]
           /\ wallets'[seen[c].wallet] = after[c]
           /\ \A w \in Wallets : w # seen[c].wallet => wallets'[w] = wallets[w]
           /\ ledger' \in [TxIds -> Row \cup {None}]
           /\ wallets' \in [Wallets -> Balance]
  <1>1. /\ TypeOK /\ WritesAreSound /\ LocksProtect /\ pc[c] = "posted"
    BY DEF IInv, Commit
  <1>2. WriteIsSound(c) /\ seen[c].wallet \in Wallets
    BY <1>1 DEF WritesAreSound, LocksProtect, LockProtects, Holding, Seen
  <1>3. draft[c].id \in TxIds /\ draft[c].row \in Row /\ after[c] \in Balance
    BY <1>1, <1>2 DEF WriteIsSound, TypeOK
  <1>4. QED
    BY <1>1, <1>2, <1>3 DEF TypeOK, Commit

(* A committed row keeps its wallet; only a reservation changes at all.    *)
LEMMA CommitKeepsRows ==
    ASSUME IInv, NEW c \in Clients, Commit(c), NEW id \in TxIds,
           ledger[id] # None
    PROVE  /\ ledger'[id] # None
           /\ ledger'[id].wallet = ledger[id].wallet
           /\ \/ ledger'[id] = ledger[id]
              \/ /\ ledger[id].state = "Reserved"
                 /\ ledger'[id] = [ledger[id] EXCEPT !.state = "Released"]
  <1>1. CASE id # draft[c].id
    BY <1>1, CommitWrites
  <1>2. CASE id = draft[c].id
    <2>1. /\ ledger'[id] = draft[c].row /\ draft[c].row \in Row
          /\ ledger[id].state = "Reserved"
          /\ draft[c].row = [ledger[id] EXCEPT !.state = "Released"]
      BY <1>2, CommitWrites DEF WriteIsSound
    <2>2. ledger[id] \in Row
      BY DEF IInv, TypeOK
    <2>3. QED
      BY <2>1, <2>2, NoneAssumption DEF Row
  <1>3. QED
    BY <1>1, <1>2

LEMMA CommitIInv ==
    ASSUME IInv, NEW c \in Clients, Commit(c)
    PROVE  IInv'
  <1>1. /\ TypeOK /\ CallsAreValid /\ LocksProtect /\ ChecksHold
        /\ WritesAreSound /\ WritesAreDisjoint /\ NeverOverdrawn
        /\ ArchivedWalletIsEmpty
    BY DEF IInv
  <1>2. /\ pc[c] = "posted" /\ WriteIsSound(c) /\ LockProtects(c)
        /\ WriteIsOwn(c) /\ draft[c].id \in TxIds
        /\ UNCHANGED <<archived, opened, req, expected>>
    BY <1>1, NoneAssumption
       DEF Commit, WritesAreSound, LocksProtect, Holding, WritesAreDisjoint,
           WriteIsSound
  <1>3. /\ pc'[c] = "replied" /\ draft'[c].id = None
        /\ \A d \in Clients \ {c} :
             /\ pc'[d] = pc[d] /\ seen'[d] = seen[d] /\ draft'[d] = draft[d]
             /\ after'[d] = after[d]
    BY <1>1 DEF TypeOK, Commit, Finish, EndTransaction, NoDraft
  <1>4. TypeOK'
    <2>1. Ok(draft[c].id) \in [status: {"none", "ok", "error"},
                              id: TxIds \cup {None}]
      BY <1>2, AnswerTypes
    <2>2. reply' \in [Clients -> [status: {"none", "ok", "error"},
                                 id: TxIds \cup {None}]]
      BY <1>1, <2>1, ReplyType DEF Commit, Finish
    <2>3. /\ pc' \in [Clients -> {"idle", "submitted", "locked", "clear",
                                  "posted", "violated", "replied"}]
          /\ seen' \in [Clients -> Seen \cup {None}]
          /\ draft' \in [Clients -> [id: TxIds \cup {None}, row: Row \cup {None}]]
          /\ after' \in [Clients -> Balance]
      BY <1>1 DEF TypeOK, Commit, Finish, EndTransaction, NoDraft, Empty, Balance
    <2>4. QED
      BY <1>1, <1>2, <2>2, <2>3, CommitWrites DEF TypeOK
  <1>5. CallsAreValid'
    BY <1>1, <1>2, <1>3 DEF CallsAreValid, Running
  <1>6. \A d \in Clients : pc'[d] \in {"locked", "clear", "posted"} =>
           /\ d # c /\ LockProtects(d) /\ seen[d].wallet # seen[c].wallet
           /\ seen[d].wallet \in Wallets
    BY <1>1, <1>2, <1>3
       DEF LocksProtect, LockProtects, Holding, Holds, Seen
  <1>7. LocksProtect'
    <2>1. SUFFICES ASSUME NEW d \in Clients,
                          pc'[d] \in {"locked", "clear", "posted"}
                   PROVE  LockProtects(d)'
      BY DEF LocksProtect, Holding
    <2>2. /\ d # c /\ LockProtects(d) /\ seen[d].wallet # seen[c].wallet
          /\ seen[d].wallet \in Wallets
      BY <1>6, <2>1
    <2>3. wallets'[seen[d].wallet] = wallets[seen[d].wallet]
      BY <2>2, CommitWrites
    <2>4. /\ TargetsRow(req[d]) => /\ ledger'[req[d].target] # None
                                   /\ ledger'[req[d].target].wallet
                                        = ledger[req[d].target].wallet
      <3>1. SUFFICES ASSUME TargetsRow(req[d])
                     PROVE  /\ ledger'[req[d].target] # None
                            /\ ledger'[req[d].target].wallet
                                 = ledger[req[d].target].wallet
        OBVIOUS
      <3>2. req[d].target \in TxIds
        BY <1>1, <1>3, <2>1, <2>2, <3>1, RequestsAssumption
           DEF CallsAreValid, Running, Valid, Request, TargetsRow
      <3>3. ledger[req[d].target] # None
        BY <2>2, <3>1 DEF LockProtects
      <3>4. QED
        BY <3>2, <3>3, CommitKeepsRows
    <2>5. ASSUME NEW e \in Clients, pc'[e] \in {"locked", "clear", "posted"},
                 seen'[e].wallet = seen'[d].wallet
          PROVE  e = d
      BY <1>3, <1>6, <2>2, <2>5 DEF LockProtects, Holds, Holding
    <2>6. seen'[d].wallet = WalletOf(req[d])'
      BY <1>2, <1>3, <2>2, <2>4 DEF LockProtects, WalletOf, TargetsRow
    <2>7. /\ seen'[d] \in Seen
          /\ seen'[d].balance = wallets'[seen'[d].wallet]
          /\ seen'[d].archived = archived'[seen'[d].wallet]
          /\ TargetsRow(req'[d]) => ledger'[req'[d].target] # None
      BY <1>2, <1>3, <2>2, <2>3, <2>4 DEF LockProtects
    <2>8. QED
      BY <2>5, <2>6, <2>7 DEF LockProtects, Holds, Holding
  <1>8. ChecksHold'
    BY <1>1, <1>2, <1>3 DEF ChecksHold
  <1>9. WritesAreSound'
    <2>1. SUFFICES ASSUME NEW d \in Clients, pc'[d] = "posted"
                   PROVE  WriteIsSound(d)'
      BY DEF WritesAreSound
    <2>2. /\ d # c /\ WriteIsSound(d) /\ draft[d].id \in TxIds
          /\ seen[d].wallet # seen[c].wallet /\ seen[d].wallet \in Wallets
      BY <1>1, <1>3, <1>6, <2>1 DEF WritesAreSound, WriteIsSound
    <2>3. draft[d].id # draft[c].id
      BY <1>2, <2>2 DEF WriteIsOwn
    <2>4. /\ ledger'[draft[d].id] = ledger[draft[d].id]
          /\ wallets'[seen[d].wallet] = wallets[seen[d].wallet]
      BY <2>2, <2>3, CommitWrites
    <2>5. QED
      BY <1>2, <1>3, <2>2, <2>4
         DEF WriteIsSound, PostedPart, ReservedPart, Available
  <1>10. WritesAreDisjoint'
    <2>1. SUFFICES ASSUME NEW d \in Clients, draft'[d].id # None
                   PROVE  WriteIsOwn(d)'
      BY DEF WritesAreDisjoint
    <2>2. d # c /\ draft[d].id # None /\ WriteIsOwn(d)
      BY <1>1, <1>3, <2>1 DEF WritesAreDisjoint
    <2>3. QED
      BY <1>3, <2>1, <2>2 DEF WriteIsOwn
  <1>11. NeverOverdrawn'
    <2>1. after[c].reserved >= 0 /\ after[c].reserved <= after[c].posted
      BY <1>1, <1>2 DEF WriteIsSound, Available, TypeOK, Balance
    <2>2. QED
      BY <1>1, <2>1, CommitWrites DEF NeverOverdrawn
  <1>12. ArchivedWalletIsEmpty'
    BY <1>1, <1>2, CommitWrites DEF ArchivedWalletIsEmpty, WriteIsSound
  <1>13. QED
    BY <1>4, <1>5, <1>7, <1>8, <1>9, <1>10, <1>11, <1>12 DEF IInv

LEMMA CreateWalletIInv ==
    ASSUME IInv, NEW w \in Wallets, CreateWallet(w)
    PROVE  IInv'
  <1>1. TypeOK'
    BY DEF IInv, TypeOK, CreateWallet
  <1>2. UNCHANGED <<archived, wallets, ledger, pc, req, seen, draft, after>>
    BY DEF CreateWallet
  <1>3. /\ CallsAreValid' /\ ChecksHold' /\ WritesAreDisjoint'
    BY <1>2 DEF IInv, CallsAreValid, ChecksHold, WritesAreDisjoint, WriteIsOwn
  <1>4. LocksProtect'
    BY <1>2 DEF IInv, LocksProtect, LockProtects, Holds, Holding, TargetsRow,
                WalletOf
  <1>5. WritesAreSound'
    BY <1>2 DEF IInv, WritesAreSound, WriteIsSound, PostedPart, ReservedPart,
                Available
  <1>6. NeverOverdrawn' /\ ArchivedWalletIsEmpty'
    BY <1>2 DEF IInv, NeverOverdrawn, ArchivedWalletIsEmpty, Available
  <1>7. QED
    BY <1>1, <1>3, <1>4, <1>5, <1>6 DEF IInv

LEMMA ArchiveProfileIInv ==
    ASSUME IInv, NEW w \in Wallets, ArchiveProfile(w)
    PROVE  IInv'
  <1>1. TypeOK'
    BY DEF IInv, TypeOK, ArchiveProfile
  <1>2. /\ UNCHANGED <<opened, wallets, ledger, pc, req, seen, draft, after>>
        /\ archived' = [archived EXCEPT ![w] = TRUE]
        /\ wallets[w].posted = 0 /\ wallets[w].reserved = 0
        /\ \A c \in Clients :
             pc[c] \in {"locked", "clear", "posted"} => seen[c].wallet # w
    BY DEF ArchiveProfile, Holds, Holding
  <1>3. \A v \in Wallets : v # w => archived'[v] = archived[v]
    BY <1>2 DEF IInv, TypeOK
  <1>4. \A c \in Clients : pc[c] \in {"locked", "clear", "posted"} =>
           /\ LockProtects(c)
           /\ archived'[seen[c].wallet] = archived[seen[c].wallet]
    BY <1>2, <1>3 DEF IInv, LocksProtect, LockProtects, Holding, Seen
  <1>5. CallsAreValid' /\ WritesAreDisjoint'
    BY <1>2 DEF IInv, CallsAreValid, WritesAreDisjoint, WriteIsOwn
  <1>6. LocksProtect'
    <2>1. SUFFICES ASSUME NEW c \in Clients,
                          pc[c] \in {"locked", "clear", "posted"}
                   PROVE  LockProtects(c)'
      BY <1>2 DEF LocksProtect, Holding
    <2>2. QED
      BY <1>2, <1>4, <2>1
         DEF LockProtects, Holds, Holding, TargetsRow, WalletOf
  <1>7. ChecksHold'
    BY <1>2, <1>4 DEF IInv, ChecksHold
  <1>8. WritesAreSound'
    <2>1. SUFFICES ASSUME NEW c \in Clients, pc[c] = "posted"
                   PROVE  WriteIsSound(c)'
      BY <1>2 DEF WritesAreSound
    <2>2. WriteIsSound(c) /\ archived'[seen[c].wallet] = archived[seen[c].wallet]
      BY <1>4, <2>1 DEF IInv, WritesAreSound
    <2>3. QED
      BY <1>2, <2>2 DEF WriteIsSound, PostedPart, ReservedPart, Available
  <1>9. NeverOverdrawn'
    BY <1>2 DEF IInv, NeverOverdrawn, Available
  <1>10. ArchivedWalletIsEmpty'
    BY <1>2, <1>3 DEF IInv, ArchivedWalletIsEmpty
  <1>11. QED
    BY <1>1, <1>5, <1>6, <1>7, <1>8, <1>9, <1>10 DEF IInv

LEMMA StutterIInv == IInv /\ UNCHANGED vars => IInv'
  <1> SUFFICES ASSUME IInv, UNCHANGED vars PROVE IInv'
    OBVIOUS
  <1>1. UNCHANGED <<archived, opened, wallets, ledger, pc, req, expected, seen,
                    draft, after, reply>>
    BY DEF vars
  <1>2. TypeOK' /\ CallsAreValid' /\ ChecksHold' /\ WritesAreDisjoint'
    BY <1>1 DEF IInv, TypeOK, CallsAreValid, ChecksHold, WritesAreDisjoint,
                WriteIsOwn
  <1>3. LocksProtect'
    BY <1>1 DEF IInv, LocksProtect, LockProtects, Holds, Holding, TargetsRow,
                WalletOf
  <1>4. WritesAreSound'
    BY <1>1 DEF IInv, WritesAreSound, WriteIsSound, PostedPart, ReservedPart,
                Available
  <1>5. NeverOverdrawn' /\ ArchivedWalletIsEmpty'
    BY <1>1 DEF IInv, NeverOverdrawn, ArchivedWalletIsEmpty, Available
  <1>6. QED
    BY <1>2, <1>3, <1>4, <1>5 DEF IInv

(* Every step of the wallet preserves the inductive invariant.             *)
LEMMA NextIInv == IInv /\ [Next]_vars => IInv'
  <1> SUFFICES ASSUME IInv, [Next]_vars PROVE IInv'
    OBVIOUS
  <1>1. ASSUME NEW w \in Wallets, CreateWallet(w) PROVE IInv'
    BY <1>1, CreateWalletIInv
  <1>2. ASSUME NEW w \in Wallets, ArchiveProfile(w) PROVE IInv'
    BY <1>2, ArchiveProfileIInv
  <1>3. ASSUME NEW c \in Clients, NEW r \in Requests, Submit(c, r) PROVE IInv'
    BY <1>3, SubmitIInv
  <1>4. ASSUME NEW c \in Clients, Step(c) PROVE IInv'
    BY <1>4, NotFoundIInv, LockWalletIInv, LookupIInv, PostCreditIInv,
       PostDebitIInv, PostReserveIInv, PostReversalIInv, ReleaseIInv,
       CommitIInv, ReadWinnerIInv DEF Step
  <1>5. ASSUME NEW c \in Clients, Crash(c) PROVE IInv'
    BY <1>5, CrashIInv
  <1>6. CASE UNCHANGED vars
    BY <1>6, StutterIInv
  <1>7. QED
    BY <1>1, <1>2, <1>3, <1>4, <1>5, <1>6 DEF Next

THEOREM Invariance == Spec => []IInv
  BY InitIInv, NextIInv, PTL DEF Spec

-------------------------------------------------------------------------------
(* The tables and the calls in flight are always well-formed.              *)
THEOREM TypeCorrect == Spec => []TypeOK
  <1>1. IInv => TypeOK
    BY DEF IInv
  <1>2. QED
    BY <1>1, Invariance, PTL

(* However many calls interleave, no wallet is overdrawn and no more is    *)
(* reserved than is there: the FOR UPDATE lock keeps the balance each call *)
(* checked current until its COMMIT.                                       *)
THEOREM NotOverdrawn == Spec => []NeverOverdrawn
  <1>1. IInv => NeverOverdrawn
    BY DEF IInv
  <1>2. QED
    BY <1>1, Invariance, PTL

(* An archived profile's wallet is empty and stays empty: the FOR SHARE    *)
(* lock of every posting call excludes the archiving transaction.          *)
THEOREM ArchivedIsEmpty == Spec => []ArchivedWalletIsEmpty
  <1>1. IInv => ArchivedWalletIsEmpty
    BY DEF IInv
  <1>2. QED
    BY <1>1, Invariance, PTL

(* Only a COMMIT touches committed rows.                                   *)
LEMMA OnlyCommitPublishes ==
    ASSUME [Next]_vars
    PROVE  UNCHANGED <<wallets, ledger>> \/ \E c \in Clients : Commit(c)
  BY DEF Next, Step, vars, CreateWallet, ArchiveProfile, Submit, NotFound,
         LockWallet, Lookup, PostCredit, PostDebit, PostReserve, PostReversal,
         PostRow, Release, ReadWinner, Crash

(* A committed ledger row never changes, except that a reservation is      *)
(* released: the ledger is an append-only history.                         *)
THEOREM AppendOnly == Spec => LedgerIsAppendOnly
  <1> DEFINE Keeps ==
        \A id \in TxIds : ledger[id] # None =>
          \/ ledger'[id] = ledger[id]
          \/ /\ ledger[id].state = "Reserved"
             /\ ledger'[id] = [ledger[id] EXCEPT !.state = "Released"]
  <1>1. ASSUME IInv, [Next]_vars PROVE Keeps
    BY <1>1, OnlyCommitPublishes, CommitKeepsRows
  <1>2. QED
    BY <1>1, Invariance, PTL DEF Spec, LedgerIsAppendOnly

(* A balance never moves without its ledger row: each change of a wallets  *)
(* row comes with the change of exactly one ledger row of that wallet, is  *)
(* worth what that row is worth, and gets a new version.                   *)
THEOREM Ledgered == Spec => BalanceChangeIsLedgered
  <1> DEFINE Explained ==
        \A w \in Wallets : wallets'[w] # wallets[w] =>
          /\ wallets'[w].version > wallets[w].version
          /\ \E id \in TxIds :
                /\ ledger' = [ledger EXCEPT ![id] = ledger'[id]]
                /\ ledger'[id].wallet = w
                /\ wallets'[w].posted - wallets[w].posted
                     = PostedPart(ledger'[id]) - PostedPart(ledger[id])
                /\ wallets'[w].reserved - wallets[w].reserved
                     = ReservedPart(ledger'[id]) - ReservedPart(ledger[id])
  <1>1. ASSUME IInv, [Next]_vars PROVE Explained
    <2>1. SUFFICES ASSUME NEW c \in Clients, Commit(c), NEW w \in Wallets,
                          wallets'[w] # wallets[w]
                   PROVE  /\ wallets'[w].version > wallets[w].version
                          /\ \E id \in TxIds :
                                /\ ledger' = [ledger EXCEPT ![id] = ledger'[id]]
                                /\ ledger'[id].wallet = w
                                /\ wallets'[w].posted - wallets[w].posted
                                     = PostedPart(ledger'[id])
                                       - PostedPart(ledger[id])
                                /\ wallets'[w].reserved - wallets[w].reserved
                                     = ReservedPart(ledger'[id])
                                       - ReservedPart(ledger[id])
      BY <1>1, OnlyCommitPublishes
    <2>2. w = seen[c].wallet /\ WriteIsSound(c)
      BY <1>1, <2>1, CommitWrites
    <2>3. /\ draft[c].id \in TxIds
          /\ ledger' = [ledger EXCEPT ![draft[c].id] = draft[c].row]
          /\ ledger'[draft[c].id] = draft[c].row
          /\ wallets'[w] = after[c]
      BY <1>1, <2>1, <2>2, CommitWrites DEF Commit, WriteIsSound
    <2>4. QED
      BY <2>2, <2>3 DEF WriteIsSound
  <1>2. QED
    BY <1>1, Invariance, PTL DEF Spec, BalanceChangeIsLedgered

-------------------------------------------------------------------------------
(***************************************************************************)
(* The balances are the sums of the ledger.  A COMMIT changes one row and  *)
(* one balance, by the same amount; a sum changes by what its term changes *)
(* (SumChange).  A sum is over a finite set, so the invariant also says    *)
(* that the ledger has finitely many rows, however many ids there are.     *)
(***************************************************************************)

LedgerRows == {id \in TxIds : ledger[id] # None}

BInv == IsFiniteSet(LedgerRows) /\ BalanceMatchesLedger

(* The worth of one row in a sum over the rows of w in a state.            *)
Part(w, state, row) ==
    IF row # None /\ row.wallet = w /\ row.state = state THEN row.amount ELSE 0

LEMMA InitBInv == Init => BInv
  <1> SUFFICES ASSUME Init PROVE BInv
    OBVIOUS
  <1>1. \A id \in TxIds : ledger[id] = None
    BY DEF Init
  <1>2. LedgerRows = {} /\ \A w, state : RowsOf(w, state) = {}
    BY <1>1 DEF LedgerRows, RowsOf
  <1>3. SumOf({}) = 0
    BY SumEquation, FS_EmptySet DEF SumOf
  <1>4. QED
    BY <1>2, <1>3, FS_EmptySet DEF BInv, BalanceMatchesLedger, Init, Empty

(* What a COMMIT does to the sum over the rows of a wallet in a state.     *)
LEMMA CommitSum ==
    ASSUME IInv, IsFiniteSet(LedgerRows), IsFiniteSet(LedgerRows)',
           NEW c \in Clients, Commit(c), NEW w \in Wallets, NEW state
    PROVE  /\ SumOf(RowsOf(w, state)) \in Int
           /\ SumOf(RowsOf(w, state))' =
                 SumOf(RowsOf(w, state))
                   - Part(w, state, ledger[draft[c].id])
                   + Part(w, state, draft[c].row)
  <1> DEFINE id == draft[c].id
             S == RowsOf(w, state)
             T == RowsOf(w, state)'
             f == [i \in S |-> ledger[i].amount]
             g == [i \in T |-> ledger'[i].amount]
  <1>1. /\ id \in TxIds /\ draft[c].row # None
        /\ ledger'[id] = draft[c].row
        /\ \A i \in TxIds : i # id => ledger'[i] = ledger[i]
        /\ ledger \in [TxIds -> Row \cup {None}]
        /\ ledger' \in [TxIds -> Row \cup {None}]
    BY CommitWrites, NoneAssumption DEF WriteIsSound, IInv, TypeOK
  <1>2. S \subseteq LedgerRows /\ T \subseteq LedgerRows'
    BY DEF RowsOf, LedgerRows
  <1>3. IsFiniteSet(S) /\ IsFiniteSet(T)
    BY <1>2, FS_Subset
  <1>4. (\A i \in S : f[i] \in Int) /\ (\A i \in T : g[i] \in Int)
    BY <1>1 DEF RowsOf, Row
  <1>5. S \ {id} = T \ {id} /\ \A i \in S \ {id} : f[i] = g[i]
    BY <1>1 DEF RowsOf
  <1>6. /\ Part(w, state, ledger[id]) = IF id \in S THEN f[id] ELSE 0
        /\ Part(w, state, draft[c].row) = IF id \in T THEN g[id] ELSE 0
    BY <1>1 DEF Part, RowsOf
  <1>7. SumOf(S) = SumFunctionOnSet(f, S) /\ SumOf(S)' = SumFunctionOnSet(g, T)
    BY DEF SumOf
  <1> HIDE DEF f, g, S, T
  <1>8. SumFunctionOnSet(g, T) =
           SumFunctionOnSet(f, S) - (IF id \in S THEN f[id] ELSE 0)
                                  + (IF id \in T THEN g[id] ELSE 0)
    BY <1>3, <1>4, <1>5, SumChange
  <1>9. SumFunctionOnSet(f, S) \in Int
    BY <1>3, <1>4, SumInt
  <1>10. QED
    BY <1>6, <1>7, <1>8, <1>9 DEF S, T

LEMMA CommitBInv ==
    ASSUME IInv, BInv, NEW c \in Clients, Commit(c)
    PROVE  BInv'
  <1> DEFINE old == ledger[draft[c].id]
             new == draft[c].row
             v == seen[c].wallet
  <1>1. /\ WriteIsSound(c) /\ v \in Wallets
        /\ wallets'[v] = after[c]
        /\ \A w \in Wallets : w # v => wallets'[w] = wallets[w]
        /\ wallets \in [Wallets -> Balance] /\ after[c] \in Balance
    BY CommitWrites DEF IInv, TypeOK
  <1>2. IsFiniteSet(LedgerRows) /\ IsFiniteSet(LedgerRows)'
    <2>1. LedgerRows' \subseteq LedgerRows \cup {draft[c].id}
      BY CommitWrites DEF LedgerRows
    <2>2. QED
      BY <2>1, FS_AddElement, FS_Subset DEF BInv
  <1>3. new # None /\ new \in Row /\ new.wallet = v
    BY <1>1, NoneAssumption DEF WriteIsSound
  <1>4. ASSUME old # None PROVE old \in Row /\ old.wallet = v
    <2>1. old \in Row
      BY <1>1, <1>4 DEF WriteIsSound, IInv, TypeOK
    <2>2. new = [old EXCEPT !.state = "Released"]
      BY <1>1, <1>4 DEF WriteIsSound
    <2>3. QED
      BY <1>3, <2>1, <2>2 DEF Row
  <1>5. SUFFICES ASSUME NEW w \in Wallets
                 PROVE  /\ wallets'[w].posted = SumOf(RowsOf(w, "Completed"))'
                        /\ wallets'[w].reserved = SumOf(RowsOf(w, "Reserved"))'
    BY <1>2 DEF BInv, BalanceMatchesLedger
  <1>6. /\ wallets[w].posted = SumOf(RowsOf(w, "Completed"))
        /\ wallets[w].reserved = SumOf(RowsOf(w, "Reserved"))
    BY DEF BInv, BalanceMatchesLedger
  <1>7. /\ SumOf(RowsOf(w, "Completed"))' = SumOf(RowsOf(w, "Completed"))
               - Part(w, "Completed", old) + Part(w, "Completed", new)
        /\ SumOf(RowsOf(w, "Reserved"))' = SumOf(RowsOf(w, "Reserved"))
               - Part(w, "Reserved", old) + Part(w, "Reserved", new)
    BY <1>2, CommitSum
  <1>8. CASE w = v
    <2>1. /\ Part(w, "Completed", new) = PostedPart(new)
          /\ Part(w, "Completed", old) = PostedPart(old)
          /\ Part(w, "Reserved", new) = ReservedPart(new)
          /\ Part(w, "Reserved", old) = ReservedPart(old)
      BY <1>3, <1>4, <1>8 DEF Part, PostedPart, ReservedPart
    <2>2. /\ PostedPart(new) \in Int /\ PostedPart(old) \in Int
          /\ ReservedPart(new) \in Int /\ ReservedPart(old) \in Int
      BY <1>3, <1>4 DEF PostedPart, ReservedPart, Row
    <2>3. /\ after[c].posted - wallets[w].posted = PostedPart(new) - PostedPart(old)
          /\ after[c].reserved - wallets[w].reserved
               = ReservedPart(new) - ReservedPart(old)
      BY <1>1, <1>8 DEF WriteIsSound
    <2>4. /\ after[c].posted \in Int /\ after[c].reserved \in Int
          /\ wallets[w].posted \in Int /\ wallets[w].reserved \in Int
      BY <1>1 DEF Balance
    <2> HIDE DEF old, new
    <2>5. /\ after[c].posted = wallets[w].posted - PostedPart(old) + PostedPart(new)
          /\ after[c].reserved
               = wallets[w].reserved - ReservedPart(old) + ReservedPart(new)
      BY <2>2, <2>3, <2>4
    <2>6. wallets'[w] = after[c]
      BY <1>1, <1>8
    <2>7. QED
      BY <1>6, <1>7, <2>1, <2>5, <2>6
  <1>9. CASE w # v
    <2>1. /\ Part(w, "Completed", new) = 0 /\ Part(w, "Completed", old) = 0
          /\ Part(w, "Reserved", new) = 0 /\ Part(w, "Reserved", old) = 0
      BY <1>3, <1>4, <1>9 DEF Part
    <2>2. wallets[w].posted \in Int /\ wallets[w].reserved \in Int
      BY <1>1 DEF Balance
    <2>3. QED
      BY <1>1, <1>6, <1>7, <1>9, <2>1, <2>2
  <1>10. QED
    BY <1>8, <1>9

LEMMA NextBInv == IInv /\ BInv /\ [Next]_vars => BInv'
  <1> SUFFICES ASSUME IInv, BInv, [Next]_vars PROVE BInv'
    OBVIOUS
  <1>1. CASE UNCHANGED <<wallets, ledger>>
    BY <1>1 DEF BInv, LedgerRows, BalanceMatchesLedger, RowsOf, SumOf
  <1>2. QED
    BY <1>1, OnlyCommitPublishes, CommitBInv

(* The cached balances are the sums of the ledger they summarize, for any  *)
(* number of rows: posted of the Completed, reserved of the Reserved ones. *)
THEOREM BalancesMatchLedger == Spec => []BalanceMatchesLedger
  <1>1. Spec => []BInv
    BY InitBInv, NextBInv, Invariance, PTL DEF Spec
  <1>2. BInv => BalanceMatchesLedger
    BY DEF BInv
  <1>3. QED
    BY <1>1, <1>2, PTL
-------------------------------------------------------------------------------
(***************************************************************************)
(* The uniqueness of effects and the refinement of the accounts need more  *)
(* than IInv: the uncommitted rows are part of the unique indexes, and     *)
(* what a reversal or an answer refers to stays what it was.               *)
(***************************************************************************)

(* The uncommitted row of an insert is its command's, and no other row,    *)
(* committed or not, has its key or reverses the same original.            *)
InsertFits(c) ==
    LET row == draft[c].row
    IN  /\ ledger[draft[c].id] = None
        /\ row = CommandRow(req[c])
        /\ ~UniqueViolation(row)
        /\ \A d \in Clients \ {c} : pc[d] = "posted" /\ req[d].op # "release" =>
              /\ draft[d].row.key # row.key
              /\ row.reverses # None => draft[d].row.reverses # row.reverses

(* A release ends the reservation it names, which holds money.             *)
ReleaseFits(c) ==
    /\ draft[c].id = req[c].target
    /\ ledger[draft[c].id] # None
    /\ ledger[draft[c].id].amount > 0

DraftsFit ==
    \A c \in Clients : pc[c] = "posted" =>
        IF req[c].op = "release" THEN ReleaseFits(c) ELSE InsertFits(c)

OriginalsAreReversible ==
    /\ \A c \in Clients : pc[c] \in {"clear", "posted"} /\ req[c].op = "reverse" =>
          Reversible(req[c].target)
    /\ \A id \in TxIds : ledger[id] # None /\ ledger[id].reverses # None =>
          ledger[ledger[id].reverses] # None

(* Only an INSERT can lose to a unique index.                              *)
LosersInsert == \A c \in Clients : pc[c] = "violated" => req[c].op # "release"

(* An answer that reports success names a committed row, and the row its   *)
(* command worked on is committed as well.                                 *)
ReplyStands(c) ==
    /\ req[c] \in Requests /\ Valid(req[c])
    /\ reply[c].id \in TxIds
    /\ ledger[reply[c].id] # None
    /\ TargetsRow(req[c]) => ledger[req[c].target] # None

RepliesStand ==
    \A c \in Clients : pc[c] = "replied" /\ reply[c].status = "ok" =>
        ReplyStands(c)

UInv ==
    /\ DraftsFit
    /\ OriginalsAreReversible
    /\ LosersInsert
    /\ RepliesStand
    /\ EffectsAreSingle
    /\ OkReplyIsBacked

(* What OkReplyIsBacked says of one call.                                  *)
AnswerIsBacked(c) ==
    LET row == ledger[reply[c].id]
    IN  CASE req[c].op = "release" -> /\ reply[c].id = req[c].target
                                      /\ row.state = "Released"
          [] req[c].op = "reserve" ->
                row \in {[CommandRow(req[c]) EXCEPT !.state = s] :
                         s \in {"Reserved", "Released"}}
          [] OTHER -> row = CommandRow(req[c])

LEMMA BackedByCall ==
    OkReplyIsBacked <=>
      \A c \in Clients : pc[c] = "replied" /\ reply[c].status = "ok" =>
          AnswerIsBacked(c)
  BY DEF OkReplyIsBacked, AnswerIsBacked

LEMMA InitUInv == Init => UInv
  BY NoneAssumption
     DEF Init, UInv, DraftsFit, OriginalsAreReversible, LosersInsert, RepliesStand,
         EffectsAreSingle, OkReplyIsBacked, NoDraft, NoReply

(* A step of c that publishes nothing leaves the others' drafts and        *)
(* answers as good as they were.                                           *)
LEMMA PrivateUInv ==
    ASSUME UInv, NEW c \in Clients, UNCHANGED ledger,
           \A d \in Clients \ {c} :
              /\ pc'[d] = pc[d] /\ req'[d] = req[d]
              /\ draft'[d] = draft[d] /\ reply'[d] = reply[d],
           pc'[c] = "posted" =>
              IF req'[c].op = "release" THEN ReleaseFits(c)' ELSE InsertFits(c)',
           pc'[c] \in {"clear", "posted"} /\ req'[c].op = "reverse" =>
              Reversible(req'[c].target),
           pc'[c] = "violated" => req'[c].op # "release",
           pc'[c] = "replied" /\ reply'[c].status = "ok" =>
              ReplyStands(c)' /\ AnswerIsBacked(c)'
    PROVE  UInv'
  <1>1. /\ DraftsFit /\ OriginalsAreReversible /\ LosersInsert /\ RepliesStand
        /\ EffectsAreSingle /\ OkReplyIsBacked
    BY DEF UInv
  <1>2. DraftsFit'
    <2>1. SUFFICES ASSUME NEW d \in Clients, d # c, pc'[d] = "posted"
                   PROVE  IF req'[d].op = "release" THEN ReleaseFits(d)'
                                                    ELSE InsertFits(d)'
      BY DEF DraftsFit
    <2>2. CASE req[d].op = "release"
      BY <1>1, <2>1, <2>2 DEF DraftsFit, ReleaseFits
    <2>3. CASE req[d].op # "release"
      <3>1. InsertFits(d)
        BY <1>1, <2>1, <2>3 DEF DraftsFit
      <3>2. CommandRow(req[d])' = CommandRow(req[d])
        BY <2>1 DEF CommandRow, WalletOf, TargetsRow
      <3>3. /\ ledger'[draft'[d].id] = None
            /\ draft'[d].row = CommandRow(req[d])'
            /\ ~UniqueViolation(draft[d].row)'
        BY <2>1, <3>1, <3>2
           DEF InsertFits, UniqueViolation, RowsWithKey, ReversalsOf
      <3>4. ASSUME NEW e \in Clients \ {d}, pc'[e] = "posted",
                   req'[e].op # "release"
            PROVE  /\ draft'[e].row.key # draft'[d].row.key
                   /\ draft'[d].row.reverses # None =>
                        draft'[e].row.reverses # draft'[d].row.reverses
        <4>1. CASE e # c
          BY <2>1, <3>1, <3>4, <4>1 DEF InsertFits
        <4>2. CASE e = c
          <5>1. InsertFits(c)'
            BY <3>4, <4>2
          <5>2. QED
            BY <2>1, <2>3, <4>2, <5>1 DEF InsertFits
        <4>3. QED
          BY <4>1, <4>2
      <3>5. QED
        BY <2>1, <2>3, <3>3, <3>4 DEF InsertFits
    <2>4. QED
      BY <2>2, <2>3
  <1>3. OriginalsAreReversible'
    BY <1>1 DEF OriginalsAreReversible, Reversible
  <1>4. RepliesStand'
    BY <1>1 DEF RepliesStand, ReplyStands, TargetsRow
  <1>5. EffectsAreSingle'
    BY <1>1 DEF EffectsAreSingle, Reversible, ReversalsOf
  <1>6. OkReplyIsBacked'
    <2>1. ASSUME NEW d \in Clients, d # c, pc'[d] = "replied",
                 reply'[d].status = "ok"
          PROVE  AnswerIsBacked(d)'
      <3>1. AnswerIsBacked(d)
        BY <1>1, <2>1, BackedByCall
      <3>2. CommandRow(req[d])' = CommandRow(req[d])
        BY <2>1 DEF CommandRow, WalletOf, TargetsRow
      <3>3. QED
        BY <2>1, <3>1, <3>2 DEF AnswerIsBacked
    <2>2. QED
      BY <2>1 DEF OkReplyIsBacked, AnswerIsBacked
  <1>7. LosersInsert'
    BY <1>1 DEF LosersInsert
  <1>8. QED
    BY <1>2, <1>3, <1>4, <1>5, <1>6, <1>7 DEF UInv

(* A transaction that ends without publishing, and an answer that reports  *)
(* success only for a committed row that is the command's.                 *)
LEMMA FinishUInv ==
    ASSUME IInv, UInv, NEW c \in Clients, NEW answer, Finish(c, answer),
           UNCHANGED <<ledger, req>>,
           answer.status = "ok" =>
              /\ req[c] \in Requests /\ Valid(req[c])
              /\ answer.id \in TxIds /\ ledger[answer.id] # None
              /\ TargetsRow(req[c]) => ledger[req[c].target] # None
              /\ IF req[c].op = "release"
                 THEN /\ answer.id = req[c].target
                      /\ ledger[answer.id].state = "Released"
                 ELSE ledger[answer.id] = CommandRow(req[c])
    PROVE  UInv'
  <1>1. TypeOK
    BY DEF IInv
  <1>2. /\ pc'[c] = "replied" /\ reply'[c] = answer /\ req'[c] = req[c]
        /\ \A d \in Clients \ {c} :
             /\ pc'[d] = pc[d] /\ req'[d] = req[d]
             /\ draft'[d] = draft[d] /\ reply'[d] = reply[d]
    BY <1>1 DEF TypeOK, Finish, EndTransaction
  <1>3. CommandRow(req[c])' = CommandRow(req[c])
    BY <1>2 DEF CommandRow, WalletOf, TargetsRow
  <1>4. ASSUME reply'[c].status = "ok"
        PROVE  ReplyStands(c)' /\ AnswerIsBacked(c)'
    <2>1. ReplyStands(c)'
      BY <1>2, <1>4 DEF ReplyStands, TargetsRow
    <2>2. CASE req[c].op = "release"
      BY <1>2, <1>4, <2>1, <2>2 DEF AnswerIsBacked
    <2>3. CASE req[c].op = "reserve"
      <3>1. [CommandRow(req[c]) EXCEPT !.state = "Reserved"] = CommandRow(req[c])
        BY <2>3 DEF CommandRow
      <3>2. QED
        BY <1>2, <1>3, <1>4, <2>1, <2>3, <3>1 DEF AnswerIsBacked
    <2>4. CASE req[c].op \notin {"release", "reserve"}
      BY <1>2, <1>3, <1>4, <2>1, <2>4 DEF AnswerIsBacked
    <2>5. QED
      BY <2>1, <2>2, <2>3, <2>4
  <1>5. QED
    BY <1>2, <1>4, PrivateUInv

(* A replay is answered with the row its key names, if it is the command's.*)
LEMMA ReplayIsBacked ==
    ASSUME NEW c \in Clients, NEW id \in RowsWithKey(req[c].key),
           ReplayReply(req[c], id).status = "ok"
    PROVE  /\ ReplayReply(req[c], id).id = id
           /\ id \in TxIds /\ ledger[id] # None
           /\ ledger[id] = CommandRow(req[c])
  BY DEF ReplayReply, Ok, Error, RowsWithKey

LEMMA NotFoundUInv ==
    ASSUME IInv, UInv, NEW c \in Clients, NotFound(c)
    PROVE  UInv'
  BY FinishUInv DEF NotFound, Error

LEMMA LookupUInv ==
    ASSUME IInv, UInv, NEW c \in Clients, Lookup(c)
    PROVE  UInv'
  <1> DEFINE found == RowsWithKey(req[c].key)
             winner == CHOOSE id \in found : TRUE
  <1>1. /\ TypeOK /\ CallsAreValid /\ LocksProtect
        /\ pc[c] = "locked" /\ req[c].op # "release"
        /\ UNCHANGED <<ledger, req>>
    BY DEF IInv, Lookup
  <1>2. /\ req[c] \in Requests /\ Valid(req[c])
        /\ TargetsRow(req[c]) => ledger[req[c].target] # None
    BY <1>1 DEF CallsAreValid, Running, LocksProtect, LockProtects, Holding
  <1>3. CASE Finish(c, Error)
    BY <1>1, <1>3, FinishUInv DEF Error
  <1>4. CASE found # {} /\ Finish(c, ReplayReply(req[c], winner))
    <2>1. winner \in found
      BY <1>4
    <2>2. QED
      BY <1>1, <1>2, <1>4, <2>1, ReplayIsBacked, FinishUInv
  <1>5. CASE /\ ~(req[c].op = "reverse" /\ ~Reversible(req[c].target))
             /\ pc' = [pc EXCEPT ![c] = "clear"]
             /\ UNCHANGED <<seen, draft, after, reply>>
    <2>1. /\ pc'[c] = "clear" /\ req'[c] = req[c]
          /\ \A d \in Clients \ {c} :
               /\ pc'[d] = pc[d] /\ req'[d] = req[d]
               /\ draft'[d] = draft[d] /\ reply'[d] = reply[d]
      BY <1>1, <1>5 DEF TypeOK
    <2>2. QED
      BY <1>1, <1>5, <2>1, PrivateUInv
  <1>6. QED
    BY <1>3, <1>4, <1>5 DEF Lookup

LEMMA ReadWinnerUInv ==
    ASSUME IInv, UInv, NEW c \in Clients, ReadWinner(c)
    PROVE  UInv'
  <1> DEFINE found == RowsWithKey(req[c].key)
             winner == CHOOSE id \in found : TRUE
  <1>1. /\ TypeOK /\ CallsAreValid /\ pc[c] = "violated"
        /\ UNCHANGED <<ledger, req>>
        /\ Finish(c, IF found = {} THEN Error ELSE ReplayReply(req[c], winner))
    BY DEF IInv, ReadWinner
  <1>2. req[c] \in Requests /\ Valid(req[c]) /\ req[c].op # "release"
    BY <1>1 DEF CallsAreValid, Running, UInv, LosersInsert
  <1>3. CASE found = {}
    BY <1>1, <1>3, FinishUInv DEF Error
  <1>4. CASE found # {}
    <2>1. winner \in found
      BY <1>4
    <2>2. ASSUME ReplayReply(req[c], winner).status = "ok", TargetsRow(req[c])
          PROVE  ledger[req[c].target] # None
      <3>1. /\ winner \in TxIds /\ ledger[winner] # None
            /\ ledger[winner] = CommandRow(req[c])
        BY <2>1, <2>2, ReplayIsBacked
      <3>2. req[c].op = "reverse" /\ req[c].target # None
        BY <1>2, <2>2 DEF TargetsRow, Valid
      <3>3. ledger[winner].reverses = req[c].target
        BY <3>1, <3>2 DEF CommandRow
      <3>4. QED
        BY <3>1, <3>2, <3>3 DEF UInv, OriginalsAreReversible
    <2>3. QED
      BY <1>1, <1>2, <1>4, <2>1, <2>2, ReplayIsBacked, FinishUInv
  <1>5. QED
    BY <1>3, <1>4

LEMMA SubmitUInv ==
    ASSUME IInv, UInv, NEW c \in Clients, NEW r \in Requests, Submit(c, r)
    PROVE  UInv'
  <1>1. TypeOK
    BY DEF IInv
  <1>2. /\ pc'[c] \in {"submitted", "replied"}
        /\ pc'[c] = "replied" => reply'[c].status = "error"
        /\ UNCHANGED <<ledger, draft>>
        /\ \A d \in Clients \ {c} :
             pc'[d] = pc[d] /\ req'[d] = req[d] /\ reply'[d] = reply[d]
    BY <1>1 DEF TypeOK, Submit, Error
  <1>3. QED
    BY <1>2, PrivateUInv

LEMMA CrashUInv ==
    ASSUME IInv, UInv, NEW c \in Clients, Crash(c)
    PROVE  UInv'
  <1>1. TypeOK
    BY DEF IInv
  <1>2. /\ pc'[c] = "idle"
        /\ UNCHANGED ledger
        /\ \A d \in Clients \ {c} :
             /\ pc'[d] = pc[d] /\ req'[d] = req[d]
             /\ draft'[d] = draft[d] /\ reply'[d] = reply[d]
    BY <1>1 DEF TypeOK, Crash, EndTransaction
  <1>3. QED
    BY <1>2, PrivateUInv

LEMMA LockWalletUInv ==
    ASSUME IInv, UInv, NEW c \in Clients, LockWallet(c)
    PROVE  UInv'
  <1>1. TypeOK
    BY DEF IInv
  <1>2. /\ pc'[c] = "locked"
        /\ UNCHANGED <<ledger, req, draft, reply>>
        /\ \A d \in Clients \ {c} : pc'[d] = pc[d]
    BY <1>1 DEF TypeOK, LockWallet
  <1>3. QED
    BY <1>2, PrivateUInv

LEMMA PostRowUInv ==
    ASSUME IInv, UInv, NEW c \in Clients, pc[c] = "clear", NEW guard,
           NEW balance, PostRow(c, guard, balance)
    PROVE  UInv'
  <1> DEFINE row == CommandRow(req[c])
  <1>1. /\ TypeOK /\ ChecksHold /\ DraftsFit /\ OriginalsAreReversible
        /\ req[c].op # "release"
        /\ ~InsertWaits(c, row)
        /\ UNCHANGED <<ledger, req>>
    BY DEF IInv, UInv, ChecksHold, PostRow
  <1>2. CASE Finish(c, Error)
    BY <1>1, <1>2, FinishUInv DEF Error
  <1>3. CASE /\ EndTransaction(c)
             /\ pc' = [pc EXCEPT ![c] = "violated"]
             /\ UNCHANGED reply
    <2>1. /\ pc'[c] = "violated" /\ req'[c] = req[c]
          /\ \A d \in Clients \ {c} :
               /\ pc'[d] = pc[d] /\ req'[d] = req[d]
               /\ draft'[d] = draft[d] /\ reply'[d] = reply[d]
      BY <1>1, <1>3 DEF TypeOK, EndTransaction
    <2>2. QED
      BY <1>1, <2>1, PrivateUInv
  <1>4. CASE /\ ~UniqueViolation(row)
             /\ pc' = [pc EXCEPT ![c] = "posted"]
             /\ \E id \in FreeIds :
                   draft' = [draft EXCEPT ![c] = [id |-> id, row |-> row]]
             /\ UNCHANGED reply
    <2>1. PICK id \in FreeIds :
                draft' = [draft EXCEPT ![c] = [id |-> id, row |-> row]]
      BY <1>4
    <2>2. /\ pc'[c] = "posted" /\ req'[c] = req[c]
          /\ draft'[c].id = id /\ draft'[c].row = row
          /\ ledger[id] = None
          /\ \A d \in Clients \ {c} :
               /\ pc'[d] = pc[d] /\ req'[d] = req[d]
               /\ draft'[d] = draft[d] /\ reply'[d] = reply[d]
      BY <1>1, <1>4, <2>1 DEF TypeOK, FreeIds
    <2>3. CommandRow(req[c])' = row
      BY <1>1 DEF CommandRow, WalletOf, TargetsRow
    <2>4. ~UniqueViolation(draft[c].row)'
      BY <1>1, <1>4, <2>2 DEF UniqueViolation, RowsWithKey, ReversalsOf
    <2>5. \A d \in Clients \ {c} : pc[d] = "posted" /\ req[d].op # "release" =>
             /\ draft[d].row.key # row.key
             /\ row.reverses # None => draft[d].row.reverses # row.reverses
      BY <1>1 DEF InsertWaits
    <2>6. InsertFits(c)'
      <3> HIDE DEF row
      <3>1. QED
        BY <1>1, <2>2, <2>3, <2>4, <2>5 DEF InsertFits
    <2>7. req[c].op = "reverse" => Reversible(req[c].target)
      BY <1>1 DEF OriginalsAreReversible
    <2>8. QED
      BY <1>1, <2>2, <2>6, <2>7, PrivateUInv
  <1>5. QED
    BY <1>2, <1>3, <1>4 DEF PostRow

LEMMA PostUInv ==
    ASSUME IInv, UInv, NEW c \in Clients,
           \/ PostCredit(c) \/ PostDebit(c) \/ PostReserve(c) \/ PostReversal(c)
    PROVE  UInv'
  BY PostRowUInv DEF PostCredit, PostDebit, PostReserve, PostReversal

LEMMA ReleaseUInv ==
    ASSUME IInv, UInv, NEW c \in Clients, Release(c)
    PROVE  UInv'
  <1> DEFINE id == req[c].target
             row == ledger[id]
             new == [row EXCEPT !.state = "Released"]
  <1>1. /\ TypeOK /\ CallsAreValid /\ LocksProtect
        /\ pc[c] = "locked" /\ req[c].op = "release"
        /\ UNCHANGED <<ledger, req>>
    BY DEF IInv, Release
  <1>2. /\ req[c] \in Requests /\ Valid(req[c]) /\ id \in TxIds
        /\ row # None /\ row \in Row
    <2>1. req[c] \in Requests /\ req[c] \in Request /\ Valid(req[c])
      BY <1>1, RequestsAssumption DEF CallsAreValid, Running
    <2>2. row # None
      BY <1>1 DEF LocksProtect, LockProtects, Holding, TargetsRow
    <2>3. id \in TxIds
      BY <1>1, <2>1 DEF Valid, Request
    <2>4. QED
      BY <1>1, <2>1, <2>2, <2>3 DEF TypeOK
  <1>3. CASE Finish(c, Error)
    BY <1>1, <1>3, FinishUInv DEF Error
  <1>4. CASE row.state = "Released" /\ Finish(c, Ok(id))
    BY <1>1, <1>2, <1>4, FinishUInv DEF Ok
  <1>5. CASE /\ ~(row.amount <= 0)
             /\ draft' = [draft EXCEPT ![c] = [id |-> id, row |-> new]]
             /\ pc' = [pc EXCEPT ![c] = "posted"]
             /\ UNCHANGED reply
    <2>1. /\ pc'[c] = "posted" /\ req'[c] = req[c] /\ draft'[c].id = id
          /\ \A d \in Clients \ {c} :
               /\ pc'[d] = pc[d] /\ req'[d] = req[d]
               /\ draft'[d] = draft[d] /\ reply'[d] = reply[d]
      BY <1>1, <1>5 DEF TypeOK
    <2>2. row.amount \in Int
      BY <1>2 DEF Row
    <2>3. ReleaseFits(c)'
      BY <1>1, <1>2, <1>5, <2>1, <2>2 DEF ReleaseFits
    <2>4. QED
      BY <1>1, <2>1, <2>3, PrivateUInv
  <1>6. QED
    BY <1>3, <1>4, <1>5 DEF Release

(* What a COMMIT does to the ledger, as the unique indexes see it: either  *)
(* one row appears whose key and original are nobody's, or one reservation *)
(* is released.                                                            *)
LEMMA CommitFits ==
    ASSUME IInv, UInv, NEW c \in Clients, Commit(c)
    PROVE  /\ draft[c].id \in TxIds /\ draft[c].row \in Row
           /\ IF req[c].op = "release"
              THEN /\ ReleaseFits(c)
                   /\ ledger[draft[c].id].state = "Reserved"
                   /\ draft[c].row
                        = [ledger[draft[c].id] EXCEPT !.state = "Released"]
              ELSE InsertFits(c)
  <1>1. pc[c] = "posted" /\ WriteIsSound(c)
    BY CommitWrites DEF Commit
  <1>2. IF req[c].op = "release" THEN ReleaseFits(c) ELSE InsertFits(c)
    BY <1>1 DEF UInv, DraftsFit
  <1>3. QED
    BY <1>1, <1>2 DEF WriteIsSound, ReleaseFits

(* Keys and originals of committed rows stay; those of a new row are added.*)
LEMMA CommitIndexes ==
    ASSUME IInv, UInv, NEW c \in Clients, Commit(c), NEW id \in TxIds
    PROVE  /\ ledger[id] # None =>
                /\ ledger'[id] # None
                /\ ledger'[id].key = ledger[id].key
                /\ ledger'[id].reverses = ledger[id].reverses
                /\ ledger'[id].amount = ledger[id].amount
                /\ ledger'[id].wallet = ledger[id].wallet
                /\ ledger'[id].type = ledger[id].type
                /\ ledger[id].state # "Reserved" => ledger'[id] = ledger[id]
           /\ ledger[id] = None /\ ledger'[id] # None =>
                /\ req[c].op # "release"
                /\ id = draft[c].id
                /\ ledger'[id] = draft[c].row
                /\ InsertFits(c)
  <1>1. CASE ledger[id] # None
    <2>1. ledger[id] \in Row
      BY <1>1 DEF IInv, TypeOK
    <2>2. CASE ledger'[id] = ledger[id]
      BY <1>1, <2>2
    <2>3. CASE /\ ledger[id].state = "Reserved"
               /\ ledger'[id] = [ledger[id] EXCEPT !.state = "Released"]
      <3>1. ledger'[id] # None
        BY <1>1, CommitKeepsRows
      <3>2. QED
        BY <1>1, <2>1, <2>3, <3>1 DEF Row
    <2>4. QED
      BY <1>1, <2>2, <2>3, CommitKeepsRows
  <1>2. CASE ledger[id] = None /\ ledger'[id] # None
    <2>1. id = draft[c].id /\ ledger'[id] = draft[c].row
      BY <1>2, CommitWrites
    <2>2. req[c].op # "release"
      BY <1>2, <2>1, CommitFits DEF ReleaseFits
    <2>3. QED
      BY <1>2, <2>1, <2>2, CommitFits
  <1>3. QED
    BY <1>1, <1>2

(* The row a command inserts does not depend on a COMMIT beside it.        *)
LEMMA CommitKeepsCommands ==
    ASSUME IInv, UInv, NEW c \in Clients, Commit(c), NEW r \in Requests,
           Valid(r), TargetsRow(r) => ledger[r.target] # None
    PROVE  /\ CommandRow(r)' = CommandRow(r)
           /\ TargetsRow(r) => ledger'[r.target] # None
  <1>1. TargetsRow(r) => r.target \in TxIds
    BY RequestsAssumption DEF Request, TargetsRow, Valid
  <1>2. TargetsRow(r) => /\ ledger'[r.target] # None
                         /\ ledger'[r.target].amount = ledger[r.target].amount
                         /\ ledger'[r.target].wallet = ledger[r.target].wallet
    BY <1>1, CommitIndexes
  <1>3. QED
    BY <1>2 DEF CommandRow, WalletOf, TargetsRow

LEMMA CommitDraftsFit ==
    ASSUME IInv, UInv, NEW c \in Clients, Commit(c)
    PROVE  DraftsFit'
  <1>1. /\ TypeOK /\ CallsAreValid /\ LocksProtect /\ DraftsFit
        /\ WritesAreDisjoint /\ WritesAreSound /\ pc[c] = "posted"
        /\ UNCHANGED req
    BY DEF IInv, UInv, Commit
  <1>2. /\ pc'[c] = "replied"
        /\ \A d \in Clients \ {c} : pc'[d] = pc[d] /\ draft'[d] = draft[d]
    BY <1>1 DEF TypeOK, Commit, Finish, EndTransaction
  <1>3. SUFFICES ASSUME NEW d \in Clients, d # c, pc[d] = "posted"
                 PROVE  IF req[d].op = "release" THEN ReleaseFits(d)'
                                                 ELSE InsertFits(d)'
    BY <1>1, <1>2 DEF DraftsFit
  <1>4. /\ draft[d].id \in TxIds /\ draft[d].id # draft[c].id
        /\ draft'[d] = draft[d] /\ req'[d] = req[d]
    BY <1>1, <1>2, <1>3, NoneAssumption
       DEF WritesAreSound, WriteIsSound, WritesAreDisjoint, WriteIsOwn
  <1>5. ledger'[draft[d].id] = ledger[draft[d].id]
    BY <1>4, CommitWrites
  <1>6. CASE req[d].op = "release"
    BY <1>1, <1>3, <1>4, <1>5, <1>6 DEF DraftsFit, ReleaseFits
  <1>7. CASE req[d].op # "release"
    <2>1. InsertFits(d)
      BY <1>1, <1>3, <1>7 DEF DraftsFit
    <2>2. /\ req[d] \in Requests /\ Valid(req[d])
          /\ TargetsRow(req[d]) => ledger[req[d].target] # None
      BY <1>1, <1>3
         DEF CallsAreValid, Running, LocksProtect, LockProtects, Holding
    <2>3. CommandRow(req[d])' = CommandRow(req[d])
      BY <1>4, <2>2, CommitKeepsCommands
    <2>4. ASSUME NEW id \in TxIds, ledger'[id] # None
          PROVE  /\ ledger'[id].key # draft[d].row.key
                 /\ draft[d].row.reverses # None =>
                      ledger'[id].reverses # draft[d].row.reverses
      <3>1. CASE ledger[id] # None
        BY <2>1, <2>4, <3>1, CommitIndexes
           DEF InsertFits, UniqueViolation, RowsWithKey, ReversalsOf
      <3>2. CASE ledger[id] = None
        <4>1. /\ req[c].op # "release" /\ ledger'[id] = draft[c].row
          BY <2>4, <3>2, CommitIndexes
        <4>2. QED
          BY <1>1, <1>3, <2>1, <4>1 DEF InsertFits
      <3>3. QED
        BY <3>1, <3>2
    <2>5. ~UniqueViolation(draft[d].row)'
      BY <1>4, <2>4 DEF UniqueViolation, RowsWithKey, ReversalsOf
    <2>6. \A e \in Clients \ {d} : pc'[e] = "posted" /\ req'[e].op # "release" =>
             /\ draft'[e].row.key # draft[d].row.key
             /\ draft[d].row.reverses # None =>
                  draft'[e].row.reverses # draft[d].row.reverses
      BY <1>1, <1>2, <2>1 DEF InsertFits
    <2>7. InsertFits(d)'
      BY <1>4, <1>5, <2>1, <2>3, <2>5, <2>6 DEF InsertFits
    <2>8. QED
      BY <1>7, <2>7
  <1>8. QED
    BY <1>6, <1>7

LEMMA CommitOriginals ==
    ASSUME IInv, UInv, NEW c \in Clients, Commit(c)
    PROVE  OriginalsAreReversible'
  <1>1. /\ TypeOK /\ CallsAreValid /\ LocksProtect /\ OriginalsAreReversible
        /\ pc[c] = "posted" /\ UNCHANGED req
    BY DEF IInv, UInv, Commit
  <1>2. pc'[c] = "replied" /\ \A d \in Clients \ {c} : pc'[d] = pc[d]
    BY <1>1 DEF TypeOK, Commit, Finish
  <1>3. ASSUME NEW d \in Clients, pc'[d] \in {"clear", "posted"},
               req'[d].op = "reverse"
        PROVE  Reversible(req[d].target)'
    <2>1. /\ pc[d] \in {"clear", "posted"} /\ req[d].op = "reverse"
          /\ Reversible(req[d].target) /\ req'[d] = req[d]
      BY <1>1, <1>2, <1>3 DEF OriginalsAreReversible
    <2>2. /\ req[d].target \in TxIds /\ ledger[req[d].target] # None
      BY <1>1, <2>1, RequestsAssumption
         DEF CallsAreValid, Running, LocksProtect, LockProtects, Holding,
             TargetsRow, Valid, Request
    <2>3. ledger'[req[d].target] = ledger[req[d].target]
      BY <2>1, <2>2, CommitIndexes DEF Reversible
    <2>4. QED
      BY <2>1, <2>3 DEF Reversible
  <1>4. ASSUME NEW id \in TxIds, ledger'[id] # None,
               ledger'[id].reverses # None
        PROVE  ledger'[ledger'[id].reverses] # None
    <2>1. CASE ledger[id] # None
      <3>1. /\ ledger'[id].reverses = ledger[id].reverses
            /\ ledger[ledger[id].reverses] # None
            /\ ledger[id].reverses \in TxIds
        BY <1>1, <1>4, <2>1, CommitIndexes
           DEF OriginalsAreReversible, TypeOK, Row
      <3>2. QED
        BY <3>1, CommitIndexes
    <2>2. CASE ledger[id] = None
      <3>1. ledger'[id] = CommandRow(req[c]) /\ req[c].op # "release"
        BY <1>4, <2>2, CommitIndexes DEF InsertFits
      <3>2. req[c].op = "reverse" /\ ledger'[id].reverses = req[c].target
        BY <1>4, <3>1 DEF CommandRow
      <3>3. /\ req[c].target \in TxIds /\ ledger[req[c].target] # None
        BY <1>1, <3>2, RequestsAssumption
           DEF CallsAreValid, Running, LocksProtect, LockProtects, Holding,
               TargetsRow, Valid, Request
      <3>4. QED
        BY <3>2, <3>3, CommitIndexes
    <2>3. QED
      BY <2>1, <2>2
  <1>5. QED
    BY <1>3, <1>4 DEF OriginalsAreReversible

(* A committed row that answers a command goes on to do so.                *)
LEMMA CommitReplies ==
    ASSUME IInv, UInv, NEW c \in Clients, Commit(c)
    PROVE  RepliesStand' /\ OkReplyIsBacked'
  <1>1. /\ TypeOK /\ CallsAreValid /\ LocksProtect /\ RepliesStand
        /\ OkReplyIsBacked /\ pc[c] = "posted" /\ UNCHANGED req
    BY DEF IInv, UInv, Commit
  <1>2. /\ reply'[c] = Ok(draft[c].id)
        /\ \A d \in Clients \ {c} : pc'[d] = pc[d] /\ reply'[d] = reply[d]
    BY <1>1 DEF TypeOK, Commit, Finish
  <1>3. SUFFICES ASSUME NEW d \in Clients, pc'[d] = "replied",
                        reply'[d].status = "ok"
                 PROVE  ReplyStands(d)' /\ AnswerIsBacked(d)'
    BY DEF RepliesStand, OkReplyIsBacked, AnswerIsBacked
  <1>4. CASE d = c
    <2>1. /\ req[c] \in Requests /\ Valid(req[c])
          /\ TargetsRow(req[c]) => ledger[req[c].target] # None
      BY <1>1 DEF CallsAreValid, Running, LocksProtect, LockProtects, Holding
    <2>2. /\ CommandRow(req[c])' = CommandRow(req[c])
          /\ TargetsRow(req[c]) => ledger'[req[c].target] # None
      BY <1>1, <2>1, CommitKeepsCommands
    <2>3. /\ reply'[c].id = draft[c].id
          /\ draft[c].id \in TxIds
          /\ ledger'[draft[c].id] = draft[c].row
          /\ draft[c].row # None
      <3>1. draft[c].id \in TxIds /\ draft[c].row \in Row
        BY CommitFits
      <3>2. ledger'[draft[c].id] = draft[c].row
        BY CommitWrites
      <3>3. QED
        BY <1>2, <3>1, <3>2, NoneAssumption DEF Ok
    <2>4. ReplyStands(c)'
      BY <1>1, <2>1, <2>2, <2>3 DEF ReplyStands, TargetsRow
    <2>5. CASE req[c].op = "release"
      <3>1. /\ draft[c].id = req[c].target
            /\ ledger[draft[c].id] \in Row
            /\ draft[c].row = [ledger[draft[c].id] EXCEPT !.state = "Released"]
        BY <1>1, <2>3, <2>5, CommitFits DEF ReleaseFits, TypeOK
      <3>2. draft[c].row.state = "Released"
        BY <3>1 DEF Row
      <3>3. QED
        BY <1>1, <1>4, <2>3, <2>4, <2>5, <3>1, <3>2 DEF AnswerIsBacked
    <2>6. CASE req[c].op # "release"
      <3>1. draft[c].row = CommandRow(req[c])
        BY <2>6, CommitFits DEF InsertFits
      <3>2. req[c].op = "reserve" =>
              [CommandRow(req[c]) EXCEPT !.state = "Reserved"] = CommandRow(req[c])
        BY DEF CommandRow
      <3>3. QED
        BY <1>1, <1>4, <2>2, <2>3, <2>4, <2>6, <3>1, <3>2 DEF AnswerIsBacked
    <2>7. QED
      BY <2>5, <2>6
  <1>5. CASE d # c
    <2>1. /\ ReplyStands(d) /\ AnswerIsBacked(d)
          /\ reply'[d] = reply[d] /\ req'[d] = req[d]
      BY <1>1, <1>2, <1>3, <1>5, BackedByCall DEF RepliesStand
    <2> DEFINE id == reply[d].id
    <2>2. /\ CommandRow(req[d])' = CommandRow(req[d])
          /\ TargetsRow(req[d]) => ledger'[req[d].target] # None
      BY <2>1, CommitKeepsCommands DEF ReplyStands
    <2>3. /\ id \in TxIds /\ ledger[id] # None /\ ledger[id] \in Row
          /\ ledger'[id] # None
          /\ \/ ledger'[id] = ledger[id]
             \/ /\ ledger[id].state = "Reserved"
                /\ ledger'[id] = [ledger[id] EXCEPT !.state = "Released"]
      BY <1>1, <2>1, CommitKeepsRows DEF ReplyStands, TypeOK
    <2>4. ReplyStands(d)'
      BY <2>1, <2>2, <2>3 DEF ReplyStands, TargetsRow
    <2>5. CASE req[d].op = "release"
      <3>1. id = req[d].target /\ ledger[id].state = "Released"
        BY <2>1, <2>5 DEF AnswerIsBacked
      <3>2. ledger'[id] = ledger[id]
        BY <2>3, <3>1
      <3>3. QED
        BY <2>1, <2>4, <2>5, <3>1, <3>2 DEF AnswerIsBacked
    <2>6. CASE req[d].op = "reserve"
      <3>1. \/ ledger[id] = [CommandRow(req[d]) EXCEPT !.state = "Reserved"]
            \/ ledger[id] = [CommandRow(req[d]) EXCEPT !.state = "Released"]
        BY <2>1, <2>6 DEF AnswerIsBacked
      <3>2. \/ ledger'[id] = [CommandRow(req[d]) EXCEPT !.state = "Reserved"]
            \/ ledger'[id] = [CommandRow(req[d]) EXCEPT !.state = "Released"]
        BY <2>3, <3>1 DEF CommandRow
      <3>3. QED
        BY <2>1, <2>2, <2>4, <2>6, <3>2 DEF AnswerIsBacked
    <2>7. CASE req[d].op \notin {"release", "reserve"}
      <3>1. ledger[id] = CommandRow(req[d])
        BY <2>1, <2>7 DEF AnswerIsBacked
      <3>2. ledger[id].state = "Completed"
        BY <2>7, <3>1 DEF CommandRow
      <3>3. ledger'[id] = ledger[id]
        BY <2>3, <3>2
      <3>4. QED
        BY <2>1, <2>2, <2>4, <2>7, <3>1, <3>3 DEF AnswerIsBacked
    <2>8. QED
      BY <2>5, <2>6, <2>7
  <1>6. QED
    BY <1>4, <1>5

LEMMA CommitEffects ==
    ASSUME IInv, UInv, NEW c \in Clients, Commit(c)
    PROVE  EffectsAreSingle'
  <1>1. /\ TypeOK /\ CallsAreValid /\ LocksProtect /\ EffectsAreSingle
        /\ OriginalsAreReversible /\ pc[c] = "posted"
    BY DEF IInv, UInv, Commit
  <1>2. ASSUME NEW i \in TxIds, NEW j \in TxIds, ledger'[i] # None,
               ledger'[j] # None, ledger'[i].key = ledger'[j].key
        PROVE  i = j
    <2>1. CASE ledger[i] # None /\ ledger[j] # None
      BY <1>1, <1>2, <2>1, CommitIndexes DEF EffectsAreSingle
    <2>2. CASE ledger[i] = None /\ ledger[j] = None
      BY <1>2, <2>2, CommitIndexes
    <2>3. CASE ledger[i] = None /\ ledger[j] # None
      BY <1>2, <2>3, CommitIndexes DEF InsertFits, UniqueViolation, RowsWithKey
    <2>4. CASE ledger[i] # None /\ ledger[j] = None
      BY <1>2, <2>4, CommitIndexes DEF InsertFits, UniqueViolation, RowsWithKey
    <2>5. QED
      BY <2>1, <2>2, <2>3, <2>4
  <1>3. ASSUME NEW i \in TxIds, NEW j \in TxIds, ledger'[i] # None,
               ledger'[j] # None, ledger'[i].reverses = j
        PROVE  /\ Reversible(j)'
               /\ ledger'[i].amount = -ledger'[j].amount
               /\ ledger'[i].wallet = ledger'[j].wallet
               /\ \A k \in TxIds : ledger'[k] # None /\ ledger'[k].reverses = j =>
                     k = i
    <2>1. CASE ledger[i] # None
      <3>1. /\ ledger[i].reverses = j /\ ledger[j] # None
            /\ Reversible(j)
            /\ ledger[i].amount = -ledger[j].amount
            /\ ledger[i].wallet = ledger[j].wallet
            /\ ReversalsOf(j) = {i}
        BY <1>1, <1>3, <2>1, CommitIndexes, NoneAssumption
           DEF EffectsAreSingle, OriginalsAreReversible
      <3>2. ledger'[j] = ledger[j]
        BY <3>1, CommitIndexes DEF Reversible
      <3>3. ASSUME NEW k \in TxIds, ledger'[k] # None, ledger'[k].reverses = j
            PROVE  k = i
        <4>1. CASE ledger[k] # None
          BY <3>1, <3>3, <4>1, CommitIndexes DEF ReversalsOf
        <4>2. CASE ledger[k] = None
          BY <3>1, <3>3, <4>2, CommitIndexes, NoneAssumption
             DEF InsertFits, UniqueViolation, ReversalsOf
        <4>3. QED
          BY <4>1, <4>2
      <3>4. QED
        BY <2>1, <3>1, <3>2, <3>3, CommitIndexes DEF Reversible
    <2>2. CASE ledger[i] = None
      <3>1. /\ ledger'[i] = CommandRow(req[c]) /\ req[c].op # "release"
            /\ i = draft[c].id /\ InsertFits(c) /\ ledger'[i] = draft[c].row
        BY <1>3, <2>2, CommitIndexes DEF InsertFits
      <3>2. req[c].op = "reverse" /\ req[c].target = j
        BY <1>3, <3>1, NoneAssumption DEF CommandRow
      <3>3. /\ ledger[j] # None /\ Reversible(j)
        BY <1>1, <3>2
           DEF OriginalsAreReversible, LocksProtect, LockProtects, Holding,
               TargetsRow
      <3>4. ledger'[j] = ledger[j]
        BY <3>3, CommitIndexes DEF Reversible
      <3>5. /\ ledger'[i].amount = -ledger[j].amount
            /\ ledger'[i].wallet = ledger[j].wallet
        BY <3>1, <3>2 DEF CommandRow, WalletOf, TargetsRow
      <3>6. ASSUME NEW k \in TxIds, ledger'[k] # None, ledger'[k].reverses = j
            PROVE  k = i
        <4>1. CASE ledger[k] # None
          <5>1. ledger[k].reverses = j
            BY <3>6, <4>1, CommitIndexes
          <5>2. QED
            BY <1>3, <3>1, <4>1, <5>1, NoneAssumption
               DEF InsertFits, UniqueViolation, ReversalsOf
        <4>2. CASE ledger[k] = None
          BY <3>1, <3>6, <4>2, CommitIndexes
        <4>3. QED
          BY <4>1, <4>2
      <3>7. QED
        BY <3>3, <3>4, <3>5, <3>6 DEF Reversible
    <2>3. QED
      BY <2>1, <2>2
  <1>4. ASSUME NEW i \in TxIds, NEW j \in TxIds, ledger'[i] # None,
               ledger'[j] # None, ledger'[i].reverses = j
        PROVE  ReversalsOf(j)' = {i}
    BY <1>3, <1>4 DEF ReversalsOf
  <1>5. QED
    BY <1>2, <1>3, <1>4 DEF EffectsAreSingle

LEMMA CommitUInv ==
    ASSUME IInv, UInv, NEW c \in Clients, Commit(c)
    PROVE  UInv'
  <1>1. LosersInsert'
    BY DEF IInv, TypeOK, UInv, LosersInsert, Commit, Finish
  <1>2. QED
    BY <1>1, CommitDraftsFit, CommitOriginals, CommitReplies, CommitEffects
       DEF UInv

LEMMA NextUInv == IInv /\ UInv /\ [Next]_vars => UInv'
  <1> SUFFICES ASSUME IInv, UInv, [Next]_vars PROVE UInv'
    OBVIOUS
  <1>1. ASSUME UNCHANGED <<ledger, pc, req, draft, reply>> PROVE UInv'
    <2>1. DraftsFit' /\ OriginalsAreReversible' /\ LosersInsert' /\ RepliesStand'
      BY <1>1 DEF UInv, DraftsFit, InsertFits, ReleaseFits, UniqueViolation,
                  RowsWithKey, ReversalsOf, OriginalsAreReversible, Reversible,
                  LosersInsert, RepliesStand, ReplyStands, TargetsRow,
                  CommandRow, WalletOf
    <2>2. EffectsAreSingle'
      BY <1>1 DEF UInv, EffectsAreSingle, Reversible, ReversalsOf
    <2>3. OkReplyIsBacked'
      <3>1. ASSUME NEW c \in Clients, pc'[c] = "replied",
                   reply'[c].status = "ok"
            PROVE  AnswerIsBacked(c)'
        <4>1. AnswerIsBacked(c)
          BY <1>1, <3>1, BackedByCall DEF UInv
        <4>2. CommandRow(req[c])' = CommandRow(req[c])
          BY <1>1 DEF CommandRow, WalletOf, TargetsRow
        <4>3. QED
          BY <1>1, <4>1, <4>2 DEF AnswerIsBacked
      <3>2. QED
        BY <3>1 DEF OkReplyIsBacked, AnswerIsBacked
    <2>4. QED
      BY <2>1, <2>2, <2>3 DEF UInv
  <1>2. ASSUME NEW w \in Wallets, CreateWallet(w) \/ ArchiveProfile(w)
        PROVE  UInv'
    BY <1>1, <1>2 DEF CreateWallet, ArchiveProfile
  <1>3. ASSUME NEW c \in Clients, NEW r \in Requests, Submit(c, r) PROVE UInv'
    BY <1>3, SubmitUInv
  <1>4. ASSUME NEW c \in Clients, Step(c) PROVE UInv'
    BY <1>4, NotFoundUInv, LockWalletUInv, LookupUInv, PostUInv, ReleaseUInv,
       CommitUInv, ReadWinnerUInv DEF Step
  <1>5. ASSUME NEW c \in Clients, Crash(c) PROVE UInv'
    BY <1>5, CrashUInv
  <1>6. CASE UNCHANGED vars
    BY <1>1, <1>6 DEF vars
  <1>7. QED
    BY <1>2, <1>3, <1>4, <1>5, <1>6 DEF Next

THEOREM Uniqueness == Spec => []UInv
  BY InitUInv, NextUInv, Invariance, PTL DEF Spec

(* However many calls race for a key, on one wallet or on several, it      *)
(* posts one row; and an original is reversed at most once, exactly: the   *)
(* unique indexes cover what the locks do not.                             *)
THEOREM SingleEffects == Spec => []EffectsAreSingle
  <1>1. UInv => EffectsAreSingle
    BY DEF UInv
  <1>2. QED
    BY <1>1, Uniqueness, PTL

(* A caller that was told "ok" owns a committed row of its own command,    *)
(* whoever inserted it and whatever happened since.                        *)
THEOREM RepliesAreBacked == Spec => []OkReplyIsBacked
  <1>1. UInv => OkReplyIsBacked
    BY DEF UInv
  <1>2. QED
    BY <1>1, Uniqueness, PTL

-------------------------------------------------------------------------------
(* The refinement: what each step is to the abstract accounts.             *)

Posted == [w \in Wallets |-> wallets[w].posted]

Reserved == [w \in Wallets |-> wallets[w].reserved]

Closed == {w \in Wallets : archived[w]}

Done == {ledger[id].key : id \in {i \in TxIds : ledger[i] # None}}

(* The balances after a COMMIT.                                            *)
LEMMA CommitBalances ==
    ASSUME IInv, NEW c \in Clients, Commit(c)
    PROVE  LET w == seen[c].wallet
           IN  /\ w \in Wallets \ Closed
               /\ UNCHANGED Closed
               /\ Posted' = [Posted EXCEPT ![w] = after[c].posted]
               /\ Reserved' = [Reserved EXCEPT ![w] = after[c].reserved]
  <1>1. /\ WriteIsSound(c) /\ seen[c].wallet \in Wallets
        /\ wallets'[seen[c].wallet] = after[c]
        /\ \A w \in Wallets : w # seen[c].wallet => wallets'[w] = wallets[w]
        /\ UNCHANGED archived
    BY CommitWrites DEF Commit
  <1>2. seen[c].wallet \notin Closed /\ UNCHANGED Closed
    BY <1>1 DEF WriteIsSound, Closed
  <1>3. Posted' = [Posted EXCEPT ![seen[c].wallet] = after[c].posted]
    BY <1>1 DEF Posted
  <1>4. Reserved' = [Reserved EXCEPT ![seen[c].wallet] = after[c].reserved]
    BY <1>1 DEF Reserved
  <1>5. QED
    BY <1>1, <1>2, <1>3, <1>4

(* The keys that are done after a COMMIT.                                  *)
LEMMA CommitKeys ==
    ASSUME IInv, UInv, NEW c \in Clients, Commit(c)
    PROVE  IF req[c].op = "release" THEN UNCHANGED Done
           ELSE /\ draft[c].row.key \in Keys \ Done
                /\ Done' = Done \cup {draft[c].row.key}
  <1>1. /\ draft[c].id \in TxIds /\ draft[c].row \in Row
        /\ ledger'[draft[c].id] = draft[c].row /\ draft[c].row # None
    <2>1. draft[c].id \in TxIds /\ draft[c].row \in Row
      BY CommitFits
    <2>2. ledger'[draft[c].id] = draft[c].row
      BY CommitWrites
    <2>3. QED
      BY <2>1, <2>2, NoneAssumption
  <1>2. \A id \in TxIds : ledger[id] # None =>
           ledger'[id] # None /\ ledger'[id].key = ledger[id].key
    BY CommitIndexes
  <1>3. CASE req[c].op = "release"
    <2>1. \A id \in TxIds : ledger'[id] # None => ledger[id] # None
      BY <1>3, CommitIndexes
    <2>2. UNCHANGED Done
      BY <1>2, <2>1 DEF Done
    <2>3. QED
      BY <1>3, <2>2
  <1>4. CASE req[c].op # "release"
    <2>1. InsertFits(c)
      BY <1>4, CommitFits
    <2>2. draft[c].row.key \in Keys \ Done
      BY <1>1, <2>1 DEF Row, Done, InsertFits, UniqueViolation, RowsWithKey
    <2>3. \A id \in TxIds : ledger'[id] # None =>
             ledger[id] # None \/ id = draft[c].id
      BY CommitIndexes
    <2>4. Done' = Done \cup {draft[c].row.key}
      BY <1>1, <1>2, <2>3 DEF Done
    <2>5. QED
      BY <1>4, <2>2, <2>4
  <1>5. QED
    BY <1>3, <1>4

LEMMA InitAccounts == Init => Accounts!Init
  BY DEF Init, Accounts!Init, Empty

(* A COMMIT is one step of the accounts: it moves a balance, holds a part  *)
(* of it or frees a hold, as the row it publishes says.                    *)
LEMMA CommitAccounts ==
    ASSUME IInv, UInv, NEW c \in Clients, Commit(c)
    PROVE  Accounts!Next
  <1> DEFINE row == draft[c].row
             old == ledger[draft[c].id]
  <1>1. /\ WriteIsSound(c) /\ TypeOK /\ NeverOverdrawn /\ CallsAreValid
        /\ pc[c] = "posted"
    BY CommitWrites DEF IInv, Commit
  <1>2. PICK w \in Wallets : w = seen[c].wallet
    BY CommitBalances
  <1>3. /\ w \notin Closed
        /\ UNCHANGED Closed
        /\ Posted' = [Posted EXCEPT ![w] = after[c].posted]
        /\ Reserved' = [Reserved EXCEPT ![w] = after[c].reserved]
    BY <1>2, CommitBalances
  <1>4. /\ wallets[w] \in Balance /\ after[c] \in Balance
        /\ Posted[w] = wallets[w].posted /\ Reserved[w] = wallets[w].reserved
        /\ Posted'[w] = after[c].posted /\ Reserved'[w] = after[c].reserved
    BY <1>1, <1>3 DEF TypeOK, Posted, Reserved
  <1>5. /\ req[c] \in Request /\ Valid(req[c]) /\ row \in Row
    BY <1>1, RequestsAssumption, CommitFits DEF CallsAreValid, Running
  <1>6. CASE req[c].op = "release"
    <2>1. /\ old # None /\ old.state = "Reserved" /\ old.amount > 0
          /\ old \in Row
          /\ row = [old EXCEPT !.state = "Released"]
      BY <1>1, <1>6, CommitFits DEF ReleaseFits, TypeOK
    <2>2. /\ PostedPart(row) = 0 /\ PostedPart(old) = 0
          /\ ReservedPart(row) = 0 /\ ReservedPart(old) = old.amount
      BY <1>5, <2>1, NoneAssumption DEF PostedPart, ReservedPart, Row
    <2>3. /\ after[c].posted = wallets[w].posted
          /\ after[c].reserved < wallets[w].reserved
          /\ after[c].reserved >= 0
      BY <1>1, <1>2, <1>4, <2>1, <2>2 DEF WriteIsSound, Balance, Row
    <2>4. UNCHANGED Done
      BY <1>6, CommitKeys
    <2>5. Posted' = Posted
      BY <1>3, <1>4, <2>3 DEF Posted
    <2>6. Accounts!Free(w)
      BY <1>3, <1>4, <2>3, <2>4, <2>5
         DEF Accounts!Free, Accounts!Only, Posted, Reserved, Closed, Done
    <2>7. QED
      BY <2>6 DEF Accounts!Next
  <1>7. ASSUME req[c].op # "release"
        PROVE  /\ row = CommandRow(req[c])
               /\ PostedPart(old) = 0 /\ ReservedPart(old) = 0
               /\ \E k \in Keys \ Done : Done' = Done \cup {k}
    <2>1. old = None /\ row = CommandRow(req[c])
      BY <1>7, CommitFits DEF InsertFits
    <2>2. \E k \in Keys \ Done : Done' = Done \cup {k}
      BY <1>7, CommitKeys
    <2>3. QED
      BY <2>1, <2>2 DEF PostedPart, ReservedPart
  <1>8. CASE req[c].op = "reserve"
    <2>1. PICK k \in Keys : k \notin Done /\ Done' = Done \cup {k}
      BY <1>7, <1>8
    <2>2. /\ row # None /\ row.state = "Reserved" /\ row.amount > 0
          /\ row.amount \in Int
      BY <1>5, <1>7, <1>8, NoneAssumption DEF CommandRow, Valid, Row
    <2>3. PostedPart(row) = 0 /\ ReservedPart(row) = row.amount
      BY <2>2 DEF PostedPart, ReservedPart
    <2>4. /\ after[c].posted = wallets[w].posted
          /\ after[c].reserved > wallets[w].reserved
          /\ after[c].reserved <= wallets[w].posted
      <3>1. /\ after[c].posted - wallets[w].posted = PostedPart(row) - PostedPart(old)
            /\ after[c].reserved - wallets[w].reserved
                 = ReservedPart(row) - ReservedPart(old)
            /\ after[c].posted - after[c].reserved >= 0
        BY <1>1, <1>2 DEF WriteIsSound, Available
      <3>2. /\ after[c].posted - wallets[w].posted = 0
            /\ after[c].reserved - wallets[w].reserved = row.amount
        BY <1>7, <1>8, <2>2, <2>3, <3>1
      <3>3. /\ after[c].posted \in Int /\ after[c].reserved \in Int
            /\ wallets[w].posted \in Int /\ wallets[w].reserved \in Int
        BY <1>4 DEF Balance
      <3>4. QED
        BY <2>2, <3>1, <3>2, <3>3
    <2>5. Posted' = Posted
      BY <1>3, <1>4, <2>4 DEF Posted
    <2>6. Accounts!Hold(w, k)
      BY <1>3, <1>4, <2>1, <2>4, <2>5
         DEF Accounts!Hold, Accounts!Only, Posted, Reserved, Closed, Done
    <2>7. QED
      BY <2>6 DEF Accounts!Next
  <1>9. CASE req[c].op \notin {"release", "reserve"}
    <2>1. PICK k \in Keys : k \notin Done /\ Done' = Done \cup {k}
      BY <1>7, <1>9
    <2>2. /\ row # None /\ row.state = "Completed" /\ row.amount # 0
          /\ row.amount \in Int
      BY <1>5, <1>7, <1>9, NoneAssumption DEF CommandRow, Row
    <2>3. PostedPart(row) = row.amount /\ ReservedPart(row) = 0
      BY <2>2 DEF PostedPart, ReservedPart
    <2>4. /\ after[c].posted # wallets[w].posted
          /\ after[c].reserved = wallets[w].reserved
          /\ after[c].posted >= wallets[w].reserved
      <3>1. /\ after[c].posted - wallets[w].posted = PostedPart(row) - PostedPart(old)
            /\ after[c].reserved - wallets[w].reserved
                 = ReservedPart(row) - ReservedPart(old)
            /\ after[c].posted - after[c].reserved >= 0
        BY <1>1, <1>2 DEF WriteIsSound, Available
      <3>2. /\ after[c].posted - wallets[w].posted = row.amount
            /\ after[c].reserved - wallets[w].reserved = 0
        BY <1>7, <1>9, <2>2, <2>3, <3>1
      <3>3. /\ after[c].posted \in Int /\ after[c].reserved \in Int
            /\ wallets[w].posted \in Int /\ wallets[w].reserved \in Int
        BY <1>4 DEF Balance
      <3>4. QED
        BY <2>2, <3>1, <3>2, <3>3
    <2>5. Reserved' = Reserved
      BY <1>3, <1>4, <2>4 DEF Reserved
    <2>6. Accounts!Move(w, k)
      BY <1>3, <1>4, <2>1, <2>4, <2>5
         DEF Accounts!Move, Accounts!Only, Posted, Reserved, Closed, Done
    <2>7. QED
      BY <2>6 DEF Accounts!Next
  <1>10. QED
    BY <1>6, <1>8, <1>9

(* Every step of the tables is a step of the accounts or invisible.        *)
LEMMA NextAccounts ==
    IInv /\ UInv /\ [Next]_vars => [Accounts!Next]_(Accounts!accountVars)
  <1> SUFFICES ASSUME IInv, UInv, [Next]_vars,
                      ~UNCHANGED (Accounts!accountVars)
               PROVE  Accounts!Next
    OBVIOUS
  <1>1. ASSUME NEW c \in Clients, Commit(c) PROVE Accounts!Next
    BY <1>1, CommitAccounts
  <1>2. ASSUME NEW w \in Wallets, ArchiveProfile(w) PROVE Accounts!Next
    <2>1. /\ wallets[w].posted = 0 /\ wallets[w].reserved = 0
          /\ w \notin Closed /\ Closed' = Closed \cup {w}
          /\ UNCHANGED <<wallets, ledger>>
      BY <1>2 DEF IInv, TypeOK, ArchiveProfile, Closed
    <2>2. Accounts!Close(w)
      BY <2>1 DEF Accounts!Close, Closed
    <2>3. QED
      BY <2>2 DEF Accounts!Next
  <1>3. ASSUME UNCHANGED <<archived, wallets, ledger>> PROVE FALSE
    BY <1>3 DEF Accounts!accountVars
  <1>4. \/ UNCHANGED <<archived, wallets, ledger>>
        \/ \E w \in Wallets : ArchiveProfile(w)
        \/ \E c \in Clients : Commit(c)
    BY DEF Next, Step, vars, CreateWallet, Submit, NotFound, LockWallet, Lookup,
           PostCredit, PostDebit, PostReserve, PostReversal, PostRow, Release,
           ReadWinner, Crash
  <1>5. QED
    BY <1>1, <1>2, <1>3, <1>4

(* Statement by statement, with locks, versions and unique indexes, the    *)
(* wallet does what the atomic accounts do: every COMMIT is one step of    *)
(* theirs and nothing else is visible.                                     *)
THEOREM Refinement == Spec => ImplementsAccounts
  BY InitAccounts, NextAccounts, Invariance, Uniqueness, PTL
     DEF Spec, ImplementsAccounts, Accounts!Spec
===============================================================================
