---------------------------- MODULE WalletAccounts ----------------------------
(***************************************************************************)
(* What the wallet promises to its callers, without transactions, locks,   *)
(* versions or a ledger: every wallet is one account whose balance moves   *)
(* in single atomic steps, a command (named by its idempotency key) takes  *)
(* effect at most once, nothing is overdrawn, and an account is closed     *)
(* only when it is empty and stays so.                                     *)
(***************************************************************************)
EXTENDS Integers

CONSTANTS Wallets, Keys

VARIABLES
    posted,     \* money in the account
    reserved,   \* the part of it that is on hold
    closed,     \* accounts that accept nothing any more
    done        \* keys of the commands that took effect

accountVars == <<posted, reserved, closed, done>>

Init ==
    /\ posted = [w \in Wallets |-> 0]
    /\ reserved = [w \in Wallets |-> 0]
    /\ closed = {}
    /\ done = {}

(* Only the account w changes, to whatever value the step gives it.        *)
Only(balance, w) == balance' = [balance EXCEPT ![w] = balance'[w]]

(* A credit, a debit or a reversal: posted moves, down to the hold at most.*)
Move(w, k) ==
    /\ w \notin closed
    /\ k \notin done
    /\ Only(posted, w)
    /\ posted'[w] # posted[w]
    /\ posted'[w] >= reserved[w]
    /\ done' = done \cup {k}
    /\ UNCHANGED <<reserved, closed>>

Hold(w, k) ==
    /\ w \notin closed
    /\ k \notin done
    /\ Only(reserved, w)
    /\ reserved'[w] > reserved[w]
    /\ reserved'[w] <= posted[w]
    /\ done' = done \cup {k}
    /\ UNCHANGED <<posted, closed>>

Free(w) ==
    /\ w \notin closed
    /\ Only(reserved, w)
    /\ reserved'[w] < reserved[w]
    /\ reserved'[w] >= 0
    /\ UNCHANGED <<posted, closed, done>>

Close(w) ==
    /\ w \notin closed
    /\ posted[w] = 0
    /\ reserved[w] = 0
    /\ closed' = closed \cup {w}
    /\ UNCHANGED <<posted, reserved, done>>

Next ==
    \E w \in Wallets :
        \/ Close(w)
        \/ Free(w)
        \/ \E k \in Keys : Move(w, k) \/ Hold(w, k)

Spec == Init /\ [][Next]_accountVars
===============================================================================
