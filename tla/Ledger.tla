------------------------------- MODULE Ledger -------------------------------
(***************************************************************************)
(* What the exchange promises its users, without books, storage or         *)
(* receipts: every account has an amount of each token, free or locked in  *)
(* its orders, wherever the tokens are.  Moving tokens in and out of the   *)
(* exchange, a transfer that fails and a deposit that is refused are not   *)
(* visible here at all.                                                    *)
(***************************************************************************)
EXTENDS Integers, Functions

CONSTANTS Accounts, Tokens,
          Near,      \* the token storage is paid with
          Referrers  \* accounts orders may name as referrer

VARIABLES
  members,   \* the registered accounts
  free,      \* [Accounts -> [Tokens -> Nat]]: what accounts can spend
  locked,    \* [Accounts -> [Tokens -> Nat]]: what their orders lock
  treasury   \* [Tokens -> Nat]: the fees taken so far

ledgerVars == <<members, free, locked, treasury>>

Nothing == [token \in Tokens |-> 0]

LedgerInit ==
  /\ members \subseteq Accounts
  /\ free \in [Accounts -> [Tokens -> Nat]]
  /\ locked = [a \in Accounts |-> Nothing]
  /\ treasury = Nothing

Total(token) ==
  SumFunction([a \in Accounts |-> free[a][token] + locked[a][token]]) + treasury[token]

(* An order of member a: it pays with what it has free, others with what   *)
(* they have locked.  Nobody else gains without selling, except referrers, *)
(* and nothing is created or lost.                                         *)
Trade(a) ==
  /\ a \in members
  /\ \A token \in Tokens :
       /\ \A b \in Accounts \ {a} :
            /\ free'[b][token] >= free[b][token]
            /\ locked'[b][token] <= locked[b][token]
            /\ free'[b] # free[b] => locked'[b] # locked[b] \/ b \in Referrers
       /\ treasury'[token] >= treasury[token]
       /\ Total(token)' = Total(token)
  /\ UNCHANGED members

(* Cancelled orders: all that was locked in them is free again.            *)
Release ==
  /\ \A a \in Accounts, token \in Tokens :
       /\ locked'[a][token] <= locked[a][token]
       /\ free'[a][token] + locked'[a][token] = free[a][token] + locked[a][token]
  /\ UNCHANGED <<members, treasury>>

(* a gives b some of a token that it has free.                             *)
Give(a, b, token) ==
  /\ free[a][token] >= free'[a][token]
  /\ LET given == free[a][token] - free'[a][token]
     IN  free' = [free EXCEPT ![a][token] = @ - given, ![b][token] = @ + given]
  /\ UNCHANGED <<locked, treasury>>

(* Registration, on one's own account or paid for by another; more storage *)
(* for another.                                                            *)
Join(a) == members' = members \cup {a} /\ UNCHANGED <<free, locked, treasury>>

PayStorage(a, b) == members' = members \cup {b} /\ Give(a, b, Near)

(* Only who has nothing locked can leave, and takes the rest along.        *)
Leave(a) ==
  /\ locked[a] = Nothing
  /\ members' = members \ {a}
  /\ UNCHANGED <<free, locked, treasury>>

(* Who leaves while a withdrawal is on its way may lose it to a member.    *)
Forfeit(a, b, token) ==
  a \notin members /\ b \in members /\ Give(a, b, token) /\ UNCHANGED members

LedgerNext ==
  \/ \E a \in Accounts : Trade(a) \/ Join(a) \/ Leave(a)
  \/ Release
  \/ \E a, b \in Accounts : PayStorage(a, b)
  \/ \E a, b \in Accounts, token \in Tokens : Forfeit(a, b, token)

LedgerSpec == LedgerInit /\ [][LedgerNext]_ledgerVars
=============================================================================
