------------------------------- MODULE UserDb -------------------------------
(***************************************************************************)
(* The server's database of users (db_update_user in server/entry.c).      *)
(*                                                                         *)
(* The table is older than the account names: some of its rows have only   *)
(* an address.  An account that is not in the table yet takes over such a  *)
(* row of its address.  SQLite is external: a statement is one step, and a *)
(* SELECT lists the rows it matches in any order.                          *)
(***************************************************************************)
EXTENDS Integers, Sequences

CONSTANTS
  Account,      \* account names
  NoAccount,    \* NULL or the empty string
  Address,      \* IP addresses
  CharName,     \* the names of characters
  NoCharName,   \* NULL or the empty string
  OldRows,      \* the table of the past is this long at most
  MaxRows       \* the table is this long at most

ASSUME DbAssumption ==
  /\ NoAccount \notin Account
  /\ NoCharName \notin CharName
  /\ OldRows \in Nat
  /\ MaxRows \in Nat

VARIABLE users   \* the rows of [Users], by ID

vars == <<users>>

Row == [acct : Account \cup {NoAccount}, ip : Address, char : CharName \cup {NoCharName}]
-----------------------------------------------------------------------------
\* SELECT ... WHERE AcctName = a
OfAccount(a) == {id \in DOMAIN users : users[id].acct = a}

\* AdoptableAt that takes the first row of the address, whosever it is.
AdoptableAny(ip) == {id \in DOMAIN users : users[id].ip = ip}

\* SELECT ... WHERE IpAddress = ip, stepped until a row has no account.
AdoptableAt(ip) == {id \in DOMAIN users : users[id].ip = ip /\ users[id].acct = NoAccount}

\* Matching that looks for the account at its address only.
MatchingHere(a, ip) ==
  LET here == {id \in OfAccount(a) : users[id].ip = ip}
  IN  IF here # {} THEN here ELSE AdoptableAt(ip)

\* The rows db_update_user may find for an account.
Matching(a, ip) == IF OfAccount(a) # {} THEN OfAccount(a) ELSE AdoptableAt(ip)

\* UPDATE: the name of the character is written if there is one.
UpdateRow(a, ip, n) ==
  \E id \in Matching(a, ip) :
    users' = [users EXCEPT ![id] =
                [acct |-> a, ip |-> ip,
                 char |-> IF n # NoCharName THEN n ELSE users[id].char]]

\* INSERT.
InsertRow(a, ip, n) ==
  /\ Matching(a, ip) = {}
  /\ Len(users) < MaxRows
  /\ users' = Append(users, [acct |-> a, ip |-> ip, char |-> n])

\* db_update_user; a user without an account is skipped.
UpdateUser(a, ip, n) ==
  /\ a # NoAccount
  /\ UpdateRow(a, ip, n) \/ InsertRow(a, ip, n)
-----------------------------------------------------------------------------
\* A table of another server version: rows without an account, and accounts at
\* most once.
Init ==
  /\ \E n \in 0 .. OldRows : users \in [1 .. n -> Row]
  /\ \A i, j \in DOMAIN users :
       users[i].acct = users[j].acct /\ users[i].acct # NoAccount => i = j

Next ==
  \E a \in Account \cup {NoAccount}, ip \in Address, n \in CharName \cup {NoCharName} :
    UpdateUser(a, ip, n)

Spec == Init /\ [][Next]_vars
-----------------------------------------------------------------------------
TypeOK == users \in Seq(Row)

\* However accounts change their address, share one, or take over rows from
\* before there were accounts, an account is in the table once.
AccountsUnique ==
  \A i, j \in DOMAIN users :
    users[i].acct = users[j].acct /\ users[i].acct # NoAccount => i = j

\* Rows are never removed, and one that has an account keeps it: an update never
\* overwrites the row of another account that was seen at the same address.
AccountKept ==
  [][\A i \in DOMAIN users :
       /\ i \in DOMAIN users'
       /\ users[i].acct # NoAccount => users'[i].acct = users[i].acct]_vars
=============================================================================
