--------------------------- MODULE UserDbProofs ---------------------------
(***************************************************************************)
(* Proofs about db_update_user, for tables of any length.                  *)
(***************************************************************************)
EXTENDS UserDb, TLAPS

Inv == TypeOK /\ AccountsUnique

\* The row an update writes.
Written(id, a, ip, n) ==
  [acct |-> a, ip |-> ip, char |-> IF n # NoCharName THEN n ELSE users[id].char]

\* An update of one row.
LEMMA UpdateRowKeeps ==
  ASSUME Inv, NEW a \in Account, NEW ip \in Address, NEW n \in CharName \cup {NoCharName},
         UpdateRow(a, ip, n)
  PROVE  /\ Inv'
         /\ \A i \in DOMAIN users :
              /\ i \in DOMAIN users'
              /\ users[i].acct # NoAccount => users'[i].acct = users[i].acct
<1>1. PICK id \in Matching(a, ip) : users' = [users EXCEPT ![id] = Written(id, a, ip, n)]
  BY DEF UpdateRow, Written
<1>2. id \in DOMAIN users /\ users[id].acct \in {a, NoAccount}
  BY DEF Matching, OfAccount, AdoptableAt
<1>3. users[id].acct = NoAccount => \A i \in DOMAIN users : users[i].acct # a
  BY DbAssumption DEF Matching, OfAccount, AdoptableAt
<1>4. users \in Seq(Row) /\ users[id] \in Row
  BY <1>2 DEF Inv, TypeOK
<1>5. Written(id, a, ip, n) \in Row /\ Written(id, a, ip, n).acct = a
  BY <1>4 DEF Written, Row
<1>6. users' \in Seq(Row) /\ DOMAIN users' = DOMAIN users
  BY <1>1, <1>2, <1>4, <1>5
<1>7. \A i \in DOMAIN users : users'[i].acct = IF i = id THEN a ELSE users[i].acct
  BY <1>1, <1>4, <1>5
<1>8. AccountsUnique'
  BY <1>2, <1>3, <1>6, <1>7 DEF Inv, AccountsUnique
<1> QED
  BY <1>2, <1>6, <1>7, <1>8 DEF Inv, TypeOK

\* An insertion of a row.
LEMMA InsertRowKeeps ==
  ASSUME Inv, NEW a \in Account, NEW ip \in Address, NEW n \in CharName \cup {NoCharName},
         InsertRow(a, ip, n)
  PROVE  /\ Inv'
         /\ \A i \in DOMAIN users :
              /\ i \in DOMAIN users'
              /\ users[i].acct # NoAccount => users'[i].acct = users[i].acct
<1> DEFINE r == [acct |-> a, ip |-> ip, char |-> n]
<1>1. users \in Seq(Row) /\ r \in Row /\ r.acct = a
  BY DEF Inv, TypeOK, Row
<1>2. users' = Append(users, r)
  BY DEF InsertRow
<1>3. \A i \in DOMAIN users : users[i].acct # a
  BY DEF InsertRow, Matching, OfAccount
<1> HIDE DEF r
<1>4. /\ users' \in Seq(Row)
      /\ DOMAIN users = 1 .. Len(users) /\ DOMAIN users' = 1 .. Len(users) + 1
      /\ Len(users) \in Nat
  BY <1>1, <1>2
<1>5. \A i \in DOMAIN users : users'[i] = users[i]
  BY <1>1, <1>2, <1>4
<1>6. users'[Len(users) + 1] = r
  BY <1>1, <1>2, <1>4
<1>7. \A i \in DOMAIN users' : i \in DOMAIN users \/ i = Len(users) + 1
  BY <1>4
<1>8. AccountsUnique'
  BY <1>1, <1>3, <1>5, <1>6, <1>7 DEF Inv, AccountsUnique
<1> QED
  BY <1>4, <1>5, <1>8 DEF Inv, TypeOK

\* What db_update_user does to the table, or nothing.
LEMMA NextKeeps ==
  ASSUME Inv, [Next]_vars
  PROVE  /\ Inv'
         /\ \A i \in DOMAIN users :
              /\ i \in DOMAIN users'
              /\ users[i].acct # NoAccount => users'[i].acct = users[i].acct
<1>1. CASE Next
  <2>1. PICK a \in Account, ip \in Address, n \in CharName \cup {NoCharName} :
          UpdateRow(a, ip, n) \/ InsertRow(a, ip, n)
    BY <1>1 DEF Next, UpdateUser
  <2> QED
    BY <2>1, UpdateRowKeeps, InsertRowKeeps
<1>2. CASE UNCHANGED vars
  BY <1>2 DEF vars, Inv, TypeOK, AccountsUnique
<1> QED
  BY <1>1, <1>2

\* An account is never in the table twice, however many accounts, addresses and
\* rows of the past there are.
THEOREM AccountsCorrect == Spec => []AccountsUnique
<1>1. Init => Inv
  BY DEF Init, Inv, TypeOK, AccountsUnique
<1>2. Inv /\ [Next]_vars => Inv'
  BY NextKeeps
<1>3. Inv => AccountsUnique
  BY DEF Inv
<1> QED
  BY <1>1, <1>2, <1>3, PTL DEF Spec

\* No row is removed and no account overwritten.
THEOREM RowsCorrect == Spec => AccountKept
<1>1. Init => Inv
  BY DEF Init, Inv, TypeOK, AccountsUnique
<1>2. Inv /\ [Next]_vars => Inv'
  BY NextKeeps
<1>3. Inv /\ [Next]_vars =>
        [\A i \in DOMAIN users :
           /\ i \in DOMAIN users'
           /\ users[i].acct # NoAccount => users'[i].acct = users[i].acct]_vars
  BY NextKeeps
<1> QED
  BY <1>1, <1>2, <1>3, PTL DEF Spec, AccountKept
=============================================================================
