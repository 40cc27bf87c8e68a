--------------------------- MODULE UserDirectory ---------------------------
(***************************************************************************)
(* What the server's table of users promises, without slots and hashes.    *)
(*                                                                         *)
(* The directory remembers the Capacity users seen last.  A user owns the  *)
(* name it goes by from a message it sends until another user that goes by *)
(* the same name sends one, it takes another name, or it is forgotten.     *)
(* Who asks for names gets the last reports of their owners.               *)
(***************************************************************************)
EXTENDS Integers, SequencesExt, Recency

CONSTANTS Endpoint, NoEndpoint, Name, NoName, Report, NoReport,
          MAX_CACHE_SIZE, DAMAGE_PERIOD, MSG_CLOSEST_PLAYERS

VARIABLES
  recent,   \* the users the directory remembers, the one seen last at the end
  user,     \* user[k]: what it remembers of k
  owner,    \* owner[n]: the user found under n
  answer    \* what was answered to the last message

vars == <<recent, user, owner, answer>>
-----------------------------------------------------------------------------
Stranger == [name |-> NoName, charName |-> NoName, age |-> DAMAGE_PERIOD, report |-> NoReport]

\* f without the elements of S in its domain.
Without(f, S) == [x \in DOMAIN f \ S |-> f[x]]

\* f with x mapped to y.
With(f, x, y) == [z \in DOMAIN f \cup {x} |-> IF z = x THEN y ELSE f[z]]

OwnedBy(own, k) == {n \in DOMAIN own : own[n] = k}

\* k owns n, and no other name, unless n is empty.
Claimed(own, k, n) ==
  IF n = NoName THEN own ELSE With(Without(own, OwnedBy(own, k)), n, k)

\* The user that is forgotten when k is heard of.
Forgotten(k) ==
  IF k \in DOMAIN user \/ Len(recent) < MAX_CACHE_SIZE THEN {} ELSE {Head(recent)}

\* The state of the directory once a message of k arrived: who is remembered,
\* what is remembered, who owns what.
Order(k) ==
  IF k \in DOMAIN user THEN SeenLast(recent, k)
  ELSE Append(IF Forgotten(k) = {} THEN recent ELSE Tail(recent), k)

Remembered(k) == IF k \in DOMAIN user THEN user[k] ELSE Stranger

Users(k, u) == With(Without(user, Forgotten(k)), k, u)

Owners(k, n) == Claimed([m \in {x \in DOMAIN owner : owner[x] \notin Forgotten(k)} |-> owner[m]], k, n)

\* Who owns a name that is asked for was seen; its report is added to the answer.
Answered(r, own, now, n) ==
  IF n \notin DOMAIN own THEN r
  ELSE [order |-> SeenLast(r.order, own[n]),
        closest |-> Append(r.closest, [name |-> n, report |-> now[own[n]].report])]

\* The order and the answer after each name.
Answers(order, own, now, names) ==
  LET after[i \in 0 .. Len(names)] ==
        IF i = 0 THEN [order |-> order, closest |-> <<>>]
        ELSE Answered(after[i - 1], own, now, names[i])
  IN  after

NoAnswer == [to |-> NoEndpoint, closest |-> <<>>]
-----------------------------------------------------------------------------
Init ==
  /\ recent = <<>>
  /\ user = <<>>
  /\ owner = <<>>
  /\ answer = NoAnswer

\* A message of k that changes what is remembered of k at most by its account.
Hear(k) ==
  \E u \in {Remembered(k)} \cup
           {[Remembered(k) EXCEPT !.name = IF @ = NoName THEN Remembered(k).charName ELSE @,
                                  !.charName = c] : c \in Name \cup {NoName}} :
    /\ recent' = Order(k)
    /\ user' = Users(k, u)
    /\ owner' = Owners(k, Remembered(k).name)
    /\ answer' = NoAnswer

\* A report of k, under the name n, with the names it asks for.
Tell(k, n, report, names) ==
  LET old == Remembered(k)
      name == IF n = NoName THEN old.name ELSE n
      own == Claimed(Owners(k, old.name), k, name)
      now == Users(k, [old EXCEPT !.name = name, !.age = 0, !.report = report])
      done == Answers(Order(k), own, now, names)[Len(names)]
  IN  /\ old.age = DAMAGE_PERIOD
      /\ recent' = done.order
      /\ user' = now
      /\ owner' = own
      /\ answer' = IF done.closest = <<>> THEN NoAnswer ELSE [to |-> k, closest |-> done.closest]

Tick ==
  /\ user' = [k \in DOMAIN user |->
                [user[k] EXCEPT !.age = IF @ < DAMAGE_PERIOD THEN @ + 1 ELSE @]]
  /\ answer' = NoAnswer
  /\ UNCHANGED <<recent, owner>>

Next ==
  \/ \E k \in Endpoint : Hear(k)
  \/ \E k \in Endpoint, n \in Name \cup {NoName}, report \in Report,
        names \in BoundedSeq(Name, MSG_CLOSEST_PLAYERS) : Tell(k, n, report, names)
  \/ Tick

Spec == Init /\ [][Next]_vars
=============================================================================
