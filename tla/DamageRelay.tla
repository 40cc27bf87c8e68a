---------------------------- MODULE DamageRelay ----------------------------
(***************************************************************************)
(* The server's relay of damage reports (msg_client_damage_utf8 in         *)
(* server/entry.c).  Every client reports its own numbers with the names   *)
(* of the players it sees; the answer holds the last report of each of     *)
(* these that the server knows.                                            *)
(*                                                                         *)
(* The server is one thread: a handler is one step, and its answer is what *)
(* it sends before the next one starts.                                    *)
(***************************************************************************)
EXTENDS UserCache

CONSTANT MSG_CLOSEST_PLAYERS   \* the length of the closest arrays (9)

ASSUME RelayAssumption == MSG_CLOSEST_PLAYERS \in Nat \ {0}

VARIABLES
  lru,      \* g_lru
  answer    \* what the last handler sent: to whom, and the closest array

vars == <<lru, answer>>
-----------------------------------------------------------------------------
Shard == {0, 1}

\* The closest array of a request; the empty name ends it.
Request == TupleOf(Name \cup {NoName}, MSG_CLOSEST_PLAYERS)

Player == [name : Name \cup {NoName}, report : Report \cup {NoReport}]

Answer ==
  [to : Endpoint \cup {NoEndpoint}, closest : BoundedSeq(Player, MSG_CLOSEST_PLAYERS)]

NoAnswer == [to |-> NoEndpoint, closest |-> <<>>]

\* The names the loop of msg_client_damage_utf8 gets to.
Asked(closest) ==
  LET end == SelectInSeq(closest, LAMBDA n : n = NoName)
  IN  IF end = 0 THEN closest ELSE SubSeq(closest, 1, end - 1)

\* One turn of the loop: a user that is found is added to res.closest.
Searched(r, n) ==
  LET l == r.table
      u == l.store[CHOOSE s \in Registered(l, n) : TRUE]
  IN  IF Registered(l, n) = {} THEN r
      ELSE [table |-> FindUser(l, n),
            closest |-> Append(r.closest, [name |-> u.name, report |-> u.report])]

\* The table and res.closest after each turn.
Search(l, names) ==
  LET after[i \in 0 .. Len(names)] ==
        IF i = 0 THEN [table |-> l, closest |-> <<>>] ELSE Searched(after[i - 1], names[i])
  IN  after

\* The damage message of k is stored in its user.
Stored(l, k, report) ==
  LET s == SlotOf(l, k)
  IN  [l EXCEPT !.store[s] = [@ EXCEPT !.age = 0, !.report = report]]

TooOften(l, k) == l.store[SlotOf(l, k)].age < DAMAGE_PERIOD
-----------------------------------------------------------------------------
Init ==
  /\ lru = Created
  /\ answer = NoAnswer

\* msg_client_damage_utf8 of a client that reports too often: the user is seen
\* and claims its name, nothing more.
DamageLimited(k, shard) ==
  /\ shard # 0
  /\ TooOften(InsertUser(lru, k), k)
  /\ lru' = InsertUser(lru, k)
  /\ answer' = NoAnswer

\* msg_client_damage_utf8.
Damage(k, shard, n, report, closest) ==
  LET l == UpdateName(Stored(InsertUser(lru, k), k, report), k, n)
      names == Asked(closest)
      done == Search(l, names)[Len(names)]
  IN  /\ shard # 0
      /\ ~ TooOften(InsertUser(lru, k), k)
      /\ lru' = done.table
      /\ answer' = IF done.closest = <<>> THEN NoAnswer ELSE [to |-> k, closest |-> done.closest]

\* msg_client_update_begin_utf8 of a message with a version, as far as the table
\* is concerned (without one it returns before); account says whether the message
\* has an account name.
Begin(k, account, charName) ==
  LET l == InsertUser(lru, k)
  IN  /\ lru' = IF account THEN UpdateAccount(l, k, charName) ELSE l
      /\ answer' = NoAnswer

\* msg_client_update_piece, as far as the table is concerned.
Piece(k) ==
  /\ lru' = InsertUser(lru, k)
  /\ answer' = NoAnswer

Tick ==
  /\ lru' = [lru EXCEPT !.store =
               [s \in Slot |-> [lru.store[s] EXCEPT !.age = IF @ < DAMAGE_PERIOD THEN @ + 1 ELSE @]]]
  /\ answer' = NoAnswer

Next ==
  \/ \E k \in Endpoint, shard \in Shard :
       \/ DamageLimited(k, shard)
       \/ \E n \in Name \cup {NoName}, report \in Report, closest \in Request :
            Damage(k, shard, n, report, closest)
  \/ \E k \in Endpoint, account \in BOOLEAN, charName \in Name \cup {NoName} :
       Begin(k, account, charName)
  \/ \E k \in Endpoint : Piece(k)
  \/ Tick

Spec == Init /\ [][Next]_vars
-----------------------------------------------------------------------------
\* The variables keep their types; a used entry knows its own index.
TypeOK ==
  /\ lru \in Lru
  /\ answer \in Answer

\* However users come, go and are evicted, no entry is lost and none is used
\* twice: an entry is either on the stack of free ones or in the cache, once,
\* and no two users of the cache are the same endpoint.
SlotsAccounted ==
  LET all == lru.cache \o lru.tracker
  IN  /\ ToSet(all) = Slot
      /\ Len(all) = MAX_CACHE_SIZE
      /\ \A s, t \in ToSet(lru.cache) : lru.store[s].key = lru.store[t].key => s = t
      /\ \A s \in Slot : lru.store[s].idx = IF s \in ToSet(lru.cache) THEN s ELSE -1

\* A node in the name hash is never one of a freed or renamed entry, and no two
\* nodes have the same key: who is found by a name has that name.
LookupSound ==
  \A s \in lru.lookup :
    /\ s \in ToSet(lru.cache)
    /\ lru.store[s].he = lru.store[s].name
    /\ Registered(lru, lru.store[s].he) = {s}

\* When several users claimed a name, a player that changed its port for one,
\* the one found is the one seen last among them; so an eviction never takes a
\* name from the hash that another user still waits for.
LatestOwnsName ==
  \A i, j \in DOMAIN lru.cache :
    /\ lru.cache[i] \in lru.lookup
    /\ lru.store[lru.cache[j]].he = lru.store[lru.cache[i]].he
    => j <= i
-----------------------------------------------------------------------------
\* The slots and hashes implement a directory of users: the order of the users,
\* what is remembered of each, and who is found under a name.
RecentOf(l) == [i \in DOMAIN l.cache |-> l.store[l.cache[i]].key]

Memory(u) == [name |-> u.name, charName |-> u.charName, age |-> u.age, report |-> u.report]

UserOf(l) ==
  [k \in {l.store[s].key : s \in ToSet(l.cache)} |-> Memory(l.store[SlotOf(l, k)])]

OwnerOf(l) ==
  [n \in {l.store[s].he : s \in l.lookup} |->
     l.store[CHOOSE s \in Registered(l, n) : TRUE].key]

Directory == INSTANCE UserDirectory WITH
  recent <- RecentOf(lru), user <- UserOf(lru), owner <- OwnerOf(lru)

\* The table of slots, stacks and hashes behaves as the directory: it forgets
\* exactly the user seen least recently, gives a name to whoever claimed it last
\* and answers with the last reports of the users that own the names asked for.
ImplementsDirectory == Directory!Spec
=============================================================================
