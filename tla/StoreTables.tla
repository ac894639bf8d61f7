----------------------------- MODULE StoreTables ------------------------------
(***************************************************************************)
(* What the three store adapters have in common: the tables, the calls in  *)
(* progress and their answers.  A client is one call of a store method; the *)
(* steps of a call lie between the awaits that let other calls in.         *)
(***************************************************************************)
EXTENDS Integers, Sequences, FiniteSets, Functions, TLC

CONSTANTS
  Clients, ExecutionIds, AuthorityIds, Scopes, EventIds, None,
  Done, Error, \* what a call returns that has no value, and one that throws
  CreatedAt,   \* [ExecutionIds -> created_at of the record]
  ListLimit    \* bound: LIMIT 1000

ASSUME AnswersAssumption == None \notin Clients /\ Error \notin {None, Done} \cup BOOLEAN

VARIABLES
  now,
  setting,  \* the adapter, what is stored at first, the calls that may be made
  db,       \* the tables
  begun,    \* SQLite: <<the tables as the open transaction of the connection found them>>, or <<>>
  lock,     \* PostgreSQL: rows -> the call whose transaction locks them
  pc, call, answer,
  mine      \* what a call read before an await, and uses after it

rows == <<db, begun, lock>>
calls == <<pc, call, answer, mine>>

Tables(execution, authority) ==
  [execution |-> execution, authority |-> authority, revocation |-> {},
   key |-> <<>>, events |-> {}, sequence |-> 0, audit |-> <<>>]

NoExecution == [i \in ExecutionIds |-> None]
NoAuthority == [i \in AuthorityIds |-> None]

Doing(c, op) == pc[c] = "called" /\ call[c].op = op

Reply(c, value) ==
  /\ pc' = [pc EXCEPT ![c] = "done"]
  /\ answer' = [answer EXCEPT ![c] = value]

Await(c, place, value) ==
  /\ pc' = [pc EXCEPT ![c] = place]
  /\ mine' = [mine EXCEPT ![c] = value]
  /\ UNCHANGED answer

Write(table, id, row) == db' = [db EXCEPT ![table][id] = row]

\* A read: the call is answered and nothing changes.
Tell(c, value) == Reply(c, value) /\ UNCHANGED db

Stored(table) == {table[i] : i \in DOMAIN table} \ {None}

\* The executions that list()'s filter lets through: None stands for a field that
\* is not given.
Matching(filter) ==
  {i \in ExecutionIds :
     LET r == db.execution[i]
     IN r # None /\ filter.owner \in {None, r.owner} /\ filter.state \in {None, r.state}}

\* ORDER BY created_at DESC LIMIT: equally new ones come in any order.
Newest(ids) ==
  {page \in SUBSET ids :
     /\ page = ids \/ Cardinality(page) = ListLimit
     /\ Cardinality(page) <= ListLimit
     /\ \A i \in page, j \in ids \ page : CreatedAt[i] >= CreatedAt[j]}

Listed(ids) == [i \in ids |-> db.execution[i]]

\* { ...record, ...patch }
With(patch, record) ==
  [f \in DOMAIN patch \cup DOMAIN record |-> IF f \in DOMAIN patch THEN patch[f] ELSE record[f]]

\* What a compare-and-set makes of a record; the patch is applied last.
Moved(record, to, patch) ==
  With(patch, [record EXCEPT !.previous = record.state, !.state = to])

\* The row of an authority: its columns, and its JSON text.
AuthorityRow(authority) ==
  [parent |-> authority.parent, subject |-> authority.subject, column |-> authority.state, text |-> authority]

\* What SQL's revoke() makes of it: only the state column changes.
Struck(row) == [parent |-> row.parent, subject |-> row.subject, column |-> "revoked", text |-> row.text]

\* An authority as it is read back: the text, not the columns.
View(row) == IF row = None THEN None ELSE row.text
Views(P(_)) == {View(r) : r \in {r \in Stored(db.authority) : P(r)}}

InState(record, state) == record # None /\ record.state = state

\* The state column, which revoke() changes.
Active(id) == db.authority[id] # None /\ db.authority[id].column = "active"

ChildrenOf(ids) == {x \in AuthorityIds : db.authority[x] # None /\ db.authority[x].parent \in ids}

(* The rows of keys: an entry and until when it counts, in SQL a column of   *)
(* its own beside the entry's text.                                          *)
KeyRow(entry) == [entry |-> entry, until |-> entry.expires]

Live(s) == s \in DOMAIN db.key /\ db.key[s].until > now
Expired == {s \in DOMAIN db.key : db.key[s].until <= now}
Entry(s) == db.key[s].entry

WithKey(s, row) ==
  [db EXCEPT !.key = [x \in DOMAIN db.key \cup {s} |-> IF x = s THEN row ELSE db.key[x]]]
WithoutKeys(scopes) == [db EXCEPT !.key = [x \in DOMAIN db.key \ scopes |-> db.key[x]]]

\* The text of an entry is changed, not the column.
WithEntry(s, entry) ==
  IF s \in DOMAIN db.key THEN WithKey(s, [entry |-> entry, until |-> db.key[s].until]) ELSE db

Claim(created, entry) == [created |-> created, entry |-> entry, at |-> now]

WithEvent(tables, event) ==
  [tables EXCEPT !.sequence = @ + 1,
                 !.events = @ \cup {[event |-> event, row |-> tables.sequence + 1]}]

Duplicate(event) == \E e \in db.events : e.event.id = event.id

\* The n first events in the order of their rows.
Limited(events, n) ==
  IF n = None THEN events
  ELSE {e \in events : Cardinality({f \in events : f.row <= e.row}) <= n}

LastRow ==
  IF db.events = {} THEN 0
  ELSE CHOOSE n \in {e.row : e \in db.events} : \A e \in db.events : e.row <= n

(* The hash chain: a hash is what it was computed from.                    *)
Genesis == <<>>
Hash(record, seq, prev) == <<record, seq, prev>>
AuditRow(record, seq, prev) ==
  [record |-> record, seq |-> seq, prev |-> prev, hash |-> Hash(record, seq, prev)]

PrevHash(chain) == IF chain = <<>> THEN Genesis ELSE chain[Len(chain)].hash

\* Each stored hash is recomputed from the entry and the stored hash before it.
Verified(chain) ==
  \A i \in DOMAIN chain :
    chain[i].hash = Hash(chain[i].record, chain[i].seq,
                         IF i = 1 THEN Genesis ELSE chain[i - 1].hash)
==============================================================================
