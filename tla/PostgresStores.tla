---------------------------- MODULE PostgresStores ----------------------------
(* PostgresStore: a pool of connections, each query an await.  Transactions  *)
(* run at READ COMMITTED: a query sees what is committed, a write waits for   *)
(* the transaction that locks its row, and what was not committed is dropped. *)
EXTENDS StoreTables

Free(c, ids) == \A i \in ids : lock[i] \in {None, c}

\* Mutant: a transaction locks no row.
TakeNone(c, ids) == UNCHANGED lock

Take(c, ids) == lock' = [i \in DOMAIN lock |-> IF i \in ids THEN c ELSE lock[i]]

Release(c) == lock' = [i \in DOMAIN lock |-> IF lock[i] = c THEN None ELSE lock[i]]

NoLocks == UNCHANGED lock

PgSave(c) ==
  /\ Doing(c, "save") /\ Free(c, {call[c].id})
  /\ Write("execution", call[c].id, call[c].record) /\ Reply(c, Done) /\ NoLocks /\ UNCHANGED mine

PgLoad(c) == Doing(c, "load") /\ Tell(c, db.execution[call[c].id])

\* load() and save(), two queries.
PgUpdate(c) ==
  LET r == db.execution[call[c].id]
  IN /\ NoLocks
     /\ \/ Doing(c, "update") /\ r = None /\ Tell(c, None) /\ UNCHANGED mine
        \/ /\ Doing(c, "update") /\ r # None
           /\ Await(c, "save", With(call[c].patch, r)) /\ UNCHANGED db
        \/ /\ pc[c] = "save" /\ Free(c, {call[c].id})
           /\ Write("execution", call[c].id, mine[c]) /\ Reply(c, mine[c]) /\ UNCHANGED mine

\* SELECT ... FOR UPDATE.
PgTransition(c) ==
  LET k == call[c]
      r == db.execution[k.id]
  IN /\ Doing(c, "transition") /\ Free(c, {k.id}) /\ UNCHANGED db
     /\ \/ /\ ~InState(r, k.from)
           /\ Reply(c, [success |-> FALSE, record |-> r]) /\ NoLocks /\ UNCHANGED mine
        \/ /\ InState(r, k.from)
           /\ Take(c, {k.id}) /\ Await(c, "move", Moved(r, k.to, k.patch))

\* UPDATE ... WHERE state = expectedFrom, and COMMIT.  How many rows it changed
\* is not looked at.
PgMove(c) ==
  LET k == call[c]
      r == db.execution[k.id]
  IN /\ pc[c] = "move" /\ Free(c, {k.id})
     /\ Write("execution", k.id, IF InState(r, k.from) THEN mine[c] ELSE r)
     /\ Release(c) /\ Reply(c, [success |-> TRUE, record |-> mine[c]]) /\ UNCHANGED mine

PgList(c) ==
  Doing(c, "list") /\ \E page \in Newest(Matching(call[c].filter)) : Tell(c, Listed(page))

PgDelete(c) ==
  /\ Doing(c, "delete") /\ Free(c, {call[c].id})
  /\ Write("execution", call[c].id, None)
  /\ Reply(c, db.execution[call[c].id] # None) /\ NoLocks /\ UNCHANGED mine

\* Of a row that is there only the text and the state column are updated.
Merged(row, authority) ==
  [parent |-> row.parent, subject |-> row.subject, column |-> authority.state, text |-> authority]

PgSaveAuthority(c) ==
  LET k == call[c]
      row == db.authority[k.id]
  IN /\ Doing(c, "saveAuthority") /\ Free(c, {k.id})
     /\ Write("authority", k.id, IF row = None THEN AuthorityRow(k.record) ELSE Merged(row, k.record))
     /\ Reply(c, Done) /\ NoLocks /\ UNCHANGED mine

PgLoadAuthority(c) == Doing(c, "loadAuthority") /\ Tell(c, View(db.authority[call[c].id]))

\* The same query, WITH RECURSIVE descendants.
PgDescendants(id) ==
  {x \in AuthorityIds : \A S \in SUBSET AuthorityIds : ChildrenOf({id} \cup S) \subseteq S => x \in S}

\* Mutant: the revocations are those of the rows that the UPDATE found.
AsStruck(c) == mine[c].struck

\* What the recursive INSERT notes: it looks again.
Noted(c) == {call[c].id} \cup PgDescendants(call[c].id)

\* Five queries.  Each reads what is committed when it starts: the two recursive
\* ones may find different descendants, and the UPDATE then waits for the rows it
\* found.  A row stored later is not locked.
PgRevoke(c) ==
  LET id == call[c].id
  IN \/ /\ Doing(c, "revoke") /\ Free(c, {id}) /\ UNCHANGED db
        /\ \/ ~Active(id) /\ Reply(c, FALSE) /\ NoLocks /\ UNCHANGED mine
           \/ Active(id) /\ Take(c, {id}) /\ Await(c, "record", [struck |-> {id}, noted |-> {}])
     \/ /\ pc[c] = "record" /\ NoLocks /\ UNCHANGED db
        /\ Await(c, IF call[c].cascade THEN "cascade" ELSE "end", [struck |-> {id}, noted |-> {id}])
     \/ /\ pc[c] = "cascade" /\ NoLocks /\ UNCHANGED db
        /\ Await(c, "strike", [struck |-> {id} \cup PgDescendants(id), noted |-> {id}])
     \/ /\ pc[c] = "strike" /\ Free(c, mine[c].struck) /\ UNCHANGED db
        /\ Take(c, mine[c].struck) /\ Await(c, "note", mine[c])
     \/ /\ pc[c] = "note" /\ NoLocks /\ UNCHANGED db
        /\ Await(c, "end", [struck |-> mine[c].struck, noted |-> Noted(c)])
     \/ /\ pc[c] = "end"
        /\ db' = [db EXCEPT !.revocation = @ \cup mine[c].noted,
             !.authority = [x \in AuthorityIds |->
                IF x \in mine[c].struck THEN Struck(db.authority[x]) ELSE db.authority[x]]]
        /\ Release(c) /\ Reply(c, TRUE) /\ UNCHANGED mine

PgListChildren(c) ==
  Doing(c, "listChildren") /\ Tell(c, Views(LAMBDA r : r.parent = call[c].id))

PgListBySubject(c) ==
  Doing(c, "listBySubject") /\ Tell(c, Views(LAMBDA r : r.subject = call[c].subject))

PgIsRevoked(c) == Doing(c, "isRevoked") /\ Tell(c, call[c].id \in db.revocation)

\* Mutant: ON CONFLICT DO UPDATE.
NoConflict(scope) == FALSE

\* The primary key of the row that INSERT finds, live or expired.
Conflict(scope) == scope \in DOMAIN db.key

\* SELECT, INSERT ... ON CONFLICT DO NOTHING, and COMMIT or a second SELECT.
PgReserve(c) ==
  LET k == call[c]
  IN \/ /\ Doing(c, "reserve") /\ Live(k.scope)
        /\ Tell(c, Claim(FALSE, Entry(k.scope))) /\ NoLocks /\ UNCHANGED mine
     \/ /\ Doing(c, "reserve") /\ ~Live(k.scope)
        /\ Await(c, "insert", [k.entry EXCEPT !.expires = now + k.ttl]) /\ NoLocks /\ UNCHANGED db
     \/ /\ pc[c] = "insert" /\ Free(c, {k.scope}) /\ ~Conflict(k.scope)
        /\ Take(c, {k.scope}) /\ Await(c, "commit", mine[c]) /\ UNCHANGED db
     \/ /\ pc[c] = "insert" /\ Free(c, {k.scope}) /\ Conflict(k.scope)
        /\ Await(c, "again", mine[c]) /\ NoLocks /\ UNCHANGED db
     \/ /\ pc[c] = "commit"
        /\ db' = WithKey(k.scope, KeyRow(mine[c])) /\ Release(c)
        /\ Reply(c, Claim(TRUE, mine[c])) /\ UNCHANGED mine
     \/ /\ pc[c] = "again"
        /\ Tell(c, IF Live(k.scope) THEN Claim(FALSE, Entry(k.scope)) ELSE Error)
        /\ NoLocks /\ UNCHANGED mine

\* SELECT and UPDATE; the row may have been removed in between.
PgUpdateKey(c) ==
  LET s == call[c].scope
  IN /\ NoLocks
     /\ \/ Doing(c, "updateKey") /\ s \notin DOMAIN db.key /\ Tell(c, Done) /\ UNCHANGED mine
        \/ /\ Doing(c, "updateKey") /\ s \in DOMAIN db.key
           /\ Await(c, "patch", With(call[c].patch, Entry(s))) /\ UNCHANGED db
        \/ /\ pc[c] = "patch"
           /\ db' = WithEntry(s, mine[c])
           /\ Reply(c, Done) /\ UNCHANGED mine

PgGet(c) ==
  Doing(c, "get") /\ Tell(c, IF Live(call[c].scope) THEN Entry(call[c].scope) ELSE None)

PgGc(c) ==
  /\ Doing(c, "gc") /\ db' = WithoutKeys(Expired)
  /\ Reply(c, Cardinality(Expired)) /\ NoLocks /\ UNCHANGED mine

PgAppend(c) ==
  /\ Doing(c, "append") /\ Free(c, {call[c].event.id})
  /\ \/ Duplicate(call[c].event) /\ Tell(c, Error)
     \/ ~Duplicate(call[c].event) /\ db' = WithEvent(db, call[c].event) /\ Reply(c, Done)
  /\ NoLocks /\ UNCHANGED mine

\* An event is inserted under a number that is not drawn again.
PgInsertEvent(c, event, rest, numbered) ==
  /\ Free(c, {event.id})
  /\ IF Duplicate(event) \/ lock[event.id] = c
     THEN Release(c) /\ Tell(c, Error) /\ UNCHANGED mine
     ELSE /\ Take(c, {event.id}) /\ db' = [db EXCEPT !.sequence = @ + 1]
          /\ Await(c, "batch",
               [rest |-> rest, numbered |-> numbered \cup {[event |-> event, row |-> db.sequence + 1]}])

\* An INSERT for each event; the rows become visible at COMMIT.
PgAppendBatch(c) ==
  \/ Doing(c, "batch") /\ PgInsertEvent(c, Head(call[c].events), Tail(call[c].events), {})
  \/ /\ pc[c] = "batch" /\ mine[c].rest # <<>>
     /\ PgInsertEvent(c, Head(mine[c].rest), Tail(mine[c].rest), mine[c].numbered)
  \/ /\ pc[c] = "batch" /\ mine[c].rest = <<>>
     /\ db' = [db EXCEPT !.events = @ \cup mine[c].numbered]
     /\ Release(c) /\ Reply(c, Done) /\ UNCHANGED mine

\* The limit first, in the query, then the filter.
PgRead(c) ==
  LET k == call[c]
      fetched == Limited({e \in db.events : e.row >= k.from}, k.limit)
  IN Doing(c, "read") /\ Tell(c, {e \in fetched : e.event.type \in k.types})

PgLastSequence(c) == Doing(c, "last") /\ Tell(c, LastRow)

\* Mutant: the table numbers the rows itself.
NeverTaken(seq) == FALSE

\* seq is the primary key of the chain.
Taken(seq) == Len(db.audit) >= seq

\* The number, then the hash, then the row.
PgAudit(c) ==
  /\ NoLocks
  /\ \/ Doing(c, "audit") /\ Await(c, "hash", Len(db.audit)) /\ UNCHANGED db
     \/ /\ pc[c] = "hash"
        /\ Await(c, "chain", AuditRow(call[c].record, mine[c] + 1,
                                      IF mine[c] = 0 THEN Genesis ELSE db.audit[mine[c]].hash))
        /\ UNCHANGED db
     \/ /\ pc[c] = "chain" /\ ~Taken(mine[c].seq)
        /\ db' = [db EXCEPT !.audit = Append(@, mine[c])] /\ Reply(c, mine[c]) /\ UNCHANGED mine
     \/ /\ pc[c] = "chain" /\ Taken(mine[c].seq)
        /\ Tell(c, Error) /\ UNCHANGED mine

PgVerify(c) == Doing(c, "verify") /\ Tell(c, Verified(db.audit))

PgListAudit(c) == Doing(c, "listAudit") /\ Tell(c, db.audit)

\* A query fails: the transaction, if there is one, is rolled back.
PgFail(c) ==
  /\ pc[c] \notin {"idle", "done"}
  /\ Release(c) /\ Tell(c, Error) /\ UNCHANGED mine

Postgres(c) ==
  /\ \/ PgSave(c) \/ PgUpdate(c) \/ PgTransition(c) \/ PgMove(c) \/ PgDelete(c)
     \/ PgSaveAuthority(c) \/ PgRevoke(c)
     \/ PgReserve(c) \/ PgUpdateKey(c) \/ PgGc(c)
     \/ PgAppend(c) \/ PgAppendBatch(c) \/ PgAudit(c) \/ PgFail(c)
     \/ /\ \/ PgLoad(c) \/ PgList(c)
           \/ PgLoadAuthority(c) \/ PgListChildren(c) \/ PgListBySubject(c) \/ PgIsRevoked(c)
           \/ PgGet(c) \/ PgRead(c) \/ PgLastSequence(c) \/ PgVerify(c) \/ PgListAudit(c)
        /\ NoLocks /\ UNCHANGED mine
  /\ UNCHANGED begun
==============================================================================
