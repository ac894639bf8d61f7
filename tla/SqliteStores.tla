----------------------------- MODULE SqliteStores -----------------------------
(* SQLiteStore: one connection, shared by all calls.  A method runs without  *)
(* interruption up to an await; BEGIN inside an open transaction is ignored, *)
(* and COMMIT and ROLLBACK end the open one, whoever began it.               *)
EXTENDS StoreTables

\* Mutant: the transaction is left open.
LeftOpen(tables) == db' = tables /\ begun' = (IF begun = <<>> THEN <<db>> ELSE begun)

Commit(tables) == db' = tables /\ begun' = <<>>

\* Mutant: what the transaction wrote is kept.
KeepRows == UNCHANGED db /\ begun' = <<>>

Rollback == db' = (IF begun = <<>> THEN db ELSE begun[1]) /\ begun' = <<>>

Plain == UNCHANGED begun

SqlSave(c) ==
  Doing(c, "save") /\ Write("execution", call[c].id, call[c].record) /\ Reply(c, Done) /\ Plain

SqlLoad(c) == Doing(c, "load") /\ Tell(c, db.execution[call[c].id]) /\ Plain

\* load() and save() with an await between them.
SqlUpdate(c) ==
  LET r == db.execution[call[c].id]
  IN /\ Plain
     /\ \/ /\ Doing(c, "update") /\ r = None /\ Tell(c, None) /\ UNCHANGED mine
        \/ /\ Doing(c, "update") /\ r # None
           /\ Await(c, "save", With(call[c].patch, r)) /\ UNCHANGED db
        \/ /\ pc[c] = "save"
           /\ Write("execution", call[c].id, mine[c]) /\ Reply(c, mine[c]) /\ UNCHANGED mine

SqlTransition(c) ==
  LET k == call[c]
      r == db.execution[k.id]
  IN /\ Doing(c, "transition")
     /\ \/ r = None /\ Rollback /\ Reply(c, [success |-> FALSE, record |-> None])
        \/ r # None /\ r.state # k.from /\ Rollback /\ Reply(c, [success |-> FALSE, record |-> r])
        \/ /\ r # None /\ r.state = k.from
           /\ Commit([db EXCEPT !.execution[k.id] = Moved(r, k.to, k.patch)])
           /\ Reply(c, [success |-> TRUE, record |-> Moved(r, k.to, k.patch)])

SqlList(c) ==
  /\ Doing(c, "list")
  /\ \E page \in Newest(Matching(call[c].filter)) : Tell(c, Listed(page))
  /\ Plain

SqlDelete(c) ==
  /\ Doing(c, "delete")
  /\ Write("execution", call[c].id, None)
  /\ Reply(c, db.execution[call[c].id] # None) /\ Plain

SqlSaveAuthority(c) ==
  /\ Doing(c, "saveAuthority")
  /\ Write("authority", call[c].id, AuthorityRow(call[c].record)) /\ Reply(c, Done) /\ Plain

SqlLoadAuthority(c) == Doing(c, "loadAuthority") /\ Tell(c, View(db.authority[call[c].id])) /\ Plain

\* WITH RECURSIVE descendants: the children, and theirs, until there are no more.
Descendants(id) ==
  {x \in AuthorityIds : \A S \in SUBSET AuthorityIds : ChildrenOf({id} \cup S) \subseteq S => x \in S}

Revoked(id, cascade) ==
  LET struck == {id} \cup (IF cascade THEN Descendants(id) ELSE {})
  IN [db EXCEPT !.revocation = @ \cup struck,
        !.authority = [x \in AuthorityIds |->
           IF x \in struck THEN Struck(db.authority[x]) ELSE db.authority[x]]]

\* Only the column changes, and the table of revocations: the text that load()
\* returns keeps its state.
SqlRevoke(c) ==
  /\ Doing(c, "revoke")
  /\ \/ ~Active(call[c].id) /\ Rollback /\ Reply(c, FALSE)
     \/ Active(call[c].id) /\ Commit(Revoked(call[c].id, call[c].cascade)) /\ Reply(c, TRUE)

SqlListChildren(c) ==
  Doing(c, "listChildren") /\ Tell(c, Views(LAMBDA r : r.parent = call[c].id)) /\ Plain

SqlListBySubject(c) ==
  Doing(c, "listBySubject") /\ Tell(c, Views(LAMBDA r : r.subject = call[c].subject)) /\ Plain

SqlIsRevoked(c) == Doing(c, "isRevoked") /\ Tell(c, call[c].id \in db.revocation) /\ Plain

\* INSERT OR IGNORE does nothing on a row that expired and is still there.
SqlReserve(c) ==
  LET k == call[c]
      entry == [k.entry EXCEPT !.expires = now + k.ttl]
  IN /\ Doing(c, "reserve")
     /\ \/ Live(k.scope) /\ Rollback /\ Reply(c, Claim(FALSE, Entry(k.scope)))
        \/ k.scope \in Expired /\ Rollback /\ Reply(c, Error)
        \/ /\ k.scope \notin DOMAIN db.key
           /\ Commit(WithKey(k.scope, KeyRow(entry))) /\ Reply(c, Claim(TRUE, entry))

SqlUpdateKey(c) ==
  LET s == call[c].scope
  IN /\ Doing(c, "updateKey")
     /\ db' = WithEntry(s, With(call[c].patch, Entry(s)))
     /\ Reply(c, Done) /\ Plain

SqlGet(c) ==
  /\ Doing(c, "get")
  /\ Tell(c, IF Live(call[c].scope) THEN Entry(call[c].scope) ELSE None) /\ Plain

SqlGc(c) ==
  Doing(c, "gc") /\ db' = WithoutKeys(Expired) /\ Reply(c, Cardinality(Expired)) /\ Plain

SqlAppend(c) ==
  /\ Doing(c, "append")
  /\ \/ Duplicate(call[c].event) /\ Tell(c, Error)
     \/ ~Duplicate(call[c].event) /\ db' = WithEvent(db, call[c].event) /\ Reply(c, Done)
  /\ Plain

\* BEGIN fails inside an open transaction, and so does COMMIT outside of one.  An
\* INSERT that fails is awaited like the others before the ROLLBACK.
SqlAppendBatch(c) ==
  \/ /\ Doing(c, "batch") /\ begun # <<>>
     /\ Tell(c, Error) /\ Plain /\ UNCHANGED mine
  \/ /\ Doing(c, "batch") /\ begun = <<>>
     /\ LET event == Head(call[c].events) IN
          \/ /\ Duplicate(event)
             /\ UNCHANGED db /\ begun' = <<db>> /\ Await(c, "undo", None)
          \/ /\ ~Duplicate(event)
             /\ db' = WithEvent(db, event) /\ begun' = <<db>>
             /\ Await(c, "batch", Tail(call[c].events))
  \/ /\ pc[c] = "batch" /\ mine[c] # <<>> /\ Duplicate(Head(mine[c]))
     /\ UNCHANGED db /\ Plain /\ Await(c, "undo", None)
  \/ pc[c] = "undo" /\ Rollback /\ Reply(c, Error) /\ UNCHANGED mine
  \/ /\ pc[c] = "batch" /\ mine[c] # <<>> /\ ~Duplicate(Head(mine[c]))
     /\ db' = WithEvent(db, Head(mine[c])) /\ Plain /\ Await(c, "batch", Tail(mine[c]))
  \/ /\ pc[c] = "batch" /\ mine[c] = <<>>
     /\ UNCHANGED <<db, mine>> /\ begun' = <<>>
     /\ Reply(c, IF begun = <<>> THEN Error ELSE Done)

\* The limit first, in the query, then the filter.
SqlRead(c) ==
  LET k == call[c]
      fetched == Limited({e \in db.events : e.row >= k.from}, k.limit)
  IN Doing(c, "read") /\ Tell(c, {e \in fetched : e.event.type \in k.types}) /\ Plain

SqlLastSequence(c) == Doing(c, "last") /\ Tell(c, LastRow) /\ Plain

SqlAudit(c) ==
  LET entry == AuditRow(call[c].record, Len(db.audit) + 1, PrevHash(db.audit))
  IN /\ Doing(c, "audit")
     /\ db' = [db EXCEPT !.audit = Append(@, entry)] /\ Reply(c, entry) /\ Plain

SqlVerify(c) == Doing(c, "verify") /\ Tell(c, Verified(db.audit)) /\ Plain

SqlListAudit(c) == Doing(c, "listAudit") /\ Tell(c, db.audit) /\ Plain

\* The process dies: the transaction that was open is rolled back.
SqlCrash ==
  /\ Rollback
  /\ pc' = [c \in Clients |-> IF pc[c] \in {"idle", "done"} THEN pc[c] ELSE "died"]
  /\ UNCHANGED <<answer, mine>>

Sqlite(c) ==
  /\ \/ SqlUpdate(c) \/ SqlAppendBatch(c)
     \/ /\ \/ SqlSave(c) \/ SqlLoad(c) \/ SqlTransition(c) \/ SqlList(c) \/ SqlDelete(c)
           \/ SqlSaveAuthority(c) \/ SqlLoadAuthority(c) \/ SqlRevoke(c)
           \/ SqlListChildren(c) \/ SqlListBySubject(c) \/ SqlIsRevoked(c)
           \/ SqlReserve(c) \/ SqlUpdateKey(c) \/ SqlGet(c) \/ SqlGc(c)
           \/ SqlAppend(c) \/ SqlRead(c) \/ SqlLastSequence(c)
           \/ SqlAudit(c) \/ SqlVerify(c) \/ SqlListAudit(c)
        /\ UNCHANGED mine
  /\ UNCHANGED lock
==============================================================================
