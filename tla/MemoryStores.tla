----------------------------- MODULE MemoryStores -----------------------------
(* The in-memory stores, and the audit engine that stands in for an audit    *)
(* store: no method awaits, each is one step.                                *)
EXTENDS StoreTables

MemSave(c) ==
  Doing(c, "save") /\ Write("execution", call[c].id, call[c].record) /\ Reply(c, Done)

MemLoad(c) == Doing(c, "load") /\ Tell(c, db.execution[call[c].id])

MemUpdate(c) ==
  LET r == db.execution[call[c].id]
  IN /\ Doing(c, "update")
     /\ \/ r = None /\ Tell(c, None)
        \/ /\ r # None
           /\ Write("execution", call[c].id, With(call[c].patch, r))
           /\ Reply(c, With(call[c].patch, r))

MemTransition(c) ==
  LET k == call[c]
      r == db.execution[k.id]
  IN /\ Doing(c, "transition")
     /\ \/ r = None /\ Tell(c, [success |-> FALSE, record |-> None])
        \/ r # None /\ r.state # k.from /\ Tell(c, [success |-> FALSE, record |-> r])
        \/ /\ r # None /\ r.state = k.from
           /\ Write("execution", k.id, Moved(r, k.to, k.patch))
           /\ Reply(c, [success |-> TRUE, record |-> Moved(r, k.to, k.patch)])

MemList(c) == Doing(c, "list") /\ Tell(c, Listed(Matching(call[c].filter)))

MemDelete(c) ==
  /\ Doing(c, "delete")
  /\ Write("execution", call[c].id, None)
  /\ Reply(c, db.execution[call[c].id] # None)

MemSaveAuthority(c) ==
  /\ Doing(c, "saveAuthority")
  /\ Write("authority", call[c].id, AuthorityRow(call[c].record)) /\ Reply(c, Done)

MemLoadAuthority(c) == Doing(c, "loadAuthority") /\ Tell(c, View(db.authority[call[c].id]))

\* Whatever the state of the authority; the cascade goes one level down.
MemRevoke(c) ==
  LET id == call[c].id
      below == {x \in AuthorityIds : db.authority[x] # None /\ db.authority[x].parent = id}
      struck == {id} \cup (IF call[c].cascade THEN below ELSE {})
  IN /\ Doing(c, "revoke")
     /\ \/ db.authority[id] = None /\ Tell(c, FALSE)
        \/ /\ db.authority[id] # None
           /\ db' = [db EXCEPT !.revocation = @ \cup struck,
                !.authority = [x \in AuthorityIds |->
                   IF x \in struck THEN [db.authority[x] EXCEPT !.text.state = "revoked", !.column = "revoked"]
                   ELSE db.authority[x]]]
           /\ Reply(c, TRUE)

MemListChildren(c) ==
  Doing(c, "listChildren") /\ Tell(c, Views(LAMBDA r : r.parent = call[c].id))

MemListBySubject(c) ==
  Doing(c, "listBySubject") /\ Tell(c, Views(LAMBDA r : r.subject = call[c].subject))

MemIsRevoked(c) == Doing(c, "isRevoked") /\ Tell(c, call[c].id \in db.revocation)

\* An entry that expired is overwritten.
MemReserve(c) ==
  LET k == call[c]
      entry == [k.entry EXCEPT !.expires = now + k.ttl]
  IN /\ Doing(c, "reserve")
     /\ \/ Live(k.scope) /\ Tell(c, Claim(FALSE, Entry(k.scope)))
        \/ /\ ~Live(k.scope)
           /\ db' = WithKey(k.scope, KeyRow(entry)) /\ Reply(c, Claim(TRUE, entry))

MemUpdateKey(c) ==
  LET s == call[c].scope
  IN /\ Doing(c, "updateKey")
     /\ db' = IF s \in DOMAIN db.key THEN WithKey(s, KeyRow(With(call[c].patch, Entry(s)))) ELSE db
     /\ Reply(c, Done)

\* An entry that expired is removed by whoever looks at it.
MemGet(c) ==
  LET s == call[c].scope
  IN /\ Doing(c, "get")
     /\ db' = WithoutKeys(Expired \cap {s})
     /\ Reply(c, IF Live(s) THEN Entry(s) ELSE None)

MemGc(c) ==
  Doing(c, "gc") /\ db' = WithoutKeys(Expired) /\ Reply(c, Cardinality(Expired))

\* No check for duplicates.
MemAppend(c) ==
  Doing(c, "append") /\ db' = WithEvent(db, call[c].event) /\ Reply(c, Done)

\* append() for each event, other calls in between; nothing is undone.
MemAppendBatch(c) ==
  /\ Doing(c, "batch")
  /\ db' = WithEvent(db, Head(call[c].events))
  /\ Await(c, "batch", Tail(call[c].events))

MemAppendNext(c) ==
  /\ pc[c] = "batch"
  /\ \/ mine[c] = <<>> /\ Tell(c, Done) /\ UNCHANGED mine
     \/ /\ mine[c] # <<>>
        /\ db' = WithEvent(db, Head(mine[c])) /\ Await(c, "batch", Tail(mine[c]))

\* The filter first, then the limit.
MemRead(c) ==
  LET wanted == {e \in db.events : e.row >= call[c].from /\ e.event.type \in call[c].types}
  IN Doing(c, "read") /\ Tell(c, Limited(wanted, call[c].limit))

MemLastSequence(c) == Doing(c, "last") /\ Tell(c, db.sequence)

\* AuditEngine.record().
MemAudit(c) ==
  LET entry == AuditRow(call[c].record, Len(db.audit) + 1, PrevHash(db.audit))
  IN Doing(c, "audit") /\ db' = [db EXCEPT !.audit = Append(@, entry)] /\ Reply(c, entry)

MemVerify(c) == Doing(c, "verify") /\ Tell(c, Verified(db.audit))

MemListAudit(c) == Doing(c, "listAudit") /\ Tell(c, db.audit)

Memory(c) ==
  /\ \/ MemAppendBatch(c) \/ MemAppendNext(c)
     \/ /\ \/ MemSave(c) \/ MemLoad(c) \/ MemUpdate(c) \/ MemTransition(c) \/ MemList(c) \/ MemDelete(c)
           \/ MemSaveAuthority(c) \/ MemLoadAuthority(c) \/ MemRevoke(c)
           \/ MemListChildren(c) \/ MemListBySubject(c) \/ MemIsRevoked(c)
           \/ MemReserve(c) \/ MemUpdateKey(c) \/ MemGet(c) \/ MemGc(c)
           \/ MemAppend(c) \/ MemRead(c) \/ MemLastSequence(c)
           \/ MemAudit(c) \/ MemVerify(c) \/ MemListAudit(c)
        /\ UNCHANGED mine
  /\ UNCHANGED <<begun, lock>>
==============================================================================
