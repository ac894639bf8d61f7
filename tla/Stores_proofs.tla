----------------------------- MODULE Stores_proofs -----------------------------
(***************************************************************************)
(* Theorems about the stores, for any number of calls over each of the     *)
(* three adapters: what races of two calls leave and answer.               *)
(***************************************************************************)
EXTENDS Stores, SequenceTheorems, FiniteSetTheorems, WellFoundedInduction, TLAPS

------------------------------------------------------------------------------
(* The tables.                                                             *)

TableNames == {"execution", "authority", "revocation", "key", "events", "sequence", "audit"}

\* Tables of which nothing is said but their names.
Shaped(t) ==
  /\ t = [n \in TableNames |-> t[n]]
  /\ t.execution = [i \in ExecutionIds |-> t.execution[i]]
  /\ t.authority = [i \in AuthorityIds |-> t.authority[i]]
  /\ t.key = [s \in DOMAIN t.key |-> t.key[s]]

\* Only the named tables differ.
Only(t, u, names) == \A n \in TableNames \ names : u[n] = t[n]

LEMMA WriteAuthority ==
  ASSUME NEW t, Shaped(t), NEW id, NEW row, NEW u, u = [t EXCEPT !["authority"][id] = row]
  PROVE  Shaped(u) /\ Only(t, u, {"authority"})
PROOF BY DEF Shaped, Only, TableNames

LEMMA WriteKeys ==
  ASSUME NEW t, Shaped(t), NEW table, table = [s \in DOMAIN table |-> table[s]],
         NEW u, u = [t EXCEPT !.key = table]
  PROVE  Shaped(u) /\ Only(t, u, {"key"}) /\ u.key = table
PROOF BY DEF Shaped, Only, TableNames

LEMMA WriteRevocation ==
  ASSUME NEW t, Shaped(t), NEW struck, NEW table, table = [i \in AuthorityIds |-> table[i]],
         NEW u, u = [t EXCEPT !.revocation = @ \cup struck, !.authority = table]
  PROVE  Shaped(u) /\ Only(t, u, {"authority", "revocation"}) /\ u.revocation = t.revocation \cup struck
PROOF BY DEF Shaped, Only, TableNames

LEMMA WriteAudit ==
  ASSUME NEW t, Shaped(t), NEW entry, NEW u, u = [t EXCEPT !.audit = Append(@, entry)]
  PROVE  Shaped(u) /\ Only(t, u, {"audit"}) /\ u.audit = Append(t.audit, entry)
PROOF BY DEF Shaped, Only, TableNames

LEMMA WriteEvents ==
  ASSUME NEW t, Shaped(t), NEW more, NEW n, NEW u,
         u = [t EXCEPT !.events = @ \cup more, !.sequence = n]
  PROVE  Shaped(u) /\ Only(t, u, {"events", "sequence"}) /\ u.events = t.events \cup more
PROOF BY DEF Shaped, Only, TableNames

LEMMA WriteSequence ==
  ASSUME NEW t, Shaped(t), NEW n, NEW u, u = [t EXCEPT !.sequence = n]
  PROVE  Shaped(u) /\ Only(t, u, {"sequence"})
PROOF BY DEF Shaped, Only, TableNames

LEMMA WriteEventsOnly ==
  ASSUME NEW t, Shaped(t), NEW more, NEW u, u = [t EXCEPT !.events = @ \cup more]
  PROVE  Shaped(u) /\ Only(t, u, {"events", "sequence"}) /\ u.events = t.events \cup more
PROOF BY DEF Shaped, Only, TableNames

LEMMA AppendsEvent ==
  ASSUME Shaped(db), NEW event, NEW u, u = WithEvent(db, event)
  PROVE  /\ Shaped(u) /\ Only(db, u, {"events", "sequence"})
         /\ u.events = db.events \cup {[event |-> event, row |-> db.sequence + 1]}
PROOF BY DEF WithEvent, Shaped, Only, TableNames

------------------------------------------------------------------------------
(* Where the calls are.                                                    *)

\* What a call is doing that waits at an await.
PlaceOf ==
  [save |-> "update", move |-> "transition",
   record |-> "revoke", cascade |-> "revoke", strike |-> "revoke", note |-> "revoke", end |-> "revoke",
   insert |-> "reserve", commit |-> "reserve", again |-> "reserve", patch |-> "updateKey",
   batch |-> "batch", undo |-> "batch", hash |-> "audit", chain |-> "audit"]
Within == DOMAIN PlaceOf
Places == {"idle", "called", "done", "died"} \cup Within
LockRows == ExecutionIds \cup AuthorityIds \cup Scopes \cup EventIds

Placed(c) == pc[c] \in Within => call[c].op = PlaceOf[pc[c]]

\* The awaits of each adapter.
AwaitsOf == [memory |-> {"batch"}, sqlite |-> {"save", "batch", "undo"}, postgres |-> Within]

CallsSound ==
  /\ pc \in [Clients -> Places]
  /\ call = [c \in Clients |-> call[c]] /\ answer = [c \in Clients |-> answer[c]]
  /\ mine = [c \in Clients |-> mine[c]]
  /\ \A c \in Clients :
       /\ pc[c] = "idle" => call[c] = NoCall
       /\ pc[c] # "idle" => call[c] \in setting.calls
       /\ pc[c] # "done" => answer[c] = None
       /\ pc[c] = "died" => setting.adapter = "sqlite"
       /\ Placed(c)
       /\ pc[c] \in Within => pc[c] \in AwaitsOf[setting.adapter]

TablesSound ==
  /\ Shaped(db)
  /\ begun = <<>> \/ (begun = <<begun[1]>> /\ Shaped(begun[1]) /\ setting.adapter = "sqlite")
  /\ lock \in [LockRows -> Clients \cup {None}]

StoresSound == setting \in Settings /\ now \in Nat /\ CallsSound /\ TablesSound

Answers(c) == \E value : Reply(c, value) /\ mine' = mine
Awaits(c, places) == \E place \in places : \E value : Await(c, place, value) /\ call[c].op = PlaceOf[place]
Working(c) == pc[c] = "called" \/ pc[c] \in Within

LEMMA PlaceNames ==
  /\ Within = {"save", "move", "record", "cascade", "strike", "note", "end", "insert", "commit", "again",
               "patch", "batch", "undo", "hash", "chain"}
  /\ PlaceOf["save"] = "update" /\ PlaceOf["move"] = "transition"
  /\ PlaceOf["record"] = "revoke" /\ PlaceOf["cascade"] = "revoke" /\ PlaceOf["strike"] = "revoke"
  /\ PlaceOf["note"] = "revoke" /\ PlaceOf["end"] = "revoke"
  /\ PlaceOf["insert"] = "reserve" /\ PlaceOf["commit"] = "reserve" /\ PlaceOf["again"] = "reserve"
  /\ PlaceOf["patch"] = "updateKey" /\ PlaceOf["batch"] = "batch" /\ PlaceOf["undo"] = "batch"
  /\ PlaceOf["hash"] = "audit" /\ PlaceOf["chain"] = "audit"
PROOF BY DEF Within, PlaceOf

LEMMA MemMoves ==
  ASSUME NEW c \in Clients, Memory(c), Placed(c)
  PROVE  Working(c) /\ (Answers(c) \/ Awaits(c, {"batch"}))
<1> USE DEF Doing, Tell, Answers, Working
<1>1. CASE MemAppendBatch(c) \/ MemAppendNext(c)
  <2>1. "batch" \in Within /\ PlaceOf["batch"] = "batch"
    BY DEF Within, PlaceOf
  <2> QED
    BY <1>1, <2>1 DEF MemAppendBatch, MemAppendNext, Awaits, Placed
<1>2. CASE /\ mine' = mine
           /\ \/ MemSave(c) \/ MemLoad(c) \/ MemUpdate(c) \/ MemTransition(c) \/ MemList(c) \/ MemDelete(c)
              \/ MemSaveAuthority(c) \/ MemLoadAuthority(c) \/ MemRevoke(c)
  BY <1>2 DEF MemSave, MemLoad, MemUpdate, MemTransition, MemList, MemDelete, MemSaveAuthority,
     MemLoadAuthority, MemRevoke
<1>3. CASE /\ mine' = mine
           /\ \/ MemListChildren(c) \/ MemListBySubject(c) \/ MemIsRevoked(c)
              \/ MemReserve(c) \/ MemUpdateKey(c) \/ MemGet(c) \/ MemGc(c)
              \/ MemAppend(c) \/ MemRead(c) \/ MemLastSequence(c)
              \/ MemAudit(c) \/ MemVerify(c) \/ MemListAudit(c)
  BY <1>3 DEF MemListChildren, MemListBySubject, MemIsRevoked, MemReserve, MemUpdateKey, MemGet, MemGc,
     MemAppend, MemRead, MemLastSequence, MemAudit, MemVerify, MemListAudit
<1> QED
  BY <1>1, <1>2, <1>3 DEF Memory

LEMMA SqlMoves ==
  ASSUME NEW c \in Clients, Sqlite(c), Placed(c)
  PROVE  Working(c) /\ (Answers(c) \/ Awaits(c, {"save", "batch", "undo"}))
<1> USE DEF Doing, Tell, Answers, Working
<1>0. /\ "batch" \in Within /\ PlaceOf["batch"] = "batch"
      /\ "undo" \in Within /\ PlaceOf["undo"] = "batch"
      /\ "save" \in Within /\ PlaceOf["save"] = "update"
  BY DEF Within, PlaceOf
<1>1. CASE SqlUpdate(c)
  BY <1>0, <1>1 DEF SqlUpdate, Awaits, Placed
<1>2. CASE SqlAppendBatch(c)
  BY <1>0, <1>2 DEF SqlAppendBatch, Awaits, Placed
<1>3. CASE /\ mine' = mine
           /\ \/ SqlSave(c) \/ SqlLoad(c) \/ SqlTransition(c) \/ SqlList(c) \/ SqlDelete(c)
              \/ SqlSaveAuthority(c) \/ SqlLoadAuthority(c) \/ SqlRevoke(c)
  BY <1>3 DEF SqlSave, SqlLoad, SqlTransition, SqlList, SqlDelete, SqlSaveAuthority, SqlLoadAuthority,
     SqlRevoke
<1>4. CASE /\ mine' = mine
           /\ \/ SqlListChildren(c) \/ SqlListBySubject(c) \/ SqlIsRevoked(c)
              \/ SqlReserve(c) \/ SqlUpdateKey(c) \/ SqlGet(c) \/ SqlGc(c)
              \/ SqlAppend(c) \/ SqlRead(c) \/ SqlLastSequence(c)
              \/ SqlAudit(c) \/ SqlVerify(c) \/ SqlListAudit(c)
  BY <1>4 DEF SqlListChildren, SqlListBySubject, SqlIsRevoked, SqlReserve, SqlUpdateKey, SqlGet, SqlGc,
     SqlAppend, SqlRead, SqlLastSequence, SqlAudit, SqlVerify, SqlListAudit
<1> QED
  BY <1>1, <1>2, <1>3, <1>4 DEF Sqlite

LEMMA PgMoves ==
  ASSUME NEW c \in Clients, Postgres(c), pc[c] \in Places, Placed(c), pc[c] # "died"
  PROVE  Working(c) /\ (Answers(c) \/ Awaits(c, Within))
<1> USE DEF Doing, Tell, Answers, Working
<1>1. CASE \/ PgSave(c) \/ PgUpdate(c) \/ PgTransition(c) \/ PgMove(c) \/ PgDelete(c)
  BY PlaceNames, <1>1 DEF PgSave, PgUpdate, PgTransition, PgMove, PgDelete, Awaits, Placed
<1>2. CASE PgSaveAuthority(c) \/ PgRevoke(c) \/ PgUpdateKey(c) \/ PgGc(c)
  BY PlaceNames, <1>2 DEF PgSaveAuthority, PgRevoke, PgUpdateKey, PgGc, Awaits, Placed
<1>3. CASE PgReserve(c)
  BY PlaceNames, <1>3 DEF PgReserve, Awaits, Placed
<1>4. CASE PgAppend(c) \/ PgAppendBatch(c)
  BY PlaceNames, <1>4 DEF PgAppend, PgAppendBatch, PgInsertEvent, Awaits, Placed
<1>5. CASE PgAudit(c)
  BY PlaceNames, <1>5 DEF PgAudit, Awaits, Placed
<1>6. CASE PgFail(c)
  BY PlaceNames, <1>6 DEF PgFail, Places
<1>7. CASE /\ mine' = mine
           /\ \/ PgLoad(c) \/ PgList(c)
              \/ PgLoadAuthority(c) \/ PgListChildren(c) \/ PgListBySubject(c) \/ PgIsRevoked(c)
              \/ PgGet(c) \/ PgRead(c) \/ PgLastSequence(c) \/ PgVerify(c) \/ PgListAudit(c)
  BY <1>7 DEF PgLoad, PgList, PgLoadAuthority, PgListChildren, PgListBySubject, PgIsRevoked,
     PgGet, PgRead, PgLastSequence, PgVerify, PgListAudit
<1> QED
  BY <1>1, <1>2, <1>3, <1>4, <1>5, <1>6, <1>7 DEF Postgres

------------------------------------------------------------------------------
(* Which tables a call changes.                                            *)

Writers ==
  [execution |-> {"save", "update", "transition", "delete"},
   authority |-> {"saveAuthority", "revoke"}, revocation |-> {"revoke"},
   key |-> {"reserve", "updateKey", "get", "gc"},
   events |-> {"append", "batch"}, sequence |-> {"append", "batch"}, audit |-> {"audit"}]

Keeps(c) == Shaped(db') /\ \A n \in TableNames : call[c].op \notin Writers[n] => db'[n] = db[n]

LEMMA KeepsAll ==
  ASSUME NEW c, Shaped(db), db' = db PROVE Keeps(c)
PROOF BY DEF Keeps

LEMMA KeepsOthers ==
  ASSUME NEW c, Shaped(db'), NEW names, Only(db, db', names),
         \A n \in names : call[c].op \in Writers[n]
  PROVE  Keeps(c)
PROOF BY DEF Keeps, Only

LEMMA KeepsButExecution ==
  ASSUME NEW c, Shaped(db), call[c].op \in Writers["execution"], NEW id, NEW row, Write("execution", id, row)
  PROVE  /\ Keeps(c)
         /\ \A i \in ExecutionIds : db'.execution[i] = IF i = id THEN row ELSE db.execution[i]
<1>1. /\ Shaped(db') /\ Only(db, db', {"execution"})
      /\ \A i \in ExecutionIds : db'.execution[i] = IF i = id THEN row ELSE db.execution[i]
  BY DEF Write, Shaped, Only, TableNames
<1> QED
  BY <1>1, KeepsOthers

LEMMA KeepsButAuthority ==
  ASSUME NEW c, Shaped(db), call[c].op = "saveAuthority", NEW id, NEW row, Write("authority", id, row)
  PROVE  Keeps(c)
<1>1. Shaped(db') /\ Only(db, db', {"authority"})
  BY WriteAuthority DEF Write
<1>2. call[c].op \in Writers["authority"]
  BY DEF Writers
<1> QED
  BY <1>1, <1>2, KeepsOthers

LEMMA KeepsButKeys ==
  ASSUME NEW c, Shaped(db), call[c].op \in Writers["key"],
         \/ \E s, row : db' = WithKey(s, row)
         \/ \E scopes : db' = WithoutKeys(scopes)
         \/ \E s, entry : db' = WithEntry(s, entry)
         \/ db' = db
  PROVE  Keeps(c)
<1>1. CASE \E s, row : db' = WithKey(s, row)
  <2>1. PICK s, row : db' = WithKey(s, row)
    BY <1>1
  <2> DEFINE table == [x \in DOMAIN db.key \cup {s} |-> IF x = s THEN row ELSE db.key[x]]
  <2>2. db' = [db EXCEPT !.key = table] /\ table = [x \in DOMAIN table |-> table[x]]
    BY <2>1 DEF WithKey
  <2> HIDE DEF table
  <2>3. Shaped(db') /\ Only(db, db', {"key"})
    BY <2>2, WriteKeys
  <2> QED
    BY <2>3, KeepsOthers
<1>2. CASE \E scopes : db' = WithoutKeys(scopes)
  <2>1. PICK scopes : db' = WithoutKeys(scopes)
    BY <1>2
  <2> DEFINE table == [x \in DOMAIN db.key \ scopes |-> db.key[x]]
  <2>2. db' = [db EXCEPT !.key = table] /\ table = [x \in DOMAIN table |-> table[x]]
    BY <2>1 DEF WithoutKeys
  <2> HIDE DEF table
  <2>3. Shaped(db') /\ Only(db, db', {"key"})
    BY <2>2, WriteKeys
  <2> QED
    BY <2>3, KeepsOthers
<1>3. CASE db' = db
  BY <1>3, KeepsAll
<1>4. CASE \E s, entry : db' = WithEntry(s, entry)
  BY <1>1, <1>3, <1>4 DEF WithEntry
<1> QED
  BY <1>1, <1>2, <1>3, <1>4

LEMMA KeepsButRevoked ==
  ASSUME NEW c, Shaped(db), call[c].op = "revoke", NEW struck, NEW table,
         table = [i \in AuthorityIds |-> table[i]],
         db' = [db EXCEPT !.revocation = @ \cup struck, !.authority = table]
  PROVE  Keeps(c) /\ db'.revocation = db.revocation \cup struck
<1>1. /\ Shaped(db') /\ Only(db, db', {"authority", "revocation"})
      /\ db'.revocation = db.revocation \cup struck
  BY WriteRevocation
<1>2. \A n \in {"authority", "revocation"} : call[c].op \in Writers[n]
  BY DEF Writers
<1> QED
  BY ONLY <1>1, <1>2, KeepsOthers

LEMMA KeepsButAudit ==
  ASSUME NEW c, Shaped(db), call[c].op = "audit", NEW entry, db' = [db EXCEPT !.audit = Append(@, entry)]
  PROVE  Keeps(c) /\ db'.audit = Append(db.audit, entry)
<1>1. Shaped(db') /\ Only(db, db', {"audit"}) /\ db'.audit = Append(db.audit, entry)
  BY WriteAudit
<1>2. call[c].op \in Writers["audit"]
  BY DEF Writers
<1> QED
  BY ONLY <1>1, <1>2, KeepsOthers

LEMMA KeepsButEvents ==
  ASSUME NEW c, Shaped(db), call[c].op \in {"append", "batch"},
         \/ \E event : db' = WithEvent(db, event)
         \/ \E n : db' = [db EXCEPT !.sequence = n]
         \/ \E more : db' = [db EXCEPT !.events = @ \cup more]
  PROVE  Keeps(c)
<1>1. call[c].op \in Writers["events"] /\ call[c].op \in Writers["sequence"]
  BY DEF Writers
<1>2. CASE \E event : db' = WithEvent(db, event)
  <2>1. Shaped(db') /\ Only(db, db', {"events", "sequence"})
    BY <1>2, AppendsEvent
  <2> QED
    BY <1>1, <2>1, KeepsOthers
<1>3. CASE \E n : db' = [db EXCEPT !.sequence = n]
  <2>1. Shaped(db') /\ Only(db, db', {"sequence"})
    BY <1>3, WriteSequence
  <2> QED
    BY <1>1, <2>1, KeepsOthers
<1>4. CASE \E more : db' = [db EXCEPT !.events = @ \cup more]
  <2>1. Shaped(db') /\ Only(db, db', {"events", "sequence"})
    BY <1>4, WriteEventsOnly
  <2> QED
    BY <1>1, <2>1, KeepsOthers
<1> QED
  BY <1>2, <1>3, <1>4

LEMMA WriterNames ==
  /\ Writers["execution"] = {"save", "update", "transition", "delete"}
  /\ Writers["key"] = {"reserve", "updateKey", "get", "gc"}
  /\ Writers["events"] = {"append", "batch"}
  /\ Writers["audit"] = {"audit"} /\ Writers["revocation"] = {"revoke"}
  /\ {"execution", "key", "events", "audit", "revocation"} \subseteq TableNames
PROOF BY DEF Writers, TableNames

LEMMA MemKeeps ==
  ASSUME NEW c \in Clients, Memory(c), Shaped(db), Placed(c)
  PROVE  Keeps(c)
<1> USE DEF Doing, Tell
<1>1. CASE MemAppendBatch(c) \/ MemAppendNext(c)
  <2>1. call[c].op = "batch"
    BY <1>1 DEF MemAppendBatch, MemAppendNext, Placed, Within, PlaceOf
  <2> QED
    BY <1>1, <2>1, KeepsButEvents, KeepsAll DEF MemAppendBatch, MemAppendNext
<1>2. CASE MemSave(c) \/ MemUpdate(c) \/ MemTransition(c) \/ MemDelete(c)
  BY <1>2, KeepsAll, KeepsButExecution, WriterNames DEF MemSave, MemUpdate, MemTransition, MemDelete
<1>3. CASE MemSaveAuthority(c)
  BY <1>3, KeepsButAuthority DEF MemSaveAuthority
<1>4. CASE MemRevoke(c)
  <2> DEFINE id == call[c].id
             below == {x \in AuthorityIds : db.authority[x] # None /\ db.authority[x].parent = id}
             struck == {id} \cup (IF call[c].cascade THEN below ELSE {})
             table == [x \in AuthorityIds |->
                         IF x \in struck
                         THEN [db.authority[x] EXCEPT !.text.state = "revoked", !.column = "revoked"]
                         ELSE db.authority[x]]
  <2>1. \/ db' = db
        \/ db' = [db EXCEPT !.revocation = @ \cup struck, !.authority = table]
    BY <1>4 DEF MemRevoke
  <2>2. table = [i \in AuthorityIds |-> table[i]]
    OBVIOUS
  <2>3. call[c].op = "revoke"
    BY <1>4 DEF MemRevoke
  <2> HIDE DEF struck, table
  <2> QED
    BY <2>1, <2>2, <2>3, KeepsAll, KeepsButRevoked
<1>5. CASE MemReserve(c) \/ MemUpdateKey(c) \/ MemGet(c) \/ MemGc(c)
  <2>1. call[c].op \in Writers["key"]
    BY <1>5, WriterNames DEF MemReserve, MemUpdateKey, MemGet, MemGc
  <2>2. \/ \E s, row : db' = WithKey(s, row)
        \/ \E scopes : db' = WithoutKeys(scopes)
        \/ db' = db
    BY <1>5 DEF MemReserve, MemUpdateKey, MemGet, MemGc
  <2> QED
    BY <2>1, <2>2, KeepsButKeys
<1>6. CASE MemAppend(c)
  BY <1>6, KeepsButEvents DEF MemAppend
<1>7. CASE MemAudit(c)
  BY <1>7, KeepsButAudit DEF MemAudit
<1>8. CASE \/ MemLoad(c) \/ MemList(c) \/ MemLoadAuthority(c)
           \/ MemListChildren(c) \/ MemListBySubject(c) \/ MemIsRevoked(c)
           \/ MemRead(c) \/ MemLastSequence(c) \/ MemVerify(c) \/ MemListAudit(c)
  BY <1>8, KeepsAll DEF MemLoad, MemList, MemLoadAuthority, MemListChildren, MemListBySubject,
     MemIsRevoked, MemRead, MemLastSequence, MemVerify, MemListAudit
<1> QED
  BY <1>1, <1>2, <1>3, <1>4, <1>5, <1>6, <1>7, <1>8 DEF Memory

\* A transaction that was open is rolled back.
Undone == begun # <<>> /\ db' = begun[1] /\ begun' = <<>>

\* The connection begins a transaction with a batch only.
Begins(c) ==
  /\ begun = <<>> /\ begun' = <<db>>
  /\ pc[c] = "called" /\ call[c].op = "batch" /\ pc'[c] \in {"batch", "undo"}

LEMMA RollsBack ==
  ASSUME NEW c, Shaped(db), Rollback
  PROVE  (Undone \/ Keeps(c)) /\ begun' \in {begun, <<>>}
PROOF BY KeepsAll DEF Rollback, Undone

LEMMA SqlKeeps ==
  ASSUME NEW c \in Clients, Sqlite(c), Shaped(db), Placed(c), pc \in [Clients -> Places]
  PROVE  (Undone \/ Keeps(c)) /\ (begun' \in {begun, <<>>} \/ Begins(c))
<1> USE DEF Doing, Tell, Plain
<1>1. CASE SqlAppendBatch(c)
  <2>1. call[c].op = "batch"
    BY <1>1 DEF SqlAppendBatch, Placed, Within, PlaceOf
  <2>2. CASE Rollback
    BY <2>2, RollsBack
  <2>3. CASE ~Rollback
    <3>1. db' = db \/ \E event : db' = WithEvent(db, event)
      BY <1>1, <2>3 DEF SqlAppendBatch
    <3>2. Keeps(c)
      BY <2>1, <3>1, KeepsButEvents, KeepsAll
    <3>3. begun' \in {begun, <<>>} \/ Begins(c)
      BY <1>1, <2>1, <2>3 DEF SqlAppendBatch, Begins, Await
    <3> QED
      BY <3>2, <3>3
  <2> QED
    BY <2>2, <2>3
<1>2. CASE SqlUpdate(c)
  <2>1. call[c].op = "update"
    BY <1>2 DEF SqlUpdate, Placed, Within, PlaceOf
  <2> QED
    BY <1>2, <2>1, KeepsAll, KeepsButExecution, WriterNames DEF SqlUpdate
<1>3. CASE SqlSave(c) \/ SqlDelete(c)
  BY <1>3, KeepsButExecution, WriterNames DEF SqlSave, SqlDelete
<1>4. CASE SqlTransition(c)
  <2>1. CASE Rollback
    BY <2>1, RollsBack
  <2>2. CASE ~Rollback
    <3> DEFINE k == call[c]
               r == db.execution[k.id]
    <3>1. Commit([db EXCEPT !.execution[k.id] = Moved(r, k.to, k.patch)]) /\ k.op = "transition"
      BY <1>4, <2>2 DEF SqlTransition
    <3>2. Write("execution", k.id, Moved(r, k.to, k.patch)) /\ begun' = <<>>
      BY <3>1 DEF Commit, Write
    <3> QED
      BY <3>1, <3>2, KeepsButExecution, WriterNames
  <2> QED
    BY <2>1, <2>2
<1>5. CASE SqlSaveAuthority(c)
  BY <1>5, KeepsButAuthority DEF SqlSaveAuthority
<1>6. CASE SqlRevoke(c)
  <2>1. CASE Rollback
    BY <2>1, RollsBack
  <2>2. CASE ~Rollback
    <3>1. Commit(Revoked(call[c].id, call[c].cascade)) /\ call[c].op = "revoke"
      BY <1>6, <2>2 DEF SqlRevoke
    <3> DEFINE struck == {call[c].id} \cup (IF call[c].cascade THEN Descendants(call[c].id) ELSE {})
               table == [x \in AuthorityIds |->
                           IF x \in struck THEN Struck(db.authority[x]) ELSE db.authority[x]]
    <3>2. db' = [db EXCEPT !.revocation = @ \cup struck, !.authority = table] /\ begun' = <<>>
      BY <3>1 DEF Commit, Revoked
    <3>3. table = [i \in AuthorityIds |-> table[i]]
      OBVIOUS
    <3> HIDE DEF struck, table
    <3> QED
      BY <3>1, <3>2, <3>3, KeepsButRevoked
  <2> QED
    BY <2>1, <2>2
<1>7. CASE SqlReserve(c)
  <2>1. CASE Rollback
    BY <2>1, RollsBack
  <2>2. CASE ~Rollback
    <3>1. call[c].op \in Writers["key"] /\ begun' = <<>> /\ \E s, row : db' = WithKey(s, row)
      BY <1>7, <2>2, WriterNames DEF SqlReserve, Commit
    <3> QED
      BY <3>1, KeepsButKeys
  <2> QED
    BY <2>1, <2>2
<1>8. CASE SqlUpdateKey(c) \/ SqlGc(c)
  <2>1. call[c].op \in Writers["key"] /\ begun' = begun
    BY <1>8, WriterNames DEF SqlUpdateKey, SqlGc
  <2>2. (\E s, entry : db' = WithEntry(s, entry)) \/ \E scopes : db' = WithoutKeys(scopes)
    BY <1>8 DEF SqlUpdateKey, SqlGc
  <2> QED
    BY <2>1, <2>2, KeepsButKeys
<1>9. CASE SqlAppend(c)
  BY <1>9, KeepsAll, KeepsButEvents DEF SqlAppend
<1>10. CASE SqlAudit(c)
  BY <1>10, KeepsButAudit DEF SqlAudit
<1>11. CASE \/ SqlLoad(c) \/ SqlList(c) \/ SqlLoadAuthority(c)
            \/ SqlListChildren(c) \/ SqlListBySubject(c) \/ SqlIsRevoked(c) \/ SqlGet(c)
            \/ SqlRead(c) \/ SqlLastSequence(c) \/ SqlVerify(c) \/ SqlListAudit(c)
  BY <1>11, KeepsAll DEF SqlLoad, SqlList, SqlLoadAuthority, SqlListChildren, SqlListBySubject,
     SqlIsRevoked, SqlGet, SqlRead, SqlLastSequence, SqlVerify, SqlListAudit
<1> QED
  BY <1>1, <1>2, <1>3, <1>4, <1>5, <1>6, <1>7, <1>8, <1>9, <1>10, <1>11 DEF Sqlite

LEMMA PgKeeps ==
  ASSUME NEW c \in Clients, Postgres(c), Shaped(db), Placed(c)
  PROVE  Keeps(c) /\ begun' = begun
<1> USE DEF Doing, Tell
<1>0. begun' = begun
  BY DEF Postgres
<1>1. CASE PgSave(c) \/ PgDelete(c)
  BY <1>0, <1>1, KeepsButExecution, WriterNames DEF PgSave, PgDelete
<1>2. CASE PgUpdate(c)
  <2>1. call[c].op = "update"
    BY <1>2 DEF PgUpdate, Placed, Within, PlaceOf
  <2> QED
    BY <1>0, <1>2, <2>1, KeepsAll, KeepsButExecution, WriterNames DEF PgUpdate
<1>3. CASE PgMove(c)
  <2>1. call[c].op = "transition"
    BY <1>3 DEF PgMove, Placed, Within, PlaceOf
  <2> QED
    BY <1>0, <1>3, <2>1, KeepsButExecution, WriterNames DEF PgMove
<1>4. CASE PgSaveAuthority(c)
  BY <1>0, <1>4, KeepsButAuthority DEF PgSaveAuthority
<1>5. CASE PgRevoke(c)
  <2>1. call[c].op = "revoke"
    BY <1>5, PlaceNames DEF PgRevoke, Placed
  <2> DEFINE table == [x \in AuthorityIds |->
                         IF x \in mine[c].struck THEN Struck(db.authority[x])
                         ELSE db.authority[x]]
  <2>2. db' = db \/ db' = [db EXCEPT !.revocation = @ \cup mine[c].noted, !.authority = table]
    BY <1>5 DEF PgRevoke
  <2>3. table = [i \in AuthorityIds |-> table[i]]
    OBVIOUS
  <2> HIDE DEF table
  <2> QED
    BY <1>0, <2>1, <2>2, <2>3, KeepsAll, KeepsButRevoked
<1>6. CASE PgReserve(c) \/ PgUpdateKey(c) \/ PgGc(c)
  <2>1. call[c].op \in Writers["key"]
    <3>1. CASE PgReserve(c)
      <4>1. pc[c] \in {"insert", "commit", "again"} \/ (pc[c] = "called" /\ call[c].op = "reserve")
        BY <3>1 DEF PgReserve
      <4> QED
        BY <4>1, WriterNames, PlaceNames DEF Placed
    <3>2. CASE PgUpdateKey(c) \/ PgGc(c)
      BY <3>2, WriterNames, PlaceNames DEF PgUpdateKey, PgGc, Placed
    <3> QED
      BY <1>6, <3>1, <3>2
  <2>2. \/ \E s, row : db' = WithKey(s, row)
        \/ \E scopes : db' = WithoutKeys(scopes)
        \/ \E s, entry : db' = WithEntry(s, entry)
        \/ db' = db
    BY <1>6 DEF PgReserve, PgUpdateKey, PgGc
  <2> QED
    BY <1>0, <2>1, <2>2, KeepsButKeys
<1>7. CASE PgAppend(c) \/ PgAppendBatch(c)
  <2>1. call[c].op \in {"append", "batch"}
    BY <1>7 DEF PgAppend, PgAppendBatch, Placed, Within, PlaceOf
  <2>2. \/ \E event : db' = WithEvent(db, event)
        \/ \E n : db' = [db EXCEPT !.sequence = n]
        \/ \E more : db' = [db EXCEPT !.events = @ \cup more]
        \/ db' = db
    BY <1>7 DEF PgAppend, PgAppendBatch, PgInsertEvent
  <2> QED
    BY <1>0, <2>1, <2>2, KeepsAll, KeepsButEvents
<1>8. CASE PgAudit(c)
  <2>1. call[c].op = "audit"
    BY <1>8 DEF PgAudit, Placed, Within, PlaceOf
  <2> QED
    BY <1>0, <1>8, <2>1, KeepsAll, KeepsButAudit DEF PgAudit
<1>9. CASE \/ PgTransition(c) \/ PgFail(c)
           \/ PgLoad(c) \/ PgList(c)
           \/ PgLoadAuthority(c) \/ PgListChildren(c) \/ PgListBySubject(c) \/ PgIsRevoked(c)
           \/ PgGet(c) \/ PgRead(c) \/ PgLastSequence(c) \/ PgVerify(c) \/ PgListAudit(c)
  BY <1>0, <1>9, KeepsAll DEF PgTransition, PgFail, PgLoad, PgList, PgLoadAuthority, PgListChildren,
     PgListBySubject, PgIsRevoked, PgGet, PgRead, PgLastSequence, PgVerify, PgListAudit
<1> QED
  BY <1>1, <1>2, <1>3, <1>4, <1>5, <1>6, <1>7, <1>8, <1>9 DEF Postgres

------------------------------------------------------------------------------
(* The types.                                                              *)

\* A step of a call: which call it is of, what it does to that call, and which tables
\* it may have changed.
LEMMA StepMoves ==
  ASSUME StoresSound, NEW c \in setting.clients, Step(c)
  PROVE  /\ c \in Clients /\ Working(c) /\ (Answers(c) \/ Awaits(c, AwaitsOf[setting.adapter]))
         /\ call' = call /\ setting' = setting /\ now' = now
<1>1. c \in Clients
  BY SettingsAssumption DEF StoresSound
<1>2. pc \in [Clients -> Places] /\ Placed(c)
  BY <1>1 DEF StoresSound, CallsSound
<1>3. CASE setting.adapter = "memory" /\ Memory(c)
  BY <1>1, <1>2, <1>3, MemMoves DEF Step, AwaitsOf
<1>4. CASE setting.adapter = "sqlite" /\ Sqlite(c)
  BY <1>1, <1>2, <1>4, SqlMoves DEF Step, AwaitsOf
<1>5. CASE setting.adapter = "postgres" /\ Postgres(c)
  <2>1. pc[c] # "died" /\ pc[c] \in Places /\ Placed(c)
    BY <1>1, <1>5 DEF StoresSound, CallsSound
  <2> QED
    BY <1>1, <1>5, <2>1, PgMoves DEF Step, AwaitsOf
<1> QED
  BY <1>3, <1>4, <1>5 DEF Step

LEMMA StepKeeps ==
  ASSUME StoresSound, NEW c \in setting.clients, Step(c)
  PROVE  /\ Undone \/ Keeps(c)
         /\ begun' \in {begun, <<>>} \/ Begins(c)
         /\ setting.adapter # "sqlite" => Keeps(c) /\ begun' = <<>>
<1>1. c \in Clients
  BY SettingsAssumption DEF StoresSound
<1>2. pc \in [Clients -> Places] /\ Placed(c) /\ Shaped(db)
  BY <1>1 DEF StoresSound, CallsSound, TablesSound
<1>3. setting.adapter # "sqlite" => begun = <<>>
  BY DEF StoresSound, TablesSound
<1>4. CASE setting.adapter = "memory" /\ Memory(c)
  BY <1>1, <1>2, <1>3, <1>4, MemKeeps DEF Memory
<1>5. CASE setting.adapter = "sqlite" /\ Sqlite(c)
  BY <1>1, <1>2, <1>5, SqlKeeps
<1>6. CASE setting.adapter = "postgres" /\ Postgres(c)
  BY <1>1, <1>2, <1>3, <1>6, PgKeeps
<1> QED
  BY <1>4, <1>5, <1>6 DEF Step

LEMMA PgLocks ==
  ASSUME NEW c \in Clients, Postgres(c), lock \in [LockRows -> Clients \cup {None}]
  PROVE  lock' \in [LockRows -> Clients \cup {None}]
<1>1. lock' = lock \/ Release(c) \/ \E ids : Take(c, ids)
  <2> USE DEF NoLocks
  <2>1. CASE \/ PgSave(c) \/ PgUpdate(c) \/ PgTransition(c) \/ PgMove(c) \/ PgDelete(c)
    BY <2>1 DEF PgSave, PgUpdate, PgTransition, PgMove, PgDelete
  <2>2. CASE PgSaveAuthority(c) \/ PgRevoke(c) \/ PgUpdateKey(c) \/ PgGc(c)
    BY <2>2 DEF PgSaveAuthority, PgRevoke, PgUpdateKey, PgGc
  <2>3. CASE PgReserve(c)
    BY <2>3 DEF PgReserve
  <2>4. CASE PgAppend(c) \/ PgAppendBatch(c)
    BY <2>4 DEF PgAppend, PgAppendBatch, PgInsertEvent
  <2>5. CASE PgAudit(c) \/ PgFail(c)
    BY <2>5 DEF PgAudit, PgFail
  <2> QED
    BY <2>1, <2>2, <2>3, <2>4, <2>5 DEF Postgres
<1> QED
  BY <1>1 DEF Release, Take

LEMMA CallsStep ==
  ASSUME CallsSound, NEW c \in Clients, Working(c), Answers(c) \/ Awaits(c, AwaitsOf[setting.adapter]),
         call' = call, setting' = setting, setting \in Settings
  PROVE  CallsSound'
<1>1. Within \subseteq Places /\ "done" \in Places /\ "done" \notin Within /\ "called" \notin Within
      /\ "idle" \notin Within /\ "died" \notin Within
  BY PlaceNames DEF Places
<1>0. AwaitsOf[setting.adapter] \subseteq Within
  <2>1. setting.adapter \in {"memory", "sqlite", "postgres"}
    BY SettingsAssumption
  <2>2. /\ AwaitsOf["memory"] = {"batch"} /\ AwaitsOf["sqlite"] = {"save", "batch", "undo"}
        /\ AwaitsOf["postgres"] = Within
    BY DEF AwaitsOf
  <2> QED
    BY <2>1, <2>2, PlaceNames
<1>2. PICK place \in AwaitsOf[setting.adapter] \cup {"done"} :
        /\ pc' = [pc EXCEPT ![c] = place]
        /\ place \in Within => call[c].op = PlaceOf[place]
        /\ answer' = [x \in Clients |-> answer'[x]] /\ mine' = [x \in Clients |-> mine'[x]]
        /\ \A x \in Clients : answer'[x] = answer[x] \/ (x = c /\ place = "done")
  <2>1. CASE Answers(c)
    <3>1. PICK value : pc' = [pc EXCEPT ![c] = "done"] /\ answer' = [answer EXCEPT ![c] = value] /\ mine' = mine
      BY <2>1 DEF Answers, Reply
    <3>2. /\ answer' = [x \in Clients |-> answer'[x]] /\ mine' = [x \in Clients |-> mine'[x]]
          /\ \A x \in Clients : answer'[x] = answer[x] \/ x = c
      BY <3>1 DEF CallsSound
    <3> QED
      BY <1>0, <1>1, <3>1, <3>2
  <2>2. CASE Awaits(c, AwaitsOf[setting.adapter])
    <3>1. PICK place, value :
            /\ place \in AwaitsOf[setting.adapter]
            /\ pc' = [pc EXCEPT ![c] = place] /\ answer' = answer
            /\ mine' = [mine EXCEPT ![c] = value] /\ call[c].op = PlaceOf[place]
      BY <2>2 DEF Awaits, Await
    <3>2. /\ answer' = [x \in Clients |-> answer'[x]] /\ mine' = [x \in Clients |-> mine'[x]]
      BY <3>1 DEF CallsSound
    <3> QED
      BY <1>0, <1>1, <3>1, <3>2
  <2> QED
    BY <2>1, <2>2
<1>3. \A x \in Clients : pc'[x] = IF x = c THEN place ELSE pc[x]
  BY <1>2 DEF CallsSound
<1>4. pc' \in [Clients -> Places]
  BY <1>0, <1>1, <1>2 DEF CallsSound
<1>5. pc[c] # "idle" /\ pc[c] # "done" /\ pc[c] # "died"
  BY <1>1 DEF Working
<1> QED
  BY <1>0, <1>1, <1>2, <1>3, <1>4, <1>5 DEF CallsSound, Placed

LEMMA SoundInit == Init => StoresSound
<1> SUFFICES ASSUME Init PROVE StoresSound
  OBVIOUS
<1>1. setting \in Settings /\ db = Tables(db.execution, db.authority)
      /\ db.execution = [i \in ExecutionIds |-> db.execution[i]]
      /\ db.authority = [i \in AuthorityIds |-> db.authority[i]]
  BY SettingsAssumption DEF Init
<1>2. Shaped(db)
  <2>1. db.key = <<>> /\ <<>> = [s \in DOMAIN <<>> |-> <<>>[s]]
    BY <1>1 DEF Tables
  <2>2. db = [n \in TableNames |-> db[n]]
    BY <1>1 DEF Tables, TableNames
  <2> QED
    BY <1>1, <2>1, <2>2 DEF Shaped
<1>3. TablesSound
  BY <1>2 DEF Init, TablesSound, LockRows
<1>4. CallsSound
  BY PlaceNames DEF Init, CallsSound, Placed, Places
<1> QED
  BY <1>1, <1>3, <1>4 DEF StoresSound, Init

LEMMA SoundStep == StoresSound /\ [Next]_vars => StoresSound'
<1> SUFFICES ASSUME StoresSound, [Next]_vars PROVE StoresSound'
  OBVIOUS
<1>1. CASE UNCHANGED vars
  BY <1>1 DEF vars, history, rows, calls, StoresSound, CallsSound, TablesSound, Placed
<1>2. ASSUME NEW c \in setting.clients, Step(c) PROVE StoresSound'
  <2>1. CallsSound'
    BY <1>2, StepMoves, CallsStep DEF StoresSound
  <2>2. Shaped(db')
    BY <1>2, StepKeeps DEF StoresSound, TablesSound, Undone, Keeps
  <2>3. begun' = <<>> \/ (begun' = <<begun'[1]>> /\ Shaped(begun'[1]) /\ setting.adapter = "sqlite")
    <3>1. CASE Begins(c)
      <4>1. setting.adapter = "sqlite"
        BY <1>2, <3>1, StepKeeps DEF Begins
      <4>2. begun' = <<db>> /\ begun'[1] = db
        BY <3>1 DEF Begins
      <4> QED
        BY <4>1, <4>2 DEF StoresSound, TablesSound
    <3>2. CASE begun' \in {begun, <<>>}
      BY <3>2 DEF StoresSound, TablesSound
    <3> QED
      BY <1>2, <3>1, <3>2, StepKeeps
  <2>4. lock' \in [LockRows -> Clients \cup {None}]
    <3>1. CASE Postgres(c)
      BY <1>2, <3>1, PgLocks, StepMoves DEF StoresSound, TablesSound
    <3>2. CASE Memory(c) \/ Sqlite(c)
      BY <3>2 DEF Memory, Sqlite, StoresSound, TablesSound
    <3> QED
      BY <1>2, <3>1, <3>2 DEF Step
  <2> QED
    BY <1>2, <2>1, <2>2, <2>3, <2>4, StepMoves DEF StoresSound, TablesSound
<1>3. ASSUME NEW c \in setting.clients, NEW k \in setting.calls, Invoke(c, k) PROVE StoresSound'
  <2>1. c \in Clients
    BY SettingsAssumption DEF StoresSound
  <2>2. CallsSound'
    BY <1>3, <2>1, PlaceNames DEF Invoke, StoresSound, CallsSound, Placed, Places
  <2> QED
    BY <1>3, <2>2 DEF Invoke, rows, StoresSound, TablesSound
<1>4. CASE Crash
  <2>1. db' = db \/ Undone
    BY <1>4 DEF Crash, SqlCrash, Rollback, Undone
  <2>2. Shaped(db') /\ begun' = <<>>
    BY <1>4, <2>1 DEF StoresSound, TablesSound, Undone, Crash, SqlCrash, Rollback
  <2>3. CallsSound'
    <3>1. "died" \notin Within /\ "idle" # "died" /\ "died" \in Places
      BY PlaceNames DEF Places
    <3>2. /\ pc' = [c \in Clients |-> IF pc[c] \in {"idle", "done"} THEN pc[c] ELSE "died"]
          /\ setting.adapter = "sqlite" /\ UNCHANGED <<call, setting, answer, mine>>
      BY <1>4 DEF Crash, SqlCrash
    <3> QED
      BY <3>1, <3>2 DEF StoresSound, CallsSound, Placed
  <2> QED
    BY <1>4, <2>2, <2>3 DEF Crash, StoresSound, TablesSound
<1>5. CASE Tick
  <2>1. now' \in Nat
    BY <1>5 DEF Tick, StoresSound
  <2> QED
    BY <1>5, <2>1 DEF Tick, history, rows, calls, StoresSound, CallsSound, TablesSound, Placed
<1> QED
  BY <1>1, <1>2, <1>3, <1>4, <1>5 DEF Next

------------------------------------------------------------------------------
(* The audit chain.                                                        *)

IsChain(a) == a \in Seq(Range(a)) /\ Verified(a) /\ \A i \in DOMAIN a : a[i].seq = i
Recorded(entry, a) == entry.seq \in DOMAIN a /\ a[entry.seq] = entry
HashAt(a, n) == IF n = 0 THEN Genesis ELSE a[n].hash

\* The chain is sound, as it is and as a rollback would leave it; entries that were
\* answered are in both; and what a PostgreSQL append read of it still holds.
ChainInv ==
  /\ IsChain(db.audit)
  /\ begun # <<>> => IsChain(begun[1].audit)
  /\ begun # <<>> => \E b \in Clients : pc[b] \in {"batch", "undo"}
  /\ \A c \in Clients :
       /\ Answered(c, "verify") => answer[c] # FALSE
       /\ (Answered(c, "audit") /\ answer[c] # Error /\ c \notin exposed) =>
             Recorded(answer[c], db.audit) /\ (begun # <<>> => Recorded(answer[c], begun[1].audit))
       /\ pc[c] = "hash" => mine[c] \in 0 .. Len(db.audit)
       /\ pc[c] = "chain" => \E n \in 0 .. Len(db.audit) :
             mine[c] = AuditRow(call[c].record, n + 1, HashAt(db.audit, n))

\* The entry e follows the chain a, and b is the chain with it.
Follows(e, a) == \E record : e = AuditRow(record, Len(a) + 1, HashAt(a, Len(a)))
Grown(a, e, b) ==
  /\ IsChain(b) /\ Len(b) = Len(a) + 1 /\ Len(a) \in Nat /\ Recorded(e, b)
  /\ \A f : Recorded(f, a) => Recorded(f, b)
  /\ \A n \in 0 .. Len(a) : HashAt(b, n) = HashAt(a, n)

LEMMA ChainGrows ==
  ASSUME NEW a, IsChain(a), NEW e, Follows(e, a), NEW b, b = Append(a, e)
  PROVE  Grown(a, e, b)
<1> DEFINE S == Range(a) \cup {e}
<1>1. a \in Seq(S) /\ e \in S
  <2>1. a \in Seq(Range(a)) /\ Range(a) \subseteq S
    BY DEF IsChain
  <2> QED
    BY <2>1
<1> HIDE DEF S
<1>2. /\ b \in Seq(S) /\ Len(b) = Len(a) + 1 /\ Len(a) \in Nat /\ DOMAIN b = 1 .. Len(b) /\ DOMAIN a = 1 .. Len(a)
      /\ b[Len(a) + 1] = e /\ \A i \in 1 .. Len(a) : b[i] = a[i]
  BY <1>1
<1>3. e.seq = Len(a) + 1 /\ e.hash = Hash(e.record, e.seq, HashAt(a, Len(a)))
  BY DEF AuditRow, Follows
<1>4. \A n \in 0 .. Len(a) : HashAt(b, n) = HashAt(a, n)
  BY <1>2 DEF HashAt
<1>5. \A i \in DOMAIN b : b[i].seq = i
  <2>1. \A i \in DOMAIN a : a[i].seq = i
    BY DEF IsChain
  <2> QED
    BY <1>2, <1>3, <2>1
<1>6. Verified(b)
  <2> SUFFICES ASSUME NEW i \in DOMAIN b
               PROVE  b[i].hash = Hash(b[i].record, b[i].seq, HashAt(b, i - 1))
    BY <1>2 DEF Verified, HashAt
  <2>1. CASE i = Len(a) + 1
    <3>1. HashAt(b, i - 1) = HashAt(a, Len(a)) /\ b[i] = e
      BY <1>2, <1>4, <2>1
    <3> QED
      BY ONLY <1>3, <3>1
  <2>2. CASE i # Len(a) + 1
    <3>1. i \in 1 .. Len(a) /\ i - 1 \in 0 .. Len(a) /\ b[i] = a[i] /\ i \in DOMAIN a
      BY <1>2, <2>2
    <3>2. a[i].hash = Hash(a[i].record, a[i].seq, IF i = 1 THEN Genesis ELSE a[i - 1].hash)
      BY <3>1 DEF IsChain, Verified
    <3>3. HashAt(b, i - 1) = IF i = 1 THEN Genesis ELSE a[i - 1].hash
      BY <1>4, <3>1 DEF HashAt
    <3> QED
      BY ONLY <3>1, <3>2, <3>3
  <2> QED
    BY <2>1, <2>2
<1>7. b \in Seq(Range(b))
  BY <1>2 DEF Range
<1>8. Recorded(e, b)
  BY <1>2, <1>3 DEF Recorded
<1>9. \A f : Recorded(f, a) => Recorded(f, b)
  BY <1>2 DEF Recorded
<1> QED
  BY <1>2, <1>4, <1>5, <1>6, <1>7, <1>8, <1>9 DEF IsChain, Grown

LEMMA LastHash ==
  ASSUME NEW a, IsChain(a)
  PROVE  PrevHash(a) = HashAt(a, Len(a)) /\ Len(a) \in Nat
<1>1. a \in Seq(Range(a))
  BY DEF IsChain
<1>2. Len(a) \in Nat /\ (a = <<>> <=> Len(a) = 0)
  BY <1>1, EmptySeq
<1> QED
  BY <1>2 DEF PrevHash, HashAt

\* What a step of an append to the chain does.
AuditAppends(c) ==
  /\ pc'[c] = "done" /\ begun' = begun
  /\ answer'[c] = AuditRow(call[c].record, Len(db.audit) + 1, HashAt(db.audit, Len(db.audit)))
  /\ db'.audit = Append(db.audit, answer'[c])
AuditFails(c) == db'.audit = db.audit /\ pc'[c] = "done" /\ answer'[c] = Error /\ begun' = begun
AuditReads(c) ==
  /\ db'.audit = db.audit /\ begun' = begun
  /\ \/ pc'[c] = "hash" /\ mine'[c] = Len(db.audit)
     \/ /\ pc[c] = "hash" /\ pc'[c] = "chain"
        /\ mine'[c] = AuditRow(call[c].record, mine[c] + 1, HashAt(db.audit, mine[c]))

LEMMA AuditSteps ==
  ASSUME StoresSound, ChainInv, NEW c \in setting.clients, Step(c), call[c].op = "audit"
  PROVE  AuditAppends(c) \/ AuditFails(c) \/ AuditReads(c)
<1>1. c \in Clients /\ Placed(c) /\ pc[c] \in Places
  BY StepMoves DEF StoresSound, CallsSound
<1>a. /\ \A value : Reply(c, value) => pc'[c] = "done" /\ answer'[c] = value
      /\ \A place, value : Await(c, place, value) => pc'[c] = place /\ mine'[c] = value
  BY <1>1 DEF Reply, Await, StoresSound, CallsSound
<1>b. PrevHash(db.audit) = HashAt(db.audit, Len(db.audit)) /\ Len(db.audit) \in Nat
  BY LastHash DEF ChainInv
<1>c. Shaped(db)
  BY DEF StoresSound, TablesSound
<1> USE DEF Doing, Tell, Plain
<1>2. CASE Memory(c)
  <2>1. MemAudit(c) /\ begun' = begun
    <3>1. ~MemAppendBatch(c) /\ ~MemAppendNext(c)
      BY PlaceNames, <1>1 DEF MemAppendBatch, MemAppendNext, Placed
    <3> QED
      BY <1>2, <3>1 DEF Memory, MemSave, MemLoad, MemUpdate, MemTransition, MemList, MemDelete, MemSaveAuthority,
         MemLoadAuthority, MemRevoke, MemListChildren, MemListBySubject, MemIsRevoked, MemReserve, MemUpdateKey,
         MemGet, MemGc, MemAppend, MemRead, MemLastSequence, MemVerify, MemListAudit
  <2> DEFINE entry == AuditRow(call[c].record, Len(db.audit) + 1, PrevHash(db.audit))
  <2>2. db' = [db EXCEPT !.audit = Append(@, entry)] /\ Reply(c, entry)
    BY <2>1 DEF MemAudit
  <2>3. db'.audit = Append(db.audit, entry)
    BY <1>c, <2>2, KeepsButAudit
  <2> QED
    BY <1>a, <1>b, <2>1, <2>2, <2>3 DEF AuditAppends
<1>3. CASE Sqlite(c)
  <2>1. SqlAudit(c)
    <3>1. ~SqlAppendBatch(c) /\ ~SqlUpdate(c)
      BY PlaceNames, <1>1 DEF SqlAppendBatch, SqlUpdate, Placed
    <3> QED
      BY <1>3, <3>1 DEF Sqlite, SqlSave, SqlLoad, SqlTransition, SqlList, SqlDelete, SqlSaveAuthority,
         SqlLoadAuthority, SqlRevoke, SqlListChildren, SqlListBySubject, SqlIsRevoked, SqlReserve, SqlUpdateKey,
         SqlGet, SqlGc, SqlAppend, SqlRead, SqlLastSequence, SqlVerify, SqlListAudit
  <2> DEFINE entry == AuditRow(call[c].record, Len(db.audit) + 1, PrevHash(db.audit))
  <2>2. db' = [db EXCEPT !.audit = Append(@, entry)] /\ Reply(c, entry) /\ begun' = begun
    BY <2>1 DEF SqlAudit
  <2>3. db'.audit = Append(db.audit, entry)
    BY <1>c, <2>2, KeepsButAudit
  <2> QED
    BY <1>a, <1>b, <2>2, <2>3 DEF AuditAppends
<1>4. CASE Postgres(c)
  <2>0. begun' = begun
    BY <1>4 DEF Postgres
  <2>1. PgAudit(c) \/ PgFail(c)
    <3>1. /\ ~PgUpdate(c) /\ ~PgTransition(c) /\ ~PgMove(c) /\ ~PgRevoke(c) /\ ~PgUpdateKey(c)
      BY PlaceNames, <1>1 DEF PgUpdate, PgTransition, PgMove, PgRevoke, PgUpdateKey, Placed
    <3>2. ~PgReserve(c)
      BY PlaceNames, <1>1 DEF PgReserve, Placed
    <3>3. ~PgAppendBatch(c)
      BY PlaceNames, <1>1 DEF PgAppendBatch, Placed
    <3> QED
      BY <1>4, <3>1, <3>2, <3>3 DEF Postgres, PgSave, PgDelete, PgSaveAuthority, PgGc, PgAppend,
         PgLoad, PgList, PgLoadAuthority, PgListChildren, PgListBySubject, PgIsRevoked,
         PgGet, PgRead, PgLastSequence, PgVerify, PgListAudit
  <2>2. CASE PgFail(c)
    BY <1>a, <2>0, <2>2 DEF PgFail, AuditFails
  <2>3. CASE Doing(c, "audit") /\ Await(c, "hash", Len(db.audit)) /\ UNCHANGED db
    BY <1>a, <2>0, <2>3 DEF AuditReads
  <2>4. CASE /\ pc[c] = "hash" /\ UNCHANGED db
             /\ Await(c, "chain", AuditRow(call[c].record, mine[c] + 1,
                                      IF mine[c] = 0 THEN Genesis ELSE db.audit[mine[c]].hash))
    BY <1>a, <2>0, <2>4 DEF AuditReads, HashAt
  <2>5. CASE /\ pc[c] = "chain" /\ ~Taken(mine[c].seq)
             /\ db' = [db EXCEPT !.audit = Append(@, mine[c])] /\ Reply(c, mine[c])
    <3>1. PICK n \in 0 .. Len(db.audit) : mine[c] = AuditRow(call[c].record, n + 1, HashAt(db.audit, n))
      BY <1>1, <2>5 DEF ChainInv
    <3>2. mine[c].seq = n + 1
      BY <3>1 DEF AuditRow
    <3>3. n = Len(db.audit)
      BY <1>b, <2>5, <3>1, <3>2 DEF Taken
    <3>4. db'.audit = Append(db.audit, mine[c])
      BY <1>c, <2>5, KeepsButAudit
    <3> QED
      BY <1>a, <2>0, <2>5, <3>1, <3>3, <3>4 DEF AuditAppends
  <2>6. CASE pc[c] = "chain" /\ Tell(c, Error)
    BY <1>a, <2>0, <2>6 DEF AuditFails
  <2> QED
    BY <2>1, <2>2, <2>3, <2>4, <2>5, <2>6 DEF PgAudit
<1> QED
  BY <1>2, <1>3, <1>4 DEF Step

LEMMA BatchEnds ==
  ASSUME StoresSound, NEW c \in setting.clients, Step(c), setting.adapter = "sqlite",
         pc[c] \in {"batch", "undo"}
  PROVE  pc'[c] \in {"batch", "undo"} \/ begun' = <<>>
<1>1. c \in Clients
  BY StepMoves
<1>2. Sqlite(c)
  BY DEF Step
<1>3. SqlAppendBatch(c)
  BY <1>2 DEF Sqlite, SqlUpdate, Doing, SqlSave, SqlLoad, SqlTransition, SqlList, SqlDelete, SqlSaveAuthority,
     SqlLoadAuthority, SqlRevoke, SqlListChildren, SqlListBySubject, SqlIsRevoked, SqlReserve, SqlUpdateKey,
     SqlGet, SqlGc, SqlAppend, SqlRead, SqlLastSequence, SqlAudit, SqlVerify, SqlListAudit
<1>4. \A place, value : Await(c, place, value) => pc'[c] = place
  BY <1>1 DEF Await, StoresSound, CallsSound
<1> QED
  BY <1>3, <1>4 DEF SqlAppendBatch, Rollback, Doing

LEMMA VerifySteps ==
  ASSUME StoresSound, NEW c \in setting.clients, Step(c), call[c].op = "verify", Verified(db.audit)
  PROVE  answer'[c] # FALSE
<1>1. c \in Clients /\ Placed(c) /\ pc[c] \in Places
  BY StepMoves DEF StoresSound, CallsSound
<1>2. pc[c] \notin Within
  BY <1>1, PlaceNames DEF Placed
<1>3. \A value : Reply(c, value) => answer'[c] = value
  BY <1>1 DEF Reply, StoresSound, CallsSound
<1>4. Verified(db.audit) = TRUE
  BY DEF Verified
<1>5. Reply(c, Verified(db.audit)) \/ Reply(c, Error)
  <2> USE DEF Doing, Tell
  <2>1. CASE Memory(c)
    <3>1. ~MemAppendNext(c)
      BY <1>2, PlaceNames DEF MemAppendNext
    <3> QED
      BY <2>1, <3>1 DEF Memory, MemAppendBatch, MemSave, MemLoad, MemUpdate, MemTransition, MemList, MemDelete,
         MemSaveAuthority, MemLoadAuthority, MemRevoke, MemListChildren, MemListBySubject, MemIsRevoked,
         MemReserve, MemUpdateKey, MemGet, MemGc, MemAppend, MemRead, MemLastSequence, MemAudit, MemVerify,
         MemListAudit
  <2>2. CASE Sqlite(c)
    <3>1. ~SqlAppendBatch(c) /\ ~SqlUpdate(c)
      BY <1>2, PlaceNames DEF SqlAppendBatch, SqlUpdate
    <3> QED
      BY <2>2, <3>1 DEF Sqlite, SqlSave, SqlLoad, SqlTransition, SqlList, SqlDelete, SqlSaveAuthority,
         SqlLoadAuthority, SqlRevoke, SqlListChildren, SqlListBySubject, SqlIsRevoked, SqlReserve, SqlUpdateKey,
         SqlGet, SqlGc, SqlAppend, SqlRead, SqlLastSequence, SqlAudit, SqlVerify, SqlListAudit
  <2>3. CASE Postgres(c)
    <3>1. /\ ~PgUpdate(c) /\ ~PgTransition(c) /\ ~PgMove(c) /\ ~PgRevoke(c) /\ ~PgUpdateKey(c) /\ ~PgReserve(c)
      BY <1>2, PlaceNames DEF PgUpdate, PgTransition, PgMove, PgRevoke, PgUpdateKey, PgReserve
    <3>2. ~PgAppendBatch(c) /\ ~PgAudit(c)
      BY <1>2, PlaceNames DEF PgAppendBatch, PgAudit
    <3> QED
      BY <2>3, <3>1, <3>2 DEF Postgres, PgFail, PgSave, PgDelete, PgSaveAuthority, PgGc, PgAppend,
         PgLoad, PgList, PgLoadAuthority, PgListChildren, PgListBySubject, PgIsRevoked,
         PgGet, PgRead, PgLastSequence, PgVerify, PgListAudit
  <2> QED
    BY <2>1, <2>2, <2>3 DEF Step
<1> QED
  BY <1>3, <1>4, <1>5, AnswersAssumption

\* A step leaves the other calls where they are.
LEMMA OthersStay ==
  ASSUME StoresSound, NEW c \in setting.clients, Step(c)
  PROVE  /\ \A x \in Clients \ {c} : pc'[x] = pc[x] /\ answer'[x] = answer[x] /\ mine'[x] = mine[x]
         /\ \A x \in Clients : pc'[x] = "done" => x = c \/ pc[x] = "done"
         /\ pc[c] # "done" /\ exposed \subseteq exposed'
<1>1. Working(c) /\ (Answers(c) \/ Awaits(c, AwaitsOf[setting.adapter]))
  BY StepMoves
<1>2. "done" \notin Within
  BY PlaceNames
<1>3. exposed \subseteq exposed'
  BY DEF Step
<1> QED
  BY <1>1, <1>2, <1>3 DEF Working, Answers, Awaits, Reply, Await, StoresSound, CallsSound

\* What a step leaves of the chain, as it is and as a rollback would leave it.
ChainStays ==
  /\ IsChain(db'.audit)
  /\ begun' # <<>> => IsChain(begun'[1].audit)
  /\ \A e : (Recorded(e, db.audit) /\ (begun # <<>> => Recorded(e, begun[1].audit)))
             => Recorded(e, db'.audit) /\ (begun' # <<>> => Recorded(e, begun'[1].audit))
  /\ setting.adapter = "postgres" =>
       /\ Len(db.audit) \in Nat /\ Len(db'.audit) \in Nat /\ Len(db.audit) <= Len(db'.audit)
       /\ \A n \in 0 .. Len(db.audit) : HashAt(db'.audit, n) = HashAt(db.audit, n)

LEMMA ChainKept ==
  ASSUME ChainInv, setting.adapter # "postgres" \/ db'.audit = db.audit,
         db'.audit = db.audit \/ Undone,
         \/ begun' \in {begun, <<>>}
         \/ begun = <<>> /\ begun' = <<db>>
  PROVE  ChainStays
<1>1. IsChain(db.audit) /\ (begun # <<>> => IsChain(begun[1].audit))
  BY DEF ChainInv
<1>2. Len(db.audit) \in Nat
  BY <1>1, LastHash
<1>3. CASE db'.audit = db.audit
  <2>1. CASE begun' = begun
    BY <1>1, <1>2, <1>3, <2>1 DEF ChainStays
  <2>2. CASE begun' = <<>>
    BY <1>1, <1>2, <1>3, <2>2 DEF ChainStays
  <2>3. CASE begun = <<>> /\ begun' = <<db>>
    <3>1. begun'[1].audit = db.audit
      BY <2>3
    <3> QED
      BY <1>1, <1>2, <1>3, <2>3, <3>1 DEF ChainStays
  <2> QED
    BY <2>1, <2>2, <2>3
<1>4. CASE db'.audit # db.audit /\ Undone
  BY <1>1, <1>4 DEF ChainStays, Undone
<1> QED
  BY <1>3, <1>4

LEMMA ChainStepStays ==
  ASSUME StoresSound, ChainInv, NEW c \in setting.clients, Step(c)
  PROVE  ChainStays
<1>1. CASE call[c].op = "audit"
  <2>1. CASE AuditAppends(c)
    <3>1. IsChain(db.audit) /\ (begun # <<>> => IsChain(begun[1].audit)) /\ begun' = begun
      BY <2>1 DEF ChainInv, AuditAppends
    <3>2. /\ answer'[c] = AuditRow(call[c].record, Len(db.audit) + 1, HashAt(db.audit, Len(db.audit)))
          /\ db'.audit = Append(db.audit, answer'[c])
      BY <2>1 DEF AuditAppends
    <3>3. /\ IsChain(db'.audit) /\ Len(db'.audit) = Len(db.audit) + 1 /\ Len(db.audit) \in Nat
          /\ \A f : Recorded(f, db.audit) => Recorded(f, db'.audit)
          /\ \A n \in 0 .. Len(db.audit) : HashAt(db'.audit, n) = HashAt(db.audit, n)
      <4>1. Follows(answer'[c], db.audit)
        BY <3>2 DEF Follows
      <4> QED
        BY <3>1, <3>2, <4>1, ChainGrows DEF Grown
    <3> QED
      BY <3>1, <3>3 DEF ChainStays
  <2>2. CASE AuditFails(c) \/ AuditReads(c)
    BY <2>2, ChainKept DEF AuditFails, AuditReads
  <2> QED
    BY <1>1, <2>1, <2>2, AuditSteps
<1>2. CASE call[c].op # "audit"
  <2>1. db'.audit = db.audit \/ Undone
    BY <1>2, StepKeeps, WriterNames DEF Keeps
  <2>2. setting.adapter # "postgres" \/ db'.audit = db.audit
    BY <1>2, StepKeeps, WriterNames DEF Keeps
  <2>3. begun' \in {begun, <<>>} \/ (begun = <<>> /\ begun' = <<db>>)
    BY StepKeeps DEF Begins
  <2> QED
    BY <2>1, <2>2, <2>3, ChainKept
<1> QED
  BY <1>1, <1>2

\* What ChainInv says of one call.
ChainCall(c) ==
  /\ Answered(c, "verify") => answer[c] # FALSE
  /\ (Answered(c, "audit") /\ answer[c] # Error /\ c \notin exposed) =>
        Recorded(answer[c], db.audit) /\ (begun # <<>> => Recorded(answer[c], begun[1].audit))
  /\ pc[c] = "hash" => mine[c] \in 0 .. Len(db.audit)
  /\ pc[c] = "chain" => \E n \in 0 .. Len(db.audit) :
        mine[c] = AuditRow(call[c].record, n + 1, HashAt(db.audit, n))

LEMMA ChainCallKept ==
  ASSUME StoresSound, ChainInv, ChainStays, NEW x \in Clients, setting' = setting,
         pc'[x] = pc[x] \/ pc'[x] \in {"called", "died"},
         call'[x] = call[x] \/ pc'[x] = "called",
         answer'[x] = answer[x], mine'[x] = mine[x], exposed \subseteq exposed'
  PROVE  ChainCall(x)'
<1>1. CASE pc'[x] # pc[x] \/ call'[x] # call[x]
  BY <1>1 DEF ChainCall, Answered
<1>2. CASE pc'[x] = pc[x] /\ call'[x] = call[x]
  <2>1. Answered(x, "verify")' => answer'[x] # FALSE
    BY <1>2 DEF ChainInv, Answered
  <2>2. (Answered(x, "audit")' /\ answer'[x] # Error /\ x \notin exposed') =>
           Recorded(answer'[x], db'.audit) /\ (begun' # <<>> => Recorded(answer'[x], begun'[1].audit))
    BY <1>2 DEF ChainInv, Answered, ChainStays
  <2>3. pc[x] \in {"hash", "chain"} => setting.adapter = "postgres"
    <3>1. pc[x] \in {"hash", "chain"} => pc[x] \in AwaitsOf[setting.adapter]
      BY PlaceNames DEF StoresSound, CallsSound
    <3>2. setting.adapter \in {"memory", "sqlite", "postgres"}
      BY SettingsAssumption DEF StoresSound
    <3> QED
      BY <3>1, <3>2 DEF AwaitsOf
  <2>4. ASSUME pc'[x] = "hash" PROVE mine'[x] \in 0 .. Len(db'.audit)
    <3>1. mine[x] \in 0 .. Len(db.audit)
      BY <1>2, <2>4 DEF ChainInv
    <3>2. Len(db.audit) \in Nat /\ Len(db'.audit) \in Nat /\ Len(db.audit) <= Len(db'.audit)
      BY <1>2, <2>3, <2>4 DEF ChainStays
    <3> QED
      BY <3>1, <3>2
  <2>5. ASSUME pc'[x] = "chain"
        PROVE  \E n \in 0 .. Len(db'.audit) :
                 mine'[x] = AuditRow(call'[x].record, n + 1, HashAt(db'.audit, n))
    <3>1. PICK n \in 0 .. Len(db.audit) : mine[x] = AuditRow(call[x].record, n + 1, HashAt(db.audit, n))
      BY <1>2, <2>5 DEF ChainInv
    <3>2. n \in 0 .. Len(db'.audit) /\ HashAt(db'.audit, n) = HashAt(db.audit, n)
      BY <1>2, <2>3, <2>5 DEF ChainStays
    <3> QED
      BY <1>2, <3>1, <3>2
  <2> QED
    BY ONLY <2>1, <2>2, <2>4, <2>5 DEF ChainCall, Answered, Recorded
<1> QED
  BY <1>1, <1>2

LEMMA ChainCallStep ==
  ASSUME StoresSound, ChainInv, ChainStays, NEW c \in setting.clients, Step(c)
  PROVE  ChainCall(c)'
<1>1. c \in Clients /\ call' = call /\ setting' = setting
  BY StepMoves
<1>2. StoresSound'
  BY SoundStep DEF Next
<1>3. Placed(c)' /\ "done" \notin Within
  BY <1>1, <1>2, PlaceNames DEF StoresSound, CallsSound
<1>4. CASE call[c].op = "audit"
  <2>1. CASE AuditAppends(c)
    <3>1. IsChain(db.audit)
      BY DEF ChainInv
    <3>2. /\ answer'[c] = AuditRow(call[c].record, Len(db.audit) + 1, HashAt(db.audit, Len(db.audit)))
          /\ db'.audit = Append(db.audit, answer'[c]) /\ pc'[c] = "done" /\ begun' = begun
      BY <2>1 DEF AuditAppends
    <3>3. Recorded(answer'[c], db'.audit)
      BY <3>1, <3>2, ChainGrows DEF Follows, Grown
    <3>4. begun # <<>> => c \in exposed'
      <4>1. \A b \in Clients : pc[b] \in {"batch", "undo"} => b # c
        BY <1>4, PlaceNames, <1>1 DEF StoresSound, CallsSound, Placed
      <4>2. begun # <<>> => setting.adapter = "sqlite" /\ \E b \in Clients : pc[b] \in {"batch", "undo"}
        BY DEF ChainInv, StoresSound, TablesSound
      <4> QED
        BY <4>1, <4>2 DEF Step, BatchesOpen
    <3> QED
      BY <1>1, <1>4, <3>2, <3>3, <3>4 DEF ChainCall, Answered
  <2>2. CASE AuditFails(c)
    BY <1>1, <1>4, <2>2 DEF AuditFails, ChainCall, Answered
  <2>3. CASE AuditReads(c)
    <3>1. Len(db.audit) \in Nat /\ Len(db'.audit) = Len(db.audit) /\ db'.audit = db.audit
      BY <2>3, LastHash DEF ChainInv, AuditReads
    <3>2. CASE pc'[c] = "hash" /\ mine'[c] = Len(db.audit)
      BY <1>1, <1>4, <3>1, <3>2 DEF ChainCall, Answered
    <3>3. CASE /\ pc[c] = "hash" /\ pc'[c] = "chain"
               /\ mine'[c] = AuditRow(call[c].record, mine[c] + 1, HashAt(db.audit, mine[c]))
      <4>1. mine[c] \in 0 .. Len(db.audit)
        BY <1>1, <3>3 DEF ChainInv
      <4> QED
        BY <1>1, <1>4, <3>1, <3>3, <4>1 DEF ChainCall, Answered
    <3> QED
      BY <2>3, <3>2, <3>3 DEF AuditReads
  <2> QED
    BY <1>4, <2>1, <2>2, <2>3, AuditSteps
<1>5. CASE call[c].op # "audit"
  <2>1. pc'[c] \notin {"hash", "chain"}
    BY <1>1, <1>3, <1>5, PlaceNames DEF Placed
  <2>2. call[c].op = "verify" => answer'[c] # FALSE
    BY VerifySteps DEF ChainInv, IsChain
  <2> QED
    BY <1>1, <1>5, <2>1, <2>2 DEF ChainCall, Answered
<1> QED
  BY <1>4, <1>5

LEMMA ChainInit == Init => ChainInv
<1> SUFFICES ASSUME Init PROVE ChainInv
  OBVIOUS
<1>1. db.audit = <<>>
  <2>1. db = Tables(db.execution, db.authority)
    BY SettingsAssumption DEF Init
  <2> QED
    BY <2>1 DEF Tables
<1>2. IsChain(db.audit)
  BY <1>1, EmptySeq DEF IsChain, Verified
<1> QED
  BY <1>2 DEF Init, ChainInv, Answered

LEMMA ChainStep == StoresSound /\ ChainInv /\ [Next]_vars => ChainInv'
<1> SUFFICES ASSUME StoresSound, ChainInv, [Next]_vars PROVE ChainInv'
  OBVIOUS
<1>0. ChainInv <=> /\ IsChain(db.audit)
                   /\ begun # <<>> => IsChain(begun[1].audit)
                   /\ begun # <<>> => \E b \in Clients : pc[b] \in {"batch", "undo"}
                   /\ \A c \in Clients : ChainCall(c)
  BY DEF ChainInv, ChainCall
<1>a. ChainInv' <=> /\ IsChain(db'.audit)
                    /\ begun' # <<>> => IsChain(begun'[1].audit)
                    /\ begun' # <<>> => \E b \in Clients : pc'[b] \in {"batch", "undo"}
                    /\ \A c \in Clients : ChainCall(c)'
  BY DEF ChainInv, ChainCall, Answered
<1>1. CASE UNCHANGED vars
  BY <1>1 DEF vars, history, rows, calls, ChainInv, Answered
<1>2. ASSUME NEW c \in setting.clients, Step(c) PROVE ChainInv'
  <2>1. ChainStays
    BY <1>2, ChainStepStays
  <2>2. \A x \in Clients : ChainCall(x)'
    <3> SUFFICES ASSUME NEW x \in Clients PROVE ChainCall(x)'
      OBVIOUS
    <3>1. CASE x = c
      BY <1>2, <2>1, <3>1, ChainCallStep
    <3>2. CASE x # c
      BY <1>2, <2>1, <3>2, ChainCallKept, OthersStay, StepMoves
    <3> QED
      BY <3>1, <3>2
  <2>3. begun' # <<>> => \E b \in Clients : pc'[b] \in {"batch", "undo"}
    <3>1. CASE Begins(c)
      BY <1>2, <3>1, StepMoves DEF Begins
    <3>2. CASE begun' = begun /\ begun # <<>>
      <4>1. PICK b \in Clients : pc[b] \in {"batch", "undo"}
        BY <3>2 DEF ChainInv
      <4>2. setting.adapter = "sqlite"
        BY <3>2 DEF StoresSound, TablesSound
      <4> QED
        BY <1>2, <3>2, <4>1, <4>2, OthersStay, BatchEnds
    <3> QED
      BY <1>2, <3>1, <3>2, StepKeeps
  <2> QED
    BY <1>a, <2>1, <2>2, <2>3 DEF ChainStays
<1>3. ASSUME NEW c \in setting.clients, NEW k \in setting.calls, Invoke(c, k) PROVE ChainInv'
  <2>1. /\ db' = db /\ begun' = begun /\ setting' = setting /\ exposed' = exposed
        /\ \A x \in Clients : /\ pc'[x] = IF x = c THEN "called" ELSE pc[x]
                              /\ call'[x] = IF x = c THEN k ELSE call[x]
                              /\ answer'[x] = answer[x] /\ mine'[x] = mine[x]
        /\ pc[c] = "idle"
    BY <1>3 DEF Invoke, history, rows, StoresSound, CallsSound
  <2>2. ChainStays
    BY <2>1, ChainKept
  <2>3. \A x \in Clients : ChainCall(x)'
    BY <2>1, <2>2, ChainCallKept
  <2> QED
    BY <1>a, <2>1, <2>2, <2>3 DEF ChainStays, ChainInv
<1>4. CASE Crash
  <2>1. /\ setting.adapter = "sqlite" /\ setting' = setting /\ exposed' = exposed /\ begun' = <<>>
        /\ db' = db \/ Undone
        /\ \A x \in Clients : /\ pc'[x] = IF pc[x] \in {"idle", "done"} THEN pc[x] ELSE "died"
                              /\ call'[x] = call[x] /\ answer'[x] = answer[x] /\ mine'[x] = mine[x]
    BY <1>4 DEF Crash, history, SqlCrash, Rollback, Undone
  <2>2. ChainStays
    BY <2>1, ChainKept
  <2>3. \A x \in Clients : ChainCall(x)'
    BY <2>1, <2>2, ChainCallKept
  <2> QED
    BY <1>a, <2>1, <2>2, <2>3 DEF ChainStays
<1>5. CASE Tick
  BY <1>5 DEF Tick, history, rows, calls, ChainInv, Answered
<1> QED
  BY <1>1, <1>2, <1>3, <1>4, <1>5 DEF Next

\* Appends that race each other leave one chain that verifies, and each entry that
\* append() returned is in it at its place.
THEOREM ChainHolds == Spec => []ChainIsTrue
<1>1. ChainInv => ChainIsTrue
  BY DEF ChainInv, IsChain, ChainIsTrue, Recorded
<1> QED
  BY <1>1, SoundInit, SoundStep, ChainInit, ChainStep, PTL DEF Spec

------------------------------------------------------------------------------
(* The calls about executions.                                             *)

\* The state a record is in, if it is in one, is s.
Reaches(record, s) == HasState(record) /\ \A t : InState(record, t) => t = s

\* A step that writes the record of the call, and one that does not.
Records(c) ==
  /\ pc'[c] = "done" /\ begun' \in {begun, <<>>} /\ call[c].id \in ExecutionIds
  /\ setting.adapter = "postgres" => Free(c, {call[c].id})
  /\ \E row : /\ Write("execution", call[c].id, row) /\ HasState(row)
              /\ call[c].op = "delete" => row = None
              /\ call[c].op = "transition" =>
                   /\ InState(db.execution[call[c].id], call[c].from) /\ Reaches(row, LeadsTo(call[c]))
                   /\ begun' = <<>>
Waits(c) ==
  /\ db' = db \/ Undone
  /\ begun' \in {begun, <<>>}
  /\ \/ pc'[c] = "done" /\ (call[c].op = "transition" => answer'[c] = Error \/ ~answer'[c].success)
     \/ pc'[c] = "save" /\ HasState(mine'[c])
     \/ /\ pc'[c] = "move" /\ call[c].op = "transition" /\ db' = db
        /\ lock'[call[c].id] = c /\ InState(db.execution[call[c].id], call[c].from)
        /\ Reaches(mine'[c], LeadsTo(call[c]))

LEMMA MovedReaches ==
  ASSUME NEW k, NEW r, HasState(r), r # None
  PROVE  Reaches(Moved(r, k.to, k.patch), LeadsTo(k))
PROOF BY DEF HasState, Reaches, Moved, LeadsTo, InState, With

LEMMA PatchedHasState ==
  ASSUME NEW patch, NEW r, HasState(r), r # None
  PROVE  HasState(With(patch, r))
PROOF BY DEF HasState, With

\* What is read of an execution and written after an await: an update of a record
\* that was found, or a move under the lock on a record still in its first state.
RecordsInv ==
  /\ \A i \in ExecutionIds : HasState(db.execution[i])
  /\ begun # <<>> => \A i \in ExecutionIds : HasState(begun[1].execution[i])
  /\ \A c \in Clients :
       /\ pc[c] = "save" => HasState(mine[c])
       /\ pc[c] = "move" => /\ lock[call[c].id] = c
                            /\ InState(db.execution[call[c].id], call[c].from)
                            /\ Reaches(mine[c], LeadsTo(call[c]))

LEMMA ExecutionCalls ==
  ASSUME StoresSound, NEW c \in setting.clients, Step(c), call[c].op \in Writers["execution"]
  PROVE  /\ c \in Clients /\ call[c].id \in ExecutionIds /\ Shaped(db)
         /\ pc[c] = "save" => call[c].op = "update"
         /\ pc[c] = "move" => call[c].op = "transition"
         /\ \A value : Reply(c, value) => pc'[c] = "done" /\ answer'[c] = value
         /\ \A place, value : Await(c, place, value) => pc'[c] = place /\ mine'[c] = value
         /\ (call[c].op = "save" => HasState(call[c].record))
<1>1. c \in Clients /\ Placed(c) /\ pc[c] \in Places /\ Working(c)
  BY StepMoves DEF StoresSound, CallsSound
<1>2. call[c] \in setting.calls
  BY <1>1, PlaceNames DEF Working, StoresSound, CallsSound
<1>3. CallSound(call[c])
  BY <1>2, SettingsAssumption DEF StoresSound
<1>4. call[c].id \in ExecutionIds /\ (call[c].op = "save" => HasState(call[c].record))
  BY <1>3, WriterNames DEF CallSound, ExecutionOps
<1> QED
  BY <1>1, <1>4, PlaceNames DEF Placed, Reply, Await, StoresSound, CallsSound, TablesSound

LEMMA MemExecution ==
  ASSUME StoresSound, RecordsInv, NEW c \in setting.clients, Step(c), call[c].op \in Writers["execution"],
         setting.adapter = "memory"
  PROVE  Records(c) \/ Waits(c)
<1> USE ExecutionCalls, WriterNames DEF Doing, Tell
<1>1. Memory(c) /\ begun' = begun
  BY DEF Step, Memory
<1>2. MemSave(c) \/ MemUpdate(c) \/ MemTransition(c) \/ MemDelete(c)
  <2>1. ~MemAppendNext(c)
    BY PlaceNames, StepMoves DEF MemAppendNext, StoresSound, CallsSound, Placed
  <2> QED
    BY <1>1, <2>1 DEF Memory, MemAppendBatch, MemLoad, MemList, MemSaveAuthority,
       MemLoadAuthority, MemRevoke, MemListChildren, MemListBySubject, MemIsRevoked, MemReserve, MemUpdateKey,
       MemGet, MemGc, MemAppend, MemRead, MemLastSequence, MemAudit, MemVerify, MemListAudit
<1> DEFINE r == db.execution[call[c].id]
<1>r. HasState(r)
  BY DEF RecordsInv
<1> HIDE DEF r
<1>3. CASE MemSave(c)
  BY <1>1, <1>3 DEF MemSave, Records
<1>4. CASE MemDelete(c)
  BY <1>1, <1>4 DEF MemDelete, Records, HasState
<1>5. CASE MemUpdate(c)
  <2>1. CASE r # None
    <3>1. HasState(With(call[c].patch, r))
      BY <1>r, <2>1, PatchedHasState
    <3> QED
      BY <1>1, <1>5, <2>1, <3>1 DEF MemUpdate, Records, r
  <2>2. CASE r = None
    BY <1>1, <1>5, <2>2 DEF MemUpdate, Waits, r
  <2> QED
    BY <2>1, <2>2
<1>6. CASE MemTransition(c)
  <2>1. CASE InState(r, call[c].from)
    <3>1. Reaches(Moved(r, call[c].to, call[c].patch), LeadsTo(call[c]))
      BY <1>r, <2>1, MovedReaches DEF InState
    <3>2. begun' = <<>>
      BY <1>1 DEF StoresSound, TablesSound
    <3> QED
      BY <1>1, <1>6, <2>1, <3>1, <3>2 DEF MemTransition, Records, r, InState, Reaches
  <2>2. CASE ~InState(r, call[c].from)
    BY <1>1, <1>6, <2>2 DEF MemTransition, Waits, r, InState
  <2> QED
    BY <2>1, <2>2
<1> QED
  BY <1>2, <1>3, <1>4, <1>5, <1>6

LEMMA SqlExecution ==
  ASSUME StoresSound, RecordsInv, NEW c \in setting.clients, Step(c), call[c].op \in Writers["execution"],
         setting.adapter = "sqlite"
  PROVE  Records(c) \/ Waits(c)
<1> USE ExecutionCalls, WriterNames DEF Doing, Tell, Plain
<1>1. Sqlite(c)
  BY DEF Step
<1>2. SqlSave(c) \/ SqlUpdate(c) \/ SqlTransition(c) \/ SqlDelete(c)
  <2>1. ~SqlAppendBatch(c)
    BY PlaceNames, StepMoves DEF SqlAppendBatch, StoresSound, CallsSound, Placed
  <2> QED
    BY <1>1, <2>1 DEF Sqlite, SqlLoad, SqlList, SqlSaveAuthority,
       SqlLoadAuthority, SqlRevoke, SqlListChildren, SqlListBySubject, SqlIsRevoked, SqlReserve, SqlUpdateKey,
       SqlGet, SqlGc, SqlAppend, SqlRead, SqlLastSequence, SqlAudit, SqlVerify, SqlListAudit
<1> DEFINE r == db.execution[call[c].id]
<1>r. HasState(r)
  BY DEF RecordsInv
<1> HIDE DEF r
<1>u. Rollback => (db' = db \/ Undone) /\ begun' = <<>>
  BY DEF Rollback, Undone
<1>3. CASE SqlSave(c)
  BY <1>3 DEF SqlSave, Records
<1>4. CASE SqlDelete(c)
  BY <1>4 DEF SqlDelete, Records, HasState
<1>5. CASE SqlUpdate(c)
  <2>1. CASE Doing(c, "update") /\ r # None
    <3>1. HasState(With(call[c].patch, r))
      BY <1>r, <2>1, PatchedHasState
    <3>2. ~(pc[c] = "save")
      BY <2>1
    <3> QED
      BY <1>5, <2>1, <3>1, <3>2 DEF SqlUpdate, Waits, r
  <2>2. CASE Doing(c, "update") /\ r = None
    BY <1>5, <2>2 DEF SqlUpdate, Waits, r
  <2>3. CASE pc[c] = "save"
    <3>1. HasState(mine[c]) /\ call[c].op = "update"
      BY <2>3 DEF RecordsInv
    <3> QED
      BY <1>5, <2>3, <3>1 DEF SqlUpdate, Records
  <2> QED
    BY <1>5, <2>1, <2>2, <2>3 DEF SqlUpdate
<1>6. CASE SqlTransition(c)
  <2>1. CASE InState(r, call[c].from)
    <3> DEFINE row == Moved(r, call[c].to, call[c].patch)
    <3>1. Reaches(row, LeadsTo(call[c]))
      BY <1>r, <2>1, MovedReaches DEF InState
    <3>2. /\ Commit([db EXCEPT !.execution[call[c].id] = row]) /\ pc'[c] = "done"
          /\ call[c].op = "transition"
      BY <1>6, <2>1 DEF SqlTransition, r, InState
    <3> HIDE DEF row
    <3>3. Write("execution", call[c].id, row) /\ begun' = <<>>
      BY <3>2 DEF Commit, Write
    <3> QED
      BY <2>1, <3>1, <3>2, <3>3 DEF Records, r, Reaches
  <2>2. CASE ~InState(r, call[c].from)
    BY <1>u, <1>6, <2>2 DEF SqlTransition, Waits, r, InState
  <2> QED
    BY <2>1, <2>2
<1> QED
  BY <1>2, <1>3, <1>4, <1>5, <1>6

LEMMA PgExecution ==
  ASSUME StoresSound, RecordsInv, NEW c \in setting.clients, Step(c), call[c].op \in Writers["execution"],
         setting.adapter = "postgres"
  PROVE  Records(c) \/ Waits(c)
<1> USE ExecutionCalls, WriterNames DEF Doing, Tell
<1>1. Postgres(c) /\ begun' = begun
  BY DEF Step, Postgres
<1>2. PgSave(c) \/ PgUpdate(c) \/ PgTransition(c) \/ PgMove(c) \/ PgDelete(c) \/ PgFail(c)
  <2>1. /\ ~PgRevoke(c) /\ ~PgUpdateKey(c) /\ ~PgReserve(c) /\ ~PgAppendBatch(c) /\ ~PgAudit(c)
    <3>1. Placed(c)
      BY StepMoves DEF StoresSound, CallsSound
    <3> QED
      <4>1. call[c].op \in {"save", "update", "transition", "delete"}
        BY WriterNames
      <4>2. pc[c] \notin {"record", "cascade", "strike", "note", "end", "patch", "insert", "commit", "again",
                       "batch", "undo", "hash", "chain"}
        BY ONLY <3>1, <4>1, PlaceNames DEF Placed
      <4> QED
        BY ONLY <4>1, <4>2 DEF PgRevoke, PgUpdateKey, PgReserve, PgAppendBatch, PgAudit, Doing
  <2> QED
    BY <1>1, <2>1 DEF Postgres, PgSaveAuthority, PgGc, PgAppend,
       PgLoad, PgList, PgLoadAuthority, PgListChildren, PgListBySubject, PgIsRevoked,
       PgGet, PgRead, PgLastSequence, PgVerify, PgListAudit
<1> DEFINE r == db.execution[call[c].id]
<1>r. HasState(r)
  BY DEF RecordsInv
<1> HIDE DEF r
<1>3. CASE PgSave(c)
  BY <1>1, <1>3 DEF PgSave, Records
<1>4. CASE PgDelete(c)
  BY <1>1, <1>4 DEF PgDelete, Records, HasState
<1>5. CASE PgUpdate(c)
  <2>1. CASE Doing(c, "update") /\ r # None
    <3>1. HasState(With(call[c].patch, r))
      BY <1>r, <2>1, PatchedHasState
    <3>2. ~(pc[c] = "save")
      BY <2>1
    <3> QED
      BY <1>1, <1>5, <2>1, <3>1, <3>2 DEF PgUpdate, Waits, r
  <2>2. CASE Doing(c, "update") /\ r = None
    BY <1>1, <1>5, <2>2 DEF PgUpdate, Waits, r
  <2>3. CASE pc[c] = "save"
    <3>1. HasState(mine[c]) /\ call[c].op = "update"
      BY <2>3 DEF RecordsInv
    <3> QED
      BY <1>1, <1>5, <2>3, <3>1 DEF PgUpdate, Records
  <2> QED
    BY <1>5, <2>1, <2>2, <2>3 DEF PgUpdate
<1>6. CASE PgTransition(c)
  <2>1. CASE InState(r, call[c].from)
    <3>1. Reaches(Moved(r, call[c].to, call[c].patch), LeadsTo(call[c]))
      BY <1>r, <2>1, MovedReaches DEF InState
    <3>2. lock'[call[c].id] = c
      BY <1>6, <2>1 DEF PgTransition, Take, r, StoresSound, TablesSound, LockRows
    <3> QED
      BY <1>1, <1>6, <2>1, <3>1, <3>2 DEF PgTransition, Waits, r
  <2>2. CASE ~InState(r, call[c].from)
    BY <1>1, <1>6, <2>2 DEF PgTransition, Waits, r
  <2> QED
    BY <2>1, <2>2
<1>7. CASE PgMove(c)
  <2>1. InState(r, call[c].from) /\ Reaches(mine[c], LeadsTo(call[c])) /\ call[c].op = "transition"
    BY <1>7 DEF PgMove, RecordsInv, r
  <2>2. Write("execution", call[c].id, mine[c]) /\ Free(c, {call[c].id}) /\ pc'[c] = "done"
    BY <1>7, <2>1 DEF PgMove, r
  <2>3. begun' = <<>>
    BY <1>1 DEF StoresSound, TablesSound
  <2> QED
    BY <1>1, <2>1, <2>2, <2>3 DEF Records, r, Reaches
<1>8. CASE PgFail(c)
  BY <1>1, <1>8 DEF PgFail, Waits
<1> QED
  BY <1>2, <1>3, <1>4, <1>5, <1>6, <1>7, <1>8

LEMMA ExecutionSteps ==
  ASSUME StoresSound, RecordsInv, NEW c \in setting.clients, Step(c), call[c].op \in Writers["execution"]
  PROVE  Records(c) \/ Waits(c)
<1>1. setting.adapter \in {"memory", "sqlite", "postgres"}
  BY SettingsAssumption DEF StoresSound
<1> QED
  BY <1>1, MemExecution, SqlExecution, PgExecution

\* A row that a transaction locks stays locked until its call ends it.
LEMMA LocksStay ==
  ASSUME StoresSound, NEW c \in setting.clients, Step(c), NEW x \in Clients, x # c,
         NEW i \in LockRows, lock[i] = x
  PROVE  lock'[i] = x
<1>0. lock \in [LockRows -> Clients \cup {None}] /\ x # None /\ c \in Clients
  BY AnswersAssumption, StepMoves DEF StoresSound, TablesSound
<1>1. CASE Memory(c) \/ Sqlite(c)
  BY <1>1 DEF Memory, Sqlite
<1>2. CASE Postgres(c)
  <2>1. lock' = lock \/ Release(c) \/ \E ids : Free(c, ids) /\ Take(c, ids)
    <3> USE DEF NoLocks
    <3>1. CASE \/ PgSave(c) \/ PgUpdate(c) \/ PgTransition(c) \/ PgMove(c) \/ PgDelete(c)
      BY <3>1 DEF PgSave, PgUpdate, PgTransition, PgMove, PgDelete
    <3>2. CASE PgSaveAuthority(c) \/ PgRevoke(c) \/ PgUpdateKey(c) \/ PgGc(c)
      BY <3>2 DEF PgSaveAuthority, PgRevoke, PgUpdateKey, PgGc
    <3>3. CASE PgReserve(c)
      BY <3>3 DEF PgReserve
    <3>4. CASE PgAppend(c) \/ PgAppendBatch(c)
      BY <3>4 DEF PgAppend, PgAppendBatch, PgInsertEvent
    <3>5. CASE PgAudit(c) \/ PgFail(c)
      BY <3>5 DEF PgAudit, PgFail
    <3> QED
      BY <1>2, <3>1, <3>2, <3>3, <3>4, <3>5 DEF Postgres
  <2> QED
    BY <1>0, <2>1 DEF Release, Take, Free
<1> QED
  BY <1>1, <1>2 DEF Step

\* What a step leaves of the execution i, seen from another call.
LEMMA ExecutionStays ==
  ASSUME StoresSound, RecordsInv, NEW c \in setting.clients, Step(c), NEW i \in ExecutionIds
  PROVE  \/ db'.execution[i] = db.execution[i]
         \/ Undone
         \/ Records(c) /\ call[c].id = i /\ call[c].op \in Writers["execution"]
            /\ Write("execution", i, db'.execution[i])
<1>1. CASE call[c].op \notin Writers["execution"]
  BY <1>1, StepKeeps, WriterNames DEF Keeps
<1>2. CASE call[c].op \in Writers["execution"] /\ Waits(c)
  BY <1>2 DEF Waits
<1>3. CASE call[c].op \in Writers["execution"] /\ Records(c)
  <2>1. PICK row : Write("execution", call[c].id, row)
    BY <1>3 DEF Records
  <2>2. \A j \in ExecutionIds : db'.execution[j] = IF j = call[c].id THEN row ELSE db.execution[j]
    BY <1>3, <2>1, KeepsButExecution DEF StoresSound, TablesSound
  <2> QED
    BY <1>3, <2>1, <2>2
<1> QED
  BY <1>1, <1>2, <1>3, ExecutionSteps

LEMMA RecordsRow ==
  ASSUME StoresSound, NEW c, Records(c)
  PROVE  LET row == db'.execution[call[c].id] IN
         /\ HasState(row)
         /\ call[c].op = "delete" => row = None
         /\ call[c].op = "transition" =>
              /\ InState(db.execution[call[c].id], call[c].from) /\ Reaches(row, LeadsTo(call[c]))
              /\ begun' = <<>>
<1>1. PICK row : /\ Write("execution", call[c].id, row) /\ HasState(row)
                 /\ call[c].op = "delete" => row = None
                 /\ call[c].op = "transition" =>
                      /\ InState(db.execution[call[c].id], call[c].from) /\ Reaches(row, LeadsTo(call[c]))
                      /\ begun' = <<>>
  BY DEF Records
<1>2. db'.execution[call[c].id] = row
  <2>1. call[c].id \in ExecutionIds /\ Shaped(db)
    BY DEF Records, StoresSound, TablesSound
  <2> QED
    BY <1>1, <2>1 DEF Write, Shaped, TableNames
<1> QED
  BY <1>1, <1>2

LEMMA MoveCalls ==
  ASSUME StoresSound, NEW x \in Clients, pc[x] = "move"
  PROVE  setting.adapter = "postgres" /\ call[x].op = "transition" /\ call[x].id \in ExecutionIds
<1>1. pc[x] \in AwaitsOf[setting.adapter] /\ call[x].op = "transition" /\ call[x] \in setting.calls
  BY PlaceNames DEF StoresSound, CallsSound, Placed
<1>2. setting.adapter = "postgres"
  <2>1. setting.adapter \in {"memory", "sqlite", "postgres"}
    BY SettingsAssumption DEF StoresSound
  <2> QED
    BY <1>1, <2>1 DEF AwaitsOf
<1> QED
  BY <1>1, <1>2, SettingsAssumption DEF StoresSound, CallSound, ExecutionOps

LEMMA RecordsInit == Init => RecordsInv
<1> SUFFICES ASSUME Init PROVE RecordsInv
  OBVIOUS
<1>1. \A i \in ExecutionIds : HasState(db.execution[i])
  BY SettingsAssumption DEF Init
<1> QED
  BY <1>1 DEF Init, RecordsInv

LEMMA RecordsStep ==
  ASSUME StoresSound, RecordsInv, NEW c \in setting.clients, Step(c)
  PROVE  RecordsInv'
<1>1. \A i \in ExecutionIds : HasState(db'.execution[i])
  <2> SUFFICES ASSUME NEW i \in ExecutionIds PROVE HasState(db'.execution[i])
    OBVIOUS
  <2>1. CASE db'.execution[i] = db.execution[i] \/ Undone
    BY <2>1 DEF RecordsInv, Undone
  <2>2. CASE Records(c) /\ call[c].id = i
    BY <2>2, RecordsRow
  <2> QED
    BY <2>1, <2>2, ExecutionStays
<1>2. begun' # <<>> => \A i \in ExecutionIds : HasState(begun'[1].execution[i])
  BY StepKeeps DEF RecordsInv, Begins
<1>3. StoresSound' /\ call' = call /\ setting' = setting /\ c \in Clients
  BY SoundStep, StepMoves DEF Next
<1>4. ASSUME NEW x \in Clients, pc'[x] = "save" PROVE HasState(mine'[x])
  <2>1. CASE x = c
    <3>1. call[c].op \in Writers["execution"]
      BY <1>3, <1>4, <2>1, WriterNames, PlaceNames DEF StoresSound, CallsSound, Placed
    <3> QED
      BY <1>4, <2>1, <3>1, ExecutionSteps DEF Records, Waits
  <2>2. CASE x # c
    BY <1>4, <2>2, OthersStay DEF RecordsInv
  <2> QED
    BY <2>1, <2>2
<1>5. ASSUME NEW x \in Clients, pc'[x] = "move"
      PROVE  /\ lock'[call[x].id] = x /\ InState(db'.execution[call[x].id], call[x].from)
             /\ Reaches(mine'[x], LeadsTo(call[x]))
  <2>1. CASE x = c
    <3>1. call[c].op \in Writers["execution"]
      BY <1>3, <1>5, <2>1, WriterNames, PlaceNames DEF StoresSound, CallsSound, Placed
    <3> QED
      BY <1>5, <2>1, <3>1, ExecutionSteps DEF Records, Waits
  <2>2. CASE x # c
    <3>1. pc[x] = "move" /\ mine'[x] = mine[x]
      BY <1>5, <2>2, OthersStay
    <3>2. setting.adapter = "postgres" /\ call[x].id \in ExecutionIds
      BY <3>1, MoveCalls
    <3>3. /\ lock[call[x].id] = x /\ InState(db.execution[call[x].id], call[x].from)
          /\ Reaches(mine[x], LeadsTo(call[x]))
      BY <3>1 DEF RecordsInv
    <3>4. lock'[call[x].id] = x
      BY <2>2, <3>2, <3>3, LocksStay DEF LockRows
    <3>5. ~(Records(c) /\ call[c].id = call[x].id)
      BY <2>2, <3>2, <3>3, AnswersAssumption DEF Records, Free
    <3>6. ~Undone
      BY <3>2 DEF Undone, StoresSound, TablesSound
    <3> QED
      BY <3>1, <3>2, <3>3, <3>4, <3>5, <3>6, ExecutionStays
  <2> QED
    BY <2>1, <2>2
<1> QED
  BY <1>1, <1>2, <1>3, <1>4, <1>5 DEF RecordsInv

\* No call but the ones counted leads the execution id into state s.
Quiet(id, s) ==
  \A k \in Clients :
    (call[k].op \in {"save", "update"} \/ (call[k].op = "transition" /\ LeadsTo(call[k]) = s))
      => call[k].id # id
Succeeded(c) == Answered(c, "transition") /\ answer[c] # Error /\ answer[c].success
Gone(tables, c) == ~InState(tables.execution[call[c].id], call[c].from)
Alone(c) ==
  \A d \in Clients \ {c} : (Succeeded(d) /\ call[d].id = call[c].id) => call[d].from # call[c].from

\* Where a transition succeeded, the record has left the state it started from, as it is
\* and as a rollback would leave it.
MovedInv ==
  \A c \in Clients :
    (Succeeded(c) /\ Quiet(call[c].id, call[c].from))
      => Gone(db, c) /\ (begun # <<>> => Gone(begun[1], c)) /\ Alone(c)

LEMMA MovedStep ==
  ASSUME StoresSound, RecordsInv, MovedInv, NEW c \in setting.clients, Step(c)
  PROVE  MovedInv'
<1>1. call' = call /\ c \in Clients /\ setting' = setting
  BY StepMoves
<1>2. \A id, s : Quiet(id, s)' <=> Quiet(id, s)
  BY <1>1 DEF Quiet
<1>3. \A x \in Clients \ {c} : Succeeded(x)' <=> Succeeded(x)
  BY <1>1, OthersStay DEF Succeeded, Answered
<1>4. Succeeded(c)' => /\ Records(c) /\ call[c].op = "transition" /\ ~Gone(db, c) /\ begun' = <<>>
                       /\ Reaches(db'.execution[call[c].id], LeadsTo(call[c]))
  <2> SUFFICES ASSUME Succeeded(c)'
               PROVE  /\ Records(c) /\ call[c].op = "transition" /\ ~Gone(db, c) /\ begun' = <<>>
                      /\ Reaches(db'.execution[call[c].id], LeadsTo(call[c]))
    OBVIOUS
  <2>1. call[c].op = "transition" /\ pc'[c] = "done" /\ answer'[c] # Error /\ answer'[c].success
    BY <1>1 DEF Succeeded, Answered
  <2>2. Records(c)
    BY <2>1, ExecutionSteps, WriterNames DEF Waits
  <2> QED
    BY <2>1, <2>2, RecordsRow DEF Gone
<1>5. ASSUME NEW x \in Clients, Succeeded(x)', Quiet(call[x].id, call[x].from)'
      PROVE  Gone(db, x)' /\ (begun' # <<>> => Gone(begun[1], x)') /\ Alone(x)'
  <2>q. Quiet(call[x].id, call[x].from)
    BY <1>1, <1>2, <1>5
  <2>1. CASE x = c
    <3>1. LeadsTo(call[c]) # call[c].from
      BY <1>1, <1>4, <1>5, <2>1, <2>q DEF Quiet
    <3>2. Gone(db, c)'
      BY <1>1, <1>4, <1>5, <2>1, <3>1 DEF Gone, Reaches
    <3>3. Alone(c)'
      <4> SUFFICES ASSUME NEW d \in Clients, d # c, Succeeded(d), call[d].id = call[c].id,
                          call[d].from = call[c].from
                   PROVE  FALSE
        BY <1>1, <1>3 DEF Alone
      <4>1. Gone(db, d)
        BY <2>1, <2>q DEF MovedInv
      <4> QED
        BY <1>4, <1>5, <2>1, <4>1 DEF Gone
    <3> QED
      BY <1>4, <1>5, <2>1, <3>2, <3>3
  <2>2. CASE x # c
    <3>1. Gone(db, x) /\ (begun # <<>> => Gone(begun[1], x)) /\ Alone(x) /\ Succeeded(x)
      BY <1>3, <1>5, <2>2, <2>q DEF MovedInv
    <3>2. call[x].id \in ExecutionIds
      <4>1. call[x] \in setting.calls /\ call[x].op = "transition"
        BY <3>1 DEF Succeeded, Answered, StoresSound, CallsSound
      <4> QED
        BY <4>1, SettingsAssumption DEF StoresSound, CallSound, ExecutionOps
    <3>3. Gone(db, x)'
      <4>1. CASE db'.execution[call[x].id] = db.execution[call[x].id]
        BY <1>1, <3>1, <4>1 DEF Gone
      <4>2. CASE Undone
        BY <1>1, <3>1, <4>2 DEF Gone, Undone
      <4>3. CASE Records(c) /\ call[c].id = call[x].id /\ call[c].op \in Writers["execution"]
        <5>1. CASE call[c].op = "transition"
          <6>1. LeadsTo(call[c]) # call[x].from
            BY <1>1, <2>q, <4>3, <5>1 DEF Quiet
          <6> QED
            BY <1>1, <4>3, <5>1, <6>1, RecordsRow DEF Gone, Reaches
        <5>2. CASE call[c].op = "delete"
          BY <1>1, <4>3, <5>2, RecordsRow DEF Gone, InState
        <5>3. CASE call[c].op \in {"save", "update"}
          BY <1>1, <2>q, <4>3, <5>3 DEF Quiet
        <5> QED
          BY <4>3, <5>1, <5>2, <5>3, WriterNames
      <4> QED
        BY <3>2, <4>1, <4>2, <4>3, ExecutionStays
    <3>4. begun' # <<>> => Gone(begun[1], x)'
      BY <1>1, <3>1, StepKeeps DEF Gone, Begins
    <3>5. Alone(x)'
      <4> SUFFICES ASSUME NEW d \in Clients, d # x, Succeeded(d)', call[d].id = call[x].id,
                          call[d].from = call[x].from
                   PROVE  FALSE
        BY <1>1 DEF Alone
      <4>1. CASE d = c
        BY <1>4, <3>1, <4>1 DEF Gone
      <4>2. CASE d # c
        BY <1>3, <3>1, <4>2 DEF Alone
      <4> QED
        BY <4>1, <4>2
    <3> QED
      BY <3>3, <3>4, <3>5
  <2> QED
    BY <2>1, <2>2
<1> QED
  BY <1>5 DEF MovedInv

\* A step in which no call answers and the tables stay as they are, or are rolled back.
LEMMA MovedKept ==
  ASSUME MovedInv, db' = db \/ Undone, begun' \in {begun, <<>>},
         \A x \in Clients : Succeeded(x)' => Succeeded(x) /\ call'[x] = call[x],
         \A id, s : Quiet(id, s)' => Quiet(id, s)
  PROVE  MovedInv'
<1> SUFFICES ASSUME NEW x \in Clients, Succeeded(x)', Quiet(call[x].id, call[x].from)'
             PROVE  Gone(db, x)' /\ (begun' # <<>> => Gone(begun[1], x)') /\ Alone(x)'
  BY DEF MovedInv
<1>1. Succeeded(x) /\ call'[x] = call[x] /\ Quiet(call[x].id, call[x].from)
  OBVIOUS
<1>2. Gone(db, x) /\ (begun # <<>> => Gone(begun[1], x)) /\ Alone(x)
  BY <1>1 DEF MovedInv
<1>3. Alone(x)'
  BY <1>1, <1>2 DEF Alone
<1> QED
  BY <1>1, <1>2, <1>3 DEF Gone, Undone

LEMMA MovesInit == Init => MovedInv
PROOF BY DEF Init, MovedInv, Succeeded, Answered

LEMMA MovesStep == StoresSound /\ RecordsInv /\ MovedInv /\ [Next]_vars => RecordsInv' /\ MovedInv'
<1> SUFFICES ASSUME StoresSound, RecordsInv, MovedInv, [Next]_vars PROVE RecordsInv' /\ MovedInv'
  OBVIOUS
<1>1. CASE UNCHANGED <<db, begun, lock, pc, call, answer, mine>>
  <2>1. RecordsInv'
    BY <1>1 DEF RecordsInv
  <2>2. MovedInv'
    BY <1>1, MovedKept DEF Succeeded, Answered, Quiet
  <2> QED
    BY <2>1, <2>2
<1>2. ASSUME NEW c \in setting.clients, Step(c) PROVE RecordsInv' /\ MovedInv'
  BY <1>2, RecordsStep, MovedStep
<1>3. ASSUME NEW c \in setting.clients, NEW k \in setting.calls, Invoke(c, k)
      PROVE  RecordsInv' /\ MovedInv'
  <2>1. /\ db' = db /\ begun' = begun /\ lock' = lock /\ c \in Clients
        /\ \A x \in Clients : /\ pc'[x] = IF x = c THEN "called" ELSE pc[x]
                              /\ call'[x] = IF x = c THEN k ELSE call[x]
                              /\ answer'[x] = answer[x] /\ mine'[x] = mine[x]
        /\ pc[c] = "idle" /\ call[c] = NoCall
    BY <1>3, SettingsAssumption DEF Invoke, history, rows, StoresSound, CallsSound
  <2>2. RecordsInv'
    BY <2>1 DEF RecordsInv
  <2>3. \A id, s : Quiet(id, s)' => Quiet(id, s)
    BY <2>1 DEF Quiet, NoCall
  <2>4. \A x \in Clients : Succeeded(x)' => Succeeded(x) /\ call'[x] = call[x]
    BY <2>1 DEF Succeeded, Answered
  <2> QED
    BY <2>1, <2>2, <2>3, <2>4, MovedKept
<1>4. CASE Crash
  <2>1. /\ begun' = <<>>
        /\ db' = db \/ Undone
        /\ \A x \in Clients : /\ pc'[x] = IF pc[x] \in {"idle", "done"} THEN pc[x] ELSE "died"
                              /\ call'[x] = call[x] /\ answer'[x] = answer[x] /\ mine'[x] = mine[x]
    BY <1>4 DEF Crash, history, SqlCrash, Rollback, Undone
  <2>2. RecordsInv'
    BY <2>1 DEF RecordsInv, Undone
  <2>3. \A id, s : Quiet(id, s)' => Quiet(id, s)
    BY <2>1 DEF Quiet
  <2>4. \A x \in Clients : Succeeded(x)' => Succeeded(x) /\ call'[x] = call[x]
    BY <2>1 DEF Succeeded, Answered
  <2> QED
    BY <2>1, <2>2, <2>3, <2>4, MovedKept
<1> QED
  BY <1>1, <1>2, <1>3, <1>4 DEF Next, Tick, history, vars, rows, calls

\* Of two transitions that start from one state of a record, one succeeds.
THEOREM TransitionsExclude == Spec => []TransitionsExclusive
<1>1. StoresSound /\ MovedInv => TransitionsExclusive
  <2> SUFFICES ASSUME MovedInv, NEW c \in Clients, NEW d \in Clients, c # d, Succeeded(c), Succeeded(d),
                      call[c].id = call[d].id, call[c].from = call[d].from
               PROVE  ~Quiet(call[c].id, call[c].from)
    BY DEF TransitionsExclusive, Succeeded, Quiet
  <2> QED
    BY DEF MovedInv, Alone
<1> QED
  BY <1>1, SoundInit, SoundStep, RecordsInit, MovesInit, MovesStep, PTL DEF Spec

------------------------------------------------------------------------------
(* The calls about keys.                                                   *)

EntrySound(entry) == "expires" \in DOMAIN entry /\ entry.expires \in Nat

\* In memory the row is its entry.
RowSound(row) ==
  /\ row.until \in Nat
  /\ setting.adapter = "memory" => "expires" \in DOMAIN row.entry /\ row.entry.expires = row.until

\* A step that creates a key, one that changes the entry of one, one that removes keys
\* that expired, and one that does none of this.
Creates(c) ==
  /\ call[c].op = "reserve" /\ pc'[c] = "done" /\ begun' = <<>> /\ ~Live(call[c].scope)
  /\ setting.adapter = "postgres" => lock[call[c].scope] = c
  /\ \E entry : /\ EntrySound(entry) /\ db' = WithKey(call[c].scope, KeyRow(entry))
                /\ answer'[c] = Claim(TRUE, entry)
Renews(c) ==
  /\ call[c].op = "updateKey" /\ pc'[c] = "done" /\ begun' = begun /\ call[c].scope \in DOMAIN db.key
  /\ \E row : /\ db' = WithKey(call[c].scope, row) /\ RowSound(row)
              /\ row.until = db.key[call[c].scope].until
Clears(c) ==
  /\ call[c].op \in {"get", "gc"} /\ pc'[c] = "done" /\ begun' = begun
  /\ \E gone \in SUBSET Expired : db' = WithoutKeys(gone)
Looks(c) ==
  /\ db' = db \/ Undone
  /\ begun' \in {begun, <<>>}
  /\ \/ pc'[c] = "done" /\ (call[c].op = "reserve" => answer'[c] = Error \/ ~answer'[c].created)
     \/ pc'[c] = "insert" /\ EntrySound(mine'[c])
     \/ pc'[c] \in {"again", "patch"}
     \/ /\ pc'[c] = "commit" /\ db' = db /\ call[c].op = "reserve" /\ EntrySound(mine'[c])
        /\ lock'[call[c].scope] = c /\ call[c].scope \notin DOMAIN db.key

\* What a PostgreSQL reservation holds between its INSERT and its COMMIT.
KeysInv ==
  /\ \A s \in DOMAIN db.key : RowSound(db.key[s])
  /\ begun # <<>> => \A s \in DOMAIN begun[1].key : RowSound(begun[1].key[s])
  /\ \A c \in Clients :
       /\ pc[c] \in {"insert", "commit"} => EntrySound(mine[c])
       /\ pc[c] = "commit" => lock[call[c].scope] = c /\ call[c].scope \notin DOMAIN db.key

LEMMA KeyCalls ==
  ASSUME StoresSound, NEW c \in setting.clients, Step(c), call[c].op \in Writers["key"]
  PROVE  /\ c \in Clients /\ Shaped(db) /\ now \in Nat
         /\ pc[c] \notin {"save", "move", "record", "cascade", "strike", "note", "end",
                         "batch", "undo", "hash", "chain"}
         /\ pc[c] \in {"insert", "commit", "again"} => call[c].op = "reserve"
         /\ pc[c] = "patch" => call[c].op = "updateKey"
         /\ \A value : Reply(c, value) => pc'[c] = "done" /\ answer'[c] = value
         /\ \A place, value : Await(c, place, value) => pc'[c] = place /\ mine'[c] = value
         /\ call[c].op = "reserve" =>
              /\ call[c].scope \in Scopes
              /\ EntrySound([call[c].entry EXCEPT !.expires = now + call[c].ttl])
         /\ call[c].op = "updateKey" => "expires" \notin DOMAIN call[c].patch
<1>1. c \in Clients /\ Placed(c) /\ pc[c] \in Places /\ Working(c) /\ now \in Nat
  BY StepMoves DEF StoresSound, CallsSound
<1>2. call[c] \in setting.calls
  BY <1>1, PlaceNames DEF Working, StoresSound, CallsSound
<1>3. CallSound(call[c])
  BY <1>2, SettingsAssumption DEF StoresSound
<1>4. /\ call[c].op = "updateKey" => "expires" \notin DOMAIN call[c].patch
      /\ call[c].op = "reserve" => call[c].scope \in Scopes
  BY <1>3 DEF CallSound
<1>5. call[c].op = "reserve" => EntrySound([call[c].entry EXCEPT !.expires = now + call[c].ttl])
  <2>1. call[c].op = "reserve" => "expires" \in DOMAIN call[c].entry /\ call[c].ttl \in Nat
    BY <1>3 DEF CallSound
  <2> QED
    BY <1>1, <2>1 DEF EntrySound
<1>6. /\ pc[c] \notin {"save", "move", "record", "cascade", "strike", "note", "end",
                      "batch", "undo", "hash", "chain"}
      /\ pc[c] \in {"insert", "commit", "again"} => call[c].op = "reserve"
      /\ pc[c] = "patch" => call[c].op = "updateKey"
  BY <1>1, WriterNames, PlaceNames DEF Placed
<1> QED
  BY <1>1, <1>4, <1>5, <1>6 DEF Reply, Await, StoresSound, CallsSound, TablesSound

LEMMA Refused ==
  ASSUME NEW c, pc'[c] = "done", answer'[c] = Error \/ \E entry : answer'[c] = Claim(FALSE, entry),
         db' = db \/ Undone, begun' \in {begun, <<>>}
  PROVE  Looks(c)
<1>1. \A entry : Claim(FALSE, entry).created = FALSE
  BY DEF Claim
<1>2. answer'[c] = Error \/ answer'[c].created = FALSE
  BY <1>1
<1> QED
  BY <1>2 DEF Looks

LEMMA MemKeys ==
  ASSUME StoresSound, KeysInv, NEW c \in setting.clients, Step(c), call[c].op \in Writers["key"],
         setting.adapter = "memory"
  PROVE  Creates(c) \/ Renews(c) \/ Clears(c) \/ Looks(c)
<1> USE KeyCalls DEF Doing, Tell
<1>1. Memory(c) /\ begun' = begun /\ begun = <<>>
  BY DEF Step, Memory, StoresSound, TablesSound
<1>2. MemReserve(c) \/ MemUpdateKey(c) \/ MemGet(c) \/ MemGc(c)
  BY <1>1, WriterNames DEF Memory, MemAppendBatch, MemAppendNext, MemSave, MemLoad, MemUpdate, MemTransition,
     MemList, MemDelete, MemSaveAuthority, MemLoadAuthority, MemRevoke, MemListChildren, MemListBySubject,
     MemIsRevoked, MemAppend, MemRead, MemLastSequence, MemAudit, MemVerify, MemListAudit
<1>3. CASE MemReserve(c)
  <2>1. CASE Live(call[c].scope)
    <3>1. Reply(c, Claim(FALSE, Entry(call[c].scope))) /\ db' = db
      BY <1>3, <2>1 DEF MemReserve
    <3>2. pc'[c] = "done" /\ answer'[c] = Claim(FALSE, Entry(call[c].scope))
      BY <3>1
    <3> QED
      BY ONLY <1>1, <3>1, <3>2, Refused
  <2>2. CASE ~Live(call[c].scope)
    <3> DEFINE entry == [call[c].entry EXCEPT !.expires = now + call[c].ttl]
    <3>1. call[c].op = "reserve" /\ db' = WithKey(call[c].scope, KeyRow(entry)) /\ Reply(c, Claim(TRUE, entry))
      BY <1>3, <2>2 DEF MemReserve
    <3>2. EntrySound(entry)
      BY <3>1
    <3> HIDE DEF entry
    <3>3. pc'[c] = "done" /\ answer'[c] = Claim(TRUE, entry)
      BY <3>1
    <3> QED
      BY ONLY <1>1, <2>2, <3>1, <3>2, <3>3, setting.adapter = "memory" DEF Creates
  <2> QED
    BY <2>1, <2>2
<1>4. CASE MemUpdateKey(c)
  <2> DEFINE s == call[c].scope
             entry == With(call[c].patch, Entry(s))
  <2>1. CASE s \in DOMAIN db.key
    <3>1. RowSound(db.key[s])
      BY <2>1 DEF KeysInv
    <3>2. "expires" \notin DOMAIN call[c].patch /\ "expires" \in DOMAIN Entry(s)
      BY <1>4, <3>1 DEF MemUpdateKey, RowSound, Entry
    <3>3. "expires" \in DOMAIN entry /\ entry.expires = Entry(s).expires
      BY <3>2 DEF With
    <3>4. RowSound(KeyRow(entry)) /\ KeyRow(entry).until = db.key[s].until
      BY <3>1, <3>3 DEF RowSound, KeyRow, Entry
    <3> QED
      BY <1>1, <1>4, <2>1, <3>4 DEF MemUpdateKey, Renews
  <2>2. CASE s \notin DOMAIN db.key
    BY <1>1, <1>4, <2>2 DEF MemUpdateKey, Looks
  <2> QED
    BY <2>1, <2>2
<1>5. CASE MemGet(c) \/ MemGc(c)
  BY <1>1, <1>5 DEF MemGet, MemGc, Clears
<1> QED
  BY <1>2, <1>3, <1>4, <1>5

LEMMA SqlRenews ==
  ASSUME KeysInv, setting.adapter # "memory", NEW s, NEW entry, db' = WithEntry(s, entry)
  PROVE  \/ db' = db
         \/ /\ s \in DOMAIN db.key
            /\ \E row : db' = WithKey(s, row) /\ RowSound(row) /\ row.until = db.key[s].until
<1>1. CASE s \in DOMAIN db.key
  <2> DEFINE row == [entry |-> entry, until |-> db.key[s].until]
  <2>1. RowSound(row) /\ row.until = db.key[s].until
    BY <1>1 DEF KeysInv, RowSound
  <2>2. db' = WithKey(s, row)
    BY <1>1 DEF WithEntry
  <2> HIDE DEF row
  <2> QED
    BY <1>1, <2>1, <2>2
<1>2. CASE s \notin DOMAIN db.key
  BY <1>2 DEF WithEntry
<1> QED
  BY <1>1, <1>2

LEMMA SqlKeys ==
  ASSUME StoresSound, KeysInv, NEW c \in setting.clients, Step(c), call[c].op \in Writers["key"],
         setting.adapter = "sqlite"
  PROVE  Creates(c) \/ Renews(c) \/ Clears(c) \/ Looks(c)
<1> USE KeyCalls DEF Doing, Tell, Plain
<1>1. Sqlite(c)
  BY DEF Step
<1>2. SqlReserve(c) \/ SqlUpdateKey(c) \/ SqlGet(c) \/ SqlGc(c)
  BY <1>1, WriterNames DEF Sqlite, SqlAppendBatch, SqlUpdate, SqlSave, SqlLoad, SqlTransition, SqlList, SqlDelete,
     SqlSaveAuthority, SqlLoadAuthority, SqlRevoke, SqlListChildren, SqlListBySubject, SqlIsRevoked,
     SqlAppend, SqlRead, SqlLastSequence, SqlAudit, SqlVerify, SqlListAudit
<1>3. CASE SqlReserve(c)
  <2>1. CASE Rollback
    <3>1. db' = db \/ Undone
      BY <2>1 DEF Rollback, Undone
    <3>2. begun' = <<>>
      BY <2>1 DEF Rollback
    <3>3. CASE Reply(c, Claim(FALSE, Entry(call[c].scope))) \/ Reply(c, Error)
      <4>1. pc'[c] = "done" /\ (answer'[c] = Error \/ answer'[c] = Claim(FALSE, Entry(call[c].scope)))
        BY <3>3
      <4> QED
        BY ONLY <3>1, <3>2, <4>1, Refused
    <3>4. CASE \E entry : /\ call[c].scope \notin DOMAIN db.key /\ Doing(c, "reserve")
                          /\ entry = [call[c].entry EXCEPT !.expires = now + call[c].ttl]
                          /\ Commit(WithKey(call[c].scope, KeyRow(entry))) /\ Reply(c, Claim(TRUE, entry))
      <4>1. PICK entry : /\ call[c].scope \notin DOMAIN db.key /\ Doing(c, "reserve")
                         /\ entry = [call[c].entry EXCEPT !.expires = now + call[c].ttl]
                         /\ Commit(WithKey(call[c].scope, KeyRow(entry))) /\ Reply(c, Claim(TRUE, entry))
        BY <3>4
      <4>2. EntrySound(entry) /\ pc'[c] = "done" /\ answer'[c] = Claim(TRUE, entry) /\ call[c].op = "reserve"
        BY <4>1
      <4>3. ~Live(call[c].scope)
        BY <4>1 DEF Live
      <4>4. db' = WithKey(call[c].scope, KeyRow(entry)) /\ begun' = <<>>
        BY <4>1 DEF Commit
      <4> QED
        BY ONLY <4>2, <4>3, <4>4, setting.adapter = "sqlite" DEF Creates
    <3> QED
      BY <1>3, <3>3, <3>4 DEF SqlReserve
  <2>2. CASE ~Rollback
    <3>1. call[c].scope \notin DOMAIN db.key /\ call[c].op = "reserve"
      BY <1>3, <2>2 DEF SqlReserve
    <3> DEFINE entry == [call[c].entry EXCEPT !.expires = now + call[c].ttl]
    <3>2. db' = WithKey(call[c].scope, KeyRow(entry)) /\ begun' = <<>> /\ Reply(c, Claim(TRUE, entry))
      BY <1>3, <2>2 DEF SqlReserve, Commit
    <3>3. EntrySound(entry) /\ ~Live(call[c].scope)
      BY <3>1 DEF Live
    <3> HIDE DEF entry
    <3>4. pc'[c] = "done" /\ answer'[c] = Claim(TRUE, entry)
      BY <3>2
    <3> QED
      BY ONLY <3>1, <3>2, <3>3, <3>4, setting.adapter = "sqlite" DEF Creates
  <2> QED
    BY <2>1, <2>2
<1>4. CASE SqlUpdateKey(c)
  BY <1>4, SqlRenews DEF SqlUpdateKey, Renews, Looks
<1>5. CASE SqlGet(c)
  BY <1>5 DEF SqlGet, Looks
<1>6. CASE SqlGc(c)
  BY <1>6 DEF SqlGc, Clears
<1> QED
  BY <1>2, <1>3, <1>4, <1>5, <1>6

LEMMA PgKeys ==
  ASSUME StoresSound, KeysInv, NEW c \in setting.clients, Step(c), call[c].op \in Writers["key"],
         setting.adapter = "postgres"
  PROVE  Creates(c) \/ Renews(c) \/ Clears(c) \/ Looks(c)
<1> USE KeyCalls DEF Doing, Tell
<1>1. Postgres(c) /\ begun' = begun /\ begun = <<>>
  BY DEF Step, Postgres, StoresSound, TablesSound
<1>2. PgReserve(c) \/ PgUpdateKey(c) \/ PgGet(c) \/ PgGc(c) \/ PgFail(c)
  BY <1>1, WriterNames DEF Postgres, PgSave, PgUpdate, PgTransition, PgMove, PgDelete, PgSaveAuthority, PgRevoke,
     PgAppend, PgAppendBatch, PgAudit, PgLoad, PgList, PgLoadAuthority, PgListChildren, PgListBySubject,
     PgIsRevoked, PgRead, PgLastSequence, PgVerify, PgListAudit
<1>3. CASE PgReserve(c)
  <2>0. call[c].op = "reserve" /\ call[c].scope \in LockRows
    BY <1>3 DEF PgReserve, LockRows
  <2>1. CASE Doing(c, "reserve") /\ Live(call[c].scope) /\ Tell(c, Claim(FALSE, Entry(call[c].scope)))
    <3>1. pc'[c] = "done" /\ answer'[c] = Claim(FALSE, Entry(call[c].scope)) /\ db' = db
      BY <2>1
    <3> QED
      BY ONLY <1>1, <3>1, Refused
  <2>2. CASE /\ Doing(c, "reserve") /\ UNCHANGED db
             /\ Await(c, "insert", [call[c].entry EXCEPT !.expires = now + call[c].ttl])
    BY <1>1, <2>2 DEF Looks
  <2>3. CASE /\ pc[c] = "insert" /\ ~Conflict(call[c].scope) /\ UNCHANGED db
             /\ Take(c, {call[c].scope}) /\ Await(c, "commit", mine[c])
    <3>1. lock'[call[c].scope] = c
      BY <2>0, <2>3 DEF Take, StoresSound, TablesSound
    <3>2. EntrySound(mine[c])
      BY <2>3 DEF KeysInv
    <3>3. pc'[c] = "commit" /\ mine'[c] = mine[c] /\ db' = db
      BY <2>3
    <3> QED
      BY <1>1, <2>0, <2>3, <3>1, <3>2, <3>3 DEF Looks, Conflict
  <2>4. CASE pc[c] = "insert" /\ Await(c, "again", mine[c]) /\ UNCHANGED db
    BY <1>1, <2>4 DEF Looks
  <2>5. CASE /\ pc[c] = "commit" /\ db' = WithKey(call[c].scope, KeyRow(mine[c]))
             /\ Reply(c, Claim(TRUE, mine[c]))
    <3>1. EntrySound(mine[c]) /\ lock[call[c].scope] = c /\ call[c].scope \notin DOMAIN db.key
      BY <2>5 DEF KeysInv
    <3>2. ~Live(call[c].scope)
      BY <3>1 DEF Live
    <3>3. pc'[c] = "done" /\ answer'[c] = Claim(TRUE, mine[c]) /\ begun' = <<>>
      BY <1>1, <2>5
    <3>4. db' = WithKey(call[c].scope, KeyRow(mine[c]))
      BY <2>5
    <3> QED
      BY ONLY <2>0, <3>1, <3>2, <3>3, <3>4 DEF Creates
  <2>6. CASE /\ pc[c] = "again"
             /\ Tell(c, IF Live(call[c].scope) THEN Claim(FALSE, Entry(call[c].scope)) ELSE Error)
    <3>1. /\ pc'[c] = "done" /\ db' = db
          /\ answer'[c] = Error \/ answer'[c] = Claim(FALSE, Entry(call[c].scope))
      BY <2>6
    <3> QED
      BY ONLY <1>1, <3>1, Refused
  <2> QED
    BY <1>3, <2>1, <2>2, <2>3, <2>4, <2>5, <2>6 DEF PgReserve
<1>4. CASE PgUpdateKey(c)
  <2>1. CASE Doing(c, "updateKey") /\ Tell(c, Done)
    BY <1>1, <2>1 DEF Looks
  <2>2. CASE Doing(c, "updateKey") /\ UNCHANGED db /\ \E value : Await(c, "patch", value)
    BY <1>1, <2>2 DEF Looks
  <2>3. CASE pc[c] = "patch" /\ db' = WithEntry(call[c].scope, mine[c]) /\ Reply(c, Done)
    BY <1>1, <2>3, SqlRenews DEF Renews, Looks
  <2> QED
    BY <1>4, <2>1, <2>2, <2>3 DEF PgUpdateKey
<1>5. CASE PgGet(c)
  BY <1>1, <1>5 DEF PgGet, Looks
<1>6. CASE PgGc(c)
  BY <1>1, <1>6 DEF PgGc, Clears
<1>7. CASE PgFail(c)
  BY <1>1, <1>7 DEF PgFail, Looks
<1> QED
  BY <1>2, <1>3, <1>4, <1>5, <1>6, <1>7

LEMMA KeySteps ==
  ASSUME StoresSound, KeysInv, NEW c \in setting.clients, Step(c), call[c].op \in Writers["key"]
  PROVE  Creates(c) \/ Renews(c) \/ Clears(c) \/ Looks(c)
<1>1. setting.adapter \in {"memory", "sqlite", "postgres"}
  BY SettingsAssumption DEF StoresSound
<1> QED
  BY <1>1, MemKeys, SqlKeys, PgKeys

LEMMA KeyAdded ==
  ASSUME Shaped(db), NEW s, NEW row, db' = WithKey(s, row)
  PROVE  /\ DOMAIN db'.key = DOMAIN db.key \cup {s} /\ db'.key[s] = row
         /\ \A x \in DOMAIN db.key : x # s => db'.key[x] = db.key[x]
<1>1. "key" \in DOMAIN db
  BY DEF Shaped, TableNames
<1>2. db'.key = [x \in DOMAIN db.key \cup {s} |-> IF x = s THEN row ELSE db.key[x]]
  BY <1>1 DEF WithKey
<1> QED
  BY <1>2

LEMMA KeysGone ==
  ASSUME Shaped(db), NEW gone, db' = WithoutKeys(gone)
  PROVE  /\ DOMAIN db'.key = DOMAIN db.key \ gone
         /\ \A x \in DOMAIN db.key \ gone : db'.key[x] = db.key[x]
<1>1. "key" \in DOMAIN db
  BY DEF Shaped, TableNames
<1>2. db'.key = [x \in DOMAIN db.key \ gone |-> db.key[x]]
  BY <1>1 DEF WithoutKeys
<1> QED
  BY <1>2

\* What a step leaves of the keys.
LEMMA KeysAfter ==
  ASSUME StoresSound, KeysInv, NEW c \in setting.clients, Step(c)
  PROVE  \/ db'.key = db.key
         \/ Undone
         \/ Creates(c)
         \/ Renews(c)
         \/ Clears(c)
<1>1. CASE call[c].op \notin Writers["key"]
  BY <1>1, StepKeeps, WriterNames DEF Keeps
<1>2. CASE call[c].op \in Writers["key"]
  BY <1>2, KeySteps DEF Looks
<1> QED
  BY <1>1, <1>2

LEMMA CommitCalls ==
  ASSUME StoresSound, NEW x \in Clients, pc[x] = "commit"
  PROVE  setting.adapter = "postgres" /\ call[x].scope \in Scopes
<1>1. pc[x] \in AwaitsOf[setting.adapter] /\ call[x].op = "reserve" /\ call[x] \in setting.calls
  BY PlaceNames DEF StoresSound, CallsSound, Placed
<1>2. setting.adapter = "postgres"
  <2>1. setting.adapter \in {"memory", "sqlite", "postgres"}
    BY SettingsAssumption DEF StoresSound
  <2> QED
    BY <1>1, <2>1 DEF AwaitsOf
<1> QED
  BY <1>1, <1>2, SettingsAssumption DEF StoresSound, CallSound

LEMMA KeysInit == Init => KeysInv
<1> SUFFICES ASSUME Init PROVE KeysInv
  OBVIOUS
<1>1. DOMAIN db.key = {}
  <2>1. db = Tables(db.execution, db.authority)
    BY SettingsAssumption DEF Init
  <2> QED
    BY <2>1 DEF Tables
<1> QED
  BY <1>1 DEF Init, KeysInv

LEMMA KeysStep ==
  ASSUME StoresSound, KeysInv, NEW c \in setting.clients, Step(c)
  PROVE  KeysInv'
<1>0. c \in Clients /\ call' = call /\ setting' = setting /\ StoresSound' /\ Shaped(db)
  BY StepMoves, SoundStep DEF Next, StoresSound, TablesSound
<1>r. \A row : RowSound(row)' <=> RowSound(row)
  BY <1>0 DEF RowSound
<1>1. \A s \in DOMAIN db'.key : RowSound(db'.key[s])
  <2>1. CASE db'.key = db.key
    BY <2>1 DEF KeysInv
  <2>2. CASE Undone
    BY <2>2 DEF KeysInv, Undone
  <2>3. CASE Creates(c)
    <3>1. PICK entry : EntrySound(entry) /\ db' = WithKey(call[c].scope, KeyRow(entry))
      BY <2>3 DEF Creates
    <3>2. RowSound(KeyRow(entry))
      BY <3>1 DEF EntrySound, RowSound, KeyRow
    <3> QED
      BY <1>0, <3>1, <3>2, KeyAdded DEF KeysInv
  <2>4. CASE Renews(c)
    <3>1. PICK row : RowSound(row) /\ db' = WithKey(call[c].scope, row)
      BY <2>4 DEF Renews
    <3> QED
      BY <1>0, <3>1, KeyAdded DEF KeysInv
  <2>5. CASE Clears(c)
    <3>1. PICK gone : db' = WithoutKeys(gone)
      BY <2>5 DEF Clears
    <3> QED
      BY <1>0, <3>1, KeysGone DEF KeysInv
  <2> QED
    BY <2>1, <2>2, <2>3, <2>4, <2>5, KeysAfter
<1>2. begun' # <<>> => \A s \in DOMAIN begun'[1].key : RowSound(begun'[1].key[s])
  BY StepKeeps DEF KeysInv, Begins
<1>3. ASSUME NEW x \in Clients, pc'[x] \in {"insert", "commit"}
      PROVE  /\ EntrySound(mine'[x])
             /\ pc'[x] = "commit" => lock'[call[x].scope] = x /\ call[x].scope \notin DOMAIN db'.key
  <2>1. CASE x = c
    <3>1. call[c].op \in Writers["key"]
      BY <1>0, <1>3, <2>1, WriterNames, PlaceNames DEF StoresSound, CallsSound, Placed
    <3>2. Looks(c)
      BY <1>3, <2>1, <3>1, KeySteps DEF Creates, Renews, Clears
    <3> QED
      BY <1>3, <2>1, <3>2 DEF Looks
  <2>2. CASE x # c
    <3>1. pc[x] = pc'[x] /\ mine'[x] = mine[x]
      BY <2>2, OthersStay
    <3>2. EntrySound(mine[x])
      BY <1>3, <3>1 DEF KeysInv
    <3>3. ASSUME pc'[x] = "commit"
          PROVE  lock'[call[x].scope] = x /\ call[x].scope \notin DOMAIN db'.key
      <4>1. setting.adapter = "postgres" /\ call[x].scope \in Scopes
        BY <3>1, <3>3, CommitCalls
      <4>2. lock[call[x].scope] = x /\ call[x].scope \notin DOMAIN db.key
        BY <3>1, <3>3 DEF KeysInv
      <4>3. lock'[call[x].scope] = x
        BY <2>2, <4>1, <4>2, LocksStay DEF LockRows
      <4>4. ~Undone
        BY <4>1 DEF Undone, StoresSound, TablesSound
      <4>5. CASE Creates(c)
        <5>1. call[c].scope # call[x].scope
          BY <2>2, <4>1, <4>2, <4>5 DEF Creates
        <5> QED
          <6>1. PICK entry : db' = WithKey(call[c].scope, KeyRow(entry))
            BY <4>5 DEF Creates
          <6> QED
            BY <1>0, <4>2, <4>3, <5>1, <6>1, KeyAdded
      <4>6. CASE Renews(c)
        <5>1. PICK row : db' = WithKey(call[c].scope, row) /\ call[c].scope \in DOMAIN db.key
          BY <4>6 DEF Renews
        <5> QED
          BY <1>0, <4>2, <4>3, <5>1, KeyAdded
      <4>7. CASE Clears(c)
        <5>1. PICK gone : db' = WithoutKeys(gone)
          BY <4>7 DEF Clears
        <5> QED
          BY <1>0, <4>2, <4>3, <5>1, KeysGone
      <4> QED
        BY <4>2, <4>3, <4>4, <4>5, <4>6, <4>7, KeysAfter
    <3> QED
      BY <3>1, <3>2, <3>3
  <2> QED
    BY <2>1, <2>2
<1> QED
  BY <1>0, <1>r, <1>1, <1>2, <1>3 DEF KeysInv

Reserved(c) == Answered(c, "reserve") /\ answer[c] # Error /\ answer[c].created

\* The key that c created is still there, until when it said, or has expired.
Kept(tables, c) ==
  \/ answer[c].entry.expires <= now
  \/ /\ call[c].scope \in DOMAIN tables.key
     /\ tables.key[call[c].scope].until = answer[c].entry.expires
InTurn(c, d) ==
  answer[c].at >= answer[d].entry.expires \/ answer[d].at >= answer[c].entry.expires

ClaimsInv ==
  \A c \in Clients : Reserved(c) =>
    /\ answer[c].at \in Nat /\ answer[c].entry.expires \in Nat
    /\ Kept(db, c) /\ (begun # <<>> => Kept(begun[1], c))
    /\ \A d \in Clients \ {c} : (Reserved(d) /\ call[d].scope = call[c].scope) => InTurn(c, d)

LEMMA KeptStep ==
  ASSUME StoresSound, KeysInv, NEW c \in setting.clients, Step(c), NEW x \in Clients, x # c,
         Kept(db, x), begun # <<>> => Kept(begun[1], x), answer[x].entry.expires \in Nat
  PROVE  Kept(db, x)' /\ (begun' # <<>> => Kept(begun[1], x)')
<1>0. call' = call /\ now' = now /\ now \in Nat /\ Shaped(db) /\ answer'[x] = answer[x]
  BY StepMoves, OthersStay DEF StoresSound, TablesSound
<1> DEFINE s == call[x].scope
<1>1. begun' # <<>> => Kept(begun[1], x)'
  BY <1>0, StepKeeps DEF Begins, Kept
<1>2. Kept(db, x)'
  <2>1. CASE db'.key = db.key
    BY <1>0, <2>1 DEF Kept
  <2>2. CASE Undone
    BY <1>0, <2>2 DEF Kept, Undone
  <2>3. CASE Creates(c)
    <3>1. PICK entry : db' = WithKey(call[c].scope, KeyRow(entry))
      BY <2>3 DEF Creates
    <3>2. /\ DOMAIN db'.key = DOMAIN db.key \cup {call[c].scope}
          /\ \A y \in DOMAIN db.key : y # call[c].scope => db'.key[y] = db.key[y]
      BY <1>0, <3>1, KeyAdded
    <3>3. CASE s = call[c].scope
      <4>1. ~(s \in DOMAIN db.key /\ db.key[s].until > now)
        BY <2>3, <3>3 DEF Creates, Live
      <4>2. answer[x].entry.expires <= now
        BY <1>0, <4>1 DEF Kept
      <4> QED
        BY <1>0, <4>2 DEF Kept
    <3>4. CASE s # call[c].scope
      BY <1>0, <3>2, <3>4 DEF Kept
    <3> QED
      BY <3>3, <3>4
  <2>4. CASE Renews(c)
    <3>1. PICK row : db' = WithKey(call[c].scope, row) /\ row.until = db.key[call[c].scope].until
      BY <2>4 DEF Renews
    <3>2. /\ DOMAIN db'.key = DOMAIN db.key \cup {call[c].scope} /\ db'.key[call[c].scope] = row
          /\ \A y \in DOMAIN db.key : y # call[c].scope => db'.key[y] = db.key[y]
      BY <1>0, <3>1, KeyAdded
    <3> QED
      BY <1>0, <3>1, <3>2 DEF Kept
  <2>5. CASE Clears(c)
    <3>1. PICK gone \in SUBSET Expired : db' = WithoutKeys(gone)
      BY <2>5 DEF Clears
    <3>2. DOMAIN db'.key = DOMAIN db.key \ gone /\ \A y \in DOMAIN db.key \ gone : db'.key[y] = db.key[y]
      BY <1>0, <3>1, KeysGone
    <3>3. s \in gone => s \in DOMAIN db.key /\ db.key[s].until <= now
      BY <3>1 DEF Expired
    <3> QED
      BY <1>0, <3>2, <3>3 DEF Kept
  <2> QED
    BY <2>1, <2>2, <2>3, <2>4, <2>5, KeysAfter
<1> QED
  BY <1>1, <1>2

LEMMA ClaimsStep ==
  ASSUME StoresSound, KeysInv, ClaimsInv, NEW c \in setting.clients, Step(c)
  PROVE  ClaimsInv'
<1>0. c \in Clients /\ call' = call /\ now' = now /\ now \in Nat /\ Shaped(db)
  BY StepMoves DEF StoresSound, TablesSound
<1>1. \A x \in Clients \ {c} : /\ Reserved(x)' <=> Reserved(x)
                               /\ answer'[x] = answer[x]
  BY <1>0, OthersStay DEF Reserved, Answered
<1>2. ASSUME Reserved(c)'
      PROVE  /\ ~Live(call[c].scope) /\ begun' = <<>>
             /\ answer'[c].at = now /\ answer'[c].entry.expires \in Nat /\ Kept(db, c)'
  <2>1. call[c].op = "reserve" /\ pc'[c] = "done" /\ answer'[c] # Error /\ answer'[c].created
    BY <1>0, <1>2 DEF Reserved, Answered
  <2>2. Creates(c)
    BY <2>1, KeySteps, WriterNames DEF Looks, Renews, Clears
  <2>3. PICK entry : /\ EntrySound(entry) /\ db' = WithKey(call[c].scope, KeyRow(entry))
                     /\ answer'[c] = Claim(TRUE, entry)
    BY <2>2 DEF Creates
  <2>4. answer'[c].at = now /\ answer'[c].entry = entry
    BY <2>3 DEF Claim
  <2>5. call[c].scope \in DOMAIN db'.key /\ db'.key[call[c].scope] = KeyRow(entry)
    BY <1>0, <2>3, KeyAdded
  <2>6. KeyRow(entry).until = entry.expires
    BY DEF KeyRow
  <2> QED
    BY <1>0, <2>2, <2>3, <2>4, <2>5, <2>6 DEF Creates, EntrySound, Kept
<1>3. ASSUME NEW d \in Clients \ {c}, Reserved(c)', Reserved(d), call[d].scope = call[c].scope
      PROVE  answer'[c].at >= answer[d].entry.expires
  <2>1. Kept(db, d) /\ answer[d].entry.expires \in Nat
    BY <1>3 DEF ClaimsInv
  <2>2. answer[d].entry.expires <= now
    BY <1>0, <1>2, <1>3, <2>1 DEF Kept, Live
  <2> QED
    BY <1>2, <1>3, <2>2
<1>4. ASSUME NEW x \in Clients, Reserved(x)'
      PROVE  /\ answer'[x].at \in Nat /\ answer'[x].entry.expires \in Nat
             /\ Kept(db, x)' /\ (begun' # <<>> => Kept(begun[1], x)')
             /\ \A d \in Clients \ {x} : (Reserved(d)' /\ call[d].scope = call[x].scope) => InTurn(x, d)'
  <2>1. CASE x = c
    <3>1. \A d \in Clients \ {c} : (Reserved(d)' /\ call[d].scope = call[c].scope) => InTurn(c, d)'
      BY <1>1, <1>3, <1>4, <2>1 DEF InTurn
    <3> QED
      BY <1>0, <1>2, <1>4, <2>1, <3>1
  <2>2. CASE x # c
    <3>1. /\ Reserved(x) /\ answer[x].at \in Nat /\ answer[x].entry.expires \in Nat
          /\ Kept(db, x) /\ (begun # <<>> => Kept(begun[1], x))
          /\ \A d \in Clients \ {x} : (Reserved(d) /\ call[d].scope = call[x].scope) => InTurn(x, d)
      BY <1>1, <1>4, <2>2 DEF ClaimsInv
    <3>2. Kept(db, x)' /\ (begun' # <<>> => Kept(begun[1], x)')
      BY <2>2, <3>1, KeptStep
    <3>3. \A d \in Clients \ {x} : (Reserved(d)' /\ call[d].scope = call[x].scope) => InTurn(x, d)'
      BY <1>1, <1>3, <2>2, <3>1 DEF InTurn
    <3> QED
      BY <1>1, <2>2, <3>1, <3>2, <3>3
  <2> QED
    BY <2>1, <2>2
<1> QED
  BY <1>0, <1>4 DEF ClaimsInv

\* A step in which no reservation answers and the tables stay, or are rolled back.
LEMMA ClaimsKept ==
  ASSUME ClaimsInv, db' = db \/ Undone, begun' \in {begun, <<>>},
         \A x \in Clients : Reserved(x)' => Reserved(x) /\ call'[x] = call[x] /\ answer'[x] = answer[x],
         now \in Nat, now' \in Nat, now <= now'
  PROVE  ClaimsInv'
<1> SUFFICES ASSUME NEW x \in Clients, Reserved(x)'
             PROVE  /\ answer'[x].at \in Nat /\ answer'[x].entry.expires \in Nat
                    /\ Kept(db, x)' /\ (begun' # <<>> => Kept(begun[1], x)')
                    /\ \A d \in Clients \ {x} :
                         (Reserved(d)' /\ call'[d].scope = call'[x].scope) => InTurn(x, d)'
  BY DEF ClaimsInv
<1>1. /\ answer[x].at \in Nat /\ answer[x].entry.expires \in Nat /\ call'[x] = call[x] /\ answer'[x] = answer[x]
      /\ Kept(db, x) /\ (begun # <<>> => Kept(begun[1], x))
      /\ \A d \in Clients \ {x} : (Reserved(d) /\ call[d].scope = call[x].scope) => InTurn(x, d)
  BY DEF ClaimsInv
<1>2. Kept(db, x)' /\ (begun' # <<>> => Kept(begun[1], x)')
  BY <1>1 DEF Kept, Undone
<1>3. \A d \in Clients \ {x} : (Reserved(d)' /\ call'[d].scope = call'[x].scope) => InTurn(x, d)'
  BY <1>1 DEF InTurn
<1> QED
  BY <1>1, <1>2, <1>3

LEMMA ClaimsInit == Init => ClaimsInv
PROOF BY DEF Init, ClaimsInv, Reserved, Answered

LEMMA KeysAndClaimsStep == StoresSound /\ KeysInv /\ ClaimsInv /\ [Next]_vars => KeysInv' /\ ClaimsInv'
<1> SUFFICES ASSUME StoresSound, KeysInv, ClaimsInv, [Next]_vars PROVE KeysInv' /\ ClaimsInv'
  OBVIOUS
<1>0. now \in Nat
  BY DEF StoresSound
<1>1. CASE UNCHANGED <<setting, db, begun, lock, pc, call, answer, mine>> /\ now' \in {now, now + 1}
  <2>1. KeysInv'
    BY <1>1 DEF KeysInv, RowSound
  <2>2. \A x \in Clients : Reserved(x)' => Reserved(x) /\ call'[x] = call[x] /\ answer'[x] = answer[x]
    BY <1>1 DEF Reserved, Answered
  <2> QED
    BY <1>0, <1>1, <2>1, <2>2, ClaimsKept
<1>2. ASSUME NEW c \in setting.clients, Step(c) PROVE KeysInv' /\ ClaimsInv'
  BY <1>2, KeysStep, ClaimsStep
<1>3. ASSUME NEW c \in setting.clients, NEW k \in setting.calls, Invoke(c, k)
      PROVE  KeysInv' /\ ClaimsInv'
  <2>1. /\ db' = db /\ begun' = begun /\ lock' = lock /\ setting' = setting /\ now' = now
        /\ \A x \in Clients : /\ pc'[x] = IF x = c THEN "called" ELSE pc[x]
                              /\ call'[x] = IF x = c THEN k ELSE call[x]
                              /\ answer'[x] = answer[x] /\ mine'[x] = mine[x]
    BY <1>3 DEF Invoke, history, rows, StoresSound, CallsSound
  <2>2. KeysInv'
    BY <2>1 DEF KeysInv, RowSound
  <2>3. \A x \in Clients : Reserved(x)' => Reserved(x) /\ call'[x] = call[x] /\ answer'[x] = answer[x]
    BY <2>1 DEF Reserved, Answered
  <2> QED
    BY <1>0, <2>1, <2>2, <2>3, ClaimsKept
<1>4. CASE Crash
  <2>1. /\ begun' = <<>> /\ setting' = setting /\ now' = now
        /\ db' = db \/ Undone
        /\ \A x \in Clients : /\ pc'[x] = IF pc[x] \in {"idle", "done"} THEN pc[x] ELSE "died"
                              /\ call'[x] = call[x] /\ answer'[x] = answer[x] /\ mine'[x] = mine[x]
    BY <1>4 DEF Crash, history, SqlCrash, Rollback, Undone
  <2>2. KeysInv'
    BY <2>1 DEF KeysInv, RowSound, Undone
  <2>3. \A x \in Clients : Reserved(x)' => Reserved(x) /\ call'[x] = call[x] /\ answer'[x] = answer[x]
    BY <2>1 DEF Reserved, Answered
  <2> QED
    BY <1>0, <2>1, <2>2, <2>3, ClaimsKept
<1> QED
  BY <1>0, <1>1, <1>2, <1>3, <1>4 DEF Next, Tick, history, vars, rows, calls

\* Of two reservations of a key that were answered as created, one was made when the
\* other had expired.
THEOREM ReservesOnce == Spec => []ReservedOnce
<1>1. StoresSound /\ ClaimsInv => ReservedOnce
  <2> SUFFICES ASSUME ClaimsInv, NEW c \in Clients, NEW d \in Clients, c # d, Reserved(c), Reserved(d),
                      call[c].scope = call[d].scope
               PROVE  InTurn(c, d)
    BY DEF ReservedOnce, Reserved, InTurn
  <2> QED
    BY DEF ClaimsInv
<1> QED
  BY <1>1, SoundInit, SoundStep, KeysInit, ClaimsInit, KeysAndClaimsStep, PTL DEF Spec

------------------------------------------------------------------------------
(* The calls about events.                                                 *)

\* What is left of the events of a batch, and in PostgreSQL what was inserted of it.
Todo(c) ==
  IF pc[c] = "called" THEN call[c].events
  ELSE IF setting.adapter = "postgres" THEN mine[c].rest ELSE mine[c]
Numbered(c) == IF pc[c] = "called" THEN {} ELSE mine[c].numbered

Puts(event) == \E n : db'.events = db.events \cup {[event |-> event, row |-> n]}

Fails(c) ==
  /\ setting.adapter # "memory" /\ pc'[c] = "done" /\ answer'[c] = Error /\ begun' \in {begun, <<>>}
  /\ db' = db \/ Undone
  /\ (pc[c] \in {"batch", "undo"} /\ begun # <<>>) => Undone
Appends(c) ==
  call[c].op = "append" /\ pc'[c] = "done" /\ answer'[c] = Done /\ begun' = begun /\ Puts(call[c].event)
Advances(c) ==
  /\ call[c].op = "batch" /\ setting.adapter # "postgres" /\ pc[c] \in {"called", "batch"}
  /\ pc'[c] = "batch" /\ Todo(c) # <<>>
  /\ mine'[c] = Tail(Todo(c)) /\ Puts(Head(Todo(c)))
  /\ IF setting.adapter = "sqlite" /\ pc[c] = "called" THEN Begins(c) ELSE begun' = begun
\* An INSERT of an SQLite batch fails; the ROLLBACK comes later.
Stops(c) ==
  /\ call[c].op = "batch" /\ setting.adapter = "sqlite" /\ pc[c] \in {"called", "batch"}
  /\ pc'[c] = "undo" /\ db' = db
  /\ IF pc[c] = "called" THEN Begins(c) ELSE begun' = begun
Numbers(c) ==
  /\ call[c].op = "batch" /\ setting.adapter = "postgres" /\ pc[c] \in {"called", "batch"}
  /\ pc'[c] = "batch" /\ Todo(c) # <<>>
  /\ db'.events = db.events /\ begun' = begun
  /\ \E n : mine'[c] = [rest |-> Tail(Todo(c)),
                        numbered |-> Numbered(c) \cup {[event |-> Head(Todo(c)), row |-> n]}]
Ends(c) ==
  /\ call[c].op = "batch" /\ pc[c] = "batch" /\ pc'[c] = "done" /\ answer'[c] = Done
  /\ Todo(c) = <<>> /\ begun' = <<>>
  /\ db'.events = db.events \cup (IF setting.adapter = "postgres" THEN mine[c].numbered ELSE {})

LEMMA EventCalls ==
  ASSUME StoresSound, NEW c \in setting.clients, Step(c), call[c].op \in Writers["events"]
  PROVE  /\ c \in Clients /\ Shaped(db) /\ pc[c] \in {"called", "batch", "undo"}
         /\ pc[c] \in {"batch", "undo"} => call[c].op = "batch"
         /\ \A value : Reply(c, value) => pc'[c] = "done" /\ answer'[c] = value
         /\ \A place, value : Await(c, place, value) => pc'[c] = place /\ mine'[c] = value
         /\ call[c].op = "batch" => call[c].events \in Seq(Range(call[c].events)) /\ call[c].events # <<>>
         /\ \A event : db' = WithEvent(db, event) => Puts(event)
<1>1. c \in Clients /\ Placed(c) /\ pc[c] \in Places /\ Working(c) /\ Shaped(db)
  BY StepMoves DEF StoresSound, CallsSound, TablesSound
<1>2. call[c] \in setting.calls
  BY <1>1, PlaceNames DEF Working, StoresSound, CallsSound
<1>3. CallSound(call[c])
  BY <1>2, SettingsAssumption DEF StoresSound
<1>4. call[c].op = "batch" => call[c].events \in Seq(Range(call[c].events)) /\ call[c].events # <<>>
  BY <1>3 DEF CallSound
<1>5. pc[c] \in {"called", "batch", "undo"} /\ (pc[c] \in {"batch", "undo"} => call[c].op = "batch")
  BY <1>1, WriterNames, PlaceNames DEF Placed, Working
<1>6. \A event : db' = WithEvent(db, event) => Puts(event)
  BY <1>1, AppendsEvent DEF Puts
<1> QED
  BY <1>1, <1>4, <1>5, <1>6 DEF Reply, Await, StoresSound, CallsSound, TablesSound

LEMMA MemEvents ==
  ASSUME StoresSound, NEW c \in setting.clients, Step(c), call[c].op \in Writers["events"],
         setting.adapter = "memory"
  PROVE  Fails(c) \/ Appends(c) \/ Advances(c) \/ Stops(c) \/ Numbers(c) \/ Ends(c)
<1> USE EventCalls DEF Doing, Tell
<1>1. Memory(c) /\ begun' = begun /\ begun = <<>>
  BY DEF Step, Memory, StoresSound, TablesSound
<1>2. MemAppend(c) \/ MemAppendBatch(c) \/ MemAppendNext(c)
  BY <1>1, WriterNames DEF Memory, MemSave, MemLoad, MemUpdate, MemTransition,
     MemList, MemDelete, MemSaveAuthority, MemLoadAuthority, MemRevoke, MemListChildren, MemListBySubject,
     MemIsRevoked, MemReserve, MemUpdateKey, MemGet, MemGc, MemRead, MemLastSequence, MemAudit, MemVerify,
     MemListAudit
<1>3. CASE MemAppend(c)
  BY <1>1, <1>3 DEF MemAppend, Appends
<1>4. CASE MemAppendBatch(c)
  <2>1. Todo(c) = call[c].events /\ Todo(c) # <<>>
    BY <1>4 DEF MemAppendBatch, Todo
  <2> QED
    BY <1>1, <1>4, <2>1 DEF MemAppendBatch, Advances
<1>5. CASE MemAppendNext(c)
  <2>1. Todo(c) = mine[c] /\ call[c].op = "batch" /\ pc[c] = "batch"
    BY <1>5 DEF MemAppendNext, Todo
  <2>2. CASE mine[c] = <<>>
    BY <1>1, <1>5, <2>1, <2>2 DEF MemAppendNext, Ends
  <2>3. CASE mine[c] # <<>>
    BY <1>1, <1>5, <2>1, <2>3 DEF MemAppendNext, Advances
  <2> QED
    BY <2>2, <2>3
<1> QED
  BY <1>2, <1>3, <1>4, <1>5

LEMMA SqlEvents ==
  ASSUME StoresSound, NEW c \in setting.clients, Step(c), call[c].op \in Writers["events"],
         setting.adapter = "sqlite"
  PROVE  Fails(c) \/ Appends(c) \/ Advances(c) \/ Stops(c) \/ Numbers(c) \/ Ends(c)
<1> USE EventCalls DEF Doing, Tell, Plain
<1>1. Sqlite(c)
  BY DEF Step
<1>2. SqlAppend(c) \/ SqlAppendBatch(c)
  BY <1>1, WriterNames DEF Sqlite, SqlUpdate, SqlSave, SqlLoad, SqlTransition, SqlList, SqlDelete,
     SqlSaveAuthority, SqlLoadAuthority, SqlRevoke, SqlListChildren, SqlListBySubject, SqlIsRevoked,
     SqlReserve, SqlUpdateKey, SqlGet, SqlGc, SqlRead, SqlLastSequence, SqlAudit, SqlVerify, SqlListAudit
<1>3. CASE SqlAppend(c)
  BY <1>3 DEF SqlAppend, Appends, Fails
<1>4. CASE SqlAppendBatch(c) /\ pc[c] = "called"
  <2>1. Todo(c) = call[c].events /\ Todo(c) # <<>>
    BY <1>4 DEF SqlAppendBatch, Todo
  <2>2. CASE Tell(c, Error) /\ begun' = begun
    BY <1>4, <2>2 DEF Fails
  <2>3. CASE /\ db' = WithEvent(db, Head(call[c].events)) /\ begun = <<>> /\ begun' = <<db>>
             /\ Await(c, "batch", Tail(call[c].events)) /\ call[c].op = "batch"
    BY <1>4, <2>1, <2>3 DEF Advances, Begins
  <2>4. CASE db' = db /\ begun = <<>> /\ begun' = <<db>> /\ Await(c, "undo", None) /\ call[c].op = "batch"
    BY <1>4, <2>4 DEF Stops, Begins
  <2> QED
    BY <1>4, <2>2, <2>3, <2>4 DEF SqlAppendBatch
<1>5. CASE SqlAppendBatch(c) /\ pc[c] = "batch"
  <2>1. Todo(c) = mine[c] /\ call[c].op = "batch"
    BY <1>5 DEF Todo
  <2>2. CASE db' = db /\ begun' = begun /\ Await(c, "undo", None)
    BY <1>5, <2>1, <2>2 DEF Stops
  <2>3. CASE /\ mine[c] # <<>> /\ db' = WithEvent(db, Head(mine[c])) /\ begun' = begun
             /\ Await(c, "batch", Tail(mine[c]))
    BY <1>5, <2>1, <2>3 DEF Advances
  <2>4. CASE mine[c] = <<>> /\ db' = db /\ begun' = <<>> /\ Reply(c, IF begun = <<>> THEN Error ELSE Done)
    BY <1>5, <2>1, <2>4 DEF Fails, Ends
  <2> QED
    BY <1>5, <2>2, <2>3, <2>4 DEF SqlAppendBatch
<1>6. CASE SqlAppendBatch(c) /\ pc[c] = "undo"
  <2>1. Rollback /\ Reply(c, Error)
    BY <1>6 DEF SqlAppendBatch
  <2> QED
    BY <1>6, <2>1 DEF Fails, Rollback, Undone
<1> QED
  BY <1>2, <1>3, <1>4, <1>5, <1>6

LEMMA PgEvents ==
  ASSUME StoresSound, NEW c \in setting.clients, Step(c), call[c].op \in Writers["events"],
         setting.adapter = "postgres"
  PROVE  Fails(c) \/ Appends(c) \/ Advances(c) \/ Stops(c) \/ Numbers(c) \/ Ends(c)
<1> USE EventCalls DEF Doing, Tell
<1>1. Postgres(c) /\ begun' = begun /\ begun = <<>>
  BY DEF Step, Postgres, StoresSound, TablesSound
<1>2. PgAppend(c) \/ PgAppendBatch(c) \/ PgFail(c)
  BY <1>1, WriterNames DEF Postgres, PgSave, PgUpdate, PgTransition, PgMove, PgDelete, PgSaveAuthority, PgRevoke,
     PgReserve, PgUpdateKey, PgGc, PgAudit, PgLoad, PgList, PgLoadAuthority, PgListChildren, PgListBySubject,
     PgIsRevoked, PgGet, PgRead, PgLastSequence, PgVerify, PgListAudit
<1>3. CASE PgAppend(c)
  BY <1>1, <1>3 DEF PgAppend, Appends, Fails
<1>4. CASE PgFail(c)
  BY <1>1, <1>4 DEF PgFail, Fails
<1>5. CASE PgAppendBatch(c)
  <2>1. call[c].op = "batch"
    BY <1>5 DEF PgAppendBatch
  <2>2. ASSUME NEW event, NEW rest, NEW numbered, PgInsertEvent(c, event, rest, numbered),
               pc[c] \in {"called", "batch"}, Todo(c) # <<>>,
               event = Head(Todo(c)), rest = Tail(Todo(c)), numbered = Numbered(c)
        PROVE  Fails(c) \/ Numbers(c)
    <3>1. CASE Tell(c, Error)
      BY <1>1, <3>1 DEF Fails
    <3>2. CASE /\ db' = [db EXCEPT !.sequence = @ + 1]
               /\ Await(c, "batch", [rest |-> rest,
                                     numbered |-> numbered \cup {[event |-> event, row |-> db.sequence + 1]}])
      <4>1. db'.events = db.events
        BY <3>2, WriteSequence DEF Only, TableNames
      <4>2. pc'[c] = "batch" /\ mine'[c] = [rest |-> Tail(Todo(c)),
                numbered |-> Numbered(c) \cup {[event |-> Head(Todo(c)), row |-> db.sequence + 1]}]
        BY <2>2, <3>2
      <4> QED
        BY ONLY <1>1, <2>1, <2>2, <4>1, <4>2, setting.adapter = "postgres" DEF Numbers
    <3> QED
      BY <2>2, <3>1, <3>2 DEF PgInsertEvent
  <2>3. CASE pc[c] = "called"
    <3>1. Todo(c) = call[c].events /\ Numbered(c) = {} /\ Todo(c) # <<>>
      BY <2>1, <2>3 DEF Todo, Numbered
    <3> QED
      BY <1>5, <2>2, <2>3, <3>1 DEF PgAppendBatch
  <2>4. CASE pc[c] = "batch"
    <3>1. Todo(c) = mine[c].rest /\ Numbered(c) = mine[c].numbered
      BY <2>4 DEF Todo, Numbered
    <3>2. CASE mine[c].rest # <<>>
      BY <1>5, <2>2, <2>4, <3>1, <3>2 DEF PgAppendBatch
    <3>3. CASE mine[c].rest = <<>>
      <4>1. db' = [db EXCEPT !.events = @ \cup mine[c].numbered] /\ Reply(c, Done)
        BY <1>5, <2>4, <3>3 DEF PgAppendBatch
      <4>2. db'.events = db.events \cup mine[c].numbered
        BY <4>1, WriteEventsOnly
      <4> QED
        BY <1>1, <2>1, <2>4, <3>1, <3>3, <4>1, <4>2 DEF Ends
    <3> QED
      BY <3>2, <3>3
  <2> QED
    BY <1>5, <2>3, <2>4 DEF PgAppendBatch
<1> QED
  BY <1>2, <1>3, <1>4, <1>5

LEMMA EventSteps ==
  ASSUME StoresSound, NEW c \in setting.clients, Step(c), call[c].op \in Writers["events"]
  PROVE  Fails(c) \/ Appends(c) \/ Advances(c) \/ Stops(c) \/ Numbers(c) \/ Ends(c)
<1>1. setting.adapter \in {"memory", "sqlite", "postgres"}
  BY SettingsAssumption DEF StoresSound
<1> QED
  BY <1>1, MemEvents, SqlEvents, PgEvents

\* Events that are stored stay, but for a rollback.
LEMMA EventsStay ==
  ASSUME StoresSound, NEW c \in setting.clients, Step(c)
  PROVE  db.events \subseteq db'.events \/ Undone
<1>1. CASE call[c].op \notin Writers["events"]
  BY <1>1, StepKeeps, WriterNames DEF Keeps
<1>2. CASE call[c].op \in Writers["events"]
  BY <1>2, EventSteps DEF Fails, Appends, Advances, Stops, Numbers, Ends, Puts
<1> QED
  BY <1>1, <1>2

\* Revocations that are stored stay, but for a rollback.
LEMMA RevocationsStay ==
  ASSUME StoresSound, NEW c \in setting.clients, Step(c)
  PROVE  db.revocation \subseteq db'.revocation \/ Undone
<1>0. c \in Clients /\ Placed(c) /\ Shaped(db) /\ Working(c)
  BY StepMoves DEF StoresSound, CallsSound, TablesSound
<1>1. CASE call[c].op # "revoke"
  BY <1>1, StepKeeps, WriterNames DEF Keeps
<1>2. CASE call[c].op = "revoke"
  <2>0. pc[c] \notin {"save", "move", "insert", "commit", "again", "patch", "batch", "undo", "hash", "chain"}
    BY <1>0, <1>2, PlaceNames DEF Placed
  <2>1. CASE Memory(c)
    <3>1. MemRevoke(c)
      BY <1>2, <2>0, <2>1 DEF Doing, Memory, MemSave, MemLoad, MemUpdate, MemTransition, MemList, MemDelete,
         MemSaveAuthority, MemLoadAuthority, MemListChildren, MemListBySubject, MemIsRevoked, MemReserve,
         MemUpdateKey, MemGet, MemGc, MemAppend, MemAppendBatch, MemAppendNext, MemRead, MemLastSequence,
         MemAudit, MemVerify, MemListAudit
    <3> DEFINE id == call[c].id
               below == {x \in AuthorityIds : db.authority[x] # None /\ db.authority[x].parent = id}
               struck == {id} \cup (IF call[c].cascade THEN below ELSE {})
               table == [x \in AuthorityIds |->
                           IF x \in struck
                             THEN [db.authority[x] EXCEPT !.text.state = "revoked", !.column = "revoked"]
                             ELSE db.authority[x]]
    <3>2. \/ db' = db
          \/ db' = [db EXCEPT !.revocation = @ \cup struck, !.authority = table]
      BY <3>1 DEF MemRevoke, Tell
    <3>3. table = [i \in AuthorityIds |-> table[i]]
      OBVIOUS
    <3> HIDE DEF struck, table
    <3> QED
      BY <1>0, <1>2, <3>2, <3>3, KeepsButRevoked
  <2>2. CASE Sqlite(c)
    <3>1. SqlRevoke(c)
      BY <1>2, <2>0, <2>2 DEF Doing, Sqlite, SqlSave, SqlLoad, SqlUpdate, SqlTransition, SqlList, SqlDelete,
         SqlSaveAuthority, SqlLoadAuthority, SqlListChildren, SqlListBySubject, SqlIsRevoked, SqlReserve,
         SqlUpdateKey, SqlGet, SqlGc, SqlAppend, SqlAppendBatch, SqlRead, SqlLastSequence, SqlAudit, SqlVerify,
         SqlListAudit
    <3> DEFINE struck == {call[c].id} \cup (IF call[c].cascade THEN Descendants(call[c].id) ELSE {})
               table == [x \in AuthorityIds |->
                           IF x \in struck THEN Struck(db.authority[x]) ELSE db.authority[x]]
    <3>2. \/ Rollback
          \/ db' = [db EXCEPT !.revocation = @ \cup struck, !.authority = table]
      BY <3>1 DEF SqlRevoke, Commit, Revoked
    <3>3. table = [i \in AuthorityIds |-> table[i]]
      OBVIOUS
    <3> HIDE DEF struck, table
    <3> QED
      BY <1>0, <1>2, <3>2, <3>3, KeepsButRevoked DEF Rollback, Undone
  <2>3. CASE Postgres(c)
    <3>1. PgRevoke(c) \/ PgFail(c)
      BY <1>2, <2>0, <2>3 DEF Doing, Postgres, PgSave, PgUpdate, PgTransition, PgMove, PgDelete, PgSaveAuthority,
         PgReserve, PgUpdateKey, PgGc, PgAppend, PgAppendBatch, PgAudit, PgLoad, PgList, PgLoadAuthority,
         PgListChildren, PgListBySubject, PgIsRevoked, PgGet, PgRead, PgLastSequence, PgVerify, PgListAudit
    <3> DEFINE table == [x \in AuthorityIds |->
                           IF x \in mine[c].struck THEN Struck(db.authority[x])
                           ELSE db.authority[x]]
    <3>2. db' = db \/ db' = [db EXCEPT !.revocation = @ \cup mine[c].noted, !.authority = table]
      BY <3>1 DEF PgRevoke, PgFail, Tell
    <3>3. table = [i \in AuthorityIds |-> table[i]]
      OBVIOUS
    <3> HIDE DEF table
    <3> QED
      BY <1>0, <1>2, <3>2, <3>3, KeepsButRevoked
  <2> QED
    BY <2>1, <2>2, <2>3 DEF Step
<1> QED
  BY <1>1, <1>2

------------------------------------------------------------------------------
(* What one call stored, the steps of others leave alone.                  *)

WritesOnly ==
  /\ \A id \in ExecutionIds : db'.execution[id] # db.execution[id] =>
       \E c \in Clients : Writes(c, {"save", "update", "transition", "delete"}) /\ call[c].id = id
  /\ \A s \in Scopes : KeyRows(db', s) # KeyRows(db, s) =>
       \/ s \in Expired
       \/ \E c \in Clients : Writes(c, {"reserve", "updateKey"}) /\ call[c].scope = s
  /\ db.events \subseteq db'.events
  /\ \E n \in 0 .. 1 : Len(db'.audit) = Len(db.audit) + n
  /\ db.revocation \subseteq db'.revocation

LEMMA OnlyNothing ==
  ASSUME IsChain(db.audit), db' = db
  PROVE  WritesOnly
<1>1. Len(db.audit) \in Nat
  BY LastHash
<1> QED
  BY <1>1 DEF WritesOnly

LEMMA OnlyStep ==
  ASSUME StoresSound, RecordsInv, KeysInv, ChainInv, begun = <<>>, NEW c \in setting.clients, Step(c)
  PROVE  WritesOnly
<1>0. c \in Clients /\ pc[c] # "done" /\ ~Undone /\ Shaped(db)
  BY StepMoves, OthersStay DEF Undone, StoresSound, TablesSound
<1>s. pc'[c] = "done" => c \in Stepping
  BY <1>0 DEF Stepping
<1>1. ASSUME NEW id \in ExecutionIds, db'.execution[id] # db.execution[id]
      PROVE  \E x \in Clients : Writes(x, {"save", "update", "transition", "delete"}) /\ call[x].id = id
  <2>1. Records(c) /\ call[c].id = id /\ call[c].op \in Writers["execution"]
    BY <1>0, <1>1, ExecutionStays
  <2> QED
    BY <1>0, <1>s, <2>1, WriterNames DEF Records, Writes
<1>2. ASSUME NEW s \in Scopes, KeyRows(db', s) # KeyRows(db, s), s \notin Expired
      PROVE  \E x \in Clients : Writes(x, {"reserve", "updateKey"}) /\ call[x].scope = s
  <2>1. CASE Creates(c)
    <3>1. PICK entry : db' = WithKey(call[c].scope, KeyRow(entry))
      BY <2>1 DEF Creates
    <3>2. call[c].scope = s
      BY <1>0, <1>2, <3>1, KeyAdded DEF KeyRows
    <3> QED
      BY <1>0, <1>s, <2>1, <3>2 DEF Creates, Writes
  <2>2. CASE Renews(c)
    <3>1. PICK row : db' = WithKey(call[c].scope, row)
      BY <2>2 DEF Renews
    <3>2. call[c].scope = s
      BY <1>0, <1>2, <3>1, KeyAdded DEF KeyRows
    <3> QED
      BY <1>0, <1>s, <2>2, <3>2 DEF Renews, Writes
  <2>3. CASE Clears(c)
    <3>1. PICK gone \in SUBSET Expired : db' = WithoutKeys(gone)
      BY <2>3 DEF Clears
    <3> QED
      BY <1>0, <1>2, <3>1, KeysGone DEF KeyRows
  <2>4. db'.key # db.key
    BY <1>2 DEF KeyRows
  <2> QED
    BY <1>0, <2>1, <2>2, <2>3, <2>4, KeysAfter
<1>3. \E n \in 0 .. 1 : Len(db'.audit) = Len(db.audit) + n
  <2>0. IsChain(db.audit) /\ Len(db.audit) \in Nat
    BY LastHash DEF ChainInv
  <2>1. CASE db'.audit = db.audit
    BY <2>0, <2>1
  <2>2. CASE db'.audit # db.audit
    <3>1. call[c].op = "audit"
      BY <1>0, <2>2, StepKeeps, WriterNames DEF Keeps
    <3>2. AuditAppends(c)
      BY <2>2, <3>1, AuditSteps DEF AuditFails, AuditReads
    <3>3. Follows(answer'[c], db.audit) /\ db'.audit = Append(db.audit, answer'[c])
      BY <3>2 DEF AuditAppends, Follows
    <3>4. Len(db'.audit) = Len(db.audit) + 1
      BY <2>0, <3>3, ChainGrows DEF Grown
    <3> QED
      BY <3>4
  <2> QED
    BY <2>1, <2>2
<1>4. db.events \subseteq db'.events /\ db.revocation \subseteq db'.revocation
  BY <1>0, EventsStay, RevocationsStay
<1> QED
  BY <1>1, <1>2, <1>3, <1>4 DEF WritesOnly

LEMMA OnlyNext ==
  ASSUME StoresSound, RecordsInv, KeysInv, ChainInv, [Next]_vars, BatchesOpen = {}
  PROVE  WritesOnly
<1>1. begun = <<>> /\ IsChain(db.audit)
  BY DEF ChainInv, BatchesOpen, StoresSound, TablesSound
<1>2. ASSUME NEW c \in setting.clients, Step(c) PROVE WritesOnly
  BY <1>1, <1>2, OnlyStep
<1>3. CASE Crash
  BY <1>1, <1>3, OnlyNothing DEF Crash, history, SqlCrash, Rollback
<1>4. ASSUME NEW c \in setting.clients, NEW k \in setting.calls, Invoke(c, k) PROVE WritesOnly
  BY <1>1, <1>4, OnlyNothing DEF Invoke, history, rows
<1>5. CASE Tick \/ UNCHANGED vars
  BY <1>1, <1>5, OnlyNothing DEF Tick, history, vars, rows
<1> QED
  BY <1>2, <1>3, <1>4, <1>5 DEF Next

\* What one call stored, only a call about the same row changes, and what was appended
\* stays, while no SQLite batch is open.
THEOREM OthersKeepWrites == Spec => WritesKept
<1>1. StoresSound /\ RecordsInv /\ KeysInv /\ ChainInv /\ [Next]_vars => (BatchesOpen = {} => WritesOnly)
  BY OnlyNext
<1>2. (BatchesOpen = {} => WritesOnly) <=>
        (BatchesOpen = {} =>
           /\ \A id \in ExecutionIds : db'.execution[id] # db.execution[id] =>
                \E c \in Clients : Writes(c, {"save", "update", "transition", "delete"}) /\ call[c].id = id
           /\ \A s \in Scopes : KeyRows(db', s) # KeyRows(db, s) =>
                \/ s \in Expired
                \/ \E c \in Clients : Writes(c, {"reserve", "updateKey"}) /\ call[c].scope = s
           /\ db.events \subseteq db'.events
           /\ \E n \in 0 .. 1 : Len(db'.audit) = Len(db.audit) + n
           /\ db.revocation \subseteq db'.revocation)
  BY DEF WritesOnly
<1> QED
  BY <1>1, <1>2, SoundInit, SoundStep, RecordsInit, MovesInit, MovesStep, KeysInit, ClaimsInit, KeysAndClaimsStep,
     ChainInit, ChainStep, PTL DEF Spec, WritesKept

------------------------------------------------------------------------------
(* Batches of events.                                                      *)

EventsIn(tables) == {row.event : row \in tables.events}

\* A call that may have stored its events for good.
Contributes(k) ==
  \/ k \in exposed
  \/ /\ answer[k] # Error
     /\ pc[k] \in {"done", "died"} \/ (pc[k] \in {"batch", "undo"} /\ setting.adapter # "postgres")
Traced(tables, but) ==
  \A v \in EventsIn(tables) : \E k \in Clients \ but : Contributes(k) /\ v \in EventsOf(call[k])

\* Of a batch in progress: what is still to do is of its events, and the others are
\* stored, or in PostgreSQL inserted.
InProgress(c) ==
  /\ Todo(c) \in Seq(EventsOf(call[c]))
  /\ setting.adapter = "postgres" =>
       EventsIn([events |-> mine[c].numbered]) \subseteq EventsOf(call[c])
       /\ EventsOf(call[c]) \subseteq EventsIn([events |-> mine[c].numbered]) \cup Range(Todo(c))
  /\ (setting.adapter # "postgres" /\ c \notin exposed) =>
       EventsOf(call[c]) \subseteq EventsIn(db) \cup Range(Todo(c))

BatchInv(c) ==
  /\ c \in exposed => pc[c] \notin {"idle", "called"}
  /\ (pc[c] \in {"batch", "undo"} /\ setting.adapter = "sqlite" /\ c \notin exposed) =>
       begun # <<>> /\ Traced(begun[1], {c})
  /\ pc[c] = "batch" => InProgress(c)
  /\ Answered(c, "batch") => answer[c] \in {Done, Error}
  /\ (Answered(c, "batch") /\ answer[c] = Done /\ c \notin exposed) =>
       /\ EventsOf(call[c]) \subseteq EventsIn(db)
       /\ begun # <<>> => EventsOf(call[c]) \subseteq EventsIn(begun[1])

\* Every event is one of a call that may have stored it, as it is and as a rollback would
\* leave it; and of an open batch of SQLite the rollback would leave nothing.
EventsInv ==
  /\ Traced(db, {}) /\ (begun # <<>> => Traced(begun[1], {}))
  /\ \A c \in Clients : BatchInv(c)

LEMMA RestOfBatch ==
  ASSUME NEW S, NEW q \in Seq(S), q # <<>>
  PROVE  Head(q) \in S /\ Tail(q) \in Seq(S) /\ Range(q) = {Head(q)} \cup Range(Tail(q))
<1>1. /\ Head(q) = q[1] /\ Tail(q) \in Seq(S) /\ Len(q) \in Nat \ {0} /\ Len(Tail(q)) = Len(q) - 1
      /\ \A i \in 1 .. Len(q) - 1 : Tail(q)[i] = q[i + 1]
  BY EmptySeq
<1>2. DOMAIN q = 1 .. Len(q) /\ DOMAIN Tail(q) = 1 .. Len(q) - 1 /\ q[1] \in S
  BY <1>1
<1>3. \A i \in 1 .. Len(q) : i = 1 \/ (i - 1 \in 1 .. Len(q) - 1 /\ Tail(q)[i - 1] = q[i])
  BY <1>1
<1>4. Range(q) \subseteq {Head(q)} \cup Range(Tail(q))
  <2> SUFFICES ASSUME NEW i \in 1 .. Len(q) PROVE q[i] \in {q[1]} \cup Range(Tail(q))
    BY <1>1, <1>2 DEF Range
  <2> QED
    BY <1>2, <1>3 DEF Range
<1>5. Range(Tail(q)) \subseteq Range(q) /\ Head(q) \in Range(q)
  BY <1>1, <1>2 DEF Range
<1> QED
  BY <1>1, <1>2, <1>4, <1>5

LEMMA EventsOfCall ==
  ASSUME NEW k
  PROVE  /\ k.op = "append" => EventsOf(k) = {k.event}
         /\ k.op = "batch" => EventsOf(k) = Range(k.events)
PROOF BY DEF EventsOf

LEMMA OneMore ==
  ASSUME NEW S, NEW event, NEW n
  PROVE  {row.event : row \in S \cup {[event |-> event, row |-> n]}} = {row.event : row \in S} \cup {event}
<1> DEFINE more == S \cup {[event |-> event, row |-> n]}
<1>1. [event |-> event, row |-> n] \in more /\ [event |-> event, row |-> n].event = event
  OBVIOUS
<1>2. \A row \in more : row \in S \/ row.event = event
  OBVIOUS
<1>3. S \subseteq more
  OBVIOUS
<1> HIDE DEF more
<1>4. {row.event : row \in more} \subseteq {row.event : row \in S} \cup {event}
  BY <1>2
<1>5. {row.event : row \in S} \subseteq {row.event : row \in more}
  BY <1>3
<1>6. event \in {row.event : row \in more}
  BY <1>1
<1>7. {row.event : row \in more} = {row.event : row \in S} \cup {event}
  BY <1>4, <1>5, <1>6
<1> QED
  BY <1>7 DEF more

LEMMA PutsEvent ==
  ASSUME NEW event, Puts(event)
  PROVE  EventsIn(db') = EventsIn(db) \cup {event}
<1>1. PICK n : db'.events = db.events \cup {[event |-> event, row |-> n]}
  BY DEF Puts
<1>2. {row.event : row \in db.events \cup {[event |-> event, row |-> n]}}
         = {row.event : row \in db.events} \cup {event}
  BY OneMore
<1>3. EventsIn(db') = {row.event : row \in db.events \cup {[event |-> event, row |-> n]}}
  BY <1>1 DEF EventsIn
<1> QED
  BY <1>2, <1>3 DEF EventsIn

\* What a step of a call adds to the events is of its own events.
LEMMA AddsOwn ==
  ASSUME StoresSound, EventsInv, NEW c \in setting.clients, Step(c), call[c].op \in Writers["events"], ~Fails(c)
  PROVE  /\ EventsIn(db') \subseteq EventsIn(db) \cup EventsOf(call[c])
         /\ EventsIn(db') # EventsIn(db) => Contributes(c)'
         /\ pc[c] \in {"batch", "undo"} =>
              pc'[c] \in {"batch", "undo"} \/ (pc'[c] = "done" /\ answer'[c] = Done)
         /\ answer'[c] # Error
         /\ pc'[c] # "done" => answer'[c] = None
<1>0. c \in Clients /\ call' = call /\ setting' = setting /\ StoresSound'
  BY StepMoves, SoundStep DEF Next
<1>1. pc'[c] # "done" => answer'[c] = None
  BY <1>0 DEF StoresSound, CallsSound
<1>2. (call[c].op = "batch" /\ pc[c] # "undo") =>
         EventsOf(call[c]) = Range(call[c].events) /\ Todo(c) \in Seq(EventsOf(call[c]))
  <2>1. CASE call[c].op = "batch" /\ pc[c] = "called"
    BY <2>1, EventCalls, EventsOfCall DEF Todo
  <2>2. CASE call[c].op = "batch" /\ pc[c] = "batch"
    BY <1>0, <2>2, EventsOfCall DEF EventsInv, BatchInv, InProgress
  <2> QED
    BY <2>1, <2>2, EventCalls
<1>3. CASE Appends(c)
  <2>1. EventsIn(db') = EventsIn(db) \cup EventsOf(call[c])
    BY <1>3, PutsEvent, EventsOfCall DEF Appends
  <2> QED
    BY <1>1, <1>3, <2>1, EventCalls, AnswersAssumption DEF Appends, Contributes
<1>4. CASE Advances(c)
  <2>1. EventsIn(db') = EventsIn(db) \cup {Head(Todo(c))} /\ Head(Todo(c)) \in EventsOf(call[c])
    BY <1>2, <1>4, PutsEvent, RestOfBatch DEF Advances
  <2> QED
    BY <1>0, <1>1, <1>4, <2>1, AnswersAssumption DEF Advances, Contributes
<1>5. CASE Numbers(c) \/ Stops(c)
  BY <1>1, <1>5, AnswersAssumption DEF Numbers, Stops, EventsIn
<1>6. CASE Ends(c)
  <2>1. EventsIn(db') \subseteq EventsIn(db) \cup EventsOf(call[c])
    BY <1>0, <1>6 DEF Ends, EventsIn, EventsInv, BatchInv, InProgress
  <2> QED
    BY <1>1, <1>6, <2>1, AnswersAssumption DEF Ends, Contributes
<1> QED
  BY <1>3, <1>4, <1>5, <1>6, EventSteps

\* A call that may have stored its events still may have, unless it was the batch that
\* fails.
LEMMA ContributesStill ==
  ASSUME StoresSound, EventsInv, NEW c \in setting.clients, Step(c), NEW k \in Clients, Contributes(k),
         k = c /\ Fails(c) /\ pc[c] \in {"batch", "undo"} /\ setting.adapter = "sqlite" => c \in exposed'
  PROVE  Contributes(k)'
<1>0. c \in Clients /\ call' = call /\ setting' = setting /\ Working(c) /\ pc[c] # "done"
  BY StepMoves, OthersStay
<1>1. CASE k \in exposed
  BY <1>1, OthersStay DEF Contributes
<1>2. CASE k # c
  BY <1>0, <1>2, OthersStay DEF Contributes
<1>3. CASE k = c /\ k \notin exposed
  <2>1. pc[c] \in {"batch", "undo"} /\ setting.adapter # "postgres"
    BY <1>0, <1>3, PlaceNames DEF Contributes, Working
  <2>a. setting.adapter \in {"memory", "sqlite", "postgres"}
    BY SettingsAssumption DEF StoresSound
  <2>2. call[c].op \in Writers["events"]
    BY <1>0, <2>1, PlaceNames, WriterNames DEF StoresSound, CallsSound, Placed
  <2>3. CASE Fails(c)
    BY <1>3, <2>1, <2>a, <2>3 DEF Fails, Contributes
  <2>4. CASE ~Fails(c)
    BY <1>0, <1>3, <2>1, <2>2, <2>4, AddsOwn DEF Contributes
  <2> QED
    BY <2>3, <2>4
<1> QED
  BY <1>1, <1>2, <1>3

LEMMA EventOwner ==
  ASSUME NEW tables, NEW but, Traced(tables, but), NEW v \in EventsIn(tables)
  PROVE  \E k \in Clients \ but : Contributes(k) /\ v \in EventsOf(call[k])
PROOF BY DEF Traced

\* After a step too every event is one of a call that may have stored it.
LEMMA TracedStep ==
  ASSUME StoresSound, EventsInv, NEW c \in setting.clients, Step(c)
  PROVE  Traced(db, {})' /\ (begun' # <<>> => Traced(begun[1], {})')
<1>0. c \in Clients /\ call' = call
  BY StepMoves
<1> DEFINE Owned(v) == \E k \in Clients : Contributes(k)' /\ v \in EventsOf(call[k])
           Broken == Fails(c) /\ pc[c] \in {"batch", "undo"} /\ setting.adapter = "sqlite" /\ c \notin exposed'
<1>1. CASE ~Broken
  <2>1. \A k \in Clients : Contributes(k) => Contributes(k)'
    BY <1>1, ContributesStill
  <2>2. \A v \in EventsIn(db) : Owned(v)
    BY <2>1, EventOwner DEF EventsInv
  <2>3. begun # <<>> => \A v \in EventsIn(begun[1]) : Owned(v)
    BY <2>1, EventOwner DEF EventsInv
  <2>4. \A v \in EventsIn(db') : Owned(v)
    <3>1. CASE Undone
      BY <2>3, <3>1 DEF Undone
    <3>2. CASE db'.events = db.events
      BY <2>2, <3>2 DEF EventsIn
    <3>3. CASE call[c].op \in Writers["events"] /\ ~Fails(c)
      <4> SUFFICES ASSUME NEW v \in EventsIn(db') \ EventsIn(db) PROVE Owned(v)
        BY <2>2
      <4> QED
        BY <1>0, <3>3, AddsOwn
    <3>4. call[c].op \notin Writers["events"] => Undone \/ db'.events = db.events
      BY StepKeeps, WriterNames DEF Keeps
    <3>5. Fails(c) => Undone \/ db'.events = db.events
      BY DEF Fails
    <3> QED
      BY <3>1, <3>2, <3>3, <3>4, <3>5
  <2>5. begun' # <<>> => \A v \in EventsIn(begun'[1]) : Owned(v)
    <3>1. begun' \in {begun, <<>>} \/ (begun = <<>> /\ begun' = <<db>>)
      BY StepKeeps DEF Begins
    <3> QED
      BY <2>2, <2>3, <3>1
  <2> QED
    BY <1>0, <2>4, <2>5 DEF Traced, EventsIn, EventsOf
<1>2. CASE Broken
  <2>1. begun # <<>> /\ Traced(begun[1], {c}) /\ Undone
    BY <1>0, <1>2, OthersStay DEF EventsInv, BatchInv, Fails
  <2>2. \A k \in Clients \ {c} : Contributes(k) => Contributes(k)'
    BY ContributesStill
  <2>3. \A v \in EventsIn(begun[1]) : Owned(v)
    BY <2>1, <2>2, EventOwner
  <2> QED
    BY <1>0, <2>1, <2>3 DEF Traced, EventsIn, EventsOf, Undone
<1> QED
  BY <1>1, <1>2

\* Nothing that is stored goes, but with a batch whose owner is then exposed.
LEMMA EventsRemain ==
  ASSUME StoresSound, NEW c \in setting.clients, Step(c), NEW S, S \subseteq EventsIn(db),
         begun # <<>> => S \subseteq EventsIn(begun[1])
  PROVE  S \subseteq EventsIn(db') /\ (begun' # <<>> => S \subseteq EventsIn(begun'[1]))
<1>1. db.events \subseteq db'.events => EventsIn(db) \subseteq EventsIn(db')
  BY DEF EventsIn
<1>2. Undone => EventsIn(db') = EventsIn(begun[1]) /\ begun # <<>>
  BY DEF Undone
<1>3. begun' \in {begun, <<>>} \/ (begun = <<>> /\ begun' = <<db>>)
  BY StepKeeps DEF Begins
<1> QED
  BY <1>1, <1>2, <1>3, EventsStay

LEMMA BatchOthers ==
  ASSUME StoresSound, EventsInv, NEW c \in setting.clients, Step(c), NEW x \in Clients \ {c}
  PROVE  BatchInv(x)'
<1>0. /\ call' = call /\ setting' = setting /\ pc'[x] = pc[x] /\ answer'[x] = answer[x] /\ mine'[x] = mine[x]
      /\ exposed \subseteq exposed'
  BY StepMoves, OthersStay
<1>1. (pc[x] \in {"batch", "undo"} /\ setting.adapter = "sqlite") => x \in exposed'
  BY DEF Step, BatchesOpen
<1>2. x \in exposed' => pc'[x] \notin {"idle", "called"}
  <2>1. CASE x \in exposed
    BY <1>0, <2>1 DEF EventsInv, BatchInv
  <2>2. CASE x \notin exposed
    BY <1>0, <2>2 DEF Step, BatchesOpen
  <2> QED
    BY <2>1, <2>2
<1>3. ASSUME pc'[x] = "batch" PROVE InProgress(x)'
  <2>1. Todo(x)' = Todo(x) /\ InProgress(x)
    BY <1>0, <1>3 DEF Todo, EventsInv, BatchInv
  <2>2. (setting.adapter # "postgres" /\ x \notin exposed') => EventsOf(call[x]) \subseteq EventsIn(db') \cup Range(Todo(x))
    <3> SUFFICES ASSUME setting.adapter # "postgres", x \notin exposed'
                 PROVE  EventsOf(call[x]) \subseteq EventsIn(db') \cup Range(Todo(x))
      OBVIOUS
    <3>1. setting.adapter = "memory"
      BY <1>0, <1>1, <1>3, SettingsAssumption DEF StoresSound
    <3>2. EventsIn(db) \subseteq EventsIn(db')
      <4>1. begun = <<>>
        BY <3>1 DEF StoresSound, TablesSound
      <4> QED
        BY <4>1, EventsRemain
    <3> QED
      BY <1>0, <2>1, <3>2 DEF InProgress
  <2> QED
    BY <1>0, <2>1, <2>2 DEF InProgress, EventsOf, EventsIn
<1>4. Answered(x, "batch")' => answer'[x] \in {Done, Error}
  BY <1>0 DEF EventsInv, BatchInv, Answered
<1>5. ASSUME Answered(x, "batch")', answer'[x] = Done, x \notin exposed'
      PROVE  /\ EventsOf(call[x]) \subseteq EventsIn(db')
             /\ begun' # <<>> => EventsOf(call[x]) \subseteq EventsIn(begun'[1])
  <2>1. /\ EventsOf(call[x]) \subseteq EventsIn(db)
        /\ begun # <<>> => EventsOf(call[x]) \subseteq EventsIn(begun[1])
    BY <1>0, <1>5 DEF EventsInv, BatchInv, Answered
  <2> QED
    BY <2>1, EventsRemain
<1> QED
  BY <1>0, <1>1, <1>2, <1>3, <1>4, <1>5 DEF BatchInv, EventsIn, EventsOf

\* While no other call has run, a rollback would leave what stood before the batch.
LEMMA OpenIsTraced ==
  ASSUME StoresSound, EventsInv, NEW c \in setting.clients, Step(c), setting.adapter = "sqlite",
         c \notin exposed',
         (pc[c] = "called" /\ Begins(c)) \/ (pc[c] = "batch" /\ begun' = begun)
  PROVE  begun' # <<>> /\ Traced(begun[1], {c})'
<1>0. c \in Clients /\ call' = call /\ exposed \subseteq exposed'
  BY StepMoves, OthersStay
<1>1. \A k \in Clients \ {c} : Contributes(k) => Contributes(k)'
  BY ContributesStill
<1>2. CASE pc[c] = "called" /\ Begins(c)
  <2>1. begun' = <<db>> /\ ~Contributes(c)
    BY <1>0, <1>2 DEF Begins, Contributes
  <2>2. \A v \in EventsIn(db) : \E k \in Clients \ {c} : Contributes(k) /\ v \in EventsOf(call[k])
    BY <2>1, EventOwner DEF EventsInv
  <2> QED
    BY <1>0, <1>1, <2>1, <2>2 DEF Traced, EventsIn, EventsOf
<1>3. CASE pc[c] = "batch" /\ begun' = begun
  <2>1. begun # <<>> /\ Traced(begun[1], {c})
    BY <1>0, <1>3 DEF EventsInv, BatchInv
  <2>2. \A v \in EventsIn(begun[1]) : \E k \in Clients \ {c} : Contributes(k) /\ v \in EventsOf(call[k])
    BY <2>1, EventOwner
  <2> QED
    BY <1>0, <1>1, <1>3, <2>1, <2>2 DEF Traced, EventsIn, EventsOf
<1> QED
  BY <1>2, <1>3

LEMMA BatchAdvances ==
  ASSUME StoresSound, EventsInv, NEW c \in setting.clients, Step(c), call[c].op \in Writers["events"],
         Advances(c)
  PROVE  /\ InProgress(c)'
         /\ (setting.adapter = "sqlite" /\ c \notin exposed') => begun' # <<>> /\ Traced(begun[1], {c})'
<1>0. /\ c \in Clients /\ call' = call /\ setting' = setting /\ exposed \subseteq exposed'
      /\ call[c].op = "batch" /\ pc'[c] = "batch" /\ setting.adapter # "postgres"
  BY StepMoves, OthersStay DEF Advances
<1>1. EventsOf(call[c]) = Range(call[c].events) /\ Todo(c) \in Seq(EventsOf(call[c])) /\ Todo(c) # <<>>
  <2>1. CASE pc[c] = "called"
    BY <1>0, <2>1, EventCalls, EventsOfCall DEF Todo
  <2>2. CASE pc[c] = "batch"
    BY <1>0, <2>2, EventsOfCall DEF EventsInv, BatchInv, InProgress, Advances
  <2> QED
    BY <1>0, <2>1, <2>2, EventCalls DEF Advances
<1>2. Todo(c)' = Tail(Todo(c))
  BY <1>0 DEF Todo, Advances
<1>3. /\ Head(Todo(c)) \in EventsOf(call[c]) /\ Tail(Todo(c)) \in Seq(EventsOf(call[c]))
      /\ Range(Todo(c)) = {Head(Todo(c))} \cup Range(Tail(Todo(c)))
  BY <1>1, RestOfBatch
<1>4. EventsIn(db') = EventsIn(db) \cup {Head(Todo(c))}
  BY PutsEvent DEF Advances
<1>5. c \notin exposed => EventsOf(call[c]) \subseteq EventsIn(db) \cup Range(Todo(c))
  <2>1. CASE pc[c] = "called"
    BY <1>1, <2>1 DEF Todo
  <2>2. CASE pc[c] = "batch"
    BY <1>0, <2>2 DEF EventsInv, BatchInv, InProgress
  <2> QED
    BY <2>1, <2>2 DEF Advances
<1>6. InProgress(c)'
  <2>1. c \notin exposed' => EventsOf(call[c]) \subseteq EventsIn(db') \cup Range(Tail(Todo(c)))
    BY <1>0, <1>3, <1>4, <1>5
  <2>2. EventsIn(db)' = EventsIn(db') /\ EventsOf(call[c])' = EventsOf(call[c])
    BY <1>0 DEF EventsIn, EventsOf
  <2> QED
    BY <1>0, <1>2, <1>3, <2>1, <2>2 DEF InProgress
<1>7. (setting.adapter = "sqlite" /\ c \notin exposed') => begun' # <<>> /\ Traced(begun[1], {c})'
  BY OpenIsTraced DEF Advances
<1> QED
  BY <1>0, <1>6, <1>7

LEMMA BatchNumbers ==
  ASSUME StoresSound, EventsInv, NEW c \in setting.clients, Step(c), call[c].op \in Writers["events"],
         Numbers(c)
  PROVE  InProgress(c)'
<1>0. /\ c \in Clients /\ call' = call /\ setting' = setting
      /\ call[c].op = "batch" /\ pc'[c] = "batch" /\ setting.adapter = "postgres"
  BY StepMoves DEF Numbers
<1> DEFINE numbered(n) == Numbered(c) \cup {[event |-> Head(Todo(c)), row |-> n]}
<1>1. /\ Todo(c) \in Seq(EventsOf(call[c])) /\ Todo(c) # <<>>
      /\ {row.event : row \in Numbered(c)} \subseteq EventsOf(call[c])
      /\ EventsOf(call[c]) \subseteq {row.event : row \in Numbered(c)} \cup Range(Todo(c))
  <2>1. CASE pc[c] = "called"
    BY <1>0, <2>1, EventCalls, EventsOfCall DEF Todo, Numbered
  <2>2. CASE pc[c] = "batch"
    BY <1>0, <2>2 DEF EventsInv, BatchInv, InProgress, Numbers, Numbered, EventsIn
  <2> QED
    BY <1>0, <2>1, <2>2, EventCalls DEF Numbers
<1>2. /\ Head(Todo(c)) \in EventsOf(call[c]) /\ Tail(Todo(c)) \in Seq(EventsOf(call[c]))
      /\ Range(Todo(c)) = {Head(Todo(c))} \cup Range(Tail(Todo(c)))
  BY <1>1, RestOfBatch
<1>3. PICK n : mine'[c] = [rest |-> Tail(Todo(c)), numbered |-> numbered(n)]
  BY DEF Numbers
<1>4. Todo(c)' = Tail(Todo(c)) /\ mine'[c].numbered = numbered(n)
  BY <1>0, <1>3 DEF Todo
<1>5. {row.event : row \in numbered(n)} = {row.event : row \in Numbered(c)} \cup {Head(Todo(c))}
  BY OneMore
<1>6. EventsIn([events |-> mine[c].numbered])' = {row.event : row \in numbered(n)}
  BY <1>4 DEF EventsIn
<1>7. EventsOf(call[c])' = EventsOf(call[c])
  BY <1>0 DEF EventsOf
<1> HIDE DEF numbered
<1> QED
  BY <1>0, <1>1, <1>2, <1>4, <1>5, <1>6, <1>7 DEF InProgress

LEMMA BatchOwn ==
  ASSUME StoresSound, EventsInv, NEW c \in setting.clients, Step(c)
  PROVE  BatchInv(c)'
<1>0. /\ c \in Clients /\ call' = call /\ setting' = setting /\ exposed \subseteq exposed'
      /\ setting.adapter \in {"memory", "sqlite", "postgres"}
  BY StepMoves, OthersStay, SettingsAssumption DEF StoresSound
<1>1. pc'[c] \notin {"idle", "called"} /\ (pc'[c] \in {"batch", "undo"} => call[c].op = "batch")
  <2>1. Answers(c) \/ Awaits(c, AwaitsOf[setting.adapter])
    BY StepMoves
  <2>2. AwaitsOf[setting.adapter] \subseteq Within
    BY <1>0, PlaceNames DEF AwaitsOf
  <2> QED
    BY <1>0, <2>1, <2>2, PlaceNames DEF Answers, Awaits, Reply, Await, StoresSound, CallsSound
<1>2. CASE call[c].op \notin Writers["events"]
  <2>1. call[c].op # "batch"
    BY <1>2, WriterNames
  <2> QED
    BY <1>0, <1>1, <2>1 DEF BatchInv, Answered
<1>3. CASE call[c].op \in Writers["events"]
  <2>1. CASE Fails(c)
    <3>1. pc'[c] = "done" /\ answer'[c] = Error
      BY <2>1 DEF Fails
    <3> QED
      BY <1>0, <1>1, <3>1, AnswersAssumption DEF BatchInv, Answered
  <2>2. CASE Appends(c)
    BY <1>0, <1>1, <2>2 DEF Appends, BatchInv, Answered
  <2>3. CASE Advances(c)
    <3>1. pc'[c] = "batch"
      BY <2>3 DEF Advances
    <3>2. /\ InProgress(c)'
          /\ (setting.adapter = "sqlite" /\ c \notin exposed') => begun' # <<>> /\ Traced(begun[1], {c})'
      BY <1>3, <2>3, BatchAdvances
    <3> QED
      BY <1>0, <3>1, <3>2 DEF BatchInv, Answered
  <2>4. CASE Numbers(c)
    <3>1. pc'[c] = "batch" /\ setting.adapter = "postgres"
      BY <2>4 DEF Numbers
    <3>2. InProgress(c)'
      BY <1>3, <2>4, BatchNumbers
    <3> QED
      BY <1>0, <3>1, <3>2 DEF BatchInv, Answered
  <2>5. CASE Ends(c)
    <3>1. /\ pc[c] = "batch" /\ pc'[c] = "done" /\ answer'[c] = Done /\ begun' = <<>> /\ Todo(c) = <<>>
          /\ db'.events = db.events \cup (IF setting.adapter = "postgres" THEN mine[c].numbered ELSE {})
      BY <2>5 DEF Ends
    <3>r. DOMAIN Todo(c) = {}
      BY <3>1
    <3>2. InProgress(c) /\ Range(Todo(c)) = {}
      BY <1>0, <3>1, <3>r DEF EventsInv, BatchInv, Range
    <3>3. c \notin exposed' => EventsOf(call[c]) \subseteq EventsIn(db')
      <4>1. CASE setting.adapter = "postgres"
        <5>1. EventsOf(call[c]) \subseteq EventsIn([events |-> mine[c].numbered])
          BY <3>2, <4>1 DEF InProgress
        <5>2. mine[c].numbered \subseteq db'.events
          BY <3>1, <4>1
        <5> QED
          BY <5>1, <5>2 DEF EventsIn
      <4>2. CASE setting.adapter # "postgres"
        <5>1. c \notin exposed => EventsOf(call[c]) \subseteq EventsIn(db)
          BY <3>2, <4>2 DEF InProgress
        <5> QED
          BY <1>0, <3>1, <4>2, <5>1 DEF EventsIn
      <4> QED
        BY <4>1, <4>2
    <3>4. EventsIn(db)' = EventsIn(db') /\ EventsOf(call[c])' = EventsOf(call[c])
      BY <1>0 DEF EventsIn, EventsOf
    <3> QED
      BY <1>0, <3>1, <3>3, <3>4 DEF BatchInv, Answered
  <2>6. CASE Stops(c)
    <3>1. (setting.adapter = "sqlite" /\ c \notin exposed') => begun' # <<>> /\ Traced(begun[1], {c})'
      BY <2>6, OpenIsTraced DEF Stops
    <3> QED
      BY <1>0, <2>6, <3>1 DEF Stops, BatchInv, Answered
  <2> QED
    BY <1>3, <2>1, <2>2, <2>3, <2>4, <2>5, <2>6, EventSteps
<1> QED
  BY <1>2, <1>3

LEMMA EventsInit == Init => EventsInv
<1> SUFFICES ASSUME Init PROVE EventsInv
  OBVIOUS
<1>1. db.events = {}
  <2>1. db = Tables(db.execution, db.authority)
    BY SettingsAssumption DEF Init
  <2> QED
    BY <2>1 DEF Tables
<1> QED
  BY <1>1 DEF Init, EventsInv, BatchInv, Traced, EventsIn, Answered

\* Without a step of a call nothing is stored, and only a crash takes something away.
LEMMA EventsElse ==
  ASSUME StoresSound, EventsInv, setting' = setting, exposed' = exposed,
         \/ db' = db /\ begun' = begun
         \/ /\ begun' = <<>> /\ (db' = db \/ Undone) /\ setting.adapter = "sqlite"
            /\ \A x \in Clients : pc'[x] \notin {"batch", "undo"},
         \A x \in Clients : /\ answer'[x] = answer[x] /\ mine'[x] = mine[x]
                            /\ \/ pc'[x] = pc[x] /\ call'[x] = call[x]
                               \/ pc[x] = "idle" /\ pc'[x] = "called"
                               \/ /\ pc[x] \notin {"idle", "done"} /\ pc'[x] = "died" /\ call'[x] = call[x]
                                  /\ setting.adapter = "sqlite"
  PROVE  EventsInv'
<1>1. \A k \in Clients : Contributes(k) => Contributes(k)' /\ call'[k] = call[k]
  <2> SUFFICES ASSUME NEW k \in Clients, Contributes(k) PROVE Contributes(k)' /\ call'[k] = call[k]
    OBVIOUS
  <2>1. pc[k] # "idle"
    BY DEF Contributes, EventsInv, BatchInv
  <2> QED
    BY <2>1 DEF Contributes
<1>2. ASSUME NEW tables, NEW but, Traced(tables, but)
      PROVE  \A v \in EventsIn(tables) : \E k \in Clients \ but : Contributes(k)' /\ v \in EventsOf(call'[k])
  BY <1>1, <1>2, EventOwner
<1>3. Traced(db, {})' /\ (begun' # <<>> => Traced(begun[1], {})')
  <2>1. \A v \in EventsIn(db) : \E k \in Clients : Contributes(k)' /\ v \in EventsOf(call'[k])
    BY <1>2 DEF EventsInv
  <2>2. begun # <<>> => \A v \in EventsIn(begun[1]) : \E k \in Clients : Contributes(k)' /\ v \in EventsOf(call'[k])
    BY <1>2 DEF EventsInv
  <2>3. \A v \in EventsIn(db') : \E k \in Clients : Contributes(k)' /\ v \in EventsOf(call'[k])
    BY <2>1, <2>2 DEF Undone
  <2>4. begun' # <<>> => \A v \in EventsIn(begun'[1]) : \E k \in Clients : Contributes(k)' /\ v \in EventsOf(call'[k])
    BY <2>1, <2>2
  <2> QED
    BY <2>3, <2>4 DEF Traced, EventsIn, EventsOf
<1>4. ASSUME NEW x \in Clients PROVE BatchInv(x)'
  <2>0. BatchInv(x)
    BY DEF EventsInv
  <2>1. CASE pc[x] = "idle" /\ pc'[x] = "called"
    BY <2>0, <2>1 DEF BatchInv, Answered
  <2>2. CASE pc[x] \notin {"idle", "done"} /\ pc'[x] = "died"
    BY <2>2 DEF BatchInv, Answered
  <2>3. CASE pc'[x] = pc[x] /\ call'[x] = call[x]
    <3>1. CASE pc[x] \in {"batch", "undo"}
      <4>1. db' = db /\ begun' = begun
        BY <2>3, <3>1
      <4>2. pc[x] = "batch" => InProgress(x)'
        BY <2>0, <2>3, <3>1, <4>1 DEF BatchInv, InProgress, Todo, EventsIn, EventsOf
      <4>3. (setting.adapter = "sqlite" /\ x \notin exposed) => begun' # <<>> /\ Traced(begun[1], {x})'
        <5> SUFFICES ASSUME setting.adapter = "sqlite", x \notin exposed
                     PROVE  begun' # <<>> /\ Traced(begun[1], {x})'
          OBVIOUS
        <5>1. begun # <<>> /\ Traced(begun[1], {x})
          BY <2>0, <3>1 DEF BatchInv
        <5>2. \A v \in EventsIn(begun[1]) : \E k \in Clients \ {x} : Contributes(k)' /\ v \in EventsOf(call'[k])
          BY <1>2, <5>1
        <5> QED
          BY <4>1, <5>1, <5>2 DEF Traced, EventsIn, EventsOf
      <4> QED
        BY <2>0, <2>3, <3>1, <4>2, <4>3 DEF BatchInv, Answered
    <3>2. CASE pc[x] \notin {"batch", "undo"}
      BY <2>0, <2>3, <3>2 DEF BatchInv, Answered, EventsIn, EventsOf, Undone
    <3> QED
      BY <3>1, <3>2
  <2> QED
    BY <2>1, <2>2, <2>3
<1> QED
  BY <1>3, <1>4 DEF EventsInv

LEMMA EventsStep == StoresSound /\ EventsInv /\ [Next]_vars => EventsInv'
<1> SUFFICES ASSUME StoresSound, EventsInv, [Next]_vars PROVE EventsInv'
  OBVIOUS
<1>1. ASSUME NEW c \in setting.clients, Step(c) PROVE EventsInv'
  <2>1. Traced(db, {})' /\ (begun' # <<>> => Traced(begun[1], {})')
    BY <1>1, TracedStep
  <2>2. \A x \in Clients : BatchInv(x)'
    BY <1>1, BatchOwn, BatchOthers
  <2> QED
    BY <2>1, <2>2 DEF EventsInv
<1>2. ASSUME NEW c \in setting.clients, NEW k \in setting.calls, Invoke(c, k) PROVE EventsInv'
  BY <1>2, EventsElse DEF Invoke, history, rows, StoresSound, CallsSound
<1>3. CASE Crash
  <2>1. /\ setting.adapter = "sqlite" /\ setting' = setting /\ exposed' = exposed /\ begun' = <<>>
        /\ db' = db \/ Undone
        /\ \A x \in Clients : /\ pc'[x] = IF pc[x] \in {"idle", "done"} THEN pc[x] ELSE "died"
                              /\ call'[x] = call[x] /\ answer'[x] = answer[x] /\ mine'[x] = mine[x]
    BY <1>3 DEF Crash, history, SqlCrash, Rollback, Undone
  <2> QED
    BY <2>1, EventsElse
<1>4. CASE UNCHANGED vars \/ Tick
  BY <1>4, EventsElse DEF vars, Tick, history, rows, calls
<1> QED
  BY <1>1, <1>2, <1>3, <1>4 DEF Next

\* A batch of events is stored as a whole or not at all, whatever runs beside it, unless
\* another call of the same SQLite connection ran in between.
THEOREM BatchesAreWhole == Spec => []BatchIsWhole
<1>1. EventsInv => BatchIsWhole
  <2> SUFFICES ASSUME EventsInv, NEW c \in Clients, Answered(c, "batch"), c \notin exposed PROVE Whole(c)
    BY DEF BatchIsWhole
  <2>1. BatchInv(c) /\ {row.event : row \in db.events} = EventsIn(db)
    BY DEF EventsInv, EventsIn
  <2>2. CASE answer[c] = Done
    BY <2>1, <2>2 DEF BatchInv, Whole
  <2>3. CASE answer[c] = Error
    <3>1. ~Contributes(c) /\ answer[c] # Done
      BY <2>3, AnswersAssumption DEF Contributes
    <3>2. \A v \in EventsIn(db) : \E k \in Clients : Contributes(k) /\ v \in EventsOf(call[k])
      BY EventOwner DEF EventsInv
    <3>3. \A k \in Clients : Contributes(k) => k # c /\ (answer[k] # Error \/ k \in exposed)
      BY <3>1 DEF Contributes
    <3> QED
      BY <2>1, <3>1, <3>2, <3>3 DEF Whole
  <2> QED
    BY <2>1, <2>2, <2>3 DEF BatchInv
<1> QED
  BY <1>1, SoundInit, SoundStep, EventsInit, EventsStep, PTL DEF Spec

------------------------------------------------------------------------------
(* Revocation.                                                             *)

Less == OpToRel(<, Nat)

LEMMA SetInduction ==
  ASSUME NEW S, 0 \in S, \A n \in Nat : n \in S => n + 1 \in S
  PROVE  Nat \subseteq S
<1>1. Less = {p \in Nat \X Nat : p[1] < p[2]}
  BY DEF Less, OpToRel
<1>2. IsWellFoundedOn(Less, Nat)
  BY NatLessThanWellFounded DEF Less
<1>3. SUFFICES ASSUME Nat \ S # {}
               PROVE  FALSE
  OBVIOUS
<1>4. PICK x \in Nat \ S : \A y \in Nat \ S : <<y, x>> \notin Less
  BY <1>2, <1>3, WFMin
<1>5. x # 0 /\ x - 1 \in Nat
  BY <1>4
<1>6. x - 1 \in S
  <2>1. <<x - 1, x>> \in Less
    BY <1>1, <1>5
  <2> QED
    BY <1>4, <1>5, <2>1
<1> QED
  BY <1>4, <1>5, <1>6

\* A set that holds the children of id and those of its members holds all that is below id.
LEMMA ClosedBelow ==
  ASSUME NEW id, NEW S, ChildrenOf({id} \cup S) \subseteq S, NEW x, NEW without, IsAbove(id, x, without)
  PROVE  x \in S
<1>a. PICK path \in UNION {[1 .. n -> AuthorityIds] : n \in 2 .. Cardinality(AuthorityIds)} :
        /\ path[1] = x /\ path[Len(path)] = id
        /\ \A i \in 1 .. Len(path) - 1 : db.authority[path[i]] # None /\ db.authority[path[i]].parent = path[i + 1]
  BY DEF IsAbove
<1>1. PICK n \in 2 .. Cardinality(AuthorityIds) : path \in [1 .. n -> AuthorityIds]
  BY <1>a
<1>2. n \in Nat /\ n >= 2
  BY <1>1
<1>3. Len(path) = n
  BY <1>1, <1>2
<1>4. \A i \in 1 .. n - 1 : path[i + 1] \in {id} \cup S => path[i] \in S
  <2> SUFFICES ASSUME NEW i \in 1 .. n - 1, path[i + 1] \in {id} \cup S PROVE path[i] \in S
    OBVIOUS
  <2>1. db.authority[path[i]] # None /\ db.authority[path[i]].parent = path[i + 1]
    BY <1>a, <1>3
  <2>2. path[i] \in AuthorityIds
    BY <1>1, <1>2
  <2> QED
    BY <2>1, <2>2 DEF ChildrenOf
<1> DEFINE Held == {j \in Nat : j <= n - 2 => path[n - 1 - j] \in S}
<1>5. 0 \in Held
  <2>1. n - 1 \in 1 .. n - 1 /\ path[n - 1 + 1] = id /\ n - 1 - 0 = n - 1
    BY <1>a, <1>2, <1>3
  <2> QED
    BY <1>4, <2>1
<1>6. ASSUME NEW j \in Nat, j \in Held PROVE j + 1 \in Held
  <2> SUFFICES ASSUME j + 1 <= n - 2 PROVE path[n - 1 - (j + 1)] \in S
    OBVIOUS
  <2>1. path[n - 1 - j] \in S
    BY <1>2, <1>6
  <2>2. n - 1 - (j + 1) \in 1 .. n - 1 /\ (n - 1 - (j + 1)) + 1 = n - 1 - j
    BY <1>2
  <2> QED
    BY <1>4, <2>1, <2>2
<1> HIDE DEF Held
<1>7. Nat \subseteq Held
  BY <1>5, <1>6, SetInduction
<1>8. n - 2 \in Nat /\ n - 1 - (n - 2) = 1
  BY <1>2
<1>9. path[n - 1 - (n - 2)] \in S
  BY <1>2, <1>7, <1>8 DEF Held
<1> QED
  BY <1>a, <1>8, <1>9

LEMMA AboveIsId ==
  ASSUME NEW id, NEW x \in AuthorityIds, NEW without, IsAbove(id, x, without)
  PROVE  x \in Descendants(id) /\ x \in PgDescendants(id)
PROOF BY ClosedBelow DEF Descendants, PgDescendants

\* What a revocation notes besides the authority itself.
Below(c) ==
  CASE setting.adapter = "memory" ->
         {x \in AuthorityIds : db.authority[x] # None /\ db.authority[x].parent = call[c].id}
    [] setting.adapter = "sqlite" -> Descendants(call[c].id)
    [] setting.adapter = "postgres" -> mine[c].noted

LEMMA RevokeStep ==
  ASSUME StoresSound, NEW c \in setting.clients, Step(c), call[c].op = "revoke", call[c].cascade,
         pc'[c] = "done", answer'[c] = TRUE
  PROVE  Below(c) \subseteq db'.revocation /\ (setting.adapter = "postgres" => pc[c] = "end")
<1>0. c \in Clients /\ Placed(c) /\ Shaped(db) /\ Working(c)
  BY StepMoves DEF StoresSound, CallsSound, TablesSound
<1>a. \A value : Reply(c, value) => answer'[c] = value
  BY <1>0 DEF Reply, StoresSound, CallsSound
<1>b. \A place, value : Await(c, place, value) => pc'[c] = place
  BY <1>0 DEF Await, StoresSound, CallsSound
<1>c. Error # TRUE
  BY AnswersAssumption
<1>d. pc[c] \notin {"save", "move", "insert", "commit", "again", "patch", "batch", "undo", "hash", "chain"}
  BY <1>0, PlaceNames DEF Placed
<1>1. CASE setting.adapter = "memory" /\ Memory(c)
  <2>1. MemRevoke(c)
    BY <1>d, <1>1 DEF Doing, Memory, MemSave, MemLoad, MemUpdate, MemTransition, MemList, MemDelete,
       MemSaveAuthority, MemLoadAuthority, MemListChildren, MemListBySubject, MemIsRevoked, MemReserve,
       MemUpdateKey, MemGet, MemGc, MemAppend, MemAppendBatch, MemAppendNext, MemRead, MemLastSequence,
       MemAudit, MemVerify, MemListAudit
  <2> DEFINE below == {x \in AuthorityIds : db.authority[x] # None /\ db.authority[x].parent = call[c].id}
             struck == {call[c].id} \cup below
             table == [x \in AuthorityIds |->
                         IF x \in struck
                         THEN [db.authority[x] EXCEPT !.text.state = "revoked", !.column = "revoked"]
                         ELSE db.authority[x]]
  <2>2. db' = [db EXCEPT !.revocation = @ \cup struck, !.authority = table]
    BY <1>a, <2>1 DEF MemRevoke, Tell
  <2>3. table = [i \in AuthorityIds |-> table[i]] /\ below \subseteq struck
    OBVIOUS
  <2>4. Below(c) = below
    BY <1>1 DEF Below
  <2> HIDE DEF struck, table, below
  <2>5. db'.revocation = db.revocation \cup struck
    BY ONLY <1>0, <2>2, <2>3, call[c].op = "revoke", KeepsButRevoked
  <2> QED
    BY <1>1, <2>3, <2>4, <2>5
<1>2. CASE setting.adapter = "sqlite" /\ Sqlite(c)
  <2>1. SqlRevoke(c)
    BY <1>d, <1>2 DEF Doing, Sqlite, SqlSave, SqlLoad, SqlUpdate, SqlTransition, SqlList, SqlDelete,
       SqlSaveAuthority, SqlLoadAuthority, SqlListChildren, SqlListBySubject, SqlIsRevoked, SqlReserve,
       SqlUpdateKey, SqlGet, SqlGc, SqlAppend, SqlAppendBatch, SqlRead, SqlLastSequence, SqlAudit, SqlVerify,
       SqlListAudit
  <2> DEFINE struck == {call[c].id} \cup Descendants(call[c].id)
             table == [x \in AuthorityIds |->
                         IF x \in struck THEN Struck(db.authority[x]) ELSE db.authority[x]]
  <2>2. db' = [db EXCEPT !.revocation = @ \cup struck, !.authority = table]
    BY <1>a, <2>1 DEF SqlRevoke, Commit, Revoked
  <2>3. table = [i \in AuthorityIds |-> table[i]] /\ Descendants(call[c].id) \subseteq struck
    OBVIOUS
  <2>4. Below(c) = Descendants(call[c].id)
    BY <1>2 DEF Below
  <2> HIDE DEF struck, table
  <2>5. db'.revocation = db.revocation \cup struck
    BY ONLY <1>0, <2>2, <2>3, call[c].op = "revoke", KeepsButRevoked
  <2> QED
    BY <1>2, <2>3, <2>4, <2>5
<1>3. CASE setting.adapter = "postgres" /\ Postgres(c)
  <2>1. PgRevoke(c)
    <3>1. PgRevoke(c) \/ PgFail(c)
      BY <1>d, <1>3 DEF Doing, Postgres, PgSave, PgUpdate, PgTransition, PgMove, PgDelete, PgSaveAuthority,
         PgReserve, PgUpdateKey, PgGc, PgAppend, PgAppendBatch, PgAudit, PgLoad, PgList, PgLoadAuthority,
         PgListChildren, PgListBySubject, PgIsRevoked, PgGet, PgRead, PgLastSequence, PgVerify, PgListAudit
    <3> QED
      BY <1>a, <1>c, <3>1 DEF PgFail, Tell
  <2> DEFINE noted == mine[c].noted
             table == [x \in AuthorityIds |->
                         IF x \in mine[c].struck THEN Struck(db.authority[x]) ELSE db.authority[x]]
  <2>2. db' = [db EXCEPT !.revocation = @ \cup noted, !.authority = table] /\ pc[c] = "end"
    BY <1>a, <1>b, <2>1 DEF PgRevoke
  <2>3. table = [i \in AuthorityIds |-> table[i]]
    OBVIOUS
  <2>4. Below(c) = noted
    BY <1>3 DEF Below
  <2> HIDE DEF noted, table
  <2>5. db'.revocation = db.revocation \cup noted
    BY ONLY <1>0, <2>2, <2>3, call[c].op = "revoke", KeepsButRevoked
  <2> QED
    BY <2>2, <2>4, <2>5
<1> QED
  BY <1>1, <1>2, <1>3 DEF Step

\* In PostgreSQL a row that is there keeps its parent: saveAuthority() updates other
\* columns, and revoke() the state only.
LEMMA ParentsStay ==
  ASSUME StoresSound, NEW c \in setting.clients, Step(c), setting.adapter = "postgres",
         NEW x \in AuthorityIds, db.authority[x] # None
  PROVE  db'.authority[x].parent = db.authority[x].parent
<1>0. c \in Clients /\ Placed(c) /\ Shaped(db) /\ Working(c) /\ Postgres(c)
  BY StepMoves DEF StoresSound, CallsSound, TablesSound, Step
<1>a. "authority" \in TableNames /\ Writers["authority"] = {"saveAuthority", "revoke"}
  BY DEF TableNames, Writers
<1>1. CASE call[c].op \notin Writers["authority"]
  <2>1. Keeps(c)
    BY StepKeeps
  <2>2. db'.authority = db.authority
    BY <1>1, <1>a, <2>1 DEF Keeps
  <2> QED
    BY <2>2
<1>b. call[c].op \in Writers["authority"] =>
        pc[c] \notin {"save", "move", "insert", "commit", "again", "patch", "batch", "undo", "hash", "chain"}
  BY <1>0, <1>a, PlaceNames DEF Placed
<1>2. CASE call[c].op = "saveAuthority"
  <2>1. PgSaveAuthority(c) \/ PgFail(c)
    <3>1. ~PgRevoke(c)
      BY <1>0, <1>2, PlaceNames DEF PgRevoke, Placed, Doing
    <3> QED
      BY <1>0, <1>2, <1>a, <1>b, <3>1 DEF Doing, Postgres, PgSave, PgUpdate, PgTransition, PgMove, PgDelete,
         PgReserve, PgUpdateKey, PgGc, PgAppend, PgAppendBatch, PgAudit, PgLoad, PgList, PgLoadAuthority,
         PgListChildren, PgListBySubject, PgIsRevoked, PgGet, PgRead, PgLastSequence, PgVerify, PgListAudit
  <2>2. CASE PgSaveAuthority(c)
    <3> DEFINE id == call[c].id
               row == IF db.authority[id] = None THEN AuthorityRow(call[c].record)
                      ELSE Merged(db.authority[id], call[c].record)
    <3>1. db' = [db EXCEPT !["authority"][id] = row]
      BY <2>2 DEF PgSaveAuthority, Write
    <3>2. x = id => row.parent = db.authority[x].parent
      BY DEF Merged
    <3> HIDE DEF row
    <3>3. db'.authority[x] = IF x = id THEN row ELSE db.authority[x]
      BY <1>0, <3>1 DEF Shaped, TableNames
    <3> QED
      BY <3>2, <3>3
  <2>3. CASE PgFail(c)
    BY <2>3 DEF PgFail, Tell
  <2> QED
    BY <2>1, <2>2, <2>3
<1>3. CASE call[c].op = "revoke"
  <2>1. PgRevoke(c) \/ PgFail(c)
    BY <1>0, <1>3, <1>a, <1>b DEF Doing, Postgres, PgSave, PgUpdate, PgTransition, PgMove, PgDelete,
       PgSaveAuthority, PgReserve, PgUpdateKey, PgGc, PgAppend, PgAppendBatch, PgAudit, PgLoad, PgList,
       PgLoadAuthority, PgListChildren, PgListBySubject, PgIsRevoked, PgGet, PgRead, PgLastSequence, PgVerify,
       PgListAudit
  <2> DEFINE table == [y \in AuthorityIds |->
                         IF y \in mine[c].struck THEN Struck(db.authority[y]) ELSE db.authority[y]]
  <2>2. db' = db \/ db' = [db EXCEPT !.revocation = @ \cup mine[c].noted, !.authority = table]
    BY <2>1 DEF PgRevoke, PgFail, Tell
  <2>3. table[x].parent = db.authority[x].parent
    BY DEF Struck
  <2> HIDE DEF table
  <2>4. db'.authority = db.authority \/ db'.authority = table
    BY <1>0, <2>2 DEF Shaped, TableNames
  <2> QED
    BY <2>3, <2>4
<1> QED
  BY <1>1, <1>2, <1>3, <1>a

\* What is below the authority when revoke() is about to end was noted by its last query,
\* but for what was stored since.
CascadeInv ==
  \A c \in Clients :
    (pc[c] = "end" /\ setting.adapter = "postgres" /\ call[c].cascade)
      => \A x \in AuthorityIds : IsAbove(call[c].id, x, late[c]) => x \in mine[c].noted

\* A chain of parents that avoids what this step stores first was there before the step.
LEMMA ChainWasThere ==
  ASSUME StoresSound, NEW d \in setting.clients, Step(d), setting.adapter = "postgres",
         NEW c \in Clients, pc[c] = "end", NEW id, NEW x, IsAbove(id, x, late[c])'
  PROVE  IsAbove(id, x, late[c])
<1>1. late'[c] = late[c] \cup FirstStored
  BY DEF Step
<1> DEFINE Paths == UNION {[1 .. n -> AuthorityIds] : n \in 2 .. Cardinality(AuthorityIds)}
<1>2. PICK path \in Paths :
        /\ path[1] = x /\ path[Len(path)] = id
        /\ \A i \in 1 .. Len(path) - 1 :
             /\ path[i] \notin late'[c]
             /\ db'.authority[path[i]] # None /\ db'.authority[path[i]].parent = path[i + 1]
  BY DEF IsAbove
<1>3. PICK n \in 2 .. Cardinality(AuthorityIds) : path \in [1 .. n -> AuthorityIds]
  BY <1>2
<1>4. n \in Nat /\ n >= 2 /\ Len(path) = n
  BY <1>3
<1>5. ASSUME NEW i \in 1 .. Len(path) - 1
      PROVE  /\ path[i] \notin late[c]
             /\ db.authority[path[i]] # None /\ db.authority[path[i]].parent = path[i + 1]
  <2>1. path[i] \in AuthorityIds
    BY <1>3, <1>4
  <2>2. path[i] \notin late[c] /\ path[i] \notin FirstStored
    BY <1>1, <1>2
  <2>3. db.authority[path[i]] # None
    BY <1>2, <2>1, <2>2 DEF FirstStored
  <2>4. db'.authority[path[i]].parent = db.authority[path[i]].parent
    BY <2>1, <2>3, ParentsStay
  <2> QED
    BY <1>2, <2>2, <2>3, <2>4
<1> QED
  BY <1>2, <1>5 DEF IsAbove

LEMMA CascadeOwn ==
  ASSUME StoresSound, NEW c \in setting.clients, Step(c), setting.adapter = "postgres", call[c].cascade,
         pc'[c] = "end", NEW x \in AuthorityIds, IsAbove(call[c].id, x, late[c])'
  PROVE  x \in mine'[c].noted
<1>0. c \in Clients /\ Placed(c) /\ Postgres(c) /\ call' = call
  BY StepMoves DEF StoresSound, CallsSound, Step
<1>a. \A place, value : Await(c, place, value) => pc'[c] = place /\ mine'[c] = value
  BY <1>0 DEF Await, StoresSound, CallsSound
<1>b. \A value : Reply(c, value) => pc'[c] = "done"
  BY <1>0 DEF Reply, StoresSound, CallsSound
<1>1. PgRevoke(c)
  <2> USE DEF Doing, Tell
  <2>1. ~PgUpdate(c) /\ ~PgTransition(c) /\ ~PgMove(c) /\ ~PgUpdateKey(c) /\ ~PgFail(c)
    BY <1>a, <1>b DEF PgUpdate, PgTransition, PgMove, PgUpdateKey, PgFail
  <2>2. ~PgReserve(c)
    BY <1>a, <1>b DEF PgReserve
  <2>3. ~PgAppendBatch(c) /\ ~PgAudit(c)
    BY <1>a, <1>b DEF PgAppendBatch, PgInsertEvent, PgAudit
  <2>4. ~PgSave(c) /\ ~PgDelete(c) /\ ~PgSaveAuthority(c) /\ ~PgGc(c) /\ ~PgAppend(c)
    BY <1>b DEF PgSave, PgDelete, PgSaveAuthority, PgGc, PgAppend
  <2> QED
    BY <1>0, <1>b, <2>1, <2>2, <2>3, <2>4 DEF Postgres, PgLoad, PgList, PgLoadAuthority, PgListChildren,
       PgListBySubject, PgIsRevoked, PgGet, PgRead, PgLastSequence, PgVerify, PgListAudit
<1>2. /\ db' = db /\ pc[c] # "end"
      /\ mine'[c] = [struck |-> mine[c].struck, noted |-> {call[c].id} \cup PgDescendants(call[c].id)]
  BY <1>1, <1>a, <1>b DEF PgRevoke, Noted, Doing
<1>3. IsAbove(call[c].id, x, late'[c])
  BY <1>0, <1>2 DEF IsAbove
<1> QED
  BY <1>2, <1>3, AboveIsId

LEMMA CascadeInit == Init => CascadeInv
PROOF BY DEF Init, CascadeInv

LEMMA CascadeElse ==
  ASSUME CascadeInv, db' = db, late' = late, mine' = mine, setting' = setting,
         \A c \in Clients : pc'[c] = "end" => pc[c] = "end" /\ call'[c] = call[c]
  PROVE  CascadeInv'
<1> SUFFICES ASSUME NEW c \in Clients, pc'[c] = "end", setting'.adapter = "postgres", call'[c].cascade,
                    NEW x \in AuthorityIds, IsAbove(call[c].id, x, late[c])'
             PROVE  x \in mine'[c].noted
  BY DEF CascadeInv
<1>1. pc[c] = "end" /\ call'[c] = call[c]
  OBVIOUS
<1>2. IsAbove(call[c].id, x, late[c])
  BY <1>1 DEF IsAbove
<1> QED
  BY <1>1, <1>2 DEF CascadeInv

LEMMA CascadeStep == StoresSound /\ CascadeInv /\ [Next]_vars => CascadeInv'
<1> SUFFICES ASSUME StoresSound, CascadeInv, [Next]_vars PROVE CascadeInv'
  OBVIOUS
<1>1. ASSUME NEW d \in setting.clients, Step(d) PROVE CascadeInv'
  <2> SUFFICES ASSUME NEW c \in Clients, pc'[c] = "end", setting'.adapter = "postgres", call'[c].cascade,
                      NEW x \in AuthorityIds, IsAbove(call[c].id, x, late[c])'
               PROVE  x \in mine'[c].noted
    BY DEF CascadeInv
  <2>1. setting' = setting /\ call' = call
    BY <1>1, StepMoves
  <2>2. CASE c = d
    BY <1>1, <2>1, <2>2, CascadeOwn
  <2>3. CASE c # d
    <3>1. pc'[c] = pc[c] /\ mine'[c] = mine[c]
      BY <1>1, <2>3, OthersStay
    <3>2. IsAbove(call[c].id, x, late[c])
      <4>1. IsAbove(call[c].id, x, late[c])' => \A id : id = call[c].id => IsAbove(id, x, late[c])'
        BY <2>1 DEF IsAbove
      <4> QED
        BY <1>1, <2>1, <3>1, <4>1, ChainWasThere
    <3> QED
      BY <2>1, <3>1, <3>2 DEF CascadeInv
  <2> QED
    BY <2>2, <2>3
<1>2. ASSUME NEW c \in setting.clients, NEW k \in setting.calls, Invoke(c, k) PROVE CascadeInv'
  <2>1. /\ db' = db /\ late' = late /\ mine' = mine /\ setting' = setting
        /\ \A x \in Clients : pc'[x] = "end" => pc[x] = "end" /\ call'[x] = call[x]
    BY <1>2 DEF Invoke, rows, history, StoresSound, CallsSound
  <2> QED
    BY <2>1, CascadeElse
<1>3. CASE Crash
  BY <1>3 DEF Crash, CascadeInv
<1>4. CASE UNCHANGED vars \/ Tick
  BY <1>4, CascadeElse DEF Tick, vars, rows, calls, history
<1> QED
  BY <1>1, <1>2, <1>3, <1>4 DEF Next

\* What CascadeReaches says of a step.
Reached ==
  \A c \in Clients :
    (c \in Stepping /\ call[c].op = "revoke" /\ pc'[c] = "done" /\ answer'[c] = TRUE /\ call[c].cascade)
      => \A x \in AuthorityIds :
           (IF setting.adapter = "memory"
            THEN db.authority[x] # None /\ db.authority[x].parent = call[c].id
            ELSE IsAbove(call[c].id, x, late[c]))
             => x \in db'.revocation

LEMMA BelowIsNoted ==
  ASSUME CascadeInv, NEW c \in Clients, call[c].cascade,
         setting.adapter \in {"memory", "sqlite"} \/ (setting.adapter = "postgres" /\ pc[c] = "end"),
         NEW x \in AuthorityIds,
         IF setting.adapter = "memory"
         THEN db.authority[x] # None /\ db.authority[x].parent = call[c].id
         ELSE IsAbove(call[c].id, x, late[c])
  PROVE  x \in Below(c)
<1>1. CASE setting.adapter = "memory"
  BY <1>1 DEF Below
<1>2. CASE setting.adapter = "sqlite"
  BY <1>2, AboveIsId DEF Below
<1>3. CASE setting.adapter = "postgres"
  BY <1>3 DEF Below, CascadeInv
<1> QED
  BY <1>1, <1>2, <1>3

LEMMA ReachedStep == StoresSound /\ CascadeInv /\ [Next]_vars => Reached
<1> SUFFICES ASSUME StoresSound, CascadeInv, [Next]_vars PROVE Reached
  OBVIOUS
<1>1. ASSUME NEW c \in setting.clients, Step(c) PROVE Reached
  <2> SUFFICES ASSUME NEW d \in Clients, d \in Stepping, call[d].op = "revoke", pc'[d] = "done",
                      answer'[d] = TRUE, call[d].cascade
               PROVE  \A x \in AuthorityIds :
                        (IF setting.adapter = "memory"
                         THEN db.authority[x] # None /\ db.authority[x].parent = call[d].id
                         ELSE IsAbove(call[d].id, x, late[d]))
                          => x \in db'.revocation
    BY DEF Reached
  <2>1. d = c
    BY <1>1, OthersStay DEF Stepping
  <2>2. Below(c) \subseteq db'.revocation /\ (setting.adapter = "postgres" => pc[c] = "end")
    BY <1>1, <2>1, RevokeStep
  <2>3. setting.adapter \in {"memory", "sqlite", "postgres"}
    BY SettingsAssumption DEF StoresSound
  <2> QED
    BY <2>1, <2>2, <2>3, BelowIsNoted
<1>2. CASE \A d \in Clients : pc'[d] = "done" => pc'[d] = pc[d] /\ mine'[d] = mine[d]
  BY <1>2 DEF Reached, Stepping
<1>3. ASSUME NEW c \in setting.clients, NEW k \in setting.calls, Invoke(c, k) PROVE Reached
  BY <1>2, <1>3 DEF Invoke, StoresSound, CallsSound
<1>4. CASE Crash
  BY <1>2, <1>4 DEF Crash, SqlCrash
<1>5. CASE Tick \/ UNCHANGED vars
  BY <1>2, <1>5 DEF Tick, vars, calls
<1> QED
  BY <1>1, <1>3, <1>4, <1>5 DEF Next

\* A revocation that was answered has noted all that is below the authority, at every
\* depth, but for what PostgreSQL stored after its last query; in memory, its children.
THEOREM RevocationsReach == Spec => CascadeReaches
<1>1. StoresSound /\ CascadeInv /\ [Next]_vars => Reached
  BY ReachedStep
<1>2. Reached <=>
        \A c \in Clients :
          (c \in Stepping /\ call[c].op = "revoke" /\ pc'[c] = "done" /\ answer'[c] = TRUE /\ call[c].cascade)
            => \A x \in AuthorityIds :
                 (IF setting.adapter = "memory"
                  THEN db.authority[x] # None /\ db.authority[x].parent = call[c].id
                  ELSE IsAbove(call[c].id, x, late[c]))
                   => x \in db'.revocation
  BY DEF Reached
<1> QED
  BY <1>1, <1>2, SoundInit, SoundStep, CascadeInit, CascadeStep, PTL DEF Spec, CascadeReaches

==============================================================================
