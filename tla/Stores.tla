-------------------------------- MODULE Stores --------------------------------
(***************************************************************************)
(* Concurrent calls of the store methods over one of the three adapters.   *)
(***************************************************************************)
EXTENDS MemoryStores, SqliteStores, PostgresStores

CONSTANTS Settings, MaxTime

ExecutionOps == {"save", "load", "update", "transition", "delete"}

HasState(record) == record = None \/ "state" \in DOMAIN record

\* An execution has a state, a reservation an expiry to set, which no caller of
\* update() changes, and a batch is not empty.
CallSound(k) ==
  /\ k.op \in ExecutionOps => k.id \in ExecutionIds
  /\ k.op = "save" => HasState(k.record)
  /\ k.op = "revoke" => k.id \in AuthorityIds
  /\ k.op = "reserve" => /\ k.scope \in Scopes /\ k.ttl \in Nat
                         /\ k.entry = [f \in DOMAIN k.entry |-> k.entry[f]]
                         /\ "expires" \in DOMAIN k.entry
  /\ k.op = "updateKey" => "expires" \notin DOMAIN k.patch
  /\ k.op = "append" => k.event.id \in EventIds
  /\ k.op = "batch" => /\ k.events \in Seq(Range(k.events)) /\ k.events # <<>>
                       /\ \A e \in Range(k.events) : e.id \in EventIds

\* At first there are executions and authorities only.
ASSUME SettingsAssumption ==
  \A s \in Settings :
    /\ s.adapter \in {"memory", "sqlite", "postgres"} /\ s.clients \subseteq Clients
    /\ s.stored.execution = [i \in ExecutionIds |-> s.stored.execution[i]]
    /\ \A i \in ExecutionIds : HasState(s.stored.execution[i])
    /\ s.stored.authority = [i \in AuthorityIds |-> s.stored.authority[i]]
    /\ s.stored = Tables(s.stored.execution, s.stored.authority)
    /\ \A k \in s.calls : CallSound(k)

(* History.                                                                *)
VARIABLES
  exposed,  \* calls that ran while another call's SQLite batch was open
  late      \* [Clients -> authorities first stored after the last query of its revoke()]

history == <<exposed, late>>
vars == <<now, setting, rows, calls, history>>

NoCall == [op |-> "none"]

Init ==
  /\ setting \in Settings
  /\ now = 0
  /\ db = setting.stored
  /\ begun = <<>>
  /\ lock = [i \in ExecutionIds \cup AuthorityIds \cup Scopes \cup EventIds |-> None]
  /\ pc = [c \in Clients |-> "idle"]
  /\ call = [c \in Clients |-> NoCall]
  /\ answer = [c \in Clients |-> None]
  /\ mine = [c \in Clients |-> None]
  /\ exposed = {}
  /\ late = [c \in Clients |-> {}]

Invoke(c, k) ==
  /\ pc[c] = "idle"
  /\ pc' = [pc EXCEPT ![c] = "called"]
  /\ call' = [call EXCEPT ![c] = k]
  /\ UNCHANGED <<now, setting, rows, answer, mine, history>>

BatchesOpen == {c \in Clients : setting.adapter = "sqlite" /\ pc[c] \in {"batch", "undo"}}

FirstStored == {x \in AuthorityIds : db.authority[x] = None /\ db'.authority[x] # None}

Step(c) ==
  /\ \/ setting.adapter = "memory" /\ Memory(c)
     \/ setting.adapter = "sqlite" /\ Sqlite(c)
     \/ setting.adapter = "postgres" /\ Postgres(c)
  /\ exposed' = exposed \cup (IF BatchesOpen \ {c} = {} THEN {} ELSE {c} \cup BatchesOpen)
  /\ late' = [x \in Clients |-> IF pc[x] = "end" THEN late[x] \cup FirstStored ELSE {}]
  /\ UNCHANGED <<now, setting, call>>

Crash ==
  /\ setting.adapter = "sqlite" /\ SqlCrash
  /\ UNCHANGED <<now, setting, lock, call, history>>

Tick ==
  /\ now < MaxTime /\ setting.timed /\ now' = now + 1
  /\ UNCHANGED <<setting, rows, calls, history>>

Next ==
  \/ \E c \in setting.clients : Step(c) \/ \E k \in setting.calls : Invoke(c, k)
  \/ Crash
  \/ Tick

Spec == Init /\ [][Next]_vars

-----------------------------------------------------------------------------
(* Properties.                                                             *)

Answered(c, op) == pc[c] = "done" /\ call[c].op = op

\* A key is created once: of two reservations that answered created, one was
\* made when the other had expired.
ReservedOnce ==
  \A c, d \in Clients :
    (/\ c # d /\ Answered(c, "reserve") /\ Answered(d, "reserve")
     /\ answer[c] # Error /\ answer[d] # Error
     /\ answer[c].created /\ answer[d].created /\ call[c].scope = call[d].scope)
      => \/ answer[c].at >= answer[d].entry.expires
         \/ answer[d].at >= answer[c].entry.expires

\* The state in which a call of transition() leaves the record: the patch comes last.
LeadsTo(k) == IF "state" \in DOMAIN k.patch THEN k.patch.state ELSE k.to

\* transition() is a compare-and-set: of two that start from one state of a
\* record, one succeeds, unless save() or update() wrote the record as well or a
\* third call led back into that state.
TransitionsExclusive ==
  \A c, d \in Clients :
    (/\ c # d /\ Answered(c, "transition") /\ Answered(d, "transition")
     /\ answer[c] # Error /\ answer[d] # Error
     /\ answer[c].success /\ answer[d].success
     /\ call[c].id = call[d].id /\ call[c].from = call[d].from)
      => \E k \in Clients :
           /\ \/ call[k].op \in {"save", "update"}
              \/ call[k].op = "transition" /\ LeadsTo(call[k]) = call[c].from
           /\ call[k].id = call[c].id

\* The calls whose step this is.
Stepping == {c \in Clients : pc'[c] # pc[c] \/ mine'[c] # mine[c]}

Writes(c, op) == c \in Stepping /\ call[c].op \in op

KeyRows(tables, s) == {tables.key[x] : x \in {s} \cap DOMAIN tables.key}

\* What one call stored, only a call about the same row changes, and what was
\* appended stays: the steps of others, their rollbacks and a crash leave it
\* alone, unless an SQLite batch is open, whose transaction all calls share.
WritesKept ==
  [][BatchesOpen = {} =>
       /\ \A id \in ExecutionIds : db'.execution[id] # db.execution[id] =>
            \E c \in Clients : Writes(c, {"save", "update", "transition", "delete"}) /\ call[c].id = id
       /\ \A s \in Scopes : KeyRows(db', s) # KeyRows(db, s) =>
            \/ s \in Expired
            \/ \E c \in Clients : Writes(c, {"reserve", "updateKey"}) /\ call[c].scope = s
       /\ db.events \subseteq db'.events
       /\ \E n \in 0 .. 1 : Len(db'.audit) = Len(db.audit) + n
       /\ db.revocation \subseteq db'.revocation]_vars

EventsOf(k) ==
  CASE k.op = "append" -> {k.event} [] k.op = "batch" -> Range(k.events) [] OTHER -> {}

\* The batch is stored, or nothing of it but what another call stores.
Whole(c) ==
  LET stored == {row.event : row \in db.events}
      others == {k \in Clients \ {c} : answer[k] # Error \/ k \in exposed}
      elsewhere == UNION {EventsOf(call[k]) : k \in others}
  IN IF answer[c] = Done THEN EventsOf(call[c]) \subseteq stored
     ELSE EventsOf(call[c]) \cap stored \subseteq elsewhere

\* A batch is stored as a whole or not at all, unless another call of the same
\* SQLite connection ran in between.
BatchIsWhole == \A c \in Clients : (Answered(c, "batch") /\ c \notin exposed) => Whole(c)

\* The same without the exception: "atomic transactions (BEGIN/COMMIT)".
BatchIsAtomic == \A c \in Clients : Answered(c, "batch") => Whole(c)

\* Appends that race each other leave one chain that verifies, and each entry
\* that append() returned is in it at its place, unless it was made inside
\* another call's SQLite batch.
ChainIsTrue ==
  /\ Verified(db.audit)
  /\ \A i \in DOMAIN db.audit : db.audit[i].seq = i
  /\ \A c \in Clients : (Answered(c, "verify") => answer[c] # FALSE)
  /\ \A c \in Clients : (Answered(c, "audit") /\ answer[c] # Error /\ c \notin exposed) =>
       answer[c].seq \in DOMAIN db.audit /\ db.audit[answer[c].seq] = answer[c]

\* A chain of parents leads from x to the authority above, past those in without.
IsAbove(above, x, without) ==
  \E path \in UNION {[1 .. n -> AuthorityIds] : n \in 2 .. Cardinality(AuthorityIds)} :
    LET n == Len(path) IN
    /\ path[1] = x /\ path[n] = above
    /\ \A i \in 1 .. n - 1 : /\ path[i] \notin without
                             /\ db.authority[path[i]] # None /\ db.authority[path[i]].parent = path[i + 1]

\* revoke() with its cascade answers TRUE only when what is stored below is
\* revoked, at every depth, whatever was derived and saved meanwhile: but for
\* what PostgreSQL stores after the last query and before the COMMIT.  The
\* in-memory store's cascade goes down to the children.
CascadeReaches ==
  [][\A c \in Clients :
       (c \in Stepping /\ call[c].op = "revoke" /\ pc'[c] = "done" /\ answer'[c] = TRUE /\ call[c].cascade)
         => \A x \in AuthorityIds :
              (IF setting.adapter = "memory"
               THEN db.authority[x] # None /\ db.authority[x].parent = call[c].id
               ELSE IsAbove(call[c].id, x, late[c]))
                => x \in db'.revocation]_vars
==============================================================================
