------------------------------- MODULE MCStores -------------------------------
(* TLC instance of Stores.                                                   *)
EXTENDS Stores

CONSTANTS k1, k2, k3, x1, x2, a1, a2, a3, s1, v1, v2, alice

AnyOf == [owner |-> None, state |-> None]
Record(state) == [owner |-> alice, state |-> state, previous |-> None, completed |-> FALSE]
Grant(parent) == [parent |-> parent, subject |-> alice, state |-> "active"]
MCCreatedAt == [i \in ExecutionIds |-> IF i = x1 THEN 1 ELSE 2]

Transition(from, to) ==
  [op |-> "transition", id |-> x1, from |-> from, to |-> to, patch |-> [completed |-> TRUE]]

Ev(id, type) == [id |-> id, type |-> type]

Stored0 ==
  Tables([NoExecution EXCEPT ![x1] = Record("created")],
         [NoAuthority EXCEPT ![a1] = AuthorityRow(Grant(None)), ![a2] = AuthorityRow(Grant(a1)),
                              ![a3] = AuthorityRow(Grant(a2))])
LastUnborn == [Stored0 EXCEPT !.authority[a3] = None]

\* Races of three calls, by what they are about: the records of executions, a
\* chain of authorities whose last is stored or yet to be, a key as it expires,
\* and the logs beside calls that share the connection.
Races ==
  { [timed |-> FALSE, calls |->
      { Transition("created", "planned"), Transition("planned", "failed"), Transition("planned", "created"),
        [op |-> "save", id |-> x1, record |-> Record("created")],
        [op |-> "update", id |-> x1, patch |-> [completed |-> TRUE]], [op |-> "delete", id |-> x1] }],
    [timed |-> FALSE, calls |->
      { [op |-> "revoke", id |-> a1, cascade |-> TRUE], [op |-> "revoke", id |-> a2, cascade |-> TRUE],
        [op |-> "revoke", id |-> a1, cascade |-> FALSE],
        [op |-> "saveAuthority", id |-> a3, record |-> Grant(a2)] }],
    [timed |-> TRUE, calls |->
      { [op |-> "reserve", scope |-> s1, ttl |-> 1,
         entry |-> [execution |-> x1, state |-> "created", expires |-> 0]],
        [op |-> "updateKey", scope |-> s1, patch |-> [state |-> "completed"]],
        [op |-> "get", scope |-> s1], [op |-> "gc"] }],
    [timed |-> FALSE, calls |->
      { [op |-> "append", event |-> Ev(v1, "t")], [op |-> "batch", events |-> <<Ev(v1, "t"), Ev(v2, "u")>>],
        [op |-> "batch", events |-> <<Ev(v2, "u"), Ev(v2, "u")>>],
        [op |-> "audit", record |-> "r"], Transition("created", "planned") }] }

\* What only reads, after one call that writes.
Reads ==
  { [op |-> "load", id |-> x1], [op |-> "list", filter |-> [AnyOf EXCEPT !.state = "created"]],
    [op |-> "loadAuthority", id |-> a2], [op |-> "listChildren", id |-> a1],
    [op |-> "listBySubject", subject |-> alice], [op |-> "isRevoked", id |-> a3],
    [op |-> "read", from |-> 0, limit |-> 1, types |-> {"u"}], [op |-> "last"],
    [op |-> "verify"], [op |-> "listAudit"] }

MCSettings ==
  { [adapter |-> adapter, clients |-> Clients, calls |-> race.calls, timed |-> race.timed, stored |-> Stored0]
    : adapter \in {"memory", "sqlite", "postgres"}, race \in Races }
  \cup
  { [adapter |-> adapter, clients |-> Clients, calls |-> race.calls, timed |-> FALSE, stored |-> LastUnborn]
    : adapter \in {"memory", "sqlite", "postgres"}, race \in {r \in Races : \E k \in r.calls : k.op = "revoke"} }
  \cup
  { [adapter |-> adapter, clients |-> {k1, k2}, timed |-> FALSE, 
     stored |-> [LastUnborn EXCEPT !.execution[x2] = Record("created")],
     calls |-> Reads \cup {[op |-> "audit", record |-> "r"], [op |-> "revoke", id |-> a3, cascade |-> TRUE]}]
    : adapter \in {"memory", "sqlite", "postgres"} }
==============================================================================
