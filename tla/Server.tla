-------------------------------- MODULE Server --------------------------------
(***************************************************************************)
(* A server from construction to shutdown: the composition root with its   *)
(* shutdown manager, the HTTP gateway with its rate limiter, and AEPServer, *)
(* which closes the one and then the other.  A call is a request that      *)
(* arrives over HTTP, or a call of AEPServer.execute() in the process; its  *)
(* steps lie between the awaits of HTTPGateway.handle().  What the engine   *)
(* does with a request is the matter of Admission and ExecutionEngine.     *)
(***************************************************************************)
EXTENDS RateLimiter, Catalogue

CONSTANTS
  Calls,     \* an execution has the name of the call that it is made for
  Nobody,    \* the principal of a request that authenticate() makes nothing of
  MaxDrops,  \* bound: how often gc() may drop one bucket
  Settings   \* how the server is built, what is asked of it, and by whom

VARIABLES
  setting,
  stage,       \* of the server's life
  phase,       \* [Calls -> where handle() stands]
  request,     \* [Calls -> what the call asks]
  reply,       \* [Calls -> what it was answered]
  connections, \* calls whose response the client still waits for
  subscribed,  \* streams that are subscribed to the event emitter
  tracked,     \* activeExecutions: request ids
  draining,    \* isShuttingDown of the shutdown manager
  drained,     \* what drain() came to
  records,     \* [Calls -> [owner, state] of its execution]
  approvals,   \* [Calls -> what the gateway's approval service has on it]
  audited,     \* calls that the gateway recorded in its audit log
  cached,      \* of the artifact manager: records of an id and its provenance
  onDisk       \* ids of the artifacts whose data is in its directory

callVars == <<phase, request, reply, connections, subscribed, audited>>
runtimeVars == <<stage, tracked, draining, drained, records, approvals>>
artifactVars == <<cached, onDisk>>
vars == <<setting, callVars, runtimeVars, artifactVars, limiterVars, catalogueVars>>

NoReply == [status |-> "none", retry |-> 0]
NoRequest == [kind |-> "none", scheme |-> "none", who |-> Nobody, id |-> None]

Init ==
  /\ LimiterInit /\ CatalogueInit
  /\ setting \in Settings
  /\ stage = "new"
  /\ phase = [c \in Calls |-> "idle"]
  /\ request = [c \in Calls |-> NoRequest]
  /\ reply = [c \in Calls |-> NoReply]
  /\ connections = {} /\ subscribed = {} /\ audited = {}
  /\ tracked = {} /\ draining = FALSE /\ drained = "not yet"
  /\ records = setting.records
  /\ approvals = [c \in Calls |-> "none"]
  /\ cached = {} /\ onDisk = setting.onDisk

\* The key of a request for createRateLimitMiddleware(); None is what it lacks.
MiddlewareKey(type, r) ==
  LET or(value, default) == IF value = None THEN default ELSE value
  IN <<type, CASE type = "ip" -> or(r.ip, "unknown")
               [] type = "principal" -> or(r.principal, "unauthenticated")
               [] type = "tenant" -> or(r.tenant, "default")
               [] type = "capability" -> or(r.capability, "unknown")>>

\* Every bucket that may be asked for has a configuration: of its type, or the
\* default one.
ASSUME SettingsAssumption ==
  \A s \in Settings :
    /\ \A r \in s.requests : r.who # Nobody => <<"principal", r.who>> \in Keys
    /\ \A r \in s.limited : MiddlewareKey(r.type, r) \in Keys /\ r.count \in Nat
    /\ s.maxBuckets \subseteq Nat /\ s.windows \subseteq Keys

\* Contracts, providers and questions are of their types, and None is nothing
\* that is registered.
ASSUME CatalogueAssumption ==
  LET given == Nat \cup {None}
  IN \A s \in Settings :
       /\ None \notin Version \cup [contract : s.contracts, health : Health] \cup s.profiles
       /\ \A c \in s.contracts :
            c.version \in Version /\ c.risk \in DOMAIN RiskOrder /\ c.cost \in given /\ c.p95 \in given
       /\ \A p \in s.profiles : p.cost \in given /\ p.p95 \in given /\ p.quality \in given
       /\ \A h \in s.health : h.health \in Health
       /\ \A q \in s.questions :
            /\ q.kind = "reference" => q.range \in Seq(Seq(Words))
            /\ q.kind = "intent" => q.limit \in Nat

-----------------------------------------------------------------------------
(* Construction and shutdown.                                              *)

\* The dependencies that are mandatory in production.
Mandatory ==
  {"authenticator", "authorityEngine", "policyEngine", "riskEngine", "executionStore",
   "authorityStore", "idempotencyStore", "budgetStore", "eventStore", "auditStore"}

\* What AEPServer lends a runtime that it is given other dependencies for.
Lent == {"authorityEngine", "policyEngine", "riskEngine", "events", "approvalService"}

\* What createDevelopmentRuntime() makes: nothing is left out but an approval
\* service.  Its authenticator takes any credential for what it says.
DevelopmentParts == Mandatory \cup {"events"}

\* What the engine is built with.
Wired == IF setting.development THEN DevelopmentParts ELSE setting.given \cup Lent

\* The gateway of AEPServer has the server's own approval service, whichever the
\* engine has.
SharesApprovals == ~setting.development /\ "approvalService" \notin setting.given

\* A production runtime is not built without what is mandatory, nor with a
\* development authenticator.
RefusesToBuild ==
  /\ setting.production
  /\ \/ ~(Mandatory \subseteq Wired)
     \/ setting.devAuthenticator

Construct ==
  /\ stage = "new"
  /\ stage' = IF RefusesToBuild THEN "refused" ELSE "up"
  /\ UNCHANGED <<setting, callVars, tracked, draining, drained, records, approvals,
                 artifactVars, limiterVars, catalogueVars>>

\* close() as far as its first await: server.close() takes no more connections.
CloseBegin ==
  /\ setting.closes /\ stage = "up"
  /\ stage' = "closing"
  /\ UNCHANGED <<setting, callVars, tracked, draining, drained, records, approvals,
                 artifactVars, limiterVars, catalogueVars>>

\* Mutant: drain() waits without having set the flag.
DrainUnflagged ==
  /\ stage = "closing" /\ connections = {}
  /\ stage' = "draining"
  /\ UNCHANGED <<setting, callVars, tracked, draining, drained, records, approvals, artifactVars, limiterVars, catalogueVars>>

\* gateway.close() resolves when the last connection is closed; drain() begins.
GatewayClosed ==
  /\ stage = "closing" /\ connections = {}
  /\ stage' = "draining" /\ draining' = TRUE
  /\ UNCHANGED <<setting, callVars, tracked, drained, records, approvals, artifactVars, limiterVars, catalogueVars>>

\* Mutant: drain() has no timeout.
DrainWhenEmpty ==
  /\ stage = "draining" /\ tracked = {}
  /\ stage' = "closed"
  /\ drained' = "all"
  /\ UNCHANGED <<setting, callVars, tracked, draining, records, approvals, artifactVars, limiterVars, catalogueVars>>

\* drain() ends: nothing is left in the set, or timeoutMs are over.
DrainOver ==
  /\ stage = "draining"
  /\ stage' = "closed"
  /\ drained' = IF tracked = {} THEN "all" ELSE "timeout"
  /\ UNCHANGED <<setting, callVars, tracked, draining, records, approvals, artifactVars, limiterVars, catalogueVars>>

-----------------------------------------------------------------------------
(* The gateway.                                                            *)

Goto(c, place) == phase' = [phase EXCEPT ![c] = place]

Answers(c, status, retry) ==
  /\ Goto(c, "done")
  /\ reply' = [reply EXCEPT ![c] = [status |-> status, retry |-> retry]]
  /\ connections' = connections \ {c}

Answer(c, status) == Answers(c, status, 0)

Wait(c, place) == Goto(c, place) /\ UNCHANGED <<reply, connections>>

\* authenticate(): the header has one of two schemes, and the authenticator knows
\* what follows it.  In development this is a TestAuthenticator that knows nobody.
Authenticate(r) ==
  IF r.scheme \in {"Bearer", "ApiKey"} /\ ~setting.development /\ r.who \in setting.known
  THEN r.who ELSE Nobody

\* The scheme of what AEPClient sends: neither cancel() nor subscribeEvents() takes
\* the token along.
ClientScheme(kind, token) ==
  IF token /\ kind \notin {"cancel", "stream"} THEN "Bearer" ELSE "none"

OriginAllowed(origin) == "*" \in setting.origins \/ origin \in setting.origins

\* A preflight is answered at once and without authentication.
Connect(c, r) ==
  /\ stage = "up" /\ phase[c] = "idle" /\ r.kind # "internal"
  /\ request' = [request EXCEPT ![c] = r]
  /\ \/ /\ r.kind = "preflight"
        /\ Answer(c, IF OriginAllowed(r.origin) THEN "204" ELSE "403")
     \/ /\ r.kind # "preflight"
        /\ Goto(c, "authenticate")
        /\ connections' = connections \cup {c} /\ UNCHANGED reply
  /\ UNCHANGED <<setting, subscribed, audited, runtimeVars, artifactVars, limiterVars, catalogueVars>>

\* What a request for one capability looks for.
OneCapability(id) ==
  [kind |-> None, id |-> id, class |-> None, risk |-> None, latency |-> None, cost |-> None, limit |-> 50]

\* The routes, up to the answer or the next await.  A stream is subscribed even
\* when its client has left by now, and then nothing unsubscribes it.
Route(c) ==
  LET kind == request[c].kind
  IN /\ \/ kind \in {"well-known", "capabilities"} /\ Answer(c, "200")
        \/ /\ kind = "capability"
           /\ Answer(c, IF Discover(OneCapability(request[c].target)) = <<>> THEN "404" ELSE "200")
        \/ kind \in {"execution", "cancel", "resume"} /\ Wait(c, "load")
        \/ kind = "artifact" /\ ~setting.artifacts /\ Answer(c, "503")
        \/ kind = "artifact" /\ setting.artifacts /\ Wait(c, "retrieve")
        \/ kind = "approval" /\ ~setting.approvalService /\ Answer(c, "503")
        \/ kind = "approval" /\ setting.approvalService /\ Wait(c, "read")
        \/ kind = "execute" /\ Wait(c, "read")
        \/ kind = "stream" /\ Wait(c, "stream")
        \/ kind = "unknown" /\ Answer(c, "404")
     /\ subscribed' = IF kind = "stream" THEN subscribed \cup {c} ELSE subscribed

\* authenticate() ends: 401, 429, or the route.
Authenticated(c) ==
  LET key == <<"principal", request[c].who>>
  IN /\ phase[c] = "authenticate"
     /\ \/ /\ Authenticate(request[c]) = Nobody
           /\ Answer(c, "401")
           /\ UNCHANGED <<subscribed, limiterVars>>
        \/ /\ Authenticate(request[c]) # Nobody
           /\ Consume(key, 1)
           /\ \/ Refused(key, 1) /\ Answers(c, "429", WaitTimeMs(key, 1)) /\ UNCHANGED subscribed
              \/ ~Refused(key, 1) /\ Route(c)
     /\ UNCHANGED <<setting, request, audited, runtimeVars, artifactVars, catalogueVars>>

Owned(c) ==
  LET record == records[request[c].target]
  IN record # None /\ record.owner = request[c].who

\* The execution is loaded.  A resume changes nothing: of an execution that is
\* paused it makes a request without credentials, which the engine refuses.
Load(c) ==
  /\ phase[c] = "load"
  /\ LET kind == request[c].kind
     IN \/ kind = "execution" /\ Answer(c, IF Owned(c) THEN "200" ELSE "404")
        \/ kind = "resume" /\ Answer(c, IF Owned(c) THEN "200" ELSE "403")
        \/ kind = "cancel" /\ ~Owned(c) /\ Answer(c, "403")
        \/ kind = "cancel" /\ Owned(c) /\ Wait(c, "cancel")
        \/ kind = "artifact" /\ Answer(c, IF Owned(c) THEN "200" ELSE "403")
  /\ UNCHANGED <<setting, request, subscribed, audited, runtimeVars, artifactVars, limiterVars, catalogueVars>>

\* engine.cancel() of an execution that is not over.
CancelEnds(c) ==
  /\ phase[c] = "cancel"
  /\ records' = [records EXCEPT ![request[c].target].state = "final"]
  /\ Answer(c, "200")
  /\ UNCHANGED <<setting, request, subscribed, audited, stage, tracked, draining, drained, approvals,
                 artifactVars, limiterVars, catalogueVars>>

\* store(): on disk, then in the cache, under an id nobody knows yet.
StoreArtifact(a) ==
  /\ a.id \notin onDisk
  /\ cached' = cached \cup {a} /\ onDisk' = onDisk \cup {a.id}

\* delete() leaves what is on disk.
DeleteArtifact(id) ==
  /\ \E a \in cached : a.id = id
  /\ cached' = {a \in cached : a.id # id}
  /\ UNCHANGED onDisk

\* What retrieve() finds: of what is only on disk the provenance is lost.
Found(id) ==
  LET known == {a \in cached : a.id = id}
  IN IF known # {} THEN known
     ELSE IF id \in onDisk THEN {[id |-> id, provenance |-> None]}
     ELSE {}

\* The artifact is there.  Without a provenance nothing more is asked; otherwise
\* the request now speaks of the execution that made it.
Retrieve(c) ==
  LET found == Found(request[c].target)
  IN /\ phase[c] = "retrieve"
     /\ cached' = cached \cup found
     /\ \/ found = {} /\ Answer(c, "404") /\ UNCHANGED request
        \/ \E a \in found :
             \/ a.provenance = None /\ Answer(c, "200") /\ UNCHANGED request
             \/ /\ a.provenance # None /\ Wait(c, "load")
                /\ request' = [request EXCEPT ![c].target = a.provenance]
     /\ UNCHANGED <<setting, subscribed, audited, runtimeVars, onDisk, limiterVars, catalogueVars>>

\* ApprovalService.get() and submit(), which refuses what is decided already.
Decide(c) ==
  LET id == request[c].target
  IN /\ Answer(c, CASE approvals[id] = "none" -> "404"
                    [] approvals[id] = "pending" -> "200"
                    [] approvals[id] = "decided" -> "400")
     /\ approvals' = IF approvals[id] = "pending" THEN [approvals EXCEPT ![id] = "decided"] ELSE approvals

-----------------------------------------------------------------------------
(* The runtime.                                                            *)

Http(c) == request[c].kind # "internal"

Recorded(c) == audited' = IF Http(c) THEN audited \cup {c} ELSE audited

\* execute() as far as the engine: refused once drain() has begun.
Enter(c) ==
  \/ /\ draining
     /\ Answer(c, "shutting down") /\ Recorded(c) /\ UNCHANGED tracked
  \/ /\ ~draining
     /\ Wait(c, "engine") /\ tracked' = tracked \cup {request[c].id} /\ UNCHANGED audited

\* readBody() ends, with too much, with what is not JSON, or with a request.
BodyRead(c) ==
  /\ phase[c] = "read"
  /\ \/ /\ request[c].body # "good"
        /\ Answer(c, IF request[c].body = "too large" THEN "500" ELSE "400")
        /\ UNCHANGED <<tracked, audited, approvals>>
     \/ /\ request[c].body = "good" /\ request[c].kind = "approval"
        /\ Decide(c) /\ UNCHANGED <<tracked, audited>>
     \/ /\ request[c].body = "good" /\ request[c].kind = "execute"
        /\ Enter(c) /\ UNCHANGED approvals
  /\ UNCHANGED <<setting, request, subscribed, stage, draining, drained, records,
                 artifactVars, limiterVars, catalogueVars>>

\* AEPServer.execute(), for which no gateway is needed.
Call(c, r) ==
  /\ stage \notin {"new", "refused"} /\ phase[c] = "idle" /\ r.kind = "internal"
  /\ request' = [request EXCEPT ![c] = r]
  /\ \/ /\ draining
        /\ Goto(c, "done") /\ reply' = [reply EXCEPT ![c].status = "shutting down"]
        /\ UNCHANGED <<connections, tracked>>
     \/ /\ ~draining
        /\ Wait(c, "engine") /\ tracked' = tracked \cup {r.id}
  /\ UNCHANGED <<setting, subscribed, audited, stage, draining, drained, records, approvals,
                 artifactVars, limiterVars, catalogueVars>>

\* The runtime's authenticator knows the caller: it is wrapped, to hide why not.
\* The one for development takes every credential.
Verified(r) == r.scheme # "none" /\ (setting.development \/ r.who \in setting.known)

\* The engine stores a record of the execution.
EngineRecords(c) ==
  /\ phase[c] = "engine" /\ records[c] = None
  /\ Verified(request[c])
  /\ records' = [records EXCEPT ![c] = [owner |-> request[c].who, state |-> "running"]]
  /\ UNCHANGED <<setting, callVars, stage, tracked, draining, drained, approvals,
                 artifactVars, limiterVars, catalogueVars>>

\* The engine answers: refused, waiting for an approval, or with an outcome.  The
\* request leaves the set by its id.
EngineEnds(c) ==
  /\ phase[c] = "engine"
  /\ Answer(c, "200") /\ Recorded(c)
  /\ tracked' = tracked \ {request[c].id}
  /\ records' = IF records[c] = None THEN records ELSE [records EXCEPT ![c].state = "final"]
  /\ \/ UNCHANGED approvals
     \/ /\ records[c] = None /\ Verified(request[c]) /\ setting.approvalService /\ SharesApprovals
        /\ approvals' = [approvals EXCEPT ![c] = "pending"]
  /\ UNCHANGED <<setting, request, subscribed, stage, draining, drained, artifactVars, limiterVars, catalogueVars>>

\* send() aborts its request after the timeout; handle() goes on without it.
GiveUp(c) ==
  /\ c \in connections /\ request[c].kind = "execute"
  /\ connections' = connections \ {c}
  /\ UNCHANGED <<setting, phase, request, reply, subscribed, audited, runtimeVars,
                 artifactVars, limiterVars, catalogueVars>>

\* Any other client closes its connection; a stream is unsubscribed.
Leave(c) ==
  /\ c \in connections /\ request[c].kind # "execute"
  /\ connections' = connections \ {c}
  /\ \/ /\ phase[c] = "stream"
        /\ Goto(c, "done") /\ subscribed' = subscribed \ {c}
     \/ phase[c] # "stream" /\ UNCHANGED <<phase, subscribed>>
  /\ UNCHANGED <<setting, request, reply, audited, runtimeVars,
                 artifactVars, limiterVars, catalogueVars>>

Begin(c) == \E r \in setting.requests : Connect(c, r) \/ Call(c, r)

Handle(c) ==
  \/ Authenticated(c) \/ Load(c) \/ CancelEnds(c) \/ Retrieve(c) \/ BodyRead(c)
  \/ EngineRecords(c) \/ EngineEnds(c) \/ GiveUp(c) \/ Leave(c)

\* The embedder's capabilities keep artifacts.
Keep ==
  /\ stage = "up"
  /\ \/ \E a \in setting.stored : StoreArtifact(a)
     \/ \E id \in setting.deleted : DeleteArtifact(id)
  /\ UNCHANGED <<setting, callVars, runtimeVars, limiterVars, catalogueVars>>

\* An embedder's own limiter: the middleware, gc(), a sliding window.
Limit ==
  /\ stage = "up"
  /\ \/ setting.time /\ Tick
     \/ \E r \in setting.limited : Consume(MiddlewareKey(r.type, r), r.count)
     \/ \E n \in setting.maxBuckets : Gc(n) /\ \A k \in Keys : lives[k] <= MaxDrops
     \/ \E k \in setting.windows : TryRequest(k)
  /\ UNCHANGED <<setting, callVars, runtimeVars, artifactVars, catalogueVars>>

Ask(q) ==
  \/ q.kind = "reference" /\ Resolve(q)
  \/ q.kind = "discovery" /\ Told(q, Discover(q.query))
  \/ q.kind = "provider" /\ SelectProvider(q)
  \/ q.kind = "intent" /\ ResolveIntent(q)

\* capability() and the registry's and resolvers' own methods.
Catalogued ==
  /\ stage = "up"
  /\ \/ \E contract \in setting.contracts : Register(contract)
     \/ \E u \in setting.unregistered : Unregister(u.id, u.provider, u.version)
     \/ \E h \in setting.health : SetHealth(h.id, h.provider, h.health)
     \/ \E profile \in setting.profiles : RegisterProfile(profile)
     \/ \E q \in setting.questions : Ask(q)
  /\ UNCHANGED <<setting, callVars, runtimeVars, artifactVars, limiterVars>>

Next ==
  \/ Construct \/ CloseBegin \/ GatewayClosed \/ DrainOver
  \/ \E c \in Calls : c \in setting.calls /\ Begin(c)
  \/ \E c \in Calls : Handle(c)
  \/ Keep \/ Limit \/ Catalogued

Spec == Init /\ [][Next]_vars

\* The callback of server.close() and the timer of drain() are run.
FairSpec == Spec /\ WF_vars(GatewayClosed) /\ WF_vars(DrainOver)

-----------------------------------------------------------------------------
(* Properties.                                                             *)

\* When drain() reports that it drained everything, nothing the runtime was asked
\* to execute is in the engine any more, and nothing gets there: except a call
\* whose request id another call had too, since the first to end removes it.
DrainIsTrue ==
  drained = "all" =>
    \A c \in Calls : phase[c] = "engine" =>
      \E other \in Calls \ {c} : phase[other] = "done" /\ request[other].id = request[c].id

\* close() ends, whatever the handlers do, provided the clients leave: it waits
\* for open connections without a bound, and for executions no longer than the
\* timeout of drain().
CloseEnds ==
  []<>(connections = {}) => (stage = "closing" ~> stage = "closed")
==============================================================================
