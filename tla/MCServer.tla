------------------------------- MODULE MCServer -------------------------------
(* TLC instance of Server.                                                 *)
EXTENDS Server, TLC

CONSTANTS alice, bob, c1, c2, c3

Bucket2 == [capacity |-> 2, rate |-> 1, initial |-> 2]

MCConfig ==
  <<"principal", alice>> :> Bucket2 @@ <<"principal", bob>> :> Bucket2
  @@ <<"principal", "unauthenticated">> :> Bucket2 @@ <<"ip", "unknown">> :> [Bucket2 EXCEPT !.initial = 3]
  @@ <<"tenant", "default">> :> [Bucket2 EXCEPT !.initial = 0] @@ <<"capability", "x">> :> Bucket2

MCAllowed(authority, id) == id = "x"
MCDenied(principal, id) == principal = bob /\ id = "y"

Nothing ==
  [production |-> TRUE, development |-> FALSE, devAuthenticator |-> FALSE, given |-> Mandatory,
   known |-> {alice, bob}, origins |-> {}, records |-> [c \in Calls |-> None], approvalService |-> TRUE,
   artifacts |-> FALSE, onDisk |-> {}, stored |-> {}, deleted |-> {},
   calls |-> {}, requests |-> {}, closes |-> FALSE,
   time |-> FALSE, limited |-> {}, maxBuckets |-> {}, windows |-> {},
   contracts |-> {}, unregistered |-> {}, health |-> {}, profiles |-> {}, questions |-> {}]

Refusals ==
  { [Nothing EXCEPT !.given = Mandatory \ {"budgetStore"}],
    [Nothing EXCEPT !.devAuthenticator = TRUE],
    [Nothing EXCEPT !.devAuthenticator = TRUE, !.production = FALSE] }

Request(kind, who, id, target) ==
  [kind |-> kind, scheme |-> IF kind = "preflight" THEN "none" ELSE "Bearer", who |-> who, id |-> id,
   target |-> target, body |-> "good", origin |-> "o"]

\* A request of AEPClient.
Sent(kind, who, id, target) ==
  [Request(kind, who, id, target) EXCEPT !.scheme = ClientScheme(kind, TRUE)]

\* Shutdown: three calls, two of which may have one request id.
Life ==
  [Nothing EXCEPT !.calls = Calls, !.closes = TRUE,
     !.requests = { Request("internal", alice, "r", None), Request("execute", alice, "r", None),
                    Request("internal", bob, "s", None), Request("stream", bob, None, None) }]

\* The routes, two requests at a time.
Routes ==
  [Nothing EXCEPT !.calls = {c1, c2}, !.origins = {"o"},
     !.records = (c3 :> [owner |-> alice, state |-> "paused"] @@ c1 :> None @@ c2 :> None),
     !.requests =
       UNION { {Request("execution", who, None, c3), Request("cancel", who, None, c3),
                Request("resume", who, None, c3), Sent("cancel", who, None, c3),
                Sent("execute", who, "r", None), Request("approval", who, None, c1)}
               : who \in {alice, bob} }
       \cup {Request("preflight", Nobody, None, None),
             [Request("preflight", Nobody, None, None) EXCEPT !.origin = "other"],
             Request("well-known", Nobody, None, None), Request("well-known", alice, None, None),
             Request("capabilities", alice, None, None), Request("unknown", alice, None, None),
             Request("capability", alice, None, "x"), Request("capability", alice, None, "y"),
             Request("cancel", alice, None, c2), [Request("execute", alice, "r", None) EXCEPT !.scheme = "ApiKey"],
             [Request("execute", alice, "s", None) EXCEPT !.body = "too large"],
             [Request("execute", alice, "s", None) EXCEPT !.body = "broken"]}]

\* Artifacts with and without a provenance, and one of an earlier process.
Kept ==
  [Nothing EXCEPT !.calls = {c1, c2}, !.artifacts = TRUE, !.onDisk = {"old"},
     !.records = (c3 :> [owner |-> alice, state |-> "final"] @@ c1 :> None @@ c2 :> None),
     !.stored = {[id |-> "free", provenance |-> None], [id |-> "made", provenance |-> c3]},
     !.deleted = {"old", "free", "made"},
     !.requests = {Request("artifact", who, None, id) : who \in {alice, bob}, id \in {"old", "free", "made"}}]

\* A server in development; and one that is given an approval service.
Developed ==
  [Nothing EXCEPT !.production = FALSE, !.development = TRUE, !.given = {}, !.known = {}, !.calls = {c1, c2},
     !.requests = {Request("internal", alice, "r", None), Request("execute", alice, "s", None),
                   Sent("capabilities", alice, None, None)}]
OwnService ==
  [Nothing EXCEPT !.given = @ \cup {"approvalService"}, !.known = {alice}, !.calls = {c1, c2}, !.closes = TRUE,
     !.requests = {Request("internal", alice, "r", None), Request("internal", bob, "s", None),
                   Sent("approval", alice, None, c1)}]

\* A gateway built without the optional parts.
Bare ==
  [Nothing EXCEPT !.calls = {c1, c2}, !.approvalService = FALSE,
     !.requests = {Request("approval", alice, None, c2), Request("artifact", alice, None, "made"),
                   Request("preflight", Nobody, None, None)}]

Limited(type, count) ==
  [type |-> type, ip |-> None, tenant |-> None, count |-> count,
   principal |-> IF type = "principal" THEN None ELSE alice, capability |-> "x"]

\* Buckets in time, with gc() of more than one or two of them; and the window.
Limiters ==
  { [Nothing EXCEPT !.time = TRUE, !.maxBuckets = {1, 2}, !.limited = {Limited("ip", 1), Limited("tenant", 2)}],
    [Nothing EXCEPT !.time = TRUE, !.maxBuckets = {2},
       !.limited = {Limited("principal", 2), Limited("capability", 2), Limited("tenant", 1)}],
    [Nothing EXCEPT !.time = TRUE, !.windows = {<<"ip", "unknown">>}] }

\* Versions around every boundary of the ranges below.
Pre(version, rank) == [version EXCEPT !.pre = <<[numeric |-> FALSE, rank |-> rank]>>]
Pre2(version, rank, number) ==
  [version EXCEPT !.pre = <<[numeric |-> FALSE, rank |-> rank], [numeric |-> TRUE, rank |-> number]>>]

V123 == Release(1, 2, 3)
Releases == {V123, Release(1, 3, 0), Release(2, 0, 0), Release(0, 2, 3), Release(0, 3, 0), Release(0, 0, 3)}
Prereleases == {Pre(Release(2, 0, 0), 1), Pre(V123, 1), Pre2(V123, 1, 2), Pre2(V123, 1, 10)}

Word(op, version) == [op |-> op, version |-> version]
Ranges ==
  { <<<<>>>>, <<<<Word("^", V123)>>>>, <<<<Word("^", Release(0, 2, 3))>>>>, <<<<Word("^", Release(0, 0, 3))>>>>,
    <<<<Word("^", Pre2(V123, 1, 2))>>>>, <<<<Word("~", V123)>>>>, <<<<Word("~", None)>>>>,
    <<<<Word("none", V123)>>>>, <<<<Word("none", V123), Word("<", Release(2, 0, 0))>>>>,
    <<<<Word("none", None), Word(">", V123)>>>>, <<<<Text, Word(">=", V123), Word("^", V123)>>>>,
    <<<<Word(">=", None), Word("none", V123)>>>>, <<<<Word(">", Release(0, 2, 3)), Word("<=", V123)>>>>,
    <<<<Word("<", V123)>>, <<Word("=", Release(2, 0, 0))>>>>, <<<<Word(">=", Pre2(V123, 1, 2))>>>> }

Contract(id, version, provider) ==
  [id |-> id, version |-> version, provider |-> provider, kind |-> "action", class |-> "c",
   risk |-> "low", cost |-> 0, p95 |-> 1]

\* Versions and ranges: two entries of one id, of one provider or of two.
Versioned ==
  [Nothing EXCEPT
     !.contracts = {Contract("x", v, "p") : v \in Releases \cup Prereleases} \cup {Contract("x", V123, "q")},
     !.health = {[id |-> "x", provider |-> p, health |-> h] : p \in {"p", "q"}, h \in {"degraded", "healthy"}},
     !.unregistered = { [id |-> "x", provider |-> "p", version |-> None],
                        [id |-> "x", provider |-> None, version |-> V123] },
     !.questions = {[kind |-> "reference", id |-> "x", range |-> r] : r \in Ranges}
                   \cup {[kind |-> "reference", id |-> "y", range |-> <<<<>>>>]}]

Open ==
  [kind |-> None, id |-> None, class |-> None, risk |-> None, latency |-> None, cost |-> None, limit |-> 50]

Intent ==
  [kind |-> "intent", class |-> None, named |-> {"x", "y"}, authority |-> None, principal |-> alice,
   risk |-> None, cost |-> None, latency |-> None, limit |-> 5]

\* Discovery: capabilities that differ in what the rankings weigh.
Discovered ==
  [Nothing EXCEPT
     !.contracts = { Contract("x", V123, "p"), [Contract("x", V123, "q") EXCEPT !.cost = 30, !.p95 = None],
                     [Contract("y", V123, "p") EXCEPT !.risk = "high", !.cost = None, !.class = "d"],
                     [Contract("y", V123, "q") EXCEPT !.risk = "critical", !.p95 = 120, !.kind = "query"] },
     !.health = {[id |-> id, provider |-> "p", health |-> h] : id \in {"x", "y"}, h \in Health},
     !.questions =
       { [kind |-> "discovery", query |-> q] :
           q \in { Open, [Open EXCEPT !.kind = "query"], [Open EXCEPT !.class = "c", !.limit = 1],
                   [Open EXCEPT !.risk = "medium", !.cost = 20, !.latency = 50] } }
       \cup { Intent, [Intent EXCEPT !.limit = 1], [Intent EXCEPT !.authority = "a"], [Intent EXCEPT !.principal = bob],
              [Intent EXCEPT !.class = "c", !.risk = "high", !.latency = 50], [Intent EXCEPT !.cost = 20, !.named = {"y"}] }]

Profile(provider, health, p95, cost, quality, region) ==
  [capability |-> "x", provider |-> provider, health |-> health, p95 |-> p95, cost |-> cost,
   quality |-> quality, region |-> region]

Unrestricted ==
  [authority |-> {}, policy |-> {}, region |-> None, cost |-> None, latency |-> None]

\* Provider selection: a provider may be registered again with other figures.
Provided ==
  [Nothing EXCEPT
     !.profiles = { Profile("p", "healthy", 20, 10, 90, "eu"), Profile("p", "degraded", 90, None, None, "eu"),
                    Profile("q", "healthy", None, 5, 95, None), Profile("r", "degraded", 10, 0, 60, "us"),
                    Profile("s", "unavailable", 1, 0, 99, None) },
     !.questions =
       { [kind |-> "provider", capability |-> "x", context |-> context] :
           context \in { Unrestricted, [Unrestricted EXCEPT !.authority = {"p", "r"}],
                         [Unrestricted EXCEPT !.authority = {"*"}, !.policy = {"q", "s"}],
                         [Unrestricted EXCEPT !.region = "us"], [Unrestricted EXCEPT !.cost = 5, !.latency = 20] } }
       \cup { [kind |-> "provider", capability |-> "y", context |-> Unrestricted] }]

MCKeys == DOMAIN MCConfig

MCSettings == Refusals \cup {Life, Routes, Bare, Kept, Developed, OwnService} \cup Limiters \cup {Versioned, Discovered, Provided}
==============================================================================
