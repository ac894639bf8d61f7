------------------------------- MODULE Catalogue ------------------------------
(***************************************************************************)
(* What a runtime knows of capabilities and of who provides them, and how  *)
(* it chooses: CapabilityRegistry, DefaultProviderResolver and             *)
(* CapabilityResolver.  Scores are in hundredths of a point: the weights   *)
(* .30, .25, .20, .15 and .10 times a factor in percent.                   *)
(***************************************************************************)
EXTENDS Versions, Loops, FiniteSets

CONSTANTS
  NoAnswer,
  Allowed(_, _),     \* canExercise(): may this authority use this capability?
  Denied(_, _),      \* policy.evaluate(): is this capability denied to this principal?
  MaxRegistered, MaxProfiles  \* bounds

VARIABLES
  registered,  \* the registry, in the order of list()
  profiles,    \* the candidates, in the order they were registered
  answer       \* the question asked last, since anything changed, and what it was answered

catalogueVars == <<registered, profiles, answer>>

Health == {"healthy", "degraded", "offline", "unknown"}

CatalogueInit == registered = <<>> /\ profiles = <<>> /\ answer = NoAnswer

Entries == Range(registered)

OfId(id) == Filter(registered, {c \in Entries : c.contract.id = id})

\* Where an entry goes: behind the others of its id, a new id behind all.
Behind(id) ==
  LET own == {i \in DOMAIN registered : registered[i].contract.id = id}
  IN IF own = {} THEN Len(registered) + 1 ELSE 1 + CHOOSE i \in own : \A j \in own : j <= i

\* register(): one entry per id, provider and version.
Register(contract) ==
  /\ Len(registered) < MaxRegistered
  /\ \A c \in Range(OfId(contract.id)) :
       c.contract.provider # contract.provider \/ c.contract.version # contract.version
  /\ registered' = InsertAt(registered, Behind(contract.id),
                            [contract |-> contract, health |-> "healthy"])
  /\ UNCHANGED profiles /\ answer' = NoAnswer

\* unregister(): None stands for an option that is not given.
Unregister(id, provider, version) ==
  LET kept(c) == \/ c.contract.id # id
                 \/ provider # None /\ c.contract.provider # provider
                 \/ version # None /\ c.contract.version # version
  IN /\ OfId(id) # <<>>
     /\ registered' = Filter(registered, {c \in Entries : kept(c)})
     /\ UNCHANGED profiles /\ answer' = NoAnswer

SetHealth(id, provider, health) ==
  /\ OfId(id) # <<>>
  /\ registered' = [i \in DOMAIN registered |->
       IF registered[i].contract.id = id /\ registered[i].contract.provider = provider
       THEN [registered[i] EXCEPT !.health = health] ELSE registered[i]]
  /\ UNCHANGED profiles /\ answer' = NoAnswer

Told(question, result) ==
  /\ answer' = [question |-> question, result |-> result]
  /\ UNCHANGED <<registered, profiles>>

\* resolve(): the first that satisfies the range, of the healthy ones if any
\* entry of the id is healthy, whatever its version.
ResolveRef(id, range) ==
  LET well == Filter(OfId(id), {c \in Entries : c.health = "healthy"})
      found == Filter(IF well # <<>> THEN well ELSE OfId(id),
                      {c \in Entries : Satisfies(c.contract.version, range)})
  IN IF found = <<>> THEN None ELSE found[1]

Resolve(q) == Told(q, ResolveRef(q.id, q.range))

RiskOrder == [low |-> 1, medium |-> 2, high |-> 3, critical |-> 4]

\* A limit that is not given, or a cost or latency that is not known, excludes nothing.
Within(value, limit) == limit = None \/ value = None \/ value <= limit
Same(wanted, value) == wanted = None \/ wanted = value

RiskWithin(contract, limit) ==
  limit = None \/ RiskOrder[contract.risk] <= RiskOrder[limit]

Upto(seq, limit) == SubSeq(seq, 1, IF limit < Len(seq) THEN limit ELSE Len(seq))

\* discover(), findBySemanticClass()
Discover(q) ==
  LET fits(c) ==
        /\ Same(q.id, c.contract.id) /\ Same(q.kind, c.contract.kind)
        /\ Same(q.class, c.contract.class)
        /\ RiskWithin(c.contract, q.risk)
        /\ Within(c.contract.p95, q.latency) /\ Within(c.contract.cost, q.cost)
        /\ c.health # "offline"
  IN Upto(Filter(registered, {c \in Entries : fits(c)}), q.limit)

-----------------------------------------------------------------------------
(* Rankings.                                                               *)

AtLeast0(n) == IF n < 0 THEN 0 ELSE n

\* Latencies are in hundreds of milliseconds and costs in cents; what is not
\* known counts for half.
LatencyScore(p95) == IF p95 = None THEN 50 ELSE AtLeast0(100 - p95)
CostScore(cost) == IF cost = None THEN 50 ELSE AtLeast0(100 - cost)

\* sort() by falling score, which keeps the order of what scores the same.
Ahead(seq, score, i) ==
  {j \in DOMAIN seq : score[seq[j]] > score[seq[i]] \/ (score[seq[j]] = score[seq[i]] /\ j < i)}
Sorted(seq, score) ==
  [place \in DOMAIN seq |->
     seq[CHOOSE i \in DOMAIN seq : Cardinality(Ahead(seq, score, i)) = place - 1]]

Score(c) ==
  30 * (IF c.health = "healthy" THEN 100 ELSE IF c.health = "degraded" THEN 50 ELSE 0)
  + 25 * LatencyScore(c.p95) + 20 * CostScore(c.cost)
  + 25 * (IF c.quality = None THEN 50 ELSE c.quality)

\* The six filters of the provider resolver.
Eligible(c, context) ==
  /\ c.health \notin {"unavailable", "quarantined"}
  /\ context.authority = {} \/ c.provider \in context.authority \/ "*" \in context.authority
  /\ context.policy = {} \/ c.provider \in context.policy
  /\ context.region = None \/ c.region \in {None, context.region}
  /\ Within(c.cost, context.cost) /\ Within(c.p95, context.latency)

\* DefaultProviderResolver.register(): a provider may be there several times.
RegisterProfile(profile) ==
  /\ Len(profiles) < MaxProfiles
  /\ profiles' = Append(profiles, profile)
  /\ UNCHANGED registered /\ answer' = NoAnswer

\* Mutant: the first candidate is taken, ranked or not.
FirstCandidate(candidates) == IF candidates = <<>> THEN None ELSE candidates[1]

\* The first candidate whose provider has the best score.
Best(candidates) ==
  LET first == Sorted(candidates, [c \in Range(candidates) |-> Score(c)])[1]
  IN IF candidates = <<>> THEN None
     ELSE Filter(candidates, {c \in Range(candidates) : c.provider = first.provider})[1]

Candidates(q) ==
  Filter(profiles, {c \in Range(profiles) : c.capability = q.capability /\ Eligible(c, q.context)})

\* DefaultProviderResolver.resolve()
SelectProvider(q) ==
  Told(q, [selected |-> Best(Candidates(q)),
           alternatives |-> IF Candidates(q) = <<>> THEN <<>> ELSE Tail(Candidates(q))])

HealthScore == [healthy |-> 100, degraded |-> 50, offline |-> 0, unknown |-> 30]
RiskScore == [low |-> 100, medium |-> 75, high |-> 40, critical |-> 10]

Fitness(c, q) ==
  30 * HealthScore[c.health] + 25 * LatencyScore(c.contract.p95) + 20 * CostScore(c.contract.cost)
  + 15 * RiskScore[c.contract.risk] + 10 * (IF c.contract.class = q.class THEN 100 ELSE 50)

\* The filters of CapabilityResolver.resolve(): what the intent names, then
\* authority, risk, cost, latency, policy and health.
Suitable(c, q) ==
  /\ Same(q.class, c.contract.class) /\ c.contract.id \in q.named
  /\ q.authority = None \/ Allowed(q.authority, c.contract.id)
  /\ RiskWithin(c.contract, q.risk)
  /\ Within(c.contract.cost, q.cost) /\ Within(c.contract.p95, q.latency)
  /\ ~Denied(q.principal, c.contract.id)
  /\ c.health # "offline"

\* CapabilityResolver.resolve()
Matches(q) ==
  LET able == Filter(registered, {c \in Entries : Suitable(c, q)})
  IN Upto(Sorted(able, [c \in Range(able) |-> Fitness(c, q)]), q.limit)

ResolveIntent(q) == Told(q, Matches(q))

-----------------------------------------------------------------------------
(* Properties.                                                             *)

Asked(kind) == answer # NoAnswer /\ answer.question.kind = kind

\* A capability is resolved to a release in the range that was asked for, as the
\* comments define ranges, and to a healthy one while the id has any; that none
\* is found means that none of those was in range.
ResolvesInRange ==
  Asked("reference") =>
    LET q == answer.question
        found == answer.result
        readable == \A i \in DOMAIN q.range : Readable(q.range[i])
        own == {c \in Entries : c.contract.id = q.id}
        healthy == {c \in own : c.health = "healthy"}
        pool == IF healthy = {} THEN own ELSE healthy
    IN IF found = None
       THEN readable => \A c \in pool : ~InRange(c.contract.version, q.range)
       ELSE /\ found \in pool
            /\ (readable /\ found.contract.version.pre = <<>>)
                 => InRange(found.contract.version, q.range)

BestProvider ==
  Asked("provider") =>
    LET q == answer.question
        chosen == answer.result.selected
        able == {c \in Range(profiles) : c.capability = q.capability /\ Eligible(c, q.context)}
        once == \A i, j \in DOMAIN profiles : profiles[i].provider = profiles[j].provider => i = j
    IN IF chosen = None THEN able = {}
       ELSE chosen \in able /\ (once => \A c \in able : Score(c) <= Score(chosen))

BestCapabilities ==
  Asked("intent") =>
    LET q == answer.question
        matches == answer.result
        able == {c \in Entries : Suitable(c, q)}
    IN /\ Range(matches) \subseteq able
       /\ \A i, j \in DOMAIN matches : i < j => Fitness(matches[i], q) >= Fitness(matches[j], q)
       /\ Len(matches) < q.limit => Range(matches) = able
       /\ \A c \in able \ Range(matches), m \in Range(matches) : Fitness(c, q) <= Fitness(m, q)

\* What is chosen passes every filter, and nothing that passes them and was left
\* out or ranked lower deserved more: of providers that are registered once, and
\* of capabilities up to the limit.
SelectionIsBest == BestProvider /\ BestCapabilities
==============================================================================
