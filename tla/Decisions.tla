------------------------------ MODULE Decisions -------------------------------
(***************************************************************************)
(* The decisions of the pipeline that keep no state: who a credential      *)
(* stands for, what the policies say, and how risky a call is.             *)
(***************************************************************************)
EXTENDS Processes, Integers, Sequences

CONSTANT Nobody

ASSUME NobodyAssumption == Nobody \notin Principals

-----------------------------------------------------------------------------
(* Authenticators: who a credential stands for at a time, or Nobody.       *)

\* TestAuthenticator, over the tokens registered with it: a test token that is
\* not among them is believed.
TestAuthenticate(tokens, credential) ==
  IF credential.token \in DOMAIN tokens /\ credential.type \in {"bearer_token", "test_token"}
  THEN tokens[credential.token].sub
  ELSE IF credential.type = "test_token" THEN credential.token ELSE Nobody

\* BearerTokenAuthenticator: tokens are what decode() makes of them, exp is None
\* or a time, and the clocks may differ by the skew.
BearerAuthenticate(tokens, credential, skew) ==
  LET decoded == tokens[credential.token]
  IN IF /\ credential.type = "bearer_token"
        /\ credential.token \in DOMAIN tokens
        /\ decoded.exp # None => decoded.exp + skew >= now
     THEN decoded.sub ELSE Nobody

-----------------------------------------------------------------------------
(* PolicyEngine.evaluate(): a policy is [rules, default]; of a rule, the    *)
(* globs are the sets of values they match, and None is a field left out.   *)

Levels == <<"low", "medium", "high", "critical">>
Effects == {"allow", "deny", "approval"}

PolicyRules ==
  [principal : (SUBSET Principals) \cup {None}, capability : (SUBSET Seq(STRING)) \cup {None},
   environment : {"production", "test", None}, resource : Seq(STRING) \cup {None},
   maxRisk : {Levels[i] : i \in 1 .. 4} \cup {None}, effect : Effects]

PolicyDocuments == [rules : Seq(PolicyRules), default : Effects]

Rank(level) == CHOOSE i \in 1 .. 4 : Levels[i] = level

MatchesRule(rule, principal, capability, ctx) ==
  /\ rule.principal # None => principal \in rule.principal
  /\ rule.capability # None => capability.id \in rule.capability
  /\ rule.environment # None => rule.environment = ctx.environment
  /\ rule.resource # None => rule.resource = ctx.resource
  /\ rule.maxRisk # None => Rank(capability.risk) <= Rank(rule.maxRisk)

\* The rules of all policies in order, one after the other.
AllRules(policies) ==
  LET rules[i \in 0 .. Len(policies)] == IF i = 0 THEN <<>> ELSE rules[i - 1] \o policies[i].rules
  IN rules[Len(policies)]

\* Mutant: the first rule that matches decides, a deny after it does not.
FirstMatch(policies, principal, capability, ctx) ==
  LET rules == AllRules(policies)
      matching == {i \in 1 .. Len(rules) : MatchesRule(rules[i], principal, capability, ctx)}
      first == CHOOSE i \in matching : \A j \in matching : i <= j
  IN IF matching # {} THEN rules[first].effect
     ELSE IF policies # <<>> THEN policies[1].default ELSE "allow"

\* A deny anywhere decides; otherwise the first rule that matches; otherwise the
\* default of the first policy, and without policies everything is allowed.
Evaluate(policies, principal, capability, ctx) ==
  LET rules == AllRules(policies)
      matching == {i \in 1 .. Len(rules) : MatchesRule(rules[i], principal, capability, ctx)}
      first == CHOOSE i \in matching : \A j \in matching : i <= j
  IN IF \E i \in matching : rules[i].effect = "deny" THEN "deny"
     ELSE IF matching # {} THEN rules[first].effect
     ELSE IF policies # <<>> THEN policies[1].default ELSE "allow"

-----------------------------------------------------------------------------
(* RiskEngine.assess(): the input by the bounds it is compared with.       *)

Clamp(n) == IF n < 0 THEN 0 ELSE IF n > 100 THEN 100 ELSE n

EnvironmentBoost(environment) == IF environment = "production" THEN 25 ELSE -20

AmountBoost(amount) ==
  IF amount > 10000 THEN 40 ELSE IF amount > 1000 THEN 20 ELSE IF amount > 100 THEN 5 ELSE 0

Score(level, environment, input) ==
  Clamp( Rank(level) * 25 + EnvironmentBoost(environment)
         + (IF input.count > 1000 THEN 15 ELSE 0) + AmountBoost(input.amount)
         + (IF input.delete THEN 20 ELSE 0) + (IF input.force THEN 10 ELSE 0)
         + (IF input.untrusted THEN 15 ELSE 0) )

LevelOf(score) ==
  IF score >= 90 THEN "critical" ELSE IF score >= 70 THEN "high"
  ELSE IF score >= 40 THEN "medium" ELSE "low"

Assess(level, environment, input) == LevelOf(Score(level, environment, input))

NeedsApproval(capability, risk, decision) ==
  \/ capability.approval = "always"
  \/ capability.approval = "on_high_risk" /\ risk \in {"high", "critical"}
  \/ decision = "approval"
==============================================================================
