----------------------------- MODULE MCAdmission ------------------------------
(* TLC instance of Admission.                                              *)
EXTENDS Admission, TLC

CONSTANTS e1, e2, alice, bob, tokA, tokB, a1, a2, a3, a4, c1, c2

MCNames == {<<"d">>, <<"d", "x">>, <<"d", "x", "y">>}

Root(expires) ==
  [subject |-> alice, issuer |-> alice, parent |-> None, capabilities |-> {<<"d", "**">>},
   resources |-> {<<"d", "*">>}, limit |-> 2, extra |-> 2, expires |-> expires, delegatable |-> TRUE]

\* A root, and an authority that is issued with a parent instead of derived.
MCIssues ==
  { [engine |-> e1, id |-> a1, spec |-> Root(1)],
    [engine |-> e1, id |-> a2, spec |-> [Root(1) EXCEPT !.parent = a1, !.subject = bob]] }

Same ==
  [capabilities |-> None, resources |-> None, limit |-> None, extra |-> None,
   expires |-> None, delegatable |-> None]

Derive(id, parent, subset) ==
  [engine |-> e1, id |-> id, parent |-> parent, subject |-> bob, issuer |-> alice, subset |-> subset]

MCDerivations ==
  { Derive(a2, a1, Same),
    Derive(a2, a1, [Same EXCEPT !.capabilities = {<<"d", "*">>}, !.expires = 0, !.limit = 1]),
    Derive(a2, a1, [Same EXCEPT !.capabilities = {<<"d", "x">>, <<"d">>}, !.resources = {}]),
    Derive(a3, a2, [Same EXCEPT !.capabilities = {<<"d", "x">>}]),
    Derive(a3, a2, [Same EXCEPT !.capabilities = {<<"d", "x">>}, !.expires = 1]),
    Derive(a3, a2, [Same EXCEPT !.capabilities = {<<"d", "**">>}, !.resources = {<<"d", "x">>},
                                !.limit = 2, !.expires = 1, !.delegatable = FALSE]) }

MCContracts ==
  <<"d", "x">> :> [id |-> <<"d", "x">>, risk |-> "low", approval |-> "on_high_risk", sideEffect |-> TRUE]
  @@ <<"d">> :> [id |-> <<"d">>, risk |-> "low", approval |-> "always", sideEffect |-> FALSE]

MCTokens ==
  tokA :> [sub |-> alice, exp |-> None] @@ tokB :> [sub |-> bob, exp |-> 0]

Calm == [count |-> 1, amount |-> 0, delete |-> FALSE, force |-> FALSE, untrusted |-> FALSE]

Bearer(token) == [type |-> "bearer_token", token |-> token]

Ask(id, engine, token, capability, auth) ==
  [id |-> id, engine |-> engine, credential |-> Bearer(token), capability |-> capability,
   authority |-> auth, resource |-> <<"d", "x">>, input |-> Calm]

AnyRule ==
  [principal |-> None, capability |-> None, environment |-> None, resource |-> None,
   maxRisk |-> None, effect |-> "allow"]

\* Authorities: two processes, calls under what one of them issued or derived.
Delegation ==
  [production |-> TRUE, policies |-> <<>>, calls |-> {c1}, issues |-> MCIssues, derivations |-> MCDerivations,
   requests |-> { Ask("r", e1, tokA, <<"d", "x">>, a1), Ask("r", e2, tokA, <<"d", "x">>, a1),
                  Ask("r", e1, tokB, <<"d", "x">>, a3) }]

\* A longer chain, without calls.
Chain ==
  [production |-> TRUE, policies |-> <<>>, calls |-> {}, requests |-> {},
   issues |-> {[engine |-> e1, id |-> a1, spec |-> Root(1)]},
   derivations |-> {Derive(a2, a1, Same), Derive(a3, a2, Same), Derive(a4, a3, Same)}]

\* Approvals and policies: several calls of two ids, some without an authority.
Policies ==
  { <<>>,
    << [rules |-> <<[AnyRule EXCEPT !.capability = {<<"d">>}]>>, default |-> "approval"],
       [rules |-> <<[AnyRule EXCEPT !.principal = {bob}, !.effect = "deny"]>>, default |-> "deny"] >>,
    << [rules |-> <<[AnyRule EXCEPT !.maxRisk = "low", !.effect = "approval"],
                    [AnyRule EXCEPT !.resource = <<"d">>, !.effect = "deny"]>>, default |-> "deny"] >> }

Approvals(production, policies) ==
  [production |-> production, policies |-> policies, calls |-> Calls,
   issues |-> {}, derivations |-> {},
   requests |-> { Ask("r", e1, tokA, <<"d", "x">>, None),
                  Ask("r", e1, tokB, <<"d">>, None), Ask("s", e1, tokA, <<"d">>, None) }]

MCSettings ==
  {Delegation, Chain} \cup {Approvals(production, policies) : production \in BOOLEAN, policies \in Policies}
==============================================================================
