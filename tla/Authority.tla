------------------------------ MODULE Authority -------------------------------
(***************************************************************************)
(* The AuthorityEngine of each process (a Map of authorities and a Set of  *)
(* revocations, both in memory) beside the one AuthorityStore they share,  *)
(* into which the embedder saves and revokes: nothing under src/ does.     *)
(* Of an authority only the state field ever changes.  It repeats what the *)
(* revocations and expires_at say, and no decision reads it or the         *)
(* delegation chain: both are left out, and the records are kept once.     *)
(***************************************************************************)
EXTENDS Processes, Patterns, FiniteSets

CONSTANTS
  Ids,
  Savable   \* ids that the embedder may save: a bound

\* What issue() takes and deriveTo() makes.
Authorities ==
  [subject : Principals, issuer : Principals, parent : Ids \cup {None},
   capabilities : SUBSET Seq(STRING), resources : SUBSET Seq(STRING),
   limit : Nat \cup {None}, extra : Nat \cup {None}, expires : Nat, delegatable : BOOLEAN]

\* AuthorityDeriveSubset: None is a field left out.
Subsets ==
  [capabilities : (SUBSET Seq(STRING)) \cup {None}, resources : (SUBSET Seq(STRING)) \cup {None},
   limit : Nat \cup {None}, extra : Nat \cup {None}, expires : Nat \cup {None},
   delegatable : BOOLEAN \cup {None}]

ASSUME NoneAssumption == None \notin Ids \cup Principals \cup Authorities

VARIABLES
  authority,  \* [Ids -> the authority created under an id, None before]
  held,       \* [Engines -> ids]: the keys of an engine's Map
  revoked,    \* [Engines -> ids]: its revocations
  derived,    \* ids created by deriveTo() (history)
  saved,      \* ids with a row in the AuthorityStore
  struck      \* ids among the store's revocations

authVars == <<authority, held, revoked, derived, saved, struck>>

AuthInit ==
  /\ authority = [id \in Ids |-> None]
  /\ held = [e \in Engines |-> {}]
  /\ revoked = [e \in Engines |-> {}]
  /\ derived = {}
  /\ saved = {}
  /\ struck = {}

Verified(e, id) == id \notin revoked[e] /\ authority[id].expires >= now

\* canExercise(): of the chain above an authority, the parent alone is verified.
CanExercise(e, id, principal, capability, resource) ==
  LET a == authority[id]
  IN /\ Verified(e, id)
     /\ a.subject = principal
     /\ \E p \in a.capabilities : PatternMatch(p, capability)
     /\ a.resources # {} =>
          resource # None /\ \E p \in a.resources : PatternMatch(p, resource)
     /\ a.parent # None => a.parent \in held[e] /\ Verified(e, a.parent)

Register(e, id, a) ==
  /\ authority[id] = None
  /\ authority' = [authority EXCEPT ![id] = a]
  /\ held' = [held EXCEPT ![e] = @ \cup {id}]
  /\ UNCHANGED <<revoked, saved, struck>>

\* issue(), of the authority i.spec under the id i.id.  A parent id in it is
\* taken as it comes, without a check.
Issue(i) == Register(i.engine, i.id, i.spec) /\ UNCHANGED derived

\* deriveTo(): in d.subset, None is a field left out.
\* The constraints that deriveTo() compares (max_duration_ms, max_cost_usd,
\* max_calls) are one limit; the others (max_records, ...) are one extra.
Default(value, inherited) == IF value = None THEN inherited ELSE value

Child(d) ==
  LET a == authority[d.parent]
      subset == d.subset
  IN [subject |-> d.subject, issuer |-> d.issuer, parent |-> d.parent,
      capabilities |-> Default(subset.capabilities, a.capabilities),
      resources |-> Default(subset.resources, a.resources),
      limit |-> Default(subset.limit, a.limit),
      extra |-> Default(subset.extra, a.extra),
      expires |-> Default(subset.expires, a.expires),
      delegatable |-> Default(subset.delegatable, a.delegatable)]

\* Mutant: the life of the child is not compared.
WithinParentButTime(child, a) ==
  /\ IsSubset(child.capabilities, a.capabilities)
  /\ IsSubset(child.resources, a.resources)
  /\ a.limit # None => child.limit # None /\ child.limit <= a.limit
  /\ child.delegatable => a.delegatable

WithinParent(child, a) ==
  /\ IsSubset(child.capabilities, a.capabilities)
  /\ IsSubset(child.resources, a.resources)
  /\ a.limit # None => child.limit # None /\ child.limit <= a.limit
  /\ child.expires <= a.expires
  /\ child.delegatable => a.delegatable

DeriveTo(d) ==
  /\ d.parent \in held[d.engine] /\ Verified(d.engine, d.parent)
  /\ authority[d.parent].delegatable
  /\ WithinParent(Child(d), authority[d.parent])
  /\ Register(d.engine, d.id, Child(d))
  /\ derived' = derived \cup {d.id}

\* What the caller of revoke() says of itself.
Proofs == [revoker : Principals, issuer : BOOLEAN, admin : BOOLEAN, emergency : BOOLEAN]

MayRevoke(a, by, proof) ==
  IF proof = None THEN a.issuer = by
  ELSE /\ proof.revoker = by
       /\ proof.issuer \/ proof.admin \/ proof.emergency
       /\ proof.issuer => a.issuer = by
       /\ proof.admin => proof.emergency

Children(among, of) == {c \in among : authority[c].parent \in of}

\* Mutant: the children alone, as in InMemoryAuthorityStore.
OneLevelCascade(among, before, id) == {id} \cup Children(among, {id})

\* The cascade: from a revoked authority to the children that were not revoked
\* before, and on from these.  The least set that contains id and is so closed.
Cascade(among, before, id) ==
  {x \in Ids : \A S \in SUBSET Ids :
     (id \in S /\ Children(among, S) \ before \subseteq S) => x \in S}

RevokeWith(e, id, proofs) ==
  /\ id \in held[e]
  /\ \E by \in Principals, proof \in proofs : MayRevoke(authority[id], by, proof)
  /\ revoked' = [revoked EXCEPT ![e] = @ \cup Cascade(held[e], @, id)]
  /\ UNCHANGED <<authority, held, derived, saved, struck>>

Revoke(e, id) == RevokeWith(e, id, Proofs \cup {None})

EmergencyRevoke(e, id) ==
  RevokeWith(e, id, [revoker : Principals, issuer : {FALSE}, admin : {TRUE}, emergency : {TRUE}])

\* The embedder saves an authority it holds, and revokes in the store, with
\* all descendants that have a row (SQL) or alone.
Save(e, id) ==
  /\ id \in held[e] \cap Savable
  /\ saved' = saved \cup {id}
  /\ UNCHANGED <<authority, held, revoked, derived, struck>>

StoreRevoke(id, cascade) ==
  /\ id \in saved \ struck
  /\ struck' = struck \cup (IF cascade THEN Cascade(saved, {}, id) ELSE {id})
  /\ UNCHANGED <<authority, held, revoked, derived, saved>>

\* A process restarts: its engine forgets, revocations included.
Forget(e) ==
  /\ held' = [held EXCEPT ![e] = {}]
  /\ revoked' = [revoked EXCEPT ![e] = {}]
  /\ UNCHANGED <<authority, derived, saved, struck>>

AuthNext ==
  \/ \E e \in Engines, id \in Ids : Revoke(e, id) \/ EmergencyRevoke(e, id) \/ Save(e, id)
  \/ \E id \in Ids, cascade \in BOOLEAN : StoreRevoke(id, cascade)
==============================================================================
