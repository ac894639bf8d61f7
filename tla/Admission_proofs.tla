--------------------------- MODULE Admission_proofs ----------------------------
(***************************************************************************)
(* Theorems about Admission, for every set of engines, authorities, calls  *)
(* and settings: delegation narrows and revocation reaches over chains of  *)
(* any length, no call passes under an authority its engine knew revoked,  *)
(* and decisions about approvals stand.                                    *)
(***************************************************************************)
EXTENDS Admission, WellFoundedInduction, TLAPS

------------------------------------------------------------------------------
(* Patterns and chains.                                                    *)

\* What a pattern covers, the two exceptions aside, it matches no less than.
LEMMA CoversGrants ==
  ASSUME NEW q \in Seq(STRING), NEW p \in Seq(STRING), NEW v \in Seq(STRING),
         PatternCovers(q, p), ~Exceptional(q, p), PatternMatch(p, v)
  PROVE  PatternMatch(q, v)
<1> USE DEF PatternMatch, OneLevel, AnyDepth, Below
<1>1. CASE q = <<"*">> \/ q = p
  BY <1>1
<1>2. CASE AnyDepth(q) /\ Below(p, q)
  <2>1. p # <<"*">>
    BY <1>2
  <2>2. Below(v, q)
    BY <1>2, <2>1
  <2> QED
    BY <1>2, <2>2
<1>3. CASE OneLevel(q) /\ Below(p, q) /\ Len(p) = Len(q)
  <2>1. p # <<"*">> /\ ~AnyDepth(p)
    BY <1>3 DEF Exceptional
  <2>2. Below(v, q) /\ Len(v) = Len(q)
    BY <1>3, <2>1
  <2> QED
    BY <1>3, <2>2
<1> QED
  BY <1>1, <1>2, <1>3 DEF PatternCovers, Exceptional

\* The line of an authority begins with it, goes on to the parent of whatever was
\* derived, and holds nothing else.
LEMMA LineStarts ==
  ASSUME NEW id \in Ids
  PROVE  id \in Lineage(id)
PROOF BY DEF Lineage

LEMMA LineGoesUp ==
  ASSUME NEW id \in Ids, NEW y \in Lineage(id) \cap derived, authority[y].parent \in Ids
  PROVE  authority[y].parent \in Lineage(id)
PROOF BY DEF Lineage

LEMMA LineIsLeast ==
  ASSUME NEW id, NEW S \in SUBSET Ids, id \in S,
         \A y \in S \cap derived : authority[y].parent \in S
  PROVE  Lineage(id) \subseteq S
PROOF BY DEF Lineage

\* A cascade takes the revoked authority, only what is there, and with each its
\* children that were not revoked before.
LEMMA CascadeTakes ==
  ASSUME NEW among \in SUBSET Ids, NEW before, NEW id \in Ids
  PROVE  /\ id \in Cascade(among, before, id)
         /\ Cascade(among, before, id) \subseteq {id} \cup among
         /\ \A x \in Cascade(among, before, id), y \in among :
              authority[y].parent = x /\ y \notin before => y \in Cascade(among, before, id)
<1>1. id \in Cascade(among, before, id)
  BY DEF Cascade
<1>2. Cascade(among, before, id) \subseteq {id} \cup among
  <2> DEFINE S == {id} \cup among
  <2>1. S \in SUBSET Ids /\ id \in S /\ Children(among, S) \ before \subseteq S
    BY DEF Children
  <2> HIDE DEF S
  <2>2. Cascade(among, before, id) \subseteq S
    BY <2>1 DEF Cascade
  <2> QED
    BY <2>2 DEF S
<1>3. ASSUME NEW x \in Cascade(among, before, id), NEW y \in among,
             authority[y].parent = x, y \notin before
      PROVE  y \in Cascade(among, before, id)
  <2>1. ASSUME NEW S \in SUBSET Ids, id \in S, Children(among, S) \ before \subseteq S
        PROVE  y \in S
    <3>1. x \in S
      BY <2>1 DEF Cascade
    <3> QED
      BY <1>3, <2>1, <3>1 DEF Children
  <2> QED
    BY <2>1 DEF Cascade
<1> QED
  BY <1>1, <1>2, <1>3

------------------------------------------------------------------------------
(* Types.                                                                  *)

\* A child is an authority.
LEMMA ChildType ==
  ASSUME TypeOK, NEW d, d.subject \in Principals, d.issuer \in Principals, d.parent \in Ids,
         d.subset \in Subsets, authority[d.parent] # None
  PROVE  Child(d) \in Authorities
<1>1. authority[d.parent] \in Authorities
  BY DEF TypeOK, AuthorityTypes
<1> QED
  BY <1>1 DEF Child, Default, Authorities, Subsets

\* What a step of the authority engines or their store does.
Registering(e, id, a) ==
  /\ e \in Engines /\ id \in Ids /\ a \in Authorities
  /\ Register(e, id, a)
  /\ \/ UNCHANGED derived
     \/ /\ derived' = derived \cup {id}
        /\ a.parent \in held[e] \ revoked[e]
        /\ WithinParent(a, authority[a.parent])

Revoking(e, id) ==
  /\ e \in Engines /\ id \in held[e]
  /\ revoked' = [revoked EXCEPT ![e] = @ \cup Cascade(held[e], @, id)]
  /\ UNCHANGED <<authority, held, derived, saved, struck>>

Storing ==
  /\ saved \subseteq saved' /\ struck \subseteq struck'
  /\ UNCHANGED <<authority, held, revoked, derived>>

AuthorityStep ==
  \/ \E e \in Engines, id \in Ids, a \in Authorities : Registering(e, id, a)
  \/ \E e \in Engines, id \in Ids : Revoking(e, id)
  \/ Storing

LEMMA AuthoritySteps ==
  ASSUME TypeOK,
         \/ \E i \in setting.issues : Issue(i)
         \/ \E d \in setting.derivations : DeriveTo(d)
         \/ AuthNext
  PROVE  AuthorityStep
<1>0. setting \in Settings
  BY DEF TypeOK
<1>1. ASSUME NEW i \in setting.issues, Issue(i)
      PROVE  AuthorityStep
  <2>1. Registering(i.engine, i.id, i.spec)
    BY <1>0, <1>1, SettingsAssumption DEF Issue, Registering
  <2> QED
    BY <2>1 DEF AuthorityStep, Registering
<1>2. ASSUME NEW d \in setting.derivations, DeriveTo(d)
      PROVE  AuthorityStep
  <2>1. /\ d.engine \in Engines /\ d.id \in Ids /\ d.parent \in Ids
        /\ d.subject \in Principals /\ d.issuer \in Principals /\ d.subset \in Subsets
    BY <1>0, SettingsAssumption
  <2>2. d.parent \in held[d.engine] \ revoked[d.engine] /\ authority[d.parent] # None
    BY <1>2, <2>1 DEF DeriveTo, Verified, TypeOK, AuthorityTypes
  <2>3. Child(d) \in Authorities
    BY <2>1, <2>2, ChildType
  <2>4. Child(d).parent = d.parent
    BY DEF Child
  <2>5. Registering(d.engine, d.id, Child(d))
    BY <1>2, <2>1, <2>2, <2>3, <2>4 DEF DeriveTo, Registering
  <2> QED
    BY <2>5 DEF AuthorityStep, Registering
<1>3. ASSUME NEW e \in Engines, NEW id \in Ids, Revoke(e, id) \/ EmergencyRevoke(e, id)
      PROVE  AuthorityStep
  <2>1. Revoking(e, id)
    BY <1>3 DEF Revoke, EmergencyRevoke, RevokeWith, Revoking
  <2> QED
    BY <2>1 DEF AuthorityStep
<1>4. ASSUME NEW e \in Engines, NEW id \in Ids, Save(e, id)
      PROVE  AuthorityStep
  BY <1>4 DEF Save, AuthorityStep, Storing
<1>5. ASSUME NEW id \in Ids, NEW cascade \in BOOLEAN, StoreRevoke(id, cascade)
      PROVE  AuthorityStep
  BY <1>5 DEF StoreRevoke, AuthorityStep, Storing
<1> QED
  BY <1>1, <1>2, <1>3, <1>4, <1>5 DEF AuthNext

LEMMA AuthorityTypeStep ==
  ASSUME TypeOK,
         \/ \E i \in setting.issues : Issue(i)
         \/ \E d \in setting.derivations : DeriveTo(d)
         \/ AuthNext
  PROVE  AuthorityTypes'
<1> USE DEF TypeOK, AuthorityTypes
<1>1. ASSUME NEW e \in Engines, NEW id \in Ids, NEW a \in Authorities, Registering(e, id, a)
      PROVE  AuthorityTypes'
  BY <1>1, NoneAssumption DEF Registering, Register
<1>2. ASSUME NEW e \in Engines, NEW id \in Ids, Revoking(e, id)
      PROVE  AuthorityTypes'
  <2>1. held[e] \in SUBSET Ids
    OBVIOUS
  <2>2. Cascade(held[e], revoked[e], id) \subseteq held[e]
    BY <1>2, <2>1, CascadeTakes DEF Revoking
  <2> QED
    BY <1>2, <2>2 DEF Revoking
<1>3. ASSUME NEW e \in Engines, NEW id \in Ids, Save(e, id)
      PROVE  AuthorityTypes'
  BY <1>3 DEF Save
<1>4. ASSUME NEW id \in Ids, NEW cascade \in BOOLEAN, StoreRevoke(id, cascade)
      PROVE  AuthorityTypes'
  <2>1. Cascade(saved, {}, id) \subseteq {id} \cup saved
    BY CascadeTakes
  <2>2. struck' \subseteq saved
    BY <1>4, <2>1 DEF StoreRevoke
  <2> QED
    BY <1>4, <2>2 DEF StoreRevoke
<1>5. AuthorityStep /\ ~Storing => AuthorityTypes'
  BY <1>1, <1>2 DEF AuthorityStep
<1> QED
  BY <1>3, <1>4, <1>5, AuthoritySteps
     DEF AuthNext, Issue, DeriveTo, Register, Revoke, EmergencyRevoke, RevokeWith, Storing

------------------------------------------------------------------------------
(* Lines of delegation.                                                    *)

\* An authority is held by one engine at most.
Homes ==
  \A e, f \in Engines : e # f => held[e] \cap held[f] = {}

\* What was derived has a parent, and lies within it.
DerivedWithin ==
  \A y \in derived :
    /\ authority[y].parent \in Ids
    /\ authority[authority[y].parent] # None
    /\ WithinParent(authority[y], authority[authority[y].parent])

\* An engine holds the derived authorities of the parents it holds, and no other.
LineHeld ==
  \A e \in Engines, y \in derived : y \in held[e] <=> authority[y].parent \in held[e]

\* A revocation has reached all that was derived from the revoked authority.
RevokedDown ==
  \A e \in Engines, y \in derived :
    y \in held[e] /\ authority[y].parent \in revoked[e] => y \in revoked[e]

LineInv == Homes /\ DerivedWithin /\ LineHeld /\ RevokedDown

LEMMA LineAuthority ==
  ASSUME TypeOK, LineInv, AuthorityStep
  PROVE  LineInv'
<1> USE DEF TypeOK, AuthorityTypes
<1>1. ASSUME NEW e \in Engines, NEW id \in Ids, NEW a \in Authorities, Registering(e, id, a)
      PROVE  LineInv'
  <2>1. /\ authority[id] = None
        /\ authority' = [authority EXCEPT ![id] = a]
        /\ held' = [held EXCEPT ![e] = @ \cup {id}]
        /\ revoked' = revoked
    BY <1>1 DEF Registering, Register
  <2>2. id \notin derived /\ \A f \in Engines : id \notin held[f] /\ id \notin revoked[f]
    BY <2>1
  <2>3. \A x \in Ids : x # id => authority'[x] = authority[x]
    BY <2>1
  <2>4. authority'[id] = a
    BY <2>1
  <2>5. \A y \in derived : /\ authority'[y] = authority[y]
                           /\ authority[y].parent \in Ids /\ authority[y].parent # id
    BY <2>1, <2>2, <2>3 DEF LineInv, DerivedWithin
  <2>6. ASSUME derived' = derived \cup {id}
        PROVE  /\ a.parent \in held[e] \ revoked[e] /\ a.parent \in Ids /\ a.parent # id
               /\ authority[a.parent] # None /\ WithinParent(a, authority[a.parent])
    <3>1. derived' # derived
      BY <2>2, <2>6
    <3> QED
      BY <1>1, <2>2, <3>1 DEF Registering
  <2>7. derived' = derived \/ derived' = derived \cup {id}
    BY <1>1 DEF Registering
  <2>8. Homes'
    BY <2>1, <2>2 DEF LineInv, Homes
  <2>9. \A y \in derived : y \in derived' => /\ authority'[y].parent \in Ids
                                             /\ authority'[authority'[y].parent] # None
                                             /\ WithinParent(authority'[y], authority'[authority'[y].parent])
    BY <2>3, <2>5 DEF LineInv, DerivedWithin
  <2>10. id \in derived' => /\ authority'[id].parent \in Ids
                            /\ authority'[authority'[id].parent] # None
                            /\ WithinParent(authority'[id], authority'[authority'[id].parent])
    BY <2>2, <2>3, <2>4, <2>6, <2>7
  <2>11. DerivedWithin'
    BY <2>7, <2>9, <2>10 DEF DerivedWithin
  <2>12. LineHeld'
    <3>1. ASSUME NEW f \in Engines, NEW y \in derived
          PROVE  y \in held'[f] <=> authority'[y].parent \in held'[f]
      BY <2>1, <2>2, <2>5 DEF LineInv, LineHeld
    <3>2. ASSUME NEW f \in Engines, id \in derived'
          PROVE  id \in held'[f] <=> authority'[id].parent \in held'[f]
      BY <2>1, <2>2, <2>4, <2>6, <2>7, <3>2 DEF LineInv, Homes
    <3> QED
      BY <2>7, <3>1, <3>2 DEF LineHeld
  <2>13. RevokedDown'
    <3>1. ASSUME NEW f \in Engines, NEW y \in derived
          PROVE  y \in held'[f] /\ authority'[y].parent \in revoked'[f] => y \in revoked'[f]
      BY <2>1, <2>2, <2>5 DEF LineInv, RevokedDown
    <3>2. ASSUME NEW f \in Engines, id \in derived'
          PROVE  id \in held'[f] /\ authority'[id].parent \in revoked'[f] => id \in revoked'[f]
      BY <2>1, <2>2, <2>4, <2>6, <2>7, <3>2 DEF LineInv, Homes
    <3> QED
      BY <2>7, <3>1, <3>2 DEF RevokedDown
  <2> QED
    BY <2>8, <2>11, <2>12, <2>13 DEF LineInv
<1>2. ASSUME NEW e \in Engines, NEW id \in Ids, Revoking(e, id)
      PROVE  LineInv'
  <2> DEFINE more == Cascade(held[e], revoked[e], id)
  <2>1. /\ revoked' = [revoked EXCEPT ![e] = revoked[e] \cup more]
        /\ UNCHANGED <<authority, held, derived>>
    BY <1>2 DEF Revoking
  <2>2. \A x \in more, y \in held[e] : authority[y].parent = x /\ y \notin revoked[e] => y \in more
    BY CascadeTakes
  <2> HIDE DEF more
  <2>3. RevokedDown'
    BY <2>1, <2>2 DEF LineInv, RevokedDown
  <2> QED
    BY <2>1, <2>3 DEF LineInv, Homes, DerivedWithin, LineHeld
<1>3. Storing => LineInv'
  BY DEF Storing, LineInv, Homes, DerivedWithin, LineHeld, RevokedDown
<1> QED
  BY <1>1, <1>2, <1>3 DEF AuthorityStep

LEMMA LineForget ==
  ASSUME TypeOK, LineInv, NEW e \in Engines, Forget(e)
  PROVE  LineInv'
<1>1. /\ held' = [held EXCEPT ![e] = {}] /\ revoked' = [revoked EXCEPT ![e] = {}]
      /\ UNCHANGED <<authority, derived>>
  BY DEF Forget
<1> QED
  BY <1>1 DEF TypeOK, AuthorityTypes, LineInv, Homes, DerivedWithin, LineHeld, RevokedDown

\* What x allows, y allows, for as long, as much and as freely.
Narrower(x, y) ==
  /\ \A capability, resource \in Names :
       Allows(authority[x], capability, resource) => Allows(authority[y], capability, resource)
  /\ authority[x].expires <= authority[y].expires
  /\ authority[y].limit # None =>
       authority[x].limit # None /\ authority[x].limit <= authority[y].limit
  /\ authority[x].delegatable => authority[y].delegatable

\* One strict step of a delegation narrows.
LEMMA StepNarrows ==
  ASSUME TypeOK, LineInv, NEW x \in derived, Strict(x)
  PROVE  Narrower(x, authority[x].parent)
<1> DEFINE p == authority[x].parent
<1>1. /\ p \in Ids /\ authority[p] \in Authorities /\ authority[x] \in Authorities
      /\ WithinParent(authority[x], authority[p])
  BY DEF TypeOK, AuthorityTypes, LineInv, DerivedWithin
<1>2. /\ StrictList(authority[x].capabilities, authority[p].capabilities)
      /\ StrictList(authority[x].resources, authority[p].resources)
      /\ authority[x].resources = {} => authority[p].resources = {}
  BY DEF Strict
<1>3. /\ authority[x].capabilities \subseteq Seq(STRING)
      /\ authority[x].resources \subseteq Seq(STRING)
      /\ authority[p].capabilities \subseteq Seq(STRING)
      /\ authority[p].resources \subseteq Seq(STRING)
  BY <1>1 DEF Authorities
<1>4. ASSUME NEW child \in SUBSET Seq(STRING), NEW parent \in SUBSET Seq(STRING),
             StrictList(child, parent), NEW v \in Seq(STRING),
             \E q \in child : PatternMatch(q, v)
      PROVE  \E q \in parent : PatternMatch(q, v)
  <2>1. PICK q \in child : PatternMatch(q, v)
    BY <1>4
  <2>2. PICK r \in parent : PatternCovers(r, q) /\ ~Exceptional(r, q)
    BY <1>4, <2>1 DEF StrictList
  <2>3. PatternMatch(r, v)
    BY <2>1, <2>2, CoversGrants
  <2> QED
    BY <2>3
<1>5. ASSUME NEW capability \in Names, NEW resource \in Names,
             Allows(authority[x], capability, resource)
      PROVE  Allows(authority[p], capability, resource)
  <2>1. capability \in Seq(STRING) /\ resource \in Seq(STRING)
    BY NamesAssumption
  <2>2. \E q \in authority[p].capabilities : PatternMatch(q, capability)
    BY <1>2, <1>3, <1>4, <1>5, <2>1 DEF Allows
  <2>3. CASE authority[x].resources = {}
    BY <1>2, <2>2, <2>3 DEF Allows
  <2>4. CASE \E q \in authority[x].resources : PatternMatch(q, resource)
    <3>1. \E q \in authority[p].resources : PatternMatch(q, resource)
      BY <1>2, <1>3, <1>4, <2>1, <2>4
    <3> QED
      BY <2>2, <3>1 DEF Allows
  <2> QED
    BY <1>5, <2>3, <2>4 DEF Allows
<1> QED
  BY <1>1, <1>5 DEF Narrower, WithinParent

LEMMA NarrowerTransitive ==
  ASSUME TypeOK, NEW x \in Ids, NEW y \in Ids, NEW z \in Ids,
         \A i \in {x, y, z} : authority[i] # None,
         Narrower(x, y), Narrower(y, z)
  PROVE  Narrower(x, z)
<1>1. authority[x] \in Authorities /\ authority[y] \in Authorities /\ authority[z] \in Authorities
  BY DEF TypeOK, AuthorityTypes
<1> QED
  BY <1>1 DEF Narrower, Authorities

LEMMA LineNarrows ==
  ASSUME TypeOK, LineInv
  PROVE  DelegationNarrows
<1> SUFFICES ASSUME NEW id \in derived, \A x \in Lineage(id) \cap derived : Strict(x)
             PROVE  \A above \in Lineage(id) : Narrower(id, above)
  BY DEF DelegationNarrows, Narrower
<1>1. id \in Ids /\ authority[id] \in Authorities
  BY DEF TypeOK, AuthorityTypes
<1> DEFINE S == {x \in Lineage(id) : authority[x] # None /\ Narrower(id, x)}
<1>2. Lineage(id) \in SUBSET Ids /\ id \in Lineage(id)
  BY <1>1, LineStarts DEF Lineage
<1>3. id \in S
  <2>1. Narrower(id, id)
    BY <1>1 DEF Narrower, Authorities
  <2> QED
    BY <1>2, <2>1 DEF TypeOK, AuthorityTypes
<1>4. ASSUME NEW y \in S \cap derived
      PROVE  authority[y].parent \in S
  <2>1. authority[y].parent \in Ids /\ authority[authority[y].parent] # None
    BY DEF LineInv, DerivedWithin
  <2>2. authority[y].parent \in Lineage(id)
    BY <1>1, <2>1, LineGoesUp
  <2>3. Narrower(y, authority[y].parent)
    BY StepNarrows
  <2>4. Narrower(id, authority[y].parent)
    BY <1>1, <1>2, <1>3, <2>1, <2>3, NarrowerTransitive
  <2> QED
    BY <2>1, <2>2, <2>4
<1>5. S \in SUBSET Ids
  BY <1>2
<1> HIDE DEF S
<1>6. Lineage(id) \subseteq S
  BY <1>3, <1>4, <1>5, LineIsLeast
<1> QED
  BY <1>6 DEF S

\* What an engine lets be exercised, it holds with its whole line, and none of
\* the line is revoked or expired.
LEMMA ExercisedLine ==
  ASSUME TypeOK, LineInv, NEW e \in Engines, NEW id \in held[e], Verified(e, id)
  PROVE  \A x \in Lineage(id) : x \in held[e] /\ Verified(e, x)
<1> DEFINE S == {x \in held[e] : Verified(e, x)}
<1>1. S \in SUBSET Ids /\ id \in S
  BY DEF TypeOK, AuthorityTypes
<1>2. ASSUME NEW y \in S \cap derived
      PROVE  authority[y].parent \in S
  <2> DEFINE p == authority[y].parent
  <2>1. p \in held[e] /\ p \notin revoked[e]
    BY DEF LineInv, LineHeld, RevokedDown, Verified
  <2>2. authority[p] \in Authorities /\ authority[y] \in Authorities
    BY <2>1 DEF TypeOK, AuthorityTypes
  <2>3. authority[y].expires <= authority[p].expires
    BY DEF LineInv, DerivedWithin, WithinParent
  <2>4. now \in Nat /\ authority[y].expires \in Nat /\ authority[p].expires \in Nat
    BY <2>2, BoundsAssumption DEF Authorities, TypeOK
  <2>5. authority[p].expires >= now
    BY <2>3, <2>4 DEF Verified
  <2> QED
    BY <2>1, <2>5 DEF Verified
<1> HIDE DEF S
<1>3. Lineage(id) \subseteq S
  BY <1>1, <1>2, LineIsLeast
<1> QED
  BY <1>3 DEF S

LEMMA LineReaches ==
  ASSUME TypeOK, LineInv
  PROVE  RevocationReaches
<1> SUFFICES ASSUME NEW e \in Engines, NEW id \in held[e], NEW above \in Lineage(id),
                    above \in revoked[e] \/ authority[above].expires < now,
                    Verified(e, id)
             PROVE  FALSE
  BY DEF RevocationReaches, CanExercise
<1>1. above \in held[e] /\ Verified(e, above)
  BY ExercisedLine
<1>2. authority[above] \in Authorities /\ now \in Nat
  BY <1>1, BoundsAssumption DEF TypeOK, AuthorityTypes
<1> QED
  BY <1>1, <1>2 DEF Verified, Authorities

------------------------------------------------------------------------------
(* Policies.  AllRules is recursive: that its function exists is proved by *)
(* induction, from the order of the naturals being well-founded.           *)

Less == OpToRel(<, Nat)

LEMMA SetInduction ==
  ASSUME NEW S, 0 \in S, \A n \in Nat : n \in S => n + 1 \in S
  PROVE  Nat \subseteq S
<1>1. Less = {p \in Nat \X Nat : p[1] < p[2]}
  BY DEF Less, OpToRel
<1>2. IsWellFoundedOn(Less, Nat)
  BY NatLessThanWellFounded DEF Less
<1>3. SUFFICES ASSUME Nat \ S # {}
               PROVE  FALSE
  OBVIOUS
<1>4. PICK x \in Nat \ S : \A y \in Nat \ S : <<y, x>> \notin Less
  BY <1>2, <1>3, WFMin
<1>5. x # 0 /\ x - 1 \in Nat
  BY <1>4
<1>6. x - 1 \in Nat \ S
  BY <1>5
<1>7. <<x - 1, x>> \in Less
  BY <1>1, <1>5
<1> QED
  BY <1>4, <1>6, <1>7

\* The rules of the first n policies.
Gathers(g, n, policies) ==
  g = [i \in 0 .. n |-> IF i = 0 THEN <<>> ELSE g[i - 1] \o policies[i].rules]

LEMMA GathersExists ==
  ASSUME NEW policies \in Seq(PolicyDocuments)
  PROVE  \E g : Gathers(g, Len(policies), policies)
<1> DEFINE S == {n \in Nat : \E g : Gathers(g, n, policies)}
<1>1. 0 \in S
  <2>1. Gathers([i \in 0 .. 0 |-> <<>>], 0, policies)
    BY DEF Gathers
  <2> QED
    BY <2>1
<1>2. ASSUME NEW n \in Nat, n \in S
      PROVE  n + 1 \in S
  <2>1. PICK g : Gathers(g, n, policies)
    BY <1>2
  <2> DEFINE h == [i \in 0 .. n + 1 |-> IF i = n + 1 THEN g[n] \o policies[n + 1].rules ELSE g[i]]
  <2>2. \A i \in 0 .. n : h[i] = g[i]
    OBVIOUS
  <2>3. \A i \in 0 .. n : g[i] = IF i = 0 THEN <<>> ELSE g[i - 1] \o policies[i].rules
    BY <2>1 DEF Gathers
  <2>4. \A i \in 0 .. n : i # 0 => i - 1 \in 0 .. n
    OBVIOUS
  <2>5. \A i \in 0 .. n : h[i] = IF i = 0 THEN <<>> ELSE h[i - 1] \o policies[i].rules
    BY <2>2, <2>3, <2>4
  <2>6. h[n + 1] = h[n] \o policies[n + 1].rules
    <3>1. h[n + 1] = g[n] \o policies[n + 1].rules
      OBVIOUS
    <3>2. h[n] = g[n]
      BY <2>2
    <3> QED
      BY ONLY <3>1, <3>2
  <2>7. \A i \in 0 .. n + 1 : i \in 0 .. n \/ i = n + 1
    OBVIOUS
  <2>8. \A i \in 0 .. n + 1 : h[i] = IF i = 0 THEN <<>> ELSE h[i - 1] \o policies[i].rules
    <3>1. ASSUME NEW i \in 0 .. n
          PROVE  h[i] = IF i = 0 THEN <<>> ELSE h[i - 1] \o policies[i].rules
      BY <2>5
    <3>2. h[n + 1] = IF n + 1 = 0 THEN <<>> ELSE h[n + 1 - 1] \o policies[n + 1].rules
      <4>1. n + 1 # 0 /\ n + 1 - 1 = n
        OBVIOUS
      <4> HIDE DEF h
      <4> QED
        BY <2>6, <4>1
    <3> QED
      BY ONLY <2>7, <3>1, <3>2
  <2>9. Gathers(h, n + 1, policies)
    <3>1. h = [i \in 0 .. n + 1 |-> h[i]]
      OBVIOUS
    <3> HIDE DEF h
    <3> QED
      BY <2>8, <3>1 DEF Gathers
  <2> QED
    BY <2>9
<1> HIDE DEF S
<1>3. Nat \subseteq S
  BY <1>1, <1>2, SetInduction
<1> QED
  BY <1>3 DEF S

\* The elements of a concatenation.
LEMMA Appended ==
  ASSUME NEW T, NEW s \in Seq(T), NEW t \in Seq(T)
  PROVE  /\ s \o t \in Seq(T)
         /\ Len(s \o t) = Len(s) + Len(t)
         /\ \A k \in 1 .. Len(s) : (s \o t)[k] = s[k]
         /\ \A j \in 1 .. Len(t) : (s \o t)[Len(s) + j] = t[j]
         /\ Len(t) \in Nat /\ Len(s) \in Nat
PROOF OBVIOUS

\* s holds the rules of the first n policies, and no other.
Collects(s, n, policies) ==
  /\ s \in Seq(PolicyRules)
  /\ \A i \in 1 .. n : \A j \in 1 .. Len(policies[i].rules) :
       \E k \in 1 .. Len(s) : s[k] = policies[i].rules[j]
  /\ \A k \in 1 .. Len(s) :
       \E i \in 1 .. n : \E j \in 1 .. Len(policies[i].rules) : s[k] = policies[i].rules[j]

LEMMA CollectsNext ==
  ASSUME NEW policies, NEW n \in Nat, NEW s, Collects(s, n, policies),
         NEW r \in Seq(PolicyRules), r = policies[n + 1].rules
  PROVE  Collects(s \o r, n + 1, policies)
<1> DEFINE t == s \o r
<1>1. s \in Seq(PolicyRules)
  BY DEF Collects
<1>2. /\ t \in Seq(PolicyRules)
      /\ Len(t) = Len(s) + Len(r)
      /\ \A k \in 1 .. Len(s) : t[k] = s[k]
      /\ \A j \in 1 .. Len(r) : t[Len(s) + j] = r[j]
      /\ Len(r) \in Nat /\ Len(s) \in Nat
  BY <1>1, Appended
<1> HIDE DEF t
<1>3. ASSUME NEW i \in 1 .. n + 1, NEW j \in 1 .. Len(policies[i].rules)
      PROVE  \E k \in 1 .. Len(t) : t[k] = policies[i].rules[j]
  <2>1. CASE i = n + 1
    <3>1. Len(s) + j \in 1 .. Len(t) /\ t[Len(s) + j] = policies[i].rules[j]
      BY <1>2, <2>1
    <3> QED
      BY <3>1
  <2>2. CASE i # n + 1
    <3>1. i \in 1 .. n
      BY <2>2
    <3>2. PICK k \in 1 .. Len(s) : s[k] = policies[i].rules[j]
      BY <3>1 DEF Collects
    <3> QED
      BY <1>2, <3>2
  <2> QED
    BY <2>1, <2>2
<1>4. ASSUME NEW k \in 1 .. Len(t)
      PROVE  \E i \in 1 .. n + 1 : \E j \in 1 .. Len(policies[i].rules) : t[k] = policies[i].rules[j]
  <2>1. CASE k <= Len(s)
    <3>1. k \in 1 .. Len(s)
      BY <1>2, <2>1
    <3>2. PICK i \in 1 .. n : \E j \in 1 .. Len(policies[i].rules) : s[k] = policies[i].rules[j]
      BY <3>1 DEF Collects
    <3> QED
      BY SMTT(30), <1>2, <3>1, <3>2
  <2>2. CASE k > Len(s)
    <3>1. k - Len(s) \in 1 .. Len(r) /\ Len(s) + (k - Len(s)) = k
      BY <1>2, <2>2
    <3>2. t[k] = r[k - Len(s)]
      BY <1>2, <3>1
    <3> QED
      BY <3>1, <3>2
  <2> QED
    BY <1>2, <2>1, <2>2
<1>5. Collects(t, n + 1, policies)
  BY <1>2, <1>3, <1>4 DEF Collects
<1> QED
  BY <1>5 DEF t

\* AllRules(policies) holds the rules of every policy, and no other.
LEMMA RulesOfAll ==
  ASSUME NEW policies \in Seq(PolicyDocuments)
  PROVE  Collects(AllRules(policies), Len(policies), policies)
<1> DEFINE L == Len(policies)
           g == CHOOSE f : Gathers(f, L, policies)
<1>1. Gathers(g, L, policies)
  BY GathersExists
<1>2. AllRules(policies) = g[L]
  BY DEF AllRules, Gathers
<1>3. L \in Nat /\ \A i \in 1 .. L : policies[i].rules \in Seq(PolicyRules)
  <2>1. L \in Nat /\ \A i \in 1 .. L : policies[i] \in PolicyDocuments
    OBVIOUS
  <2> QED
    BY <2>1 DEF PolicyDocuments
<1> HIDE DEF g
<1>4. g[0] = <<>> /\ \A n \in Nat : n + 1 <= L => g[n + 1] = g[n] \o policies[n + 1].rules
  <2>1. \A i \in 0 .. L : g[i] = IF i = 0 THEN <<>> ELSE g[i - 1] \o policies[i].rules
    BY <1>1 DEF Gathers
  <2>2. g[0] = <<>>
    BY <1>3, <2>1
  <2>3. ASSUME NEW n \in Nat, n + 1 <= L
        PROVE  g[n + 1] = g[n] \o policies[n + 1].rules
    <3>1. n + 1 \in 0 .. L /\ n + 1 # 0 /\ (n + 1) - 1 = n
      BY <1>3, <2>3
    <3> QED
      BY <2>1, <3>1
  <2> QED
    BY <2>2, <2>3
<1> DEFINE S == {n \in Nat : n <= L => Collects(g[n], n, policies)}
<1>5. 0 \in S
  <2>1. g[0] \in Seq(PolicyRules) /\ Len(g[0]) = 0 /\ 1 .. 0 = {}
    BY <1>4
  <2>2. Collects(g[0], 0, policies)
    BY <2>1 DEF Collects
  <2> QED
    BY <2>2
<1>6. ASSUME NEW n \in Nat, n \in S
      PROVE  n + 1 \in S
  <2>1. SUFFICES ASSUME n + 1 <= L
                 PROVE  Collects(g[n + 1], n + 1, policies)
    OBVIOUS
  <2>2. Collects(g[n], n, policies) /\ n + 1 \in 1 .. L
    BY <1>3, <1>6, <2>1
  <2>3. policies[n + 1].rules \in Seq(PolicyRules)
    BY <1>3, <2>2
  <2> QED
    BY <1>4, <2>1, <2>2, <2>3, CollectsNext
<1> HIDE DEF S
<1>7. Nat \subseteq S
  BY <1>5, <1>6, SetInduction
<1>8. Collects(g[L], L, policies)
  BY <1>3, <1>7 DEF S
<1> QED
  BY <1>2, <1>8

\* What is not denied, no rule denies; nor, when no rule speaks, the default.
LEMMA NoDeny ==
  ASSUME NEW policies \in Seq(PolicyDocuments), NEW principal, NEW capability, NEW ctx,
         Evaluate(policies, principal, capability, ctx) # "deny"
  PROVE  LET speaks(rule) == MatchesRule(rule, principal, capability, ctx)
             rules == UNION {{policies[i].rules[j] : j \in DOMAIN policies[i].rules}
                               : i \in DOMAIN policies}
         IN /\ \A rule \in rules : speaks(rule) => rule.effect # "deny"
            /\ (policies # <<>> /\ \A rule \in rules : ~speaks(rule))
                 => policies[1].default # "deny"
<1> DEFINE all == AllRules(policies)
           speaks(rule) == MatchesRule(rule, principal, capability, ctx)
           rules == UNION {{policies[i].rules[j] : j \in DOMAIN policies[i].rules}
                             : i \in DOMAIN policies}
           matching == {k \in 1 .. Len(all) : speaks(all[k])}
           first == CHOOSE k \in matching : \A j \in matching : k <= j
<1>1. Collects(all, Len(policies), policies)
  BY RulesOfAll
<1>2. DOMAIN policies = 1 .. Len(policies)
      /\ \A i \in 1 .. Len(policies) : DOMAIN policies[i].rules = 1 .. Len(policies[i].rules)
  <2>1. \A i \in 1 .. Len(policies) : policies[i] \in PolicyDocuments
    OBVIOUS
  <2>2. \A i \in 1 .. Len(policies) : policies[i].rules \in Seq(PolicyRules)
    BY <2>1 DEF PolicyDocuments
  <2> QED
    BY <2>2
<1>3. "deny" # IF \E k \in matching : all[k].effect = "deny" THEN "deny"
               ELSE IF matching # {} THEN all[first].effect
               ELSE IF policies # <<>> THEN policies[1].default ELSE "allow"
  BY DEF Evaluate
<1> HIDE DEF all, first
<1>4. ASSUME NEW rule \in rules
      PROVE  \E k \in 1 .. Len(all) : all[k] = rule
  <2>1. PICK i \in DOMAIN policies : rule \in {policies[i].rules[j] : j \in DOMAIN policies[i].rules}
    OBVIOUS
  <2>2. PICK j \in DOMAIN policies[i].rules : rule = policies[i].rules[j]
    BY <2>1
  <2> QED
    BY <1>1, <1>2, <2>2 DEF Collects
<1>5. ASSUME NEW k \in 1 .. Len(all)
      PROVE  all[k] \in rules
  <2>1. PICK i \in 1 .. Len(policies) : \E j \in 1 .. Len(policies[i].rules) : all[k] = policies[i].rules[j]
    BY <1>1 DEF Collects
  <2> QED
    BY SMTT(30), <1>2, <2>1
<1> HIDE DEF rules, speaks
<1>6. \A rule \in rules : speaks(rule) => rule.effect # "deny"
  BY <1>3, <1>4
<1>7. (\A rule \in rules : ~speaks(rule)) => matching = {}
  BY <1>5
<1>8. (policies # <<>> /\ \A rule \in rules : ~speaks(rule)) => policies[1].default # "deny"
  BY <1>3, <1>7
<1> QED
  BY <1>6, <1>8 DEF rules, speaks

------------------------------------------------------------------------------
(* Calls.                                                                  *)

CallStep(c) == Authenticated(c) \/ Load(c) \/ Check(c) \/ Loaded(c)

\* A call is at an engine there is, about an id there is.
LEMMA CallIsAt ==
  ASSUME TypeOK, NEW c \in Calls, pc[c] # "idle"
  PROVE  req[c].engine \in Engines /\ req[c].id \in RequestIds
PROOF BY SettingsAssumption DEF TypeOK, CallTypes

\* What a decision does to the approvals, and what lets a call pass.
LEMMA Decided ==
  ASSUME TypeOK, NEW c \in Calls, pc[c] # "idle", NEW principal, Decide(c, principal)
  PROVE  /\ pc' = [pc EXCEPT ![c] = pc'[c]]
         /\ pc'[c] \in {"admitted", "refused", "approval_required"}
         /\ \/ approval' = approval
            \/ /\ approval[req[c].engine][req[c].id].state = "none"
               /\ approval' = [approval EXCEPT ![req[c].engine][req[c].id] = Requested]
         /\ pc'[c] = "admitted" =>
              /\ Authorized(c, principal)
              /\ PolicyDecision(c, principal) # "deny"
              /\ Approvable(c, principal) =>
                   approval[req[c].engine][req[c].id].state = "approved"
<1> DEFINE state == approval[req[c].engine][req[c].id].state
<1>1. ASSUME NEW place, Goto(c, place)
      PROVE  pc' = [pc EXCEPT ![c] = place] /\ pc'[c] = place
  BY <1>1 DEF Goto, TypeOK, CallTypes
<1>2. CASE Goto(c, "refused") /\ UNCHANGED approval
  BY <1>1, <1>2
<1>3. CASE /\ Authorized(c, principal) /\ PolicyDecision(c, principal) # "deny"
           /\ Approvable(c, principal) /\ Approve(c)
  <2>1. CASE state = "none"
    <3>1. Goto(c, "approval_required") /\ approval' = [approval EXCEPT ![req[c].engine][req[c].id] = Requested]
      BY <1>3, <2>1 DEF Approve
    <3> QED
      BY <1>1, <2>1, <3>1
  <2>2. CASE state = "approved"
    <3>1. Goto(c, "admitted") /\ UNCHANGED approval
      BY <1>3, <2>2 DEF Approve
    <3> QED
      BY <1>1, <1>3, <2>2, <3>1
  <2>3. CASE state \notin {"none", "approved"}
    <3>1. (Goto(c, "refused") \/ Goto(c, "approval_required")) /\ UNCHANGED approval
      BY <1>3, <2>3 DEF Approve
    <3> QED
      BY <1>1, <3>1
  <2> QED
    BY <2>1, <2>2, <2>3
<1>4. CASE /\ Authorized(c, principal) /\ PolicyDecision(c, principal) # "deny"
           /\ ~Approvable(c, principal) /\ Goto(c, "admitted") /\ UNCHANGED approval
  BY <1>1, <1>4
<1> QED
  BY <1>2, <1>3, <1>4 DEF Decide

\* What a step of a call in flight does.
LEMMA CallMoves ==
  ASSUME TypeOK, NEW c \in Calls, CallStep(c)
  PROVE  /\ pc[c] \in InFlight
         /\ pc' = [pc EXCEPT ![c] = pc'[c]] /\ pc'[c] \in CallStates \ {"idle"}
         /\ UNCHANGED <<now, setting, req, gone, authVars, spoilt>>
         /\ DOMAIN who' = Calls
         /\ \/ approval' = approval
            \/ /\ approval[req[c].engine][req[c].id].state = "none"
               /\ approval' = [approval EXCEPT ![req[c].engine][req[c].id] = Requested]
         /\ pc'[c] = "admitted" =>
              /\ Authorized(c, who'[c])
              /\ PolicyDecision(c, who'[c]) # "deny"
              /\ Approvable(c, who'[c]) =>
                   approval[req[c].engine][req[c].id].state = "approved"
              /\ \/ req[c].authority = None \/ req[c].authority \in held[req[c].engine]
                 \/ pc[c] = "decide"
         /\ pc'[c] \in {"load", "check", "decide"} =>
              /\ pc'[c] = "load" => req[c].authority # None /\ pc[c] = "authenticate"
              /\ pc'[c] = "check" => req[c].authority \in saved /\ pc[c] = "load"
              /\ pc'[c] = "decide" => req[c].authority \notin struck /\ pc[c] = "check"
<1> USE DEF InFlight, CallStates
<1>1. ASSUME NEW place, Goto(c, place)
      PROVE  pc' = [pc EXCEPT ![c] = place] /\ pc'[c] = place
  BY <1>1 DEF Goto, TypeOK, CallTypes
<1>2. CASE Authenticated(c)
  <2> DEFINE principal == Principal(c)
  <2>1. /\ pc[c] = "authenticate"
        /\ who' = [who EXCEPT ![c] = principal]
        /\ UNCHANGED <<now, setting, req, gone, authVars, spoilt>>
        /\ \/ Goto(c, "refused") /\ UNCHANGED approval
           \/ req[c].authority = None /\ Decide(c, principal)
           \/ req[c].authority \in held[req[c].engine] /\ Decide(c, principal)
           \/ req[c].authority # None /\ Goto(c, "load") /\ UNCHANGED approval
    BY <1>2 DEF Authenticated
  <2> HIDE DEF principal
  <2>2. DOMAIN who' = Calls /\ who'[c] = principal
    BY <2>1 DEF TypeOK, CallTypes
  <2>3. CASE (req[c].authority = None \/ req[c].authority \in held[req[c].engine]) /\ Decide(c, principal)
    BY <2>1, <2>2, <2>3, Decided
  <2>4. CASE Goto(c, "refused") /\ UNCHANGED approval
    BY <1>1, <2>1, <2>2, <2>4
  <2>5. CASE req[c].authority # None /\ Goto(c, "load") /\ UNCHANGED approval
    BY <1>1, <2>1, <2>2, <2>5
  <2> QED
    BY <2>1, <2>3, <2>4, <2>5
<1>3. CASE Load(c)
  BY <1>1, <1>3 DEF Load, approvalVars, TypeOK, CallTypes
<1>4. CASE Check(c)
  BY <1>1, <1>4 DEF Check, approvalVars, TypeOK, CallTypes
<1>5. CASE Loaded(c)
  <2>1. /\ pc[c] = "decide" /\ Decide(c, who[c])
        /\ UNCHANGED <<now, setting, req, who, gone, authVars, spoilt>>
    BY <1>5 DEF Loaded
  <2> QED
    BY <2>1, Decided DEF TypeOK, CallTypes
<1> QED
  BY <1>2, <1>3, <1>4, <1>5 DEF CallStep

AuthorityActions ==
  \/ \E i \in setting.issues : Issue(i)
  \/ \E d \in setting.derivations : DeriveTo(d)
  \/ AuthNext

BeginStep(c) == c \in setting.calls /\ \E r \in setting.requests : Begin(c, r)

\* A step of the specification, by what it changes.
LEMMA StepKinds ==
  ASSUME TypeOK, [Next]_vars
  PROVE  \/ \E c \in Calls : BeginStep(c)
         \/ \E c \in Calls : CallStep(c)
         \/ AuthorityActions /\ UNCHANGED <<now, setting, approvalVars, callVars>>
         \/ ApprovalNext /\ UNCHANGED <<now, setting, authVars, callVars>>
         \/ Tick
         \/ \E e \in Engines : Restart(e)
         \/ UNCHANGED vars
PROOF BY DEF Next, BeginStep, CallStep, AuthorityActions

LEMMA BeginMoves ==
  ASSUME TypeOK, NEW c \in Calls, BeginStep(c)
  PROVE  \E r \in setting.requests :
           /\ r.engine \in Engines
           /\ pc[c] = "idle" /\ pc' = [pc EXCEPT ![c] = "authenticate"]
           /\ req' = [req EXCEPT ![c] = r] /\ req'[c] = r
           /\ gone' = [gone EXCEPT ![c] = revoked[r.engine] \cup (struck \ held[r.engine])]
           /\ UNCHANGED <<now, setting, who, authVars, approvalVars>>
PROOF BY SettingsAssumption DEF BeginStep, Begin, Goto, TypeOK, CallTypes

\* An approval that is requested has its type.
LEMMA RequestedType ==
  ASSUME TypeOK
  PROVE  Requested \in [state : ApprovalStates, expires : 0 .. MaxTime + ApprovalTTL, nonceUsed : BOOLEAN]
<1>1. now + ApprovalTTL \in 0 .. MaxTime + ApprovalTTL
  BY TTLAssumption, BoundsAssumption DEF TypeOK
<1> QED
  BY <1>1 DEF Requested, ApprovalStates

\* The steps of the approval service, one approval or one engine at a time.
LEMMA ApprovalMoves ==
  ASSUME TypeOK, ApprovalNext
  PROVE  /\ ApprovalTypes'
         /\ \A e \in Engines, r \in RequestIds :
              \/ approval'[e][r] = approval[e][r]
              \/ approval[e][r].state = "pending" /\ approval'[e][r].state # "pending"
              \/ approval[e][r].state = "pending" /\ <<e, r>> \in spoilt'
         /\ spoilt \subseteq spoilt'
<1> USE DEF TypeOK, ApprovalTypes, ApprovalStates
<1>1. ASSUME NEW e \in Engines, NEW r \in RequestIds,
             NEW approver \in Principals, NEW signature \in Signatures,
             NEW decision \in {"approve", "deny", "approve_with_constraints"},
             Submit(e, r, approver, signature, decision)
      PROVE  /\ ApprovalTypes'
             /\ \A f \in Engines, x \in RequestIds :
                  \/ approval'[f][x] = approval[f][x]
                  \/ approval[f][x].state = "pending" /\ approval'[f][x].state # "pending"
                  \/ approval[f][x].state = "pending" /\ <<f, x>> \in spoilt'
             /\ spoilt \subseteq spoilt'
  <2> DEFINE a == [approval[e][r] EXCEPT !.nonceUsed = TRUE,
                     !.state = IF signature = "malformed" THEN approval[e][r].state
                               ELSE IF decision = "deny" THEN "rejected" ELSE "approved"]
  <2>1. approval' = [approval EXCEPT ![e][r] = a]
    BY <1>1 DEF Submit
  <2>2. a \in [state : ApprovalStates, expires : 0 .. MaxTime + ApprovalTTL, nonceUsed : BOOLEAN]
    <3>1. approval[e][r] \in [state : ApprovalStates, expires : 0 .. MaxTime + ApprovalTTL, nonceUsed : BOOLEAN]
      OBVIOUS
    <3>2. PICK state \in ApprovalStates : a = [approval[e][r] EXCEPT !.nonceUsed = TRUE, !.state = state]
      BY <3>1
    <3> QED
      BY <3>1, <3>2
  <2>3. approval[e][r].state = "pending" /\ (a.state = "pending" => signature = "malformed")
    BY <1>1 DEF Submit
  <2>4. spoilt' = IF signature = "malformed" THEN spoilt \cup {<<e, r>>} ELSE spoilt
    BY <1>1 DEF Submit
  <2> HIDE DEF a
  <2> QED
    BY <2>1, <2>2, <2>3, <2>4
<1>2. ASSUME NEW e \in Engines, NEW r \in RequestIds, Lapse(e, r) \/ CancelApproval(e, r)
      PROVE  /\ ApprovalTypes'
             /\ \A f \in Engines, x \in RequestIds :
                  \/ approval'[f][x] = approval[f][x]
                  \/ approval[f][x].state = "pending" /\ approval'[f][x].state # "pending"
             /\ spoilt' = spoilt
  <2>1. PICK state \in {"expired", "cancelled"} :
          /\ approval[e][r].state = "pending"
          /\ approval' = [approval EXCEPT ![e][r].state = state]
          /\ spoilt' = spoilt
    BY <1>2 DEF Lapse, CancelApproval
  <2> QED
    BY SMTT(30), <2>1
<1>3. ASSUME NEW e \in Engines, GcApprovals(e)
      PROVE  /\ ApprovalTypes'
             /\ \A f \in Engines, x \in RequestIds :
                  \/ approval'[f][x] = approval[f][x]
                  \/ approval[f][x].state = "pending" /\ approval'[f][x].state # "pending"
             /\ spoilt' = spoilt
  <2> DEFINE g == [r \in RequestIds |->
                     IF approval[e][r].state = "pending" /\ Late(approval[e][r])
                     THEN [approval[e][r] EXCEPT !.state = "expired"] ELSE approval[e][r]]
  <2>1. approval' = [approval EXCEPT ![e] = g] /\ spoilt' = spoilt
    BY <1>3 DEF GcApprovals
  <2>2. \A r \in RequestIds :
          /\ g[r] \in [state : ApprovalStates, expires : 0 .. MaxTime + ApprovalTTL, nonceUsed : BOOLEAN]
          /\ g[r] = approval[e][r] \/ (approval[e][r].state = "pending" /\ g[r].state = "expired")
    OBVIOUS
  <2>3. g \in [RequestIds -> [state : ApprovalStates, expires : 0 .. MaxTime + ApprovalTTL, nonceUsed : BOOLEAN]]
    BY <2>2
  <2> HIDE DEF g
  <2> QED
    BY <2>1, <2>2, <2>3
<1> QED
  BY <1>1, <1>2, <1>3 DEF ApprovalNext

LEMMA RestartMoves ==
  ASSUME TypeOK, NEW e \in Engines, Restart(e)
  PROVE  /\ Forget(e)
         /\ approval' = [approval EXCEPT ![e] = [r \in RequestIds |-> NoApproval]]
         /\ spoilt' = {s \in spoilt : s[1] # e}
         /\ \A c \in Calls : /\ pc'[c] = pc[c] \/ pc'[c] = "died"
                             /\ pc'[c] \in InFlight => pc'[c] = pc[c] /\ req[c].engine # e
         /\ pc' \in [Calls -> CallStates]
         /\ \A c \in Calls : pc'[c] # "idle" => pc[c] # "idle"
         /\ UNCHANGED <<now, setting, req, who, gone>>
<1> DEFINE next(c) == IF pc[c] \in InFlight /\ req[c].engine = e THEN "died" ELSE pc[c]
<1>1. pc' = [c \in Calls |-> next(c)]
  BY DEF Restart
<1>2. \A c \in Calls : /\ next(c) = pc[c] \/ next(c) = "died"
                       /\ next(c) \in CallStates
                       /\ next(c) \in InFlight => next(c) = pc[c] /\ req[c].engine # e
                       /\ next(c) # "idle" => pc[c] # "idle"
  BY DEF TypeOK, CallTypes, CallStates, InFlight
<1> HIDE DEF next
<1> QED
  BY <1>1, <1>2 DEF Restart, ForgetApprovals

------------------------------------------------------------------------------
(* The inductive invariant.                                                *)

\* What the engine could see revoked as a call began is known to it still: as its
\* own revocation, or as one of the store about what it does not hold.  And how
\* far a call is says what it has seen of its authority.
SeesInv ==
  \A c \in Calls :
    LET e == req[c].engine
        a == req[c].authority
    IN pc[c] \in InFlight =>
         /\ \A x \in gone[c] : /\ authority[x] # None
                               /\ x \in revoked[e] \/ (x \in struck /\ x \notin held[e])
         /\ pc[c] = "load" => a # None
         /\ pc[c] = "check" => a \in saved
         /\ pc[c] = "decide" => a \in saved /\ (a \in held[e] \/ a \notin gone[c])

\* The engines and the store from one step to the next, as a call sees them.
LEMMA SeesMore ==
  ASSUME TypeOK, AuthorityActions
  PROVE  /\ \A x \in Ids : authority[x] # None => authority'[x] # None
         /\ saved \subseteq saved' /\ struck \subseteq struck'
         /\ \A e \in Engines : /\ held[e] \subseteq held'[e] /\ revoked[e] \subseteq revoked'[e]
                               /\ \A x \in Ids : authority[x] # None /\ x \notin held[e] => x \notin held'[e]
<1> USE DEF TypeOK, AuthorityTypes
<1>1. ASSUME NEW e \in Engines, NEW id \in Ids, NEW a \in Authorities, Registering(e, id, a)
      PROVE  /\ \A x \in Ids : authority[x] # None => authority'[x] # None
             /\ saved \subseteq saved' /\ struck \subseteq struck'
             /\ \A f \in Engines : /\ held[f] \subseteq held'[f] /\ revoked[f] \subseteq revoked'[f]
                                   /\ \A x \in Ids : authority[x] # None /\ x \notin held[f] => x \notin held'[f]
  BY <1>1 DEF Registering, Register
<1>2. ASSUME NEW e \in Engines, NEW id \in Ids, Revoking(e, id)
      PROVE  /\ UNCHANGED <<authority, held, saved, struck>>
             /\ \A f \in Engines : revoked[f] \subseteq revoked'[f]
  BY <1>2 DEF Revoking
<1>3. AuthorityStep
  BY AuthoritySteps DEF AuthorityActions
<1> QED
  BY <1>1, <1>2, <1>3 DEF AuthorityStep, Storing

Inv == TypeOK /\ LineInv /\ SeesInv /\ PendingIsDecidable

LEMMA InitInv ==
  ASSUME Init
  PROVE  Inv
<1> USE DEF Init, AuthInit, ApprovalInit
<1>1. TypeOK
  <2>1. NoApproval \in [state : ApprovalStates, expires : 0 .. MaxTime + ApprovalTTL, nonceUsed : BOOLEAN]
    BY BoundsAssumption, TTLAssumption DEF NoApproval, ApprovalStates
  <2> QED
    BY <2>1, BoundsAssumption DEF TypeOK, AuthorityTypes, ApprovalTypes, CallTypes, CallStates
<1>2. LineInv
  BY DEF LineInv, Homes, DerivedWithin, LineHeld, RevokedDown
<1>3. SeesInv
  BY DEF SeesInv, InFlight
<1>4. PendingIsDecidable
  BY DEF PendingIsDecidable, NoApproval
<1> QED
  BY <1>1, <1>2, <1>3, <1>4 DEF Inv

LEMMA NextTypeOK ==
  ASSUME TypeOK, [Next]_vars
  PROVE  TypeOK'
<1> USE DEF TypeOK
<1>1. ASSUME NEW c \in Calls, BeginStep(c)
      PROVE  TypeOK'
  <2>1. PICK r \in setting.requests :
           /\ r.engine \in Engines
           /\ pc[c] = "idle" /\ pc' = [pc EXCEPT ![c] = "authenticate"]
           /\ req' = [req EXCEPT ![c] = r] /\ req'[c] = r
           /\ gone' = [gone EXCEPT ![c] = revoked[r.engine] \cup (struck \ held[r.engine])]
           /\ UNCHANGED <<now, setting, who, authVars, approvalVars>>
    BY <1>1, BeginMoves
  <2>2. AuthorityTypes' /\ ApprovalTypes'
    BY <2>1 DEF AuthorityTypes, ApprovalTypes, authVars, approvalVars
  <2>3. CallTypes'
    <3>1. revoked[r.engine] \cup (struck \ held[r.engine]) \in SUBSET Ids
      BY <2>1 DEF AuthorityTypes
    <3>2. pc' \in [Calls -> CallStates] /\ gone' \in [Calls -> SUBSET Ids]
      BY <2>1, <3>1 DEF CallTypes, CallStates, InFlight
    <3>3. DOMAIN req' = Calls /\ DOMAIN who' = Calls
      BY <2>1 DEF CallTypes
    <3>4. \A d \in Calls : pc'[d] # "idle" => req'[d] \in setting.requests
      BY <2>1 DEF CallTypes
    <3> QED
      BY <2>1, <3>2, <3>3, <3>4 DEF CallTypes
  <2> QED
    BY <2>1, <2>2, <2>3
<1>2. ASSUME NEW c \in Calls, CallStep(c)
      PROVE  TypeOK'
  <2>1. /\ pc[c] \in InFlight
        /\ pc' = [pc EXCEPT ![c] = pc'[c]] /\ pc'[c] \in CallStates \ {"idle"}
        /\ UNCHANGED <<now, setting, req, gone, authVars, spoilt>>
        /\ DOMAIN who' = Calls
        /\ \/ approval' = approval
           \/ approval' = [approval EXCEPT ![req[c].engine][req[c].id] = Requested]
    BY <1>2, CallMoves
  <2>2. req[c].engine \in Engines /\ req[c].id \in RequestIds
    BY <2>1, CallIsAt DEF InFlight
  <2>3. ApprovalTypes'
    <3>1. CASE approval' = approval
      BY <3>1 DEF ApprovalTypes
    <3>2. CASE approval' = [approval EXCEPT ![req[c].engine][req[c].id] = Requested]
      <4> DEFINE T == [state : ApprovalStates, expires : 0 .. MaxTime + ApprovalTTL, nonceUsed : BOOLEAN]
      <4>1. Requested \in T /\ approval \in [Engines -> [RequestIds -> T]]
        BY RequestedType DEF ApprovalTypes
      <4> HIDE DEF T
      <4>2. approval' \in [Engines -> [RequestIds -> T]]
        BY <2>2, <3>2, <4>1
      <4> QED
        BY <4>2 DEF ApprovalTypes, T
    <3> QED
      BY <2>1, <3>1, <3>2
  <2>4. CallTypes'
    BY <2>1 DEF CallTypes, InFlight
  <2> QED
    BY <2>1, <2>3, <2>4 DEF AuthorityTypes, authVars
<1>3. CASE AuthorityActions /\ UNCHANGED <<now, setting, approvalVars, callVars>>
  <2>1. AuthorityTypes'
    BY <1>3, AuthorityTypeStep DEF AuthorityActions
  <2> QED
    BY <1>3, <2>1 DEF ApprovalTypes, CallTypes, approvalVars, callVars
<1>4. CASE ApprovalNext /\ UNCHANGED <<now, setting, authVars, callVars>>
  <2>1. ApprovalTypes'
    BY <1>4, ApprovalMoves
  <2> QED
    BY <1>4, <2>1 DEF AuthorityTypes, CallTypes, authVars, callVars
<1>5. CASE Tick
  BY <1>5, BoundsAssumption
     DEF Tick, AuthorityTypes, ApprovalTypes, CallTypes, authVars, approvalVars, callVars
<1>6. ASSUME NEW e \in Engines, Restart(e)
      PROVE  TypeOK'
  <2>1. /\ Forget(e)
        /\ approval' = [approval EXCEPT ![e] = [r \in RequestIds |-> NoApproval]]
        /\ pc' \in [Calls -> CallStates]
        /\ \A c \in Calls : pc'[c] # "idle" => pc[c] # "idle"
        /\ UNCHANGED <<now, setting, req, who, gone>>
    BY <1>6, RestartMoves
  <2>2. AuthorityTypes'
    BY <2>1 DEF Forget, AuthorityTypes
  <2>3. NoApproval \in [state : ApprovalStates, expires : 0 .. MaxTime + ApprovalTTL, nonceUsed : BOOLEAN]
    BY BoundsAssumption, TTLAssumption DEF NoApproval, ApprovalStates
  <2>4. ApprovalTypes'
    BY <2>1, <2>3 DEF ApprovalTypes
  <2>5. CallTypes'
    BY <2>1 DEF CallTypes
  <2> QED
    BY <2>1, <2>2, <2>4, <2>5
<1>7. CASE UNCHANGED vars
  BY <1>7 DEF AuthorityTypes, ApprovalTypes, CallTypes, vars, authVars, approvalVars, callVars
<1> QED
  BY <1>1, <1>2, <1>3, <1>4, <1>5, <1>6, <1>7, StepKinds

LEMMA NextLineInv ==
  ASSUME TypeOK, LineInv, [Next]_vars
  PROVE  LineInv'
<1>1. CASE UNCHANGED authVars
  BY <1>1 DEF authVars, LineInv, Homes, DerivedWithin, LineHeld, RevokedDown
<1>2. CASE AuthorityActions
  BY <1>2, AuthoritySteps, LineAuthority DEF AuthorityActions
<1>3. ASSUME NEW e \in Engines, Restart(e)
      PROVE  LineInv'
  BY <1>3, LineForget DEF Restart
<1>4. ASSUME NEW c \in Calls, BeginStep(c)
      PROVE  LineInv'
  BY <1>1, <1>4, BeginMoves
<1>5. ASSUME NEW c \in Calls, CallStep(c)
      PROVE  LineInv'
  BY <1>1, <1>5, CallMoves
<1> QED
  BY <1>1, <1>2, <1>3, <1>4, <1>5, StepKinds DEF Tick, vars

LEMMA NextSeesInv ==
  ASSUME TypeOK, SeesInv, [Next]_vars
  PROVE  SeesInv'
<1> DEFINE Sees(c) ==
      LET e == req[c].engine
          a == req[c].authority
      IN pc[c] \in InFlight =>
           /\ \A x \in gone[c] : /\ authority[x] # None
                                 /\ x \in revoked[e] \/ (x \in struck /\ x \notin held[e])
           /\ pc[c] = "load" => a # None
           /\ pc[c] = "check" => a \in saved
           /\ pc[c] = "decide" => a \in saved /\ (a \in held[e] \/ a \notin gone[c])
<1>0. SeesInv <=> \A c \in Calls : Sees(c)
  BY DEF SeesInv
<1>00. (\A c \in Calls : Sees(c)') => SeesInv'
  BY DEF SeesInv
<1>1. CASE UNCHANGED <<authVars, callVars>>
  BY <1>1 DEF authVars, callVars, SeesInv
<1>2. ASSUME AuthorityActions, UNCHANGED <<now, setting, approvalVars, callVars>>,
             NEW c \in Calls
      PROVE  Sees(c)'
  <2> SUFFICES ASSUME pc[c] \in InFlight
               PROVE  Sees(c)'
    BY <1>2 DEF callVars
  <2>1. req[c].engine \in Engines
    BY CallIsAt DEF InFlight
  <2>2. gone[c] \subseteq Ids
    BY DEF TypeOK, CallTypes
  <2> QED
    BY <1>0, <1>2, <2>1, <2>2, SeesMore DEF callVars
<1>3. ASSUME NEW e \in Engines, Restart(e), NEW c \in Calls
      PROVE  Sees(c)'
  <2> SUFFICES ASSUME pc'[c] \in InFlight
               PROVE  Sees(c)'
    OBVIOUS
  <2>1. /\ Forget(e) /\ pc'[c] = pc[c] /\ req[c].engine # e
        /\ UNCHANGED <<req, gone>>
    BY <1>3, RestartMoves
  <2>2. req[c].engine \in Engines
    BY <2>1, CallIsAt DEF InFlight
  <2>3. /\ held'[req[c].engine] = held[req[c].engine]
        /\ revoked'[req[c].engine] = revoked[req[c].engine]
        /\ UNCHANGED <<authority, saved, struck>>
    BY <2>1, <2>2 DEF Forget, TypeOK, AuthorityTypes
  <2> QED
    BY <1>0, <2>1, <2>3
<1>4. ASSUME NEW b \in Calls, BeginStep(b), NEW c \in Calls
      PROVE  Sees(c)'
  <2>1. PICK r \in setting.requests :
           /\ r.engine \in Engines
           /\ pc[b] = "idle" /\ pc' = [pc EXCEPT ![b] = "authenticate"]
           /\ req' = [req EXCEPT ![b] = r] /\ req'[b] = r
           /\ gone' = [gone EXCEPT ![b] = revoked[r.engine] \cup (struck \ held[r.engine])]
           /\ UNCHANGED <<now, setting, who, authVars, approvalVars>>
    BY <1>4, BeginMoves
  <2>2. CASE c # b
    <3>1. pc'[c] = pc[c] /\ req'[c] = req[c] /\ gone'[c] = gone[c]
      BY <2>1, <2>2 DEF TypeOK, CallTypes
    <3> QED
      BY <1>0, <2>1, <3>1 DEF authVars
  <2>3. CASE c = b
    <3>1. pc'[c] = "authenticate" /\ gone'[c] = revoked[r.engine] \cup (struck \ held[r.engine])
      BY <2>1, <2>3 DEF TypeOK, CallTypes
    <3>2. \A x \in gone'[c] : authority[x] # None
      BY <2>1, <3>1 DEF TypeOK, AuthorityTypes
    <3> QED
      BY <2>1, <2>3, <3>1, <3>2 DEF authVars
  <2> QED
    BY <2>2, <2>3
<1>5. ASSUME NEW b \in Calls, CallStep(b), NEW c \in Calls
      PROVE  Sees(c)'
  <2>1. /\ pc[b] \in InFlight
        /\ pc' = [pc EXCEPT ![b] = pc'[b]]
        /\ UNCHANGED <<req, gone, authVars>>
        /\ pc'[b] = "load" => req[b].authority # None /\ pc[b] = "authenticate"
        /\ pc'[b] = "check" => req[b].authority \in saved /\ pc[b] = "load"
        /\ pc'[b] = "decide" => req[b].authority \notin struck /\ pc[b] = "check"
    BY <1>5, CallMoves
  <2>2. CASE c # b
    <3>1. pc'[c] = pc[c]
      BY <2>1, <2>2 DEF TypeOK, CallTypes
    <3> QED
      BY <1>0, <2>1, <3>1 DEF authVars
  <2>3. CASE c = b
    <3>1. req[b].engine \in Engines
      BY <2>1, CallIsAt DEF InFlight
    <3>2. Sees(b)
      BY <1>0
    <3>3. pc'[b] = "decide" => req[b].authority \in held[req[b].engine] \/ req[b].authority \notin gone[b]
      BY <2>1, <3>1, <3>2 DEF InFlight, TypeOK, AuthorityTypes
    <3> QED
      BY <2>1, <2>3, <3>2, <3>3 DEF authVars, InFlight
  <2> QED
    BY <2>2, <2>3
<1>6. CASE UNCHANGED <<now, setting, authVars, callVars>> \/ Tick \/ UNCHANGED vars
  BY <1>1, <1>6 DEF Tick, vars
<1> HIDE DEF Sees
<1> QED
  BY <1>00, <1>2, <1>3, <1>4, <1>5, <1>6, StepKinds

LEMMA NextPending ==
  ASSUME TypeOK, PendingIsDecidable, [Next]_vars
  PROVE  PendingIsDecidable'
<1> USE DEF PendingIsDecidable, TypeOK, ApprovalTypes
<1>1. CASE UNCHANGED approvalVars
  BY <1>1 DEF approvalVars
<1>2. ASSUME NEW c \in Calls, CallStep(c)
      PROVE  PendingIsDecidable'
  <2>1. /\ spoilt' = spoilt
        /\ \/ approval' = approval
           \/ approval' = [approval EXCEPT ![req[c].engine][req[c].id] = Requested]
    BY <1>2, CallMoves
  <2>2. Requested.nonceUsed = FALSE
    BY DEF Requested
  <2> QED
    BY <2>1, <2>2
<1>3. CASE ApprovalNext
  BY <1>3, ApprovalMoves
<1>4. ASSUME NEW e \in Engines, Restart(e)
      PROVE  PendingIsDecidable'
  <2>1. /\ approval' = [approval EXCEPT ![e] = [r \in RequestIds |-> NoApproval]]
        /\ spoilt' = {s \in spoilt : s[1] # e}
    BY <1>4, RestartMoves
  <2>2. NoApproval.nonceUsed = FALSE
    BY DEF NoApproval
  <2>3. ASSUME NEW f \in Engines, NEW r \in RequestIds,
               approval'[f][r].state = "pending", approval'[f][r].nonceUsed
        PROVE  <<f, r>> \in spoilt'
    <3>1. f # e
      BY <2>1, <2>2, <2>3
    <3> QED
      BY <2>1, <2>3, <3>1
  <2> QED
    BY <2>3
<1>5. ASSUME NEW c \in Calls, BeginStep(c)
      PROVE  PendingIsDecidable'
  BY <1>1, <1>5, BeginMoves
<1> QED
  BY <1>1, <1>2, <1>3, <1>4, <1>5, StepKinds DEF Tick, vars

LEMMA NextInv ==
  ASSUME Inv, [Next]_vars
  PROVE  Inv'
PROOF BY NextTypeOK, NextLineInv, NextSeesInv, NextPending DEF Inv

\* Every state of the admission pipeline is well-typed, keeps its lines of
\* delegation, and its calls have seen what they act on.
THEOREM Invariance == Spec => []Inv
<1>1. Init => Inv
  BY InitInv
<1>2. Inv /\ [Next]_vars => Inv'
  BY NextInv
<1> QED
  BY <1>1, <1>2, PTL DEF Spec

------------------------------------------------------------------------------
(* The properties.                                                         *)

\* deriveTo(): over any number of delegations, what an authority allows, each one
\* above it allows, where no step used an exception of the subset check.
THEOREM Narrows == Spec => []DelegationNarrows
<1>1. Inv => DelegationNarrows
  BY LineNarrows DEF Inv
<1> QED
  BY <1>1, Invariance, PTL

\* revoke() and expiry reach every descendant that the engine holds, by the
\* cascade and the lives compared on the way down: canExercise() refuses all.
THEOREM Reaches == Spec => []RevocationReaches
<1>1. Inv => RevocationReaches
  BY LineReaches DEF Inv
<1> QED
  BY <1>1, Invariance, PTL

\* submit(): only a malformed signature uses up the nonce of a pending approval.
THEOREM Decidable == Spec => []PendingIsDecidable
<1>1. Inv => PendingIsDecidable
  BY DEF Inv
<1> QED
  BY <1>1, Invariance, PTL

\* A call that is newly admitted passed its authority, its policies and its
\* approval in this very step.
LEMMA Passes ==
  ASSUME TypeOK, [Next]_vars, NEW c \in Calls, pc[c] # "admitted", pc'[c] = "admitted"
  PROVE  CallStep(c)
<1>1. ASSUME NEW b \in Calls, BeginStep(b)
      PROVE  FALSE
  BY <1>1, BeginMoves DEF TypeOK, CallTypes
<1>2. ASSUME NEW b \in Calls, CallStep(b)
      PROVE  b = c
  BY ZenonT(30), <1>2, CallMoves DEF TypeOK, CallTypes
<1>3. ASSUME NEW e \in Engines, Restart(e)
      PROVE  FALSE
  BY <1>3, RestartMoves
<1>4. pc' # pc
  OBVIOUS
<1> QED
  BY <1>1, <1>2, <1>3, <1>4, StepKinds DEF Tick, callVars, vars

LEMMA AdmittedSees ==
  ASSUME Inv, [Next]_vars, NEW c \in Calls, pc[c] # "admitted", pc'[c] = "admitted",
         req[c].authority # None
  PROVE  Lineage(req[c].authority) \cap gone[c] = {}
<1> DEFINE e == req[c].engine
           a == req[c].authority
<1> USE DEF Inv
<1>1. /\ pc[c] \in InFlight /\ e \in Engines
      /\ Authorized(c, who'[c])
      /\ a \in held[e] \/ pc[c] = "decide"
  BY Passes, CallMoves, CallIsAt DEF InFlight
<1>2. /\ \A x \in gone[c] : x \in revoked[e] \/ (x \in struck /\ x \notin held[e])
      /\ pc[c] = "decide" => a \in saved /\ (a \in held[e] \/ a \notin gone[c])
  BY <1>1 DEF SeesInv
<1>3. CanExercise(e, a, who'[c], req[c].capability, req[c].resource)
  BY <1>1 DEF Authorized
<1>4. Verified(e, a) /\ (authority[a].parent # None => authority[a].parent \in held[e])
  BY <1>3 DEF CanExercise
<1> HIDE DEF e, a
<1>5. CASE a \in held[e]
  <2>1. \A x \in Lineage(a) : x \in held[e] /\ x \notin revoked[e]
    BY <1>1, <1>4, <1>5, ExercisedLine DEF Verified
  <2> QED
    BY <1>2, <2>1 DEF a
<1>6. CASE a \notin held[e]
  <2>1. a \in Ids /\ a \notin gone[c]
    BY <1>1, <1>2, <1>6 DEF TypeOK, AuthorityTypes
  <2>2. a \notin derived
    <3>1. SUFFICES ASSUME a \in derived
                   PROVE  FALSE
      OBVIOUS
    <3>2. authority[a].parent \in Ids
      BY <3>1 DEF LineInv, DerivedWithin
    <3>3. authority[a].parent \in held[e]
      BY <1>4, <3>2, NoneAssumption
    <3> QED
      BY <1>1, <1>6, <3>1, <3>3 DEF LineInv, LineHeld
  <2>3. Lineage(a) \subseteq {a}
    BY <2>1, <2>2, LineIsLeast
  <2> QED
    BY <2>1, <2>3 DEF a
<1> QED
  BY <1>5, <1>6

\* execute(), step 3: no call passes under an authority that its engine could see
\* revoked when the call began, nor under one below it, however the checks
\* interleave with revocations, saves and restarts.
THEOREM RevocationIsSeen == Spec => RevocationSeen
<1>1. Inv /\ [Next]_vars =>
        [\A c \in Calls :
           (pc[c] # "admitted" /\ pc'[c] = "admitted" /\ req[c].authority # None)
             => Lineage(req[c].authority) \cap gone[c] = {}]_vars
  BY AdmittedSees
<1> QED
  BY <1>1, Invariance, PTL DEF Spec, RevocationSeen

LEMMA DecidedStands ==
  ASSUME TypeOK, [Next]_vars, NEW e \in Engines, NEW r \in RequestIds,
         approval[e][r].state \notin {"none", "pending"}
  PROVE  \/ approval'[e][r] = approval[e][r]
         \/ \A x \in RequestIds : approval'[e][x] = NoApproval
<1> USE DEF TypeOK, ApprovalTypes
<1>1. CASE UNCHANGED approvalVars
  BY <1>1 DEF approvalVars
<1>2. ASSUME NEW c \in Calls, CallStep(c)
      PROVE  approval'[e][r] = approval[e][r]
  <2>1. CASE approval' = approval
    BY <2>1
  <2>2. ASSUME NEW f, NEW x, approval[f][x].state = "none",
               approval' = [approval EXCEPT ![f][x] = Requested]
        PROVE  approval'[e][r] = approval[e][r]
    BY <2>2
  <2> QED
    BY <1>2, <2>1, <2>2, CallMoves
<1>3. CASE ApprovalNext
  BY <1>3, ApprovalMoves
<1>4. ASSUME NEW f \in Engines, Restart(f)
      PROVE  approval'[e] = approval[e] \/ \A x \in RequestIds : approval'[e][x] = NoApproval
  BY <1>4, RestartMoves
<1>5. ASSUME NEW c \in Calls, BeginStep(c)
      PROVE  UNCHANGED approvalVars
  BY <1>5, BeginMoves
<1> QED
  BY <1>1, <1>2, <1>3, <1>4, <1>5, StepKinds DEF Tick, vars

\* Step 7 and submit(): what needs approval passes on an approved one only, and
\* what was decided, nobody decides again while the process lives.
THEOREM ApprovalsStand == Spec => ApprovalStands
<1>1. ASSUME Inv, [Next]_vars, NEW e \in Engines, NEW r \in RequestIds, NEW c \in Calls,
             pc[c] # "admitted", pc'[c] = "admitted", req[c].engine = e, req[c].id = r,
             Contract(c).approval = "always"
      PROVE  approval[e][r].state = "approved"
  <2>1. Approvable(c, who'[c])
    BY <1>1 DEF Approvable, NeedsApproval
  <2> QED
    BY <1>1, <2>1, Passes, CallMoves DEF Inv
<1>2. Inv /\ [Next]_vars =>
        [\A e \in Engines, r \in RequestIds :
           /\ approval[e][r].state \notin {"none", "pending"} =>
                \/ approval'[e][r] = approval[e][r]
                \/ \A x \in RequestIds : approval'[e][x] = NoApproval
           /\ \A c \in Calls :
                (pc[c] # "admitted" /\ pc'[c] = "admitted" /\ req[c].engine = e /\ req[c].id = r
                  /\ Contract(c).approval = "always") => approval[e][r].state = "approved"]_vars
  BY <1>1, DecidedStands DEF Inv
<1> QED
  BY <1>2, Invariance, PTL DEF Spec, ApprovalStands

LEMMA DenialStep ==
  ASSUME Inv, [Next]_vars, NEW c \in Calls, pc[c] # "admitted", pc'[c] = "admitted"
  PROVE  LET speaks(rule) == MatchesRule(rule, who'[c], Contract(c), Context(c))
             rules == UNION {{setting.policies[i].rules[j] : j \in DOMAIN setting.policies[i].rules}
                               : i \in DOMAIN setting.policies}
         IN /\ \A rule \in rules : speaks(rule) => rule.effect # "deny"
            /\ (setting.policies # <<>> /\ \A rule \in rules : ~speaks(rule))
                 => setting.policies[1].default # "deny"
<1>1. PolicyDecision(c, who'[c]) # "deny"
  BY Passes, CallMoves DEF Inv
<1>2. setting.policies \in Seq(PolicyDocuments)
  BY SettingsAssumption DEF Inv, TypeOK
<1>3. Evaluate(setting.policies, who'[c], Contract(c), Context(c)) # "deny"
  BY <1>1 DEF PolicyDecision
<1> QED
  BY <1>2, <1>3, NoDeny

\* evaluate(): whatever the policies and their order, no call passes that a rule
\* of one of them denies, or that only a denying default is left for.
THEOREM DenialsHold == Spec => DenialHolds
<1>1. Inv /\ [Next]_vars =>
        [\A c \in Calls :
           (pc[c] # "admitted" /\ pc'[c] = "admitted") =>
             LET speaks(rule) == MatchesRule(rule, who'[c], Contract(c), Context(c))
                 rules == UNION {{setting.policies[i].rules[j] : j \in DOMAIN setting.policies[i].rules}
                                   : i \in DOMAIN setting.policies}
             IN /\ \A rule \in rules : speaks(rule) => rule.effect # "deny"
                /\ (setting.policies # <<>> /\ \A rule \in rules : ~speaks(rule))
                     => setting.policies[1].default # "deny"]_vars
  BY DenialStep
<1> QED
  BY <1>1, Invariance, PTL DEF Spec, DenialHolds

==============================================================================
