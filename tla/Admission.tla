------------------------------ MODULE Admission -------------------------------
(***************************************************************************)
(* Steps 1 to 7 of SecureExecutionEngine.execute(), from authentication to *)
(* approval, as calls run them in several processes, between the           *)
(* operations of the authority engine, its store and the approval service. *)
(* A call that passes is admitted: ExecutionEngine takes it from there.    *)
(***************************************************************************)
EXTENDS Authority, Approval, Decisions

CONSTANTS
  Calls,
  Contracts,  \* [capability ids -> contract]: the registry
  Tokens,     \* what decode() makes of a token
  Skew,       \* clockSkewSeconds
  Settings,   \* productionMode, the policies loaded, and what callers and embedder
              \* may ask: calls and their requests of execute(), issue() and deriveTo()
  Names,      \* capability ids and resources that the properties speak of
  MaxTime     \* bound of the clock

ASSUME BoundsAssumption == Skew \in Nat /\ MaxTime \in Nat

ASSUME NamesAssumption == Names \subseteq Seq(STRING)

ASSUME SettingsAssumption ==
  \A s \in Settings :
    /\ s.calls \subseteq Calls /\ s.policies \in Seq(PolicyDocuments)
    /\ \A r \in s.requests : r.engine \in Engines /\ r.id \in RequestIds
    /\ \A i \in s.issues : i.engine \in Engines /\ i.id \in Ids /\ i.spec \in Authorities
    /\ \A d \in s.derivations : /\ d.engine \in Engines /\ d.id \in Ids /\ d.parent \in Ids
                               /\ d.subject \in Principals /\ d.issuer \in Principals
                               /\ d.subset \in Subsets

VARIABLES
  setting,
  pc,      \* [Calls -> where the call stands]
  req,     \* [Calls -> its request]
  who,     \* [Calls -> the verified principal]
  gone     \* [Calls -> ids whose revocation the engine could see as it began] (history)

callVars == <<pc, req, who, gone>>
vars == <<now, setting, authVars, approvalVars, callVars>>

NoRequest == [id |-> None, engine |-> None]

Init ==
  /\ AuthInit /\ ApprovalInit
  /\ now = 0
  /\ setting \in Settings
  /\ pc = [c \in Calls |-> "idle"]
  /\ req = [c \in Calls |-> NoRequest]
  /\ who = [c \in Calls |-> Nobody]
  /\ gone = [c \in Calls |-> {}]

InFlight == {"authenticate", "load", "check", "decide"}

Goto(c, place) == pc' = [pc EXCEPT ![c] = place]

Context(c) ==
  [environment |-> IF setting.production THEN "production" ELSE "test", resource |-> None]

Contract(c) == Contracts[req[c].capability]

Begin(c, r) ==
  /\ pc[c] = "idle"
  /\ Goto(c, "authenticate")
  /\ req' = [req EXCEPT ![c] = r]
  /\ gone' = [gone EXCEPT ![c] = revoked[r.engine] \cup (struck \ held[r.engine])]
  /\ UNCHANGED <<now, setting, who, authVars, approvalVars>>

Principal(c) ==
  IF setting.production THEN BearerAuthenticate(Tokens, req[c].credential, Skew)
  ELSE TestAuthenticate(Tokens, req[c].credential)

\* Mutant: an approval that is no longer pending is asked for again.
AskAgain(c) ==
  LET e == req[c].engine
      r == req[c].id
  IN CASE approval[e][r].state \in {"none", "expired", "cancelled"} ->
            /\ approval' = [approval EXCEPT ![e][r] = Requested]
            /\ Goto(c, "approval_required")
       [] approval[e][r].state = "approved" -> Goto(c, "admitted") /\ UNCHANGED approval
       [] approval[e][r].state = "rejected" -> Goto(c, "refused") /\ UNCHANGED approval
       [] OTHER -> Goto(c, "approval_required") /\ UNCHANGED approval

\* Step 7, reached when steps 3 to 6 let the call pass.  An approval is looked
\* up by the request id alone, in whatever state it is.
Approve(c) ==
  LET e == req[c].engine
      r == req[c].id
  IN CASE approval[e][r].state = "none" ->
            /\ approval' = [approval EXCEPT ![e][r] = Requested]
            /\ Goto(c, "approval_required")
       [] approval[e][r].state = "approved" -> Goto(c, "admitted") /\ UNCHANGED approval
       [] approval[e][r].state = "rejected" -> Goto(c, "refused") /\ UNCHANGED approval
       [] OTHER -> Goto(c, "approval_required") /\ UNCHANGED approval

Authorized(c, principal) ==
  req[c].authority # None =>
    CanExercise(req[c].engine, req[c].authority, principal, req[c].capability, req[c].resource)

PolicyDecision(c, principal) == Evaluate(setting.policies, principal, Contract(c), Context(c))

Approvable(c, principal) ==
  NeedsApproval(Contract(c),
                Assess(Contract(c).risk, Context(c).environment, req[c].input),
                PolicyDecision(c, principal))

\* Steps 4 to 7, without an await between them.
Decide(c, principal) ==
  \/ /\ ~Authorized(c, principal) \/ PolicyDecision(c, principal) = "deny"
     /\ Goto(c, "refused")
     /\ UNCHANGED approval
  \/ /\ Authorized(c, principal) /\ PolicyDecision(c, principal) # "deny"
     /\ IF Approvable(c, principal) THEN Approve(c)
        ELSE Goto(c, "admitted") /\ UNCHANGED approval

\* Step 1 ends, and what follows up to the next await: the registry (step 2) and
\* the engine's own Map (step 3).
Authenticated(c) ==
  LET principal == Principal(c)
      r == req[c]
  IN /\ pc[c] = "authenticate"
     /\ who' = [who EXCEPT ![c] = principal]
     /\ \/ /\ \/ principal = Nobody \/ r.capability \notin DOMAIN Contracts
              \/ r.authority = None /\ Contract(c).sideEffect /\ setting.production
           /\ Goto(c, "refused") /\ UNCHANGED approval
        \/ /\ principal # Nobody /\ r.capability \in DOMAIN Contracts
           /\ \/ /\ r.authority = None /\ ~(Contract(c).sideEffect /\ setting.production)
                 /\ Decide(c, principal)
              \/ r.authority \in held[r.engine] /\ Decide(c, principal)
              \/ /\ r.authority # None /\ r.authority \notin held[r.engine]
                 /\ Goto(c, "load") /\ UNCHANGED approval
     /\ UNCHANGED <<now, setting, req, gone, authVars, spoilt>>

\* AuthorityStore.load().
Load(c) ==
  /\ pc[c] = "load"
  /\ Goto(c, IF req[c].authority \in saved THEN "check" ELSE "refused")
  /\ UNCHANGED <<now, setting, req, who, gone, authVars, approvalVars>>

\* Mutant: the store is not asked whether it revoked what it returned.
NoCheck(c) ==
  /\ pc[c] = "check"
  /\ Goto(c, "decide")
  /\ UNCHANGED <<now, setting, req, who, gone, authVars, approvalVars>>

\* AuthorityStore.isRevoked(): the answer is read here and acted upon later.
Check(c) ==
  /\ pc[c] = "check"
  /\ Goto(c, IF req[c].authority \in struck THEN "refused" ELSE "decide")
  /\ UNCHANGED <<now, setting, req, who, gone, authVars, approvalVars>>

Loaded(c) ==
  /\ pc[c] = "decide"
  /\ Decide(c, who[c])
  /\ UNCHANGED <<now, setting, req, who, gone, authVars, spoilt>>

Tick ==
  /\ now < MaxTime /\ now' = now + 1
  /\ UNCHANGED <<setting, authVars, approvalVars, callVars>>

\* The process of an engine dies and is started again.
Restart(e) ==
  /\ Forget(e) /\ ForgetApprovals(e)
  /\ pc' = [c \in Calls |->
       IF pc[c] \in InFlight /\ req[c].engine = e THEN "died" ELSE pc[c]]
  /\ UNCHANGED <<now, setting, req, who, gone>>

Next ==
  \/ \E c \in Calls :
       \/ c \in setting.calls /\ \E r \in setting.requests : Begin(c, r)
       \/ Authenticated(c) \/ Load(c) \/ Check(c) \/ Loaded(c)
  \/ /\ \/ \E i \in setting.issues : Issue(i)
        \/ \E d \in setting.derivations : DeriveTo(d)
        \/ AuthNext
     /\ UNCHANGED <<now, setting, approvalVars, callVars>>
  \/ ApprovalNext /\ UNCHANGED <<now, setting, authVars, callVars>>
  \/ Tick
  \/ \E e \in Engines : Restart(e)

Spec == Init /\ [][Next]_vars

-----------------------------------------------------------------------------
(* Properties.                                                             *)

CallStates == {"idle", "died", "admitted", "refused", "approval_required"} \cup InFlight

AuthorityTypes ==
  /\ authority \in [Ids -> Authorities \cup {None}]
  /\ held \in [Engines -> SUBSET Ids] /\ revoked \in [Engines -> SUBSET Ids]
  /\ \A e \in Engines : revoked[e] \subseteq held[e] /\ \A id \in held[e] : authority[id] # None
  /\ saved \subseteq Ids /\ derived \subseteq Ids
  /\ \A id \in saved \cup derived : authority[id] # None
  /\ struck \subseteq saved

ApprovalTypes ==
  approval \in [Engines -> [RequestIds ->
    [state : ApprovalStates, expires : 0 .. MaxTime + ApprovalTTL, nonceUsed : BOOLEAN]]]

CallTypes ==
  /\ pc \in [Calls -> CallStates]
  /\ DOMAIN req = Calls /\ DOMAIN who = Calls
  /\ \A c \in Calls : pc[c] # "idle" => req[c] \in setting.requests
  /\ gone \in [Calls -> SUBSET Ids]

\* Every variable keeps its type; an engine holds and revokes what was created.
TypeOK ==
  /\ now \in 0 .. MaxTime /\ setting \in Settings
  /\ AuthorityTypes /\ ApprovalTypes /\ CallTypes

\* An authority with all those above it that deriveTo() derived it from.
Lineage(id) ==
  {x \in Ids : \A S \in SUBSET Ids :
     (id \in S /\ (\A y \in S \cap derived : authority[y].parent \in S)) => x \in S}

Allows(a, capability, resource) ==
  /\ \E p \in a.capabilities : PatternMatch(p, capability)
  /\ a.resources = {} \/ \E p \in a.resources : PatternMatch(p, resource)

\* Derived without what the subset check lets through: an exceptional pattern, or
\* an empty list of resources, which stands for all.
StrictList(child, parent) ==
  \A p \in child : \E q \in parent : PatternCovers(q, p) /\ ~Exceptional(q, p)
Strict(id) ==
  LET parent == authority[authority[id].parent]
  IN /\ StrictList(authority[id].capabilities, parent.capabilities)
     /\ StrictList(authority[id].resources, parent.resources)
     /\ authority[id].resources = {} => parent.resources = {}

\* Delegation narrows, over any number of deriveTo() calls: what an authority
\* allows, each authority above it allows, for as long, as much and as freely,
\* unless some step of the delegation used one of the exceptions.
DelegationNarrows ==
  \A id \in derived : (\A x \in Lineage(id) \cap derived : Strict(x)) =>
    \A above \in Lineage(id) :
      /\ \A capability, resource \in Names :
           Allows(authority[id], capability, resource) =>
             Allows(authority[above], capability, resource)
      /\ authority[id].expires <= authority[above].expires
      /\ authority[above].limit # None =>
           authority[id].limit # None /\ authority[id].limit <= authority[above].limit
      /\ authority[id].delegatable => authority[above].delegatable

\* Revocation and expiry reach every descendant made by deriveTo() that the same
\* process holds, although canExercise() looks no further up than the parent.
RevocationReaches ==
  \A e \in Engines : \A id \in held[e] :
    (\E above \in Lineage(id) : above \in revoked[e] \/ authority[above].expires < now)
      => \A p \in Principals, capability, resource \in Names :
           ~CanExercise(e, id, p, capability, resource)

\* A call is not admitted under an authority whose revocation, or that of one
\* above it, its engine could see when the call began: its own revocations, and
\* those of the store for what it does not hold itself.
RevocationSeen ==
  [][\A c \in Calls :
       (pc[c] # "admitted" /\ pc'[c] = "admitted" /\ req[c].authority # None)
         => Lineage(req[c].authority) \cap gone[c] = {}]_vars

\* A call of a capability that needs approval is admitted only on an approval
\* for its id, and what was decided about an id stands until the process ends.
ApprovalStands ==
  [][\A e \in Engines, r \in RequestIds :
       /\ approval[e][r].state \notin {"none", "pending"} =>
            \/ approval'[e][r] = approval[e][r]
            \/ \A x \in RequestIds : approval'[e][x] = NoApproval
       /\ \A c \in Calls :
            (pc[c] # "admitted" /\ pc'[c] = "admitted" /\ req[c].engine = e /\ req[c].id = r
              /\ Contract(c).approval = "always") => approval[e][r].state = "approved"]_vars

\* A pending approval can be decided, unless a malformed signature was submitted
\* for it: submissions by others, late or repeated, do not use up its nonce.
PendingIsDecidable ==
  \A e \in Engines, r \in RequestIds :
    (approval[e][r].state = "pending" /\ approval[e][r].nonceUsed) => <<e, r>> \in spoilt

\* No policy that denies the call let it pass: neither its own rule in any of
\* the policies nor, when no rule speaks of the call, the first one's default.
DenialHolds ==
  [][\A c \in Calls :
       (pc[c] # "admitted" /\ pc'[c] = "admitted") =>
         LET speaks(rule) == MatchesRule(rule, who'[c], Contract(c), Context(c))
             rules == UNION {{setting.policies[i].rules[j] : j \in DOMAIN setting.policies[i].rules}
                               : i \in DOMAIN setting.policies}
         IN /\ \A rule \in rules : speaks(rule) => rule.effect # "deny"
            /\ (setting.policies # <<>> /\ \A rule \in rules : ~speaks(rule))
                 => setting.policies[1].default # "deny"]_vars
==============================================================================
