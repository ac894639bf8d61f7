------------------------------- MODULE Approval -------------------------------
(***************************************************************************)
(* The ApprovalService of each process.  The engine asks for an approval   *)
(* only when none exists for the request id, so approvals are kept by that *)
(* id.  A used nonce stays in usedNonces for 24 hours from its use and an  *)
(* approval lives 24 hours at most: it is a flag of the approval.          *)
(***************************************************************************)
EXTENDS Processes

CONSTANTS
  RequestIds,
  Approvers,    \* the principals that has_approver_role accepts
  ApprovalTTL   \* after the cut at max_ttl_ms

ASSUME TTLAssumption == ApprovalTTL \in Nat

VARIABLES
  approval,  \* [Engines -> [RequestIds -> approval]]
  spoilt     \* approvals that a malformed signature was submitted for (history)

approvalVars == <<approval, spoilt>>

ApprovalStates == {"none", "pending", "approved", "rejected", "expired", "cancelled"}
Signatures == {"absent", "wellFormed", "malformed"}

NoApproval == [state |-> "none", expires |-> 0, nonceUsed |-> FALSE]

ApprovalInit ==
  /\ approval = [e \in Engines |-> [r \in RequestIds |-> NoApproval]]
  /\ spoilt = {}

\* request(): as a value of approval[e][r].
Requested == [state |-> "pending", expires |-> now + ApprovalTTL, nonceUsed |-> FALSE]

Late(a) == a.expires < now

\* Mutant: the nonce is used up before the approver's role is checked.
SubmitNonceFirst(e, r, approver, signature, decision) ==
  /\ approval[e][r].state = "pending" /\ ~Late(approval[e][r])
  /\ ~approval[e][r].nonceUsed
  /\ approval' = [approval EXCEPT ![e][r].nonceUsed = TRUE,
                    ![e][r].state =
                      IF approver \notin Approvers \/ signature = "malformed" THEN @
                      ELSE IF decision = "deny" THEN "rejected" ELSE "approved"]
  /\ spoilt' = IF approver \in Approvers /\ signature = "malformed"
               THEN spoilt \cup {<<e, r>>} ELSE spoilt

\* submit(), when the approval is pending and in time: the approver's role, the
\* nonce, which is used up here, the form of the signature, and the decision.
Submit(e, r, approver, signature, decision) ==
  /\ approval[e][r].state = "pending" /\ ~Late(approval[e][r])
  /\ approver \in Approvers
  /\ ~approval[e][r].nonceUsed
  /\ approval' = [approval EXCEPT ![e][r].nonceUsed = TRUE,
                    ![e][r].state =
                      IF signature = "malformed" THEN @
                      ELSE IF decision = "deny" THEN "rejected" ELSE "approved"]
  /\ spoilt' = IF signature = "malformed" THEN spoilt \cup {<<e, r>>} ELSE spoilt

\* submit() on a pending approval past its time; gc() over all of them.
Lapse(e, r) ==
  /\ approval[e][r].state = "pending" /\ Late(approval[e][r])
  /\ approval' = [approval EXCEPT ![e][r].state = "expired"]
  /\ UNCHANGED spoilt

GcApprovals(e) ==
  /\ approval' = [approval EXCEPT ![e] = [r \in RequestIds |->
        IF approval[e][r].state = "pending" /\ Late(approval[e][r])
        THEN [approval[e][r] EXCEPT !.state = "expired"] ELSE approval[e][r]]]
  /\ UNCHANGED spoilt

CancelApproval(e, r) ==
  /\ approval[e][r].state = "pending"
  /\ approval' = [approval EXCEPT ![e][r].state = "cancelled"]
  /\ UNCHANGED spoilt

ForgetApprovals(e) ==
  /\ approval' = [approval EXCEPT ![e] = [r \in RequestIds |-> NoApproval]]
  /\ spoilt' = {s \in spoilt : s[1] # e}

ApprovalNext ==
  \E e \in Engines :
    \/ \E r \in RequestIds :
         \/ \E approver \in Principals, signature \in Signatures,
               decision \in {"approve", "deny", "approve_with_constraints"} :
              Submit(e, r, approver, signature, decision)
         \/ Lapse(e, r)
         \/ CancelApproval(e, r)
    \/ GcApprovals(e)
==============================================================================
