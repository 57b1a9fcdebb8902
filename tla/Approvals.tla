----------------------------- MODULE Approvals -----------------------------
(***************************************************************************)
(* Decisions taken once: approvals of a session (internal/approvals) and   *)
(* envelopes sent for signature (internal/esignature).  Each decision      *)
(* reads the row, refuses one that is no longer open, and then updates it  *)
(* by its id alone.                                                        *)
(***************************************************************************)
EXTENDS Integers, FiniteSets

CONSTANTS
    Requests,            \* ids of approvals and envelopes, each used once
    Deciders,            \* goroutines that serve calls
    NoRequest

ASSUME ApprovalsAssumption == NoRequest \notin Requests

VARIABLES
    requests,        \* tables approvals and signature_envelopes
    decider,         \* what each goroutine is doing
    verdicts,        \* history: the verdicts reported to a caller
    contested        \* history: requests with two decisions at once

approvalVars == <<requests, decider, verdicts, contested>>

NoRequestRow == [kind |-> "none", status |-> "absent"]

ApprovalRow == [kind : {"approval"},
                status : {"pending", "approved", "rejected"}]
EnvelopeRow == [kind : {"envelope"}, status : {"sent", "signed"}]

Undecided == [pc |-> "idle", request |-> NoRequest, verdict |-> "none"]

ApprovalInit ==
    /\ requests = [r \in Requests |-> NoRequestRow]
    /\ decider = [d \in Deciders |-> Undecided]
    /\ verdicts = {}
    /\ contested = {}

CreateRow(r, row) ==
    /\ requests[r] = NoRequestRow
    /\ requests' = [requests EXCEPT ![r] = row]
    /\ UNCHANGED <<decider, verdicts, contested>>

RequestApproval(r) == CreateRow(r, [kind |-> "approval", status |-> "pending"])

CreateEnvelope(r) == CreateRow(r, [kind |-> "envelope", status |-> "sent"])

handleRequestApproval == \E r \in Requests : RequestApproval(r)

handleSendForSignature == \E r \in Requests : CreateEnvelope(r)

\* Mutated: Approve and Reject do not look at the status.
PendingAlways(r) == requests[r].kind = "approval"

Pending(r) == requests[r].status = "pending"

Sent(r) == requests[r].status = "sent"

Begin(d, r, verdict) ==
    /\ decider[d] = Undecided
    /\ decider' = [decider EXCEPT ![d] = [pc |-> "write", request |-> r,
                                          verdict |-> verdict]]
    /\ contested' = contested \cup ({decider[e].request : e \in Deciders} \cap {r})
    /\ UNCHANGED <<requests, verdicts>>

Approve(d, r) == Pending(r) /\ Begin(d, r, "approved")

Reject(d, r) == Pending(r) /\ Begin(d, r, "rejected")

handleApprove(d) == \E r \in Requests : Approve(d, r)

handleReject(d) == \E r \in Requests : Reject(d, r)

\* No tool signs an envelope; SimulateSigning stands for the provider.
SimulateSigning(d, r) == Sent(r) /\ Begin(d, r, "signed")

\* UPDATE ... WHERE id = ?
UpdateStatus(r, status) ==
    requests' = [requests EXCEPT ![r].status = status]

\* The update is done and its verdict reported.
Decide(d) ==
    LET r == decider[d].request IN
    /\ decider[d].pc = "write"
    /\ UpdateStatus(r, decider[d].verdict)
    /\ verdicts' = verdicts \cup {[request |-> r, verdict |-> decider[d].verdict]}
    /\ decider' = [decider EXCEPT ![d] = Undecided]
    /\ UNCHANGED contested

\* The update fails, or the reply to it is lost.
DeciderFails(d) ==
    /\ decider[d].pc = "write"
    /\ \/ UpdateStatus(decider[d].request, decider[d].verdict)
       \/ UNCHANGED requests
    /\ decider' = [decider EXCEPT ![d] = Undecided]
    /\ UNCHANGED <<verdicts, contested>>

\* What the callers that only read are told.
ListPending == {r \in Requests : requests[r].status = "pending"}

handlePendingApprovals ==
    [approvals |-> ListPending, count |-> Cardinality(ListPending)]

handleSignatureStatus(r) == requests[r].status

\* GetSignedDocument refuses an envelope that is not signed.
handleSignedDocument(r) ==
    IF requests[r].status = "signed" THEN requests[r] ELSE NoRequestRow

ApprovalNext ==
    \/ handleRequestApproval \/ handleSendForSignature
    \/ \E d \in Deciders :
          \/ handleApprove(d) \/ handleReject(d)
          \/ \E r \in Requests : SimulateSigning(d, r)
          \/ Decide(d)
          \/ DeciderFails(d)

ApprovalSpec == ApprovalInit /\ [][ApprovalNext]_approvalVars

-----------------------------------------------------------------------------

ApprovalTypeOK ==
    /\ requests \in [Requests -> ApprovalRow \cup EnvelopeRow \cup {NoRequestRow}]
    /\ \A d \in Deciders :
          decider[d] = Undecided \/ decider[d].request \in Requests
    /\ verdicts \subseteq [request : Requests,
                           verdict : {"approved", "rejected", "signed"}]
    /\ contested \subseteq Requests

(***************************************************************************)
(* A verdict stands: what a caller was told about an approval or an        *)
(* envelope is what the table says, and a caller is never told the         *)
(* opposite later, however often calls fail and are repeated, unless two   *)
(* decisions on it overlapped.  Even then the row holds a verdict somebody *)
(* asked for, is not listed as pending, and an envelope, which has only    *)
(* one verdict, stays signed.                                              *)
(***************************************************************************)
VerdictStands ==
    \A v \in verdicts :
        /\ v.request \notin contested => requests[v.request].status = v.verdict
        /\ v.request \notin handlePendingApprovals.approvals
        /\ v.verdict = "signed" =>
              /\ handleSignatureStatus(v.request) = "signed"
              /\ handleSignedDocument(v.request) # NoRequestRow
=============================================================================
