--------------------------- MODULE ControlAccess ---------------------------
(***************************************************************************)
(* Who may do what: the roles, the credential file, the control policy and *)
(* the checks that ControlEngine::submit makes before it registers         *)
(* anything (crates/control-engine: role, auth, policy, catalog), and the  *)
(* HTTP status that crates/rest-api gives every refusal.  Everything here  *)
(* is a pure function of its arguments.                                    *)
(***************************************************************************)
EXTENDS Naturals, Sequences

CONSTANTS
    Credentials,    \* the entries of the credential file, in file order
    Catalog,        \* device -> "enabled" or "disabled"
    Policy,         \* the control policy
    CommandRisk     \* the risk level of every command of the profile

-----------------------------------------------------------------------------
(* Roles *)

Roles == <<"Viewer", "Operator", "Engineer", "Administrator">>
Rank(role) == CHOOSE i \in 1..Len(Roles) : Roles[i] = role

role_ordering(granted, required) == Rank(granted) >= Rank(required)

-----------------------------------------------------------------------------
(* The credential file (StaticTokenAuthorizer) *)

Empty == ""

(* What is wrong with entry i, given the entries before it.                 *)
EntryError(creds, i) ==
    CASE creds[i].token = Empty -> "DuplicateToken"
      [] creds[i].subject = Empty -> "EmptySubject"
      [] \E j \in 1..(i - 1) : creds[j].token = creds[i].token -> "DuplicateToken"
      [] \E j \in 1..(i - 1) : creds[j].subject = creds[i].subject -> "DuplicateSubject"
      [] OTHER -> "ok"

(* parse: the first entry with an error decides.                            *)
ParseCredentials(creds) ==
    LET bad == {i \in 1..Len(creds) : EntryError(creds, i) # "ok"}
    IN  IF bad = {} THEN "ok"
        ELSE EntryError(creds, CHOOSE i \in bad : \A j \in bad : i <= j)

(* authenticate scans the whole table; the last match counts.               *)
Authenticate(creds, token) ==
    LET hits == {i \in 1..Len(creds) : creds[i].token = token}
    IN  IF hits = {} THEN {} ELSE {creds[CHOOSE i \in hits : \A j \in hits : i >= j]}

(* roles: subject -> role, the last entry of a subject wins.                *)
RoleOf(creds, subject) ==
    LET hits == {i \in 1..Len(creds) : creds[i].subject = subject}
    IN  IF hits = {} THEN "Viewer"
        ELSE creds[CHOOSE i \in hits : \A j \in hits : i >= j].role

Authorize(creds, subject, required) == role_ordering(RoleOf(creds, subject), required)

(* A file that was not refused: the deployment the other modules start from.*)
ASSUME CredentialsAccepted == ParseCredentials(Credentials) = "ok"

-----------------------------------------------------------------------------
(* The policy *)

RiskRole == [Low |-> "Operator", Medium |-> "Operator",
             High |-> "Engineer", Critical |-> "Administrator"]

(* required_role of the default policy, which the collector does not change *)
(* (a risk level without an entry needs an Administrator).                  *)
RequiredRole(kind) ==
    IF kind = "PropertyWrite" THEN "Operator"
    ELSE IF kind \in DOMAIN RiskRole THEN RiskRole[kind]
    ELSE "Administrator"

StatusRequiredRole == "Operator"

PolicyValid(p) ==
    /\ p.retentionHours >= 24
    /\ p.queueCapacity > 0
    /\ p.writeTimeout > 0
    /\ \A risk \in DOMAIN p.commandTimeout : p.commandTimeout[risk] > 0
    /\ p.preconditionTimeout > 0
    /\ p.maxRequestAge > 0
    /\ p.auditTimeout > 0

ASSUME PolicyAccepted == PolicyValid(Policy)

-----------------------------------------------------------------------------
(* The checks of submit before the idempotency record *)

Known(device) == device \in DOMAIN Catalog

(* The kind of an operation; a command of an unknown device, or one the     *)
(* profile does not name, counts as Critical.                               *)
OperationKind(device, op) ==
    IF op = "write" THEN "PropertyWrite"
    ELSE IF Known(device) /\ op \in DOMAIN CommandRisk THEN CommandRisk[op]
    ELSE "Critical"

MayAsk(subject, device, op) ==
    Authorize(Credentials, subject, RequiredRole(OperationKind(device, op)))

(* The refusals in the order of the code; "ok" goes on to the journal.      *)
Admission(subject, device, op) ==
    IF ~MayAsk(subject, device, op) THEN "INSUFFICIENT_ROLE"
    ELSE IF ~Known(device) THEN "DEVICE_NOT_FOUND"
    ELSE IF Catalog[device] = "disabled" THEN "DEVICE_DISABLED"
    ELSE "ok"

-----------------------------------------------------------------------------
(* HTTP status codes *)

SemanticCodes == {"PARAMETER_OUT_OF_RANGE", "EMPTY_WRITE", "PRECONDITION_FAILED"}

(* map_engine_submit_error: the engine returned Err.                        *)
SubmitErrorStatus(code) ==
    CASE code \in SemanticCodes -> 422
      [] code \in {"EMPTY_REQUEST_ID", "INVALID_TIMEOUT", "REQUEST_TOO_OLD",
                   "REQUEST_TOO_NEW"} -> 400
      [] code = "IDEMPOTENCY_CONFLICT" -> 409
      [] OTHER -> 503

(* rejected_receipt_error: a receipt that is ready and Rejected.            *)
RejectedStatus(code) ==
    CASE code = "DEVICE_NOT_FOUND" -> 404
      [] code \in {"DEVICE_DISABLED", "IDEMPOTENCY_RACE"} -> 409
      [] code = "INSUFFICIENT_ROLE" -> 403
      [] code \in {"QUEUE_FULL", "JOURNAL_UNAVAILABLE", "DEVICE_COOLDOWN"} -> 503
      [] code \in {"REQUEST_TOO_OLD", "REQUEST_TOO_NEW"} -> 400
      [] OTHER -> 422
=============================================================================
