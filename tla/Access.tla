------------------------------- MODULE Access -------------------------------
(***************************************************************************)
(* Requests to the /api-keys routes, from the Authorization header to the   *)
(* answer: require_api_key (AuthenticateApiKeyService), require_rate_limit  *)
(* (RateLimiterService) and the three handlers, each request on a thread of *)
(* its own, plus the bootstrap script that issues keys with no caller.      *)
(*                                                                          *)
(* Every repository call is a transaction, so a request is a sequence of    *)
(* atomic steps between which other requests run.  A request holds the key  *)
(* row it authenticated with (caller) until it is answered.                 *)
(***************************************************************************)
EXTENDS RateLimiter, FiniteSets

CONSTANTS Tenant,      \* the tenants that exist
          Scope,       \* KNOWN_SCOPES
          Manage,      \* the scope keys:manage
          MaxRequests  \* bound on the requests that arrive

ASSUME ScopeAssumption == Manage \in Scope
ASSUME RequestsAssumption == MaxRequests \in Nat
ASSUME TenantAssumption == None \notin Tenant \cup Key

VARIABLES keys,      \* the api_keys table: Key -> row, None before issuance
          req,       \* Thread -> the request it serves
          arrived,   \* how many requests have arrived
          revoker    \* history: Key -> the caller that revoked it

vars == <<limiterVars, keys, req, arrived, revoker>>

KeyRow == [tenant : Tenant, scopes : SUBSET Scope, issued_by : Key \cup {None},
           revoked : BOOLEAN]

Op == {"issue", "revoke", "list"}
PC == {"idle", "auth", "mark", "clock", "check", "issue", "revoke", "save", "list", "rows", "listed"}
Request == [pc : PC, op : Op, key : Key \cup {None}, caller : KeyRow \cup {None},
            target : Key \cup {None}, row : KeyRow \cup {None}, shown : SUBSET Key,
            late : BOOLEAN]     \* history: its key was revoked before it arrived
ASSUME RowAssumption == None \notin KeyRow \cup [key : Key, row : KeyRow]
NoRequest == [pc |-> "idle", op |-> "list", key |-> None, caller |-> None,
              target |-> None, row |-> None, shown |-> {}, late |-> FALSE]

TypeOK ==
    /\ LimiterTypeOK
    /\ keys \in [Key -> KeyRow \cup {None}]
    /\ req \in [Thread -> Request]
    /\ arrived \in 0 .. MaxRequests
    /\ revoker \in [Key -> [key : Key, row : KeyRow] \cup {None}]

Init ==
    /\ LimiterInit
    /\ keys = [k \in Key |-> None]
    /\ req = [t \in Thread |-> NoRequest]
    /\ arrived = 0
    /\ revoker = [k \in Key |-> None]

At(t, label) == req[t].pc = label
Goto(t, label) == req' = [req EXCEPT ![t].pc = label]
Answer(t) == req' = [req EXCEPT ![t] = NoRequest]
Issued(k) == keys[k] # None
-----------------------------------------------------------------------------
(* ApiKey and PostgresApiKeyRepository *)

NewKey(tenant, scopes, issuer) ==
    [tenant |-> tenant, scopes |-> scopes, issued_by |-> issuer,
     revoked |-> FALSE]

\* issue_child: the issuer's tenant, no scope of its own.
IssueChild(k, row) == NewKey(row.tenant, {}, k)

\* Mutant: the lookup forgets the tenant.
MutGetById(k, tenant) == keys[k]
\* get_by_id(id, tenant): a key of another tenant is a missing key.
GetById(k, tenant) ==
    IF Issued(k) /\ keys[k].tenant = tenant THEN keys[k] ELSE None

\* save(): the update writes revoked_at and scopes, whatever they have become
\* since the row was read, and only within the tenant.
Save(k, row) ==
    keys' = [keys EXCEPT ![k] =
        IF @ = None THEN row
        ELSE IF @.tenant # row.tenant THEN @
        ELSE [@ EXCEPT !.revoked = row.revoked, !.scopes = row.scopes]]
-----------------------------------------------------------------------------
(* require_api_key and require_rate_limit *)

Arrive(t, k, op, target) ==
    /\ At(t, "idle")
    /\ arrived < MaxRequests
    /\ arrived' = arrived + 1
    /\ req' = [req EXCEPT ![t] = [NoRequest EXCEPT
           !.pc = "auth", !.op = op, !.key = k, !.target = target,
           !.late = Issued(k) /\ keys[k].revoked]]
    /\ UNCHANGED <<limiterVars, keys, revoker>>

\* Mutant: a revoked key is still a known one.
MutValid(k) == Issued(k)
\* get_by_hash_across_tenants: an unknown key and a revoked one are both 401.
Valid(k) == Issued(k) /\ ~keys[k].revoked
Authenticate(t) ==
    /\ At(t, "auth")
    /\ IF Valid(req[t].key)
       THEN req' = [req EXCEPT ![t].pc = "mark", ![t].caller = keys[req[t].key]]
       ELSE Answer(t)
    /\ UNCHANGED <<limiterVars, keys, arrived, revoker>>

\* Mutant: the entity is marked and saved back whole, not updated in place.
MutMarkUsed(t) ==
    /\ At(t, "mark")
    /\ Save(req[t].key, req[t].caller)
    /\ Goto(t, "clock")
    /\ UNCHANGED <<limiterVars, arrived, revoker>>
\* mark_used: one UPDATE of last_used_at alone, a column nothing else reads.
MarkUsed(t) ==
    /\ At(t, "mark")
    /\ Goto(t, "clock")
    /\ UNCHANGED <<limiterVars, keys, arrived, revoker>>

LimitRead(t) ==
    /\ At(t, "clock")
    /\ ReadClock(t, req[t].key)
    /\ Goto(t, "check")
    /\ UNCHANGED <<keys, arrived, revoker>>

\* The lock of the limiter: a token, or 429.
LimitPass(t) ==
    /\ At(t, "check")
    /\ Check(t) /\ Allowed(t)
    /\ Goto(t, req[t].op)
    /\ UNCHANGED <<keys, arrived, revoker>>

LimitRefuse(t) ==
    /\ At(t, "check")
    /\ Check(t) /\ Exceeded(t)
    /\ Answer(t)
    /\ UNCHANGED <<keys, arrived, revoker>>
-----------------------------------------------------------------------------
(* The handlers *)

MayManage(row) == Manage \in row.scopes
\* authorize_key_revocation and authorize_key_view: keys:manage, or the key
\* that owns what is asked for.
MayActFor(t, owner) == MayManage(req[t].caller) \/ req[t].key = owner

\* create_api_key: authorize_key_management, then one insert.
Issue(t, k) ==
    /\ At(t, "issue")
    /\ MayManage(req[t].caller)
    /\ ~Issued(k)
    /\ Save(k, IssueChild(req[t].key, req[t].caller))
    /\ Answer(t)
    /\ UNCHANGED <<limiterVars, arrived, revoker>>

IssueDenied(t) ==
    /\ At(t, "issue")
    /\ ~MayManage(req[t].caller)
    /\ Answer(t)
    /\ UNCHANGED <<limiterVars, keys, arrived, revoker>>

\* RevokeApiKeyService: a missing key is 404, a key the caller has no right
\* over 403, a revoked one is left alone; otherwise the row goes to save().
RevokeRead(t) ==
    LET row == GetById(req[t].target, req[t].caller.tenant)
    IN  /\ At(t, "revoke")
        /\ IF row # None /\ MayActFor(t, row.issued_by) /\ ~row.revoked
           THEN req' = [req EXCEPT ![t].pc = "save",
                                   ![t].row = [row EXCEPT !.revoked = TRUE]]
           ELSE Answer(t)
        /\ UNCHANGED <<limiterVars, keys, arrived, revoker>>

RevokeSave(t) ==
    /\ At(t, "save")
    /\ Save(req[t].target, req[t].row)
    /\ revoker' = [revoker EXCEPT ![req[t].target] =
           [key |-> req[t].key, row |-> req[t].caller]]
    /\ Answer(t)
    /\ UNCHANGED <<limiterVars, arrived>>

\* ListIssuedApiKeysService: the issuer is loaded and the caller judged, then
\* the rows are read.
ListRead(t) ==
    LET row == GetById(req[t].target, req[t].caller.tenant)
    IN  /\ At(t, "list")
        /\ IF row # None /\ MayActFor(t, req[t].target)
           THEN Goto(t, "rows")
           ELSE Answer(t)
        /\ UNCHANGED <<limiterVars, keys, arrived, revoker>>

ListRows(t) ==
    /\ At(t, "rows")
    /\ req' = [req EXCEPT ![t].pc = "listed",
                          ![t].shown = {k \in Key : /\ GetById(k, req[t].caller.tenant) # None
                                                    /\ keys[k].issued_by = req[t].target}]
    /\ UNCHANGED <<limiterVars, keys, arrived, revoker>>

Listed(t) ==
    /\ At(t, "listed")
    /\ Answer(t)
    /\ UNCHANGED <<limiterVars, keys, arrived, revoker>>

\* CreateApiKeyService with a tenant and no issuer: scripts/issue_api_key.py.
Bootstrap(k, tenant, scopes) ==
    /\ ~Issued(k)
    /\ Save(k, NewKey(tenant, scopes, None))
    /\ UNCHANGED <<limiterVars, req, arrived, revoker>>
-----------------------------------------------------------------------------
Step(t) ==
    \/ Authenticate(t)
    \/ MarkUsed(t)
    \/ LimitRead(t)
    \/ LimitPass(t)
    \/ LimitRefuse(t)
    \/ \E k \in Key : Issue(t, k)
    \/ IssueDenied(t)
    \/ RevokeRead(t)
    \/ RevokeSave(t)
    \/ ListRead(t)
    \/ ListRows(t)
    \/ Listed(t)

Next ==
    \/ Tick /\ UNCHANGED <<keys, req, arrived, revoker>>
    \/ \E k \in Key, n \in Tenant, s \in SUBSET Scope : Bootstrap(k, n, s)
    \/ \E t \in Thread :
          \/ Step(t)
          \/ \E k \in Key : Arrive(t, k, "issue", None)
          \/ \E k, x \in Key, op \in {"revoke", "list"} : Arrive(t, k, op, x)

Spec == Init /\ [][Next]_vars
-----------------------------------------------------------------------------
\* A revocation is final: no later write of the row, by a request that read it
\* before it was revoked, brings the key back (RevokeApiKeyService, mark_used).
RevocationStands ==
    [][\A k \in Key : Issued(k) /\ keys[k].revoked => keys'[k].revoked]_vars

\* A request that arrives after its key was revoked is answered 401: it neither
\* counts against a bucket nor reaches a handler (AuthenticateApiKeyService).
RevokedKeyShutOut == \A t \in Thread : req[t].late => At(t, "auth")

\* Tenants are walled off and issuance is one level deep: a key is issued over
\* HTTP only by a bootstrapped key of its tenant that manages keys, and has no
\* scope, so it issues none; it is revoked by, and shown to, only a caller of its
\* own tenant that manages keys or issued it (issue_child, get_by_id,
\* list_issued_by, authorize_key_management).
TenantWalled ==
    /\ \A k \in Key : Issued(k) /\ keys[k].issued_by # None =>
          LET issuer == keys[keys[k].issued_by]
          IN  /\ issuer # None /\ issuer.issued_by = None
              /\ MayManage(issuer) /\ issuer.tenant = keys[k].tenant
              /\ keys[k].scopes = {}
    /\ \A k \in Key : Issued(k) /\ keys[k].revoked =>
          LET by == revoker[k]
          IN  /\ by # None
              /\ by.row.tenant = keys[k].tenant
              /\ MayManage(by.row) \/ by.key = keys[k].issued_by
    /\ \A t \in Thread : \A k \in req[t].shown :
          /\ keys[k].tenant = req[t].caller.tenant
          /\ MayManage(req[t].caller) \/ req[t].key = keys[k].issued_by
=============================================================================
