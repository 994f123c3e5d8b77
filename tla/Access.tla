------------------------------- MODULE Access -------------------------------
(***************************************************************************)
(* Who may do what: service accounts and their tokens                      *)
(* (core/use_cases/service_accounts.py), the bootstrap administrator       *)
(* (app/container.py), projects and their members (projects.py), roles     *)
(* and permissions (core/value_objects/security.py).                      *)
(*                                                                         *)
(* The hash of a token is nobody else's, unless it is BootToken, that of   *)
(* the settings.  Its expiry is a flag that time sets and no save clears,  *)
(* expires_at being written once.                                          *)
(***************************************************************************)
EXTENDS Repositories

CONSTANTS
    Accounts, Tokens, Projects, Names,
    BootName, BootToken     \* of the bootstrap administrator, from the settings: name, token hash

ASSUME AccessAssumption == None \notin Accounts \cup Projects \cup Names \cup {BootName, BootToken}

ReadPermissions ==
    {"network:read", "node:read", "ipam:read", "operation:read", "topology:read", "drift:read",
     "project:read"}

OperatorPermissions ==
    ReadPermissions \cup
    {"network:write", "network:apply", "node:write", "ipam:write", "project:write"}

AllPermissions ==
    OperatorPermissions \cup
    {"node:admin", "service_account:read", "service_account:write", "service_token:read",
     "service_token:write", "audit:read", "backup:export", "backup:import", "snapshot:read",
     "snapshot:write", "webhook:read", "webhook:write", "project:admin"}

RolePermissions ==
    [admin |-> AllPermissions, network_operator |-> OperatorPermissions,
     automation |-> OperatorPermissions, viewer |-> ReadPermissions]

Roles == DOMAIN RolePermissions

-----------------------------------------------------------------------------
(* Accounts and tokens. *)

AccountRows == [name : Names \cup {BootName}, role : Roles, disabled : BOOLEAN]
TokenRows ==
    [account : Accounts, hash : {BootToken, None}, expired : BOOLEAN, used : BOOLEAN, revoked : BOOLEAN]

Account(a) == Rows("accounts")[a]
Token(tk) == Rows("tokens")[tk]

AccountRow(name, role) == [name |-> name, role |-> role, disabled |-> FALSE]
TokenRow(account, hash) ==
    [account |-> account, hash |-> hash, expired |-> FALSE, used |-> FALSE, revoked |-> FALSE]

Named(name) == {a \in Ids("accounts") : Account(a).name = name}

CreateServiceAccount ==
    \E a \in FreshIds("accounts", Accounts), name \in Names, role \in Roles :
        /\ "accounts" \in DOMAIN db
        /\ Named(name) = {}
        /\ Handles({"accounts"}, <<Put("accounts", a, AccountRow(name, role))>>)

DisableServiceAccount ==
    \E a \in Ids("accounts") :
        Handles({"accounts"}, <<Put("accounts", a, [Account(a) EXCEPT !.disabled = TRUE])>>)

IssueServiceToken ==
    \E a \in Ids("accounts"), tk \in FreshIds("tokens", Tokens) :
        /\ ~ Account(a).disabled
        /\ Handles({"accounts"}, <<Put("tokens", tk, TokenRow(a, None))>>)

RevokeServiceToken ==
    \E tk \in Ids("tokens") :
        Handles({"tokens"}, <<Put("tokens", tk, [Token(tk) EXCEPT !.revoked = TRUE])>>)

\* Mutant: the account is not looked at.
ValidToken(tk) == ~ Token(tk).revoked /\ ~ Token(tk).expired

Valid(tk) ==
    /\ ~ Token(tk).revoked /\ ~ Token(tk).expired
    /\ Token(tk).account \in Ids("accounts")
    /\ ~ Account(Token(tk).account).disabled

\* Who is let in: last_used_at is saved with the rest of the row that was read.
AuthenticatePrincipal ==
    \E tk \in Ids("tokens") :
        /\ Valid(tk)
        /\ Handles({"tokens"}, <<Put("tokens", tk, [Token(tk) EXCEPT !.used = TRUE])>>)

\* Time passes expires_at; the bootstrap token has none.
Expire ==
    \E tk \in Ids("tokens") :
        /\ Token(tk).hash # BootToken /\ ~ Token(tk).expired
        /\ db' = [db EXCEPT !.tokens[tk].expired = TRUE]
        /\ UNCHANGED <<req, asked, late, files>>

IsKnownToken(hash) == \E tk \in Ids("tokens") : Token(tk).hash = hash

\* At start: the account when its name is not there, then the token when its
\* hash is not - a revoked one is.  Two controllers may start at once.
Bootstrap ==
    LET known == Named(BootName)
        boots == IF known # {} THEN known ELSE FreshIds("accounts", Accounts)
        account(a) == IF known # {} THEN <<>> ELSE <<Put("accounts", a, AccountRow(BootName, "admin"))>>
    IN /\ "accounts" \in DOMAIN db
       /\ ~ IsKnownToken(BootToken)
       /\ \E a \in boots, tk \in FreshIds("tokens", Tokens) :
            Handles({"accounts", "tokens"}, Append(account(a), Put("tokens", tk, TokenRow(a, BootToken))))

-----------------------------------------------------------------------------
(* Projects. *)

ProjectRows == [slug : Names, labels : 0 .. 1]
ProjectMemberRows == [project : Projects, account : Accounts]

Project(p) == Rows("projects")[p]
ProjectMember(k) == Rows("members")[k]

NewProject(slug) == [slug |-> slug, labels |-> 0]
NewMember(p, a) == [project |-> p, account |-> a]

CreateProject ==
    \E p \in FreshIds("projects", Projects), slug \in Names :
        /\ "projects" \in DOMAIN db
        /\ ~ \E o \in Ids("projects") : Project(o).slug = slug
        /\ Handles({"projects"}, <<Put("projects", p, NewProject(slug))>>)

\* The slug is never updated, a name, a description or labels are.
UpdateProject ==
    \E p \in Ids("projects"), labels \in 0 .. 1 :
        Handles({"projects"}, <<Put("projects", p, [Project(p) EXCEPT !.labels = labels])>>)

DeleteProject == \E p \in Ids("projects") : Handles({"projects"}, <<Drop("projects", p)>>)

AddProjectMember ==
    \E p \in Ids("projects"), a \in Ids("accounts") :
        Handles({"projects", "accounts"}, <<Put("members", <<p, a>>, NewMember(p, a))>>)

RemoveProjectMember ==
    \E k \in Ids("members") :
        /\ ProjectMember(k).project \in Ids("projects")
        /\ Handles({"projects", "members"}, <<Drop("members", k)>>)

AccessNext ==
    \/ CreateServiceAccount \/ DisableServiceAccount \/ IssueServiceToken \/ RevokeServiceToken
    \/ AuthenticatePrincipal \/ Expire \/ Bootstrap
    \/ CreateProject \/ UpdateProject \/ DeleteProject \/ AddProjectMember \/ RemoveProjectMember

-----------------------------------------------------------------------------
(* Properties. *)

\* Every token has its account and every member its project, however creates
\* and deletes overlap, and no two accounts or projects share their name: the
\* checks are made before an await (service_accounts.py:95, projects.py:79)
\* and the constraints of the tables decide.
AccessTypeOK ==
    /\ \A tk \in Ids("tokens") : Token(tk) \in TokenRows /\ Token(tk).account \in Ids("accounts")
    /\ \A k \in Ids("members") : ProjectMember(k) \in ProjectMemberRows /\ ProjectMember(k).project \in Ids("projects")
    /\ \A a \in Ids("accounts") : Account(a) \in AccountRows /\ Named(Account(a).name) = {a}
    /\ \A p, o \in Ids("projects") : Project(p) \in ProjectRows /\ (Project(p).slug = Project(o).slug => p = o)

\* Request q was let in with token tk and has still to save it as it was then.
Restores(q, tk) ==
    req[q] # Idle /\ \E k \in DOMAIN req[q].work :
        LET w == req[q].work[k]
        IN w.kind = "save" /\ w.table = "tokens" /\ w.id = tk /\ ~ w.row.revoked

\* Revoking a token does not always last: whoever had been let in with it before
\* saves the whole row to note the time and puts it in force again
\* (service_accounts.py:294).  That is the one way: no request, issue or restart
\* brings it back, no request that begins once it is revoked will, and so it is
\* out for good when those of before have ended.  A lost database forgets it,
\* and the bootstrap issues its token again.
RevocationHolds ==
    [][\A tk \in Ids("tokens") :
         Token(tk).revoked /\ ~ (\A t \in DOMAIN db : Ids(t)' = {}) =>
            /\ \A q \in Requests : Restores(q, tk)' => Restores(q, tk)
            /\ \/ tk \in Ids("tokens")' /\ Token(tk)'.revoked
               \/ \E q \in Requests : Writes(q) /\ Restores(q, tk)]_storeVars

\* A disabled account never gets in again, with any token it had or is still
\* issued by a request that had seen it active; not even a stale save helps.
DisabledIsFinal ==
    [][\A a \in Ids("accounts") :
         Account(a).disabled =>
            \A tk \in Ids("tokens")' : Token(tk)'.account = a => ~ Valid(tk)']_storeVars

=============================================================================
