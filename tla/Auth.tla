-------------------------------- MODULE Auth --------------------------------
(***************************************************************************)
(* Authentication: API keys and admin tokens, the verify cache of          *)
(* crates/marmotte-core/src/auth.rs, and the two middlewares with the      *)
(* authorization of the cache routes, while projects are renamed, deleted  *)
(* and created again and credentials are revoked.                          *)
(*                                                                         *)
(* The two credential tables are one table here: an admin token is a row   *)
(* owned by ADMIN.  Secrets are random and never drawn twice, so a secret  *)
(* is named by the row it was minted for; its SHA-256 lookup finds that    *)
(* row, and argon2 accepts it there.  The cryptography is left out.  A     *)
(* request whose header does not parse is refused before it reads any      *)
(* state, and is left out too.                                             *)
(***************************************************************************)
EXTENDS Integers

CONSTANTS
    Name,           \* project names
    Request,        \* concurrent requests
    MaxProjectId,   \* bound: project rows ever created
    MaxCredId,      \* bound: API keys and admin tokens ever minted
    MaxTime,        \* bound on the clock
    CacheTtl,       \* auth.verify_cache_ttl_secs
    ADMIN,          \* the cache scope "admin", and the owner of admin tokens
    NULL

ASSUME AuthAssumption ==
    /\ {MaxProjectId, MaxCredId, MaxTime, CacheTtl} \subseteq Nat
    /\ ADMIN \notin Name \cup (1..MaxProjectId)
    /\ NULL \notin Name \cup {ADMIN} \cup (0..MaxTime)

ProjectId == 1..MaxProjectId

CredId == 1..MaxCredId

Scope == Name \cup {ADMIN}

Owner == ProjectId \cup {ADMIN}

Role == {"read", "write"}

(* Role::allows_read and Role::allows_write. *)
Allows(role, op) == op = "read" \/ role = "write"

VARIABLES
    now,            \* the clock
    projects,       \* [ProjectId -> name or NULL]
    nextProject,    \* AUTOINCREMENT sequence of projects
    creds,          \* [CredId -> row of api_keys or admin_tokens, or NULL]
    nextCred,       \* their sequence
    cache,          \* [Scope \X CredId -> verified identity or NULL]
    req,            \* [Request -> the request's progress]
    answer,         \* the request the last step answered, or NULL
    valid,          \* history: the credential was valid ever since the request began
    lapsed,         \* history: when a pair (name, secret) last ceased to be valid
    minted,         \* history: [CredId -> whom a secret was given to, or NULL]
    outlived        \* history: secrets whose project was deleted after they were minted

authTables == <<projects, nextProject, creds, nextCred>>

authVars == <<now, authTables, cache, req, answer, valid, lapsed, minted, outlived>>

(* ProjectAuth and AdminAuth.  "took" is a history: how long the request    *)
(* that verified the credential had been running.                          *)
Identity == [project_id : Owner, project_name : Scope, role : Role, took : 0..MaxTime]

(* Of revoked_at the code only asks whether it is NULL. *)
CredRow == [owner : Owner, role : Role, revoked : BOOLEAN]

(* What a secret was minted as, which nothing takes back. *)
Grant == [owner : Owner, role : Role]

ASSUME IdentityAssumption == NULL \notin Identity /\ NULL \notin Grant

CacheEntry == [auth : Identity, at : 0..MaxTime]

InProgress == {"cache", "project", "key", "verify"}

ReqIdle == [pc |-> "idle", scope |-> NULL, secret |-> NULL, url |-> NULL, op |-> NULL,
            began |-> 0, project |-> NULL, role |-> NULL]

LiveProjects == {p \in ProjectId : projects[p] # NULL}

(* find_active_by_lookup of ApiKeys and of AdminTokens. *)
Active(owner, s) ==
    creds[s] # NULL /\ creds[s].owner = owner /\ ~creds[s].revoked

(* The pair (name, secret) is a credential of the project of that name now, *)
(* or the secret is an admin token.                                         *)
Valid(n, s) ==
    \/ n = ADMIN /\ Active(ADMIN, s)
    \/ \E p \in LiveProjects : projects[p] = n /\ Active(p, s)

(* The history variables, which every action updates. *)
History ==
    /\ lapsed' = [k \in Scope \X CredId |->
                     IF Valid(k[1], k[2])' THEN NULL
                     ELSE IF Valid(k[1], k[2]) THEN now ELSE lapsed[k]]
    /\ valid' = [r \in Request |->
                    /\ req'[r].pc \in InProgress
                    /\ req[r].pc \in InProgress => valid[r]
                    /\ \E k \in Scope \X CredId :
                          /\ k = <<req'[r].scope, req'[r].secret>>
                          /\ Valid(k[1], k[2])']
    /\ minted' = [s \in CredId |->
                     IF minted[s] # NULL \/ creds'[s] = NULL THEN minted[s]
                     ELSE [owner |-> creds'[s].owner, role |-> creds'[s].role]]
    /\ outlived' = outlived \cup
          {s \in CredId : minted'[s] # NULL /\ minted'[s].owner \notin LiveProjects' \cup {ADMIN}}

-----------------------------------------------------------------------------
(* The admin routes *)

(* Mutant of CreateProject: the id of a deleted row is drawn again, as        *)
(* without AUTOINCREMENT.                                                    *)
CreateProjectReusesId(n) ==
    /\ \A p \in LiveProjects : projects[p] # n
    /\ \E p \in ProjectId \ LiveProjects :
          /\ p <= nextProject
          /\ projects' = [projects EXCEPT ![p] = n]
          /\ nextProject' = IF p = nextProject THEN p + 1 ELSE nextProject
    /\ UNCHANGED <<now, creds, nextCred, cache, req>> /\ answer' = NULL
    /\ History

(* Projects::create *)
CreateProject(n) ==
    /\ nextProject \in ProjectId
    /\ \A p \in LiveProjects : projects[p] # n
    /\ projects' = [projects EXCEPT ![nextProject] = n]
    /\ nextProject' = nextProject + 1
    /\ UNCHANGED <<now, creds, nextCred, cache, req>> /\ answer' = NULL
    /\ History

(* Projects::update with a new name; the cache is left alone. *)
RenameProject(p, n) ==
    /\ p \in LiveProjects
    /\ \A q \in LiveProjects : projects[q] # n
    /\ projects' = [projects EXCEPT ![p] = n]
    /\ UNCHANGED <<now, nextProject, creds, nextCred, cache, req>> /\ answer' = NULL
    /\ History

(* Mutant of DeleteProject: the keys stay, as without foreign_keys. *)
DeleteProjectNoCascade(p) ==
    /\ p \in LiveProjects
    /\ projects' = [projects EXCEPT ![p] = NULL]
    /\ UNCHANGED <<now, nextProject, creds, nextCred, cache, req>> /\ answer' = NULL
    /\ History

(* Projects::delete: its keys go by cascade; the cache is left alone. *)
DeleteProject(p) ==
    /\ p \in LiveProjects
    /\ projects' = [projects EXCEPT ![p] = NULL]
    /\ creds' = [s \in CredId |->
                    IF creds[s] # NULL /\ creds[s].owner = p THEN NULL ELSE creds[s]]
    /\ UNCHANGED <<now, nextProject, nextCred, cache, req>> /\ answer' = NULL
    /\ History

(* keys::create: the project must exist, by projects().get and again by    *)
(* the foreign key of the row.                                             *)
MintKey(p, role) ==
    /\ nextCred \in CredId
    /\ p \in LiveProjects
    /\ creds' = [creds EXCEPT ![nextCred] = [owner |-> p, role |-> role, revoked |-> FALSE]]
    /\ nextCred' = nextCred + 1
    /\ UNCHANGED <<now, projects, nextProject, cache, req>> /\ answer' = NULL
    /\ History

(* tokens::create and marmotte init *)
MintToken ==
    /\ nextCred \in CredId
    /\ creds' = [creds EXCEPT ![nextCred] =
                    [owner |-> ADMIN, role |-> "write", revoked |-> FALSE]]
    /\ nextCred' = nextCred + 1
    /\ UNCHANGED <<now, projects, nextProject, cache, req>> /\ answer' = NULL
    /\ History

RevokeRow(owner, s) ==
    /\ Active(owner, s)
    /\ creds' = [creds EXCEPT ![s].revoked = TRUE]
    /\ UNCHANGED <<now, projects, nextProject, nextCred, cache, req>> /\ answer' = NULL
    /\ History

(* keys::revoke: NotFound unless the row is an active key of the project    *)
(* in the path.                                                             *)
RevokeKey(p, s) == RevokeRow(p, s)

(* tokens::revoke: NotFound unless the row is an active token. *)
RevokeToken(s) == RevokeRow(ADMIN, s)

-----------------------------------------------------------------------------
(* Requests *)

Advance(r, pc) == req' = [req EXCEPT ![r].pc = pc] /\ answer' = NULL

(* The request is over: "outcome" is granted, denied or failed, the last    *)
(* two perhaps because something else failed ("fault").                     *)
Answer(r, outcome, auth, fault) ==
    /\ req' = [req EXCEPT ![r] = ReqIdle]
    /\ answer' = [pc |-> outcome, scope |-> req[r].scope, secret |-> req[r].secret,
                  url |-> req[r].url, op |-> req[r].op,
                  auth |-> auth, fault |-> fault, valid |-> valid[r]]

Refuse(r) == Answer(r, "denied", NULL, FALSE)

(* A request arrives with the user name "scope" and a secret it was once    *)
(* given; "url" is the project segment of its path.  The admin middleware   *)
(* reads no user name and its routes no project.                            *)
ReqStart(r, scope, s, url, op) ==
    /\ req[r].pc \notin InProgress
    /\ s < nextCred
    /\ scope = ADMIN <=> url = ADMIN
    /\ req' = [req EXCEPT ![r] = [pc |-> "cache", scope |-> scope, secret |-> s, url |-> url,
                                  op |-> op, began |-> now, project |-> NULL, role |-> NULL]]
    /\ answer' = NULL
    /\ UNCHANGED <<now, authTables, cache>>
    /\ History

(* What the routes do with the identity the middleware attaches:            *)
(* ensure_project and the role; the admin routes ask nothing more.          *)
Decide(r, auth) ==
    Answer(r, IF \/ auth.project_id = ADMIN
                 \/ /\ auth.project_name = req[r].url
                    /\ Allows(auth.role, req[r].op)
              THEN "granted" ELSE "denied", auth, FALSE)

(* moka's time_to_live: an entry older than CacheTtl is not returned. *)
Fresh(k) == cache[k] # NULL /\ now < cache[k].at + CacheTtl

CacheKey(r) == <<req[r].scope, req[r].secret>>

Miss(r) == Advance(r, IF req[r].scope = ADMIN THEN "key" ELSE "project")

(* Mutant of CacheGet: a hit starts a new time to live (time_to_idle). *)
CacheGetRefreshes(r) ==
    /\ req[r].pc = "cache"
    /\ IF Fresh(CacheKey(r))
       THEN /\ Decide(r, cache[CacheKey(r)].auth)
            /\ cache' = [cache EXCEPT ![CacheKey(r)].at = now]
       ELSE Miss(r) /\ UNCHANGED cache
    /\ UNCHANGED <<now, authTables>>
    /\ History

(* Mutant of CacheGet: the key of the cache leaves out the scope. *)
CacheGetUnscoped(r) ==
    /\ req[r].pc = "cache"
    /\ LET hits == {k \in Scope \X {req[r].secret} : Fresh(k)} IN
       IF hits # {} THEN \E k \in hits : Decide(r, cache[k].auth) ELSE Miss(r)
    /\ UNCHANGED <<now, authTables, cache>>
    /\ History

(* VerifyCache::get_or_insert, first half *)
CacheGet(r) ==
    /\ req[r].pc = "cache"
    /\ IF Fresh(CacheKey(r)) THEN Decide(r, cache[CacheKey(r)].auth) ELSE Miss(r)
    /\ UNCHANGED <<now, authTables, cache>>
    /\ History

(* projects().get_by_name *)
ProjectLookup(r) ==
    /\ req[r].pc = "project"
    /\ LET found == {p \in LiveProjects : projects[p] = req[r].scope} IN
       IF found = {} THEN Refuse(r)
       ELSE \E p \in found :
               req' = [req EXCEPT ![r].pc = "key", ![r].project = p] /\ answer' = NULL
    /\ UNCHANGED <<now, authTables, cache>>
    /\ History

(* ... whose every error, a failed query too, is mapped to Unauthorized. *)
ProjectLookupFails(r) ==
    /\ req[r].pc = "project"
    /\ Answer(r, "denied", NULL, TRUE)
    /\ UNCHANGED <<now, authTables, cache>>
    /\ History

(* Whose row a request looks for: that of the project found, or a token. *)
Wanted(r) == IF req[r].scope = ADMIN THEN ADMIN ELSE req[r].project

(* The row found is kept for the argon2 check and the identity. *)
RowFound(r) ==
    /\ req' = [req EXCEPT ![r].pc = "verify", ![r].role = creds[req[r].secret].role]
    /\ answer' = NULL

(* find_active_by_lookup *)
KeyLookup(r) ==
    /\ req[r].pc = "key"
    /\ IF Active(Wanted(r), req[r].secret) THEN RowFound(r) ELSE Refuse(r)
    /\ UNCHANGED <<now, authTables, cache>>
    /\ History

(* verify_argon2_async has run on the row found before, which may have been *)
(* revoked or deleted since; the identity is cached from now on.            *)
CacheInsert(r) ==
    /\ req[r].pc = "verify"
    /\ LET auth == [project_id |-> Wanted(r), project_name |-> req[r].scope,
                    role |-> req[r].role, took |-> now - req[r].began] IN
       /\ cache' = [cache EXCEPT ![CacheKey(r)] = [auth |-> auth, at |-> now]]
       /\ Decide(r, auth)
    /\ UNCHANGED <<now, authTables>>
    /\ History

(* The key lookup or the blocking task fails, or the request is cancelled:  *)
(* nothing is cached.                                                       *)
ReqFails(r) ==
    /\ req[r].pc \in InProgress
    /\ Answer(r, "failed", NULL, TRUE)
    /\ UNCHANGED <<now, authTables, cache>>
    /\ History

ReqStep(r) ==
    \/ CacheGet(r)
    \/ ProjectLookup(r) \/ ProjectLookupFails(r)
    \/ KeyLookup(r)
    \/ CacheInsert(r)
    \/ ReqFails(r)

-----------------------------------------------------------------------------
(* moka drops an entry at its capacity. *)
CacheEvict(k) ==
    /\ cache[k] # NULL
    /\ cache' = [cache EXCEPT ![k] = NULL]
    /\ UNCHANGED <<now, authTables, req>> /\ answer' = NULL
    /\ History

(* The process restarts with empty caches (AuthSvc::new). *)
Restart ==
    /\ cache' = [k \in Scope \X CredId |-> NULL]
    /\ req' = [r \in Request |-> ReqIdle]
    /\ UNCHANGED <<now, authTables>> /\ answer' = NULL
    /\ History

(* Time passes, and moka drops what has expired. *)
ClockTick ==
    /\ now < MaxTime
    /\ now' = now + 1
    /\ cache' = [k \in Scope \X CredId |->
                    IF cache[k] # NULL /\ now' < cache[k].at + CacheTtl THEN cache[k] ELSE NULL]
    /\ UNCHANGED <<authTables, req>> /\ answer' = NULL
    /\ History

AuthInit ==
    /\ now = 0
    /\ projects = [p \in ProjectId |-> NULL] /\ nextProject = 1
    /\ creds = [s \in CredId |-> NULL] /\ nextCred = 1
    /\ cache = [k \in Scope \X CredId |-> NULL]
    /\ req = [r \in Request |-> ReqIdle] /\ answer = NULL
    /\ valid = [r \in Request |-> FALSE]
    /\ lapsed = [k \in Scope \X CredId |-> NULL]
    /\ minted = [s \in CredId |-> NULL] /\ outlived = {}

AdminStep ==
    \/ \E n \in Name : CreateProject(n)
    \/ \E p \in ProjectId, n \in Name : RenameProject(p, n)
    \/ \E p \in ProjectId : DeleteProject(p)
    \/ \E p \in ProjectId, role \in Role : MintKey(p, role)
    \/ MintToken
    \/ \E p \in ProjectId, s \in CredId : RevokeKey(p, s)
    \/ \E s \in CredId : RevokeToken(s)

AuthNext ==
    \/ AdminStep
    \/ \E r \in Request, n, u \in Scope, s \in CredId, op \in Role : ReqStart(r, n, s, u, op)
    \/ \E r \in Request : ReqStep(r)
    \/ \E k \in Scope \X CredId : CacheEvict(k)
    \/ Restart
    \/ ClockTick

AuthSpec == AuthInit /\ [][AuthNext]_authVars

-----------------------------------------------------------------------------
(* Types; and every key belongs to a project that exists, as the foreign    *)
(* key of api_keys with its cascade promises.                               *)
AuthTypeOK ==
    /\ now \in 0..MaxTime
    /\ projects \in [ProjectId -> Name \cup {NULL}] /\ nextProject \in 1..(MaxProjectId + 1)
    /\ creds \in [CredId -> CredRow \cup {NULL}] /\ nextCred \in 1..(MaxCredId + 1)
    /\ cache \in [Scope \X CredId -> CacheEntry \cup {NULL}]
    /\ \A r \in Request : req[r].pc \in {"idle"} \cup InProgress
    /\ answer # NULL => /\ answer.pc \in {"granted", "denied", "failed"}
                        /\ answer.auth \in Identity \cup {NULL}
    /\ minted \in [CredId -> Grant \cup {NULL}] /\ outlived \subseteq CredId
    /\ \A s \in CredId : creds[s] # NULL => creds[s].owner \in LiveProjects \cup {ADMIN}

Granted == answer # NULL /\ answer.pc = "granted"

Denied == answer # NULL /\ answer.pc = "denied"

(* A granted request acts as the project its secret was minted for and with *)
(* the role it was minted with, even if that row has gone since; and if the *)
(* project it acts on exists, it is that same one: none that was created    *)
(* after the deletion, under the old name or any other, is ever reached by  *)
(* an identity verified or cached before (authenticate_project,             *)
(* authenticate_admin, Projects::create).                                   *)
GrantsAreBacked ==
    Granted => LET given == minted[answer.secret] IN
               /\ given # NULL
               /\ given.owner = answer.auth.project_id
               /\ given.role = answer.auth.role
               /\ given.owner \in LiveProjects => answer.secret \notin outlived

(* A request is refused only if its credential was not valid at some moment *)
(* of the request (401), or it asked for another project's path or for more *)
(* than its role allows (403): neither the cache nor a race refuses a good  *)
(* credential.  (A failed query for the project does, as a fault.)          *)
DeniedOnlyIfInvalid ==
    Denied /\ ~answer.fault =>
        IF answer.auth = NULL THEN ~answer.valid
        ELSE answer.url # answer.scope \/ ~Allows(answer.auth.role, answer.op)

(* The secret of the answer has not been a credential of the project the    *)
(* URL names for more than "bound".  A pair that never was valid has no     *)
(* time at which it lapsed.                                                 *)
LagExceeds(bound) ==
    LET k == <<answer.url, answer.secret>> IN
    ~Valid(k[1], k[2]) /\ (lapsed[k] = NULL \/ now > lapsed[k] + bound)

(* What the cache costs: a request is granted only if its secret belonged   *)
(* to the project the URL names, and was not revoked, at most one time to   *)
(* live before, plus the time the request that filled the cache took.       *)
(* Revocation, deletion and renaming all take effect within that time.      *)
RevocationLagBounded == Granted => ~LagExceeds(CacheTtl + answer.auth.took)
=============================================================================
