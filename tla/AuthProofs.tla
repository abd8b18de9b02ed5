----------------------------- MODULE AuthProofs -----------------------------
(***************************************************************************)
(* Proofs about Auth for every number of concurrent requests, projects and *)
(* credentials, every clock and every time to live of the cache.           *)
(***************************************************************************)
EXTENDS Auth, TLAPS

(* The pair (n, s) is valid, or was until some moment not before t. *)
ValidSince(n, s, t) ==
    Valid(n, s) \/ (lapsed[<<n, s>>] # NULL /\ lapsed[<<n, s>>] >= t)

ReqRow == [pc : {"idle"} \cup InProgress, scope : Scope \cup {NULL},
           secret : CredId \cup {NULL}, url : Scope \cup {NULL}, op : Role \cup {NULL},
           began : 0..MaxTime, project : ProjectId \cup {NULL}, role : Role \cup {NULL}]

(* AuthTypeOK with the types of the requests and of the histories. *)
Types ==
    /\ AuthTypeOK
    /\ req \in [Request -> ReqRow]
    /\ valid \in [Request -> BOOLEAN]
    /\ lapsed \in [Scope \X CredId -> (0..MaxTime) \cup {NULL}]

(* UNIQUE(name) of the projects table. *)
UniqueNames == \A p, q \in LiveProjects : projects[p] = projects[q] => p = q

(* Secret s was minted for o with that role. *)
RowIs(s, o, role) == minted[s] # NULL /\ minted[s].owner = o /\ minted[s].role = role

(* Rows are what they were minted as, and no project that exists now had the *)
(* id of one that a secret has outlived: ids are drawn from a sequence.      *)
MintOK ==
    /\ \A p \in LiveProjects : p < nextProject
    /\ \A s \in CredId : creds[s] # NULL => RowIs(s, creds[s].owner, creds[s].role)
    /\ \A s \in outlived : minted[s] # NULL
    /\ \A s \in CredId : minted[s] # NULL =>
          /\ s < nextCred
          /\ minted[s].owner # ADMIN => minted[s].owner < nextProject
          /\ minted[s].owner \in LiveProjects => s \notin outlived

(* What a request in progress has established so far. *)
ReqShape(r) ==
    LET q == req[r] IN
    /\ q.scope \in Scope /\ q.url \in Scope /\ q.secret \in CredId
    /\ q.op \in Role
    /\ q.secret < nextCred
    /\ q.scope = ADMIN <=> q.url = ADMIN
    /\ q.began <= now
    /\ q.pc = "project" => q.scope # ADMIN
    /\ q.pc \in {"key", "verify"} /\ q.scope # ADMIN => q.project \in ProjectId
    /\ q.pc = "verify" => q.role \in Role

ReqKnows(r) ==
    LET q == req[r] IN
    /\ valid[r] => Valid(q.scope, q.secret)
    /\ q.pc = "key" /\ q.scope # ADMIN =>
          /\ valid[r] => Active(q.project, q.secret)
          /\ Active(q.project, q.secret) => ValidSince(q.scope, q.secret, q.began)
    /\ q.pc = "verify" =>
          /\ RowIs(q.secret, Wanted(r), q.role)
          /\ ValidSince(q.scope, q.secret, q.began)

ReqOK(r) == req[r].pc \in InProgress => ReqShape(r) /\ ReqKnows(r)

(* What an entry of the verify cache stands for. *)
EntryOK(n, s) ==
    LET e == cache[<<n, s>>] IN
    e # NULL =>
        /\ s < nextCred
        /\ e.at <= now /\ e.auth.took <= e.at
        /\ e.auth.project_name = n
        /\ e.auth.project_id = ADMIN <=> n = ADMIN
        /\ RowIs(s, e.auth.project_id, e.auth.role)
        /\ ValidSince(n, s, e.at - e.auth.took)

(* The inductive invariant. *)
AuthInv ==
    /\ Types
    /\ UniqueNames
    /\ MintOK
    /\ \A r \in Request : ReqOK(r)
    /\ \A n \in Scope, s \in CredId : EntryOK(n, s)

(* What the answer of the last step promises. *)
AnswerOK == GrantsAreBacked /\ DeniedOnlyIfInvalid /\ RevocationLagBounded

-----------------------------------------------------------------------------
(* Rows of the credential tables are never handed to another owner, given   *)
(* another role or un-revoked, and the sequence and the clock only advance. *)
Aged ==
    /\ nextCred <= nextCred' /\ now <= now'
    /\ \A s \in CredId : s < nextCred /\ creds'[s] # NULL =>
          /\ creds[s] # NULL
          /\ creds'[s].owner = creds[s].owner /\ creds'[s].role = creds[s].role
          /\ ~creds'[s].revoked => ~creds[s].revoked

(* No step of the admin API or of a request does otherwise. *)
LEMMA RowsAge == Types /\ [AuthNext]_authVars => Aged
<1> SUFFICES ASSUME Types, [AuthNext]_authVars PROVE Aged
  OBVIOUS
<1> USE DEF Types, AuthTypeOK, Aged
<1>1. nextCred \in Nat /\ now \in Nat
  BY AuthAssumption
<1>2. ASSUME creds' = creds, nextCred' = nextCred, now' = now PROVE Aged
  BY <1>1, <1>2
<1>3. ASSUME NEW n \in Name, CreateProject(n) PROVE Aged
  BY <1>2, <1>3 DEF CreateProject
<1>4. ASSUME NEW p \in ProjectId, NEW n \in Name, RenameProject(p, n) PROVE Aged
  BY <1>2, <1>4 DEF RenameProject
<1>5. ASSUME NEW p \in ProjectId, DeleteProject(p) PROVE Aged
  BY <1>1, <1>5 DEF DeleteProject
<1>6. ASSUME NEW row, creds' = [creds EXCEPT ![nextCred] = row], nextCred' = nextCred + 1, now' = now
      PROVE  Aged
  BY <1>1, <1>6
<1>7. ASSUME NEW p \in ProjectId, NEW role \in Role, MintKey(p, role) PROVE Aged
  BY <1>6, <1>7 DEF MintKey
<1>8. CASE MintToken
  BY <1>6, <1>8 DEF MintToken
<1>9. ASSUME NEW o \in Owner, NEW s \in CredId, RevokeRow(o, s) PROVE Aged
  <2>1. creds[s] \in CredRow /\ creds' = [creds EXCEPT ![s].revoked = TRUE]
    BY <1>9 DEF RevokeRow, Active
  <2>2. creds'[s].owner = creds[s].owner /\ creds'[s].role = creds[s].role
    BY <2>1 DEF CredRow
  <2>3. creds'[s].revoked = TRUE
    BY <2>1 DEF CredRow
  <2>4. creds[s] # NULL
    BY <1>9 DEF RevokeRow, Active
  <2>5. \A t \in CredId \ {s} : creds'[t] = creds[t]
    BY <2>1
  <2> QED
    BY <1>1, <1>9, <2>2, <2>3, <2>4, <2>5 DEF RevokeRow
<1>11. ASSUME NEW r \in Request, NEW n \in Scope, NEW u \in Scope, NEW s \in CredId,
              NEW op \in Role, ReqStart(r, n, s, u, op)
       PROVE  Aged
  BY <1>2, <1>11 DEF ReqStart, authTables
<1>12. ASSUME NEW r \in Request, ReqStep(r) PROVE Aged
  BY <1>2, <1>12 DEF ReqStep, CacheGet, ProjectLookup, ProjectLookupFails, KeyLookup,
                     CacheInsert, ReqFails, authTables
<1>13. ASSUME NEW k \in Scope \X CredId, CacheEvict(k) PROVE Aged
  BY <1>2, <1>13 DEF CacheEvict, authTables
<1>14. CASE Restart
  BY <1>2, <1>14 DEF Restart, authTables
<1>15. CASE ClockTick
  BY <1>1, <1>15 DEF ClockTick, authTables
<1>16. CASE UNCHANGED authVars
  BY <1>2, <1>16 DEF authVars, authTables
<1>17. CASE \E s \in CredId : RevokeToken(s)
  BY <1>9, <1>17 DEF RevokeToken, Owner
<1>18. CASE \E p \in ProjectId, s \in CredId : RevokeKey(p, s)
  BY <1>9, <1>18 DEF RevokeKey, Owner
<1> QED
  BY <1>3, <1>4, <1>5, <1>7, <1>8, <1>11, <1>12, <1>13, <1>14, <1>15, <1>16, <1>17, <1>18
  DEF AuthNext, AdminStep

(* The histories keep their types. *)
LEMMA HistoryTypes ==
    ASSUME Types, History
    PROVE  /\ valid' \in [Request -> BOOLEAN]
           /\ lapsed' \in [Scope \X CredId -> (0..MaxTime) \cup {NULL}]
           /\ creds' \in [CredId -> CredRow \cup {NULL}] =>
                 minted' \in [CredId -> Grant \cup {NULL}] /\ outlived' \subseteq CredId
<1>1. valid' \in [Request -> BOOLEAN]
  BY DEF History
<1>2. lapsed' \in [Scope \X CredId -> (0..MaxTime) \cup {NULL}]
  BY DEF History, Types, AuthTypeOK
<1>3. ASSUME creds' \in [CredId -> CredRow \cup {NULL}]
      PROVE  minted' \in [CredId -> Grant \cup {NULL}] /\ outlived' \subseteq CredId
  <2>1. \A s \in CredId : creds'[s] # NULL => creds'[s].owner \in Owner /\ creds'[s].role \in Role
    BY <1>3 DEF CredRow
  <2> QED
    BY <2>1 DEF History, Types, AuthTypeOK, Grant
<1> QED
  BY <1>1, <1>2, <1>3

(* A pair that was valid at some moment since t still was, whatever step is *)
(* taken: when it ceases to be valid the time is noted.                     *)
LEMMA StillValidSince ==
    ASSUME Types, History, NEW n \in Scope, NEW s \in CredId, NEW t \in Int, t <= now,
           ValidSince(n, s, t)
    PROVE  ValidSince(n, s, t)'
<1>1. <<n, s>> \in Scope \X CredId
  OBVIOUS
<1>2. lapsed'[<<n, s>>] = IF Valid(n, s)' THEN NULL
                          ELSE IF Valid(n, s) THEN now ELSE lapsed[<<n, s>>]
  BY <1>1 DEF History
<1>3. now # NULL
  BY AuthAssumption DEF Types, AuthTypeOK
<1> QED
  BY <1>2, <1>3 DEF ValidSince

(* While valid'[r] says so the pair of the request is valid, and was before. *)
LEMMA ValidHistory ==
    ASSUME History, NEW r \in Request, valid'[r]
    PROVE  /\ req'[r].pc \in InProgress
           /\ req[r].pc \in InProgress => valid[r]
           /\ Valid(req[r].scope, req[r].secret)'
<1>1. /\ req'[r].pc \in InProgress
      /\ req[r].pc \in InProgress => valid[r]
      /\ \E k \in Scope \X CredId :
            /\ k = <<req'[r].scope, req'[r].secret>>
            /\ Valid(k[1], k[2])'
  BY DEF History
<1>2. PICK k \in Scope \X CredId : k = <<req'[r].scope, req'[r].secret>> /\ Valid(k[1], k[2])'
  BY <1>1
<1>3. k[1] = req'[r].scope /\ k[2] = req'[r].secret
  BY <1>2
<1> QED
  BY <1>1, <1>2, <1>3 DEF Valid, Active, LiveProjects

(* A row that is active was active, and belonged to the same owner. *)
LEMMA ActiveBefore ==
    ASSUME Aged, NEW s \in CredId, s < nextCred, NEW o, Active(o, s)'
    PROVE  Active(o, s)
  BY DEF Aged, Active

(* What a secret was minted as it stays, whatever becomes of its row. *)
LEMMA RowIsKept ==
    ASSUME History, NEW s \in CredId, NEW o, NEW role, RowIs(s, o, role)
    PROVE  RowIs(s, o, role)'
<1>1. minted'[s] = minted[s]
  BY DEF History, RowIs
<1> QED
  BY <1>1 DEF RowIs

(* A project that exists after a step existed before or has just drawn the   *)
(* next id; a row that was not there before has drawn the next id, and its   *)
(* owner exists.                                                             *)
TablesMove ==
    /\ nextProject' \in {nextProject, nextProject + 1}
    /\ \A p \in LiveProjects' :
          p \in LiveProjects \/ (p = nextProject /\ nextProject' = nextProject + 1)
    /\ \A s \in CredId : creds'[s] # NULL /\ creds[s] = NULL =>
          /\ s = nextCred /\ nextCred' = nextCred + 1
          /\ creds'[s].owner \in LiveProjects' \cup {ADMIN}
    /\ \A s \in CredId : creds'[s] # NULL /\ creds[s] # NULL /\ s # nextCred =>
          creds'[s].owner = creds[s].owner /\ creds'[s].role = creds[s].role

(* No step of the admin API or of a request does otherwise. *)
LEMMA StepTablesMove == Types /\ [AuthNext]_authVars => TablesMove
<1> SUFFICES ASSUME Types, [AuthNext]_authVars PROVE TablesMove
  OBVIOUS
<1> USE DEF TablesMove, Types, AuthTypeOK, LiveProjects
<1>1. CASE UNCHANGED authTables
  BY <1>1 DEF authTables
<1>2. ASSUME NEW n \in Name, CreateProject(n) PROVE TablesMove
  BY <1>2 DEF CreateProject
<1>3. ASSUME NEW p \in ProjectId, NEW n \in Name, RenameProject(p, n) PROVE TablesMove
  BY <1>3 DEF RenameProject
<1>4. ASSUME NEW p \in ProjectId, DeleteProject(p) PROVE TablesMove
  BY <1>4 DEF DeleteProject
<1>5. ASSUME NEW p \in ProjectId, NEW role \in Role, MintKey(p, role) PROVE TablesMove
  BY <1>5 DEF MintKey
<1>6. CASE MintToken
  BY <1>6 DEF MintToken
<1>7. ASSUME NEW o, NEW s \in CredId, RevokeRow(o, s) PROVE TablesMove
  <2>1. creds[s] \in CredRow /\ creds[s] # NULL /\ creds' = [creds EXCEPT ![s].revoked = TRUE]
    BY <1>7 DEF RevokeRow, Active
  <2>2. creds'[s].owner = creds[s].owner /\ creds'[s].role = creds[s].role
    BY <2>1 DEF CredRow
  <2> QED
    BY <1>7, <2>1, <2>2 DEF RevokeRow
<1>8. UNCHANGED authTables \/ AdminStep
  BY DEF AuthNext, ReqStart, ReqStep, CacheGet, ProjectLookup, ProjectLookupFails, KeyLookup,
         CacheInsert, ReqFails, CacheEvict, Restart, ClockTick, authVars
<1> QED
  BY <1>1, <1>2, <1>3, <1>4, <1>5, <1>6, <1>7, <1>8 DEF AdminStep, RevokeKey, RevokeToken

(* A secret that has outlived its project never meets another of its id. *)
LEMMA NextMintOK ==
    ASSUME Types, MintOK, [AuthNext]_authVars, History, Types'
    PROVE  MintOK'
<1>0. TablesMove /\ Aged
  BY StepTablesMove, RowsAge
<1>1. /\ nextProject \in Nat /\ nextProject' \in Nat /\ nextProject <= nextProject'
      /\ nextCred \in Nat /\ nextCred' \in Nat /\ nextCred <= nextCred'
      /\ ProjectId \subseteq Nat /\ CredId \subseteq Nat /\ ADMIN \notin ProjectId
  BY <1>0, AuthAssumption
  DEF TablesMove, Aged, Types, AuthTypeOK, ProjectId, CredId
<1>2. LiveProjects \subseteq ProjectId /\ LiveProjects' \subseteq ProjectId
  BY DEF LiveProjects
<1>3. \A p \in LiveProjects' : p < nextProject'
  BY <1>0, <1>1, <1>2 DEF MintOK, TablesMove
<1>4. /\ \A s \in CredId : minted'[s] = IF minted[s] # NULL \/ creds'[s] = NULL THEN minted[s]
                                       ELSE [owner |-> creds'[s].owner, role |-> creds'[s].role]
      /\ outlived' = outlived \cup
           {s \in CredId : minted'[s] # NULL /\ minted'[s].owner \notin LiveProjects' \cup {ADMIN}}
  BY DEF History
<1>5. ASSUME NEW s \in CredId, minted[s] # NULL
      PROVE  /\ minted'[s] = minted[s] /\ s < nextCred'
             /\ minted'[s].owner # ADMIN => minted'[s].owner < nextProject'
             /\ minted'[s].owner \in LiveProjects' => s \notin outlived'
  <2>1. minted'[s] = minted[s] /\ minted[s].owner \in ProjectId \cup {ADMIN}
    BY <1>4, <1>5 DEF Types, AuthTypeOK, Grant, Owner
  <2>2. PICK o \in ProjectId \cup {ADMIN} : o = minted[s].owner
    BY <2>1
  <2>3. s < nextCred /\ (o # ADMIN => o < nextProject) /\ (o \in LiveProjects => s \notin outlived)
    BY <1>5, <2>2 DEF MintOK
  <2>4. o \in LiveProjects' => o \in LiveProjects
    <3>1. ASSUME o \in LiveProjects' PROVE o \in LiveProjects
      <4>1. o \in LiveProjects \/ o = nextProject
        BY <1>0, <3>1 DEF TablesMove
      <4>2. o \in ProjectId /\ o # ADMIN
        BY <1>1, <1>2, <3>1
      <4>3. o \in Nat /\ o < nextProject
        BY <1>1, <2>3, <4>2
      <4> QED
        BY <1>1, <4>1, <4>3
    <3> QED
      BY <3>1
  <2>5. o # ADMIN => o < nextProject'
    <3>1. ASSUME o # ADMIN PROVE o < nextProject'
      <4>1. o \in Nat /\ o < nextProject
        BY <1>1, <2>2, <2>3, <3>1
      <4> QED
        BY <1>1, <4>1
    <3> QED
      BY <3>1
  <2>6. o \in LiveProjects' => s \notin outlived'
    BY <1>4, <2>1, <2>2, <2>3, <2>4
  <2>7. minted'[s].owner = o
    BY <2>1, <2>2
  <2>8. s < nextCred'
    BY <1>1, <2>3
  <2> QED
    BY <2>1, <2>5, <2>6, <2>7, <2>8
<1>6. ASSUME NEW s \in CredId, minted[s] = NULL, creds'[s] # NULL
      PROVE  /\ minted'[s] # NULL /\ RowIs(s, creds[s].owner, creds[s].role)' /\ s < nextCred'
             /\ minted'[s].owner # ADMIN => minted'[s].owner < nextProject'
             /\ minted'[s].owner \in LiveProjects' => s \notin outlived'
  <2>1. creds[s] = NULL
    BY <1>6 DEF MintOK, RowIs
  <2>2. s = nextCred /\ nextCred' = nextCred + 1 /\ creds'[s].owner \in LiveProjects' \cup {ADMIN}
    BY <1>0, <1>6, <2>1 DEF TablesMove
  <2>3. creds'[s].owner \in Owner /\ creds'[s].role \in Role
    BY <1>6 DEF Types, AuthTypeOK, CredRow
  <2>4. minted'[s] = [owner |-> creds'[s].owner, role |-> creds'[s].role] /\ minted'[s] \in Grant
    BY <1>4, <1>6, <2>3 DEF Grant
  <2>5. minted'[s] # NULL /\ minted'[s].owner = creds'[s].owner /\ minted'[s].role = creds'[s].role
    BY <2>4, IdentityAssumption
  <2>6. s \notin outlived
    BY <1>6 DEF MintOK
  <2> QED
    BY <1>1, <1>3, <1>4, <2>2, <2>5, <2>6 DEF RowIs
<1>7. ASSUME NEW s \in CredId, creds'[s] # NULL PROVE RowIs(s, creds[s].owner, creds[s].role)'
  <2>1. CASE minted[s] # NULL
    <3>1. minted'[s] = minted[s] /\ s < nextCred
      BY <1>5, <2>1 DEF MintOK
    <3>2. creds[s] # NULL /\ creds'[s].owner = creds[s].owner /\ creds'[s].role = creds[s].role
      BY <1>0, <1>7, <3>1 DEF Aged
    <3> QED
      BY <1>7, <3>1, <3>2 DEF MintOK, RowIs
  <2> QED
    BY <1>6, <1>7, <2>1
<1>8. \A s \in outlived' : minted'[s] # NULL
  <2>1. outlived \subseteq CredId
    BY DEF Types, AuthTypeOK
  <2> QED
    BY <1>4, <1>5, <2>1 DEF MintOK
<1>9. ASSUME NEW s \in CredId, minted'[s] # NULL
      PROVE  /\ s < nextCred'
             /\ minted'[s].owner # ADMIN => minted'[s].owner < nextProject'
             /\ minted'[s].owner \in LiveProjects' => s \notin outlived'
  BY <1>4, <1>5, <1>6, <1>9
<1> QED
  BY <1>3, <1>7, <1>8, <1>9 DEF MintOK

(* A project's pair that is valid and whose row was active for o is active   *)
(* for o.                                                                    *)
LEMMA ActiveStays ==
    ASSUME Aged, NEW n \in Scope, n # ADMIN, NEW s \in CredId, s < nextCred, NEW o,
           Active(o, s), Valid(n, s)'
    PROVE  Active(o, s)'
  BY DEF Aged, Active, Valid

(* What a request has established survives the steps of everybody else. *)
LEMMA ReqKept ==
    ASSUME Types, Aged, History, NEW r \in Request, req'[r] = req[r], ReqOK(r),
           now' \in Int, nextCred' \in Int
    PROVE  ReqOK(r)'
<1> SUFFICES ASSUME req[r].pc \in InProgress
             PROVE  ReqShape(r)' /\ ReqKnows(r)'
  BY DEF ReqOK
<1>1. ReqShape(r) /\ ReqKnows(r)
  BY DEF ReqOK
<1>2. /\ req[r] \in ReqRow
      /\ now \in Int /\ nextCred \in Int /\ req[r].began \in Int /\ req[r].secret \in Int
  BY <1>1 DEF Types, AuthTypeOK, ReqRow, ReqShape, CredId
<1>3. ReqShape(r)'
  BY <1>1, <1>2 DEF ReqShape, Aged
<1>4. PICK n \in Scope, s \in CredId, t \in Int, o \in ProjectId \cup {NULL},
             role \in Role \cup {NULL} :
        /\ n = req[r].scope /\ s = req[r].secret /\ t = req[r].began
        /\ o = req[r].project /\ role = req[r].role
  BY <1>1, <1>2 DEF ReqShape, ReqRow
<1>5. s < nextCred /\ t <= now
  BY <1>1, <1>4 DEF ReqShape
<1>6. /\ valid[r] => Valid(n, s)
      /\ req[r].pc = "key" /\ n # ADMIN =>
            /\ valid[r] => Active(o, s)
            /\ Active(o, s) => ValidSince(n, s, t)
      /\ req[r].pc = "verify" =>
            /\ RowIs(s, IF n = ADMIN THEN ADMIN ELSE o, role)
            /\ ValidSince(n, s, t)
  BY <1>1, <1>4 DEF ReqKnows, Wanted
<1>7. valid'[r] => valid[r] /\ Valid(n, s)'
  <2> SUFFICES ASSUME valid'[r] PROVE valid[r] /\ Valid(n, s)'
    OBVIOUS
  <2>1. valid[r] /\ Valid(req[r].scope, req[r].secret)'
    BY ValidHistory
  <2>2. n = req'[r].scope /\ s = req'[r].secret
    BY <1>4
  <2> QED
    BY <2>1, <2>2
<1>8. req[r].pc = "key" /\ n # ADMIN =>
            /\ valid'[r] => Active(o, s)'
            /\ Active(o, s)' => ValidSince(n, s, t)'
  BY <1>5, <1>6, <1>7, ActiveStays, ActiveBefore, StillValidSince
<1>9. req[r].pc = "verify" =>
            /\ RowIs(s, IF n = ADMIN THEN ADMIN ELSE o, role)'
            /\ ValidSince(n, s, t)'
  BY <1>5, <1>6, RowIsKept, StillValidSince
<1>10. /\ n = req'[r].scope /\ s = req'[r].secret /\ t = req'[r].began
       /\ o = req'[r].project /\ role = req'[r].role
  BY <1>4
<1>11. ReqKnows(r)'
  BY <1>7, <1>8, <1>9, <1>10 DEF ReqKnows, Wanted
<1> QED
  BY <1>3, <1>11

(* An entry of the cache stays what it is until it is dropped. *)
LEMMA EntryKept ==
    ASSUME Types, Aged, History, NEW n \in Scope, NEW s \in CredId, EntryOK(n, s),
           now' \in Int, nextCred' \in Int,
           cache'[<<n, s>>] \in {cache[<<n, s>>], NULL}
    PROVE  EntryOK(n, s)'
<1> SUFFICES ASSUME cache'[<<n, s>>] # NULL, cache'[<<n, s>>] = cache[<<n, s>>]
             PROVE  EntryOK(n, s)'
  BY DEF EntryOK
<1> DEFINE e == cache[<<n, s>>]
<1>1. e \in CacheEntry
  BY DEF Types, AuthTypeOK
<1>2. /\ e.at \in Int /\ e.auth.took \in Nat /\ s \in Int
      /\ now \in Int /\ nextCred \in Int
  BY <1>1 DEF CacheEntry, Identity, Types, AuthTypeOK, CredId
<1>3. PICK t \in Int, o \in Owner, role \in Role :
        o = e.auth.project_id /\ role = e.auth.role /\ t = e.at - e.auth.took
  BY <1>1, <1>2 DEF CacheEntry, Identity
<1>4. s < nextCred /\ t <= now /\ RowIs(s, o, role) /\ ValidSince(n, s, t)
  BY <1>2, <1>3 DEF EntryOK
<1>5. RowIs(s, o, role)' /\ ValidSince(n, s, t)'
  BY <1>4, RowIsKept, StillValidSince
<1> QED
  BY <1>2, <1>3, <1>5 DEF EntryOK, Aged

(* A step that answers nobody promises nothing new. *)
LEMMA NoAnswer == answer' = NULL => AnswerOK'
  BY DEF AnswerOK, GrantsAreBacked, DeniedOnlyIfInvalid, RevocationLagBounded, Granted, Denied

-----------------------------------------------------------------------------
(* The admin routes leave requests and cache alone. *)
LEMMA AdminInv == AuthInv /\ AdminStep => AuthInv' /\ AnswerOK'
<1> SUFFICES ASSUME AuthInv, AdminStep PROVE AuthInv' /\ AnswerOK'
  OBVIOUS
<1> USE DEF AuthInv
<1>1. Aged
  BY RowsAge DEF AuthNext
<1>2. History /\ UNCHANGED <<now, cache, req>> /\ answer' = NULL
  BY DEF AdminStep, CreateProject, RenameProject, DeleteProject, MintKey, MintToken,
         RevokeKey, RevokeToken, RevokeRow
<1> DEFINE TablesOK == /\ projects \in [ProjectId -> Name \cup {NULL}]
                       /\ nextProject \in 1..(MaxProjectId + 1)
                       /\ creds \in [CredId -> CredRow \cup {NULL}]
                       /\ nextCred \in 1..(MaxCredId + 1)
                       /\ \A s \in CredId : creds[s] # NULL =>
                             creds[s].owner \in LiveProjects \cup {ADMIN}
<1>3. TablesOK /\ UniqueNames
  BY DEF Types, AuthTypeOK
<1>4. TablesOK' /\ UniqueNames'
  <2> USE DEF LiveProjects, UniqueNames
  <2>1. ASSUME NEW n \in Name, CreateProject(n) PROVE TablesOK' /\ UniqueNames'
    <3>1. nextProject' \in 1..(MaxProjectId + 1)
      BY <1>3, <2>1, AuthAssumption DEF CreateProject, ProjectId
    <3>2. projects' = [projects EXCEPT ![nextProject] = n] /\ nextProject \in ProjectId
          /\ UNCHANGED <<creds, nextCred>> /\ n # NULL
          /\ \A p \in LiveProjects : projects[p] # n
      BY <2>1, AuthAssumption DEF CreateProject
    <3> QED
      BY <1>3, <3>1, <3>2
  <2>2. ASSUME NEW p \in ProjectId, NEW n \in Name, RenameProject(p, n)
        PROVE  TablesOK' /\ UniqueNames'
    BY <1>3, <2>2, AuthAssumption DEF RenameProject
  <2>3. ASSUME NEW p \in ProjectId, DeleteProject(p) PROVE TablesOK' /\ UniqueNames'
    BY <1>3, <2>3, AuthAssumption DEF DeleteProject
  <2>4. ASSUME NEW row \in CredRow, row.owner \in LiveProjects \cup {ADMIN}, nextCred \in CredId,
               creds' = [creds EXCEPT ![nextCred] = row], nextCred' = nextCred + 1,
               UNCHANGED <<projects, nextProject>>
        PROVE  TablesOK' /\ UniqueNames'
    BY <1>3, <2>4, AuthAssumption DEF CredId
  <2>5. ASSUME NEW p \in ProjectId, NEW role \in Role, MintKey(p, role)
        PROVE  TablesOK' /\ UniqueNames'
    <3>1. [owner |-> p, role |-> role, revoked |-> FALSE] \in CredRow
      BY DEF CredRow, Owner
    <3> QED
      BY <2>4, <2>5, <3>1 DEF MintKey
  <2>6. CASE MintToken
    <3>1. [owner |-> ADMIN, role |-> "write", revoked |-> FALSE] \in CredRow
      BY DEF CredRow, Owner, Role
    <3> QED
      BY <2>4, <2>6, <3>1 DEF MintToken
  <2>7. ASSUME NEW o, NEW s \in CredId, RevokeRow(o, s) PROVE TablesOK' /\ UniqueNames'
    <3>1. creds[s] \in CredRow /\ creds[s] # NULL /\ creds' = [creds EXCEPT ![s].revoked = TRUE]
      BY <1>3, <2>7 DEF RevokeRow, Active
    <3>2. creds'[s] \in CredRow /\ creds'[s].owner = creds[s].owner
      BY <1>3, <3>1 DEF CredRow
    <3> QED
      BY <1>3, <2>7, <3>1, <3>2 DEF RevokeRow
  <2> QED
    BY <2>1, <2>2, <2>3, <2>5, <2>6, <2>7 DEF AdminStep, RevokeKey, RevokeToken
<1>5. Types'
  BY <1>2, <1>4, HistoryTypes DEF Types, AuthTypeOK
<1>6. now' \in Int /\ nextCred' \in Int
  BY <1>5 DEF Types, AuthTypeOK
<1>7. \A r \in Request : ReqOK(r)'
  BY <1>1, <1>2, <1>6, ReqKept
<1>8. \A n \in Scope, s \in CredId : EntryOK(n, s)'
  BY <1>1, <1>2, <1>6, EntryKept
<1>9. MintOK'
  BY <1>2, <1>5, NextMintOK DEF AuthNext
<1> QED
  BY <1>2, <1>4, <1>5, <1>7, <1>8, <1>9, NoAnswer

(* Cache evictions, restarts and the clock. *)
LEMMA CacheAndClockInv ==
    AuthInv /\ ((\E k \in Scope \X CredId : CacheEvict(k)) \/ Restart \/ ClockTick)
        => AuthInv' /\ AnswerOK'
<1> SUFFICES ASSUME AuthInv, (\E k \in Scope \X CredId : CacheEvict(k)) \/ Restart \/ ClockTick
             PROVE  AuthInv' /\ AnswerOK'
  OBVIOUS
<1> USE DEF AuthInv
<1>1. Aged
  BY RowsAge DEF AuthNext
<1>2. History /\ UNCHANGED authTables /\ answer' = NULL
  BY DEF CacheEvict, Restart, ClockTick
<1>3. /\ now' \in 0..MaxTime
      /\ cache' \in [Scope \X CredId -> CacheEntry \cup {NULL}]
      /\ \A n \in Scope, s \in CredId : cache'[<<n, s>>] \in {cache[<<n, s>>], NULL}
  BY AuthAssumption DEF CacheEvict, Restart, ClockTick, Types, AuthTypeOK
<1>4. ReqIdle \in ReqRow
  BY AuthAssumption DEF ReqIdle, ReqRow
<1>5. /\ req' \in [Request -> ReqRow]
      /\ \A r \in Request : req'[r] = req[r] \/ req'[r] = ReqIdle
  BY <1>4 DEF CacheEvict, Restart, ClockTick, Types
<1>6. Types' /\ UniqueNames'
  <2>1. \A r \in Request : req'[r].pc \in {"idle"} \cup InProgress
    BY <1>5 DEF ReqRow
  <2> QED
    BY <1>2, <1>3, <1>5, <2>1, HistoryTypes
    DEF Types, AuthTypeOK, UniqueNames, LiveProjects, authTables
<1>7. now' \in Int /\ nextCred' \in Int
  BY <1>6 DEF Types, AuthTypeOK
<1>8. ASSUME NEW r \in Request PROVE ReqOK(r)'
  <2>1. CASE req'[r] = req[r]
    BY <1>1, <1>2, <1>7, <2>1, ReqKept
  <2>2. CASE req'[r] = ReqIdle
    BY <2>2 DEF ReqOK, ReqIdle, InProgress
  <2> QED
    BY <1>5, <2>1, <2>2
<1>9. \A n \in Scope, s \in CredId : EntryOK(n, s)'
  BY <1>1, <1>2, <1>3, <1>7, EntryKept
<1>10. MintOK'
  BY <1>2, <1>6, NextMintOK DEF AuthNext
<1> QED
  BY <1>2, <1>6, <1>8, <1>9, <1>10, NoAnswer

-----------------------------------------------------------------------------
(* A step of one request that leaves clock, tables and cache alone. *)
LEMMA OneRequest ==
    ASSUME AuthInv, [AuthNext]_authVars, History, UNCHANGED <<now, authTables, cache>>,
           NEW r \in Request, NEW row \in ReqRow, req' = [req EXCEPT ![r] = row],
           ReqOK(r)',
           answer' # NULL => /\ answer'.pc \in {"granted", "denied", "failed"}
                             /\ answer'.auth \in Identity \cup {NULL}
    PROVE  AuthInv'
<1> USE DEF AuthInv
<1>1. Aged
  BY RowsAge
<1>2. req' \in [Request -> ReqRow]
  BY DEF Types
<1>3. \A q \in Request : req'[q].pc \in {"idle"} \cup InProgress
  BY <1>2 DEF ReqRow
<1>4. Types' /\ UniqueNames'
  BY <1>2, <1>3, HistoryTypes DEF Types, AuthTypeOK, UniqueNames, LiveProjects, authTables
<1>5. now' \in Int /\ nextCred' \in Int
  BY <1>4 DEF Types, AuthTypeOK
<1>6. ASSUME NEW q \in Request, q # r PROVE ReqOK(q)'
  <2>1. req'[q] = req[q]
    BY <1>6 DEF Types
  <2> QED
    BY <1>1, <1>5, <2>1, ReqKept
<1>7. \A n \in Scope, s \in CredId : EntryOK(n, s)'
  BY <1>1, <1>5, EntryKept
<1>8. MintOK'
  BY <1>4, NextMintOK
<1> QED
  BY <1>4, <1>6, <1>7, <1>8

(* With the tables as they were nothing becomes valid or lapses. *)
LEMMA SameTables ==
    ASSUME UNCHANGED authTables, NEW n \in Scope, NEW s \in CredId, NEW o
    PROVE  /\ Valid(n, s)' <=> Valid(n, s)
           /\ Active(o, s)' <=> Active(o, s)
  BY DEF Valid, Active, LiveProjects, authTables

(* ReqStart *)
LEMMA StartInv ==
    ASSUME AuthInv, NEW r \in Request, NEW n \in Scope, NEW u \in Scope, NEW s \in CredId,
           NEW op \in Role, ReqStart(r, n, s, u, op)
    PROVE  AuthInv' /\ AnswerOK'
<1> DEFINE row == [pc |-> "cache", scope |-> n, secret |-> s, url |-> u, op |-> op,
                   began |-> now, project |-> NULL, role |-> NULL]
<1>1. [AuthNext]_authVars
  BY DEF AuthNext
<1>2. row \in ReqRow
  BY DEF ReqRow, InProgress, AuthInv, Types, AuthTypeOK
<1>3. /\ History /\ UNCHANGED <<now, authTables, cache>> /\ answer' = NULL
      /\ req' = [req EXCEPT ![r] = row]
      /\ s < nextCred /\ (n = ADMIN <=> u = ADMIN)
  BY DEF ReqStart
<1>4. req'[r] = row
  BY <1>3 DEF AuthInv, Types
<1>5. ReqShape(r)'
  BY <1>3, <1>4 DEF ReqShape, authTables, AuthInv, Types, AuthTypeOK
<1>6. ReqKnows(r)'
  BY <1>3, <1>4, ValidHistory DEF ReqKnows
<1>7. ReqOK(r)'
  BY <1>5, <1>6 DEF ReqOK
<1> HIDE DEF row
<1>8. AuthInv'
  BY <1>1, <1>2, <1>3, <1>7, OneRequest
<1> QED
  BY <1>3, <1>8, NoAnswer

(* A request that ends. *)
LEMMA AnswerInv ==
    ASSUME AuthInv, [AuthNext]_authVars, History, UNCHANGED <<now, authTables, cache>>,
           NEW r \in Request, NEW outcome \in {"granted", "denied", "failed"},
           NEW auth \in Identity \cup {NULL}, NEW fault, Answer(r, outcome, auth, fault)
    PROVE  AuthInv'
<1>1. ReqIdle \in ReqRow
  BY AuthAssumption DEF ReqIdle, ReqRow
<1>2. req' = [req EXCEPT ![r] = ReqIdle] /\ req'[r] = ReqIdle
  BY DEF Answer, AuthInv, Types
<1>3. ReqOK(r)'
  BY <1>2 DEF ReqOK, ReqIdle, InProgress
<1>4. answer' # NULL => /\ answer'.pc \in {"granted", "denied", "failed"}
                        /\ answer'.auth \in Identity \cup {NULL}
  BY DEF Answer
<1> QED
  BY <1>1, <1>2, <1>3, <1>4, OneRequest

(* A request that is refused although nothing failed had a credential that   *)
(* was not valid all the time.                                               *)
LEMMA RefuseOK ==
    ASSUME NEW r \in Request, Refuse(r), ~valid[r] PROVE AnswerOK'
  BY DEF Refuse, Answer, AnswerOK, GrantsAreBacked, DeniedOnlyIfInvalid, RevocationLagBounded,
         Granted, Denied

(* A fault promises nothing. *)
LEMMA FaultOK ==
    ASSUME NEW r \in Request, NEW outcome \in {"denied", "failed"},
           Answer(r, outcome, NULL, TRUE)
    PROVE  AnswerOK'
  BY DEF Answer, AnswerOK, GrantsAreBacked, DeniedOnlyIfInvalid, RevocationLagBounded,
         Granted, Denied

(* The decision on an identity that is backed by its row and was valid       *)
(* recently is right.                                                        *)
LEMMA DecideOK ==
    ASSUME AuthInv, History, UNCHANGED <<now, authTables>>,
           NEW r \in Request, req[r].pc \in InProgress,
           NEW auth \in Identity, Decide(r, auth),
           auth.project_name = req[r].scope,
           auth.project_id = ADMIN <=> req[r].scope = ADMIN,
           RowIs(req[r].secret, auth.project_id, auth.role),
           NEW t \in Int, t <= now, now <= t + CacheTtl + auth.took,
           ValidSince(req[r].scope, req[r].secret, t)
    PROVE  AnswerOK'
<1>1. ReqShape(r)
  BY DEF AuthInv, ReqOK
<1>2. PICK n \in Scope, s \in CredId, u \in Scope, op \in Role :
        n = req[r].scope /\ s = req[r].secret /\ u = req[r].url /\ op = req[r].op
  BY <1>1 DEF ReqShape
<1>3. n = ADMIN <=> u = ADMIN
  BY <1>1, <1>2 DEF ReqShape
<1> DEFINE grant == auth.project_id = ADMIN \/ (auth.project_name = u /\ Allows(auth.role, op))
<1>4. answer' = [pc |-> IF grant THEN "granted" ELSE "denied", scope |-> n, secret |-> s,
                 url |-> u, op |-> op, auth |-> auth, fault |-> FALSE, valid |-> valid[r]]
  BY <1>2 DEF Decide, Answer
<1>5. /\ RowIs(s, auth.project_id, auth.role)' /\ LiveProjects' = LiveProjects
      /\ minted'[s].owner \in LiveProjects' => s \notin outlived'
  <2>1. RowIs(s, auth.project_id, auth.role)
    BY <1>2
  <2>2. minted'[s] = minted[s] /\ LiveProjects' = LiveProjects
    BY <2>1 DEF History, RowIs, authTables, LiveProjects
  <2>3. RowIs(s, auth.project_id, auth.role)'
    BY <2>1, <2>2 DEF RowIs
  <2>4. minted[s].owner \in LiveProjects => s \notin outlived
    BY <2>1 DEF AuthInv, MintOK, RowIs
  <2> QED
    BY <2>2, <2>3, <2>4 DEF History
<1>6. ValidSince(n, s, t)'
  <2>1. ValidSince(n, s, t)
    BY <1>2
  <2> QED
    BY <2>1, StillValidSince DEF AuthInv
<1>7. auth # NULL
  BY IdentityAssumption
<1> HIDE DEF grant
<1>8. GrantsAreBacked'
  BY <1>4, <1>5 DEF GrantsAreBacked, RowIs
<1>9. DeniedOnlyIfInvalid'
  BY <1>2, <1>3, <1>4, <1>7 DEF DeniedOnlyIfInvalid, Denied, grant
<1>10. RevocationLagBounded'
  <2> SUFFICES ASSUME Granted' PROVE ~LagExceeds(CacheTtl + answer.auth.took)'
    BY DEF RevocationLagBounded
  <2>1. grant
    BY <1>4 DEF Granted
  <2>2. u = n
    BY <1>2, <1>3, <2>1 DEF grant
  <2>3. answer'.url = n /\ answer'.secret = s /\ answer'.auth.took = auth.took
    BY <1>4, <2>2
  <2>4. <<n, s>>[1] = n /\ <<n, s>>[2] = s
    OBVIOUS
  <2>5. SUFFICES ASSUME ~Valid(n, s)'
                 PROVE  lapsed'[<<n, s>>] # NULL /\ ~(now' > lapsed'[<<n, s>>] + (CacheTtl + auth.took))
    BY <2>3, <2>4 DEF LagExceeds
  <2>6. lapsed'[<<n, s>>] # NULL /\ lapsed'[<<n, s>>] >= t
    BY <1>6, <2>5 DEF ValidSince
  <2>7. lapsed'[<<n, s>>] \in Int
    BY <2>6, HistoryTypes DEF AuthInv
  <2>8. CacheTtl \in Int /\ auth.took \in Int /\ now \in Int
    BY AuthAssumption DEF Identity, AuthInv, Types, AuthTypeOK
  <2> QED
    BY <2>6, <2>7, <2>8
<1> QED
  BY <1>8, <1>9, <1>10 DEF AnswerOK

(* A request that goes on to pc and remembers a project or a role. *)
LEMMA GoesOn ==
    ASSUME AuthInv, [AuthNext]_authVars, History, UNCHANGED <<now, authTables, cache>>,
           NEW r \in Request, req[r].pc \in InProgress,
           NEW pc \in InProgress, NEW project \in ProjectId \cup {NULL},
           NEW role \in Role \cup {NULL},
           req' = [req EXCEPT ![r] = [req[r] EXCEPT !.pc = pc, !.project = project, !.role = role]],
           answer' = NULL,
           pc = "project" => req[r].scope # ADMIN,
           pc \in {"key", "verify"} /\ req[r].scope # ADMIN => project \in ProjectId,
           pc = "verify" => role \in Role,
           pc = "key" /\ req[r].scope # ADMIN =>
              /\ valid[r] => Active(project, req[r].secret)
              /\ Active(project, req[r].secret) =>
                    ValidSince(req[r].scope, req[r].secret, req[r].began),
           pc = "verify" =>
              /\ RowIs(req[r].secret, IF req[r].scope = ADMIN THEN ADMIN ELSE project, role)
              /\ ValidSince(req[r].scope, req[r].secret, req[r].began)
    PROVE  AuthInv' /\ AnswerOK'
<1>1. ReqShape(r) /\ ReqKnows(r) /\ req[r] \in ReqRow
  BY DEF AuthInv, ReqOK, Types
<1>2. PICK row \in ReqRow :
        row = [req[r] EXCEPT !.pc = pc, !.project = project, !.role = role]
  BY <1>1 DEF ReqRow
<1>3. req' = [req EXCEPT ![r] = row] /\ req'[r] = row
  BY <1>2 DEF AuthInv, Types
<1>4. /\ row.pc = pc /\ row.project = project /\ row.role = role
      /\ row.scope = req[r].scope /\ row.secret = req[r].secret /\ row.url = req[r].url
      /\ row.op = req[r].op /\ row.began = req[r].began
  BY <1>1, <1>2 DEF ReqRow
<1>5. ReqShape(r)'
  BY <1>1, <1>3, <1>4 DEF ReqShape, authTables
<1>6. PICK n \in Scope, s \in CredId, t \in Int :
        n = req[r].scope /\ s = req[r].secret /\ t = req[r].began /\ t <= now
  BY <1>1 DEF ReqShape, ReqRow
<1>7. ReqKnows(r)'
  <2>1. valid'[r] => valid[r] /\ Valid(n, s)'
    <3> SUFFICES ASSUME valid'[r] PROVE valid[r] /\ Valid(n, s)'
      OBVIOUS
    <3>1. valid[r] /\ Valid(req[r].scope, req[r].secret)'
      BY ValidHistory
    <3>2. n = req'[r].scope /\ s = req'[r].secret
      BY <1>3, <1>4, <1>6
    <3> QED
      BY <3>1, <3>2
  <2>2. ValidSince(n, s, t) => ValidSince(n, s, t)'
    BY <1>6, StillValidSince DEF AuthInv
  <2>3. Active(project, s)' <=> Active(project, s)
    BY SameTables
  <2>4. \A o : RowIs(s, o, role) => RowIs(s, o, role)'
    BY RowIsKept
  <2>5. pc = "key" /\ n # ADMIN =>
              /\ valid'[r] => Active(project, s)'
              /\ Active(project, s)' => ValidSince(n, s, t)'
    BY <1>6, <2>1, <2>2, <2>3
  <2>6. pc = "verify" =>
              /\ RowIs(s, IF n = ADMIN THEN ADMIN ELSE project, role)'
              /\ ValidSince(n, s, t)'
    BY <1>6, <2>2, <2>4
  <2>7. /\ n = req'[r].scope /\ s = req'[r].secret /\ t = req'[r].began
        /\ project = req'[r].project /\ role = req'[r].role /\ pc = req'[r].pc
    BY <1>3, <1>4, <1>6
  <2> QED
    BY <2>1, <2>5, <2>6, <2>7 DEF ReqKnows, Wanted
<1>8. ReqOK(r)'
  BY <1>5, <1>7 DEF ReqOK
<1>9. AuthInv'
  BY <1>3, <1>8, OneRequest
<1> QED
  BY <1>9, NoAnswer

(* VerifyCache::get_or_insert, first half: a hit is decided, a miss looks    *)
(* the project or the token up.                                              *)
LEMMA CacheGetInv ==
    ASSUME AuthInv, NEW r \in Request, CacheGet(r)
    PROVE  AuthInv' /\ AnswerOK'
<1>1. [AuthNext]_authVars
  BY DEF AuthNext, ReqStep
<1>2. /\ req[r].pc = "cache" /\ req[r].pc \in InProgress
      /\ UNCHANGED <<now, authTables, cache>> /\ History
  BY DEF CacheGet, InProgress
<1>3. ReqShape(r) /\ req[r] \in ReqRow
  BY <1>2 DEF AuthInv, ReqOK, Types
<1>4. PICK n \in Scope, s \in CredId : n = req[r].scope /\ s = req[r].secret
  BY <1>3 DEF ReqShape
<1>5. CASE Fresh(CacheKey(r))
  <2>1. PICK e \in CacheEntry : e = cache[<<n, s>>] /\ e # NULL /\ now < e.at + CacheTtl
    BY <1>4, <1>5 DEF Fresh, CacheKey, AuthInv, Types, AuthTypeOK
  <2>2. PICK auth \in Identity : auth = e.auth
    BY <2>1 DEF CacheEntry
  <2>3. Decide(r, auth)
    BY <1>4, <1>5, <2>1, <2>2 DEF CacheGet, CacheKey
  <2>4. /\ e.at <= now /\ auth.took <= e.at
        /\ auth.project_name = n /\ (auth.project_id = ADMIN <=> n = ADMIN)
        /\ RowIs(s, auth.project_id, auth.role) /\ ValidSince(n, s, e.at - auth.took)
    BY <2>1, <2>2 DEF AuthInv, EntryOK
  <2>5. e.at \in Nat /\ auth.took \in Nat /\ now \in Nat /\ CacheTtl \in Nat
    BY <2>1, <2>2, AuthAssumption DEF CacheEntry, Identity, AuthInv, Types, AuthTypeOK
  <2>6. PICK t \in Int : t = e.at - auth.took
    BY <2>5
  <2>7. t <= now /\ now <= t + CacheTtl + auth.took
    BY <2>1, <2>4, <2>5, <2>6
  <2>8. AnswerOK'
    BY <1>2, <1>4, <2>3, <2>4, <2>6, <2>7, DecideOK
  <2>9. \E outcome \in {"granted", "denied", "failed"} : Answer(r, outcome, auth, FALSE)
    BY <2>3 DEF Decide
  <2>10. AuthInv'
    BY <1>1, <1>2, <2>9, AnswerInv
  <2> QED
    BY <2>8, <2>10
<1>6. CASE ~Fresh(CacheKey(r))
  <2>1. PICK pc \in {"key", "project"} :
           /\ pc = IF req[r].scope = ADMIN THEN "key" ELSE "project"
           /\ req' = [req EXCEPT ![r].pc = pc] /\ answer' = NULL
    BY <1>6 DEF CacheGet, Miss, Advance
  <2>2. PICK project \in ProjectId \cup {NULL}, role \in Role \cup {NULL} :
           project = req[r].project /\ role = req[r].role
    BY <1>3 DEF ReqRow
  <2>3. [req[r] EXCEPT !.pc = pc] = [req[r] EXCEPT !.pc = pc, !.project = project, !.role = role]
    BY <1>3, <2>2 DEF ReqRow
  <2>4. req' = [req EXCEPT ![r] = [req[r] EXCEPT !.pc = pc, !.project = project, !.role = role]]
    BY <2>1, <2>3
  <2>5. pc \in InProgress
    BY DEF InProgress
  <2>6. /\ pc = "project" => req[r].scope # ADMIN
        /\ pc = "key" => req[r].scope = ADMIN
        /\ pc # "verify"
    BY <2>1
  <2>7. pc \in {"key", "verify"} /\ req[r].scope # ADMIN => FALSE
    BY <2>6
  <2>8. answer' = NULL /\ History /\ UNCHANGED <<now, authTables, cache>> /\ req[r].pc \in InProgress
    BY <1>2, <2>1
  <2> QED
    BY <1>1, <2>4, <2>5, <2>6, <2>7, <2>8, GoesOn
<1> QED
  BY <1>5, <1>6

(* projects().get_by_name: the project found is the one the pair is valid    *)
(* for, if it is valid.                                                      *)
LEMMA ProjectLookupInv ==
    ASSUME AuthInv, NEW r \in Request, ProjectLookup(r)
    PROVE  AuthInv' /\ AnswerOK'
<1>1. [AuthNext]_authVars
  BY DEF AuthNext, ReqStep
<1>2. /\ req[r].pc = "project" /\ req[r].pc \in InProgress
      /\ UNCHANGED <<now, authTables, cache>> /\ History
  BY DEF ProjectLookup, InProgress
<1>3. ReqShape(r) /\ ReqKnows(r) /\ req[r] \in ReqRow
  BY <1>2 DEF AuthInv, ReqOK, Types
<1>4. req[r].scope \in Scope /\ req[r].scope # ADMIN /\ req[r].secret \in CredId
  BY <1>2, <1>3 DEF ReqShape
<1> DEFINE found == {p \in LiveProjects : projects[p] = req[r].scope}
<1>5. CASE found = {}
  <2>1. Refuse(r)
    BY <1>5 DEF ProjectLookup
  <2>2. ~valid[r]
    BY <1>3, <1>4, <1>5 DEF ReqKnows, Valid
  <2>3. AuthInv'
    BY <1>1, <1>2, <2>1, AnswerInv DEF Refuse
  <2> QED
    BY <2>1, <2>2, <2>3, RefuseOK
<1>6. CASE found # {}
  <2>1. PICK p \in found :
           req' = [req EXCEPT ![r].pc = "key", ![r].project = p] /\ answer' = NULL
    BY <1>6 DEF ProjectLookup
  <2>2. p \in LiveProjects /\ p \in ProjectId /\ projects[p] = req[r].scope
    BY <2>1 DEF LiveProjects
  <2>3. PICK role \in Role \cup {NULL} : role = req[r].role
    BY <1>3 DEF ReqRow
  <2>4. req' = [req EXCEPT ![r] = [req[r] EXCEPT !.pc = "key", !.project = p, !.role = role]]
    <3>1. req' = [req EXCEPT ![r] = [req[r] EXCEPT !.pc = "key", !.project = p]]
      BY <2>1 DEF AuthInv, Types
    <3>2. [req[r] EXCEPT !.pc = "key", !.project = p]
             = [req[r] EXCEPT !.pc = "key", !.project = p, !.role = role]
      BY <1>3, <2>3 DEF ReqRow
    <3> QED
      BY <3>1, <3>2
  <2>5. valid[r] => Active(p, req[r].secret)
    BY <1>3, <1>4, <2>2 DEF ReqKnows, Valid, AuthInv, UniqueNames
  <2>6. Active(p, req[r].secret) => ValidSince(req[r].scope, req[r].secret, req[r].began)
    BY <2>2 DEF ValidSince, Valid
  <2>7. "key" \in InProgress
    BY DEF InProgress
  <2> QED
    <3> DEFINE pc == "key"
    <3>1. pc \in InProgress /\ pc # "project" /\ pc # "verify"
      BY <2>7
    <3>2. p \in ProjectId \cup {NULL}
      BY <2>2
    <3>3. req' = [req EXCEPT ![r] = [req[r] EXCEPT !.pc = pc, !.project = p, !.role = role]]
      BY <2>4
    <3>4. answer' = NULL
      BY <2>1
    <3> HIDE DEF pc, found
    <3> QED
      BY <1>1, <1>2, <2>2, <2>5, <2>6, <3>1, <3>2, <3>3, <3>4, GoesOn
<1> QED
  BY <1>5, <1>6

(* find_active_by_lookup *)
LEMMA KeyLookupInv ==
    ASSUME AuthInv, NEW r \in Request, KeyLookup(r)
    PROVE  AuthInv' /\ AnswerOK'
<1>1. [AuthNext]_authVars
  BY DEF AuthNext, ReqStep
<1>2. /\ req[r].pc = "key" /\ req[r].pc \in InProgress
      /\ UNCHANGED <<now, authTables, cache>> /\ History
  BY DEF KeyLookup, InProgress
<1>3. ReqShape(r) /\ ReqKnows(r) /\ req[r] \in ReqRow
  BY <1>2 DEF AuthInv, ReqOK, Types
<1>4. \A p \in LiveProjects : projects[p] # ADMIN
  BY AuthAssumption DEF LiveProjects, AuthInv, Types, AuthTypeOK
<1>5. CASE ~Active(Wanted(r), req[r].secret)
  <2>1. Refuse(r)
    BY <1>5 DEF KeyLookup
  <2>2. ~valid[r]
    BY <1>2, <1>3, <1>4, <1>5 DEF ReqKnows, Valid, Wanted
  <2>3. AuthInv'
    BY <1>1, <1>2, <2>1, AnswerInv DEF Refuse
  <2> QED
    BY <2>1, <2>2, <2>3, RefuseOK
<1>6. CASE Active(Wanted(r), req[r].secret)
  <2>1. RowFound(r)
    BY <1>6 DEF KeyLookup
  <2>2. creds[req[r].secret] \in CredRow /\ creds[req[r].secret].owner = Wanted(r)
    BY <1>3, <1>6 DEF Active, ReqShape, AuthInv, Types, AuthTypeOK
  <2>3. PICK role \in Role : role = creds[req[r].secret].role
    BY <2>2 DEF CredRow
  <2>4. PICK project \in ProjectId \cup {NULL} : project = req[r].project
    BY <1>3 DEF ReqRow
  <2>5. /\ req' = [req EXCEPT ![r] = [req[r] EXCEPT !.pc = "verify", !.project = project, !.role = role]]
        /\ answer' = NULL
    <3>1. req' = [req EXCEPT ![r] = [req[r] EXCEPT !.pc = "verify", !.role = role]] /\ answer' = NULL
      BY <2>1, <2>3 DEF RowFound, AuthInv, Types
    <3>2. [req[r] EXCEPT !.pc = "verify", !.role = role]
             = [req[r] EXCEPT !.pc = "verify", !.project = project, !.role = role]
      BY <1>3, <2>4 DEF ReqRow
    <3> QED
      BY <3>1, <3>2
  <2>6. req[r].scope # ADMIN => project \in ProjectId
    BY <1>2, <1>3, <2>4 DEF ReqShape
  <2>7. RowIs(req[r].secret, IF req[r].scope = ADMIN THEN ADMIN ELSE project, role)
    <3>1. req[r].secret \in CredId /\ creds[req[r].secret] # NULL
      BY <1>3, <1>6 DEF ReqShape, Active
    <3>2. RowIs(req[r].secret, Wanted(r), role)
      BY <2>2, <2>3, <3>1 DEF AuthInv, MintOK
    <3> QED
      BY <2>4, <3>2 DEF Wanted
  <2>8. ValidSince(req[r].scope, req[r].secret, req[r].began)
    <3>1. CASE req[r].scope = ADMIN
      BY <1>6, <3>1 DEF Wanted, ValidSince, Valid
    <3>2. CASE req[r].scope # ADMIN
      BY <1>2, <1>3, <1>6, <3>2 DEF Wanted, ReqKnows
    <3> QED
      BY <3>1, <3>2
  <2>9. "verify" \in InProgress
    BY DEF InProgress
  <2> QED
    BY <1>1, <1>2, <2>5, <2>6, <2>7, <2>8, <2>9, GoesOn
<1> QED
  BY <1>5, <1>6

(* VerifyCache::get_or_insert, second half: the identity is cached as it was *)
(* verified, though its row may be gone by now.                              *)
LEMMA CacheInsertInv ==
    ASSUME AuthInv, NEW r \in Request, CacheInsert(r)
    PROVE  AuthInv' /\ AnswerOK'
<1>1. [AuthNext]_authVars /\ Aged
  BY RowsAge DEF AuthNext, ReqStep, AuthInv
<1>2. /\ req[r].pc = "verify" /\ req[r].pc \in InProgress
      /\ UNCHANGED <<now, authTables>> /\ History
  BY DEF CacheInsert, InProgress
<1>3. ReqShape(r) /\ ReqKnows(r) /\ req[r] \in ReqRow
  BY <1>2 DEF AuthInv, ReqOK, Types
<1>4. PICK n \in Scope, s \in CredId, t \in Int, role \in Role, o \in Owner :
        /\ n = req[r].scope /\ s = req[r].secret /\ t = req[r].began /\ role = req[r].role
        /\ o = Wanted(r)
  BY <1>2, <1>3 DEF ReqShape, ReqRow, Wanted, Owner
<1>5. /\ s < nextCred /\ t <= now /\ now \in 0..MaxTime /\ t \in 0..MaxTime
      /\ RowIs(s, o, role) /\ ValidSince(n, s, t)
      /\ o = ADMIN <=> n = ADMIN
  <2>1. s < nextCred /\ t <= now /\ RowIs(s, o, role) /\ ValidSince(n, s, t)
    BY <1>2, <1>3, <1>4 DEF ReqShape, ReqKnows
  <2>2. now \in 0..MaxTime /\ t \in 0..MaxTime
    BY <1>3, <1>4 DEF ReqRow, AuthInv, Types, AuthTypeOK
  <2>3. o = ADMIN <=> n = ADMIN
    BY <1>2, <1>3, <1>4, AuthAssumption DEF ReqShape, Wanted, ProjectId
  <2> QED
    BY <2>1, <2>2, <2>3
<1>6. PICK auth \in Identity :
        auth = [project_id |-> o, project_name |-> n, role |-> role, took |-> now - t]
  <2>1. MaxTime \in Nat
    BY AuthAssumption
  <2>2. now - t \in 0..MaxTime
    BY <1>5, <2>1
  <2> QED
    BY <2>2 DEF Identity
<1>7. /\ cache' = [cache EXCEPT ![<<n, s>>] = [auth |-> auth, at |-> now]]
      /\ Decide(r, auth)
  BY <1>4, <1>6 DEF CacheInsert, CacheKey
<1>8. /\ auth.project_id = o /\ auth.project_name = n /\ auth.role = role
      /\ auth.took = now - t
  BY <1>6
<1>9. AnswerOK'
  <2>1. CacheTtl \in Nat
    BY AuthAssumption
  <2>2. now <= t + CacheTtl + auth.took
    BY <1>5, <1>8, <2>1
  <2> QED
    BY <1>2, <1>4, <1>5, <1>7, <1>8, <2>2, DecideOK
<1>10. PICK outcome \in {"granted", "denied"} : Answer(r, outcome, auth, FALSE)
  BY <1>7 DEF Decide
<1>11. req' = [req EXCEPT ![r] = ReqIdle]
  BY <1>10 DEF Answer
<1>12. /\ req' \in [Request -> ReqRow]
       /\ \A q \in Request : req'[q].pc \in {"idle"} \cup InProgress
  <2>1. ReqIdle \in ReqRow
    BY AuthAssumption DEF ReqIdle, ReqRow
  <2>2. req' \in [Request -> ReqRow]
    BY <1>11, <2>1 DEF AuthInv, Types
  <2> QED
    BY <2>2 DEF ReqRow
<1>13. cache' \in [Scope \X CredId -> CacheEntry \cup {NULL}]
  <2>1. [auth |-> auth, at |-> now] \in CacheEntry
    BY <1>5 DEF CacheEntry
  <2> QED
    BY <1>7, <2>1 DEF AuthInv, Types, AuthTypeOK
<1>14. answer' # NULL => /\ answer'.pc \in {"granted", "denied", "failed"}
                         /\ answer'.auth \in Identity \cup {NULL}
  BY <1>10 DEF Answer
<1>15. Types' /\ UniqueNames'
  BY <1>2, <1>12, <1>13, <1>14, HistoryTypes
  DEF AuthInv, Types, AuthTypeOK, UniqueNames, LiveProjects, authTables
<1>16. now' \in Int /\ nextCred' \in Int
  BY <1>15 DEF Types, AuthTypeOK
<1>17. ASSUME NEW q \in Request PROVE ReqOK(q)'
  <2>1. CASE q = r
    BY <1>11, <2>1 DEF ReqOK, ReqIdle, InProgress, AuthInv, Types
  <2>2. CASE q # r
    <3>1. req'[q] = req[q]
      BY <1>11, <2>2 DEF AuthInv, Types
    <3> QED
      BY <1>1, <1>2, <1>16, <3>1, ReqKept DEF AuthInv
  <2> QED
    BY <2>1, <2>2
<1>18. ASSUME NEW m \in Scope, NEW c \in CredId PROVE EntryOK(m, c)'
  <2>1. CASE <<m, c>> # <<n, s>>
    <3>1. cache'[<<m, c>>] = cache[<<m, c>>]
      BY <1>7, <2>1 DEF AuthInv, Types, AuthTypeOK
    <3> QED
      BY <1>1, <1>2, <1>16, <3>1, EntryKept DEF AuthInv
  <2>2. CASE m = n /\ c = s
    <3>1. cache'[<<n, s>>] = [auth |-> auth, at |-> now]
      BY <1>7 DEF AuthInv, Types, AuthTypeOK
    <3>2. RowIs(s, o, role)' /\ ValidSince(n, s, t)'
      BY <1>1, <1>2, <1>5, RowIsKept, StillValidSince DEF AuthInv
    <3>3. now - (now - t) = t /\ now - t <= now
      BY <1>5
    <3> QED
      BY <1>2, <1>5, <1>8, <2>2, <3>1, <3>2, <3>3 DEF EntryOK, authTables
  <2> QED
    BY <2>1, <2>2
<1>19. MintOK'
  BY <1>1, <1>2, <1>15, NextMintOK DEF AuthInv
<1> QED
  BY <1>9, <1>15, <1>17, <1>18, <1>19 DEF AuthInv

(* A fault ends a request and leaves the rest alone. *)
LEMMA FaultInv ==
    ASSUME AuthInv, NEW r \in Request, ProjectLookupFails(r) \/ ReqFails(r)
    PROVE  AuthInv' /\ AnswerOK'
<1>1. [AuthNext]_authVars
  BY DEF AuthNext, ReqStep
<1>2. UNCHANGED <<now, authTables, cache>> /\ History
  BY DEF ProjectLookupFails, ReqFails
<1>3. PICK outcome \in {"denied", "failed"} : Answer(r, outcome, NULL, TRUE)
  BY DEF ProjectLookupFails, ReqFails
<1> QED
  BY <1>1, <1>2, <1>3, AnswerInv, FaultOK

-----------------------------------------------------------------------------
(* A freshly initialised server. *)
LEMMA InitAuthInv == AuthInit => AuthInv /\ AnswerOK
<1> SUFFICES ASSUME AuthInit PROVE AuthInv /\ AnswerOK
  OBVIOUS
<1>1. ReqIdle \in ReqRow /\ ReqIdle.pc = "idle"
  BY AuthAssumption DEF ReqIdle, ReqRow
<1>2. Types
  BY <1>1, AuthAssumption DEF AuthInit, Types, AuthTypeOK, ProjectId, CredId
<1>3. UniqueNames
  BY DEF AuthInit, UniqueNames, LiveProjects
<1>4. (\A r \in Request : ReqOK(r)) /\ (\A n \in Scope, s \in CredId : EntryOK(n, s))
  BY <1>1 DEF AuthInit, ReqOK, InProgress, EntryOK
<1>5. MintOK
  BY DEF AuthInit, MintOK, LiveProjects
<1> QED
  BY <1>2, <1>3, <1>4, <1>5
  DEF AuthInv, AnswerOK, AuthInit, GrantsAreBacked, DeniedOnlyIfInvalid, RevocationLagBounded,
      Granted, Denied

(* Every step keeps the invariant, and answers as promised. *)
LEMMA NextAuthInv == AuthInv /\ AnswerOK /\ [AuthNext]_authVars => AuthInv' /\ AnswerOK'
<1> SUFFICES ASSUME AuthInv, AnswerOK, [AuthNext]_authVars PROVE AuthInv' /\ AnswerOK'
  OBVIOUS
<1>1. CASE AdminStep
  BY <1>1, AdminInv
<1>2. CASE \E r \in Request, n, u \in Scope, s \in CredId, op \in Role : ReqStart(r, n, s, u, op)
  BY <1>2, StartInv
<1>3. ASSUME NEW r \in Request, ReqStep(r) PROVE AuthInv' /\ AnswerOK'
  BY <1>3, CacheGetInv, ProjectLookupInv, KeyLookupInv, CacheInsertInv, FaultInv DEF ReqStep
<1>4. CASE (\E k \in Scope \X CredId : CacheEvict(k)) \/ Restart \/ ClockTick
  BY <1>4, CacheAndClockInv
<1>5. CASE UNCHANGED authVars
  <2>1. /\ (\A r \in Request : ReqOK(r)') <=> (\A r \in Request : ReqOK(r))
        /\ (\A n \in Scope, s \in CredId : EntryOK(n, s)')
              <=> (\A n \in Scope, s \in CredId : EntryOK(n, s))
    BY <1>5 DEF authVars, authTables, ReqOK, ReqShape, ReqKnows, EntryOK, RowIs, Wanted,
                ValidSince, Valid, Active, LiveProjects
  <2>2. Types' /\ UniqueNames' /\ MintOK'
    BY <1>5 DEF authVars, authTables, AuthInv, Types, AuthTypeOK, UniqueNames, MintOK, RowIs,
                LiveProjects
  <2>3. AnswerOK'
    BY <1>5 DEF authVars, authTables, AnswerOK, GrantsAreBacked, DeniedOnlyIfInvalid,
                RevocationLagBounded, Granted, Denied, LagExceeds, Valid, Active, LiveProjects
  <2> QED
    BY <2>1, <2>2, <2>3 DEF AuthInv
<1> QED
  BY <1>1, <1>2, <1>3, <1>4, <1>5 DEF AuthNext

(* Whatever requests, renames, deletions, revocations, evictions, faults and *)
(* restarts interleave: what requests in progress have established and what  *)
(* the verify cache holds stays backed by the tables, now or within a known  *)
(* time.                                                                     *)
THEOREM AuthInvariant == AuthSpec => [](AuthInv /\ AnswerOK)
  BY InitAuthInv, NextAuthInv, PTL DEF AuthSpec

(* Types, and every key belongs to a project that exists (the cascade of     *)
(* api_keys).                                                                *)
THEOREM AuthTypeCorrect == AuthSpec => []AuthTypeOK
<1>1. AuthInv => AuthTypeOK
  BY DEF AuthInv, Types
<1> QED
  BY <1>1, AuthInvariant, PTL

(* A granted request acts as the project its secret was minted for and with  *)
(* the role it was minted with, also after that row is gone, and never as a  *)
(* project created after the deletion of that one (authenticate_project,     *)
(* authenticate_admin, Projects::create).                                    *)
THEOREM GrantsBacked == AuthSpec => []GrantsAreBacked
<1>1. AnswerOK => GrantsAreBacked
  BY DEF AnswerOK
<1> QED
  BY <1>1, AuthInvariant, PTL

(* Neither the cache nor a race between the lookups refuses a credential     *)
(* that is valid throughout the request (authenticate_project).              *)
THEOREM GoodCredentialsPass == AuthSpec => []DeniedOnlyIfInvalid
<1>1. AnswerOK => DeniedOnlyIfInvalid
  BY DEF AnswerOK
<1> QED
  BY <1>1, AuthInvariant, PTL

(* Revocation, deletion and renaming take effect within one time to live of  *)
(* the cache and the time one request took (VerifyCache).                    *)
THEOREM RevocationTakesEffect == AuthSpec => []RevocationLagBounded
<1>1. AnswerOK => RevocationLagBounded
  BY DEF AnswerOK
<1> QED
  BY <1>1, AuthInvariant, PTL
=============================================================================
