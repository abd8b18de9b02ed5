----------------------------- MODULE PushProofs -----------------------------
(* Proofs about SqliteTx and PushClient: the transactions are atomic, the    *)
(* audit log is truthful, and `marmotte push' keeps its promise, for every   *)
(* set of files, URLs, contents and requests, every pool size, number of     *)
(* retries and degree of concurrency, and any number of faults.              *)
EXTENDS PushClient, MetadataDbProofs

ReqRecord == [pc : TxPc, key : Key \cup {NULL}, hash : Hash \cup {NULL},
              id : EntryId \cup {NULL}, prev : Hash \cup {NULL}, stale : BOOLEAN]

(* The requests, the write lock and the log have their types. *)
TxTypeOK ==
    /\ req \in [Request -> ReqRecord]
    /\ writer \in Request \cup {NULL, OUTSIDE}
    /\ others \in Nat
    /\ audited \in SUBSET Admin
    /\ faults \in Nat

(* What t has read is what the tables say. *)
Snapshot(t) ==
    /\ t \in Put =>
          \/ req[t].prev = NULL /\ Find(1, req[t].key) = {}
          \/ \E i \in Find(1, req[t].key) : req[t].prev = entries[i].blob_hash
    /\ t \in Admin =>
          req[t].id \in EntriesOf(1) /\ req[t].prev = entries[req[t].id].blob_hash

(* What holds of each request.  A transaction that may still write, or has   *)
(* written, has read what is still the case: this is why reading first and   *)
(* writing later is atomic.  A PUT in progress has a key and a content.  A   *)
(* DELETE that has committed names a row that is gone for good.              *)
ReqOk(t) ==
    /\ req[t].pc = "wrote" \/ (req[t].pc = "read" /\ ~req[t].stale) => Snapshot(t)
    /\ t \in Put /\ req[t].pc \in {"begin", "read", "wrote"} =>
          req[t].key \in Key /\ req[t].hash \in Hash
    /\ t \in Admin /\ req[t].pc = "begin" => req[t].id \in EntryId
    /\ t \in Admin /\ req[t].pc \in {"after", "ok"} =>
          req[t].id \in EntryId /\ entries[req[t].id] = NULL /\ req[t].id < nextEntry
    /\ t \in Admin => (t \in audited <=> req[t].pc = "ok")

(* The write lock belongs to the one transaction that has written, or to an  *)
(* outsider, who is counted.                                                 *)
OneWriter ==
    /\ \A t \in Request : req[t].pc = "wrote" <=> writer = t
    /\ writer = OUTSIDE => others > 0

TxInv ==
    /\ DbInv /\ 1 \in LiveProjects
    /\ TxTypeOK /\ OneWriter
    /\ \A t \in Request : ReqOk(t)

-----------------------------------------------------------------------------
Attempts == 1..MaxRetries

ClientPc == {"todo", "head", "put", "sent"} \cup Settled

ClientRecord == [pc : ClientPc, sha : Hash \cup {NULL}, attempt : 0..MaxRetries]

PushTypeOK ==
    /\ content \in [File -> Hash]
    /\ client \in [File -> ClientRecord]
    /\ exit \in {"running", "0", "1"}
    /\ dry \in BOOLEAN
    /\ offered \in [File -> SUBSET Hash]
    /\ seen \in SUBSET (Key \X Hash)
    /\ disturbed \in SUBSET Key
    /\ \A f \in File : content[f] \in offered[f]

(* push_one has hashed the file before it asks, counts an attempt when it    *)
(* sends one, and sends no more than MAX_RETRIES.                            *)
TaskOk(f) ==
    /\ client[f].pc = "head" => client[f].sha \in offered[f]
    /\ client[f].pc \in {"todo", "head"} => client[f].attempt = 0
    /\ client[f].pc = "put" => client[f].attempt < MaxRetries
    /\ client[f].pc = "sent" => client[f].attempt \in Attempts

(* Every request carries what its file contained, to the URL of that file;   *)
(* once it has committed the server has had it.                              *)
RequestOk(f, n) ==
    /\ req[<<f, n>>].pc \in {"begin", "read", "wrote"} =>
          req[<<f, n>>].key = UrlOf[f] /\ req[<<f, n>>].hash \in offered[f]
    /\ req[<<f, n>>].pc \in {"after", "ok"} =>
          \E c \in offered[f] : <<UrlOf[f], c>> \in seen

(* What the tables hold has been recorded. *)
EntriesSeen ==
    \A i \in LiveEntries :
        entries[i].project_id = 1 /\ <<entries[i].key, entries[i].blob_hash>> \in seen

(* The exit code is the tally of tasks that have all ended. *)
TallyOk ==
    /\ exit # "running" => \A f \in File : client[f].pc \in Settled
    /\ exit = "0" => \A f \in File : client[f].pc # "failed"
    /\ exit = "1" => \E f \in File : client[f].pc = "failed"

(* A success is that of one of the task's own requests. *)
PushedIsAnswered ==
    \A f \in File : client[f].pc = "pushed" /\ ~dry =>
                        \E n \in Attempts : req[<<f, n>>].pc = "ok"

(* f was found on the server or put there. *)
Landed(f) ==
    client[f].pc = "skipped" \/ \E n \in Attempts : req[<<f, n>>].pc \in {"after", "ok"}

(* What has landed undisturbed stays. *)
LandedStays ==
    \A f \in File : Undisturbed(f) /\ Landed(f) => Entry(UrlOf[f]) = offered[f]

(* Without faults the tasks know every request of theirs to be unsent,       *)
(* turned away, or the one they wait for.                                    *)
FaultFree ==
    faults = 0 =>
        \A f \in File :
            /\ \A n \in Attempts :
                  \/ req[<<f, n>>].pc \in {"idle", "error"}
                  \/ client[f].pc = "sent" /\ n = client[f].attempt
                     /\ req[<<f, n>>].pc # "timeout"
                  \/ client[f].pc = "pushed"
            /\ client[f].pc = "failed" => \E n \in Attempts : req[<<f, n>>].pc = "error"

(* A PUT that was turned away, or will be. *)
Beaten(t) == req[t].pc = "error" \/ (req[t].pc = "read" /\ req[t].stale)

(* A request that has written. *)
Winner(t) == req[t].pc \in {"wrote", "after", "ok"}

(* Without faults a PUT that was or will be turned away has lost to a PUT    *)
(* that has written, or to somebody outside the push who has.                *)
Contended ==
    faults = 0 /\ (\E t \in Put : Beaten(t)) => OutsiderWrote \/ \E t \in Put : Winner(t)

PushInv ==
    /\ TxInv /\ PushTypeOK
    /\ \A f \in File : TaskOk(f) /\ \A n \in Attempts : RequestOk(f, n)
    /\ EntriesSeen /\ TallyOk /\ PushedIsAnswered /\ LandedStays /\ FaultFree /\ Contended

-----------------------------------------------------------------------------
(* The transactions *)

(* A handler that has returned keeps nothing but the id of its entry. *)
LEMMA AtFields ==
    ASSUME NEW r \in ReqRecord, NEW pc \in TxPc
    PROVE  /\ At(r, pc) \in ReqRecord
           /\ At(r, pc).pc = pc /\ At(r, pc).id = r.id
  BY DEF At, ReqIdle, ReqRecord

(* One request moves; of the others only a snapshot may become stale. *)
OthersWait(t) ==
    \A r \in Request \ {t} :
        \/ req'[r] = req[r]
        \/ req[r].pc = "read" /\ req'[r] = [req[r] EXCEPT !.stale = TRUE]

(* The steps of one handler. *)
Handles(t) ==
    \/ TxStep(t) \/ TxFails(t) \/ TxDropped(t)
    \/ \E k \in Key, h \in Hash : PutArrives(t, k, h)
    \/ \E i \in EntryId : DeleteArrives(t, i)

(* Publishing a write moves its request and makes every snapshot stale. *)
LEMMA PublishedFields ==
    ASSUME TxTypeOK, NEW t \in Request, NEW pc \in TxPc, Published(t, pc)
    PROVE  /\ req' \in [Request -> ReqRecord]
           /\ req'[t].pc = pc /\ req'[t].id = req[t].id
           /\ OthersWait(t)
           /\ \A r \in Request \ {t} : req[r].pc = "read" => req'[r].stale
<1>1. req[t] \in ReqRecord /\ At(req[t], pc) \in ReqRecord
  BY AtFields DEF TxTypeOK
<1>2. req'[t] = At(req[t], pc)
  BY DEF Published
<1>3. ASSUME NEW r \in Request \ {t}
      PROVE  /\ req'[r] \in ReqRecord
             /\ req'[r] = IF req[r].pc = "read" THEN [req[r] EXCEPT !.stale = TRUE] ELSE req[r]
  <2>1. req'[r] = IF req[r].pc = "read" THEN [req[r] EXCEPT !.stale = TRUE] ELSE req[r]
    BY DEF Published, Aged
  <2>2. req[r] \in ReqRecord
    BY DEF TxTypeOK
  <2> QED
    BY <2>1, <2>2 DEF ReqRecord
<1>4. req' \in [Request -> ReqRecord]
  <2>1. \A r \in Request : req'[r] \in ReqRecord
    BY <1>1, <1>2, <1>3
  <2>2. req' = [r \in Request |-> req'[r]]
    BY DEF Published
  <2> QED
    BY <2>1, <2>2
<1>5. \A r \in Request \ {t} : req[r].pc = "read" => req'[r].stale
  <2> SUFFICES ASSUME NEW r \in Request \ {t}, req[r].pc = "read" PROVE req'[r].stale
    OBVIOUS
  <2>1. req[r] \in ReqRecord /\ req'[r] = [req[r] EXCEPT !.stale = TRUE]
    BY <1>3 DEF TxTypeOK
  <2> QED
    BY <2>1 DEF ReqRecord
<1>6. OthersWait(t)
  BY <1>3 DEF OthersWait
<1> QED
  BY <1>1, <1>2, <1>4, <1>5, <1>6, AtFields

(* Returning moves one request. *)
LEMMA GotoFields ==
    ASSUME TxTypeOK, NEW t \in Request, NEW pc \in TxPc, Goto(t, pc)
    PROVE  /\ req' \in [Request -> ReqRecord]
           /\ req'[t].pc = pc /\ req'[t].id = req[t].id
           /\ \A r \in Request \ {t} : req'[r] = req[r]
<1>1. req[t] \in ReqRecord /\ At(req[t], pc) \in ReqRecord
  BY AtFields DEF TxTypeOK
<1>2. req' = [req EXCEPT ![t] = At(req[t], pc)]
  BY DEF Goto
<1> QED
  BY <1>1, <1>2, AtFields DEF TxTypeOK

-----------------------------------------------------------------------------
(* What each step of a handler does to the requests. *)

(* A request arrives. *)
LEMMA ArrivesEffect ==
    ASSUME TxTypeOK, NEW t,
           \/ \E k \in Key, h \in Hash : PutArrives(t, k, h)
           \/ \E i \in EntryId : DeleteArrives(t, i)
    PROVE  /\ t \in Request /\ req[t].pc = "idle" /\ req'[t].pc = "begin"
           /\ req' \in [Request -> ReqRecord]
           /\ \A r \in Request \ {t} : req'[r] = req[r]
           /\ t \in Put => req'[t].key \in Key /\ req'[t].hash \in Hash
           /\ t \in Admin => req'[t].id \in EntryId
           /\ UNCHANGED <<dbVars, writer, audited, others, faults>>
<1>1. CASE \E k \in Key, h \in Hash : PutArrives(t, k, h)
  <2>1. PICK k \in Key, h \in Hash : PutArrives(t, k, h)
    BY <1>1
  <2>0. PICK n : n = [ReqIdle EXCEPT !.pc = "begin", !.key = k, !.hash = h]
    OBVIOUS
  <2>2. n \in ReqRecord /\ n.pc = "begin" /\ n.key = k /\ n.hash = h
    BY <2>0 DEF ReqIdle, ReqRecord, TxPc
  <2>3. t \in Put /\ t \in Request /\ t \notin Admin /\ req' = [req EXCEPT ![t] = n]
    BY <2>0, <2>1, TxAssumption DEF PutArrives, Request
  <2> QED
    BY <2>1, <2>2, <2>3 DEF PutArrives, TxTypeOK
<1>2. CASE \E i \in EntryId : DeleteArrives(t, i)
  <2>1. PICK i \in EntryId : DeleteArrives(t, i)
    BY <1>2
  <2>0. PICK n : n = [ReqIdle EXCEPT !.pc = "begin", !.id = i]
    OBVIOUS
  <2>2. n \in ReqRecord /\ n.pc = "begin" /\ n.id = i
    BY <2>0 DEF ReqIdle, ReqRecord, TxPc
  <2>3. t \in Admin /\ t \in Request /\ t \notin Put /\ req' = [req EXCEPT ![t] = n]
    BY <2>0, <2>1, TxAssumption DEF DeleteArrives, Request
  <2> QED
    BY <2>1, <2>2, <2>3 DEF DeleteArrives, TxTypeOK
<1> QED
  BY <1>1, <1>2

(* Begin and SELECT: the request has a current snapshot, or NotFound. *)
LEMMA ReadEffect ==
    ASSUME TxInv, NEW t \in Request, UpsertRead(t) \/ DeleteRead(t)
    PROVE  /\ req[t].pc = "begin"
           /\ req' \in [Request -> ReqRecord]
           /\ \A r \in Request \ {t} : req'[r] = req[r]
           /\ req'[t].key = req[t].key \/ t \in Admin
           /\ req'[t].hash = req[t].hash \/ t \in Admin
           /\ UNCHANGED <<dbVars, writer, audited, others, faults>>
           /\ \/ req'[t].pc = "read" /\ Snapshot(t)' /\ ~req'[t].stale
              \/ t \in Admin /\ req'[t].pc = "error"
<1> DEFINE q == req[t]
<1>0. q \in ReqRecord /\ TxTypeOK
  BY DEF TxInv, TxTypeOK
<1>1. CASE UpsertRead(t)
  <2> DEFINE rows == {entries[i].blob_hash : i \in Find(1, q.key)}
  <2>1. PICK prev : prev = IF rows = {} THEN NULL ELSE CHOOSE h \in rows : TRUE
    OBVIOUS
  <2>2. req' = [req EXCEPT ![t] = [q EXCEPT !.pc = "read", !.stale = FALSE, !.prev = prev]]
    BY <1>1, <2>1 DEF UpsertRead
  <2>3. \/ prev = NULL /\ Find(1, q.key) = {}
        \/ \E i \in Find(1, q.key) : prev = entries[i].blob_hash
    BY <2>1
  <2>4. prev \in Hash \cup {NULL}
    <3>1. ASSUME NEW i \in Find(1, q.key) PROVE entries[i].blob_hash \in Hash
      BY DEF TxInv, DbInv, DbTypeOK, Find, LiveEntries, EntryRow
    <3> QED
      BY <2>3, <3>1
  <2>5. PICK n : n = [q EXCEPT !.pc = "read", !.stale = FALSE, !.prev = prev]
    OBVIOUS
  <2>10. /\ n \in ReqRecord /\ n.pc = "read" /\ n.prev = prev /\ n.key = q.key
         /\ n.hash = q.hash /\ n.stale = FALSE
    BY <1>0, <2>4, <2>5 DEF ReqRecord, TxPc
  <2>6. req' \in [Request -> ReqRecord] /\ req'[t] = n
        /\ \A r \in Request \ {t} : req'[r] = req[r]
    BY <1>0, <2>2, <2>5, <2>10 DEF TxTypeOK
  <2>7. /\ q.pc = "begin" /\ t \in Put /\ t \notin Admin
        /\ UNCHANGED <<dbVars, writer, audited, others, faults>>
    BY <1>1, TxAssumption DEF UpsertRead
  <2>8. entries' = entries
    BY <2>7 DEF dbVars, tables
  <2>9. Snapshot(t)'
    BY <2>3, <2>6, <2>7, <2>8, <2>10 DEF Snapshot, Find, LiveEntries
  <2> QED
    BY <2>6, <2>7, <2>9, <2>10
<1>2. CASE DeleteRead(t)
  <2>1. /\ q.pc = "begin" /\ t \in Admin /\ t \notin Put
        /\ UNCHANGED <<dbVars, writer, audited, others, faults>>
    BY <1>2, TxAssumption DEF DeleteRead
  <2>2. CASE q.id \in EntriesOf(1)
    <3>1. PICK prev : prev = entries[q.id].blob_hash
      OBVIOUS
    <3>2. prev \in Hash
      BY <2>2, <3>1 DEF TxInv, DbInv, DbTypeOK, EntriesOf, LiveEntries, EntryRow
    <3>0. PICK n : n = [q EXCEPT !.pc = "read", !.stale = FALSE, !.prev = prev]
      OBVIOUS
    <3>3. n \in ReqRecord /\ n.pc = "read" /\ n.prev = prev /\ n.id = q.id /\ n.stale = FALSE
      BY <1>0, <3>0, <3>2 DEF ReqRecord, TxPc
    <3>4. req' = [req EXCEPT ![t] = n]
      BY <1>2, <2>2, <3>0, <3>1 DEF DeleteRead
    <3>5. req' \in [Request -> ReqRecord] /\ req'[t] = n
          /\ \A r \in Request \ {t} : req'[r] = req[r]
      BY <1>0, <3>3, <3>4 DEF TxTypeOK
    <3>6. Snapshot(t)'
      <4>1. entries' = entries
        BY <2>1 DEF dbVars, tables
      <4>2. req'[t].id \in EntriesOf(1)' /\ req'[t].prev = entries'[req'[t].id].blob_hash
        BY <2>2, <3>1, <3>3, <3>5, <4>1 DEF EntriesOf, LiveEntries
      <4> QED
        BY <2>1, <4>2 DEF Snapshot
    <3> QED
      BY <2>1, <3>3, <3>5, <3>6
  <2>3. CASE q.id \notin EntriesOf(1)
    <3>1. Goto(t, "error")
      BY <1>2, <2>3 DEF DeleteRead
    <3> QED
      BY <1>0, <2>1, <3>1, GotoFields DEF TxPc
  <2> QED
    BY <2>2, <2>3
<1> QED
  BY <1>1, <1>2

(* A request that waits keeps everything but the age of its snapshot. *)
LEMMA WaitFields ==
    ASSUME TxTypeOK, NEW t, OthersWait(t), NEW r \in Request \ {t}
    PROVE  /\ req'[r].pc = req[r].pc /\ req'[r].key = req[r].key /\ req'[r].hash = req[r].hash
           /\ req'[r].id = req[r].id /\ req'[r].prev = req[r].prev
           /\ (req'[r].stale = FALSE => req[r].stale = FALSE)
           /\ req'[r].stale \in BOOLEAN /\ req[r].stale \in BOOLEAN
<1>1. req[r] \in ReqRecord
  BY DEF TxTypeOK
<1>2. CASE req'[r] = req[r]
  BY <1>1, <1>2 DEF ReqRecord
<1>3. CASE req'[r] = [req[r] EXCEPT !.stale = TRUE]
  BY <1>1, <1>3 DEF ReqRecord
<1> QED
  BY <1>2, <1>3 DEF OthersWait

(* A request that another one's step leaves waiting stays as it should be:   *)
(* either the tables stay, or the step has made its snapshot stale.          *)
LEMMA OthersOk ==
    ASSUME TxInv, NEW t, NEW r \in Request \ {t}, OthersWait(t),
           audited' \in {audited, audited \cup {t}},
           \/ UNCHANGED dbVars
           \/ /\ nextEntry <= nextEntry' /\ nextEntry' \in Nat
              /\ \A i \in EntryId : entries[i] = NULL /\ i < nextEntry => entries'[i] = NULL
              /\ req[r].pc = "read" => req'[r].stale
              /\ req[r].pc # "wrote"
    PROVE  ReqOk(r)'
<1>1. req[r] \in ReqRecord /\ ReqOk(r)
  BY DEF TxInv, TxTypeOK
<1>2. /\ req'[r].pc = req[r].pc /\ req'[r].key = req[r].key /\ req'[r].hash = req[r].hash
      /\ req'[r].id = req[r].id /\ req'[r].prev = req[r].prev
      /\ (req'[r].stale = FALSE => req[r].stale = FALSE)
      /\ req'[r].stale \in BOOLEAN /\ req[r].stale \in BOOLEAN
  BY WaitFields DEF TxInv
<1>3. r \in audited' <=> r \in audited
  OBVIOUS
<1>4. CASE UNCHANGED dbVars
  <2>1. entries' = entries /\ nextEntry' = nextEntry
    BY <1>4 DEF dbVars, tables
  <2>2. Snapshot(r) => Snapshot(r)'
    BY <1>2, <2>1 DEF Snapshot, Find, EntriesOf, LiveEntries
  <2> QED
    BY <1>1, <1>2, <1>3, <2>1, <2>2 DEF ReqOk
<1>5. CASE ~UNCHANGED dbVars
  <2>1. /\ nextEntry <= nextEntry' /\ nextEntry' \in Nat
        /\ \A i \in EntryId : entries[i] = NULL /\ i < nextEntry => entries'[i] = NULL
        /\ req[r].pc = "read" => req'[r].stale
        /\ req[r].pc # "wrote"
    BY <1>5
  <2>2. nextEntry \in Nat /\ \A i \in EntryId : i \in Nat
    BY BoundsAssumption DEF TxInv, DbInv, DbTypeOK, EntryId
  <2>3. ~(req'[r].pc = "wrote" \/ (req'[r].pc = "read" /\ ~req'[r].stale))
    BY <1>2, <2>1
  <2>4. req[r].id \in EntryId /\ entries[req[r].id] = NULL /\ req[r].id < nextEntry
          => entries'[req[r].id] = NULL /\ req[r].id < nextEntry'
    BY <2>1, <2>2
  <2> QED
    BY <1>1, <1>2, <1>3, <2>3, <2>4 DEF ReqOk
<1> QED
  BY <1>4, <1>5

(* A step that leaves the tables and the lock to others, from what it does   *)
(* to its own request.                                                       *)
LEMMA QuietStepInv ==
    ASSUME TxInv, NEW t \in Request, UNCHANGED dbVars, OthersWait(t),
           req' \in [Request -> ReqRecord], audited' \in {audited, audited \cup ({t} \cap Admin)},
           others' = others, faults' \in Nat, OneWriter',
           writer' \in Request \cup {NULL, OUTSIDE}, ReqOk(t)'
    PROVE  TxInv'
<1>1. DbInv' /\ (1 \in LiveProjects)'
  <2>1. [DbNext]_dbVars
    OBVIOUS
  <2>2. projects' = projects
    BY DEF dbVars, tables
  <2> QED
    BY <2>1, <2>2, NextDbInv DEF TxInv, LiveProjects
<1>2. TxTypeOK'
  BY DEF TxInv, TxTypeOK
<1>3. audited' \in {audited, audited \cup {t}}
  <2>1. CASE t \in Admin
    <3>1. {t} \cap Admin = {t}
      BY <2>1
    <3> QED
      BY <3>1
  <2>2. CASE t \notin Admin
    <3>1. audited \cup ({t} \cap Admin) = audited
      BY <2>2
    <3> QED
      BY <3>1
  <2> QED
    BY <2>1, <2>2
<1>4. ASSUME NEW r \in Request \ {t} PROVE ReqOk(r)'
  BY <1>3, OthersOk
<1> QED
  BY <1>1, <1>2, <1>4 DEF TxInv

-----------------------------------------------------------------------------
(* The requests of a step keep the lock where it is. *)
LEMMA SameWriter ==
    ASSUME TxInv, NEW t \in Request, OthersWait(t), writer' = writer, others' = others,
           req'[t].pc # "wrote", req[t].pc # "wrote"
    PROVE  OneWriter' /\ writer' \in Request \cup {NULL, OUTSIDE}
<1>1. \A r \in Request \ {t} : req'[r].pc = req[r].pc
  BY WaitFields DEF TxInv
<1> QED
  BY <1>1 DEF OneWriter, TxInv, TxTypeOK

(* A request arrives. *)
LEMMA ArrivesInv ==
    ASSUME TxInv, NEW t,
           \/ \E k \in Key, h \in Hash : PutArrives(t, k, h)
           \/ \E i \in EntryId : DeleteArrives(t, i)
    PROVE  TxInv'
<1>1. /\ t \in Request /\ req[t].pc = "idle" /\ req'[t].pc = "begin"
      /\ req' \in [Request -> ReqRecord]
      /\ \A r \in Request \ {t} : req'[r] = req[r]
      /\ t \in Put => req'[t].key \in Key /\ req'[t].hash \in Hash
      /\ t \in Admin => req'[t].id \in EntryId
      /\ UNCHANGED <<dbVars, writer, audited, others, faults>>
  BY ArrivesEffect DEF TxInv
<1>2. OthersWait(t)
  BY <1>1 DEF OthersWait
<1>3. ReqOk(t)'
  BY <1>1 DEF ReqOk, TxInv
<1> QED
  BY <1>1, <1>2, <1>3, SameWriter, QuietStepInv DEF TxInv, TxTypeOK

(* A transaction begins. *)
LEMMA ReadInv ==
    ASSUME TxInv, NEW t \in Request, UpsertRead(t) \/ DeleteRead(t) PROVE TxInv'
<1>1. /\ req[t].pc = "begin"
      /\ req' \in [Request -> ReqRecord]
      /\ \A r \in Request \ {t} : req'[r] = req[r]
      /\ req'[t].key = req[t].key \/ t \in Admin
      /\ req'[t].hash = req[t].hash \/ t \in Admin
      /\ UNCHANGED <<dbVars, writer, audited, others, faults>>
      /\ \/ req'[t].pc = "read" /\ Snapshot(t)' /\ ~req'[t].stale
         \/ t \in Admin /\ req'[t].pc = "error"
  BY ReadEffect
<1>2. OthersWait(t)
  BY <1>1 DEF OthersWait
<1>3. ReqOk(t)'
  BY <1>1, TxAssumption DEF ReqOk, TxInv
<1> QED
  BY <1>1, <1>2, <1>3, SameWriter, QuietStepInv DEF TxInv, TxTypeOK

(* The first write takes the lock, on a snapshot that is current. *)
LEMMA WriteInv ==
    ASSUME TxInv, NEW t \in Request, TxWrite(t) PROVE TxInv'
<1> DEFINE q == req[t]
<1>1. q \in ReqRecord /\ ReqOk(t) /\ q.pc = "read" /\ ~q.stale /\ writer = NULL /\ writer' = t
  BY DEF TxInv, TxTypeOK, TxWrite
<1>2. PICK n : n = [q EXCEPT !.pc = "wrote"]
  OBVIOUS
<1>3. /\ n \in ReqRecord /\ n.pc = "wrote" /\ n.key = q.key /\ n.hash = q.hash /\ n.id = q.id
      /\ n.prev = q.prev
  BY <1>1, <1>2 DEF ReqRecord, TxPc
<1>4. /\ req' \in [Request -> ReqRecord] /\ req'[t] = n
      /\ \A r \in Request \ {t} : req'[r] = req[r]
  BY <1>2, <1>3 DEF TxWrite, TxInv, TxTypeOK
<1>5. OthersWait(t) /\ UNCHANGED <<dbVars, audited, others, faults>>
  BY <1>4 DEF OthersWait, TxWrite
<1>6. entries' = entries
  BY <1>5 DEF dbVars, tables
<1>7. Snapshot(t)'
  BY <1>1, <1>3, <1>4, <1>6 DEF ReqOk, Snapshot, Find, EntriesOf, LiveEntries
<1>8. ReqOk(t)'
  BY <1>1, <1>3, <1>4, <1>5, <1>7 DEF ReqOk
<1>9. OneWriter'
  BY <1>1, <1>3, <1>4, TxAssumption DEF OneWriter, TxInv
<1> QED
  BY <1>1, <1>4, <1>5, <1>8, <1>9, QuietStepInv DEF TxInv, TxTypeOK

(* A transaction that SQLite refuses, that fails or that is dropped rolls    *)
(* back and gives the lock back.                                             *)
LEMMA RollbackInv ==
    ASSUME TxInv, NEW t \in Request, TxBusy(t) \/ TxFails(t) \/ TxDropped(t)
    PROVE  /\ TxInv'
           /\ req[t].pc \in {"begin", "read", "wrote", "after"}
           /\ req'[t].pc \in {"error", "timeout"} /\ req'[t].id = req[t].id
           /\ \A r \in Request \ {t} : req'[r] = req[r]
<1>1. PICK pc \in {"error", "timeout"} : Goto(t, pc)
  BY DEF TxBusy, TxFails, TxDropped
<1>2. /\ req' \in [Request -> ReqRecord]
      /\ req'[t].pc = pc /\ req'[t].id = req[t].id
      /\ \A r \in Request \ {t} : req'[r] = req[r]
  BY <1>1, GotoFields DEF TxInv, TxPc
<1>3. req[t].pc \in {"begin", "read", "wrote", "after"} /\ UNCHANGED <<dbVars, audited, others>>
  BY DEF TxBusy, TxFails, TxDropped
<1>4. faults' \in Nat
  BY DEF TxBusy, TxFails, TxDropped, TxInv, TxTypeOK
<1>5. writer' = IF writer = t THEN NULL ELSE writer
  <2>1. CASE TxBusy(t)
    <3>1. writer # t
      BY <2>1 DEF TxBusy, TxInv, OneWriter
    <3> QED
      BY <2>1, <3>1 DEF TxBusy
  <2> QED
    BY <2>1 DEF TxFails, TxDropped, Unlock
<1>6. OneWriter' /\ writer' \in Request \cup {NULL, OUTSIDE}
  BY <1>2, <1>3, <1>5, TxAssumption DEF OneWriter, TxInv, TxTypeOK
<1>7. ReqOk(t)'
  BY <1>2, <1>3 DEF ReqOk, TxInv
<1>8. OthersWait(t)
  BY <1>2 DEF OthersWait
<1> QED
  BY <1>2, <1>3, <1>4, <1>6, <1>7, <1>8, QuietStepInv

-----------------------------------------------------------------------------
(* The commits *)

(* Entries::upsert, committed, is the one step of MetadataDb: the refcounts  *)
(* follow from the hash it read, which is still the one the key has.         *)
LEMMA UpsertIsAtomic ==
    ASSUME TxInv, NEW t \in Request, UpsertCommit(t)
    PROVE  /\ t \in Put /\ req[t].key \in Key /\ req[t].hash \in Hash
           /\ Upsert(1, req[t].key, req[t].hash)
<1> DEFINE k == req[t].key
           h == req[t].hash
           prev == req[t].prev
<1>1. t \in Put /\ req[t].pc = "wrote" /\ k \in Key /\ h \in Hash /\ Snapshot(t)
  BY DEF UpsertCommit, TxInv, ReqOk
<1>2. 1 \in LiveProjects
  BY DEF TxInv
<1>3. CASE Find(1, k) = {}
  <2>1. prev = NULL
    BY <1>1, <1>3 DEF Snapshot
  <2>2. refcount' = Incr(refcount, h)
    BY <2>1 DEF UpsertCommit, UpsertRefcounts
  <2>3. PICK c \in ClockRead :
            entries' = [entries EXCEPT ![nextEntry] =
                           [project_id |-> 1, key |-> k, blob_hash |-> h,
                            last_accessed |-> c, pinned |-> FALSE]]
    BY <1>3 DEF UpsertCommit
  <2>4. /\ nextEntry \in EntryId /\ nextEntry' = nextEntry + 1 /\ blobs' = blobs \cup {h}
        /\ UNCHANGED <<now, projects, nextProject>>
    BY <1>3 DEF UpsertCommit
  <2>5. UpsertInsert(1, k, h)
    BY <1>2, <1>3, <2>2, <2>3, <2>4 DEF UpsertInsert
  <2> QED
    BY <1>1, <2>5 DEF Upsert
<1>4. CASE Find(1, k) # {}
  <2>1. PICK i \in Find(1, k), c \in ClockRead :
            entries' = [entries EXCEPT ![i].blob_hash = h, ![i].last_accessed = c]
    BY <1>4 DEF UpsertCommit
  <2>2. PICK j \in Find(1, k) : prev = entries[j].blob_hash
    BY <1>1, <1>4 DEF Snapshot
  <2>3. i = j
    BY DEF TxInv, DbInv, UniqueKeys, Find
  <2>4. entries[i].blob_hash \in blobs /\ entries[i].blob_hash \in Hash
    BY DEF TxInv, DbInv, DbTypeOK, ForeignKeys, Find
  <2>5. prev # NULL
    BY <2>2, <2>3, <2>4, TxAssumption
  <2>6. refcount' = Rebind(entries[i].blob_hash, h)
    <3>1. refcount' = UpsertRefcounts(prev, h)
      BY DEF UpsertCommit
    <3> QED
      BY <2>2, <2>3, <2>5, <3>1 DEF UpsertRefcounts, Rebind
  <2>7. blobs' = blobs \cup {h} /\ UNCHANGED <<now, projects, nextProject, nextEntry>>
    BY <1>4 DEF UpsertCommit
  <2>8. UpsertReplace(1, k, h)
    BY <1>2, <2>1, <2>4, <2>6, <2>7 DEF UpsertReplace
  <2> QED
    BY <1>1, <2>8 DEF Upsert
<1> QED
  BY <1>3, <1>4

(* Entries::delete, committed, is the one step of MetadataDb. *)
LEMMA DeleteIsAtomic ==
    ASSUME TxInv, NEW t \in Request, DeleteCommit(t)
    PROVE  t \in Admin /\ req[t].id \in EntryId /\ Delete(1, req[t].id)
<1>1. t \in Admin /\ req[t].pc = "wrote" /\ Snapshot(t)
  BY DEF DeleteCommit, TxInv, ReqOk
<1>2. req[t].id \in EntriesOf(1) /\ req[t].prev = entries[req[t].id].blob_hash
  BY <1>1 DEF Snapshot
<1>3. req[t].id \in EntryId /\ entries[req[t].id].blob_hash \in blobs
  BY <1>2 DEF EntriesOf, LiveEntries, TxInv, DbInv, ForeignKeys
<1> QED
  BY <1>1, <1>2, <1>3 DEF DeleteCommit, Delete

(* Both are methods of the store, and none touches the projects. *)
LEMMA CommitIsMethod ==
    ASSUME TxInv, NEW t \in Request, UpsertCommit(t) \/ DeleteCommit(t)
    PROVE  DbNext /\ projects' = projects
<1>1. 1 \in ProjectId
  BY DEF TxInv, LiveProjects
<1>2. CASE UpsertCommit(t)
  BY <1>1, <1>2, UpsertIsAtomic DEF Upsert, UpsertInsert, UpsertReplace, DbNext
<1>3. CASE DeleteCommit(t)
  BY <1>1, <1>3, DeleteIsAtomic DEF Delete, DbNext
<1> QED
  BY <1>2, <1>3

(* A commit keeps the invariant: every other snapshot is stale from then on. *)
LEMMA CommitInv ==
    ASSUME TxInv, NEW t \in Request, UpsertCommit(t) \/ DeleteCommit(t)
    PROVE  /\ TxInv' /\ req[t].pc = "wrote" /\ req'[t].pc = "after" /\ OthersWait(t)
           /\ \A r \in Request \ {t} : req[r].pc = "read" => req'[r].stale
<1>1. /\ Published(t, "after") /\ req[t].pc = "wrote" /\ writer' = NULL
      /\ UNCHANGED <<audited, others, faults>>
  BY DEF UpsertCommit, DeleteCommit
<1>2. /\ req' \in [Request -> ReqRecord]
      /\ req'[t].pc = "after" /\ req'[t].id = req[t].id /\ OthersWait(t)
      /\ \A r \in Request \ {t} : req[r].pc = "read" => req'[r].stale
  BY <1>1, PublishedFields DEF TxInv, TxPc
<1>3. \A r \in Request \ {t} : req[r].pc # "wrote" /\ req'[r].pc = req[r].pc
  BY <1>1, <1>2, WaitFields DEF TxInv, OneWriter
<1>4. DbNext /\ projects' = projects
  BY CommitIsMethod
<1>5. DbInv' /\ (1 \in LiveProjects)'
  BY <1>4, NextDbInv DEF TxInv, LiveProjects
<1>6. /\ nextEntry <= nextEntry' /\ nextEntry \in Nat /\ nextEntry' \in Nat
      /\ \A i \in EntryId : entries[i] = NULL /\ i < nextEntry => entries'[i] = NULL
  BY <1>4, GoneForGood DEF TxInv, DbInv
<1>7. ASSUME NEW r \in Request \ {t} PROVE ReqOk(r)'
  BY <1>1, <1>2, <1>3, <1>6, OthersOk
<1>8. ReqOk(t)'
  <2>1. t \in Admin =>
           req'[t].id \in EntryId /\ entries'[req'[t].id] = NULL /\ req'[t].id < nextEntry'
    <3> SUFFICES ASSUME t \in Admin
                 PROVE  req'[t].id \in EntryId /\ entries'[req'[t].id] = NULL
                        /\ req'[t].id < nextEntry'
      OBVIOUS
    <3>1. DeleteCommit(t)
      BY TxAssumption DEF UpsertCommit
    <3>2. req[t].id \in EntryId /\ Delete(1, req[t].id)
      BY <3>1, DeleteIsAtomic
    <3>3. req[t].id < nextEntry /\ entries'[req[t].id] = NULL
      BY <3>2 DEF Delete, EntriesOf, TxInv, DbInv, DbTypeOK
    <3>4. req[t].id \in Nat
      BY <3>2, BoundsAssumption DEF EntryId
    <3> QED
      BY <1>2, <1>6, <3>2, <3>3, <3>4
  <2>2. t \in Admin => t \notin audited'
    BY <1>1 DEF TxInv, ReqOk
  <2> QED
    BY <1>2, <2>1, <2>2 DEF ReqOk
<1>9. OneWriter'
  BY <1>1, <1>2, <1>3, TxAssumption DEF OneWriter
<1>10. TxTypeOK'
  BY <1>1, <1>2 DEF TxInv, TxTypeOK
<1> QED
  BY <1>1, <1>2, <1>5, <1>7, <1>8, <1>9, <1>10 DEF TxInv

(* bump and audit are the last statement of their handlers. *)
LEMMA LastInv ==
    ASSUME TxInv, NEW t \in Request, PutBump(t) \/ DeleteAudit(t)
    PROVE  /\ TxInv' /\ req[t].pc = "after" /\ req'[t].pc = "ok" /\ OthersWait(t)
           /\ UNCHANGED <<dbVars, others, faults>>
<1>1. /\ Published(t, "ok") /\ req[t].pc = "after"
      /\ UNCHANGED <<dbVars, writer, others, faults>>
      /\ audited' = audited \cup ({t} \cap Admin)
  <2>1. CASE PutBump(t)
    <3>1. {t} \cap Admin = {}
      BY <2>1, TxAssumption DEF PutBump
    <3> QED
      BY <2>1, <3>1 DEF PutBump
  <2>2. CASE DeleteAudit(t)
    <3>1. {t} \cap Admin = {t}
      BY <2>2 DEF DeleteAudit
    <3> QED
      BY <2>2, <3>1 DEF DeleteAudit
  <2> QED
    BY <2>1, <2>2
<1>2. /\ req' \in [Request -> ReqRecord]
      /\ req'[t].pc = "ok" /\ req'[t].id = req[t].id /\ OthersWait(t)
  BY <1>1, PublishedFields DEF TxInv, TxPc
<1>3. OneWriter' /\ writer' \in Request \cup {NULL, OUTSIDE}
  BY <1>1, <1>2, SameWriter
<1>4. entries' = entries /\ nextEntry' = nextEntry
  BY <1>1 DEF dbVars, tables
<1>5. ReqOk(t)'
  BY <1>1, <1>2, <1>4 DEF ReqOk, TxInv
<1>6. faults' \in Nat
  BY <1>1 DEF TxInv, TxTypeOK
<1> QED
  BY <1>1, <1>2, <1>3, <1>5, <1>6, QuietStepInv

(* Every step of a handler keeps the invariant and is one method of the      *)
(* store or leaves the tables alone.                                         *)
LEMMA HandlesInv ==
    ASSUME TxInv, NEW t \in Request, Handles(t)
    PROVE  TxInv' /\ [DbNext]_dbVars
<1>1. CASE (\E k \in Key, h \in Hash : PutArrives(t, k, h)) \/ (\E i \in EntryId : DeleteArrives(t, i))
  BY <1>1, ArrivesInv, ArrivesEffect DEF TxInv
<1>2. CASE UpsertRead(t) \/ DeleteRead(t)
  BY <1>2, ReadInv DEF UpsertRead, DeleteRead
<1>3. CASE TxWrite(t)
  BY <1>3, WriteInv DEF TxWrite
<1>4. CASE TxBusy(t) \/ TxFails(t) \/ TxDropped(t)
  BY <1>4, RollbackInv DEF TxBusy, TxFails, TxDropped
<1>5. CASE UpsertCommit(t) \/ DeleteCommit(t)
  BY <1>5, CommitInv, CommitIsMethod
<1>6. CASE PutBump(t) \/ DeleteAudit(t)
  BY <1>6, LastInv
<1> QED
  BY <1>1, <1>2, <1>3, <1>4, <1>5, <1>6 DEF Handles, TxStep

(* What an outsider writes is a method of the store, which leaves the        *)
(* projects alone.                                                           *)
LEMMA OutsideIsMethod ==
    ASSUME TxInv, OtherWrites PROVE [DbNext]_dbVars /\ projects' = projects
<1>1. 1 \in ProjectId
  BY DEF TxInv, LiveProjects
<1>2. projects' = projects
  BY DEF OtherWrites, Touch, Delete, DeleteBlobRow, PurgeBlob, Upsert, UpsertInsert,
         UpsertReplace, dbVars, tables
<1>3. DbNext \/ UNCHANGED dbVars
  BY <1>1 DEF OtherWrites, Upsert, DbNext
<1> QED
  BY <1>2, <1>3

(* An outsider's commit makes every snapshot stale. *)
LEMMA AgedFields ==
    ASSUME TxInv, req' = [r \in Request |-> Aged(req[r])]
    PROVE  /\ req' \in [Request -> ReqRecord] /\ OthersWait(OUTSIDE)
           /\ \A r \in Request : req'[r].pc = req[r].pc /\ (req[r].pc = "read" => req'[r].stale)
<1>1. ASSUME NEW r \in Request
      PROVE  /\ req'[r] \in ReqRecord /\ req'[r].pc = req[r].pc
             /\ req[r].pc = "read" => req'[r].stale
             /\ req'[r] = req[r] \/ (req[r].pc = "read" /\ req'[r] = [req[r] EXCEPT !.stale = TRUE])
  <2>1. req[r] \in ReqRecord /\ req'[r] = Aged(req[r])
    BY DEF TxInv, TxTypeOK
  <2> QED
    BY <2>1 DEF Aged, ReqRecord
<1> QED
  BY <1>1 DEF OthersWait

(* Outsiders keep the invariant: while one has the lock no request has       *)
(* written, and its commit makes every snapshot stale.                       *)
LEMMA OutsideInv ==
    ASSUME TxInv, OtherLocks \/ OtherEnds
    PROVE  /\ TxInv' /\ [DbNext]_dbVars
           /\ OthersWait(OUTSIDE) /\ UNCHANGED <<audited, faults>>
           /\ \A r \in Request : req'[r].pc = req[r].pc
           /\ others' > 0
<1>1. /\ OUTSIDE \notin Request /\ OUTSIDE # NULL /\ NULL \notin Request
      /\ writer \in {NULL, OUTSIDE} /\ writer' \in {NULL, OUTSIDE} /\ others \in Nat
  BY TxAssumption DEF OtherLocks, OtherEnds, OtherCommits, OtherRollsBack, TxInv, TxTypeOK
<1>2. \A t \in Request : req[t].pc # "wrote"
  BY <1>1 DEF TxInv, OneWriter
<1>3. CASE OtherLocks \/ OtherRollsBack
  <2>1. /\ UNCHANGED <<dbVars, req, audited, faults>> /\ others' \in Nat /\ others' > 0
    BY <1>1, <1>3 DEF OtherLocks, OtherRollsBack, TxInv, OneWriter
  <2>2. OneWriter'
    BY <1>1, <1>2, <2>1 DEF OneWriter
  <2>3. DbInv' /\ projects' = projects /\ entries' = entries /\ nextEntry' = nextEntry
    BY <2>1, NextDbInv DEF TxInv, dbVars, tables
  <2>4. \A t \in Request : ReqOk(t)'
    BY <2>1, <2>3 DEF TxInv, ReqOk, Snapshot, Find, EntriesOf, LiveEntries
  <2>5. TxTypeOK'
    BY <1>1, <2>1 DEF TxInv, TxTypeOK
  <2> QED
    BY <2>1, <2>2, <2>3, <2>4, <2>5 DEF TxInv, LiveProjects, OthersWait
<1>4. CASE OtherCommits
  <2>1. /\ OtherWrites /\ writer = OUTSIDE /\ writer' = NULL
        /\ req' = [r \in Request |-> Aged(req[r])]
        /\ UNCHANGED <<audited, others, faults>>
    BY <1>4 DEF OtherCommits
  <2>2. [DbNext]_dbVars /\ projects' = projects
    BY <2>1, OutsideIsMethod
  <2>3. DbInv' /\ (1 \in LiveProjects)'
    BY <2>2, NextDbInv DEF TxInv, LiveProjects
  <2>4. /\ req' \in [Request -> ReqRecord] /\ OthersWait(OUTSIDE)
        /\ \A r \in Request : req'[r].pc = req[r].pc /\ (req[r].pc = "read" => req'[r].stale)
    BY <2>1, AgedFields
  <2>5. \/ UNCHANGED dbVars
        \/ /\ nextEntry <= nextEntry' /\ nextEntry' \in Nat
           /\ \A i \in EntryId : entries[i] = NULL /\ i < nextEntry => entries'[i] = NULL
    BY <2>2, GoneForGood DEF TxInv, DbInv
  <2>6. ASSUME NEW r \in Request PROVE ReqOk(r)'
    BY <1>1, <1>2, <2>1, <2>4, <2>5, OthersOk
  <2>7. OneWriter' /\ TxTypeOK'
    BY <1>1, <1>2, <2>1, <2>4 DEF OneWriter, TxTypeOK, TxInv
  <2>8. others' > 0
    BY <2>1 DEF TxInv, OneWriter
  <2> QED
    BY <2>1, <2>2, <2>3, <2>4, <2>6, <2>7, <2>8 DEF TxInv
<1> QED
  BY <1>3, <1>4 DEF OtherEnds

(* A step of anybody else. *)
LEMMA ElsewhereInv ==
    ASSUME TxInv, UNCHANGED <<dbVars, req, writer, audited, others>>, faults' \in Nat
    PROVE  TxInv'
<1>1. DbInv' /\ projects' = projects /\ entries' = entries /\ nextEntry' = nextEntry
  BY NextDbInv DEF TxInv, dbVars, tables
<1>2. \A t \in Request : ReqOk(t)'
  BY <1>1 DEF TxInv, ReqOk, Snapshot, Find, EntriesOf, LiveEntries
<1> QED
  BY <1>1, <1>2 DEF TxInv, TxTypeOK, OneWriter, LiveProjects

-----------------------------------------------------------------------------
(* The initial tables *)

(* A store with project 1 and at most one entry is a good one. *)
LEMMA InitTxInv == TxInit => TxInv
<1> SUFFICES ASSUME TxInit PROVE TxInv
  OBVIOUS
<1>1. 1 \in ProjectId /\ 1 \in LiveProjects /\ LiveProjects = ProjectId
  BY BoundsAssumption, TxAssumption, NullAssumption DEF TxInit, ProjectId, LiveProjects
<1>2. LiveEntries = {} \/ LiveEntries = {1}
  BY DEF TxInit
<1>3. ASSUME NEW i \in LiveEntries
      PROVE  i = 1 /\ i \in EntryId /\ entries[i] \in EntryRow /\ entries[i].project_id = 1
  BY DEF TxInit, LiveEntries
<1>4. /\ nextEntry \in 1..(MaxEntryId + 1)
      /\ \A i \in LiveEntries : i < nextEntry
  <2>1. CASE LiveEntries = {}
    BY <2>1, FS_EmptySet, BoundsAssumption DEF TxInit
  <2>2. CASE LiveEntries = {1}
    <3>1. Cardinality(LiveEntries) = 1
      BY <2>2, FS_Singleton
    <3>2. 1 \in EntryId
      BY <1>3, <2>2
    <3> QED
      BY <2>2, <3>1, <3>2, BoundsAssumption DEF TxInit, EntryId
  <2> QED
    BY <1>2, <2>1, <2>2
<1>5. refcount = [h \in Hash |-> Cardinality(Refs(h))] /\ \A h : Cardinality(Refs(h)) \in Nat
  BY RefsFinite DEF TxInit
<1>6. blobs = {entries[i].blob_hash : i \in LiveEntries} /\ blobs \in SUBSET Hash
  BY <1>3 DEF TxInit, EntryRow
<1>7. DbTypeOK
  <2>1. now \in Time /\ nextProject \in 1..(MaxProjectId + 1)
    BY BoundsAssumption DEF TxInit, Time
  <2>2. projects \in [ProjectId -> ProjectRow \cup {NULL}] /\ entries \in [EntryId -> EntryRow \cup {NULL}]
    BY DEF TxInit
  <2>3. refcount \in [Hash -> Int]
    BY <1>5
  <2>4. \A p \in LiveProjects : p < nextProject
    BY BoundsAssumption DEF TxInit, LiveProjects, ProjectId
  <2> QED
    BY <1>4, <1>6, <2>1, <2>2, <2>3, <2>4 DEF DbTypeOK
<1>8. ForeignKeys /\ UniqueKeys
  BY <1>1, <1>3, <1>6 DEF ForeignKeys, UniqueKeys
<1>9. NoUndercount
  <2>1. ASSUME NEW h \in Hash PROVE Drift(h) >= 0
    BY <1>5 DEF Drift
  <2>2. ASSUME NEW h \in Hash \ blobs PROVE refcount[h] = 0
    <3>1. Refs(h) = {}
      BY <1>6, <2>2 DEF Refs
    <3> QED
      BY <1>5, <3>1, FS_EmptySet
  <2> QED
    BY <2>1, <2>2 DEF NoUndercount
<1>10. req = [t \in Request |-> ReqIdle] /\ ReqIdle \in ReqRecord /\ ReqIdle.pc = "idle"
  BY DEF TxInit, ReqIdle, ReqRecord, TxPc
<1>11. TxTypeOK /\ OneWriter
  BY <1>10, TxAssumption DEF TxInit, TxTypeOK, OneWriter
<1>12. \A t \in Request : ReqOk(t)
  BY <1>10 DEF ReqOk, TxInit
<1> QED
  BY <1>1, <1>7, <1>8, <1>9, <1>11, <1>12 DEF TxInv, DbInv

-----------------------------------------------------------------------------
(* What the server has under a URL *)

(* A URL has one content or none. *)
LEMMA EntryIsSingle ==
    ASSUME DbInv, NEW k, NEW c \in Entry(k) PROVE Entry(k) = {c} /\ c \in Hash
<1>1. \A i, j \in Find(1, k) : i = j
  BY DEF DbInv, UniqueKeys, Find
<1>2. \A i \in Find(1, k) : entries[i].blob_hash \in Hash
  BY DEF DbInv, DbTypeOK, Find, LiveEntries, EntryRow
<1> QED
  BY <1>1, <1>2 DEF Entry

(* While the tables stay, so does what the server has. *)
LEMMA SameEntry ==
    ASSUME UNCHANGED dbVars, NEW k PROVE Entry(k)' = Entry(k) /\ LiveEntries' = LiveEntries
  BY DEF Entry, Find, LiveEntries, dbVars, tables

(* A committed PUT is what the server has under its URL, and there alone. *)
LEMMA UpsertSets ==
    ASSUME TxInv, NEW k \in Key, NEW h \in Hash, Upsert(1, k, h)
    PROVE  /\ Entry(k)' = {h}
           /\ \A g \in Key \ {k} : Entry(g)' = Entry(g)
           /\ \A i \in LiveEntries' :
                 \/ i \in LiveEntries /\ entries'[i] = entries[i]
                 \/ entries'[i].project_id = 1 /\ entries'[i].key = k /\ entries'[i].blob_hash = h
           /\ \E i \in LiveEntries' : entries'[i].key = k /\ entries'[i].blob_hash = h
<1>1. DbTypeOK /\ UniqueKeys /\ ClockRead \subseteq Time
  BY ClockReadIsTime DEF TxInv, DbInv
<1>2. PICK j \in EntryId :
          /\ entries'[j] # NULL /\ entries'[j].project_id = 1
          /\ entries'[j].key = k /\ entries'[j].blob_hash = h
          /\ \A i \in EntryId \ {j} : entries'[i] = entries[i]
          /\ entries[j] # NULL => entries[j].project_id = 1 /\ entries[j].key = k
          /\ Find(1, k) \subseteq {j}
  <2>1. CASE UpsertInsert(1, k, h)
    <3>0. PICK c \in ClockRead :
              entries' = [entries EXCEPT ![nextEntry] =
                             [project_id |-> 1, key |-> k, blob_hash |-> h,
                              last_accessed |-> c, pinned |-> FALSE]]
      BY <2>1 DEF UpsertInsert
    <3>1. PICK row : row = [project_id |-> 1, key |-> k, blob_hash |-> h,
                            last_accessed |-> c, pinned |-> FALSE]
      OBVIOUS
    <3>2. row \in EntryRow /\ row # NULL
      <4>1. 1 \in ProjectId
        BY DEF TxInv, LiveProjects
      <4>2. row \in EntryRow
        BY <1>1, <3>1, <4>1 DEF EntryRow
      <4> QED
        BY <4>2, NullAssumption
    <3>3. entries' = [entries EXCEPT ![nextEntry] = row] /\ nextEntry \in EntryId /\ Find(1, k) = {}
      BY <2>1, <3>0, <3>1 DEF UpsertInsert
    <3>4. entries[nextEntry] = NULL
      <4>1. nextEntry \in Nat
        BY <3>3, BoundsAssumption DEF EntryId
      <4> QED
        BY <1>1, <3>3, <4>1 DEF DbTypeOK, LiveEntries
    <3>5. row.project_id = 1 /\ row.key = k /\ row.blob_hash = h
      BY <3>1
    <3>6. entries'[nextEntry] = row /\ \A i \in EntryId \ {nextEntry} : entries'[i] = entries[i]
      BY <1>1, <3>3 DEF DbTypeOK
    <3> QED
      BY <3>2, <3>3, <3>4, <3>5, <3>6
  <2>2. CASE UpsertReplace(1, k, h)
    <3>1. PICK j \in Find(1, k), c \in ClockRead :
              entries' = [entries EXCEPT ![j].blob_hash = h, ![j].last_accessed = c]
      BY <2>2 DEF UpsertReplace
    <3>2. j \in EntryId /\ entries[j] \in EntryRow /\ entries[j].project_id = 1 /\ entries[j].key = k
      BY <1>1 DEF Find, LiveEntries, DbTypeOK
    <3>3. PICK row : row = [entries[j] EXCEPT !.blob_hash = h, !.last_accessed = c]
      OBVIOUS
    <3>4. row \in EntryRow /\ row.project_id = 1 /\ row.key = k /\ row.blob_hash = h
      BY <1>1, <3>2, <3>3 DEF EntryRow
    <3>5. entries'[j] = row /\ \A i \in EntryId \ {j} : entries'[i] = entries[i]
      BY <1>1, <3>1, <3>2, <3>3 DEF DbTypeOK
    <3>6. Find(1, k) \subseteq {j}
      BY <1>1 DEF UniqueKeys, Find
    <3> QED
      BY <3>2, <3>4, <3>5, <3>6, NullAssumption
  <2> QED
    BY <1>1, <2>1, <2>2 DEF Upsert
<1>3. Find(1, k)' = {j}
  BY <1>2 DEF Find, LiveEntries
<1>6. Entry(k)' = {h}
  BY <1>2, <1>3 DEF Entry
<1>7. ASSUME NEW g \in Key \ {k} PROVE Entry(g)' = Entry(g)
  <2>1. Find(1, g)' = Find(1, g) /\ j \notin Find(1, g) /\ Find(1, g) \subseteq EntryId
    BY <1>2, <1>7 DEF Find, LiveEntries
  <2>2. \A i \in Find(1, g) : entries'[i] = entries[i]
    BY <1>2, <2>1
  <2> QED
    BY <2>1, <2>2 DEF Entry
<1>8. \A i \in LiveEntries' : i = j \/ (i \in LiveEntries /\ entries'[i] = entries[i])
  BY <1>2 DEF LiveEntries
<1>9. j \in LiveEntries'
  BY <1>2 DEF LiveEntries
<1> QED
  BY <1>2, <1>6, <1>7, <1>8, <1>9

(* Rows are only removed, or keep their key and their content. *)
RowsShrink ==
    \A i \in LiveEntries' :
        /\ i \in LiveEntries /\ entries'[i].project_id = entries[i].project_id
        /\ entries'[i].key = entries[i].key /\ entries'[i].blob_hash = entries[i].blob_hash

(* Then every URL keeps what it has, or loses it. *)
LEMMA ShrinkClears ==
    ASSUME DbInv, RowsShrink, NEW k PROVE Entry(k)' = Entry(k) \/ Entry(k)' = {}
<1>1. \A i, j \in Find(1, k) : i = j
  BY DEF DbInv, UniqueKeys, Find
<1>2. Find(1, k)' \subseteq Find(1, k) /\ \A i \in Find(1, k)' : entries'[i].blob_hash = entries[i].blob_hash
  BY DEF RowsShrink, Find
<1>3. CASE Find(1, k)' = {}
  BY <1>3 DEF Entry
<1>4. ASSUME NEW i \in Find(1, k)' PROVE Entry(k)' = Entry(k)
  <2>1. Find(1, k)' = {i} /\ Find(1, k) = {i}
    BY <1>1, <1>2
  <2> QED
    BY <1>2, <2>1 DEF Entry
<1> QED
  BY <1>3, <1>4

(* A deletion removes a row. *)
LEMMA DeleteShrinks ==
    ASSUME DbInv, NEW j \in EntryId, Delete(1, j) PROVE RowsShrink
  BY DEF Delete, RowsShrink, LiveEntries, DbInv, DbTypeOK

(* It empties the URL of its entry, and no other. *)
LEMMA DeleteClears ==
    ASSUME TxInv, NEW j \in EntryId, Delete(1, j)
    PROVE  \E k \in Key : Entry(k)' = {} /\ \A g \in Key \ {k} : Entry(g)' = Entry(g)
<1>1. DbTypeOK /\ UniqueKeys
  BY DEF TxInv, DbInv
<1>2. /\ j \in LiveEntries /\ entries[j].project_id = 1 /\ entries[j].key \in Key
      /\ entries'[j] = NULL /\ \A i \in EntryId \ {j} : entries'[i] = entries[i]
  BY <1>1 DEF Delete, EntriesOf, LiveEntries, DbTypeOK, EntryRow
<1>3. PICK k \in Key : k = entries[j].key
  BY <1>2
<1>4. Find(1, k)' = {}
  BY <1>1, <1>2, <1>3 DEF Find, LiveEntries, UniqueKeys
<1>5. Entry(k)' = {}
  BY <1>4 DEF Entry
<1>6. ASSUME NEW g \in Key \ {k} PROVE Entry(g)' = Entry(g)
  <2>1. Find(1, g)' = Find(1, g) /\ j \notin Find(1, g) /\ Find(1, g) \subseteq EntryId
    BY <1>2, <1>3, <1>6 DEF Find, LiveEntries
  <2>2. \A i \in Find(1, g) : entries'[i] = entries[i]
    BY <1>2, <2>1
  <2> QED
    BY <2>1, <2>2 DEF Entry
<1> QED
  BY <1>5, <1>6

(* What an outsider writes is a PUT, or removes rows, or neither. *)
LEMMA OutsideShrinks ==
    ASSUME DbInv, OtherWrites PROVE RowsShrink \/ \E k \in Key, h \in Hash : Upsert(1, k, h)
<1>1. DbTypeOK
  BY DEF DbInv
<1>2. ASSUME NEW i \in EntryId, Touch(i) PROVE RowsShrink
  <2>1. CASE i \in LiveEntries
    <3>1. PICK t \in ClockRead : entries' = [entries EXCEPT ![i].last_accessed = t]
      BY <1>2, <2>1 DEF Touch
    <3>2. entries[i] \in EntryRow
      BY <1>1, <2>1 DEF DbTypeOK, LiveEntries
    <3>3. PICK row : row = [entries[i] EXCEPT !.last_accessed = t]
      OBVIOUS
    <3>4. /\ row.project_id = entries[i].project_id /\ row.key = entries[i].key
          /\ row.blob_hash = entries[i].blob_hash
      BY <3>2, <3>3 DEF EntryRow
    <3>5. entries'[i] = row /\ \A j \in EntryId \ {i} : entries'[j] = entries[j]
      BY <1>1, <3>1, <3>3 DEF DbTypeOK
    <3> QED
      BY <2>1, <3>4, <3>5 DEF RowsShrink, LiveEntries
  <2>2. CASE i \notin LiveEntries
    BY <1>2, <2>2 DEF Touch, RowsShrink, LiveEntries
  <2> QED
    BY <2>1, <2>2
<1>3. ASSUME NEW h \in Hash, DeleteBlobRow(h) PROVE RowsShrink
  BY <1>3 DEF DeleteBlobRow, RowsShrink, LiveEntries
<1>4. ASSUME NEW h \in Hash, PurgeBlob(h) PROVE RowsShrink
  BY <1>4 DEF PurgeBlob, RowsShrink, LiveEntries
<1>5. ASSUME UNCHANGED dbVars PROVE RowsShrink
  BY <1>5 DEF dbVars, tables, RowsShrink, LiveEntries
<1> QED
  BY <1>2, <1>3, <1>4, <1>5, DeleteShrinks DEF OtherWrites

-----------------------------------------------------------------------------
(* The tasks of the client *)

(* The requests of the files are PUTs, and only they are. *)
LEMMA FileRequests ==
    /\ \A f \in File, n \in Attempts : <<f, n>> \in Put /\ <<f, n>> \in Request /\ <<f, n>> \notin Admin
    /\ \A t \in Put : \E f \in File, n \in Attempts : t = <<f, n>>
  BY PushAssumption, TxAssumption DEF Attempts, Request

(* A task that goes on to pc. *)
LEMMA SettleFields ==
    ASSUME PushTypeOK, NEW f \in File, NEW pc \in ClientPc, Settle(f, pc)
    PROVE  /\ client' \in [File -> ClientRecord]
           /\ client'[f].pc = pc
           /\ pc \notin Settled => client'[f].attempt = client[f].attempt
           /\ \A g \in File \ {f} : client'[g] = client[g]
<1>1. client[f] \in ClientRecord
  BY DEF PushTypeOK
<1>2. PICK a : a = IF pc \in Settled THEN 0 ELSE client[f].attempt
  OBVIOUS
<1>3. PICK n : n = [client[f] EXCEPT !.pc = pc, !.sha = NULL, !.attempt = a]
  OBVIOUS
<1>4. 0 \in 0..MaxRetries
  BY PushAssumption
<1>5. n \in ClientRecord /\ n.pc = pc /\ n.attempt = a
  BY <1>1, <1>2, <1>3, <1>4 DEF ClientRecord
<1>6. client' = [client EXCEPT ![f] = n]
  BY <1>2, <1>3 DEF Settle
<1> QED
  BY <1>2, <1>5, <1>6 DEF PushTypeOK

(* The steps of a task that change nothing on the server, one disjunct for   *)
(* each way to go on.                                                        *)
TaskGoesOn(f) ==
    \/ client[f].pc = "todo" /\ client'[f].pc = "head" /\ client'[f].sha = content[f]
       /\ client'[f].attempt = 0 /\ faults' = faults
    \/ client[f].pc = "head" /\ client'[f].pc = "skipped" /\ faults' = faults
       /\ client[f].sha \in Entry(UrlOf[f])
    \/ client[f].pc = "head" /\ client'[f].pc = "pushed" /\ faults' = faults /\ dry
    \/ client[f].pc = "head" /\ client'[f].pc = "put" /\ faults' = faults
       /\ client'[f].attempt = 0
    \/ client[f].pc = "sent" /\ client'[f].pc = "pushed" /\ faults' = faults
       /\ req[Attempt(f)].pc = "ok"
    \/ client[f].pc = "sent" /\ client'[f].pc = "put" /\ client[f].attempt < MaxRetries
       /\ client'[f].attempt = client[f].attempt
       /\ ((faults' = faults /\ req[Attempt(f)].pc = "error") \/ faults' = faults + 1)
    \/ client[f].pc = "sent" /\ client'[f].pc = "failed"
       /\ ((faults' = faults /\ req[Attempt(f)].pc \in {"error", "timeout"})
           \/ faults' = faults + 1)
    \/ client[f].pc \in {"head", "put"} /\ client'[f].pc = "failed" /\ faults' = faults + 1

TaskAlone(f) ==
    Spawn(f) \/ HeadAnswered(f) \/ PutAnswered(f) \/ GatewayError(f) \/ TaskFails(f)

(* What the steps of push_one between its requests do. *)
LEMMA TaskEffect ==
    ASSUME PushInv, NEW f \in File, TaskAlone(f)
    PROVE  /\ TaskGoesOn(f)
           /\ client' \in [File -> ClientRecord] /\ \A g \in File \ {f} : client'[g] = client[g]
           /\ UNCHANGED <<dbVars, req, writer, audited, others>>
           /\ UNCHANGED <<content, exit, dry, offered, seen, disturbed>>
           /\ faults' \in Nat
<1>1. PushTypeOK /\ TaskOk(f) /\ client[f] \in ClientRecord /\ faults \in Nat
  BY DEF PushInv, PushTypeOK, TxInv, TxTypeOK
<1>2. /\ UNCHANGED <<dbVars, req, writer, audited, others>>
      /\ UNCHANGED <<content, exit, dry, offered, seen, disturbed>>
  BY DEF TaskAlone, Spawn, HeadAnswered, PutAnswered, GatewayError, TaskFails, ClientOnly, txVars
<1>3. faults' = faults \/ faults' = faults + 1
  BY DEF TaskAlone, Spawn, HeadAnswered, PutAnswered, GatewayError, TaskFails, ClientOnly, txVars
<1>4. CASE Spawn(f)
  <2>1. PICK n : n = [client[f] EXCEPT !.pc = "head", !.sha = content[f]]
    OBVIOUS
  <2>2. n \in ClientRecord /\ n.pc = "head" /\ n.sha = content[f] /\ n.attempt = client[f].attempt
    BY <1>1, <2>1 DEF ClientRecord, ClientPc, PushTypeOK
  <2>3. client' = [client EXCEPT ![f] = n] /\ client[f].pc = "todo" /\ faults' = faults
    BY <1>4, <2>1 DEF Spawn, Sha256File, ClientOnly, txVars
  <2>4. client'[f] = n /\ client' \in [File -> ClientRecord]
        /\ \A g \in File \ {f} : client'[g] = client[g]
    BY <1>1, <2>2, <2>3 DEF PushTypeOK
  <2>5. TaskGoesOn(f)
    BY <1>1, <2>2, <2>3, <2>4 DEF TaskGoesOn, TaskOk
  <2> QED
    BY <1>1, <1>2, <1>3, <2>4, <2>5
<1>5. CASE HeadAnswered(f)
  <2>1. client[f].pc = "head" /\ faults' = faults
    BY <1>5 DEF HeadAnswered, ClientOnly, txVars
  <2>2. PICK pc \in {"skipped", "pushed", "put"} :
            /\ Settle(f, pc)
            /\ pc = "skipped" => client[f].sha \in Entry(UrlOf[f])
            /\ pc = "pushed" => dry
    <3>1. CASE client[f].sha \in Entry(UrlOf[f])
      BY <1>5, <3>1 DEF HeadAnswered
    <3>2. CASE client[f].sha \notin Entry(UrlOf[f]) /\ dry
      BY <1>5, <3>2 DEF HeadAnswered
    <3>3. CASE client[f].sha \notin Entry(UrlOf[f]) /\ ~dry
      BY <1>5, <3>3 DEF HeadAnswered
    <3> QED
      BY <3>1, <3>2, <3>3
  <2>3. pc \in ClientPc /\ "put" \notin Settled
    BY DEF ClientPc, Settled
  <2> QED
    BY <1>1, <1>2, <1>3, <2>1, <2>2, <2>3, SettleFields DEF TaskGoesOn, TaskOk
<1>6. CASE PutAnswered(f)
  <2>1. client[f].pc = "sent" /\ faults' = faults
    BY <1>6 DEF PutAnswered, ClientOnly, txVars
  <2>2. PICK pc \in {"pushed", "put", "failed"} :
            /\ Settle(f, pc)
            /\ pc = "pushed" => req[Attempt(f)].pc = "ok"
            /\ pc = "put" => req[Attempt(f)].pc = "error" /\ client[f].attempt < MaxRetries
            /\ pc = "failed" => req[Attempt(f)].pc \in {"error", "timeout"}
    <3>1. CASE req[Attempt(f)].pc = "ok" /\ Settle(f, "pushed")
      BY <3>1
    <3>2. CASE req[Attempt(f)].pc = "error" /\ Retry(f)
      BY <3>2 DEF Retry
    <3>3. CASE req[Attempt(f)].pc = "timeout" /\ Settle(f, "failed")
      BY <3>3
    <3> QED
      BY <1>6, <3>1, <3>2, <3>3 DEF PutAnswered
  <2>3. pc \in ClientPc /\ "put" \notin Settled
    BY DEF ClientPc, Settled
  <2> QED
    BY <1>1, <1>2, <1>3, <2>1, <2>2, <2>3, SettleFields DEF TaskGoesOn
<1>7. CASE GatewayError(f)
  <2>1. client[f].pc = "sent" /\ faults' = faults + 1
    BY <1>7 DEF GatewayError
  <2>2. PICK pc \in {"put", "failed"} :
            Settle(f, pc) /\ (pc = "put" => client[f].attempt < MaxRetries)
    BY <1>7 DEF GatewayError, Retry
  <2>3. pc \in ClientPc /\ "put" \notin Settled
    BY DEF ClientPc, Settled
  <2> QED
    BY <1>1, <1>2, <1>3, <2>1, <2>2, <2>3, SettleFields DEF TaskGoesOn
<1>8. CASE TaskFails(f)
  <2>1. client[f].pc \in {"head", "put", "sent"} /\ faults' = faults + 1 /\ Settle(f, "failed")
    BY <1>8 DEF TaskFails
  <2>2. "failed" \in ClientPc
    BY DEF ClientPc, Settled
  <2> QED
    BY <1>1, <1>2, <1>3, <2>1, <2>2, SettleFields DEF TaskGoesOn
<1> QED
  BY <1>4, <1>5, <1>6, <1>7, <1>8 DEF TaskAlone

(* They keep the invariant. *)
LEMMA TaskInv ==
    ASSUME PushInv, NEW f \in File, TaskAlone(f) PROVE PushInv'
<1>1. /\ TaskGoesOn(f)
      /\ client' \in [File -> ClientRecord] /\ \A g \in File \ {f} : client'[g] = client[g]
      /\ UNCHANGED <<dbVars, req, writer, audited, others>>
      /\ UNCHANGED <<content, exit, dry, offered, seen, disturbed>>
      /\ faults' \in Nat
  BY TaskEffect
<1>2. /\ TxInv /\ PushTypeOK /\ EntriesSeen /\ TallyOk /\ PushedIsAnswered /\ LandedStays
      /\ FaultFree /\ Contended /\ faults \in Nat
      /\ \A g \in File : TaskOk(g) /\ \A n \in Attempts : RequestOk(g, n)
  BY DEF PushInv, TxInv, TxTypeOK
<1>3. /\ client[f].pc \in {"todo", "head", "put", "sent"}
      /\ faults' = faults \/ faults' = faults + 1
  BY <1>1 DEF TaskGoesOn
<1>4. TxInv'
  BY <1>1, <1>2, ElsewhereInv
<1>5. PushTypeOK'
  BY <1>1, <1>2 DEF PushTypeOK
<1>6. ASSUME NEW g \in File PROVE TaskOk(g)'
  <2>1. CASE g = f
    <3>1. content[f] \in offered[f] /\ 0 < MaxRetries
      BY <1>2, PushAssumption DEF PushTypeOK
    <3> QED
      BY <1>1, <1>2, <2>1, <3>1 DEF TaskGoesOn, TaskOk
  <2>2. CASE g # f
    BY <1>1, <1>2, <2>2 DEF TaskOk
  <2> QED
    BY <2>1, <2>2
<1>7. ASSUME NEW g \in File, NEW n \in Attempts PROVE RequestOk(g, n)'
  BY <1>1, <1>2 DEF RequestOk
<1>8. EntriesSeen' /\ \A k : Entry(k)' = Entry(k)
  BY <1>1, <1>2, SameEntry DEF EntriesSeen, dbVars, tables
<1>9. TallyOk'
  <2>1. exit = "running"
    BY <1>2, <1>3 DEF TallyOk, Settled
  <2> QED
    BY <1>1, <2>1 DEF TallyOk
<1>10. PushedIsAnswered'
  <2> SUFFICES ASSUME NEW g \in File, client'[g].pc = "pushed", ~dry
               PROVE  \E n \in Attempts : req[<<g, n>>].pc = "ok"
    BY <1>1 DEF PushedIsAnswered
  <2>1. CASE g = f
    <3>1. client[f].pc = "sent" /\ req[Attempt(f)].pc = "ok"
      BY <1>1, <2>1 DEF TaskGoesOn
    <3>2. client[f].attempt \in Attempts
      BY <1>2, <3>1 DEF TaskOk
    <3> QED
      BY <2>1, <3>1, <3>2 DEF Attempt
  <2>2. CASE g # f
    BY <1>1, <1>2, <2>2 DEF PushedIsAnswered
  <2> QED
    BY <2>1, <2>2
<1>11. LandedStays'
  <2> SUFFICES ASSUME NEW g \in File, Undisturbed(g)', Landed(g)'
               PROVE  Entry(UrlOf[g]) = offered[g]
    BY <1>1, <1>8 DEF LandedStays
  <2>1. Undisturbed(g)
    BY <1>1 DEF Undisturbed
  <2>2. CASE Landed(g)
    BY <1>2, <2>1, <2>2 DEF LandedStays
  <2>3. CASE ~Landed(g)
    <3>1. client'[g].pc = "skipped" /\ client[g].pc # "skipped"
      BY <1>1, <2>3 DEF Landed
    <3>2. g = f
      BY <1>1, <3>1
    <3>3. client[g].pc = "head" /\ client[g].sha \in Entry(UrlOf[g])
      BY <1>1, <3>1, <3>2 DEF TaskGoesOn
    <3>4. client[g].sha \in offered[g]
      BY <1>2, <3>3 DEF TaskOk
    <3>5. Entry(UrlOf[g]) = {client[g].sha}
      BY <1>2, <3>3, EntryIsSingle DEF TxInv
    <3>6. IsFiniteSet(offered[g])
      BY <1>2, SizeAssumption, FS_Subset DEF PushTypeOK
    <3>7. PICK c : offered[g] = {c}
      BY <2>1, <3>6, FS_Singleton DEF Undisturbed
    <3> QED
      BY <3>4, <3>5, <3>7
  <2> QED
    BY <2>2, <2>3
<1>12. FaultFree'
  <2> SUFFICES ASSUME faults' = 0, NEW g \in File
               PROVE  /\ \A n \in Attempts :
                            \/ req[<<g, n>>].pc \in {"idle", "error"}
                            \/ client'[g].pc = "sent" /\ n = client'[g].attempt
                               /\ req[<<g, n>>].pc # "timeout"
                            \/ client'[g].pc = "pushed"
                      /\ client'[g].pc = "failed" => \E n \in Attempts : req[<<g, n>>].pc = "error"
    BY <1>1 DEF FaultFree
  <2>1. faults = 0 /\ faults' = faults /\ faults' # faults + 1
    BY <1>2, <1>3
  <2>2. /\ \A n \in Attempts :
              \/ req[<<g, n>>].pc \in {"idle", "error"}
              \/ client[g].pc = "sent" /\ n = client[g].attempt /\ req[<<g, n>>].pc # "timeout"
              \/ client[g].pc = "pushed"
        /\ client[g].pc = "failed" => \E n \in Attempts : req[<<g, n>>].pc = "error"
    BY <1>2, <2>1 DEF FaultFree
  <2>3. CASE g # f
    BY <1>1, <2>2, <2>3
  <2>4. CASE g = f /\ client'[f].pc \in {"head", "skipped"}
    BY <1>1, <2>2, <2>4 DEF TaskGoesOn
  <2>5. CASE g = f /\ client'[f].pc = "pushed"
    BY <2>5
  <2>6. CASE g = f /\ client'[f].pc \in {"put", "failed"}
    <3>1. CASE client[f].pc \in {"head", "put"}
      BY <1>1, <2>1, <2>2, <2>6, <3>1 DEF TaskGoesOn
    <3>2. CASE client[f].pc = "sent"
      <4>1. client[f].attempt \in Attempts
        BY <1>2, <3>2 DEF TaskOk
      <4>2. req[Attempt(f)].pc \in {"error", "timeout"}
        BY <1>1, <2>1, <2>6, <3>2 DEF TaskGoesOn
      <4>3. req[<<f, client[f].attempt>>].pc = "error"
        BY <2>2, <2>6, <3>2, <4>1, <4>2 DEF Attempt
      <4> QED
        BY <2>2, <2>6, <3>2, <4>1, <4>3
    <3> QED
      BY <1>1, <2>6, <3>1, <3>2 DEF TaskGoesOn
  <2> QED
    BY <1>1, <2>3, <2>4, <2>5, <2>6 DEF TaskGoesOn
<1>13. Contended'
  BY <1>1, <1>2, <1>3 DEF Contended, Beaten, Winner, OutsiderWrote
<1> QED
  BY <1>4, <1>5, <1>6, <1>7, <1>8, <1>9, <1>10, <1>11, <1>12, <1>13 DEF PushInv

(* push_one sends an attempt: the next request of the file arrives. *)
LEMMA SendInv ==
    ASSUME PushInv, NEW f \in File, PutSend(f) PROVE PushInv'
<1>1. /\ TxInv /\ PushTypeOK /\ EntriesSeen /\ TallyOk /\ PushedIsAnswered /\ LandedStays
      /\ FaultFree /\ Contended
      /\ \A g \in File : TaskOk(g) /\ \A n \in Attempts : RequestOk(g, n)
  BY DEF PushInv
<1>2. PICK a : a = client[f].attempt + 1
  OBVIOUS
<1>3. /\ client[f].pc = "put" /\ PutArrives(<<f, a>>, UrlOf[f], content[f])
      /\ UNCHANGED <<content, exit, dry, offered, seen, disturbed>>
  BY <1>2 DEF PutSend
<1>4. a \in Attempts /\ client[f] \in ClientRecord
  <2>1. client[f] \in ClientRecord /\ client[f].attempt < MaxRetries
    BY <1>1, <1>3 DEF PushTypeOK, TaskOk
  <2>2. client[f].attempt \in 0..MaxRetries /\ MaxRetries \in Nat
    BY <2>1, PushAssumption DEF ClientRecord
  <2> QED
    BY <1>2, <2>1, <2>2 DEF Attempts
<1>5. /\ client' \in [File -> ClientRecord] /\ client'[f].pc = "sent" /\ client'[f].attempt = a
      /\ \A g \in File \ {f} : client'[g] = client[g]
  <2>1. PICK n : n = [client[f] EXCEPT !.pc = "sent", !.attempt = a]
    OBVIOUS
  <2>4. a \in 0..MaxRetries /\ "sent" \in ClientPc
    BY <1>4, PushAssumption DEF Attempts, ClientPc
  <2>2. n \in ClientRecord /\ n.pc = "sent" /\ n.attempt = a
    BY <1>4, <2>1, <2>4 DEF ClientRecord
  <2>3. client' = [client EXCEPT ![f] = n]
    BY <1>2, <2>1 DEF PutSend
  <2> QED
    BY <1>1, <2>2, <2>3 DEF PushTypeOK
<1>6. PICK t : t = <<f, a>>
  OBVIOUS
<1>7. t \in Put /\ t \in Request /\ t \notin Admin /\ UrlOf[f] \in Key /\ content[f] \in Hash
  BY <1>1, <1>4, <1>6, FileRequests, PushAssumption DEF PushTypeOK
<1>8. \E k \in Key, h \in Hash : PutArrives(t, k, h)
  BY <1>3, <1>6, <1>7
<1>9. /\ req[t].pc = "idle" /\ req'[t].pc = "begin"
      /\ \A r \in Request \ {t} : req'[r] = req[r]
      /\ UNCHANGED <<dbVars, writer, audited, others, faults>>
  BY <1>1, <1>8, ArrivesEffect DEF TxInv
<1>10. req'[t].key = UrlOf[f] /\ req'[t].hash = content[f]
  BY <1>1, <1>3, <1>6, <1>7 DEF PutArrives, ReqIdle, TxInv, TxTypeOK
<1>11. TxInv'
  BY <1>1, <1>8, ArrivesInv
<1>12. PushTypeOK'
  BY <1>1, <1>3, <1>5 DEF PushTypeOK
<1>13. ASSUME NEW g \in File, NEW n \in Attempts
       PROVE  /\ <<g, n>> \in Request
              /\ <<g, n>> # t => req'[<<g, n>>] = req[<<g, n>>]
              /\ <<g, n>> = t <=> g = f /\ n = a
  BY <1>6, <1>9, FileRequests
<1>14. ASSUME NEW g \in File, NEW n \in Attempts PROVE RequestOk(g, n)'
  <2>1. CASE <<g, n>> = t
    BY <1>1, <1>3, <1>9, <1>10, <1>13, <2>1 DEF RequestOk, PushTypeOK
  <2>2. CASE <<g, n>> # t
    BY <1>1, <1>3, <1>13, <2>2 DEF RequestOk
  <2> QED
    BY <2>1, <2>2
<1>15. ASSUME NEW g \in File PROVE TaskOk(g)'
  <2>1. CASE g = f
    BY <1>4, <1>5, <2>1 DEF TaskOk
  <2>2. CASE g # f
    BY <1>1, <1>3, <1>5, <2>2 DEF TaskOk
  <2> QED
    BY <2>1, <2>2
<1>16. EntriesSeen' /\ \A k : Entry(k)' = Entry(k)
  BY <1>1, <1>3, <1>9, SameEntry DEF EntriesSeen, dbVars, tables
<1>17. TallyOk'
  <2>1. exit = "running"
    BY <1>1, <1>3 DEF TallyOk, Settled
  <2> QED
    BY <1>3, <2>1 DEF TallyOk
<1>18. PushedIsAnswered'
  <2> SUFFICES ASSUME NEW g \in File, client'[g].pc = "pushed", ~dry
               PROVE  \E n \in Attempts : req'[<<g, n>>].pc = "ok"
    BY <1>3 DEF PushedIsAnswered
  <2>1. g # f /\ client[g].pc = "pushed"
    BY <1>5
  <2>2. PICK n \in Attempts : req[<<g, n>>].pc = "ok"
    BY <1>1, <2>1 DEF PushedIsAnswered
  <2> QED
    BY <1>13, <2>1, <2>2
<1>19. LandedStays'
  <2> SUFFICES ASSUME NEW g \in File, Undisturbed(g)', Landed(g)'
               PROVE  Entry(UrlOf[g]) = offered[g]
    BY <1>3, <1>16 DEF LandedStays
  <2>1. Undisturbed(g)
    BY <1>3 DEF Undisturbed
  <2>2. Landed(g)
    <3>1. client'[g].pc = "skipped" => client[g].pc = "skipped"
      BY <1>5
    <3>2. ASSUME NEW n \in Attempts, req'[<<g, n>>].pc \in {"after", "ok"}
          PROVE  req[<<g, n>>].pc \in {"after", "ok"}
      BY <1>9, <1>13, <3>2
    <3> QED
      BY <3>1, <3>2 DEF Landed
  <2> QED
    BY <1>1, <2>1, <2>2 DEF LandedStays
<1>20. FaultFree'
  <2> SUFFICES ASSUME faults' = 0, NEW g \in File
               PROVE  /\ \A n \in Attempts :
                            \/ req'[<<g, n>>].pc \in {"idle", "error"}
                            \/ client'[g].pc = "sent" /\ n = client'[g].attempt
                               /\ req'[<<g, n>>].pc # "timeout"
                            \/ client'[g].pc = "pushed"
                      /\ client'[g].pc = "failed" => \E n \in Attempts : req'[<<g, n>>].pc = "error"
    BY DEF FaultFree
  <2>1. /\ \A n \in Attempts :
              \/ req[<<g, n>>].pc \in {"idle", "error"}
              \/ client[g].pc = "sent" /\ n = client[g].attempt /\ req[<<g, n>>].pc # "timeout"
              \/ client[g].pc = "pushed"
        /\ client[g].pc = "failed" => \E n \in Attempts : req[<<g, n>>].pc = "error"
    BY <1>1, <1>9 DEF FaultFree
  <2>2. CASE g = f
    BY <1>3, <1>5, <1>9, <1>13, <2>1, <2>2
  <2>3. CASE g # f
    BY <1>5, <1>13, <2>1, <2>3
  <2> QED
    BY <2>2, <2>3
<1>21. Contended'
  <2> SUFFICES ASSUME faults' = 0, NEW u \in Put, Beaten(u)'
               PROVE  OutsiderWrote' \/ \E r \in Put : Winner(r)'
    BY DEF Contended
  <2>1. u # t /\ req'[u] = req[u]
    BY <1>9 DEF Request, Beaten
  <2>2. OutsiderWrote \/ \E r \in Put : Winner(r)
    BY <1>1, <1>9, <2>1 DEF Contended, Beaten
  <2>3. ASSUME NEW r \in Request, req[r].pc \in {"wrote", "after", "ok"} PROVE req'[r] = req[r]
    BY <1>9, <2>3
  <2>4. Put \subseteq Request /\ Admin \subseteq Request /\ others' = others
    BY <1>9 DEF Request
  <2> QED
    BY <2>2, <2>3, <2>4 DEF OutsiderWrote, Winner
<1> QED
  BY <1>11, <1>12, <1>14, <1>15, <1>16, <1>17, <1>18, <1>19, <1>20, <1>21 DEF PushInv

(* A file is written: what it offers grows, and it is no longer undisturbed. *)
LEMMA WrittenInv ==
    ASSUME PushInv, NEW f \in File, NEW h \in Hash, FileWritten(f, h) PROVE PushInv'
<1>1. /\ TxInv /\ PushTypeOK /\ EntriesSeen /\ TallyOk /\ PushedIsAnswered /\ LandedStays
      /\ FaultFree /\ Contended
      /\ \A g \in File : TaskOk(g) /\ \A n \in Attempts : RequestOk(g, n)
  BY DEF PushInv
<1>2. /\ UNCHANGED <<dbVars, req, writer, audited, others, faults, client, exit, dry, seen, disturbed>>
      /\ content' = [content EXCEPT ![f] = h]
      /\ offered' = [offered EXCEPT ![f] = offered[f] \cup {h}]
      /\ h \notin offered[f]
  BY DEF FileWritten, txVars
<1>3. /\ \A g \in File : offered[g] \subseteq offered'[g]
      /\ \A g \in File \ {f} : offered'[g] = offered[g] /\ content'[g] = content[g]
      /\ offered'[f] = offered[f] \cup {h} /\ content'[f] = h
      /\ content' \in [File -> Hash] /\ offered' \in [File -> SUBSET Hash]
  BY <1>1, <1>2 DEF PushTypeOK
<1>4. TxInv'
  BY <1>1, <1>2, ElsewhereInv DEF TxInv, TxTypeOK
<1>5. PushTypeOK'
  BY <1>1, <1>2, <1>3 DEF PushTypeOK
<1>6. \A g \in File : TaskOk(g)' /\ \A n \in Attempts : RequestOk(g, n)'
  BY <1>1, <1>2, <1>3 DEF TaskOk, RequestOk
<1>7. EntriesSeen' /\ \A k : Entry(k)' = Entry(k)
  BY <1>1, <1>2, SameEntry DEF EntriesSeen, dbVars, tables
<1>8. TallyOk' /\ PushedIsAnswered' /\ FaultFree' /\ Contended'
  BY <1>1, <1>2
  DEF TallyOk, PushedIsAnswered, FaultFree, Contended, Beaten, Winner, OutsiderWrote
<1>9. LandedStays'
  <2> SUFFICES ASSUME NEW g \in File, Undisturbed(g)', Landed(g)'
               PROVE  Entry(UrlOf[g]) = offered'[g]
    BY <1>7 DEF LandedStays
  <2>1. g # f
    <3> SUFFICES ASSUME g = f PROVE FALSE
      OBVIOUS
    <3>1. IsFiniteSet(offered[f]) /\ IsFiniteSet(offered'[f])
      BY <1>1, <1>3, SizeAssumption, FS_Subset DEF PushTypeOK
    <3>2. PICK c : offered'[f] = {c}
      BY <3>1, FS_Singleton DEF Undisturbed
    <3>3. content[f] \in offered'[f] /\ h \in offered'[f] /\ content[f] # h
      BY <1>1, <1>2, <1>3 DEF PushTypeOK
    <3> QED
      BY <3>2, <3>3
  <2>2. Undisturbed(g) /\ Landed(g)
    BY <1>2, <1>3, <2>1 DEF Undisturbed, Landed
  <2> QED
    BY <1>1, <1>3, <2>1, <2>2 DEF LandedStays
<1> QED
  BY <1>4, <1>5, <1>6, <1>7, <1>8, <1>9 DEF PushInv

(* The command ends when every task has. *)
LEMMA ExitInv == ASSUME PushInv, Exit PROVE PushInv'
<1>1. /\ TxInv /\ PushTypeOK /\ EntriesSeen /\ TallyOk /\ PushedIsAnswered /\ LandedStays
      /\ FaultFree /\ Contended
      /\ \A g \in File : TaskOk(g) /\ \A n \in Attempts : RequestOk(g, n)
  BY DEF PushInv
<1>2. /\ UNCHANGED <<dbVars, req, writer, audited, others, faults>>
      /\ UNCHANGED <<content, client, dry, offered, seen, disturbed>>
  BY DEF Exit, txVars
<1>3. TxInv'
  BY <1>1, <1>2, ElsewhereInv DEF TxInv, TxTypeOK
<1>4. PushTypeOK' /\ TallyOk'
  BY <1>1, <1>2 DEF Exit, PushTypeOK, TallyOk
<1>5. \A g \in File : TaskOk(g)' /\ \A n \in Attempts : RequestOk(g, n)'
  BY <1>1, <1>2 DEF TaskOk, RequestOk
<1>6. EntriesSeen' /\ \A k : Entry(k)' = Entry(k)
  BY <1>1, <1>2, SameEntry DEF EntriesSeen, dbVars, tables
<1>7. PushedIsAnswered' /\ FaultFree' /\ Contended'
  BY <1>1, <1>2 DEF PushedIsAnswered, FaultFree, Contended, Beaten, Winner, OutsiderWrote
<1>8. LandedStays'
  BY <1>1, <1>2, <1>6 DEF LandedStays, Landed, Undisturbed
<1> QED
  BY <1>3, <1>4, <1>5, <1>6, <1>7, <1>8 DEF PushInv

-----------------------------------------------------------------------------
(* The server meanwhile *)

(* What outsiders have written so far, as Publish counts it. *)
Foreign == IF writer = OUTSIDE THEN others - 1 ELSE others

ServerMoves(t) ==
    ServerStep(t) \/ ServerFault(t) \/ (t \in Admin /\ \E i \in EntryId : AdminDelete(t, i))

(* How the requests move, one disjunct for each way to go on. *)
ReqGoesOn(t) ==
    \/ req[t].pc = "idle" /\ req'[t].pc = "begin" /\ t \in Admin /\ UNCHANGED dbVars
       /\ (\A r \in Request \ {t} : req'[r] = req[r])
    \/ req[t].pc = "begin" /\ req'[t].pc = "read" /\ ~req'[t].stale /\ UNCHANGED dbVars
       /\ (\A r \in Request \ {t} : req'[r] = req[r])
       /\ (t \in Put => req'[t].key = req[t].key /\ req'[t].hash = req[t].hash)
    \/ req[t].pc = "begin" /\ req'[t].pc = "error" /\ t \in Admin /\ UNCHANGED dbVars
       /\ (\A r \in Request \ {t} : req'[r] = req[r])
    \/ req[t].pc = "read" /\ req'[t].pc = "wrote" /\ UNCHANGED dbVars
       /\ (t \in Put => req'[t].key = req[t].key /\ req'[t].hash = req[t].hash)
    \/ req[t].pc = "read" /\ req'[t].pc = "error" /\ (writer # NULL \/ req[t].stale)
       /\ UNCHANGED dbVars /\ (\A r \in Request \ {t} : req'[r] = req[r])
    \/ req[t].pc = "wrote" /\ req'[t].pc = "after" /\ (UpsertCommit(t) \/ DeleteCommit(t))
    \/ req[t].pc = "after" /\ req'[t].pc = "ok" /\ UNCHANGED dbVars
    \/ req[t].pc \in {"begin", "read", "wrote", "after"} /\ req'[t].pc \in {"error", "timeout"}
       /\ faults' = faults + 1 /\ UNCHANGED dbVars

(* What the handlers do, the recording of the tables included. *)
LEMMA ServerEffect ==
    ASSUME PushInv, NEW t \in Request, ServerMoves(t)
    PROVE  /\ ReqGoesOn(t) /\ TxInv' /\ OthersWait(t)
           /\ UNCHANGED <<clientVars, offered, others>> /\ seen \subseteq seen'
           /\ faults' = faults \/ faults' = faults + 1
           /\ Foreign' = Foreign
           /\ disturbed' = disturbed \/ (t \in Admin /\ disturbed' = disturbed \cup Moved)
           /\ t \in Admin => \A k \in Key : Entry(k)' = Entry(k) \/ k \in disturbed'
           /\ \/ UNCHANGED <<dbVars, seen>>
              \/ seen' = seen \cup {<<entries'[i].key, entries'[i].blob_hash>> : i \in LiveEntries'}
<1>1. TxInv /\ TxTypeOK
  BY DEF PushInv, TxInv
<1>5. /\ others' = others
      /\ disturbed' = disturbed \/ (t \in Admin /\ disturbed' = disturbed \cup Moved)
  <2>1. CASE ServerStep(t)
    BY <2>1 DEF ServerStep, TxStep, UpsertRead, DeleteRead, TxWrite, TxBusy, UpsertCommit,
                DeleteCommit, PutBump, DeleteAudit
  <2>2. CASE ServerFault(t) \/ \E i \in EntryId : AdminDelete(t, i)
    BY <2>2 DEF ServerFault, TxFails, TxDropped, AdminDelete, DeleteArrives
  <2> QED
    BY <2>1, <2>2 DEF ServerMoves
<1>6. Foreign' = Foreign
  <2>1. writer' = writer \/ (writer = NULL /\ writer' = t) \/ (writer = t /\ writer' = NULL)
    <3>1. CASE ServerStep(t)
      BY <1>1, <3>1 DEF ServerStep, TxStep, UpsertRead, DeleteRead, TxWrite, TxBusy, UpsertCommit,
                        DeleteCommit, PutBump, DeleteAudit, TxInv, OneWriter
    <3>2. CASE ServerFault(t) \/ \E i \in EntryId : AdminDelete(t, i)
      BY <3>2 DEF ServerFault, TxFails, TxDropped, Unlock, AdminDelete, DeleteArrives
    <3> QED
      BY <3>1, <3>2 DEF ServerMoves
  <2> QED
    BY <1>5, <2>1, TxAssumption DEF Foreign
<1>7. ASSUME t \in Admin, NEW k \in Key PROVE Entry(k)' = Entry(k) \/ k \in disturbed'
  <2>1. CASE ServerStep(t)
    BY <1>7, <2>1 DEF ServerStep, Moved
  <2>2. CASE ServerFault(t) \/ \E i \in EntryId : AdminDelete(t, i)
    <3>1. UNCHANGED dbVars
      BY <2>2 DEF ServerFault, TxFails, TxDropped, AdminDelete, DeleteArrives
    <3> QED
      BY <3>1, SameEntry
  <2> QED
    BY <2>1, <2>2 DEF ServerMoves
<1>2. CASE ServerStep(t)
  <2>1. TxStep(t) /\ UNCHANGED <<clientVars, offered>>
        /\ seen' = seen \cup {<<entries'[i].key, entries'[i].blob_hash>> : i \in LiveEntries'}
    BY <1>2 DEF ServerStep, Recorded, LiveEntries
  <2>2. TxInv'
    BY <1>1, <2>1, HandlesInv DEF Handles
  <2>3. CASE UpsertRead(t) \/ DeleteRead(t)
    <3>1. ReqGoesOn(t) /\ faults' = faults
      BY <1>1, <2>3, ReadEffect, TxAssumption DEF ReqGoesOn
    <3>2. OthersWait(t)
      BY <1>1, <2>3, ReadEffect DEF OthersWait
    <3> QED
      BY <1>5, <1>6, <1>7, <2>1, <2>2, <3>1, <3>2
  <2>4. CASE TxWrite(t)
    <3>1. /\ req' = [req EXCEPT ![t].pc = "wrote"] /\ req[t].pc = "read"
          /\ UNCHANGED <<dbVars, faults>> /\ req[t] \in ReqRecord
      BY <1>1, <2>4 DEF TxWrite, TxTypeOK
    <3>2. PICK n : n = [req[t] EXCEPT !.pc = "wrote"]
      OBVIOUS
    <3>3. n.pc = "wrote" /\ n.key = req[t].key /\ n.hash = req[t].hash
      BY <3>1, <3>2 DEF ReqRecord
    <3>4. req'[t] = n /\ \A r \in Request \ {t} : req'[r] = req[r]
      BY <1>1, <3>1, <3>2 DEF TxTypeOK
    <3>5. ReqGoesOn(t) /\ OthersWait(t)
      BY <3>1, <3>3, <3>4 DEF ReqGoesOn, OthersWait
    <3> QED
      BY <1>5, <1>6, <1>7, <2>1, <2>2, <3>1, <3>5
  <2>5. CASE TxBusy(t)
    <3>1. Goto(t, "error") /\ req[t].pc = "read" /\ (writer # NULL \/ req[t].stale)
          /\ UNCHANGED <<dbVars, faults>>
      BY <2>5 DEF TxBusy
    <3>2. req'[t].pc = "error" /\ \A r \in Request \ {t} : req'[r] = req[r]
      BY <1>1, <3>1, GotoFields DEF TxPc
    <3>3. ReqGoesOn(t) /\ OthersWait(t)
      BY <3>1, <3>2 DEF ReqGoesOn, OthersWait
    <3> QED
      BY <1>5, <1>6, <1>7, <2>1, <2>2, <3>1, <3>3
  <2>6. CASE UpsertCommit(t) \/ DeleteCommit(t)
    <3>1. req[t].pc = "wrote" /\ req'[t].pc = "after" /\ OthersWait(t)
      BY <1>1, <2>6, CommitInv
    <3>2. faults' = faults
      BY <2>6 DEF UpsertCommit, DeleteCommit
    <3>3. ReqGoesOn(t)
      BY <2>6, <3>1 DEF ReqGoesOn
    <3> QED
      BY <1>5, <1>6, <1>7, <2>1, <2>2, <3>1, <3>2, <3>3
  <2>7. CASE PutBump(t) \/ DeleteAudit(t)
    <3>1. req[t].pc = "after" /\ req'[t].pc = "ok" /\ OthersWait(t) /\ UNCHANGED <<dbVars, faults>>
      BY <1>1, <2>7, LastInv
    <3>2. ReqGoesOn(t)
      BY <3>1 DEF ReqGoesOn
    <3> QED
      BY <1>5, <1>6, <1>7, <2>1, <2>2, <3>1, <3>2
  <2> QED
    BY <2>1, <2>3, <2>4, <2>5, <2>6, <2>7 DEF TxStep
<1>3. CASE ServerFault(t)
  <2>1. (TxFails(t) \/ TxDropped(t)) /\ UNCHANGED <<clientVars, offered, seen>>
    BY <1>3 DEF ServerFault
  <2>2. /\ TxInv'
        /\ req[t].pc \in {"begin", "read", "wrote", "after"}
        /\ req'[t].pc \in {"error", "timeout"}
        /\ \A r \in Request \ {t} : req'[r] = req[r]
    BY <1>1, <2>1, RollbackInv
  <2>3. faults' = faults + 1 /\ UNCHANGED dbVars
    BY <2>1 DEF TxFails, TxDropped
  <2>4. ReqGoesOn(t) /\ OthersWait(t)
    BY <2>2, <2>3 DEF ReqGoesOn, OthersWait
  <2> QED
    BY <1>5, <1>6, <1>7, <2>1, <2>2, <2>3, <2>4
<1>4. CASE t \in Admin /\ \E i \in EntryId : AdminDelete(t, i)
  <2>1. t \in Admin /\ (\E i \in EntryId : DeleteArrives(t, i)) /\ UNCHANGED <<clientVars, offered, seen>>
    BY <1>4 DEF AdminDelete
  <2>2. /\ req[t].pc = "idle" /\ req'[t].pc = "begin"
        /\ \A r \in Request \ {t} : req'[r] = req[r]
        /\ UNCHANGED <<dbVars, faults>>
    BY <1>1, <2>1, ArrivesEffect
  <2>3. TxInv'
    BY <1>1, <2>1, ArrivesInv
  <2>4. ReqGoesOn(t) /\ OthersWait(t)
    BY <2>1, <2>2 DEF ReqGoesOn, OthersWait
  <2> QED
    BY <1>5, <1>6, <1>7, <2>1, <2>2, <2>3, <2>4
<1> QED
  BY <1>2, <1>3, <1>4 DEF ServerMoves

(* What the server has is what it had, with what a commit stored. *)
LEMMA ServerSeen ==
    ASSUME PushInv, NEW t \in Request, ServerMoves(t)
    PROVE  /\ EntriesSeen' /\ seen' \in SUBSET (Key \X Hash)
           /\ UpsertCommit(t) => seen' = seen \cup {<<req[t].key, req[t].hash>>}
           /\ ~UpsertCommit(t) => seen' = seen
           /\ ~UpsertCommit(t) /\ ~DeleteCommit(t) => UNCHANGED dbVars
<1>1. TxInv /\ EntriesSeen /\ seen \in SUBSET (Key \X Hash)
  BY DEF PushInv, PushTypeOK
<1>2. /\ ReqGoesOn(t) /\ TxInv' /\ seen \subseteq seen'
      /\ \/ UNCHANGED <<dbVars, seen>>
         \/ seen' = seen \cup {<<entries'[i].key, entries'[i].blob_hash>> : i \in LiveEntries'}
  BY ServerEffect
<1>3. CASE UpsertCommit(t)
  <2>1. PICK k, h : k = req[t].key /\ h = req[t].hash
    OBVIOUS
  <2>2. k \in Key /\ h \in Hash
    BY <1>1, <1>3, <2>1, UpsertIsAtomic
  <2>3. /\ \A i \in LiveEntries' :
              \/ i \in LiveEntries /\ entries'[i] = entries[i]
              \/ entries'[i].project_id = 1 /\ entries'[i].key = k /\ entries'[i].blob_hash = h
        /\ \E i \in LiveEntries' : entries'[i].key = k /\ entries'[i].blob_hash = h
    BY <1>1, <1>3, <2>1, <2>2, UpsertIsAtomic, UpsertSets
  <2>4. seen' = seen \cup {<<entries'[i].key, entries'[i].blob_hash>> : i \in LiveEntries'}
    <3>1. ServerStep(t)
      <4>1. req[t].pc = "wrote" /\ req'[t].pc = "after"
        BY <1>1, <1>3, CommitInv
      <4>2. ~ServerFault(t)
        <5> SUFFICES ASSUME ServerFault(t) PROVE FALSE
          OBVIOUS
        <5>1. req'[t].pc \in {"error", "timeout"}
          BY <1>1, RollbackInv DEF ServerFault
        <5> QED
          BY <4>1, <5>1
      <4>3. \A i \in EntryId : ~AdminDelete(t, i)
        BY <4>1 DEF AdminDelete, DeleteArrives
      <4> QED
        BY <4>2, <4>3 DEF ServerMoves
    <3> QED
      BY <3>1 DEF ServerStep, Recorded, LiveEntries
  <2>5. seen' = seen \cup {<<k, h>>}
    <3>1. ASSUME NEW i \in LiveEntries'
          PROVE  <<entries'[i].key, entries'[i].blob_hash>> \in seen \cup {<<k, h>>}
      BY <1>1, <2>3, <3>1 DEF EntriesSeen
    <3>2. <<k, h>> \in {<<entries'[i].key, entries'[i].blob_hash>> : i \in LiveEntries'}
      BY <2>3
    <3> QED
      BY <2>4, <3>1, <3>2
  <2>6. EntriesSeen'
    BY <1>1, <2>3, <2>5 DEF EntriesSeen
  <2> QED
    BY <1>1, <1>3, <2>1, <2>2, <2>5, <2>6
<1>4. CASE DeleteCommit(t)
  <2>1. RowsShrink
    BY <1>1, <1>4, DeleteIsAtomic, DeleteShrinks DEF TxInv
  <2>2. seen' = seen
    <3>1. ASSUME NEW i \in LiveEntries'
          PROVE  <<entries'[i].key, entries'[i].blob_hash>> \in seen
      BY <1>1, <2>1 DEF EntriesSeen, RowsShrink
    <3> QED
      BY <1>2, <3>1
  <2>3. EntriesSeen'
    BY <1>1, <2>1, <2>2 DEF EntriesSeen, RowsShrink
  <2>4. ~UpsertCommit(t)
    BY <1>4, TxAssumption DEF UpsertCommit, DeleteCommit
  <2> QED
    BY <1>1, <1>4, <2>2, <2>3, <2>4
<1>5. CASE ~UpsertCommit(t) /\ ~DeleteCommit(t)
  <2>1. UNCHANGED dbVars
    BY <1>2, <1>5 DEF ReqGoesOn
  <2>2. entries' = entries /\ LiveEntries' = LiveEntries
    BY <2>1 DEF dbVars, tables, LiveEntries
  <2>3. seen' = seen
    <3>1. ASSUME NEW i \in LiveEntries'
          PROVE  <<entries'[i].key, entries'[i].blob_hash>> \in seen
      BY <1>1, <2>2 DEF EntriesSeen
    <3> QED
      BY <1>2, <3>1
  <2>4. EntriesSeen'
    BY <1>1, <2>2, <2>3 DEF EntriesSeen
  <2> QED
    BY <1>1, <1>5, <2>1, <2>3, <2>4
<1> QED
  BY <1>3, <1>4, <1>5

(* Every step of the server keeps the invariant of the push. *)
LEMMA ServerMovesInv ==
    ASSUME PushInv, NEW t \in Request, ServerMoves(t) PROVE PushInv'
<1>1. /\ TxInv /\ PushTypeOK /\ EntriesSeen /\ TallyOk /\ PushedIsAnswered /\ LandedStays
      /\ FaultFree /\ Contended /\ TxTypeOK /\ faults \in Nat
      /\ \A g \in File : TaskOk(g) /\ \A n \in Attempts : RequestOk(g, n)
  BY DEF PushInv, TxInv, TxTypeOK
<1>2. /\ ReqGoesOn(t) /\ TxInv' /\ OthersWait(t)
      /\ UNCHANGED <<content, client, exit, dry, offered, others>> /\ seen \subseteq seen'
      /\ faults' = faults \/ faults' = faults + 1
      /\ disturbed' = disturbed \/ (t \in Admin /\ disturbed' = disturbed \cup Moved)
      /\ t \in Admin => \A k \in Key : Entry(k)' = Entry(k) \/ k \in disturbed'
  BY ServerEffect DEF clientVars
<1>3. /\ EntriesSeen' /\ seen' \in SUBSET (Key \X Hash)
      /\ UpsertCommit(t) => seen' = seen \cup {<<req[t].key, req[t].hash>>}
      /\ ~UpsertCommit(t) /\ ~DeleteCommit(t) => UNCHANGED dbVars
  BY ServerSeen
<1>4. \A r \in Request \ {t} :
         /\ req'[r].pc = req[r].pc /\ req'[r].key = req[r].key /\ req'[r].hash = req[r].hash
         /\ req'[r].stale = FALSE => req[r].stale = FALSE
  BY <1>1, <1>2, WaitFields
<1>5. \A g \in File, n \in Attempts : <<g, n>> \in Request /\ <<g, n>> \in Put /\ <<g, n>> \notin Admin
  BY FileRequests
<1>6. /\ req[t].pc \in {"idle", "begin", "read", "wrote", "after"} /\ req'[t].pc # "idle"
      /\ req[t].pc = "idle" => t \in Admin
  BY <1>2 DEF ReqGoesOn
<1>7. PushTypeOK'
  BY <1>1, <1>2, <1>3 DEF PushTypeOK, Moved
<1>8. \A g \in File : TaskOk(g)'
  BY <1>1, <1>2 DEF TaskOk
<1>9. ASSUME NEW g \in File, NEW n \in Attempts PROVE RequestOk(g, n)'
  <2>1. CASE <<g, n>> # t
    BY <1>1, <1>2, <1>4, <1>5, <2>1 DEF RequestOk
  <2>2. CASE <<g, n>> = t
    <3>1. t \in Put /\ t \notin Admin
      BY <1>5, <2>2
    <3>2. CASE req'[t].pc \in {"begin", "read", "wrote"}
      <4>1. /\ req[t].pc \in {"begin", "read", "wrote"}
            /\ req'[t].key = req[t].key /\ req'[t].hash = req[t].hash
        BY <1>2, <3>1, <3>2 DEF ReqGoesOn
      <4> QED
        BY <1>1, <1>2, <2>2, <3>2, <4>1 DEF RequestOk
    <3>3. CASE req'[t].pc = "after"
      <4>1. req[t].pc = "wrote" /\ UpsertCommit(t)
        BY <1>2, <3>1, <3>3 DEF ReqGoesOn, DeleteCommit
      <4>2. req[t].key = UrlOf[g] /\ req[t].hash \in offered[g]
        BY <1>1, <2>2, <4>1 DEF RequestOk
      <4> QED
        BY <1>2, <1>3, <2>2, <3>3, <4>1, <4>2 DEF RequestOk
    <3>4. CASE req'[t].pc = "ok"
      <4>1. req[t].pc = "after"
        BY <1>2, <3>4 DEF ReqGoesOn
      <4> QED
        BY <1>1, <1>2, <2>2, <3>4, <4>1 DEF RequestOk
    <3> QED
      BY <2>2, <3>2, <3>3, <3>4 DEF RequestOk
  <2> QED
    BY <2>1, <2>2
<1>10. TallyOk'
  BY <1>1, <1>2 DEF TallyOk
<1>11. PushedIsAnswered'
  <2> SUFFICES ASSUME NEW g \in File, client[g].pc = "pushed", ~dry
               PROVE  \E n \in Attempts : req'[<<g, n>>].pc = "ok"
    BY <1>2 DEF PushedIsAnswered
  <2>1. PICK n \in Attempts : req[<<g, n>>].pc = "ok"
    BY <1>1 DEF PushedIsAnswered
  <2>2. <<g, n>> # t /\ <<g, n>> \in Request
    BY <1>5, <1>6, <2>1
  <2> QED
    BY <1>4, <2>1, <2>2
<1>12. LandedStays'
  <2> SUFFICES ASSUME NEW g \in File, Undisturbed(g)', Landed(g)'
               PROVE  Entry(UrlOf[g])' = offered[g]
    BY <1>2 DEF LandedStays
  <2>2. Undisturbed(g)
    BY <1>2 DEF Undisturbed
  <2>3. UrlOf[g] \in Key
    BY PushAssumption
  <2>7. CASE t \in Admin
    <3>1. Entry(UrlOf[g])' = Entry(UrlOf[g])
      BY <1>2, <2>3, <2>7 DEF Undisturbed
    <3>2. \A n \in Attempts : <<g, n>> # t
      BY <1>5, <2>7
    <3>3. Landed(g)
      BY <1>2, <1>4, <1>5, <3>2 DEF Landed
    <3> QED
      BY <1>1, <2>2, <3>1, <3>3 DEF LandedStays
  <2> SUFFICES ASSUME t \notin Admin PROVE Entry(UrlOf[g])' = offered[g]
    BY <2>7
  <2>1. t \notin Admin /\ t \in Put
    BY DEF Request
  <2>4. PICK f \in File, m \in Attempts : t = <<f, m>>
    BY <2>1, FileRequests
  <2>5. CASE UpsertCommit(t)
    <3>1. PICK k, h : k = req[t].key /\ h = req[t].hash
      OBVIOUS
    <3>2. k = UrlOf[f] /\ h \in offered[f]
      BY <1>1, <2>4, <2>5, <3>1 DEF RequestOk, UpsertCommit
    <3>3. Entry(k)' = {h} /\ \A u \in Key \ {k} : Entry(u)' = Entry(u)
      BY <1>1, <2>5, <3>1, UpsertIsAtomic, UpsertSets
    <3>4. CASE f = g
      <4>1. IsFiniteSet(offered[g])
        BY <1>1, SizeAssumption, FS_Subset DEF PushTypeOK
      <4>2. PICK c : offered[g] = {c}
        BY <2>2, <4>1, FS_Singleton DEF Undisturbed
      <4> QED
        BY <3>2, <3>3, <3>4, <4>2
    <3>5. CASE f # g
      <4>1. UrlOf[g] # k
        BY <2>2, <3>2, <3>5 DEF Undisturbed
      <4>2. Landed(g)
        <5>1. \A n \in Attempts : <<g, n>> # t
          BY <2>4, <3>5
        <5> QED
          BY <1>2, <1>4, <1>5, <5>1 DEF Landed
      <4> QED
        BY <1>1, <2>2, <2>3, <3>3, <4>1, <4>2 DEF LandedStays
    <3> QED
      BY <3>4, <3>5
  <2>6. CASE ~UpsertCommit(t)
    <3>1. ~DeleteCommit(t)
      BY <2>1 DEF DeleteCommit
    <3>2. UNCHANGED dbVars
      BY <1>3, <2>6, <3>1
    <3>3. Landed(g)
      <4>1. ASSUME NEW n \in Attempts, req'[<<g, n>>].pc \in {"after", "ok"}
            PROVE  req[<<g, n>>].pc \in {"after", "ok"}
        BY <1>2, <1>4, <1>5, <2>6, <3>1, <4>1 DEF ReqGoesOn
      <4> QED
        BY <1>2, <4>1 DEF Landed
    <3> QED
      BY <1>1, <2>2, <3>2, <3>3, SameEntry DEF LandedStays
  <2> QED
    BY <2>5, <2>6
<1>13. FaultFree'
  <2> SUFFICES ASSUME faults' = 0, NEW g \in File
               PROVE  /\ \A n \in Attempts :
                            \/ req'[<<g, n>>].pc \in {"idle", "error"}
                            \/ client[g].pc = "sent" /\ n = client[g].attempt
                               /\ req'[<<g, n>>].pc # "timeout"
                            \/ client[g].pc = "pushed"
                      /\ client[g].pc = "failed" => \E n \in Attempts : req'[<<g, n>>].pc = "error"
    BY <1>2 DEF FaultFree
  <2>1. faults = 0 /\ faults' # faults + 1
    BY <1>1, <1>2
  <2>2. /\ \A n \in Attempts :
              \/ req[<<g, n>>].pc \in {"idle", "error"}
              \/ client[g].pc = "sent" /\ n = client[g].attempt /\ req[<<g, n>>].pc # "timeout"
              \/ client[g].pc = "pushed"
        /\ client[g].pc = "failed" => \E n \in Attempts : req[<<g, n>>].pc = "error"
    BY <1>1, <2>1 DEF FaultFree
  <2>3. req'[t].pc # "timeout"
    BY <1>2, <2>1 DEF ReqGoesOn
  <2>4. ASSUME NEW n \in Attempts
        PROVE  \/ req'[<<g, n>>].pc \in {"idle", "error"}
               \/ client[g].pc = "sent" /\ n = client[g].attempt
                  /\ req'[<<g, n>>].pc # "timeout"
               \/ client[g].pc = "pushed"
    <3>1. CASE <<g, n>> = t
      <4>1. req[<<g, n>>].pc \notin {"idle", "error"}
        BY <1>5, <1>6, <3>1
      <4> QED
        BY <2>2, <2>3, <3>1, <4>1
    <3>2. CASE <<g, n>> # t
      BY <1>4, <1>5, <2>2, <3>2
    <3> QED
      BY <3>1, <3>2
  <2>5. ASSUME client[g].pc = "failed" PROVE \E n \in Attempts : req'[<<g, n>>].pc = "error"
    <3>1. PICK n \in Attempts : req[<<g, n>>].pc = "error"
      BY <2>2, <2>5
    <3>2. <<g, n>> # t
      BY <1>6, <3>1
    <3> QED
      BY <1>4, <1>5, <3>1, <3>2
  <2> QED
    BY <2>4, <2>5
<1>14. Contended'
  <2> SUFFICES ASSUME faults' = 0, NEW u \in Put, Beaten(u)',
                      ~OutsiderWrote', \A r \in Put : ~Winner(r)'
               PROVE  FALSE
    BY DEF Contended
  <2>1. Put \subseteq Request /\ Admin \subseteq Request /\ t \in Put \cup Admin /\ u \in Request
    BY DEF Request
  <2>2. \A r \in Request : req'[r].pc \notin {"wrote", "after", "ok"}
    BY DEF OutsiderWrote, Winner, Request
  <2>3. faults = 0 /\ faults' # faults + 1 /\ ~(others > 0)
    BY <1>1, <1>2 DEF OutsiderWrote
  <2>4. ASSUME NEW r \in Request PROVE req[r].pc \notin {"wrote", "after", "ok"}
    <3>1. CASE r = t
      BY <1>2, <2>2, <2>3, <3>1 DEF ReqGoesOn
    <3>2. CASE r # t
      BY <1>4, <2>2, <3>2
    <3> QED
      BY <3>1, <3>2
  <2>5. \A r \in Put : ~Beaten(r)
    BY <1>1, <2>1, <2>3, <2>4 DEF Contended, OutsiderWrote, Winner
  <2>6. writer = NULL
    BY <1>1, <2>3, <2>4 DEF TxTypeOK, TxInv, OneWriter
  <2>7. /\ \A r \in Request \ {t} : req'[r] = req[r]
        /\ t \in Put => req'[t].pc = "read" /\ ~req'[t].stale
    <3>1. CASE req[t].pc = "read" /\ req'[t].pc = "error" /\ (writer # NULL \/ req[t].stale)
      <4>1. t \in Admin
        BY <2>1, <2>5, <2>6, <3>1 DEF Beaten
      <4> QED
        BY <1>2, <2>2, <2>3, <2>6, <3>1, <4>1, TxAssumption DEF ReqGoesOn
    <3>2. CASE ~(req[t].pc = "read" /\ req'[t].pc = "error" /\ (writer # NULL \/ req[t].stale))
      BY <1>2, <2>2, <2>3, <3>2, TxAssumption DEF ReqGoesOn
    <3> QED
      BY <3>1, <3>2
  <2>8. u # t /\ req'[u] = req[u]
    BY <2>1, <2>7 DEF Beaten
  <2> QED
    BY <2>5, <2>8 DEF Beaten
<1> QED
  BY <1>2, <1>3, <1>7, <1>8, <1>9, <1>10, <1>11, <1>12, <1>13, <1>14 DEF PushInv

(* What an outsider's step does to the tables. *)
LEMMA OutsideEffect ==
    ASSUME TxInv, OtherLocks \/ OtherEnds
    PROVE  RowsShrink \/ \E k \in Key, h \in Hash : Upsert(1, k, h)
<1>1. CASE OtherCommits
  BY <1>1, OutsideShrinks DEF OtherCommits, TxInv
<1>2. CASE OtherLocks \/ OtherRollsBack
  BY <1>2 DEF OtherLocks, OtherRollsBack, dbVars, tables, RowsShrink, LiveEntries
<1> QED
  BY <1>1, <1>2 DEF OtherEnds

(* Outsiders keep the invariant of the push: what they write is recorded,    *)
(* and where they write is disturbed.                                        *)
LEMMA OutsideStepInv ==
    ASSUME PushInv, OutsideStep PROVE PushInv'
<1>1. /\ TxInv /\ PushTypeOK /\ EntriesSeen /\ TallyOk /\ PushedIsAnswered /\ LandedStays
      /\ FaultFree /\ TxTypeOK
      /\ \A g \in File : TaskOk(g) /\ \A n \in Attempts : RequestOk(g, n)
  BY DEF PushInv, TxInv
<1>2. /\ OtherLocks \/ OtherEnds
      /\ seen' = seen \cup {<<entries'[i].key, entries'[i].blob_hash>> : i \in LiveEntries'}
      /\ disturbed' = disturbed \cup Moved
      /\ UNCHANGED <<content, client, exit, dry, offered>>
  BY DEF OutsideStep, Recorded, LiveEntries, clientVars
<1>3. /\ TxInv' /\ OthersWait(OUTSIDE) /\ faults' = faults
      /\ \A r \in Request : req'[r].pc = req[r].pc
      /\ others' > 0
  BY <1>1, <1>2, OutsideInv
<1>4. ASSUME NEW r \in Request PROVE req'[r].key = req[r].key /\ req'[r].hash = req[r].hash
  <2>1. r \in Request \ {OUTSIDE}
    BY TxAssumption
  <2> QED
    BY <1>1, <1>3, <2>1, WaitFields
<1>5. \A g \in File, n \in Attempts : <<g, n>> \in Request
  BY FileRequests
<1>6. RowsShrink \/ \E k \in Key, h \in Hash : Upsert(1, k, h)
  BY <1>1, <1>2, OutsideEffect
<1>7. EntriesSeen'
  <2>1. ASSUME NEW i \in LiveEntries' PROVE entries'[i].project_id = 1
    <3>1. CASE RowsShrink
      BY <1>1, <3>1 DEF RowsShrink, EntriesSeen
    <3>2. ASSUME NEW k \in Key, NEW h \in Hash, Upsert(1, k, h) PROVE entries'[i].project_id = 1
      <4>1. \/ i \in LiveEntries /\ entries'[i] = entries[i]
            \/ entries'[i].project_id = 1
        BY <1>1, <3>2, UpsertSets
      <4> QED
        BY <1>1, <4>1 DEF EntriesSeen
    <3> QED
      BY <1>6, <3>1, <3>2
  <2> QED
    BY <1>2, <2>1 DEF EntriesSeen
<1>8. PushTypeOK'
  <2>1. ASSUME NEW i \in LiveEntries'
        PROVE  <<entries'[i].key, entries'[i].blob_hash>> \in Key \X Hash
    BY <1>3, <2>1 DEF TxInv, DbInv, DbTypeOK, LiveEntries, EntryRow
  <2>2. seen' \in SUBSET (Key \X Hash) /\ disturbed' \in SUBSET Key
    BY <1>1, <1>2, <2>1 DEF PushTypeOK, Moved
  <2> QED
    BY <1>1, <1>2, <2>2 DEF PushTypeOK
<1>9. \A g \in File : TaskOk(g)' /\ \A n \in Attempts : RequestOk(g, n)'
  BY <1>1, <1>2, <1>3, <1>4, <1>5 DEF TaskOk, RequestOk
<1>10. TallyOk' /\ PushedIsAnswered' /\ FaultFree'
  <2>1. TallyOk' /\ PushedIsAnswered'
    BY <1>1, <1>2, <1>3, <1>5 DEF TallyOk, PushedIsAnswered
  <2>2. \A g \in File, n \in Attempts : req'[<<g, n>>].pc = req[<<g, n>>].pc
    BY <1>3, <1>5
  <2>3. FaultFree'
    BY <1>1, <1>2, <1>3, <2>2 DEF FaultFree
  <2> QED
    BY <2>1, <2>3
<1>11. Contended'
  BY <1>3 DEF Contended, OutsiderWrote
<1>12. LandedStays'
  <2> SUFFICES ASSUME NEW g \in File, Undisturbed(g)', Landed(g)'
               PROVE  Entry(UrlOf[g])' = offered[g]
    BY <1>2 DEF LandedStays
  <2>1. UrlOf[g] \in Key /\ UrlOf[g] \notin Moved
    BY <1>2, PushAssumption DEF Undisturbed
  <2>2. Entry(UrlOf[g])' = Entry(UrlOf[g])
    BY <2>1 DEF Moved
  <2>3. Undisturbed(g) /\ Landed(g)
    BY <1>2, <1>3, <1>5 DEF Undisturbed, Landed
  <2> QED
    BY <1>1, <2>2, <2>3 DEF LandedStays
<1> QED
  BY <1>3, <1>7, <1>8, <1>9, <1>10, <1>11, <1>12 DEF PushInv

-----------------------------------------------------------------------------
(* The theorems *)

(* The invariant holds when the command starts. *)
LEMMA InitPushInv == PushInit => PushInv
<1> SUFFICES ASSUME PushInit PROVE PushInv
  OBVIOUS
<1>1. TxInv /\ TxInit
  BY InitTxInv DEF PushInit
<1>2. \A f \in File : client[f] = [pc |-> "todo", sha |-> NULL, attempt |-> 0]
  BY DEF PushInit
<1>3. \A t \in Request : req[t].pc = "idle"
  BY <1>1 DEF TxInit, ReqIdle
<1>4. PushTypeOK
  <2>1. [pc |-> "todo", sha |-> NULL, attempt |-> 0] \in ClientRecord
    BY PushAssumption DEF ClientRecord, ClientPc
  <2>2. seen \in SUBSET (Key \X Hash)
    BY <1>1 DEF PushInit, TxInv, DbInv, DbTypeOK, LiveEntries, EntryRow
  <2> QED
    BY <2>1, <2>2 DEF PushInit, PushTypeOK
<1>5. EntriesSeen
  BY <1>1 DEF PushInit, TxInit, EntriesSeen
<1>6. TallyOk /\ PushedIsAnswered
  BY <1>2 DEF PushInit, TallyOk, PushedIsAnswered
<1>7. \A f \in File : TaskOk(f) /\ ~Landed(f) /\ \A n \in Attempts : RequestOk(f, n)
  <2>1. \A f \in File : client[f].pc = "todo" /\ client[f].attempt = 0
    BY <1>2
  <2>2. \A f \in File, n \in Attempts : req[<<f, n>>].pc = "idle"
    BY <1>3, FileRequests
  <2>3. \A f \in File : TaskOk(f)
    BY <2>1 DEF TaskOk
  <2>4. \A f \in File, n \in Attempts : RequestOk(f, n)
    BY <2>2 DEF RequestOk
  <2>5. \A f \in File : ~Landed(f)
    BY <2>1, <2>2 DEF Landed
  <2> QED
    BY <2>3, <2>4, <2>5
<1>8. FaultFree
  BY <1>2, <1>3, FileRequests DEF FaultFree
<1>9. Contended /\ LandedStays
  BY <1>3, <1>7 DEF Contended, Beaten, LandedStays, Request
<1> QED
  BY <1>1, <1>4, <1>5, <1>6, <1>7, <1>8, <1>9 DEF PushInv

(* The steps of a push, by who takes them. *)
LEMMA PushCases ==
    ASSUME PushNext
    PROVE  \/ \E f \in File : TaskAlone(f) \/ PutSend(f)
           \/ \E f \in File, h \in Hash : FileWritten(f, h)
           \/ Exit
           \/ \E t \in Request : ServerMoves(t)
           \/ OutsideStep
<1>1. \A t \in Admin : t \in Request
  BY DEF Request
<1> QED
  BY <1>1 DEF PushNext, ClientStep, TaskAlone, ServerMoves

(* Every step keeps the invariant. *)
LEMMA NextPushInv == PushInv /\ [PushNext]_pushVars => PushInv'
<1> SUFFICES ASSUME PushInv, [PushNext]_pushVars PROVE PushInv'
  OBVIOUS
<1>1. CASE PushNext
  BY <1>1, PushCases, TaskInv, SendInv, WrittenInv, ExitInv, ServerMovesInv, OutsideStepInv
<1>2. CASE UNCHANGED pushVars
  <2>1. /\ UNCHANGED <<dbVars, req, writer, audited, others, faults>>
        /\ UNCHANGED <<content, client, exit, dry, offered, seen, disturbed>>
    BY <1>2 DEF pushVars, txVars, clientVars
  <2>2. TxInv'
    BY <2>1, ElsewhereInv DEF PushInv, TxInv, TxTypeOK
  <2>3. \A k : Entry(k)' = Entry(k)
    BY <2>1, SameEntry
  <2>4. EntriesSeen'
    BY <2>1 DEF PushInv, EntriesSeen, LiveEntries, dbVars, tables
  <2>5. LandedStays'
    BY <2>1, <2>3 DEF PushInv, LandedStays, Landed, Undisturbed
  <2>6. PushTypeOK' /\ TallyOk' /\ PushedIsAnswered' /\ FaultFree' /\ Contended'
    BY <2>1 DEF PushInv, PushTypeOK, TallyOk, PushedIsAnswered, FaultFree, Contended, Beaten,
                Winner, OutsiderWrote
  <2>7. \A f \in File : TaskOk(f)' /\ \A n \in Attempts : RequestOk(f, n)'
    BY <2>1 DEF PushInv, TaskOk, RequestOk
  <2> QED
    BY <2>2, <2>4, <2>5, <2>6, <2>7 DEF PushInv
<1> QED
  BY <1>1, <1>2

(* The inductive invariant of the push and of the transactions under it      *)
(* (push.rs, entries.rs).                                                    *)
THEOREM PushInvariant == PushSpec => []PushInv
  BY InitPushInv, NextPushInv, PTL DEF PushSpec

(* upsert and delete are atomic, although they read first and write later    *)
(* (entries.rs:117-119): every change of the tables is one method of the     *)
(* store.                                                                    *)
THEOREM TransactionsAreAtomic == PushSpec => TxAtomic
<1>1. PushInv /\ [PushNext]_pushVars => [DbNext]_dbVars
  <2> SUFFICES ASSUME PushInv, [PushNext]_pushVars PROVE [DbNext]_dbVars
    OBVIOUS
  <2>1. ASSUME NEW f \in File, TaskAlone(f) PROVE UNCHANGED dbVars
    BY <2>1, TaskEffect
  <2>2. ASSUME NEW f \in File, PutSend(f) PROVE UNCHANGED dbVars
    BY <2>2 DEF PutSend, PutArrives
  <2>3. ASSUME NEW f \in File, NEW h \in Hash, FileWritten(f, h) PROVE UNCHANGED dbVars
    BY <2>3 DEF FileWritten, txVars
  <2>4. CASE Exit
    BY <2>4 DEF Exit, txVars
  <2>5. ASSUME NEW t \in Request, ServerMoves(t) PROVE [DbNext]_dbVars
    <3>1. CASE UpsertCommit(t) \/ DeleteCommit(t)
      BY <3>1, CommitIsMethod DEF PushInv
    <3>2. CASE ~(UpsertCommit(t) \/ DeleteCommit(t))
      BY <2>5, <3>2, ServerSeen
    <3> QED
      BY <3>1, <3>2
  <2>6. CASE UNCHANGED pushVars
    BY <2>6 DEF pushVars, txVars
  <2>7. CASE OutsideStep
    BY <2>7, OutsideInv DEF OutsideStep, PushInv
  <2> QED
    BY <2>1, <2>2, <2>3, <2>4, <2>5, <2>6, <2>7, PushCases
<1> QED
  BY <1>1, PushInvariant, PTL DEF PushSpec, TxAtomic

(* A row of the audit log means that the entry is gone for good, and a       *)
(* DELETE that was answered 204 has its row (routes/admin/entries.rs).       *)
THEOREM AuditIsTrue == PushSpec => []AuditTellsTruth
<1>1. PushInv => AuditTellsTruth
  <2> SUFFICES ASSUME PushInv, NEW t \in Admin
               PROVE  /\ t \in audited => entries[req[t].id] = NULL
                      /\ req[t].pc = "ok" => t \in audited
    BY DEF AuditTellsTruth
  <2>1. ReqOk(t)
    BY DEF PushInv, TxInv, Request
  <2> QED
    BY <2>1 DEF ReqOk
<1> QED
  BY <1>1, PushInvariant, PTL

(* Exit code 0 means that the content of every undisturbed file is on the    *)
(* server, and stays there whatever late attempts still do (push.rs).        *)
THEOREM SuccessIsLasting == PushSpec => []SuccessLasts
<1>1. PushInv => SuccessLasts
  <2> SUFFICES ASSUME PushInv, exit = "0", ~dry, NEW f \in File, Undisturbed(f)
               PROVE  Entry(UrlOf[f]) = offered[f]
    BY DEF SuccessLasts
  <2>1. client[f].pc \in {"pushed", "skipped"}
    BY DEF PushInv, TallyOk, Settled
  <2>2. Landed(f)
    BY <2>1 DEF PushInv, PushedIsAnswered, Landed
  <2> QED
    BY <2>2 DEF PushInv, LandedStays
<1> QED
  BY <1>1, PushInvariant, PTL

(* Contention within the push never fails all of its files: a transaction    *)
(* that SQLite turns away has lost to one that writes, so when every file    *)
(* has failed without a fault the writer came from outside: a sweep, a       *)
(* touch, another client or an administrator (push.rs, BEGIN DEFERRED of     *)
(* entries.rs).                                                              *)
THEOREM ContentionHasAWinner == PushSpec => []SomebodyWins
<1>1. PushInv => SomebodyWins
  <2> SUFFICES ASSUME PushInv, exit = "1", faults = 0, \A f \in File : client[f].pc = "failed",
                      ~OutsiderWrote
               PROVE  FALSE
    BY DEF SomebodyWins
  <2>1. \A f \in File, n \in Attempts : req[<<f, n>>].pc \in {"idle", "error"}
    BY DEF PushInv, FaultFree
  <2>2. PICK f \in File : client[f].pc = "failed"
    BY DEF PushInv, TallyOk
  <2>3. PICK n \in Attempts : req[<<f, n>>].pc = "error"
    BY <2>2 DEF PushInv, FaultFree
  <2>4. PICK t \in Put : Winner(t)
    BY <2>3, FileRequests DEF PushInv, Contended, Beaten
  <2> QED
    BY <2>1, <2>4, FileRequests DEF Winner
<1> QED
  BY <1>1, PushInvariant, PTL

-----------------------------------------------------------------------------
(* The promise of the push *)

(* Publish's view of the server and of the tasks, by name. *)
OneOf(S) == IF S = {} THEN NULL ELSE CHOOSE h \in S : TRUE

Remote == [k \in Key |-> OneOf(Entry(k))]

Outcome(f) ==
    CASE client[f].pc \notin Settled                      -> "open"
      [] client[f].pc \in {"pushed", "skipped"} /\ ~dry   -> "success"
      [] client[f].pc \in {"pushed", "skipped"} /\ dry    -> "open"
      [] client[f].pc = "failed"                          -> "failure"

Outcomes == [f \in File |-> Outcome(f)]

(* What the tasks' states mean to the user. *)
LEMMA OutcomeIs ==
    ASSUME NEW f \in File
    PROVE  /\ client[f].pc \notin Settled => Outcome(f) = "open"
           /\ client[f].pc \in {"pushed", "skipped"} =>
                 Outcome(f) = IF dry THEN "open" ELSE "success"
           /\ client[f].pc = "failed" => Outcome(f) = "failure"
<1>1. CASE client[f].pc \notin Settled
  <2>1. client[f].pc \notin {"pushed", "skipped"} /\ client[f].pc # "failed"
    BY <1>1 DEF Settled
  <2> QED
    BY <1>1, <2>1 DEF Outcome
<1>2. CASE client[f].pc \in {"pushed", "skipped"}
  <2>1. client[f].pc \in Settled /\ client[f].pc # "failed"
    BY <1>2 DEF Settled
  <2>2. CASE dry
    BY <1>2, <2>1, <2>2 DEF Outcome
  <2>3. CASE ~dry
    BY <1>2, <2>1, <2>3 DEF Outcome
  <2> QED
    BY <1>2, <2>1, <2>2, <2>3
<1>3. CASE client[f].pc = "failed"
  <2>1. client[f].pc \in Settled /\ client[f].pc \notin {"pushed", "skipped"}
    BY <1>3 DEF Settled
  <2> QED
    BY <1>3, <2>1 DEF Outcome
<1> QED
  BY <1>1, <1>2, <1>3 DEF Settled

(* A task that stays where it is, or goes on, is as open as it was. *)
LEMMA SameOutcome ==
    ASSUME NEW f \in File, dry' = dry,
           \/ client'[f].pc = client[f].pc
           \/ client[f].pc \notin Settled /\ client'[f].pc \notin Settled
    PROVE  Outcome(f)' = Outcome(f)
<1>1. CASE client'[f].pc = client[f].pc
  BY <1>1 DEF Outcome
<1>2. CASE client[f].pc \notin Settled /\ client'[f].pc \notin Settled
  <2>1. Outcome(f) = "open"
    BY <1>2, OutcomeIs
  <2>2. /\ client'[f].pc \notin {"pushed", "skipped"} /\ client'[f].pc # "failed"
    BY <1>2 DEF Settled
  <2>3. Outcome(f)' = "open"
    BY <1>2, <2>2 DEF Outcome
  <2> QED
    BY <2>1, <2>3
<1> QED
  BY <1>1, <1>2

(* What the server has, as a function of the URLs. *)
LEMMA RemoteIs ==
    ASSUME DbInv
    PROVE  /\ Remote \in [Key -> Hash \cup {NULL}]
           /\ \A k \in Key : /\ Entry(k) = {} <=> Remote[k] = NULL
                             /\ \A c \in Entry(k) : Remote[k] = c
<1>1. ASSUME NEW k \in Key
      PROVE  /\ Remote[k] \in Hash \cup {NULL}
             /\ Entry(k) = {} <=> Remote[k] = NULL
             /\ \A c \in Entry(k) : Remote[k] = c
  <2>1. Remote[k] = IF Entry(k) = {} THEN NULL ELSE CHOOSE h \in Entry(k) : TRUE
    BY DEF Remote, OneOf
  <2>2. CASE Entry(k) = {}
    BY <2>1, <2>2
  <2>3. ASSUME NEW c \in Entry(k)
        PROVE  Remote[k] = c /\ c \in Hash /\ Remote[k] # NULL
    <3>1. Entry(k) = {c} /\ c \in Hash
      BY <2>3, EntryIsSingle
    <3> QED
      BY <2>1, <3>1, TxAssumption
  <2> QED
    BY <2>2, <2>3
<1>2. Remote = [k \in Key |-> Remote[k]]
  BY DEF Remote
<1> QED
  BY <1>1, <1>2

(* A step the user does not see. *)
LEMMA Unseen ==
    ASSUME \A k \in Key : Entry(k)' = Entry(k), UNCHANGED <<seen, offered>>, Foreign' = Foreign,
           \A f \in File : Outcome(f)' = Outcome(f)
    PROVE  UNCHANGED Promise!publishVars
<1>1. Remote' = Remote
  BY DEF Remote
<1>2. Outcomes' = Outcomes
  BY DEF Outcomes
<1> QED
  BY <1>1, <1>2 DEF Promise!publishVars, Remote, OneOf, Outcomes, Outcome, Foreign

(* A task is called a success or a failure, once. *)
LEMMA Settles ==
    ASSUME NEW f \in File, UNCHANGED <<dry, seen, offered>>, Foreign' = Foreign,
           \A k \in Key : Entry(k)' = Entry(k),
           \A g \in File \ {f} : client'[g] = client[g],
           client[f].pc \notin Settled
    PROVE  /\ /\ client'[f].pc \in {"pushed", "skipped"} /\ ~dry
              /\ \E c \in offered[f] : <<UrlOf[f], c>> \in seen
              => Promise!Succeed(f)
           /\ client'[f].pc = "failed" => Promise!Fail(f)
<1>1. Remote' = Remote
  BY DEF Remote
<1>2. Outcome(f) = "open" /\ \A g \in File \ {f} : Outcome(g)' = Outcome(g)
  BY OutcomeIs, SameOutcome
<1>3. Outcomes = [g \in File |-> Outcome(g)] /\ Outcomes' = [g \in File |-> Outcome(g)']
  BY DEF Outcomes
<1>4. Outcomes[f] = "open" /\ Outcomes' = [Outcomes EXCEPT ![f] = Outcome(f)']
  BY <1>2, <1>3
<1>5. ASSUME client'[f].pc \in {"pushed", "skipped"}, ~dry,
             \E c \in offered[f] : <<UrlOf[f], c>> \in seen
      PROVE  Promise!Succeed(f)
  <2>1. Outcome(f)' = "success"
    <3>1. client'[f].pc \in Settled /\ client'[f].pc # "failed" /\ ~dry'
      BY <1>5 DEF Settled
    <3> QED
      BY <1>5, <3>1 DEF Outcome
  <2>2. Outcomes' = [Outcomes EXCEPT ![f] = "success"]
    BY <1>4, <2>1
  <2> QED
    BY <1>1, <1>4, <1>5, <2>2 DEF Promise!Succeed, Remote, OneOf, Outcomes, Outcome, Foreign
<1>6. ASSUME client'[f].pc = "failed" PROVE Promise!Fail(f)
  <2>1. Outcome(f)' = "failure"
    <3>1. client'[f].pc \in Settled /\ client'[f].pc \notin {"pushed", "skipped"}
      BY <1>6 DEF Settled
    <3> QED
      BY <1>6, <3>1 DEF Outcome
  <2>2. Outcomes' = [Outcomes EXCEPT ![f] = "failure"]
    BY <1>4, <2>1
  <2> QED
    BY <1>1, <1>4, <2>2 DEF Promise!Fail, Remote, OneOf, Outcomes, Outcome, Foreign
<1> QED
  BY <1>5, <1>6

(* push_one between its requests: a task succeeds only with what the server  *)
(* has had of its file.                                                      *)
LEMMA TaskKeepsPromise ==
    ASSUME PushInv, NEW f \in File, TaskAlone(f)
    PROVE  Promise!Succeed(f) \/ Promise!Fail(f) \/ UNCHANGED Promise!publishVars
<1>1. /\ TaskGoesOn(f)
      /\ \A g \in File \ {f} : client'[g] = client[g]
      /\ UNCHANGED <<dbVars, dry, offered, seen>> /\ Foreign' = Foreign
  BY TaskEffect DEF Foreign
<1>2. \A k \in Key : Entry(k)' = Entry(k)
  BY <1>1, SameEntry
<1>3. client[f].pc \notin Settled
  BY <1>1 DEF TaskGoesOn, Settled
<1>4. CASE client'[f].pc \in {"pushed", "skipped"} /\ ~dry
  <2>1. \E c \in offered[f] : <<UrlOf[f], c>> \in seen
    <3>1. CASE client'[f].pc = "skipped"
      <4>1. client[f].pc = "head" /\ client[f].sha \in Entry(UrlOf[f])
        BY <1>1, <3>1 DEF TaskGoesOn
      <4>2. PICK i \in Find(1, UrlOf[f]) : client[f].sha = entries[i].blob_hash
        BY <4>1 DEF Entry
      <4>3. <<UrlOf[f], client[f].sha>> \in seen
        BY <4>2 DEF Find, PushInv, EntriesSeen
      <4>4. client[f].sha \in offered[f]
        BY <4>1 DEF PushInv, TaskOk
      <4> QED
        BY <4>3, <4>4
    <3>2. CASE client'[f].pc = "pushed"
      <4>1. client[f].pc = "sent" /\ req[Attempt(f)].pc = "ok"
        BY <1>1, <1>4, <3>2 DEF TaskGoesOn
      <4>2. client[f].attempt \in Attempts
        BY <4>1 DEF PushInv, TaskOk
      <4> QED
        BY <4>1, <4>2 DEF Attempt, PushInv, RequestOk
    <3> QED
      BY <1>4, <3>1, <3>2
  <2> QED
    BY <1>1, <1>2, <1>3, <1>4, <2>1, Settles
<1>5. CASE client'[f].pc = "failed"
  BY <1>1, <1>2, <1>3, <1>5, Settles
<1>6. CASE client'[f].pc \in {"pushed", "skipped"} /\ dry
  <2>1. Outcome(f) = "open"
    BY <1>3, OutcomeIs
  <2>2. Outcome(f)' = "open"
    <3>1. client'[f].pc \in Settled /\ client'[f].pc # "failed" /\ dry'
      BY <1>1, <1>6 DEF Settled
    <3> QED
      BY <1>6, <3>1 DEF Outcome
  <2>3. \A g \in File : Outcome(g)' = Outcome(g)
    BY <1>1, <2>1, <2>2, SameOutcome
  <2> QED
    BY <1>1, <1>2, <2>3, Unseen
<1>7. CASE client'[f].pc \in {"head", "put"}
  <2>1. client'[f].pc \notin Settled
    BY <1>7 DEF Settled
  <2>2. \A g \in File : Outcome(g)' = Outcome(g)
    BY <1>1, <1>3, <2>1, SameOutcome
  <2> QED
    BY <1>1, <1>2, <2>2, Unseen
<1> QED
  BY <1>1, <1>4, <1>5, <1>6, <1>7 DEF TaskGoesOn

(* A committed PUT stores something its file has contained; a committed      *)
(* DELETE removes; nothing else that the server does is seen.                *)
LEMMA ServerKeepsPromise ==
    ASSUME PushInv, NEW t \in Request, ServerMoves(t)
    PROVE  \/ \E f \in File, c \in Hash : Promise!Store(f, c)
           \/ \E u \in Key : Promise!Remove(u)
           \/ UNCHANGED Promise!publishVars
<1>1. /\ TxInv /\ TxInv' /\ UNCHANGED <<client, dry, offered>> /\ Foreign' = Foreign
      /\ \A f \in File, n \in Attempts : RequestOk(f, n)
  BY ServerEffect DEF PushInv, clientVars
<1>2. /\ UpsertCommit(t) => seen' = seen \cup {<<req[t].key, req[t].hash>>}
      /\ ~UpsertCommit(t) => seen' = seen
      /\ ~UpsertCommit(t) /\ ~DeleteCommit(t) => UNCHANGED dbVars
  BY ServerSeen
<1>3. \A f \in File : Outcome(f)' = Outcome(f)
  BY <1>1, SameOutcome
<1>4. Outcomes' = Outcomes
  BY <1>3 DEF Outcomes
<1>5. Remote = [k \in Key |-> OneOf(Entry(k))] /\ Remote' = [k \in Key |-> OneOf(Entry(k)')]
  BY DEF Remote
<1>6. \A c : OneOf({c}) = c
  BY DEF OneOf
<1>7. CASE UpsertCommit(t)
  <2>1. PICK f \in File, n \in Attempts : t = <<f, n>>
    BY <1>7, FileRequests DEF UpsertCommit
  <2>2. PICK k, c : k = req[t].key /\ c = req[t].hash
    OBVIOUS
  <2>3. k = UrlOf[f] /\ c \in offered[f] /\ k \in Key /\ c \in Hash
    <3>1. req[t].pc = "wrote"
      BY <1>7 DEF UpsertCommit
    <3>2. k \in Key /\ c \in Hash
      BY <1>1, <1>7, <2>2, UpsertIsAtomic
    <3> QED
      BY <1>1, <2>1, <2>2, <3>1, <3>2 DEF RequestOk
  <2>4. Entry(k)' = {c} /\ \A g \in Key \ {k} : Entry(g)' = Entry(g)
    <3>1. Upsert(1, k, c)
      BY <1>1, <1>7, <2>2, UpsertIsAtomic
    <3> QED
      BY <1>1, <2>3, <3>1, UpsertSets
  <2>5. Remote' = [Remote EXCEPT ![UrlOf[f]] = c]
    BY <1>5, <1>6, <2>3, <2>4
  <2>6. seen' = seen \cup {<<UrlOf[f], c>>}
    BY <1>2, <1>7, <2>2, <2>3
  <2>7. Promise!Store(f, c)
    BY <1>1, <1>4, <2>3, <2>5, <2>6 DEF Promise!Store, Remote, OneOf, Outcomes, Outcome, Foreign
  <2> QED
    BY <2>3, <2>7
<1>8. CASE DeleteCommit(t)
  <2>1. ~UpsertCommit(t)
    BY <1>8, TxAssumption DEF UpsertCommit, DeleteCommit
  <2>2. PICK k \in Key : Entry(k)' = {} /\ \A g \in Key \ {k} : Entry(g)' = Entry(g)
    BY <1>1, <1>8, DeleteIsAtomic, DeleteClears
  <2>3. OneOf({}) = NULL
    BY DEF OneOf
  <2>4. Remote' = [Remote EXCEPT ![k] = NULL]
    BY <1>5, <2>2, <2>3
  <2>5. Promise!Remove(k)
    BY <1>1, <1>2, <1>4, <2>1, <2>4 DEF Promise!Remove, Remote, OneOf, Outcomes, Outcome, Foreign
  <2> QED
    BY <2>5
<1>9. CASE ~UpsertCommit(t) /\ ~DeleteCommit(t)
  BY <1>1, <1>2, <1>3, <1>9, SameEntry, Unseen
<1> QED
  BY <1>7, <1>8, <1>9

(* What an outsider writes is counted as that. *)
LEMMA OutsideKeepsPromise ==
    ASSUME PushInv, OutsideStep PROVE Promise!Outside \/ UNCHANGED Promise!publishVars
<1>1. /\ TxInv /\ DbInv /\ EntriesSeen /\ TxInv' /\ DbInv'
      /\ OtherLocks \/ OtherEnds
      /\ seen' = seen \cup {<<entries'[i].key, entries'[i].blob_hash>> : i \in LiveEntries'}
      /\ UNCHANGED <<client, dry, offered>>
  BY OutsideStepInv DEF PushInv, TxInv, OutsideStep, Recorded, LiveEntries, clientVars
<1>2. \A f \in File : Outcome(f)' = Outcome(f)
  BY <1>1, SameOutcome
<1>3. Outcomes' = Outcomes
  BY <1>2 DEF Outcomes
<1>4. Remote = [k \in Key |-> OneOf(Entry(k))] /\ Remote' = [k \in Key |-> OneOf(Entry(k)')]
  BY DEF Remote
<1>5. OneOf({}) = NULL /\ \A c : OneOf({c}) = c
  BY DEF OneOf
<1>6. RowsShrink => seen' = seen
  <2> SUFFICES ASSUME RowsShrink PROVE seen' = seen
    OBVIOUS
  <2>1. ASSUME NEW i \in LiveEntries'
        PROVE  <<entries'[i].key, entries'[i].blob_hash>> \in seen
    BY <1>1 DEF EntriesSeen, RowsShrink
  <2> QED
    BY <1>1, <2>1
<1>7. CASE OtherLocks
  <2>1. UNCHANGED dbVars /\ writer = NULL /\ writer' = OUTSIDE /\ others' = others + 1 /\ others \in Nat
    BY <1>1, <1>7 DEF OtherLocks, TxInv, TxTypeOK
  <2>2. Foreign' = Foreign
    BY <2>1, TxAssumption DEF Foreign
  <2>3. RowsShrink
    BY <2>1 DEF dbVars, tables, RowsShrink, LiveEntries
  <2> QED
    BY <1>1, <1>2, <1>6, <2>1, <2>2, <2>3, SameEntry, Unseen
<1>8. CASE OtherEnds
  <2>1. Foreign' = Foreign + 1
    <3>1. writer = OUTSIDE /\ writer' = NULL /\ others' = others /\ others \in Nat
      BY <1>1, <1>8 DEF OtherEnds, OtherCommits, OtherRollsBack, TxInv, TxTypeOK
    <3> QED
      BY <3>1, TxAssumption DEF Foreign
  <2>2. CASE RowsShrink
    <3>1. PICK U \in SUBSET Key : U = {k \in Key : Entry(k)' = {}}
      OBVIOUS
    <3>2. ASSUME NEW k \in Key PROVE Remote'[k] = IF k \in U THEN NULL ELSE Remote[k]
      BY <1>1, <1>4, <1>5, <2>2, <3>1, ShrinkClears
    <3>3. Remote' = [k \in Key |-> IF k \in U THEN NULL ELSE Remote[k]]
      BY <1>4, <3>2
    <3> QED
      BY <1>1, <1>3, <1>6, <2>1, <2>2, <3>3
      DEF Promise!Outside, Remote, OneOf, Outcomes, Outcome, Foreign
  <2>3. ASSUME NEW k \in Key, NEW h \in Hash, Upsert(1, k, h) PROVE Promise!Outside
    <3>1. /\ Entry(k)' = {h} /\ \A g \in Key \ {k} : Entry(g)' = Entry(g)
          /\ \A i \in LiveEntries' :
                \/ i \in LiveEntries /\ entries'[i] = entries[i]
                \/ entries'[i].project_id = 1 /\ entries'[i].key = k /\ entries'[i].blob_hash = h
          /\ \E i \in LiveEntries' : entries'[i].key = k /\ entries'[i].blob_hash = h
      BY <1>1, <2>3, UpsertSets
    <3>2. Remote' = [Remote EXCEPT ![k] = h]
      BY <1>4, <1>5, <3>1
    <3>3. seen' = seen \cup {<<k, h>>}
      <4>1. ASSUME NEW i \in LiveEntries'
            PROVE  <<entries'[i].key, entries'[i].blob_hash>> \in seen \cup {<<k, h>>}
        BY <1>1, <3>1, <4>1 DEF EntriesSeen
      <4>2. <<k, h>> \in {<<entries'[i].key, entries'[i].blob_hash>> : i \in LiveEntries'}
        BY <3>1
      <4> QED
        BY <1>1, <4>1, <4>2
    <3> QED
      BY <1>1, <1>3, <2>1, <3>2, <3>3
      DEF Promise!Outside, Remote, OneOf, Outcomes, Outcome, Foreign
  <2> QED
    BY <1>1, <2>2, <2>3, OutsideEffect
<1> QED
  BY <1>1, <1>7, <1>8

(* A file is written: another content is offered. *)
LEMMA WrittenKeepsPromise ==
    ASSUME PushInv, NEW f \in File, NEW h \in Hash, FileWritten(f, h)
    PROVE  Promise!Write(f, h)
<1>1. /\ UNCHANGED <<dbVars, client, dry, seen>> /\ Foreign' = Foreign
      /\ offered' = [offered EXCEPT ![f] = offered[f] \cup {h}]
  BY DEF FileWritten, txVars, Foreign
<1>2. Remote' = Remote
  BY <1>1, SameEntry DEF Remote
<1>3. Outcomes' = Outcomes
  BY <1>1, SameOutcome DEF Outcomes
<1> QED
  BY <1>1, <1>2, <1>3 DEF Promise!Write, Remote, OneOf, Outcomes, Outcome, Foreign

(* The push starts with what the server has, and with every file open. *)
LEMMA InitKeepsPromise == PushInit => Promise!PublishInit
<1> SUFFICES ASSUME PushInit PROVE Promise!PublishInit
  OBVIOUS
<1>1. DbInv /\ \A i \in LiveEntries : entries[i].project_id = 1
  BY InitTxInv DEF PushInit, TxInv, TxInit
<1>2. /\ Remote \in [Key -> Hash \cup {NULL}]
      /\ \A k \in Key : /\ Entry(k) = {} <=> Remote[k] = NULL
                        /\ \A c \in Entry(k) : Remote[k] = c
  BY <1>1, RemoteIs
<1>3. seen = {<<u, Remote[u]>> : u \in {v \in Key : Remote[v] # NULL}}
  <2>1. ASSUME NEW i \in LiveEntries
        PROVE  /\ entries[i].key \in Key /\ Remote[entries[i].key] = entries[i].blob_hash
               /\ Remote[entries[i].key] # NULL
    <3>1. entries[i].key \in Key
      BY <1>1 DEF DbInv, DbTypeOK, LiveEntries, EntryRow
    <3>2. i \in Find(1, entries[i].key)
      BY <1>1 DEF Find
    <3>3. entries[i].blob_hash \in Entry(entries[i].key)
      BY <3>2 DEF Entry
    <3> QED
      BY <1>2, <3>1, <3>3
  <2>2. ASSUME NEW u \in Key, Remote[u] # NULL
        PROVE  \E i \in LiveEntries : <<u, Remote[u]>> = <<entries[i].key, entries[i].blob_hash>>
    <3>1. PICK c : c \in Entry(u)
      BY <1>2, <2>2
    <3>2. PICK i \in Find(1, u) : c = entries[i].blob_hash
      BY <3>1 DEF Entry
    <3>3. i \in LiveEntries /\ entries[i].key = u /\ Remote[u] = c
      BY <1>2, <3>1, <3>2 DEF Find
    <3> QED
      BY <3>2, <3>3
  <2>3. seen = {<<entries[i].key, entries[i].blob_hash>> : i \in LiveEntries}
    BY DEF PushInit
  <2> QED
    BY <2>1, <2>2, <2>3
<1>4. \E c \in [File -> Hash] : offered = [f \in File |-> {c[f]}]
  BY DEF PushInit
<1>5. Outcomes = [f \in File |-> "open"]
  <2>1. \A f \in File : client[f].pc \notin Settled
    BY DEF PushInit, Settled
  <2> QED
    BY <2>1, OutcomeIs DEF Outcomes
<1>6. Foreign = 0
  BY TxAssumption DEF PushInit, TxInit, Foreign
<1> QED
  BY <1>2, <1>3, <1>4, <1>5, <1>6 DEF Promise!PublishInit, Remote, OneOf, Outcomes, Outcome, Foreign

(* `marmotte push' implements Publish: a file is settled once, a success is  *)
(* never reported without the server having had one of its contents under    *)
(* its URL, and nothing else is ever stored, for all the retries, lost       *)
(* answers, late attempts and files that change under way (push.rs).         *)
THEOREM PushKeepsPromise == PushSpec => KeepsPromise
<1>1. PushInv /\ [PushNext]_pushVars => [Promise!PublishNext]_(Promise!publishVars)
  <2> SUFFICES ASSUME PushInv, [PushNext]_pushVars
               PROVE  Promise!PublishNext \/ UNCHANGED Promise!publishVars
    OBVIOUS
  <2>1. ASSUME NEW f \in File, TaskAlone(f)
        PROVE  Promise!PublishNext \/ UNCHANGED Promise!publishVars
    BY <2>1, TaskKeepsPromise DEF Promise!PublishNext
  <2>2. ASSUME NEW f \in File, PutSend(f) PROVE UNCHANGED Promise!publishVars
    <3>1. UNCHANGED <<dbVars, dry, offered, seen>> /\ client[f].pc = "put" /\ Foreign' = Foreign
      BY <2>2 DEF PutSend, PutArrives, Foreign
    <3>2. client'[f].pc = "sent" /\ \A g \in File \ {f} : client'[g] = client[g]
      BY <2>2 DEF PutSend, PushInv, PushTypeOK, ClientRecord
    <3>3. \A g \in File : Outcome(g)' = Outcome(g)
      BY <3>1, <3>2, SameOutcome DEF Settled
    <3> QED
      BY <3>1, <3>3, SameEntry, Unseen
  <2>3. ASSUME NEW f \in File, NEW h \in Hash, FileWritten(f, h) PROVE Promise!PublishNext
    BY <2>3, WrittenKeepsPromise DEF Promise!PublishNext
  <2>4. CASE Exit
    <3>1. UNCHANGED <<dbVars, client, dry, offered, seen>> /\ Foreign' = Foreign
      BY <2>4 DEF Exit, txVars, Foreign
    <3> QED
      BY <3>1, SameOutcome, SameEntry, Unseen
  <2>5. ASSUME NEW t \in Request, ServerMoves(t)
        PROVE  Promise!PublishNext \/ UNCHANGED Promise!publishVars
    BY <2>5, ServerKeepsPromise DEF Promise!PublishNext
  <2>6. CASE UNCHANGED pushVars
    <3>1. UNCHANGED <<dbVars, client, dry, offered, seen>> /\ Foreign' = Foreign
      BY <2>6 DEF pushVars, txVars, clientVars, Foreign
    <3> QED
      BY <3>1, SameOutcome, SameEntry, Unseen
  <2>7. CASE OutsideStep
    BY <2>7, OutsideKeepsPromise DEF Promise!PublishNext
  <2> QED
    BY <2>1, <2>2, <2>3, <2>4, <2>5, <2>6, <2>7, PushCases
<1> QED
  BY <1>1, InitKeepsPromise, PushInvariant, PTL
  DEF PushSpec, KeepsPromise, Promise!PublishSpec
=============================================================================
