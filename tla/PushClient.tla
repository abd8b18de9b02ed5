----------------------------- MODULE PushClient -----------------------------
(***************************************************************************)
(* `marmotte push' (crates/marmotte-cli/src/commands/push.rs) against the  *)
(* server of SqliteTx: a task per file behind a semaphore hashes the file, *)
(* asks HEAD whether the server has it, and otherwise sends it by PUT, up  *)
(* to MAX_RETRIES times while the answer is a 5xx.                         *)
(*                                                                         *)
(* Requests that the client has given up on may still be running in the    *)
(* server.  The files may be written while they are pushed.  A read of a   *)
(* file is one step.  Each file has its PUT requests <<file, attempt>>.    *)
(***************************************************************************)
EXTENDS SqliteTx

CONSTANTS
    File,           \* what walk() found
    UrlOf,          \* [File -> Key], base_url.join of the relative path
    MaxRetries,     \* MAX_RETRIES
    MaxMeddling,    \* bound: files written, DELETEs and writes by others
    Concurrency     \* --concurrency; with 0 no file is ever started

ASSUME PushAssumption ==
    /\ UrlOf \in [File -> Key]
    /\ MaxRetries \in Nat \ {0} /\ MaxMeddling \in Nat
    /\ Concurrency \in Nat \ {0}
    /\ Put = File \X (1..MaxRetries)

VARIABLES
    content,        \* [File -> Hash], what each file contains now
    client,         \* [File -> the progress of push_one]
    exit,           \* "running", then the exit code 0 or 1
    dry,            \* --dry-run
    offered,        \* history: [File -> SUBSET Hash], what each file has contained
    seen,           \* history: the <<key, hash>> pairs that have been in entries
    disturbed       \* history: the URLs where an outsider wrote or removed an entry

clientVars == <<content, client, exit, dry>>

pushVars == <<txVars, clientVars, offered, seen, disturbed>>

Settled == {"pushed", "skipped", "failed"}

(* The tasks that hold a permit. *)
Running == {f \in File : client[f].pc \notin Settled \cup {"todo"}}

(* The request of the attempt that f is waiting for. *)
Attempt(f) == <<f, client[f].attempt>>

(* push_one goes on to "put", or returns and drops its locals. *)
Settle(f, pc) ==
    client' = [client EXCEPT ![f].pc = pc, ![f].sha = NULL,
                             ![f].attempt = IF pc \in Settled THEN 0 ELSE @]

Entry(k) == {entries[i].blob_hash : i \in Find(1, k)}

(* Nothing but the client's own state changes. *)
ClientOnly == UNCHANGED <<txVars, content, exit, dry, offered, seen, disturbed>>

-----------------------------------------------------------------------------
(* sha256_file: the hash of what the file contains. *)
Sha256File(f) == content[f]

(* run: a permit is free, the next file's task is spawned, and its first    *)
(* step is sha256_file.                                                     *)
Spawn(f) ==
    /\ exit = "running" /\ client[f].pc = "todo"
    /\ Cardinality(Running) < Concurrency
    /\ client' = [client EXCEPT ![f].pc = "head", ![f].sha = Sha256File(f)]
    /\ ClientOnly

(* HEAD: get_one answers from the entry alone.  The same hash is Skipped;   *)
(* another one or 404 goes on, which a dry run calls Pushed.                *)
HeadAnswered(f) ==
    /\ client[f].pc = "head"
    /\ Settle(f, CASE client[f].sha \in Entry(UrlOf[f])                   -> "skipped"
                   [] client[f].sha \notin Entry(UrlOf[f]) /\ dry         -> "pushed"
                   [] client[f].sha \notin Entry(UrlOf[f]) /\ ~dry        -> "put")
    /\ ClientOnly

(* Mutant of PutSend: a retry sends an emptied buffer, here any content. *)
PutSendConsumed(f) ==
    /\ client[f].pc = "put"
    /\ client' = [client EXCEPT ![f].pc = "sent", ![f].attempt = @ + 1]
    /\ \E h \in Hash : /\ client[f].attempt = 0 => h = content[f]
                       /\ PutArrives(<<f, client[f].attempt + 1>>, UrlOf[f], h)
    /\ UNCHANGED <<content, exit, dry, offered, seen, disturbed>>

(* attempt += 1, the file is read again, and the PUT is sent. *)
PutSend(f) ==
    /\ client[f].pc = "put"
    /\ client' = [client EXCEPT ![f].pc = "sent", ![f].attempt = @ + 1]
    /\ PutArrives(<<f, client[f].attempt + 1>>, UrlOf[f], content[f])
    /\ UNCHANGED <<content, exit, dry, offered, seen, disturbed>>

(* Mutant of Retry: giving up counts as success. *)
RetryOptimistic(f) ==
    Settle(f, IF client[f].attempt < MaxRetries THEN "put" ELSE "pushed")

(* A status of RETRYABLE_STATUSES: sleep and go round, or give up. *)
Retry(f) == Settle(f, IF client[f].attempt < MaxRetries THEN "put" ELSE "failed")

(* The server's answer: 201, 500, or 408, which is not retried. *)
PutAnswered(f) ==
    /\ client[f].pc = "sent"
    /\ \/ req[Attempt(f)].pc = "ok" /\ Settle(f, "pushed")
       \/ req[Attempt(f)].pc = "error" /\ Retry(f)
       \/ req[Attempt(f)].pc = "timeout" /\ Settle(f, "failed")
    /\ ClientOnly

(* A proxy answers 502, 503 or 504 while the request is still running. *)
GatewayError(f) ==
    /\ faults < MaxFaults /\ faults' = faults + 1
    /\ client[f].pc = "sent"
    /\ Retry(f)
    /\ UNCHANGED <<dbVars, req, writer, audited, others>>
    /\ UNCHANGED <<content, exit, dry, offered, seen, disturbed>>

(* The file cannot be read, HEAD fails, or the connection breaks or times   *)
(* out: `?' ends the task, whatever becomes of the request.                 *)
TaskFails(f) ==
    /\ faults < MaxFaults /\ faults' = faults + 1
    /\ client[f].pc \in {"head", "put", "sent"}
    /\ Settle(f, "failed")
    /\ UNCHANGED <<dbVars, req, writer, audited, others>>
    /\ UNCHANGED <<content, exit, dry, offered, seen, disturbed>>

(* The tally: exit code 1 if any file failed. *)
Exit ==
    /\ exit = "running"
    /\ \A f \in File : client[f].pc \in Settled
    /\ exit' = IF \E f \in File : client[f].pc = "failed" THEN "1" ELSE "0"
    /\ UNCHANGED <<txVars, content, client, dry, offered, seen, disturbed>>

(* The files written, the deletions requested and the writes of others. *)
Meddling ==
    Cardinality({f \in File : Cardinality(offered[f]) > 1})
    + Cardinality({t \in Admin : req[t].pc # "idle"})
    + others

(* Somebody writes the file while its task runs (before, it is another      *)
(* initial content; after, nobody reads it).                                *)
FileWritten(f, h) ==
    /\ f \in Running
    /\ h \notin offered[f]
    /\ Meddling < MaxMeddling
    /\ content' = [content EXCEPT ![f] = h]
    /\ offered' = [offered EXCEPT ![f] = @ \cup {h}]
    /\ UNCHANGED <<txVars, client, exit, dry, seen, disturbed>>

(* What the tables hold is recorded. *)
Recorded ==
    seen' = seen \cup {<<entries'[i].key, entries'[i].blob_hash>> :
                           i \in {j \in EntryId : entries'[j] # NULL}}

(* The URLs that have another content, or none, after this step. *)
Moved == {k \in Key : Entry(k)' # Entry(k)}

(* The server's handlers. *)
ServerStep(t) ==
    /\ TxStep(t)
    /\ Recorded
    /\ disturbed' = IF t \in Admin THEN disturbed \cup Moved ELSE disturbed
    /\ UNCHANGED <<clientVars, offered>>

(* Sweeps, touches and other clients. *)
OutsideStep ==
    /\ (OtherLocks /\ Meddling < MaxMeddling) \/ OtherEnds
    /\ Recorded
    /\ disturbed' = disturbed \cup Moved
    /\ UNCHANGED <<clientVars, offered>>

ServerFault(t) ==
    /\ TxFails(t) \/ TxDropped(t)
    /\ UNCHANGED <<clientVars, offered, seen, disturbed>>

(* Meanwhile an administrator deletes an entry that exists or existed. *)
AdminDelete(t, i) ==
    /\ exit = "running" /\ Meddling < MaxMeddling
    /\ i < nextEntry
    /\ DeleteArrives(t, i)
    /\ UNCHANGED <<clientVars, offered, seen, disturbed>>

ClientStep(f) ==
    \/ Spawn(f)
    \/ HeadAnswered(f)
    \/ PutSend(f)
    \/ PutAnswered(f)

PushInit ==
    /\ TxInit
    /\ content \in [File -> Hash]
    /\ client = [f \in File |-> [pc |-> "todo", sha |-> NULL, attempt |-> 0]]
    /\ exit = "running"
    /\ dry \in BOOLEAN
    /\ offered = [f \in File |-> {content[f]}]
    /\ seen = {<<entries[i].key, entries[i].blob_hash>> : i \in LiveEntries}
    /\ disturbed = {}

PushNext ==
    \/ \E f \in File : ClientStep(f)
    \/ \E f \in File : GatewayError(f)
    \/ \E f \in File : TaskFails(f)
    \/ \E f \in File, h \in Hash : FileWritten(f, h)
    \/ Exit
    \/ \E t \in Request : ServerStep(t)
    \/ \E t \in Request : ServerFault(t)
    \/ \E t \in Admin, i \in EntryId : AdminDelete(t, i)
    \/ OutsideStep

(* The least that tokio's and SQLite's progress give: some task of the       *)
(* client, handler of the server or holder of the lock that can go on does.  *)
Progress ==
    \/ \E f \in File : ClientStep(f)
    \/ \E t \in Request : ServerStep(t)
    \/ writer = OUTSIDE /\ OutsideStep
    \/ Exit

PushSpec == PushInit /\ [][PushNext]_pushVars /\ WF_pushVars(Progress)

-----------------------------------------------------------------------------
(* Properties *)

(* The push as its user sees it.  A dry run settles nothing. *)
Promise == INSTANCE Publish WITH
    Url     <- Key,
    Content <- Hash,
    Absent  <- NULL,
    foreign <- IF writer = OUTSIDE THEN others - 1 ELSE others,
    remote  <- [k \in Key |-> IF Entry(k) = {} THEN NULL ELSE CHOOSE h \in Entry(k) : TRUE],
    settled <- [f \in File |->
                   CASE client[f].pc \notin Settled                      -> "open"
                     [] client[f].pc \in {"pushed", "skipped"} /\ ~dry   -> "success"
                     [] client[f].pc \in {"pushed", "skipped"} /\ dry    -> "open"
                     [] client[f].pc = "failed"                          -> "failure"]

(* push.rs implements Publish: retries of what was already stored, answers   *)
(* lost after the commit, attempts that outlive the client and files that    *)
(* change between the hash and the upload included.                          *)
KeepsPromise == Promise!PublishSpec

(* Exit code 0 for a file nobody wrote meanwhile, under a URL that nobody    *)
(* outside the push and no other file of it wrote or removed, means that its *)
(* content is there and stays there, whatever late attempts still do.        *)
Undisturbed(f) ==
    /\ Cardinality(offered[f]) = 1
    /\ \A g \in File \ {f} : UrlOf[g] # UrlOf[f]
    /\ UrlOf[f] \notin disturbed

SuccessLasts ==
    exit = "0" /\ ~dry =>
        \A f \in File : Undisturbed(f) => Entry(UrlOf[f]) = offered[f]

(* Somebody outside the push has had the write lock. *)
OutsiderWrote ==
    others > 0 \/ \E t \in Admin : req[t].pc \in {"wrote", "after", "ok"}

(* Contention within the push never fails all of its files: when every file  *)
(* has failed although nothing broke (no timeout, I/O error or lost answer), *)
(* a sweep, a touch, another client or an administrator has had the lock.    *)
(* Those may indeed win every attempt of every file.                         *)
SomebodyWins ==
    exit = "1" /\ faults = 0 /\ (\A f \in File : client[f].pc = "failed") => OutsiderWrote

(* The command ends: no permit, connection or lock is kept by a request that *)
(* was turned away, timed out or abandoned.                                  *)
PushEnds == <>(exit # "running")
=============================================================================
