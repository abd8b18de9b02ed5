------------------------------ MODULE Publish ------------------------------
(***************************************************************************)
(* What `marmotte push' promises of every file: it is settled once; it is  *)
(* called a success only if the server has had, under the file's URL, a    *)
(* content that the file had during the push; and the push puts nothing    *)
(* else on the server.  What others put there is counted apart.            *)
(***************************************************************************)
EXTENDS Naturals

CONSTANTS
    File,           \* the files of the directory
    Url,            \* the URLs of the cache
    UrlOf,          \* [File -> Url]
    Content,        \* contents of files
    Absent          \* no entry under a URL

VARIABLES
    remote,         \* [Url -> Content or Absent], what the server has
    seen,           \* the <<url, content>> pairs the server has had
    offered,        \* [File -> SUBSET Content], what each file has contained
    settled,        \* [File -> "open", "success" or "failure"]
    foreign         \* how often somebody else has written

publishVars == <<remote, seen, offered, settled, foreign>>

PublishInit ==
    /\ remote \in [Url -> Content \cup {Absent}]
    /\ seen = {<<u, remote[u]>> : u \in {v \in Url : remote[v] # Absent}}
    /\ \E c \in [File -> Content] : offered = [f \in File |-> {c[f]}]
    /\ settled = [f \in File |-> "open"]
    /\ foreign = 0

Write(f, c) ==
    /\ offered' = [offered EXCEPT ![f] = @ \cup {c}]
    /\ UNCHANGED <<remote, seen, settled, foreign>>

Store(f, c) ==
    /\ c \in offered[f]
    /\ remote' = [remote EXCEPT ![UrlOf[f]] = c]
    /\ seen' = seen \cup {<<UrlOf[f], c>>}
    /\ UNCHANGED <<offered, settled, foreign>>

Remove(u) ==
    /\ remote' = [remote EXCEPT ![u] = Absent]
    /\ UNCHANGED <<seen, offered, settled, foreign>>

Succeed(f) ==
    /\ settled[f] = "open"
    /\ \E c \in offered[f] : <<UrlOf[f], c>> \in seen
    /\ settled' = [settled EXCEPT ![f] = "success"]
    /\ UNCHANGED <<remote, seen, offered, foreign>>

Fail(f) ==
    /\ settled[f] = "open"
    /\ settled' = [settled EXCEPT ![f] = "failure"]
    /\ UNCHANGED <<remote, seen, offered, foreign>>

(* Somebody else stores something, or removes some entries or none. *)
Outside ==
    /\ foreign' = foreign + 1
    /\ \/ \E u \in Url, c \in Content : /\ remote' = [remote EXCEPT ![u] = c]
                                        /\ seen' = seen \cup {<<u, c>>}
       \/ /\ \E U \in SUBSET Url :
                remote' = [u \in Url |-> IF u \in U THEN Absent ELSE remote[u]]
          /\ UNCHANGED seen
    /\ UNCHANGED <<offered, settled>>

PublishNext ==
    \/ \E f \in File, c \in Content : Write(f, c) \/ Store(f, c)
    \/ \E u \in Url : Remove(u)
    \/ \E f \in File : Succeed(f) \/ Fail(f)
    \/ Outside

PublishSpec == PublishInit /\ [][PublishNext]_publishVars
=============================================================================
