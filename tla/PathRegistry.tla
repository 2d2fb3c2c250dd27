---------------------------- MODULE PathRegistry ----------------------------
(***************************************************************************)
(* The Registry of src/src/path.rs: publishers taking over, feeding and    *)
(* giving up names while readers look them up and names() walks them.      *)
(*                                                                         *)
(* One step is what one lock protects: the map of paths under its RwLock,  *)
(* or the source of one path under its Mutex.  Between two steps anything  *)
(* may run on another thread.  A stream is its token, and a Path object is *)
(* the token of the publish() that made it, so a name given up and taken   *)
(* again can be told from one that was kept.                               *)
(***************************************************************************)
EXTENDS Integers, FiniteSets

CONSTANTS
  Publishers,    \* connections that may hold a Publisher
  Readers,       \* connections that may hold a Reader
  Listers,       \* callers of names()
  Names,
  MaxPublished   \* bound: calls of publish()

ASSUMPTION RegistryAssumption == MaxPublished \in Nat

Tokens == 0..(MaxPublished - 1)
None == -1
Some == Tokens \union {None}

VARIABLES
  published,  \* Registry::published, the next token
  paths,      \* Registry::paths: the Path of each name, or None
  source,     \* the stream in each Path, or None
  described,  \* Source::description of each stream: whose stream it says it is
  guard,      \* who keeps the Mutex of each Path from one step to the next
  pc,         \* where each publisher's connection is
  name, path, token,  \* Publisher::name (what it will publish to), path, token
  seat, has,  \* where each reader is, and the Path it looked up or its stream
  told,       \* Reader::description: whose stream it was told that is
  listing,    \* whether each lister holds the RwLock for reading
  left        \* the names it has still to look at

\* History, for the properties.
VARIABLES
  dropped,    \* streams whose Source was dropped: feed and eviction are closed
  carried     \* the publishers whose units went into each stream

publisher == <<pc, name, path, token>>
reader == <<seat, has, told>>
lister == <<listing, left>>
vars == <<published, paths, source, described, guard, publisher, reader, lister,
          dropped, carried>>

\* A connection without a Publisher; in publish() with a token, then with a
\* Path; holding a Publisher; in its Drop, before, holding and past the Mutex.
Places == {"idle", "numbered", "placed", "live", "dropping", "holding", "removing"}

\* Detached; with a Path looked up; attached to a stream.
Seats == {"off", "found", "reading"}

TypeOK ==
  /\ published \in 0..MaxPublished
  /\ paths \in [Names -> Some]
  /\ source \in [Tokens -> Some]
  /\ described \in [Tokens -> Publishers \union {None}]
  /\ guard \in [Tokens -> BOOLEAN]
  /\ pc \in [Publishers -> Places]
  /\ name \in [Publishers -> Names]
  /\ path \in [Publishers -> Some]
  /\ token \in [Publishers -> Some]
  /\ seat \in [Readers -> Seats]
  /\ has \in [Readers -> Some]
  /\ told \in [Readers -> Publishers \union {None}]
  /\ \A r \in Readers : seat[r] = "off" <=> has[r] = None
  /\ listing \in [Listers -> BOOLEAN]
  /\ left \in [Listers -> SUBSET Names]
  /\ dropped \in SUBSET Tokens
  /\ carried \in [Tokens -> SUBSET Publishers]

Init ==
  /\ published = 0
  /\ paths = [n \in Names |-> None]
  /\ source = [p \in Tokens |-> None]
  /\ described = [t \in Tokens |-> None]
  /\ guard = [p \in Tokens |-> FALSE]
  /\ pc = [u \in Publishers |-> "idle"]
  /\ name \in [Publishers -> Names]
  /\ path = [u \in Publishers |-> None]
  /\ token = [u \in Publishers |-> None]
  /\ seat = [r \in Readers |-> "off"]
  /\ has = [r \in Readers |-> None]
  /\ told = [r \in Readers |-> None]
  /\ listing = [l \in Listers |-> FALSE]
  /\ left = [l \in Listers |-> {}]
  /\ dropped = {}
  /\ carried = [t \in Tokens |-> {}]

\* The RwLock can be taken for writing: no names() is under way.
MapIsFree == \A l \in Listers : ~listing[l]

Goes(u, place) == pc' = [pc EXCEPT ![u] = place]

(***************************************************************************)
(* Registry::publish                                                       *)
(***************************************************************************)

\* Mutant: a load and a store, between which another may have its number.
TakeNumberTorn(u) ==
  /\ pc[u] = "idle"
  /\ published < MaxPublished
  /\ published' \in {published, published + 1}
  /\ token' = [token EXCEPT ![u] = published]
  /\ Goes(u, "numbered")
  /\ UNCHANGED <<paths, source, described, guard, name, path, reader, lister, dropped,
                 carried>>

TakeNumber(u) ==
  /\ pc[u] = "idle"
  /\ published < MaxPublished
  /\ published' = published + 1
  /\ token' = [token EXCEPT ![u] = published]
  /\ Goes(u, "numbered")
  /\ UNCHANGED <<paths, source, described, guard, name, path, reader, lister, dropped,
                 carried>>

\* The entry of the name, made if there is none.
TakePlace(u) ==
  /\ pc[u] = "numbered"
  /\ MapIsFree
  /\ LET entry == IF paths[name[u]] = None THEN token[u] ELSE paths[name[u]]
     IN /\ paths' = [paths EXCEPT ![name[u]] = entry]
        /\ path' = [path EXCEPT ![u] = entry]
  /\ Goes(u, "placed")
  /\ UNCHANGED <<published, source, described, guard, name, token, reader, lister,
                 dropped, carried>>

\* Mutant: something else keeps the replaced Source alive.
TakeOverKeepingOld(u) ==
  /\ pc[u] = "placed" /\ ~guard[path[u]]
  /\ source' = [source EXCEPT ![path[u]] = token[u]]
  /\ described' = [described EXCEPT ![token[u]] = u]
  /\ dropped' = dropped
  /\ Goes(u, "live")
  /\ UNCHANGED <<published, paths, guard, name, path, token, reader, lister, carried>>

\* The source of the path is replaced, and what was there is dropped.
TakeOver(u) ==
  /\ pc[u] = "placed" /\ ~guard[path[u]]
  /\ source' = [source EXCEPT ![path[u]] = token[u]]
  /\ described' = [described EXCEPT ![token[u]] = u]
  /\ dropped' = dropped \union ({source[path[u]]} \ {None})
  /\ Goes(u, "live")
  /\ UNCHANGED <<published, paths, guard, name, path, token, reader, lister, carried>>

(***************************************************************************)
(* Publisher                                                               *)
(***************************************************************************)

\* Publisher::push; one that was displaced does nothing.
Push(u) ==
  /\ pc[u] = "live" /\ ~guard[path[u]]
  /\ source[path[u]] = token[u]
  /\ carried' = [carried EXCEPT ![source[path[u]]] = @ \union {u}]
  /\ UNCHANGED <<published, paths, source, described, guard, publisher, reader, lister,
                 dropped>>

\* The encoder stops or its connection fails.
Stop(u) ==
  /\ pc[u] = "live"
  /\ Goes(u, "dropping")
  /\ UNCHANGED <<published, paths, source, described, guard, name, path, token, reader,
                 lister, dropped, carried>>

\* Publisher::evicted resolves, and the driver lets the connection go.
Evicted(u) ==
  /\ pc[u] = "live"
  /\ token[u] \in dropped
  /\ Goes(u, "dropping")
  /\ UNCHANGED <<published, paths, source, described, guard, name, path, token, reader,
                 lister, dropped, carried>>

(***************************************************************************)
(* Drop for Publisher                                                      *)
(***************************************************************************)

\* Mutant: the stream on the path is taken down, whoever's it is.
TakeDownWhoever(u) ==
  /\ pc[u] = "dropping" /\ ~guard[path[u]]
  /\ source[path[u]] # None
  /\ source' = [source EXCEPT ![path[u]] = None]
  /\ dropped' = dropped \union {source[path[u]]}
  /\ guard' = [guard EXCEPT ![path[u]] = TRUE]
  /\ Goes(u, "holding")
  /\ UNCHANGED <<published, paths, name, path, token, reader, lister, carried, described>>

\* Still the publisher: the source goes, under the Mutex.
TakeDown(u) ==
  /\ pc[u] = "dropping" /\ ~guard[path[u]]
  /\ source[path[u]] = token[u]
  /\ source' = [source EXCEPT ![path[u]] = None]
  /\ dropped' = dropped \union {source[path[u]]}
  /\ guard' = [guard EXCEPT ![path[u]] = TRUE]
  /\ Goes(u, "holding")
  /\ UNCHANGED <<published, paths, name, path, token, reader, lister, carried, described>>

\* Displaced: nothing is touched.
StepAside(u) ==
  /\ pc[u] = "dropping" /\ ~guard[path[u]]
  /\ source[path[u]] # token[u]
  /\ Goes(u, "idle")
  /\ UNCHANGED <<published, paths, source, described, guard, name, path, token, reader,
                 lister, dropped, carried>>

\* Mutant: the guard is left to the end of the function.
ReleaseLater(u) ==
  /\ pc[u] = "holding"
  /\ Goes(u, "removing")
  /\ UNCHANGED <<published, paths, source, described, guard, name, path, token, reader,
                 lister, dropped, carried>>

\* drop(source): the Mutex is let go before the map is locked.
Release(u) ==
  /\ pc[u] = "holding"
  /\ guard' = [guard EXCEPT ![path[u]] = FALSE]
  /\ Goes(u, "removing")
  /\ UNCHANGED <<published, paths, source, name, path, token, reader, lister, dropped,
                 carried, described>>

\* Mutant: the entry is left for the next publisher to find.
LeaveEntry(u) ==
  /\ pc[u] = "removing" /\ MapIsFree
  /\ Goes(u, "idle")
  /\ UNCHANGED <<published, paths, source, described, guard, name, path, token, reader,
                 lister, dropped, carried>>

\* The entry of the name is removed, whatever it is by now.
RemoveEntry(u) ==
  /\ pc[u] = "removing" /\ MapIsFree
  /\ paths' = [paths EXCEPT ![name[u]] = None]
  /\ Goes(u, "idle")
  /\ UNCHANGED <<published, source, described, guard, name, path, token, reader, lister,
                 dropped, carried>>

(***************************************************************************)
(* Registry::read and names                                                *)
(***************************************************************************)

Gets(r, where, what, description) ==
  /\ seat' = [seat EXCEPT ![r] = where]
  /\ has' = [has EXCEPT ![r] = what]
  /\ told' = [told EXCEPT ![r] = description]

LookUp(r, n) ==
  /\ seat[r] = "off"
  /\ paths[n] # None
  /\ Gets(r, "found", paths[n], None)
  /\ UNCHANGED <<published, paths, source, described, guard, publisher, lister, dropped,
                 carried>>

\* Attached to the stream in the Path found, if there still is one, with its
\* description.
Attach(r) ==
  /\ seat[r] = "found" /\ ~guard[has[r]]
  /\ LET stream == source[has[r]]
     IN IF stream = None THEN Gets(r, "off", None, None)
        ELSE Gets(r, "reading", stream, described[stream])
  /\ UNCHANGED <<published, paths, source, described, guard, publisher, lister, dropped,
                 carried>>

\* The feed is closed and next() returned None.
SeeEnd(r) ==
  /\ seat[r] = "reading"
  /\ has[r] \in dropped
  /\ Gets(r, "off", None, None)
  /\ UNCHANGED <<published, paths, source, described, guard, publisher, lister, dropped,
                 carried>>

Leave(r) ==
  /\ seat[r] = "reading"
  /\ Gets(r, "off", None, None)
  /\ UNCHANGED <<published, paths, source, described, guard, publisher, lister, dropped,
                 carried>>

\* names(): the RwLock is taken for reading, and kept while every Path's
\* Mutex is taken in turn, in no particular order.
BeginList(l) ==
  /\ ~listing[l]
  /\ listing' = [listing EXCEPT ![l] = TRUE]
  /\ left' = [left EXCEPT ![l] = {n \in Names : paths[n] # None}]
  /\ UNCHANGED <<published, paths, source, described, guard, publisher, reader, dropped,
                 carried>>

ListOne(l, n) ==
  /\ n \in left[l]
  /\ ~guard[paths[n]]
  /\ left' = [left EXCEPT ![l] = @ \ {n}]
  /\ UNCHANGED <<published, paths, source, described, guard, publisher, reader, listing,
                 dropped, carried>>

EndList(l) ==
  /\ listing[l]
  /\ left[l] = {}
  /\ listing' = [listing EXCEPT ![l] = FALSE]
  /\ UNCHANGED <<published, paths, source, described, guard, publisher, reader, left,
                 dropped, carried>>

Publish(u) == TakeNumber(u) \/ TakePlace(u) \/ TakeOver(u)
Drop(u) == TakeDown(u) \/ StepAside(u) \/ Release(u) \/ RemoveEntry(u)
List(l) == BeginList(l) \/ EndList(l) \/ \E n \in Names : ListOne(l, n)
Read(r) == Attach(r) \/ SeeEnd(r) \/ Leave(r) \/ \E n \in Names : LookUp(r, n)

Next ==
  \/ \E u \in Publishers : Publish(u) \/ Push(u) \/ Stop(u) \/ Evicted(u) \/ Drop(u)
  \/ \E r \in Readers : Read(r)
  \/ \E l \in Listers : List(l)

Spec == Init /\ [][Next]_vars

\* A call that was made runs on whenever its lock is free.  The RwLock lets a
\* waiting writer in before new readers, so callers of names() cannot keep one
\* out for ever: strong fairness where the map is written.  A driver looks at
\* evicted(), as RtmpSession shows of one whose encoder goes on reading, and at
\* its reader.  Nothing obliges anyone to begin a call.
Fairness ==
  /\ \A u \in Publishers :
       /\ SF_vars(TakePlace(u)) /\ WF_vars(TakeOver(u))
       /\ WF_vars(Evicted(u))
       /\ WF_vars(TakeDown(u)) /\ WF_vars(StepAside(u))
       /\ WF_vars(Release(u)) /\ SF_vars(RemoveEntry(u))
  /\ \A r \in Readers : WF_vars(Attach(r)) /\ WF_vars(SeeEnd(r))
  /\ \A l \in Listers : WF_vars(EndList(l)) /\ \A n \in Names : WF_vars(ListOne(l, n))

FairSpec == Spec /\ Fairness

(***************************************************************************)
(* Properties                                                              *)
(***************************************************************************)

\* The units a reader gets are its description's own: whoever took the Path
\* over, was displaced on it and pushed on, or joined it in between, they all
\* come from the publisher that stated what the reader was told ("a reader
\* handed units that do not match the one it was set up with would decode
\* nonsense", path.rs:87).
NoStreamIsMixed ==
  \A r \in Readers : seat[r] = "reading" => carried[has[r]] \subseteq {told[r]}

\* A stream ends only because its own publisher went, or because a publisher
\* of the same name took the Path over; one that was displaced does not take
\* its replacement down on the way out (path.rs, Drop for Publisher).
EndsOnlyForAReason ==
  [][\A t \in dropped' \ dropped :
       \E u, v \in Publishers :
         /\ token[u] = t
         /\ \/ u = v /\ pc[v] = "dropping"
            \/ pc[v] = "placed" /\ pc'[v] = "live" /\ name[v] = name[u]]_vars

\* What is left of a name that no stream is published to is on its way out:
\* the map does not fill up with names nobody publishes.
NoNameIsLeftBehind ==
  \A n \in Names :
    paths[n] # None /\ source[paths[n]] = None =>
      \E u \in Publishers :
        /\ name[u] = n /\ path[u] = paths[n]
        /\ pc[u] \in {"placed", "holding", "removing"}

\* Every call returns: no order of a drop, a takeover, a read and a names()
\* leaves them waiting for each other's locks.
EveryCallReturns ==
  /\ \A u \in Publishers : pc[u] \notin {"idle", "live"} ~> pc[u] \in {"idle", "live"}
  /\ \A r \in Readers : seat[r] = "found" ~> seat[r] # "found"
  /\ \A l \in Listers : listing[l] ~> ~listing[l]

Reads(r, t) == seat[r] = "reading" /\ has[r] = t

\* A stream that is no longer the one on its Path leaves nobody waiting: its
\* publisher lets go of its connection, and its readers see it end.
EveryoneIsTold ==
  /\ \A u \in Publishers :
       pc[u] = "live" /\ source[path[u]] # token[u] ~> pc[u] # "live"
  /\ \A r \in Readers : \A t \in Tokens :
       Reads(r, t) /\ (\A p \in Tokens : source[p] # t) ~> ~Reads(r, t)

\* "A path is a name with one publisher and any number of readers"
\* (path.rs:3): no two connections hold the same name without one of them
\* having been told that it was displaced.
OnePublisherPerName ==
  \A u, v \in Publishers :
    /\ u # v /\ name[u] = name[v]
    /\ pc[u] = "live" /\ pc[v] = "live"
    => token[u] \in dropped \/ token[v] \in dropped
=============================================================================
