--------------------------- MODULE ServerLifecycle ---------------------------
(***************************************************************************)
(* Starting and stopping, src/src/server.rs and main.rs, and the accept    *)
(* loops serve() of src/src/rtmp/server.rs and src/src/rtsp/server.rs.     *)
(*                                                                         *)
(* A server is one call of Server::start or start_on, whose tasks run on a *)
(* runtime of its own or on the caller's.  A task runs from one await to   *)
(* the next, here from "waiting" to "polling" and back; abort() and the    *)
(* end of a runtime get at it only while it waits.  tokio, the kernel's    *)
(* queue of connections and other programs' ports are what the code uses.  *)
(***************************************************************************)
EXTENDS Integers, FiniteSets

CONSTANTS
  Servers,       \* calls of start() and start_on(), one after or beside another
  Connections,
  Configs,       \* what a Config may ask for, each a set of protocols
  Free, Foreign, \* a port that nobody, or another program, listens on
  Budget         \* tokio's: how often a task may accept before it must yield

\* Protocol; each has its port, the same for every server.
Protocols == {"rtmp", "rtsp"}

ASSUMPTION LifecycleAssumption ==
  /\ Configs \subseteq SUBSET Protocols
  /\ Budget \in Nat \ {0}
  /\ Free \notin Servers /\ Foreign \notin Servers /\ Free # Foreign

VARIABLES
  phase,    \* how far the caller is with each server
  serves,   \* Config::rtmp and Config::rtsp, those that are Some
  unbound,  \* ports start_on() has still to bind
  aborted,  \* ServerHandle::tasks that stop() has aborted
  runtime,  \* the one each server's tasks run on
  port,     \* who listens on it
  task,     \* per server and protocol, its serve()
  budget,   \* what is left of it in this poll
  conn,     \* how far each connection is
  of, at,   \* the server and the protocol it came to
  doomed,   \* connections whose JoinSet was dropped
  published \* connections that hold a Publisher

caller == <<phase, serves, unbound, aborted>>
listener == <<port, task, budget>>
connection == <<conn, of, at, doomed, published>>
vars == <<caller, runtime, listener, connection>>

\* In start(); it failed; a ServerHandle is held; in stop(); in
\* shutdown_timeout(); the handle is gone.
Phases == {"off", "binding", "failed", "running", "stopping", "waiting", "gone"}

Runtimes == {"none", "own", "theirs", "closing", "down"}

Tasks == {"none", "waiting", "polling", "gone"}

\* Not there yet; in the kernel's queue; a task of its JoinSet; ended and not
\* reaped; gone.
Stages == {"out", "queued", "waiting", "polling", "finished", "gone"}

TypeOK ==
  /\ phase \in [Servers -> Phases]
  /\ serves \in [Servers -> SUBSET Protocols]
  /\ unbound \in [Servers -> SUBSET Protocols]
  /\ aborted \in [Servers -> SUBSET Protocols]
  /\ runtime \in [Servers -> Runtimes]
  /\ port \in [Protocols -> Servers \union {Free, Foreign}]
  /\ task \in [Servers -> [Protocols -> Tasks]]
  /\ budget \in [Servers -> [Protocols -> 0..Budget]]
  /\ conn \in [Connections -> Stages]
  /\ of \in [Connections -> Servers \union {Free}]
  /\ at \in [Connections -> Protocols]
  /\ doomed \in SUBSET Connections
  /\ published \in SUBSET Connections

Init ==
  /\ phase = [s \in Servers |-> "off"]
  /\ serves = [s \in Servers |-> {}]
  /\ unbound = [s \in Servers |-> {}]
  /\ aborted = [s \in Servers |-> {}]
  /\ runtime = [s \in Servers |-> "none"]
  /\ port = [p \in Protocols |-> Free]
  /\ task = [s \in Servers |-> [p \in Protocols |-> "none"]]
  /\ budget = [s \in Servers |-> [p \in Protocols |-> 0]]
  /\ conn = [c \in Connections |-> "out"]
  /\ of = [c \in Connections |-> Free]
  /\ at = [c \in Connections |-> "rtmp"]
  /\ doomed = {}
  /\ published = {}

Goes(s, where) == phase' = [phase EXCEPT ![s] = where]
Moves(c, stage) == conn' = [conn EXCEPT ![c] = stage]
Becomes(s, p, state) == task' = [task EXCEPT ![s][p] = state]

\* The connections of a listener that are at a stage.
CameTo(s, p, stage) == {c \in Connections : of[c] = s /\ at[c] = p /\ conn[c] = stage}

(***************************************************************************)
(* Server::start and start_on                                              *)
(***************************************************************************)

\* Called with a Config, on a runtime just built or on the caller's.
Start(s, config, on) ==
  /\ phase[s] = "off"
  /\ Goes(s, "binding")
  /\ serves' = [serves EXCEPT ![s] = config]
  /\ unbound' = [unbound EXCEPT ![s] = config]
  /\ runtime' = [runtime EXCEPT ![s] = on]
  /\ UNCHANGED <<aborted, listener, connection>>

\* rtmp comes first.
NextToBind(s, p) ==
  /\ phase[s] = "binding"
  /\ p \in unbound[s]
  /\ p = "rtsp" => "rtmp" \notin unbound[s]

\* Mutant: each listener is served as soon as it is bound.
BindAndSpawn(s, p) ==
  /\ NextToBind(s, p)
  /\ port[p] = Free
  /\ port' = [port EXCEPT ![p] = s]
  /\ unbound' = [unbound EXCEPT ![s] = @ \ {p}]
  /\ Becomes(s, p, "waiting")
  /\ UNCHANGED <<phase, serves, aborted, runtime, budget, connection>>

\* bind(): from here on the kernel queues connections.
Bind(s, p) ==
  /\ NextToBind(s, p)
  /\ port[p] = Free
  /\ port' = [port EXCEPT ![p] = s]
  /\ unbound' = [unbound EXCEPT ![s] = @ \ {p}]
  /\ UNCHANGED <<phase, serves, aborted, runtime, task, budget, connection>>

\* The port is taken, or not for us: what was bound is dropped with the
\* iterator that held it, and start() drops the runtime it built.
BindFails(s, p) ==
  /\ NextToBind(s, p)
  /\ Goes(s, "failed")
  /\ port' = [q \in Protocols |-> IF port[q] = s THEN Free ELSE port[q]]
  /\ conn' = [c \in Connections |->
                IF of[c] = s /\ conn[c] = "queued" THEN "gone" ELSE conn[c]]
  /\ unbound' = [unbound EXCEPT ![s] = {}]
  /\ runtime' = [runtime EXCEPT ![s] = IF @ = "own" THEN "down" ELSE @]
  /\ UNCHANGED <<serves, aborted, task, budget, of, at, doomed, published>>

\* All are bound: serve() is spawned for each, and the caller has a handle.
Spawn(s) ==
  /\ phase[s] = "binding"
  /\ unbound[s] = {}
  /\ task' = [task EXCEPT ![s] = [p \in Protocols |->
                                    IF p \in serves[s] THEN "waiting" ELSE "none"]]
  /\ Goes(s, "running")
  /\ UNCHANGED <<serves, unbound, aborted, runtime, port, budget, connection>>

(***************************************************************************)
(* serve                                                                   *)
(***************************************************************************)

\* What abort() and the end of a runtime leave to be done.
Cancelled(s, p) == p \in aborted[s] \/ runtime[s] = "closing"

Poll(s, p) ==
  /\ task[s][p] = "waiting"
  /\ ~Cancelled(s, p)
  /\ Becomes(s, p, "polling")
  /\ budget' = [budget EXCEPT ![s][p] = Budget]
  /\ UNCHANGED <<caller, runtime, port, connection>>

Spends(s, p) ==
  /\ task[s][p] = "polling"
  /\ budget[s][p] > 0
  /\ budget' = [budget EXCEPT ![s][p] = @ - 1]

\* Mutant: connections are joined, and not only those that have finished.
AcceptOnceAllAreDone(s, p, c) ==
  /\ CameTo(s, p, "waiting") \union CameTo(s, p, "polling") = {}
  /\ Spends(s, p)
  /\ c \in CameTo(s, p, "queued")
  /\ Moves(c, "waiting")
  /\ UNCHANGED <<caller, runtime, port, task, of, at, doomed, published>>

\* The connection is spawned, and what has finished is reaped before the next
\* accept().
Accept(s, p, c) ==
  /\ Spends(s, p)
  /\ c \in CameTo(s, p, "queued")
  /\ conn' = [d \in Connections |->
                IF d = c THEN "waiting"
                ELSE IF d \in CameTo(s, p, "finished") THEN "gone" ELSE conn[d]]
  /\ UNCHANGED <<caller, runtime, port, task, of, at, doomed, published>>

\* accept() failed: reason enough to try again, and not to stop.
AcceptFails(s, p) ==
  /\ Spends(s, p)
  /\ conn' = [d \in Connections |-> IF d \in CameTo(s, p, "finished") THEN "gone" ELSE conn[d]]
  /\ UNCHANGED <<caller, runtime, port, task, of, at, doomed, published>>

\* Nobody is queued, or the task has had its turn.
MustWait(s, p) ==
  /\ task[s][p] = "polling"
  /\ CameTo(s, p, "queued") = {} \/ budget[s][p] = 0

Pend(s, p) ==
  /\ MustWait(s, p)
  /\ ~Cancelled(s, p)
  /\ Becomes(s, p, "waiting")
  /\ budget' = [budget EXCEPT ![s][p] = 0]
  /\ UNCHANGED <<caller, runtime, port, connection>>

\* Mutant: connections are tasks that nobody owns.
DropLeavingConnections(s, p) ==
  /\ Becomes(s, p, "gone")
  /\ port' = [port EXCEPT ![p] = Free]
  /\ conn' = [c \in Connections |-> IF c \in CameTo(s, p, "queued") THEN "gone" ELSE conn[c]]
  /\ doomed' = doomed

\* serve() is dropped: its listener, so that who is queued is turned away, and
\* its JoinSet, which aborts every connection in it.
DropServe(s, p) ==
  /\ Becomes(s, p, "gone")
  /\ port' = [port EXCEPT ![p] = Free]
  /\ conn' = [c \in Connections |->
                IF c \in CameTo(s, p, "queued") \union CameTo(s, p, "finished")
                THEN "gone" ELSE conn[c]]
  /\ doomed' = doomed \union CameTo(s, p, "waiting") \union CameTo(s, p, "polling")

EndServe(s, p) ==
  /\ task[s][p] = "waiting" \/ MustWait(s, p)
  /\ Cancelled(s, p)
  /\ DropServe(s, p)
  /\ budget' = [budget EXCEPT ![s][p] = 0]
  /\ UNCHANGED <<caller, runtime, of, at, published>>

Serve(s, p) ==
  \/ Poll(s, p) \/ Pend(s, p) \/ EndServe(s, p) \/ AcceptFails(s, p)
  \/ \E c \in Connections : Accept(s, p, c)

(***************************************************************************)
(* Connections                                                             *)
(***************************************************************************)

\* The kernel queues it for whoever listens.
Connect(c, p) ==
  /\ conn[c] = "out"
  /\ port[p] \in Servers
  /\ Moves(c, "queued")
  /\ of' = [of EXCEPT ![c] = port[p]]
  /\ at' = [at EXCEPT ![c] = p]
  /\ UNCHANGED <<caller, runtime, listener, doomed, published>>

Ended(c) == c \in doomed \/ runtime[of[c]] = "closing"

ConnectionPolled(c) ==
  /\ conn[c] = "waiting"
  /\ ~Ended(c)
  /\ Moves(c, "polling")
  /\ UNCHANGED <<caller, runtime, listener, of, at, doomed, published>>

\* connection() of rtmp, at apply(Publish).
Publish(c) ==
  /\ conn[c] = "polling"
  /\ at[c] = "rtmp"
  /\ published' = published \union {c}
  /\ UNCHANGED <<caller, runtime, listener, conn, of, at, doomed>>

ConnectionWaits(c) ==
  /\ conn[c] = "polling"
  /\ ~Ended(c)
  /\ Moves(c, "waiting")
  /\ UNCHANGED <<caller, runtime, listener, of, at, doomed, published>>

\* connection() returned, or panicked, and its Publisher went with it.
ConnectionDone(c) ==
  /\ conn[c] = "polling"
  /\ Moves(c, IF c \in doomed THEN "gone" ELSE "finished")
  /\ published' = published \ {c}
  /\ doomed' = doomed \ {c}
  /\ UNCHANGED <<caller, runtime, listener, of, at>>

\* It is dropped where it waits.
ConnectionDropped(c) ==
  /\ conn[c] \in {"waiting", "polling"}
  /\ Ended(c)
  /\ Moves(c, "gone")
  /\ published' = published \ {c}
  /\ doomed' = doomed \ {c}
  /\ UNCHANGED <<caller, runtime, listener, of, at>>

Connection(c) ==
  \/ ConnectionPolled(c) \/ Publish(c) \/ ConnectionWaits(c)
  \/ ConnectionDone(c) \/ ConnectionDropped(c)

(***************************************************************************)
(* ServerHandle::shutdown and Drop, and main()                             *)
(***************************************************************************)

\* shutdown(), as main() does when its input ends, or the handle is dropped.
Stop(s) ==
  /\ phase[s] = "running"
  /\ Goes(s, "stopping")
  /\ UNCHANGED <<serves, unbound, aborted, runtime, listener, connection>>

\* stop(), task by task.
Abort(s, p) ==
  /\ phase[s] = "stopping"
  /\ p \in serves[s] \ aborted[s]
  /\ p = "rtsp" => "rtmp" \in aborted[s] \/ "rtmp" \notin serves[s]
  /\ aborted' = [aborted EXCEPT ![s] = @ \union {p}]
  /\ UNCHANGED <<phase, serves, unbound, runtime, listener, connection>>

\* Mutant: one of the tasks is aborted, and no more.
LetGoOfOne(s, wait) ==
  /\ phase[s] = "stopping"
  /\ aborted[s] # {}
  /\ runtime' = [runtime EXCEPT ![s] = IF @ = "own" THEN "closing" ELSE @]
  /\ Goes(s, IF runtime[s] = "own" /\ wait THEN "waiting" ELSE "gone")
  /\ UNCHANGED <<serves, unbound, aborted, listener, connection>>

\* A runtime of its own is shut down, with or without waiting for it.
LetGo(s, wait) ==
  /\ phase[s] = "stopping"
  /\ aborted[s] = serves[s]
  /\ runtime' = [runtime EXCEPT ![s] = IF @ = "own" THEN "closing" ELSE @]
  /\ Goes(s, IF runtime[s] = "own" /\ wait THEN "waiting" ELSE "gone")
  /\ UNCHANGED <<serves, unbound, aborted, listener, connection>>

\* Something of the server is in the middle of a poll.
Busy(s) ==
  \/ \E p \in Protocols : task[s][p] = "polling"
  \/ \E c \in Connections : of[c] = s /\ conn[c] = "polling"

\* Something of the server is still there.
Runs(s) ==
  \/ \E p \in Protocols : task[s][p] \in {"waiting", "polling"} \/ port[p] = s
  \/ \E c \in Connections : of[c] = s /\ conn[c] \in {"waiting", "polling"}

RuntimeDown(s) ==
  /\ runtime[s] = "closing"
  /\ ~Runs(s)
  /\ runtime' = [runtime EXCEPT ![s] = "down"]
  /\ UNCHANGED <<caller, listener, connection>>

\* shutdown_timeout() returns; early, only if something would not yield.
ShutdownReturns(s) ==
  /\ phase[s] = "waiting"
  /\ runtime[s] = "down" \/ Busy(s)
  /\ Goes(s, "gone")
  /\ UNCHANGED <<serves, unbound, aborted, runtime, listener, connection>>

Call(s) ==
  \/ Spawn(s) \/ ShutdownReturns(s)
  \/ \E wait \in BOOLEAN : LetGo(s, wait)
  \/ \E p \in Protocols : Bind(s, p) \/ BindFails(s, p) \/ Abort(s, p)

(***************************************************************************)
(* Specification                                                           *)
(***************************************************************************)

\* Another program takes a port, or gives it up.
Elsewhere(p) ==
  /\ port[p] \in {Free, Foreign}
  /\ port' = [port EXCEPT ![p] = IF @ = Free THEN Foreign ELSE Free]
  /\ UNCHANGED <<caller, runtime, task, budget, connection>>

Next ==
  \/ \E s \in Servers : Call(s) \/ RuntimeDown(s)
  \/ \E s \in Servers, config \in Configs, on \in {"own", "theirs"} : Start(s, config, on)
  \/ \E s \in Servers : Stop(s)
  \/ \E s \in Servers, p \in Protocols : Serve(s, p)
  \/ \E c \in Connections : Connection(c) \/ \E p \in Protocols : Connect(c, p)
  \/ \E p \in Protocols : Elsewhere(p)

Spec == Init /\ [][Next]_vars

\* A call runs on, a runtime polls what can run, and every poll ends.  accept()
\* does not fail for ever while somebody is queued.  Nothing obliges a
\* connection to end or a caller to stop.
Fairness ==
  /\ \A s \in Servers : WF_vars(Call(s)) /\ WF_vars(RuntimeDown(s))
  /\ \A s \in Servers, p \in Protocols :
       /\ WF_vars(Serve(s, p))
       /\ \A c \in Connections : SF_vars(Accept(s, p, c))
  /\ \A c \in Connections : WF_vars(ConnectionDropped(c))

FairSpec == Spec /\ Fairness

(***************************************************************************)
(* Properties                                                              *)
(***************************************************************************)

\* A start() that fails on one port leaves nothing listening on another, and
\* no task with nothing to stop it (server.rs, start_on).
FailedStartLeavesNothing == \A s \in Servers : phase[s] = "failed" => ~Runs(s)

\* While its handle is held, a server listens on every port it was asked to,
\* whatever becomes of accept() and of its connections (serve).
KeepsListening ==
  \A s \in Servers : phase[s] = "running" =>
    \A p \in serves[s] : port[p] = s /\ task[s][p] \in {"waiting", "polling"}

\* Each listener owns the connections it accepted: none runs on after it,
\* unless it has been told to end (ServerHandle).
ListenersOwnConnections ==
  \A c \in Connections :
    conn[c] \in {"waiting", "polling"} =>
      \/ task[of[c]][at[c]] \in {"waiting", "polling"}
      \/ Ended(c)

\* Once a handle is gone, so is everything that was started with it: its ports,
\* its listeners, its connections and what they publish, on a runtime that
\* goes with it or on one that stays.
StopEndsEverything ==
  \A s \in Servers :
    phase[s] = "gone" ~>
      /\ ~Runs(s)
      /\ \A c \in published : of[c] # s

\* Whoever connects is let in or turned away, however long others stay and
\* however often accept() fails, if it does not fail for ever while somebody is
\* queued: the descriptors it ran out of come back (serve; SF of Accept).
EveryoneIsLetIn == \A c \in Connections : conn[c] = "queued" ~> conn[c] # "queued"
=============================================================================
