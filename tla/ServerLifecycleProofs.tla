------------------------ MODULE ServerLifecycleProofs ------------------------
(***************************************************************************)
(* ServerLifecycle, proved for any number of servers on the same ports and *)
(* of connections, any configuration and any budget of tokio's: a start    *)
(* that fails leaves nothing, a server that is held listens, and no        *)
(* connection outlives its listener unless it was told to end.             *)
(*                                                                         *)
(* None of the three is inductive.  What they rest on is who holds a port  *)
(* (PortsHeld): a server in the middle of start_on(), that bound it, or a  *)
(* task that serves it, and so nobody once a start has failed; and that a  *)
(* task or a connection is found only where start_on() returned a handle.  *)
(***************************************************************************)
EXTENDS ServerLifecycle, TLAPS

Live(s, p) == task[s][p] \in {"waiting", "polling"}

\* start_on() returned a handle, whatever became of it.
Handled(s) == phase[s] \in {"running", "stopping", "waiting", "gone"}

\* A task serves a port it holds.
TasksHold == \A s \in Servers, p \in Protocols : Live(s, p) => Handled(s) /\ port[p] = s

\* A port is held by a task, or by a start() that has bound it.
PortsHeld ==
  \A s \in Servers, p \in Protocols :
    port[p] = s =>
      Live(s, p) \/ (phase[s] = "binding" /\ p \in serves[s] \ unbound[s])

\* A start() holds what it has bound, of what it was asked to.
StartsHold ==
  \A s \in Servers :
    /\ unbound[s] \subseteq serves[s]
    /\ phase[s] = "binding" => \A p \in serves[s] \ unbound[s] : port[p] = s

\* Whoever is queued is queued for the one who listens.
QueuedForListener ==
  \A c \in Connections : conn[c] = "queued" => of[c] \in Servers /\ port[at[c]] = of[c]

\* What runs was accepted by a server that had started.
AcceptedByHandled ==
  \A c \in Connections :
    conn[c] \in {"waiting", "polling"} => of[c] \in Servers /\ Handled(of[c])

\* Nothing has been told to end before there is a reason.
UntouchedBefore ==
  \A s \in Servers :
    phase[s] \in {"off", "binding", "running"} => aborted[s] = {} /\ runtime[s] # "closing"

LInv ==
  /\ TypeOK
  /\ TasksHold /\ PortsHeld /\ StartsHold
  /\ QueuedForListener /\ AcceptedByHandled /\ UntouchedBefore
  /\ KeepsListening
  /\ ListenersOwnConnections

LEMMA StartKeeps ==
  ASSUME NEW s \in Servers, NEW config \in Configs, NEW on \in {"own", "theirs"}, LInv,
           Start(s, config, on)
  PROVE  LInv'
<1>1. TypeOK'
  BY LifecycleAssumption
     DEF LInv, TypeOK, Phases, Runtimes, Tasks, Stages, Start, Goes, listener, connection
<1>2. TasksHold'
  BY DEF LInv, TypeOK, TasksHold, Live, Handled, Start, Goes, listener, connection
<1>3. PortsHeld'
  BY DEF LInv, TypeOK, PortsHeld, Live, Start, Goes, listener, connection
<1>4. StartsHold'
  BY DEF LInv, TypeOK, StartsHold, Start, Goes, listener, connection
<1>5. AcceptedByHandled'
  BY DEF LInv, TypeOK, AcceptedByHandled, Handled, Start, Goes, listener, connection
<1>6. UntouchedBefore'
  BY DEF LInv, TypeOK, UntouchedBefore, Start, Goes, listener, connection
<1>7. KeepsListening'
  BY DEF LInv, TypeOK, KeepsListening, Start, Goes, listener, connection
<1>8. ListenersOwnConnections'
  BY DEF LInv, TypeOK, ListenersOwnConnections, Ended, Start, Goes, listener, connection,
         AcceptedByHandled, Handled
<1>9. QueuedForListener'
  BY DEF LInv, QueuedForListener, Start, Goes, listener, connection
<1> QED
  BY <1>1, <1>2, <1>3, <1>4, <1>5, <1>6, <1>7, <1>8, <1>9 DEF LInv

LEMMA BindKeeps ==
  ASSUME NEW s \in Servers, NEW p \in Protocols, LInv, Bind(s, p)
  PROVE  LInv'
<1>1. TypeOK'
  BY DEF LInv, TypeOK, Phases, Runtimes, Tasks, Stages, Bind, NextToBind, connection
<1>2. TasksHold'
  BY LifecycleAssumption
     DEF LInv, TypeOK, TasksHold, Live, Handled, Bind, NextToBind, connection
<1>3. PortsHeld'
  BY DEF LInv, TypeOK, PortsHeld, Live, Bind, NextToBind, connection, StartsHold
<1>4. StartsHold'
  BY LifecycleAssumption DEF LInv, TypeOK, StartsHold, Bind, NextToBind, connection
<1>5. QueuedForListener'
  BY LifecycleAssumption DEF LInv, TypeOK, QueuedForListener, Bind, NextToBind, connection
<1>6. KeepsListening'
  BY LifecycleAssumption DEF LInv, TypeOK, KeepsListening, Bind, NextToBind, connection
<1>7. AcceptedByHandled' /\ UntouchedBefore' /\ ListenersOwnConnections'
  BY DEF LInv, AcceptedByHandled, Handled, UntouchedBefore, ListenersOwnConnections, Ended,
         Bind, NextToBind, connection
<1> QED
  BY <1>1, <1>2, <1>3, <1>4, <1>5, <1>6, <1>7 DEF LInv

LEMMA BindFailsKeeps ==
  ASSUME NEW s \in Servers, NEW p \in Protocols, LInv, BindFails(s, p)
  PROVE  LInv'
<1>1. TypeOK'
  BY DEF LInv, TypeOK, Phases, Runtimes, Tasks, Stages, BindFails, NextToBind, Goes
<1>2. TasksHold'
  BY DEF LInv, TypeOK, TasksHold, Live, Handled, BindFails, NextToBind, Goes
<1>3. PortsHeld'
  BY LifecycleAssumption DEF LInv, TypeOK, PortsHeld, Live, BindFails, NextToBind, Goes
<1>4. StartsHold'
  BY DEF LInv, TypeOK, StartsHold, BindFails, NextToBind, Goes
<1>5. QueuedForListener'
  BY DEF LInv, TypeOK, QueuedForListener, BindFails, NextToBind, Goes
<1>6. AcceptedByHandled'
  BY DEF LInv, TypeOK, AcceptedByHandled, Handled, BindFails, NextToBind, Goes
<1>7. UntouchedBefore'
  BY DEF LInv, TypeOK, UntouchedBefore, BindFails, NextToBind, Goes
<1>8. KeepsListening'
  BY DEF LInv, TypeOK, KeepsListening, BindFails, NextToBind, Goes
<1>9. ListenersOwnConnections'
  BY DEF LInv, TypeOK, ListenersOwnConnections, Ended, BindFails, NextToBind, Goes
<1> QED
  BY <1>1, <1>2, <1>3, <1>4, <1>5, <1>6, <1>7, <1>8, <1>9 DEF LInv

LEMMA SpawnKeeps ==
  ASSUME NEW s \in Servers, LInv, Spawn(s)
  PROVE  LInv'
<1>1. TypeOK'
  BY DEF LInv, TypeOK, Phases, Runtimes, Tasks, Stages, Spawn, Goes, connection
<1>2. TasksHold'
  BY DEF LInv, TypeOK, TasksHold, Live, Handled, Spawn, Goes, connection, StartsHold
<1>3. PortsHeld'
  <2> SUFFICES ASSUME NEW t \in Servers, NEW q \in Protocols, port[q] = t
               PROVE  Live(t, q)' \/ (phase'[t] = "binding" /\ q \in serves[t] \ unbound[t])
    BY DEF PortsHeld, Spawn, listener
  <2>1. Live(t, q) \/ (phase[t] = "binding" /\ q \in serves[t] \ unbound[t])
    BY DEF LInv, PortsHeld
  <2>2. CASE t = s
    <3>1. q \in serves[s]
      BY <2>1, <2>2 DEF LInv, TasksHold, Handled, Spawn
    <3> QED
      BY <2>2, <3>1 DEF LInv, TypeOK, Spawn, Live
  <2>3. CASE t # s
    BY <2>1, <2>3 DEF LInv, TypeOK, Spawn, Goes, Live
  <2> QED
    BY <2>2, <2>3
<1>4. StartsHold'
  BY DEF LInv, TypeOK, StartsHold, Spawn, Goes, connection
<1>5. AcceptedByHandled'
  BY DEF LInv, TypeOK, AcceptedByHandled, Handled, Spawn, Goes, connection
<1>6. UntouchedBefore'
  BY DEF LInv, TypeOK, UntouchedBefore, Spawn, Goes, connection
<1>7. KeepsListening'
  BY DEF LInv, TypeOK, KeepsListening, Spawn, Goes, connection, StartsHold
<1>8. ListenersOwnConnections'
  BY DEF LInv, TypeOK, ListenersOwnConnections, Ended, Spawn, Goes, connection,
         AcceptedByHandled, Handled
<1>9. QueuedForListener'
  BY DEF LInv, QueuedForListener, Spawn, Goes, connection
<1> QED
  BY <1>1, <1>2, <1>3, <1>4, <1>5, <1>6, <1>7, <1>8, <1>9 DEF LInv

LEMMA PollKeeps ==
  ASSUME NEW s \in Servers, NEW p \in Protocols, LInv, Poll(s, p)
  PROVE  LInv'
<1>1. TypeOK'
  BY LifecycleAssumption
     DEF LInv, TypeOK, Phases, Runtimes, Tasks, Stages, Poll, Becomes, caller, connection
<1>2. TasksHold'
  BY DEF LInv, TypeOK, TasksHold, Live, Handled, Poll, Becomes, caller, connection
<1>3. PortsHeld'
  BY DEF LInv, TypeOK, PortsHeld, Live, Poll, Becomes, caller, connection
<1>4. KeepsListening'
  BY DEF LInv, TypeOK, KeepsListening, Poll, Becomes, caller, connection
<1>5. ListenersOwnConnections'
  BY DEF LInv, TypeOK, ListenersOwnConnections, Ended, Poll, Becomes, caller, connection
<1>6. StartsHold' /\ QueuedForListener' /\ AcceptedByHandled' /\ UntouchedBefore'
  BY DEF LInv, StartsHold, QueuedForListener, AcceptedByHandled, Handled, UntouchedBefore,
         Poll, Becomes, caller, connection
<1> QED
  BY <1>1, <1>2, <1>3, <1>4, <1>5, <1>6 DEF LInv

LEMMA AcceptKeeps ==
  ASSUME NEW s \in Servers, NEW p \in Protocols, NEW c \in Connections, LInv, Accept(s, p,
           c)
  PROVE  LInv'
<1>1. TypeOK'
  BY LifecycleAssumption
     DEF LInv, TypeOK, Phases, Runtimes, Tasks, Stages, Accept, Spends, CameTo, caller
<1>2. QueuedForListener'
  BY DEF LInv, TypeOK, QueuedForListener, Accept, Spends, CameTo, caller
<1>3. AcceptedByHandled'
  BY DEF LInv, TypeOK, AcceptedByHandled, Handled, Accept, Spends, CameTo, caller,
         TasksHold, Live
<1>4. ListenersOwnConnections'
  BY DEF LInv, TypeOK, ListenersOwnConnections, Ended, Accept, Spends, CameTo, caller
<1>5. TasksHold' /\ PortsHeld' /\ StartsHold' /\ UntouchedBefore' /\ KeepsListening'
  BY DEF LInv, TasksHold, Live, Handled, PortsHeld, StartsHold, UntouchedBefore,
         KeepsListening, Accept, Spends, CameTo, caller
<1> QED
  BY <1>1, <1>2, <1>3, <1>4, <1>5 DEF LInv

LEMMA AcceptFailsKeeps ==
  ASSUME NEW s \in Servers, NEW p \in Protocols, LInv, AcceptFails(s, p)
  PROVE  LInv'
<1>1. TypeOK'
  BY LifecycleAssumption
     DEF LInv, TypeOK, Phases, Runtimes, Tasks, Stages, AcceptFails, Spends, CameTo, caller
<1>2. QueuedForListener'
  BY DEF LInv, TypeOK, QueuedForListener, AcceptFails, Spends, CameTo, caller
<1>3. AcceptedByHandled'
  BY DEF LInv, TypeOK, AcceptedByHandled, Handled, AcceptFails, Spends, CameTo, caller
<1>4. ListenersOwnConnections'
  BY DEF LInv, TypeOK, ListenersOwnConnections, Ended, AcceptFails, Spends, CameTo, caller
<1>5. TasksHold' /\ PortsHeld' /\ StartsHold' /\ UntouchedBefore' /\ KeepsListening'
  BY DEF LInv, TasksHold, Live, Handled, PortsHeld, StartsHold, UntouchedBefore,
         KeepsListening, AcceptFails, Spends, CameTo, caller
<1> QED
  BY <1>1, <1>2, <1>3, <1>4, <1>5 DEF LInv

LEMMA PendKeeps ==
  ASSUME NEW s \in Servers, NEW p \in Protocols, LInv, Pend(s, p)
  PROVE  LInv'
<1>1. TypeOK'
  BY LifecycleAssumption
          DEF LInv, TypeOK, Phases, Runtimes, Tasks, Stages, Pend, MustWait, Becomes,
         caller, connection
<1>2. TasksHold'
  BY DEF LInv, TypeOK, TasksHold, Live, Handled, Pend, MustWait, Becomes, caller, connection
<1>3. PortsHeld'
  BY DEF LInv, TypeOK, PortsHeld, Live, Pend, MustWait, Becomes, caller, connection
<1>4. KeepsListening'
  BY DEF LInv, TypeOK, KeepsListening, Pend, MustWait, Becomes, caller, connection
<1>5. ListenersOwnConnections'
  BY DEF LInv, TypeOK, ListenersOwnConnections, Ended, Pend, MustWait, Becomes, caller,
         connection
<1>6. StartsHold' /\ QueuedForListener' /\ AcceptedByHandled' /\ UntouchedBefore'
  BY DEF LInv, StartsHold, QueuedForListener, AcceptedByHandled, Handled, UntouchedBefore,
         Pend, MustWait, Becomes, caller, connection
<1> QED
  BY <1>1, <1>2, <1>3, <1>4, <1>5, <1>6 DEF LInv

LEMMA EndServeKeeps ==
  ASSUME NEW s \in Servers, NEW p \in Protocols, LInv, EndServe(s, p)
  PROVE  LInv'
<1>1. TypeOK'
  BY LifecycleAssumption
          DEF LInv, TypeOK, Phases, Runtimes, Tasks, Stages, EndServe, DropServe, MustWait,
         Cancelled, Becomes, CameTo, caller
<1>2. TasksHold'
  BY DEF LInv, TypeOK, TasksHold, Live, Handled, EndServe, DropServe, MustWait, Cancelled,
         Becomes, CameTo, caller
<1>3. PortsHeld'
  BY LifecycleAssumption
          DEF LInv, TypeOK, PortsHeld, Live, EndServe, DropServe, MustWait, Cancelled,
         Becomes, CameTo, caller
<1>4. StartsHold'
  <2>1. task[s][p] \in {"waiting", "polling"}
    BY DEF EndServe, MustWait
  <2>2. Handled(s) /\ port[p] = s
    BY <2>1 DEF LInv, TasksHold, Live
  <2>3. port' = [port EXCEPT ![p] = Free] /\ UNCHANGED <<phase, serves, unbound>>
    BY DEF EndServe, DropServe, caller
  <2> QED
    BY <2>2, <2>3 DEF LInv, TypeOK, StartsHold, Handled
<1>5. QueuedForListener'
  BY DEF LInv, TypeOK, QueuedForListener, EndServe, DropServe, MustWait, Cancelled, Becomes,
         CameTo, caller, TasksHold, Live
<1>6. AcceptedByHandled'
  BY DEF LInv, TypeOK, AcceptedByHandled, Handled, EndServe, DropServe, MustWait, Cancelled,
         Becomes, CameTo, caller
<1>7. KeepsListening'
  BY DEF LInv, TypeOK, KeepsListening, EndServe, DropServe, MustWait, Cancelled, Becomes,
         CameTo, caller, TasksHold, UntouchedBefore, Live, Handled
<1>8. ListenersOwnConnections'
  BY DEF LInv, TypeOK, ListenersOwnConnections, Ended, EndServe, DropServe, MustWait,
         Cancelled, Becomes, CameTo, caller
<1>9. UntouchedBefore'
  BY DEF LInv, UntouchedBefore, EndServe, DropServe, MustWait, Cancelled, Becomes, CameTo,
         caller
<1> QED
  BY <1>1, <1>2, <1>3, <1>4, <1>5, <1>6, <1>7, <1>8, <1>9 DEF LInv

LEMMA ConnectKeeps ==
  ASSUME NEW c \in Connections, NEW p \in Protocols, LInv, Connect(c, p)
  PROVE  LInv'
<1>1. TypeOK'
  BY DEF LInv, TypeOK, Phases, Runtimes, Tasks, Stages, Connect, Moves, caller, listener
<1>2. QueuedForListener'
  BY DEF LInv, TypeOK, QueuedForListener, Connect, Moves, caller, listener
<1>3. AcceptedByHandled'
  BY DEF LInv, TypeOK, AcceptedByHandled, Handled, Connect, Moves, caller, listener
<1>4. ListenersOwnConnections'
  BY DEF LInv, TypeOK, ListenersOwnConnections, Ended, Connect, Moves, caller, listener
<1>5. TasksHold' /\ PortsHeld' /\ StartsHold' /\ UntouchedBefore' /\ KeepsListening'
  BY DEF LInv, TasksHold, Live, Handled, PortsHeld, StartsHold, UntouchedBefore,
         KeepsListening, Connect, Moves, caller, listener
<1> QED
  BY <1>1, <1>2, <1>3, <1>4, <1>5 DEF LInv

LEMMA ConnectionPolledKeeps ==
  ASSUME NEW c \in Connections, LInv, ConnectionPolled(c)
  PROVE  LInv'
<1>1. TypeOK'
  BY DEF LInv, TypeOK, Phases, Runtimes, Tasks, Stages, ConnectionPolled, Moves, caller,
         listener
<1>2. QueuedForListener'
  BY DEF LInv, TypeOK, QueuedForListener, ConnectionPolled, Moves, caller, listener
<1>3. AcceptedByHandled'
  BY DEF LInv, TypeOK, AcceptedByHandled, Handled, ConnectionPolled, Moves, caller, listener
<1>4. ListenersOwnConnections'
  BY DEF LInv, TypeOK, ListenersOwnConnections, Ended, ConnectionPolled, Moves, caller,
         listener
<1>5. TasksHold' /\ PortsHeld' /\ StartsHold' /\ UntouchedBefore' /\ KeepsListening'
  BY DEF LInv, TasksHold, Live, Handled, PortsHeld, StartsHold, UntouchedBefore,
         KeepsListening, ConnectionPolled, Moves, caller, listener
<1> QED
  BY <1>1, <1>2, <1>3, <1>4, <1>5 DEF LInv

LEMMA PublishKeeps ==
  ASSUME NEW c \in Connections, LInv, Publish(c)
  PROVE  LInv'
<1>1. TypeOK'
  BY DEF LInv, TypeOK, Phases, Runtimes, Tasks, Stages, Publish, caller, listener
<1>2. TasksHold' /\ PortsHeld' /\ StartsHold' /\ QueuedForListener' /\ AcceptedByHandled' /\
         UntouchedBefore' /\ KeepsListening' /\ ListenersOwnConnections'
  BY DEF LInv, TasksHold, Live, Handled, PortsHeld, StartsHold, QueuedForListener,
         AcceptedByHandled, UntouchedBefore, KeepsListening, ListenersOwnConnections, Ended,
         Publish, caller, listener
<1> QED
  BY <1>1, <1>2 DEF LInv

LEMMA ConnectionWaitsKeeps ==
  ASSUME NEW c \in Connections, LInv, ConnectionWaits(c)
  PROVE  LInv'
<1>1. TypeOK'
  BY DEF LInv, TypeOK, Phases, Runtimes, Tasks, Stages, ConnectionWaits, Moves, caller,
         listener
<1>2. QueuedForListener'
  BY DEF LInv, TypeOK, QueuedForListener, ConnectionWaits, Moves, caller, listener
<1>3. AcceptedByHandled'
  BY DEF LInv, TypeOK, AcceptedByHandled, Handled, ConnectionWaits, Moves, caller, listener
<1>4. ListenersOwnConnections'
  BY DEF LInv, TypeOK, ListenersOwnConnections, Ended, ConnectionWaits, Moves, caller,
         listener
<1>5. TasksHold' /\ PortsHeld' /\ StartsHold' /\ UntouchedBefore' /\ KeepsListening'
  BY DEF LInv, TasksHold, Live, Handled, PortsHeld, StartsHold, UntouchedBefore,
         KeepsListening, ConnectionWaits, Moves, caller, listener
<1> QED
  BY <1>1, <1>2, <1>3, <1>4, <1>5 DEF LInv

LEMMA ConnectionDoneKeeps ==
  ASSUME NEW c \in Connections, LInv, ConnectionDone(c)
  PROVE  LInv'
<1>1. TypeOK'
  BY DEF LInv, TypeOK, Phases, Runtimes, Tasks, Stages, ConnectionDone, Moves, caller,
         listener
<1>2. QueuedForListener'
  BY DEF LInv, TypeOK, QueuedForListener, ConnectionDone, Moves, caller, listener
<1>3. AcceptedByHandled'
  BY DEF LInv, TypeOK, AcceptedByHandled, Handled, ConnectionDone, Moves, caller, listener
<1>4. ListenersOwnConnections'
  BY DEF LInv, TypeOK, ListenersOwnConnections, Ended, ConnectionDone, Moves, caller,
         listener
<1>5. TasksHold' /\ PortsHeld' /\ StartsHold' /\ UntouchedBefore' /\ KeepsListening'
  BY DEF LInv, TasksHold, Live, Handled, PortsHeld, StartsHold, UntouchedBefore,
         KeepsListening, ConnectionDone, Moves, caller, listener
<1> QED
  BY <1>1, <1>2, <1>3, <1>4, <1>5 DEF LInv

LEMMA ConnectionDroppedKeeps ==
  ASSUME NEW c \in Connections, LInv, ConnectionDropped(c)
  PROVE  LInv'
<1>1. TypeOK'
  BY DEF LInv, TypeOK, Phases, Runtimes, Tasks, Stages, ConnectionDropped, Moves, caller,
         listener
<1>2. QueuedForListener'
  BY DEF LInv, TypeOK, QueuedForListener, ConnectionDropped, Moves, caller, listener
<1>3. AcceptedByHandled'
  BY DEF LInv, TypeOK, AcceptedByHandled, Handled, ConnectionDropped, Moves, caller,
         listener
<1>4. ListenersOwnConnections'
  BY DEF LInv, TypeOK, ListenersOwnConnections, Ended, ConnectionDropped, Moves, caller,
         listener
<1>5. TasksHold' /\ PortsHeld' /\ StartsHold' /\ UntouchedBefore' /\ KeepsListening'
  BY DEF LInv, TasksHold, Live, Handled, PortsHeld, StartsHold, UntouchedBefore,
         KeepsListening, ConnectionDropped, Moves, caller, listener
<1> QED
  BY <1>1, <1>2, <1>3, <1>4, <1>5 DEF LInv

LEMMA StopKeeps ==
  ASSUME NEW s \in Servers, LInv, Stop(s)
  PROVE  LInv'
<1>1. TypeOK'
  BY DEF LInv, TypeOK, Phases, Runtimes, Tasks, Stages, Stop, Goes, listener, connection
<1>2. TasksHold'
  BY DEF LInv, TypeOK, TasksHold, Live, Handled, Stop, Goes, listener, connection
<1>3. PortsHeld'
  BY DEF LInv, TypeOK, PortsHeld, Live, Stop, Goes, listener, connection
<1>4. StartsHold'
  BY DEF LInv, TypeOK, StartsHold, Stop, Goes, listener, connection
<1>5. AcceptedByHandled'
  BY DEF LInv, TypeOK, AcceptedByHandled, Handled, Stop, Goes, listener, connection
<1>6. UntouchedBefore'
  BY DEF LInv, TypeOK, UntouchedBefore, Stop, Goes, listener, connection
<1>7. KeepsListening'
  BY DEF LInv, TypeOK, KeepsListening, Stop, Goes, listener, connection
<1>8. QueuedForListener' /\ ListenersOwnConnections'
  BY DEF LInv, QueuedForListener, ListenersOwnConnections, Ended, Stop, Goes, listener,
         connection
<1> QED
  BY <1>1, <1>2, <1>3, <1>4, <1>5, <1>6, <1>7, <1>8 DEF LInv

LEMMA AbortKeeps ==
  ASSUME NEW s \in Servers, NEW p \in Protocols, LInv, Abort(s, p)
  PROVE  LInv'
<1>1. TypeOK'
  BY DEF LInv, TypeOK, Phases, Runtimes, Tasks, Stages, Abort, listener, connection
<1>2. UntouchedBefore'
  BY DEF LInv, TypeOK, UntouchedBefore, Abort, listener, connection
<1>3. TasksHold' /\ PortsHeld' /\ StartsHold' /\ QueuedForListener' /\ AcceptedByHandled' /\
         KeepsListening' /\ ListenersOwnConnections'
  BY DEF LInv, TasksHold, Live, Handled, PortsHeld, StartsHold, QueuedForListener,
         AcceptedByHandled, KeepsListening, ListenersOwnConnections, Ended, Abort, listener,
         connection
<1> QED
  BY <1>1, <1>2, <1>3 DEF LInv

LEMMA LetGoKeeps ==
  ASSUME NEW s \in Servers, NEW wait \in BOOLEAN, LInv, LetGo(s, wait)
  PROVE  LInv'
<1>1. TypeOK'
  BY DEF LInv, TypeOK, Phases, Runtimes, Tasks, Stages, LetGo, Goes, listener, connection
<1>2. TasksHold'
  BY DEF LInv, TypeOK, TasksHold, Live, Handled, LetGo, Goes, listener, connection
<1>3. PortsHeld'
  BY DEF LInv, TypeOK, PortsHeld, Live, LetGo, Goes, listener, connection
<1>4. StartsHold'
  BY DEF LInv, TypeOK, StartsHold, LetGo, Goes, listener, connection
<1>5. AcceptedByHandled'
  BY DEF LInv, TypeOK, AcceptedByHandled, Handled, LetGo, Goes, listener, connection
<1>6. UntouchedBefore'
  BY DEF LInv, TypeOK, UntouchedBefore, LetGo, Goes, listener, connection
<1>7. KeepsListening'
  BY DEF LInv, TypeOK, KeepsListening, LetGo, Goes, listener, connection
<1>8. ListenersOwnConnections'
  BY DEF LInv, TypeOK, ListenersOwnConnections, Ended, LetGo, Goes, listener, connection
<1>9. QueuedForListener'
  BY DEF LInv, QueuedForListener, LetGo, Goes, listener, connection
<1> QED
  BY <1>1, <1>2, <1>3, <1>4, <1>5, <1>6, <1>7, <1>8, <1>9 DEF LInv

LEMMA RuntimeDownKeeps ==
  ASSUME NEW s \in Servers, LInv, RuntimeDown(s)
  PROVE  LInv'
<1>1. TypeOK'
  BY DEF LInv, TypeOK, Phases, Runtimes, Tasks, Stages, RuntimeDown, Runs, caller, listener,
         connection
<1>2. UntouchedBefore'
  BY DEF LInv, TypeOK, UntouchedBefore, RuntimeDown, Runs, caller, listener, connection
<1>3. ListenersOwnConnections'
  BY DEF LInv, TypeOK, ListenersOwnConnections, Ended, RuntimeDown, Runs, caller, listener,
         connection
<1>4. TasksHold' /\ PortsHeld' /\ StartsHold' /\ QueuedForListener' /\ AcceptedByHandled' /\
         KeepsListening'
  BY DEF LInv, TasksHold, Live, Handled, PortsHeld, StartsHold, QueuedForListener,
         AcceptedByHandled, KeepsListening, RuntimeDown, Runs, caller, listener, connection
<1> QED
  BY <1>1, <1>2, <1>3, <1>4 DEF LInv

LEMMA ShutdownReturnsKeeps ==
  ASSUME NEW s \in Servers, LInv, ShutdownReturns(s)
  PROVE  LInv'
<1>1. TypeOK'
  BY DEF LInv, TypeOK, Phases, Runtimes, Tasks, Stages, ShutdownReturns, Goes, listener,
         connection
<1>2. TasksHold'
  BY DEF LInv, TypeOK, TasksHold, Live, Handled, ShutdownReturns, Goes, listener, connection
<1>3. PortsHeld'
  BY DEF LInv, TypeOK, PortsHeld, Live, ShutdownReturns, Goes, listener, connection
<1>4. StartsHold'
  BY DEF LInv, TypeOK, StartsHold, ShutdownReturns, Goes, listener, connection
<1>5. AcceptedByHandled'
  BY DEF LInv, TypeOK, AcceptedByHandled, Handled, ShutdownReturns, Goes, listener,
         connection
<1>6. UntouchedBefore'
  BY DEF LInv, TypeOK, UntouchedBefore, ShutdownReturns, Goes, listener, connection
<1>7. KeepsListening'
  BY DEF LInv, TypeOK, KeepsListening, ShutdownReturns, Goes, listener, connection
<1>8. QueuedForListener' /\ ListenersOwnConnections'
  BY DEF LInv, QueuedForListener, ListenersOwnConnections, Ended, ShutdownReturns, Goes,
         listener, connection
<1> QED
  BY <1>1, <1>2, <1>3, <1>4, <1>5, <1>6, <1>7, <1>8 DEF LInv

LEMMA ElsewhereKeeps ==
  ASSUME NEW p \in Protocols, LInv, Elsewhere(p)
  PROVE  LInv'
<1>1. TypeOK'
  BY DEF LInv, TypeOK, Phases, Runtimes, Tasks, Stages, Elsewhere, caller, connection
<1>2. TasksHold'
  BY LifecycleAssumption
     DEF LInv, TypeOK, TasksHold, Live, Handled, Elsewhere, caller, connection
<1>3. PortsHeld'
  BY LifecycleAssumption DEF LInv, TypeOK, PortsHeld, Live, Elsewhere, caller, connection
<1>4. StartsHold'
  BY LifecycleAssumption DEF LInv, TypeOK, StartsHold, Elsewhere, caller, connection
<1>5. QueuedForListener'
  BY LifecycleAssumption DEF LInv, TypeOK, QueuedForListener, Elsewhere, caller, connection
<1>6. KeepsListening'
  BY LifecycleAssumption DEF LInv, TypeOK, KeepsListening, Elsewhere, caller, connection
<1>7. AcceptedByHandled' /\ UntouchedBefore' /\ ListenersOwnConnections'
  BY DEF LInv, AcceptedByHandled, Handled, UntouchedBefore, ListenersOwnConnections, Ended,
         Elsewhere, caller, connection
<1> QED
  BY <1>1, <1>2, <1>3, <1>4, <1>5, <1>6, <1>7 DEF LInv

LEMMA StutterKeeps ==
  ASSUME LInv, UNCHANGED vars
  PROVE  LInv'
<1>1. /\ UNCHANGED <<phase, serves, unbound, aborted, runtime, port, task, budget>>
      /\ UNCHANGED <<conn, of, at, doomed, published>>
  BY DEF vars, caller, listener, connection
<1>2. TypeOK'
  BY <1>1 DEF LInv, TypeOK
<1>3. TasksHold' /\ PortsHeld' /\ StartsHold' /\ KeepsListening'
  BY <1>1 DEF LInv, TasksHold, PortsHeld, StartsHold, KeepsListening, Live, Handled
<1>4. QueuedForListener' /\ AcceptedByHandled' /\ UntouchedBefore' /\
         ListenersOwnConnections'
  BY <1>1 DEF LInv, QueuedForListener, AcceptedByHandled, Handled, UntouchedBefore,
              ListenersOwnConnections, Ended
<1> QED
  BY <1>2, <1>3, <1>4 DEF LInv

LEMMA InitEstablishes == Init => LInv
<1> SUFFICES ASSUME Init  PROVE LInv
  OBVIOUS
<1>1. TypeOK
  BY LifecycleAssumption
     DEF Init, TypeOK, Phases, Runtimes, Tasks, Stages, Protocols
<1>2. TasksHold /\ PortsHeld /\ StartsHold /\ KeepsListening
  BY LifecycleAssumption DEF Init, TasksHold, PortsHeld, StartsHold, KeepsListening, Live
<1>3. QueuedForListener /\ AcceptedByHandled /\ UntouchedBefore /\ ListenersOwnConnections
  BY DEF Init, QueuedForListener, AcceptedByHandled, UntouchedBefore,
         ListenersOwnConnections
<1> QED
  BY <1>1, <1>2, <1>3 DEF LInv

LEMMA NextKeeps == LInv /\ [Next]_vars => LInv'
<1> SUFFICES ASSUME LInv, [Next]_vars  PROVE LInv'
  OBVIOUS
<1>1. ASSUME NEW s \in Servers, Call(s)  PROVE LInv'
  BY <1>1, SpawnKeeps, ShutdownReturnsKeeps, LetGoKeeps, BindKeeps, BindFailsKeeps,
           AbortKeeps
     DEF Call
<1>2. ASSUME NEW s \in Servers, NEW p \in Protocols, Serve(s, p)  PROVE LInv'
  BY <1>2, PollKeeps, PendKeeps, EndServeKeeps, AcceptFailsKeeps, AcceptKeeps DEF Serve
<1>3. ASSUME NEW c \in Connections, Connection(c)  PROVE LInv'
  BY <1>3, ConnectionPolledKeeps, PublishKeeps, ConnectionWaitsKeeps, ConnectionDoneKeeps,
     ConnectionDroppedKeeps DEF Connection
<1>4. CASE UNCHANGED vars
  BY <1>4, StutterKeeps
<1>5. CASE Next
  BY <1>1, <1>2, <1>3, <1>5, StartKeeps, StopKeeps, RuntimeDownKeeps, ConnectKeeps,
     ElsewhereKeeps DEF Next
<1> QED
  BY <1>4, <1>5

\* Through every interleaving of callers, tasks and connections the invariant
\* above holds (server.rs, and serve() of both protocols).
THEOREM LifecycleInvariant == Spec => []LInv
<1> QED
  BY InitEstablishes, NextKeeps, PTL DEF Spec

\* Every variable of the lifecycle keeps its type.
THEOREM LifecycleTypes == Spec => []TypeOK
<1>1. LInv => TypeOK
  BY DEF LInv
<1> QED
  BY <1>1, LifecycleInvariant, PTL

\* A start() that fails on one port leaves nothing listening on the other, no
\* task and no connection (start_on, server.rs:131).
THEOREM StartLeavesNothing == Spec => []FailedStartLeavesNothing
<1>1. LInv => FailedStartLeavesNothing
  <2> SUFFICES ASSUME LInv, NEW s \in Servers, phase[s] = "failed"  PROVE ~Runs(s)
    BY DEF FailedStartLeavesNothing
  <2>1. ~Handled(s)
    BY DEF Handled
  <2>2. ASSUME NEW p \in Protocols  PROVE task[s][p] \notin {"waiting", "polling"}
    BY <2>1 DEF LInv, TasksHold, Live
  <2>3. ASSUME NEW p \in Protocols  PROVE port[p] # s
    BY <2>2 DEF LInv, PortsHeld, Live
  <2>4. ASSUME NEW c \in Connections, of[c] = s  PROVE conn[c] \notin {"waiting", "polling"}
    BY <2>1, <2>4 DEF LInv, AcceptedByHandled
  <2> QED
    BY <2>2, <2>3, <2>4 DEF Runs
<1> QED
  BY <1>1, LifecycleInvariant, PTL

\* While its handle is held, a server listens on every port it was asked to
\* (serve, and ServerHandle of server.rs).
THEOREM HeldServersListen == Spec => []KeepsListening
<1>1. LInv => KeepsListening
  BY DEF LInv
<1> QED
  BY <1>1, LifecycleInvariant, PTL

\* No connection runs on after the listener that accepted it, unless it has
\* been told to end (the JoinSet of serve()).
THEOREM ConnectionsAreOwned == Spec => []ListenersOwnConnections
<1>1. LInv => ListenersOwnConnections
  BY DEF LInv
<1> QED
  BY <1>1, LifecycleInvariant, PTL

=============================================================================
