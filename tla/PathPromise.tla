----------------------------- MODULE PathPromise ----------------------------
(***************************************************************************)
(* What a path promises its readers, without its cache, channel or locks:  *)
(* the module documentation of src/src/path.rs as one small machine.  A    *)
(* publisher sends units without waiting.  A reader that joins begins at   *)
(* the last keyframe, or with nothing of the past, or anywhere while there *)
(* has been no picture to begin at.  It then gets every unit in order; one *)
(* that fell more than BACKLOG behind may jump, and only to a keyframe.    *)
(* The stream ends for a reader at its last unit, or while it was behind.  *)
(***************************************************************************)
EXTENDS Integers, Sequences

CONSTANTS Readers, BACKLOG

VARIABLES
  kinds,  \* the kind of every unit sent
  open,   \* whether the publisher is there
  at,     \* the last unit each reader was given, or began after
  state   \* "off", "reading" or "ended"

vars == <<kinds, open, at, state>>

Init ==
  /\ kinds = <<>>
  /\ open = TRUE
  /\ at = [r \in Readers |-> 0]
  /\ state = [r \in Readers |-> "off"]

IsKey(n) == kinds[n] = "key"

\* How many units a reader has yet to be given.
Behind(r) == Len(kinds) - at[r]

Send(kind) ==
  /\ open
  /\ kinds' = Append(kinds, kind)
  /\ UNCHANGED <<open, at, state>>

End ==
  /\ open
  /\ open' = FALSE
  /\ UNCHANGED <<kinds, at, state>>

MayBeginAt(n) ==
  /\ n \in 1..(Len(kinds) + 1)
  /\ \/ n = Len(kinds) + 1
     \/ \A m \in 1..Len(kinds) : IsKey(m) => m <= n
  /\ n <= Len(kinds) /\ (\E m \in 1..Len(kinds) : IsKey(m)) => IsKey(n)

Join(r) ==
  /\ open
  /\ state[r] = "off"
  /\ \E n \in 1..(Len(kinds) + 1) : MayBeginAt(n) /\ at' = [at EXCEPT ![r] = n - 1]
  /\ state' = [state EXCEPT ![r] = "reading"]
  /\ UNCHANGED <<kinds, open>>

Leave(r) ==
  /\ state[r] # "off"
  /\ at' = [at EXCEPT ![r] = 0]
  /\ state' = [state EXCEPT ![r] = "off"]
  /\ UNCHANGED <<kinds, open>>

Give(r) ==
  /\ state[r] = "reading"
  /\ Behind(r) > 0
  /\ at' = [at EXCEPT ![r] = @ + 1]
  /\ UNCHANGED <<kinds, open, state>>

Skip(r) ==
  /\ state[r] = "reading"
  /\ Behind(r) > BACKLOG
  /\ \E n \in (at[r] + 1)..Len(kinds) : IsKey(n) /\ at' = [at EXCEPT ![r] = n]
  /\ UNCHANGED <<kinds, open, state>>

Tell(r) ==
  /\ state[r] = "reading"
  /\ ~open
  /\ Behind(r) = 0 \/ Behind(r) > BACKLOG
  /\ state' = [state EXCEPT ![r] = "ended"]
  /\ UNCHANGED <<kinds, open, at>>

Next ==
  \/ \E kind \in {"key", "delta", "sound"} : Send(kind)
  \/ End
  \/ \E r \in Readers : Join(r) \/ Leave(r) \/ Give(r) \/ Skip(r) \/ Tell(r)

Spec == Init /\ [][Next]_vars
=============================================================================
