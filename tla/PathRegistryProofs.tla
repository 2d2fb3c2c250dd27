------------------------- MODULE PathRegistryProofs -------------------------
(***************************************************************************)
(* Theorems about PathRegistry for any publishers, readers, names() calls, *)
(* names and number of publications.                                       *)
(***************************************************************************)
EXTENDS PathRegistry, TLAPS

Placed(u) == pc[u] \notin {"idle", "numbered"}

\* Tokens in use were handed out, and nothing is the Path a publish() that has
\* only its number could yet make.
NumbersAreFresh ==
  /\ \A n \in Names : paths[n] < published
  /\ \A u \in Publishers : pc[u] # "idle" => token[u] \in Tokens /\ token[u] < published
  /\ \A u \in Publishers : Placed(u) => path[u] \in Tokens /\ path[u] < published
  /\ \A u \in Publishers : pc[u] = "numbered" =>
       /\ \A n \in Names : paths[n] # token[u]
       /\ \A v \in Publishers : Placed(v) => path[v] # token[u]
       /\ \A v \in Publishers : v # u /\ pc[v] = "numbered" => token[v] # token[u]

\* A Path belongs to one name for good.
PathsKeepTheirName ==
  /\ \A m, n \in Names : paths[m] = paths[n] /\ paths[m] # None => m = n
  /\ \A u \in Publishers, n \in Names : Placed(u) /\ paths[n] = path[u] => name[u] = n
  /\ \A u, v \in Publishers :
       Placed(u) /\ Placed(v) /\ path[u] = path[v] => name[u] = name[v]

\* A stream on a Path is held by a publisher that has not got to its end.
StreamsAreHeld ==
  \A p \in Tokens : source[p] # None =>
    \E u \in Publishers :
      token[u] = source[p] /\ path[u] = p /\ pc[u] \in {"live", "dropping"}

ReadersFoundAPath == \A r \in Readers : seat[r] = "found" => has[r] \in Tokens

RInv ==
  /\ TypeOK
  /\ NumbersAreFresh
  /\ PathsKeepTheirName
  /\ ReadersFoundAPath
  /\ StreamsAreHeld
  /\ NoNameIsLeftBehind

-----------------------------------------------------------------------------
LEMMA RInit == Init => RInv
<1> SUFFICES ASSUME Init  PROVE RInv
  OBVIOUS
<1>1. TypeOK
  BY RegistryAssumption DEF Init, TypeOK, Some, None, Places, Seats
<1>2. NumbersAreFresh
  BY DEF Init, NumbersAreFresh, Placed, None
<1>3. PathsKeepTheirName /\ StreamsAreHeld /\ NoNameIsLeftBehind
  BY DEF Init, PathsKeepTheirName, Placed, StreamsAreHeld, NoNameIsLeftBehind
<1>4. ReadersFoundAPath
  BY DEF Init, ReadersFoundAPath
<1> QED
  BY <1>1, <1>2, <1>3, <1>4 DEF RInv

\* Every step keeps the types, because what a publisher holds is a token once it
\* has taken its number and a Path once it has one.
LEMMA TypeStep ==
  ASSUME TypeOK, NumbersAreFresh, ReadersFoundAPath, Next
  PROVE  TypeOK'
<1>1. \A u \in Publishers : pc[u] # "idle" => token[u] \in Tokens
  BY DEF NumbersAreFresh
<1>2. \A u \in Publishers : Placed(u) => path[u] \in Tokens
  BY DEF NumbersAreFresh
<1>3. ASSUME NEW u \in Publishers, Publish(u)  PROVE TypeOK'
  <2>1. CASE TakeNumber(u)
    BY <2>1, RegistryAssumption DEF TypeOK, TakeNumber, Goes, reader, lister, Places, Some, Tokens
  <2>2. CASE TakePlace(u)
    BY <1>1, <2>2 DEF TypeOK, TakePlace, Goes, reader, lister, Places, Some
  <2>3. CASE TakeOver(u)
    BY <1>1, <1>2, <2>3 DEF TypeOK, TakeOver, Goes, reader, lister, Places, Some, Placed
  <2> QED
    BY <1>3, <2>1, <2>2, <2>3 DEF Publish
<1>4. ASSUME NEW u \in Publishers, Push(u) \/ Stop(u) \/ Evicted(u) \/ Drop(u)
      PROVE  TypeOK'
  <2>1. CASE Push(u)
    BY <1>1, <1>2, <2>1 DEF TypeOK, Push, publisher, reader, lister
  <2>2. CASE Stop(u) \/ Evicted(u)
    BY <2>2 DEF TypeOK, Stop, Evicted, Goes, reader, lister, Places
  <2>3. CASE TakeDown(u)
    BY <1>1, <1>2, <2>3 DEF TypeOK, TakeDown, Goes, reader, lister, Places, Some, Placed
  <2>4. CASE StepAside(u)
    BY <2>4 DEF TypeOK, StepAside, Goes, reader, lister, Places
  <2>5. CASE Release(u)
    BY <2>5 DEF TypeOK, Release, Goes, reader, lister, Places
  <2>6. CASE RemoveEntry(u)
    BY <2>6 DEF TypeOK, RemoveEntry, Goes, reader, lister, Places, Some
  <2> QED
    BY <1>4, <2>1, <2>2, <2>3, <2>4, <2>5, <2>6 DEF Drop
<1>5. ASSUME NEW r \in Readers, Read(r)  PROVE TypeOK'
  <2>1. ASSUME NEW n \in Names, LookUp(r, n)  PROVE TypeOK'
    BY <2>1 DEF TypeOK, LookUp, Gets, Seats, publisher, lister
  <2>2. CASE Attach(r)
    <3>1. has[r] \in Tokens /\ source[has[r]] \in Some
      BY <2>2 DEF TypeOK, Attach, ReadersFoundAPath
    <3> QED
      BY <2>2, <3>1 DEF TypeOK, Attach, Gets, Seats, Some, publisher, lister
  <2>3. CASE SeeEnd(r) \/ Leave(r)
    BY <2>3 DEF TypeOK, SeeEnd, Leave, Gets, Seats, Some, publisher, lister
  <2> QED
    BY <1>5, <2>1, <2>2, <2>3 DEF Read
<1>6. ASSUME NEW l \in Listers, List(l)  PROVE TypeOK'
  BY <1>6 DEF TypeOK, List, BeginList, ListOne, EndList, publisher, reader
<1> QED
  BY <1>3, <1>4, <1>5, <1>6 DEF Next

\* The parts of the invariant that are about publishers and their Paths.
PathsInv ==
  /\ NumbersAreFresh /\ PathsKeepTheirName /\ ReadersFoundAPath
  /\ StreamsAreHeld /\ NoNameIsLeftBehind

LEMMA TakeNumberStep ==
  ASSUME RInv, NEW u \in Publishers, TakeNumber(u)
  PROVE  PathsInv'
<1>1. /\ TypeOK /\ NumbersAreFresh /\ PathsKeepTheirName /\ ReadersFoundAPath
      /\ StreamsAreHeld /\ NoNameIsLeftBehind
  BY DEF RInv
<1>2. /\ pc[u] = "idle" /\ pc' = [pc EXCEPT ![u] = "numbered"]
      /\ token' = [token EXCEPT ![u] = published] /\ published' = published + 1
      /\ published \in Tokens /\ published \in Nat
      /\ UNCHANGED <<paths, source, name, path, seat, has>>
  BY <1>1, RegistryAssumption DEF TakeNumber, Goes, TypeOK, Tokens, reader
<1>3. \A v \in Publishers : v # u => pc'[v] = pc[v] /\ token'[v] = token[v]
  BY <1>1, <1>2 DEF TypeOK
<1>4. pc'[u] = "numbered" /\ token'[u] = published
  BY <1>1, <1>2 DEF TypeOK
<1>5. NumbersAreFresh'
  <2>1. \A n \in Names : paths'[n] < published' /\ paths'[n] # published
    BY <1>1, <1>2 DEF NumbersAreFresh, TypeOK, Some, Tokens, None
  <2>2. \A v \in Publishers : pc'[v] # "idle" => token'[v] \in Tokens /\ token'[v] < published'
    BY <1>1, <1>2, <1>3, <1>4 DEF NumbersAreFresh, Tokens
  <2>3. \A v \in Publishers : Placed(v)' =>
          Placed(v) /\ path'[v] \in Tokens /\ path'[v] < published' /\ path'[v] # published
    BY <1>1, <1>2, <1>3, <1>4 DEF NumbersAreFresh, Tokens, Placed
  <2>4. ASSUME NEW v \in Publishers, pc'[v] = "numbered"
        PROVE  /\ \A n \in Names : paths'[n] # token'[v]
               /\ \A w \in Publishers : Placed(w)' => path'[w] # token'[v]
               /\ \A w \in Publishers : w # v /\ pc'[w] = "numbered" => token'[w] # token'[v]
    <3>1. CASE v = u
      <4>1. \A w \in Publishers : w # v /\ pc'[w] = "numbered" => token'[w] # published
        BY <1>1, <1>2, <1>3, <3>1 DEF NumbersAreFresh, Tokens
      <4> QED
        BY <1>4, <2>1, <2>3, <3>1, <4>1
    <3>2. CASE v # u
      <4>1. pc[v] = "numbered" /\ token'[v] = token[v] /\ token[v] # published
        BY <1>1, <1>2, <1>3, <2>4, <3>2 DEF NumbersAreFresh, Tokens
      <4> QED
        BY <1>1, <1>2, <1>3, <1>4, <2>3, <4>1 DEF NumbersAreFresh
    <3> QED
      BY <3>1, <3>2
  <2> QED
    BY <2>1, <2>2, <2>3, <2>4 DEF NumbersAreFresh
<1>6. PathsKeepTheirName'
  BY <1>1, <1>2, <1>3, <1>4 DEF PathsKeepTheirName, Placed
<1>7. StreamsAreHeld'
  BY <1>1, <1>2, <1>3 DEF StreamsAreHeld
<1>8. NoNameIsLeftBehind'
  BY <1>1, <1>2, <1>3 DEF NoNameIsLeftBehind
<1> QED
  BY <1>1, <1>2, <1>5, <1>6, <1>7, <1>8 DEF PathsInv, ReadersFoundAPath

LEMMA TakePlaceStep ==
  ASSUME RInv, NEW u \in Publishers, TakePlace(u)
  PROVE  PathsInv'
<1>1. /\ TypeOK /\ NumbersAreFresh /\ PathsKeepTheirName /\ ReadersFoundAPath
      /\ StreamsAreHeld /\ NoNameIsLeftBehind
  BY DEF RInv
<1>2. PICK entry \in Tokens :
        /\ entry < published
        /\ entry = IF paths[name[u]] = None THEN token[u] ELSE paths[name[u]]
        /\ paths' = [paths EXCEPT ![name[u]] = entry]
        /\ path' = [path EXCEPT ![u] = entry]
  BY <1>1 DEF TakePlace, NumbersAreFresh, TypeOK, Some
<1>3. /\ pc[u] = "numbered" /\ pc' = [pc EXCEPT ![u] = "placed"]
      /\ UNCHANGED <<published, source, name, token, seat, has>>
  BY DEF TakePlace, Goes, reader
<1>4. /\ \A v \in Publishers : v # u => pc'[v] = pc[v] /\ path'[v] = path[v]
      /\ pc'[u] = "placed" /\ path'[u] = entry
      /\ \A n \in Names : n # name[u] => paths'[n] = paths[n]
      /\ name[u] \in Names /\ paths'[name[u]] = entry
  BY <1>1, <1>2, <1>3 DEF TypeOK
\* The entry is new or the name's own: nobody else's.
<1>5. /\ \A v \in Publishers : v # u /\ Placed(v) /\ path[v] = entry => name[v] = name[u]
      /\ \A n \in Names : paths[n] = entry => n = name[u]
  <2>1. CASE paths[name[u]] = None
    <3>1. entry = token[u]
      BY <1>2, <2>1
    <3> QED
      BY <1>1, <1>3, <3>1 DEF NumbersAreFresh
  <2>2. CASE paths[name[u]] # None
    <3>1. entry = paths[name[u]]
      BY <1>2, <2>2
    <3> QED
      BY <1>1, <1>4, <2>2, <3>1 DEF PathsKeepTheirName
  <2> QED
    BY <2>1, <2>2
<1>6. NumbersAreFresh'
  <2>1. \A n \in Names : paths'[n] < published'
    BY <1>1, <1>2, <1>3, <1>4 DEF NumbersAreFresh
  <2>2. \A v \in Publishers : pc'[v] # "idle" => token'[v] \in Tokens /\ token'[v] < published'
    BY <1>1, <1>3, <1>4 DEF NumbersAreFresh
  <2>3. \A v \in Publishers : Placed(v)' => path'[v] \in Tokens /\ path'[v] < published'
    BY <1>1, <1>2, <1>3, <1>4 DEF NumbersAreFresh, Placed
  <2>4. ASSUME NEW v \in Publishers, pc'[v] = "numbered"
        PROVE  /\ \A n \in Names : paths'[n] # token'[v]
               /\ \A w \in Publishers : Placed(w)' => path'[w] # token'[v]
               /\ \A w \in Publishers : w # v /\ pc'[w] = "numbered" => token'[w] # token'[v]
    <3>1. v # u /\ pc[v] = "numbered" /\ token'[v] = token[v]
      BY <1>3, <1>4, <2>4
    <3>2. entry # token[v]
      <4>1. token[v] # token[u] /\ \A n \in Names : paths[n] # token[v]
        BY <1>1, <1>3, <3>1 DEF NumbersAreFresh
      <4> QED
        BY <1>2, <1>4, <4>1
    <3> QED
      BY <1>1, <1>3, <1>4, <3>1, <3>2 DEF NumbersAreFresh, Placed
  <2> QED
    BY <2>1, <2>2, <2>3, <2>4 DEF NumbersAreFresh
<1>7. PathsKeepTheirName'
  <2>1. \A m, n \in Names : paths'[m] = paths'[n] /\ paths'[m] # None => m = n
    BY <1>1, <1>4, <1>5 DEF PathsKeepTheirName
  <2>2. \A v \in Publishers, n \in Names : Placed(v)' /\ paths'[n] = path'[v] => name'[v] = n
    BY <1>1, <1>3, <1>4, <1>5 DEF PathsKeepTheirName, Placed
  <2>3. \A v, w \in Publishers :
          Placed(v)' /\ Placed(w)' /\ path'[v] = path'[w] => name'[v] = name'[w]
    BY <1>1, <1>3, <1>4, <1>5 DEF PathsKeepTheirName, Placed
  <2> QED
    BY <2>1, <2>2, <2>3 DEF PathsKeepTheirName
<1>8. StreamsAreHeld'
  BY <1>1, <1>3, <1>4 DEF StreamsAreHeld
<1>9. NoNameIsLeftBehind'
  <2> SUFFICES ASSUME NEW n \in Names, paths'[n] # None, source'[paths'[n]] = None
               PROVE  \E v \in Publishers :
                        /\ name'[v] = n /\ path'[v] = paths'[n]
                        /\ pc'[v] \in {"placed", "holding", "removing"}
    BY DEF NoNameIsLeftBehind
  <2>1. CASE n = name[u]
    BY <1>3, <1>4, <2>1
  <2>2. CASE n # name[u]
    BY <1>1, <1>3, <1>4, <2>2 DEF NoNameIsLeftBehind
  <2> QED
    BY <2>1, <2>2
<1> QED
  BY <1>1, <1>3, <1>6, <1>7, <1>8, <1>9 DEF PathsInv, ReadersFoundAPath

LEMMA TakeOverStep ==
  ASSUME RInv, NEW u \in Publishers, TakeOver(u)
  PROVE  PathsInv'
<1>1. /\ TypeOK /\ NumbersAreFresh /\ PathsKeepTheirName /\ ReadersFoundAPath
      /\ StreamsAreHeld /\ NoNameIsLeftBehind
  BY DEF RInv
<1>2. /\ pc[u] = "placed" /\ pc' = [pc EXCEPT ![u] = "live"]
      /\ source' = [source EXCEPT ![path[u]] = token[u]]
      /\ UNCHANGED <<published, paths, name, path, token, seat, has>>
      /\ path[u] \in Tokens /\ token[u] \in Tokens /\ token[u] # None
  BY <1>1 DEF TakeOver, Goes, reader, NumbersAreFresh, Placed, Tokens, None
<1>3. /\ \A v \in Publishers : v # u => pc'[v] = pc[v]
      /\ pc'[u] = "live" /\ source'[path[u]] = token[u]
      /\ \A p \in Tokens : p # path[u] => source'[p] = source[p]
  BY <1>1, <1>2 DEF TypeOK
<1>4. NumbersAreFresh'
  BY <1>1, <1>2, <1>3 DEF NumbersAreFresh, Placed
<1>5. PathsKeepTheirName'
  BY <1>1, <1>2, <1>3 DEF PathsKeepTheirName, Placed
<1>6. StreamsAreHeld'
  <2> SUFFICES ASSUME NEW p \in Tokens, source'[p] # None
               PROVE  \E v \in Publishers :
                        token'[v] = source'[p] /\ path'[v] = p /\ pc'[v] \in {"live", "dropping"}
    BY DEF StreamsAreHeld
  <2>1. CASE p = path[u]
    BY <1>2, <1>3, <2>1
  <2>2. CASE p # path[u]
    BY <1>1, <1>2, <1>3, <2>2 DEF StreamsAreHeld
  <2> QED
    BY <2>1, <2>2
<1>7. NoNameIsLeftBehind'
  <2> SUFFICES ASSUME NEW n \in Names, paths'[n] # None, source'[paths'[n]] = None
               PROVE  \E v \in Publishers :
                        /\ name'[v] = n /\ path'[v] = paths'[n]
                        /\ pc'[v] \in {"placed", "holding", "removing"}
    BY DEF NoNameIsLeftBehind
  <2>1. paths[n] # path[u] /\ paths[n] \in Tokens
    BY <1>1, <1>2, <1>3 DEF TypeOK, Some
  <2>2. PICK v \in Publishers :
          /\ name[v] = n /\ path[v] = paths[n]
          /\ pc[v] \in {"placed", "holding", "removing"}
    BY <1>1, <1>2, <1>3, <2>1 DEF NoNameIsLeftBehind
  <2>3. v # u
    BY <2>1, <2>2
  <2> QED
    BY <1>2, <1>3, <2>2, <2>3
<1> QED
  BY <1>1, <1>2, <1>4, <1>5, <1>6, <1>7 DEF PathsInv, ReadersFoundAPath

LEMMA TakeDownStep ==
  ASSUME RInv, NEW u \in Publishers, TakeDown(u)
  PROVE  PathsInv'
<1>1. /\ TypeOK /\ NumbersAreFresh /\ PathsKeepTheirName /\ ReadersFoundAPath
      /\ StreamsAreHeld /\ NoNameIsLeftBehind
  BY DEF RInv
<1>2. /\ pc[u] = "dropping" /\ pc' = [pc EXCEPT ![u] = "holding"]
      /\ source' = [source EXCEPT ![path[u]] = None]
      /\ UNCHANGED <<published, paths, name, path, token, seat, has>>
      /\ path[u] \in Tokens
  BY <1>1 DEF TakeDown, Goes, reader, NumbersAreFresh, Placed
<1>3. /\ \A v \in Publishers : v # u => pc'[v] = pc[v]
      /\ pc'[u] = "holding" /\ source'[path[u]] = None
      /\ \A p \in Tokens : p # path[u] => source'[p] = source[p]
  BY <1>1, <1>2 DEF TypeOK
<1>4. NumbersAreFresh'
  BY <1>1, <1>2, <1>3 DEF NumbersAreFresh, Placed
<1>5. PathsKeepTheirName'
  BY <1>1, <1>2, <1>3 DEF PathsKeepTheirName, Placed
<1>6. StreamsAreHeld'
  <2> SUFFICES ASSUME NEW p \in Tokens, source'[p] # None
               PROVE  \E v \in Publishers :
                        token'[v] = source'[p] /\ path'[v] = p /\ pc'[v] \in {"live", "dropping"}
    BY DEF StreamsAreHeld
  <2>1. p # path[u]
    BY <1>3
  <2>2. PICK v \in Publishers :
          token[v] = source[p] /\ path[v] = p /\ pc[v] \in {"live", "dropping"}
    BY <1>1, <1>3, <2>1 DEF StreamsAreHeld
  <2> QED
    BY <1>2, <1>3, <2>1, <2>2
<1>7. NoNameIsLeftBehind'
  <2> SUFFICES ASSUME NEW n \in Names, paths'[n] # None, source'[paths'[n]] = None
               PROVE  \E v \in Publishers :
                        /\ name'[v] = n /\ path'[v] = paths'[n]
                        /\ pc'[v] \in {"placed", "holding", "removing"}
    BY DEF NoNameIsLeftBehind
  <2>1. paths[n] \in Tokens
    BY <1>1, <1>2 DEF TypeOK, Some
  <2>2. CASE paths[n] = path[u]
    <3>1. name[u] = n
      BY <1>1, <1>2, <2>2 DEF PathsKeepTheirName, Placed
    <3> QED
      BY <1>2, <1>3, <2>2, <3>1
  <2>3. CASE paths[n] # path[u]
    <3>1. PICK v \in Publishers :
            /\ name[v] = n /\ path[v] = paths[n]
            /\ pc[v] \in {"placed", "holding", "removing"}
      BY <1>1, <1>2, <1>3, <2>1, <2>3 DEF NoNameIsLeftBehind
    <3> QED
      BY <1>2, <1>3, <2>3, <3>1
  <2> QED
    BY <2>2, <2>3
<1> QED
  BY <1>1, <1>2, <1>4, <1>5, <1>6, <1>7 DEF PathsInv, ReadersFoundAPath

LEMMA RemoveEntryStep ==
  ASSUME RInv, NEW u \in Publishers, RemoveEntry(u)
  PROVE  PathsInv'
<1>1. /\ TypeOK /\ NumbersAreFresh /\ PathsKeepTheirName /\ ReadersFoundAPath
      /\ StreamsAreHeld /\ NoNameIsLeftBehind
  BY DEF RInv
<1>2. /\ pc[u] = "removing" /\ pc' = [pc EXCEPT ![u] = "idle"]
      /\ paths' = [paths EXCEPT ![name[u]] = None]
      /\ UNCHANGED <<published, source, name, path, token, seat, has>>
  BY DEF RemoveEntry, Goes, reader
<1>3. /\ \A v \in Publishers : v # u => pc'[v] = pc[v]
      /\ pc'[u] = "idle" /\ name[u] \in Names /\ paths'[name[u]] = None
      /\ \A n \in Names : n # name[u] => paths'[n] = paths[n]
  BY <1>1, <1>2 DEF TypeOK
<1>4. published \in Nat /\ \A v \in Publishers : pc[v] # "idle" => token[v] \in Nat
  BY <1>1, RegistryAssumption DEF TypeOK, NumbersAreFresh, Tokens
<1>5. NumbersAreFresh'
  <2>1. \A n \in Names : paths'[n] < published'
    BY <1>1, <1>2, <1>3, <1>4 DEF NumbersAreFresh, None
  <2>2. \A v \in Publishers : pc'[v] = "numbered" => \A n \in Names : paths'[n] # token'[v]
    BY <1>1, <1>2, <1>3, <1>4 DEF NumbersAreFresh, None
  <2>3. /\ \A v \in Publishers : pc'[v] # "idle" => token'[v] \in Tokens /\ token'[v] < published'
        /\ \A v \in Publishers : Placed(v)' => path'[v] \in Tokens /\ path'[v] < published'
        /\ \A v \in Publishers : pc'[v] = "numbered" =>
             /\ \A w \in Publishers : Placed(w)' => path'[w] # token'[v]
             /\ \A w \in Publishers : w # v /\ pc'[w] = "numbered" => token'[w] # token'[v]
    BY <1>1, <1>2, <1>3 DEF NumbersAreFresh, Placed
  <2> QED
    BY <2>1, <2>2, <2>3 DEF NumbersAreFresh
<1>6. PathsKeepTheirName'
  <2>1. \A v \in Publishers : Placed(v)' => Placed(v) /\ path[v] \in Tokens /\ path[v] # None
    BY <1>1, <1>3 DEF NumbersAreFresh, Placed, Tokens, None
  <2> QED
    BY <1>1, <1>2, <1>3, <2>1 DEF PathsKeepTheirName
<1>7. StreamsAreHeld'
  BY <1>1, <1>2, <1>3 DEF StreamsAreHeld
<1>8. NoNameIsLeftBehind'
  BY <1>1, <1>2, <1>3 DEF NoNameIsLeftBehind
<1> QED
  BY <1>1, <1>2, <1>5, <1>6, <1>7, <1>8 DEF PathsInv, ReadersFoundAPath

\* Steps that leave the map and the sources alone, and move
\* only one publisher from one side of its life to the other.
LEMMA MoveStep ==
  ASSUME RInv, NEW u \in Publishers, Stop(u) \/ Evicted(u) \/ StepAside(u) \/ Release(u)
  PROVE  PathsInv'
<1>1. /\ TypeOK /\ NumbersAreFresh /\ PathsKeepTheirName /\ ReadersFoundAPath
      /\ StreamsAreHeld /\ NoNameIsLeftBehind
  BY DEF RInv
<1>2. PICK place :
        /\ pc' = [pc EXCEPT ![u] = place]
        /\ \/ pc[u] = "live" /\ place = "dropping"
           \/ pc[u] = "dropping" /\ source[path[u]] # token[u] /\ place = "idle"
           \/ pc[u] = "holding" /\ place = "removing"
        /\ UNCHANGED <<published, paths, source, name, path, token, seat, has>>
  BY DEF Stop, Evicted, StepAside, Release, Goes, reader
<1>3. pc'[u] = place /\ \A v \in Publishers : v # u => pc'[v] = pc[v]
  BY <1>1, <1>2 DEF TypeOK
<1>4. NumbersAreFresh'
  BY <1>1, <1>2, <1>3 DEF NumbersAreFresh, Placed
<1>5. PathsKeepTheirName'
  BY <1>1, <1>2, <1>3 DEF PathsKeepTheirName, Placed
<1>6. StreamsAreHeld'
  BY <1>1, <1>2, <1>3 DEF StreamsAreHeld
<1>7. NoNameIsLeftBehind'
  BY <1>1, <1>2, <1>3 DEF NoNameIsLeftBehind
<1> QED
  BY <1>1, <1>2, <1>4, <1>5, <1>6, <1>7 DEF PathsInv, ReadersFoundAPath

\* What is pushed moves nobody.
LEMMA PushStep ==
  ASSUME RInv, NEW u \in Publishers, Push(u)
  PROVE  PathsInv'
<1>1. /\ TypeOK /\ NumbersAreFresh /\ PathsKeepTheirName /\ ReadersFoundAPath
      /\ StreamsAreHeld /\ NoNameIsLeftBehind
  BY DEF RInv
<1>2. UNCHANGED <<published, paths, source, pc, name, path, token, seat, has>>
  BY DEF Push, publisher, reader
<1>3. NumbersAreFresh' /\ PathsKeepTheirName' /\ ReadersFoundAPath'
  BY <1>1, <1>2 DEF NumbersAreFresh, PathsKeepTheirName, Placed, ReadersFoundAPath
<1>4. StreamsAreHeld' /\ NoNameIsLeftBehind'
  BY <1>1, <1>2 DEF StreamsAreHeld, NoNameIsLeftBehind
<1> QED
  BY <1>3, <1>4 DEF PathsInv

\* Readers and callers of names() change nothing about publishers and Paths.
LEMMA OnlookerStep ==
  ASSUME RInv,
         UNCHANGED <<published, paths, source, publisher>>,
         ReadersFoundAPath'
  PROVE  PathsInv'
<1>1. /\ TypeOK /\ NumbersAreFresh /\ PathsKeepTheirName
      /\ StreamsAreHeld /\ NoNameIsLeftBehind
  BY DEF RInv
<1>2. NumbersAreFresh' /\ PathsKeepTheirName'
  BY <1>1 DEF NumbersAreFresh, PathsKeepTheirName, Placed, publisher
<1>3. StreamsAreHeld' /\ NoNameIsLeftBehind'
  BY <1>1 DEF StreamsAreHeld, NoNameIsLeftBehind, publisher
<1> QED
  BY <1>2, <1>3 DEF PathsInv

LEMMA ReadStep ==
  ASSUME RInv, NEW r \in Readers, Read(r)
  PROVE  PathsInv'
<1>1. TypeOK /\ ReadersFoundAPath
  BY DEF RInv
<1>2. ReadersFoundAPath'
  <2>1. ASSUME NEW n \in Names, LookUp(r, n)  PROVE ReadersFoundAPath'
    <3>1. paths[n] \in Tokens
      BY <1>1, <2>1 DEF LookUp, TypeOK, Some
    <3> QED
      BY <1>1, <2>1, <3>1 DEF LookUp, Gets, ReadersFoundAPath, TypeOK
  <2>2. CASE Attach(r)
    BY <1>1, <2>2 DEF Attach, Gets, ReadersFoundAPath, TypeOK
  <2>3. CASE SeeEnd(r) \/ Leave(r)
    BY <1>1, <2>3 DEF SeeEnd, Leave, Gets, ReadersFoundAPath, TypeOK
  <2> QED
    BY <2>1, <2>2, <2>3 DEF Read
<1>3. UNCHANGED <<published, paths, source, publisher>>
  BY DEF Read, LookUp, Attach, SeeEnd, Leave
<1> QED
  BY <1>2, <1>3, OnlookerStep

LEMMA ListStep ==
  ASSUME RInv, NEW l \in Listers, List(l)
  PROVE  PathsInv'
<1>1. UNCHANGED <<published, paths, source, publisher, reader>>
  BY DEF List, BeginList, ListOne, EndList
<1>2. ReadersFoundAPath'
  BY <1>1 DEF RInv, ReadersFoundAPath, reader
<1> QED
  BY <1>1, <1>2, OnlookerStep

LEMMA RNext == RInv /\ [Next]_vars => RInv'
<1> SUFFICES ASSUME RInv, [Next]_vars  PROVE RInv'
  OBVIOUS
<1>1. CASE Next
  <2>1. TypeOK'
    BY <1>1, TypeStep DEF RInv
  <2>2. PathsInv'
    <3>1. ASSUME NEW u \in Publishers, Publish(u) \/ Push(u) \/ Stop(u) \/ Evicted(u) \/ Drop(u)
          PROVE  PathsInv'
      BY <3>1, TakeNumberStep, TakePlaceStep, TakeOverStep, PushStep, MoveStep, TakeDownStep,
         RemoveEntryStep DEF Publish, Drop
    <3> QED
      BY <1>1, <3>1, ReadStep, ListStep DEF Next
  <2> QED
    BY <2>1, <2>2 DEF RInv, PathsInv
<1>2. CASE UNCHANGED vars
  <2>1. TypeOK' /\ ReadersFoundAPath'
    BY <1>2 DEF RInv, TypeOK, ReadersFoundAPath, vars, publisher, reader, lister
  <2>2. PathsInv'
    BY <1>2, <2>1, OnlookerStep DEF vars
  <2> QED
    BY <2>1, <2>2 DEF RInv, PathsInv
<1> QED
  BY <1>1, <1>2

\* Every reachable state of the registry (path.rs) satisfies the inductive invariant:
\* whatever the interleaving of publishers that take over, end and are taken down.
THEOREM RegistryInvariant == Spec => []RInv
BY RInit, RNext, PTL DEF Spec

\* The model is type-correct.
THEOREM RegistryTypes == Spec => []TypeOK
<1>1. RInv => TypeOK
  BY DEF RInv
<1> QED
  BY <1>1, RegistryInvariant, PTL

\* Two publishers never hold one token; a token on its way to a Path names a
\* stream nobody has seen, a live one the stream that its publisher described;
\* and what a reader was told is what its stream's description still is.
StreamsAreTheirOwn ==
  /\ \A u, v \in Publishers :
       u # v /\ pc[u] # "idle" /\ pc[v] # "idle" => token[u] # token[v]
  /\ \A u \in Publishers : pc[u] \in {"numbered", "placed"} =>
       /\ carried[token[u]] = {}
       /\ \A r \in Readers : seat[r] = "reading" => has[r] # token[u]
  /\ \A u \in Publishers : pc[u] = "live" => described[token[u]] = u
  /\ \A t \in Tokens : carried[t] \subseteq {described[t]}
  /\ \A t \in Tokens : t >= published => carried[t] = {}
  /\ \A r \in Readers : seat[r] = "reading" =>
       /\ has[r] \in Tokens /\ has[r] < published
       /\ told[r] = described[has[r]]

LEMMA OwnAfterNumber ==
  ASSUME RInv, StreamsAreTheirOwn, NEW u \in Publishers, TakeNumber(u)
  PROVE  StreamsAreTheirOwn'
<1>1. TypeOK /\ NumbersAreFresh /\ published \in Tokens /\ published \in Nat
  BY RegistryAssumption DEF RInv, TypeOK, TakeNumber, Tokens
<1>2. /\ published' = published + 1 /\ token'[u] = published
      /\ pc[u] = "idle" /\ pc'[u] = "numbered"
      /\ UNCHANGED <<described, seat, has, told, carried>>
      /\ \A v \in Publishers : v # u => token'[v] = token[v] /\ pc'[v] = pc[v]
  BY <1>1 DEF TakeNumber, Goes, TypeOK, reader
<1>3. \A v \in Publishers :
        pc[v] # "idle" => v # u /\ token[v] \in Nat /\ token[v] < published
  BY <1>1, <1>2, RegistryAssumption DEF NumbersAreFresh, Tokens
<1>4. \A v, w \in Publishers :
        v # w /\ pc'[v] # "idle" /\ pc'[w] # "idle" => token'[v] # token'[w]
  BY <1>1, <1>2, <1>3 DEF StreamsAreTheirOwn
<1>5. ASSUME NEW v \in Publishers, pc'[v] \in {"numbered", "placed"}
      PROVE  /\ carried'[token'[v]] = {}
             /\ \A r \in Readers : seat'[r] = "reading" => has'[r] # token'[v]
  <2>1. CASE v = u
    BY <1>1, <1>2, <2>1, RegistryAssumption DEF StreamsAreTheirOwn, Tokens
  <2>2. CASE v # u
    BY <1>2, <1>5, <2>2 DEF StreamsAreTheirOwn
  <2> QED
    BY <2>1, <2>2
<1>6. \A t \in Tokens : t >= published' => carried'[t] = {}
  BY <1>1, <1>2, RegistryAssumption DEF StreamsAreTheirOwn, Tokens
<1>7. \A r \in Readers : seat'[r] = "reading" =>
        /\ has'[r] \in Tokens /\ has'[r] < published'
        /\ told'[r] = described'[has'[r]]
  BY <1>1, <1>2, RegistryAssumption DEF StreamsAreTheirOwn, Tokens
<1>8. \A v \in Publishers : pc'[v] = "live" => described'[token'[v]] = v
  BY <1>2 DEF StreamsAreTheirOwn
<1>9. \A t \in Tokens : carried'[t] \subseteq {described'[t]}
  BY <1>2 DEF StreamsAreTheirOwn
<1> QED
  BY <1>4, <1>5, <1>6, <1>7, <1>8, <1>9 DEF StreamsAreTheirOwn

\* The description is stated before anybody can have found the stream.
LEMMA OwnAfterTakeOver ==
  ASSUME RInv, StreamsAreTheirOwn, NEW u \in Publishers, TakeOver(u)
  PROVE  StreamsAreTheirOwn'
<1>1. TypeOK /\ token[u] \in Tokens
  BY DEF RInv, NumbersAreFresh, TakeOver
<1>2. /\ pc[u] = "placed" /\ pc'[u] = "live" /\ described'[token[u]] = u
      /\ UNCHANGED <<published, token, seat, has, told, carried>>
      /\ \A v \in Publishers : v # u => pc'[v] = pc[v]
      /\ \A t \in Tokens : t # token[u] => described'[t] = described[t]
  BY <1>1 DEF TakeOver, Goes, TypeOK, reader
<1>3. /\ carried[token[u]] = {}
      /\ \A r \in Readers : seat[r] = "reading" => has[r] # token[u]
      /\ \A v \in Publishers : v # u /\ pc[v] # "idle" => token[v] # token[u]
  BY <1>2 DEF StreamsAreTheirOwn
<1>4. \A v \in Publishers : pc'[v] = "live" => described'[token'[v]] = v
  <2> SUFFICES ASSUME NEW v \in Publishers, v # u, pc[v] = "live"
               PROVE  described'[token[v]] = v
    BY <1>2
  <2>1. token[v] \in Tokens /\ token[v] # token[u] /\ described[token[v]] = v
    BY <1>3 DEF RInv, NumbersAreFresh, StreamsAreTheirOwn
  <2> QED
    BY <1>2, <2>1
<1>5. \A t \in Tokens : carried'[t] \subseteq {described'[t]}
  BY <1>2, <1>3 DEF StreamsAreTheirOwn
<1>6. \A r \in Readers : seat'[r] = "reading" =>
        /\ has'[r] \in Tokens /\ has'[r] < published'
        /\ told'[r] = described'[has'[r]]
  BY <1>2, <1>3 DEF StreamsAreTheirOwn
<1>7. \A v, w \in Publishers :
        v # w /\ pc'[v] # "idle" /\ pc'[w] # "idle" => token'[v] # token'[w]
  BY <1>2 DEF StreamsAreTheirOwn
<1>8. \A v \in Publishers : pc'[v] \in {"numbered", "placed"} =>
        /\ carried'[token'[v]] = {}
        /\ \A r \in Readers : seat'[r] = "reading" => has'[r] # token'[v]
  BY <1>2 DEF StreamsAreTheirOwn
<1>9. \A t \in Tokens : t >= published' => carried'[t] = {}
  BY <1>2 DEF StreamsAreTheirOwn
<1> QED
  BY <1>4, <1>5, <1>6, <1>7, <1>8, <1>9 DEF StreamsAreTheirOwn

\* Who passes the guard of push() is the one that described the stream.
LEMMA OwnAfterPush ==
  ASSUME RInv, StreamsAreTheirOwn, NEW u \in Publishers, Push(u)
  PROVE  StreamsAreTheirOwn'
<1>1. TypeOK /\ token[u] \in Tokens /\ token[u] < published /\ token[u] \in Nat
  BY RegistryAssumption DEF RInv, NumbersAreFresh, Push, Tokens
<1>2. /\ pc[u] = "live"
      /\ carried'[token[u]] = carried[token[u]] \union {u}
      /\ UNCHANGED <<published, described, pc, token, seat, has, told>>
      /\ \A t \in Tokens : t # token[u] => carried'[t] = carried[t]
  BY <1>1 DEF Push, TypeOK, publisher, reader
<1>3. described[token[u]] = u
  BY <1>2 DEF StreamsAreTheirOwn
<1>4. \A t \in Tokens : carried'[t] \subseteq {described'[t]}
  <2> SUFFICES ASSUME NEW t \in Tokens  PROVE carried'[t] \subseteq {described[t]}
    BY <1>2
  <2>1. carried[t] \subseteq {described[t]}
    BY DEF StreamsAreTheirOwn
  <2>2. CASE t = token[u]
    BY <1>2, <1>3, <2>1, <2>2
  <2>3. CASE t # token[u]
    BY <1>2, <2>1, <2>3
  <2> QED
    BY <2>2, <2>3
<1>5. \A t \in Tokens : t >= published' => carried'[t] = {}
  <2> SUFFICES ASSUME NEW t \in Tokens, t >= published  PROVE carried'[t] = {}
    BY <1>2
  <2>1. t # token[u]
    BY <1>1, RegistryAssumption DEF RInv, TypeOK, Tokens
  <2> QED
    BY <1>2, <2>1 DEF StreamsAreTheirOwn
<1>6. \A v \in Publishers : pc'[v] \in {"numbered", "placed"} =>
        /\ carried'[token'[v]] = {}
        /\ \A r \in Readers : seat'[r] = "reading" => has'[r] # token'[v]
  <2> SUFFICES ASSUME NEW v \in Publishers, pc[v] \in {"numbered", "placed"}
               PROVE  /\ carried'[token[v]] = {}
                      /\ \A r \in Readers : seat[r] = "reading" => has[r] # token[v]
    BY <1>2
  <2>1. v # u /\ token[v] # token[u] /\ token[v] \in Tokens
    BY <1>2 DEF StreamsAreTheirOwn, RInv, NumbersAreFresh
  <2> QED
    BY <1>2, <2>1 DEF StreamsAreTheirOwn
<1> QED
  BY <1>2, <1>4, <1>5, <1>6 DEF StreamsAreTheirOwn

\* A reader takes a stream up with its description, under the Path's Mutex.
LEMMA OwnAfterRead ==
  ASSUME RInv, StreamsAreTheirOwn, NEW q \in Readers, Read(q)
  PROVE  StreamsAreTheirOwn'
<1>1. TypeOK /\ UNCHANGED <<published, described, pc, token, carried>>
  BY DEF RInv, Read, LookUp, Attach, SeeEnd, Leave, publisher
<1>2. \A r \in Readers : r # q =>
        seat'[r] = seat[r] /\ has'[r] = has[r] /\ told'[r] = told[r]
  BY <1>1 DEF Read, LookUp, Attach, SeeEnd, Leave, Gets, TypeOK
<1>3. ASSUME seat'[q] = "reading"
      PROVE  /\ has'[q] \in Tokens /\ has'[q] < published
             /\ told'[q] = described[has'[q]]
             /\ \A u \in Publishers : pc[u] \in {"numbered", "placed"} => has'[q] # token[u]
  <2>1. Attach(q)
    BY <1>1, <1>3 DEF Read, LookUp, Attach, SeeEnd, Leave, Gets, TypeOK
  <2>2. /\ has[q] \in Tokens /\ source[has[q]] # None
        /\ has'[q] = source[has[q]] /\ told'[q] = described[has'[q]]
    BY <1>1, <1>3, <2>1 DEF Attach, Gets, TypeOK, RInv, ReadersFoundAPath
  <2>3. PICK v \in Publishers : token[v] = has'[q] /\ pc[v] \in {"live", "dropping"}
    BY <2>2 DEF RInv, StreamsAreHeld
  <2>4. token[v] \in Tokens /\ token[v] < published
    BY <2>3 DEF RInv, NumbersAreFresh
  <2>5. \A u \in Publishers : pc[u] \in {"numbered", "placed"} => token[u] # token[v]
    BY <2>3 DEF StreamsAreTheirOwn
  <2> QED
    BY <2>2, <2>3, <2>4, <2>5
<1>4. \A u \in Publishers : pc'[u] \in {"numbered", "placed"} =>
        /\ carried'[token'[u]] = {}
        /\ \A r \in Readers : seat'[r] = "reading" => has'[r] # token'[u]
  BY <1>1, <1>2, <1>3 DEF StreamsAreTheirOwn
<1>5. \A r \in Readers : seat'[r] = "reading" =>
        /\ has'[r] \in Tokens /\ has'[r] < published'
        /\ told'[r] = described'[has'[r]]
  BY <1>1, <1>2, <1>3 DEF StreamsAreTheirOwn
<1> QED
  BY <1>1, <1>4, <1>5 DEF StreamsAreTheirOwn

\* The other steps of a publisher only take it further through its life.
LEMMA OwnAfterMove ==
  ASSUME RInv, StreamsAreTheirOwn, NEW u \in Publishers,
         TakePlace(u) \/ Stop(u) \/ Evicted(u) \/ Drop(u)
  PROVE  StreamsAreTheirOwn'
<1>1. TypeOK /\ UNCHANGED <<published, described, token, seat, has, told, carried>>
  BY DEF RInv, TakePlace, Stop, Evicted, Drop, TakeDown, StepAside, Release, RemoveEntry, reader
<1>2. /\ pc[u] # "idle" /\ pc'[u] # "live" /\ pc'[u] # "numbered"
      /\ pc'[u] = "placed" => pc[u] = "numbered"
      /\ \A v \in Publishers : v # u => pc'[v] = pc[v]
  BY <1>1 DEF TakePlace, Stop, Evicted, Drop, TakeDown, StepAside, Release, RemoveEntry, Goes,
              TypeOK
<1>3. \A v \in Publishers :
        /\ pc'[v] # "idle" => pc[v] # "idle"
        /\ pc'[v] \in {"numbered", "placed"} => pc[v] \in {"numbered", "placed"}
        /\ pc'[v] = "live" => pc[v] = "live"
  BY <1>2
<1> QED
  BY <1>1, <1>3 DEF StreamsAreTheirOwn

LEMMA OwnNext == RInv /\ StreamsAreTheirOwn /\ [Next]_vars => StreamsAreTheirOwn'
<1> SUFFICES ASSUME RInv, StreamsAreTheirOwn, [Next]_vars  PROVE StreamsAreTheirOwn'
  OBVIOUS
<1>1. ASSUME NEW l \in Listers, List(l)  PROVE StreamsAreTheirOwn'
  <2>1. UNCHANGED <<published, described, pc, token, seat, has, told, carried>>
    BY <1>1 DEF List, BeginList, ListOne, EndList, publisher, reader
  <2> QED
    BY <2>1 DEF StreamsAreTheirOwn
<1>2. CASE UNCHANGED vars
  BY <1>2 DEF StreamsAreTheirOwn, vars, publisher, reader
<1>3. ASSUME NEW u \in Publishers, Publish(u) \/ Push(u) \/ Stop(u) \/ Evicted(u) \/ Drop(u)
      PROVE  StreamsAreTheirOwn'
  BY <1>3, OwnAfterNumber, OwnAfterTakeOver, OwnAfterPush, OwnAfterMove DEF Publish
<1> QED
  BY <1>1, <1>2, <1>3, OwnAfterRead DEF Next

\* Whatever takeovers, drops and pushes overlap, a reader gets units only of
\* the publisher whose description it was given.
THEOREM StreamsStayApart == Spec => []NoStreamIsMixed
<1>1. Init => StreamsAreTheirOwn
  BY DEF Init, StreamsAreTheirOwn
<1>2. Spec => []StreamsAreTheirOwn
  BY <1>1, OwnNext, RegistryInvariant, PTL DEF Spec
<1>3. StreamsAreTheirOwn => NoStreamIsMixed
  BY DEF StreamsAreTheirOwn, NoStreamIsMixed
<1> QED
  BY <1>2, <1>3, PTL

\* Whatever drops and takeovers overlap, no entry outlives its stream.
THEOREM NamesAreGivenUp == Spec => []NoNameIsLeftBehind
<1>1. RInv => NoNameIsLeftBehind
  BY DEF RInv
<1> QED
  BY <1>1, RegistryInvariant, PTL

\* A stream is ended by its own publisher's drop or by a takeover.
THEOREM EndsForAReason == Spec => EndsOnlyForAReason
<1>1. ASSUME RInv, Next
      PROVE  \A t \in dropped' \ dropped :
               \E u, v \in Publishers :
                 /\ token[u] = t
                 /\ \/ u = v /\ pc[v] = "dropping"
                    \/ pc[v] = "placed" /\ pc'[v] = "live" /\ name[v] = name[u]
  <2> SUFFICES ASSUME NEW t \in dropped' \ dropped
               PROVE  \E u, v \in Publishers :
                        /\ token[u] = t
                        /\ \/ u = v /\ pc[v] = "dropping"
                           \/ pc[v] = "placed" /\ pc'[v] = "live" /\ name[v] = name[u]
    OBVIOUS
  <2>1. TypeOK /\ NumbersAreFresh /\ PathsKeepTheirName /\ StreamsAreHeld
    BY <1>1 DEF RInv
  <2>2. \E v \in Publishers : TakeOver(v) \/ TakeDown(v)
    BY <1>1 DEF Next, Publish, TakeNumber, TakePlace, Push, Stop, Evicted, Drop, StepAside,
                Release, RemoveEntry, Read, LookUp, Attach, SeeEnd, Leave, List, BeginList,
                ListOne, EndList
  <2>3. PICK v \in Publishers : TakeOver(v) \/ TakeDown(v)
    BY <2>2
  <2>4. CASE TakeDown(v)
    <3>1. token[v] = t /\ pc[v] = "dropping"
      BY <2>4 DEF TakeDown
    <3> QED
      BY <3>1
  <2>5. CASE TakeOver(v)
    <3>1. /\ pc[v] = "placed" /\ pc'[v] = "live"
          /\ t = source[path[v]] /\ t # None /\ path[v] \in Tokens
      BY <2>1, <2>5 DEF TakeOver, Goes, TypeOK, NumbersAreFresh, Placed
    <3>2. PICK u \in Publishers : token[u] = t /\ path[u] = path[v] /\ pc[u] \in {"live", "dropping"}
      BY <2>1, <3>1 DEF StreamsAreHeld
    <3>3. name[v] = name[u]
      BY <2>1, <3>1, <3>2 DEF PathsKeepTheirName, Placed
    <3> QED
      BY <3>1, <3>2, <3>3
  <2> QED
    BY <2>3, <2>4, <2>5
<1>2. RInv /\ [Next]_vars =>
      [\A t \in dropped' \ dropped :
         \E u, v \in Publishers :
           /\ token[u] = t
           /\ \/ u = v /\ pc[v] = "dropping"
              \/ pc[v] = "placed" /\ pc'[v] = "live" /\ name[v] = name[u]]_vars
  BY <1>1
<1> QED
  BY <1>2, RegistryInvariant, PTL DEF Spec, EndsOnlyForAReason
=============================================================================
