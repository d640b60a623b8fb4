--------------------------- MODULE DeviceAuthProofs ---------------------------
(***************************************************************************)
(* Proofs about DeviceAuth, for any users, installations, number of         *)
(* requests in flight and device limit.                                     *)
(***************************************************************************)
EXTENDS DeviceAuth, FiniteSetTheorems, TLAPS

Rows ==
  {x \in [dev : Device \cup {NoDevice}, live : BOOLEAN, cur : Token \cup {Null},
          prev : Token \cup {Null, Empty}, banned : BOOLEAN, stale : BOOLEAN, seen : 0..MaxToken] :
     x.live => x.dev \in Device}

Requests ==
  {x \in [at : {"idle", "count", "evict", "delete", "evicted", "create", "find", "accused",
                "update", "respond", "revoke", "guardBan", "guardUnban"},
          dev : Device \cup {NoDevice}, user : SUBSET User, id : Id \cup {NoId},
          ids : SUBSET Id, token : Token \cup {Null, Empty}] :
     /\ x.at \in {"count", "evict", "delete", "evicted", "create", "find", "update", "respond"} => x.dev \in Device
     /\ x.at \in {"update", "respond"} => x.id \in Id
     /\ x.at \in {"find", "update"} => x.token # Null
     /\ x.at = "respond" => x.token \in Token}

\* TypeOK, with the shape of a row and of a request each in one set.
Types ==
  /\ row \in [Id -> Rows] /\ users \subseteq User /\ banned \subseteq Id
  /\ revoked \in [Id -> {"no", "covers", "older"}] /\ access \subseteq Id /\ last \in 0..MaxToken
  /\ held \in [Device -> Token \cup {Null}] /\ cleanup \subseteq Id
  /\ changes \in 0..MaxChanges /\ unbans \in 0..changes /\ missed \in Nat
  /\ r \in [Request -> Requests]
  /\ spoiled \subseteq User /\ unguarded \subseteq Id /\ disputed \subseteq Id /\ foreign \subseteq Id

LEMMA TypesIsTypeOK == Types <=> TypeOK
<1>1. ASSUME TypeOK PROVE Types
  <2>1. row \in [Id -> Rows]
    BY <1>1 DEF TypeOK, Rows
  <2>2. r \in [Request -> Requests]
    BY <1>1 DEF TypeOK, Requests
  <2> QED
    BY <1>1, <2>1, <2>2 DEF TypeOK, Types
<1>2. ASSUME Types PROVE TypeOK
  <2>1. row \in [Id -> [dev : Device \cup {NoDevice}, live : BOOLEAN, cur : Token \cup {Null},
                     prev : Token \cup {Null, Empty}, banned : BOOLEAN, stale : BOOLEAN,
                     seen : 0..MaxToken]]
        /\ \A id \in Id : row[id].live => row[id].dev \in Device
    BY <1>2 DEF Types, Rows
  <2>2. \A q \in Request : r[q] \in Requests
    BY <1>2 DEF Types
  <2> QED
    BY <1>2, <2>1, <2>2 DEF Types, TypeOK, Requests
<1> QED
  BY <1>1, <1>2

\* Deleting rows, and what an idle request or an absent row is.
LEMMA Shapes ==
  ASSUME Types
  PROVE  /\ Absent \in Rows /\ Idle \in Requests
         /\ \A ids : Without(ids) \in [Id -> Rows]
         /\ \A q \in Request, x \in Requests : [r EXCEPT ![q] = x] \in [Request -> Requests]
         /\ \A id \in Id, x \in Rows : [row EXCEPT ![id] = x] \in [Id -> Rows]
<1>1. Absent \in Rows
  BY DeviceAuthAssumption DEF Absent, Deleted, Rows, Null
<1>2. Idle \in Requests
  BY DEF Idle, Requests, Null, NoId
<1>3. ASSUME NEW ids PROVE Without(ids) \in [Id -> Rows]
  <2>1. \A id \in Id : row[id] \in Rows
    BY DEF Types
  <2>2. \A d \in Device \cup {NoDevice} : Deleted(d) \in Rows
    BY DeviceAuthAssumption DEF Deleted, Rows, Null
  <2>3. \A id \in Id : row[id].dev \in Device \cup {NoDevice}
    BY <2>1 DEF Rows
  <2> QED
    BY <2>1, <2>2, <2>3 DEF Without
<1> QED
  BY <1>1, <1>2, <1>3 DEF Types

\* An action that changes no row, or deletes some, keeps the rows; one that ends
\* a request, or sets it to a well-formed one, keeps the requests.
LEMMA TypePreserved ==
  ASSUME Types, [Next]_vars
  PROVE  Types'
<1>0. /\ row \in [Id -> Rows] /\ users \subseteq User /\ banned \subseteq Id
      /\ revoked \in [Id -> {"no", "covers", "older"}] /\ access \subseteq Id /\ last \in 0..MaxToken
      /\ held \in [Device -> Token \cup {Null}] /\ cleanup \subseteq Id
      /\ changes \in 0..MaxChanges /\ unbans \in 0..changes /\ missed \in Nat
      /\ r \in [Request -> Requests]
      /\ spoiled \subseteq User /\ unguarded \subseteq Id /\ disputed \subseteq Id /\ foreign \subseteq Id
  BY DEF Types
<1>u. /\ row' = row => row' \in [Id -> Rows]
      /\ users' = users => users' \subseteq User
      /\ banned' = banned => banned' \subseteq Id
      /\ revoked' = revoked => revoked' \in [Id -> {"no", "covers", "older"}]
      /\ access' = access => access' \subseteq Id
      /\ last' = last => last' \in 0..MaxToken
      /\ held' = held => held' \in [Device -> Token \cup {Null}]
      /\ cleanup' = cleanup => cleanup' \subseteq Id
      /\ changes' = changes => changes' \in 0..MaxChanges
      /\ (changes' = changes /\ unbans' = unbans) => unbans' \in 0..changes'
      /\ (unbans' = unbans /\ unbans \in 0..changes') => unbans' \in 0..changes'
      /\ r' = r => r' \in [Request -> Requests]
      /\ spoiled' = spoiled => spoiled' \subseteq User
      /\ unguarded' = unguarded => unguarded' \subseteq Id
      /\ disputed' = disputed => disputed' \subseteq Id
      /\ missed' = missed => missed' \in Nat
      /\ foreign' = foreign => foreign' \subseteq Id
  BY <1>0
<1>a. /\ Absent \in Rows /\ Idle \in Requests
      /\ \A ids : Without(ids) \in [Id -> Rows]
      /\ \A q \in Request, x \in Requests : [r EXCEPT ![q] = x] \in [Request -> Requests]
      /\ \A id \in Id, x \in Rows : [row EXCEPT ![id] = x] \in [Id -> Rows]
  BY Shapes
<1>b. /\ \A u : RowsOf(u) \subseteq Id /\ Live \subseteq Id
      /\ \A d : SessionOf(d) \subseteq Id /\ Spoiling(d) \subseteq spoiled \cup {Owner[d]}
      /\ \A id : id \in Live => row[id].dev \in Device /\ row[id].live
  <2>1. \A id : id \in Live => row[id] \in Rows
    BY <1>0 DEF Live
  <2> QED
    BY <2>1 DEF RowsOf, Live, SessionOf, Spoiling, Rows
<1>c. \A d \in Device : Owner[d] \in User
  BY DeviceAuthAssumption
<1>d. \A ids : Covering(ids) \in [Id -> {"no", "covers", "older"}]
  BY <1>0 DEF Covering
<1>e. \A q \in Request : r[q] \in Requests
  BY <1>0
<1>f. /\ Change => changes' \in 0..MaxChanges /\ unbans \in 0..changes' /\ (unbans + 1) \in 0..changes'
      /\ last < MaxToken => (last + 1) \in Token /\ (last + 1) \in 0..MaxToken
  BY <1>0, DeviceAuthAssumption DEF Change, Token
<1>1. ASSUME NEW q \in Request, NEW d \in Device, LoginFind(q, d) PROVE Types'
  <2>1. [Idle EXCEPT !.at = "count", !.dev = d] \in Requests
    BY DEF Idle, Requests, NoId, Null
  <2>2. ASSUME NEW id \in Id
        PROVE  [Idle EXCEPT !.at = "update", !.dev = d, !.id = id, !.token = Empty] \in Requests
    <3>1. \A x \in Token \cup {Null, Empty} :
            x # Null => [Idle EXCEPT !.at = "update", !.dev = d, !.id = id, !.token = x] \in Requests
      BY DEF Idle, Requests, NoId
    <3>2. Empty # Null
      BY DEF Empty, Null
    <3> QED
      BY <3>1, <3>2
  <2>3. r' \in [Request -> Requests]
    <3>1. CASE r' = [r EXCEPT ![q] = [Idle EXCEPT !.at = "count", !.dev = d]]
      BY <3>1, <1>a, <2>1
    <3>2. ASSUME NEW id \in Id,
                 r' = [r EXCEPT ![q] = [Idle EXCEPT !.at = "update", !.dev = d, !.id = id, !.token = Empty]]
          PROVE  r' \in [Request -> Requests]
      BY <3>2, <1>a, <2>2
    <3> QED
      BY <1>1, <1>b, <3>1, <3>2 DEF LoginFind
  <2>4. spoiled' \subseteq User
    BY <1>1, <1>0, <1>b, <1>c DEF LoginFind
  <2>5. /\ row' = row /\ users' = users /\ banned' = banned /\ revoked' = revoked
        /\ access' = access /\ last' = last /\ held' = held /\ cleanup' = cleanup
        /\ changes' = changes /\ unbans' = unbans /\ missed' = missed /\ unguarded' = unguarded
        /\ disputed' = disputed /\ foreign' = foreign
    BY <1>1 DEF LoginFind, guardVars, counters, historyVars
  <2> QED
    BY <1>u, <2>3, <2>4, <2>5 DEF Types
<1>2. ASSUME NEW q \in Request, LoginCount(q) PROVE Types'
  <2>1. \A point \in {"evict", "create"} : [r[q] EXCEPT !.at = point] \in Requests
    BY <1>2, <1>e DEF LoginCount, IsAt, Requests
  <2>2. r' \in [Request -> Requests]
    BY <1>0, <1>2, <2>1 DEF LoginCount
  <2>3. /\ row' = row /\ users' = users /\ banned' = banned /\ revoked' = revoked
        /\ access' = access /\ last' = last /\ held' = held /\ cleanup' = cleanup
        /\ changes' = changes /\ unbans' = unbans /\ missed' = missed /\ spoiled' = spoiled /\ unguarded' = unguarded
        /\ disputed' = disputed /\ foreign' = foreign
    BY <1>2 DEF LoginCount, guardVars, counters, historyVars
  <2> QED
    BY <1>u, <2>2, <2>3 DEF Types
<1>3. ASSUME NEW q \in Request, LoginChoose(q) PROVE Types'
  <2>1. [r[q] EXCEPT !.at = "create"] \in Requests
    BY <1>3, <1>e DEF LoginChoose, IsAt, Requests
  <2>2. \A id \in Id : [r[q] EXCEPT !.at = "delete", !.ids = {id}] \in Requests
    BY <1>3, <1>e DEF LoginChoose, IsAt, Requests
  <2>3. LeastRecent(Owner[r[q].dev]) \subseteq Id
    BY <1>b DEF LeastRecent, Active
  <2>4. r' \in [Request -> Requests]
    <3>1. CASE r' = [r EXCEPT ![q].at = "create"]
      BY <1>0, <3>1, <2>1
    <3>2. ASSUME NEW id \in Id, r' = [r EXCEPT ![q].at = "delete", ![q].ids = {id}]
          PROVE  r' \in [Request -> Requests]
      BY <1>0, <3>2, <2>2
    <3> QED
      BY <1>3, <2>3, <3>1, <3>2 DEF LoginChoose
  <2>5. /\ row' = row /\ users' = users /\ banned' = banned /\ revoked' = revoked
        /\ access' = access /\ last' = last /\ held' = held /\ cleanup' = cleanup
        /\ changes' = changes /\ unbans' = unbans /\ missed' = missed /\ spoiled' = spoiled
        /\ unguarded' = unguarded /\ disputed' = disputed /\ foreign' = foreign
    BY <1>3 DEF LoginChoose, guardVars, counters, historyVars
  <2> QED
    BY <1>u, <2>4, <2>5 DEF Types
<1>25. ASSUME NEW q \in Request, LoginEvict(q) PROVE Types'
  <2> DEFINE gone == r[q].ids \cap Live
             point == IF gone = {} THEN "create" ELSE "evicted"
  <2>1. gone \in SUBSET Id /\ point \in {"create", "evicted"}
    BY <1>b
  <2>2. \A ids \in SUBSET Id, at \in {"create", "evicted"} : [r[q] EXCEPT !.at = at, !.ids = ids] \in Requests
    BY <1>25, <1>e DEF LoginEvict, IsAt, Requests
  <2>3. r' = [r EXCEPT ![q] = [r[q] EXCEPT !.at = point, !.ids = gone]]
    BY <1>25 DEF LoginEvict
  <2>a. [r[q] EXCEPT !.at = point, !.ids = gone] \in Requests
    <3> HIDE DEF gone, point
    <3> QED
      BY <2>1, <2>2
  <2>b. r' \in [Request -> Requests]
    <3> DEFINE x == [r[q] EXCEPT !.at = point, !.ids = gone]
    <3>1. x \in Requests /\ r' = [r EXCEPT ![q] = x]
      BY <2>a, <2>3
    <3> HIDE DEF x
    <3> QED
      BY <1>a, <3>1
  <2>c. row' = Without(r[q].ids)
    BY <1>25 DEF LoginEvict
  <2>4. r' \in [Request -> Requests] /\ row' \in [Id -> Rows]
    BY <1>a, <2>b, <2>c
  <2>5. /\ users' = users /\ banned' = banned /\ revoked' = revoked /\ access' = access
        /\ last' = last /\ held' = held /\ cleanup' = cleanup /\ changes' = changes
        /\ unbans' = unbans /\ spoiled' = spoiled /\ unguarded' = unguarded
        /\ disputed' = disputed /\ foreign' = foreign
    BY <1>25 DEF LoginEvict, guardVars, historyVars
  <2>6. missed' \in Nat
    BY <1>0, <1>25 DEF LoginEvict, Missing
  <2> QED
    BY <1>u, <2>4, <2>5, <2>6 DEF Types
<1>4. ASSUME NEW q \in Request, RevokeEvicted(q) PROVE Types'
  <2>1. [r[q] EXCEPT !.at = "create", !.ids = {}] \in Requests
    BY <1>4, <1>e DEF RevokeEvicted, IsAt, Requests
  <2>2. r' \in [Request -> Requests]
    BY <1>0, <1>4, <2>1 DEF RevokeEvicted
  <2>3. revoked' \in [Id -> {"no", "covers", "older"}]
    BY <1>4, <1>d DEF RevokeEvicted
  <2>4. /\ row' = row /\ users' = users /\ banned' = banned /\ access' = access /\ last' = last
        /\ held' = held /\ cleanup' = cleanup /\ changes' = changes /\ unbans' = unbans /\ missed' = missed
        /\ spoiled' = spoiled /\ unguarded' = unguarded /\ disputed' = disputed /\ foreign' = foreign
    BY <1>4 DEF RevokeEvicted, guardVars, counters, historyVars
  <2> QED
    BY <1>u, <2>2, <2>3, <2>4 DEF Types
<1>5. ASSUME NEW q \in Request, LoginCreate(q) PROVE Types'
  <2>1. r[q].dev \in Device
    BY <1>5, <1>e DEF LoginCreate, IsAt, Requests
  <2>u. /\ users' = users /\ banned' = banned /\ revoked' = revoked /\ access' = access
        /\ held' = held /\ cleanup' = cleanup /\ changes' = changes /\ unbans' = unbans /\ missed' = missed
        /\ spoiled' = spoiled /\ unguarded' = unguarded /\ disputed' = disputed /\ foreign' = foreign
    BY <1>5 DEF LoginCreate, guardVars, counters, historyVars
  <2>2. CASE UNCHANGED <<row, last>> /\ Finish(q)
    <3>1. r' \in [Request -> Requests]
      BY <1>a, <2>2 DEF Finish
    <3> QED
      BY <1>u, <2>u, <2>2, <3>1 DEF Types
  <2>3. ASSUME NEW id \in Id, last' = last + 1,
               row' = [row EXCEPT ![id] = [Absent EXCEPT !.dev = r[q].dev, !.live = TRUE,
                                                         !.cur = last + 1, !.seen = last + 1]],
               r' = [r EXCEPT ![q].at = "respond", ![q].id = id, ![q].token = last + 1]
        PROVE  Types'
    <3>1. (last + 1) \in Token /\ (last + 1) \in 0..MaxToken
      BY <1>5, <1>f DEF LoginCreate
    <3>2. [Absent EXCEPT !.dev = r[q].dev, !.live = TRUE, !.cur = last + 1, !.seen = last + 1] \in Rows
      BY <2>1, <3>1 DEF Absent, Deleted, Rows, Null
    <3>3. [r[q] EXCEPT !.at = "respond", !.id = id, !.token = last + 1] \in Requests
      BY <1>e, <2>1, <3>1 DEF Requests
    <3>4. r' \in [Request -> Requests] /\ row' \in [Id -> Rows]
      BY <1>0, <1>a, <2>3, <3>2, <3>3
    <3> QED
      BY <1>u, <2>u, <2>3, <3>1, <3>4 DEF Types
  <2> QED
    BY <1>5, <2>2, <2>3 DEF LoginCreate
<1>6. ASSUME NEW q \in Request, NEW d \in Device, RefreshReplay(q, d) PROVE Types'
  <2> DEFINE replayed == {UserOf(id) : id \in {i \in Live : row[i].prev = held[d]}}
  <2>1. replayed \subseteq User
    BY <1>b, <1>c DEF UserOf
  <2>2. \A point \in {"find", "accused"} :
          [Idle EXCEPT !.at = point, !.dev = d, !.user = replayed, !.token = held[d]] \in Requests
    BY <1>0, <1>6, <2>1 DEF RefreshReplay, Idle, Requests, NoId, Null, Token
  <2>3. r' \in [Request -> Requests] /\ spoiled' \subseteq User
    BY <1>6, <1>0, <1>a, <1>b, <1>c, <2>2 DEF RefreshReplay
  <2>4. /\ row' = row /\ users' = users /\ banned' = banned /\ revoked' = revoked
        /\ access' = access /\ last' = last /\ held' = held /\ cleanup' = cleanup
        /\ changes' = changes /\ unbans' = unbans /\ missed' = missed /\ unguarded' = unguarded
        /\ disputed' = disputed /\ foreign' = foreign
    BY <1>6 DEF RefreshReplay, guardVars, counters, historyVars
  <2> QED
    BY <1>u, <2>3, <2>4 DEF Types
<1>7. ASSUME NEW q \in Request, RefreshFind(q) PROVE Types'
  <2>1. \A id \in Id : [r[q] EXCEPT !.at = "update", !.id = id] \in Requests
    BY <1>7, <1>e DEF RefreshFind, IsAt, Requests
  <2>2. ASSUME NEW id \in Live PROVE [r[q] EXCEPT !.at = "accused", !.user = {UserOf(id)}] \in Requests
    <3>1. {UserOf(id)} \in SUBSET User
      BY <1>b, <1>c DEF UserOf
    <3> QED
      BY <1>e, <3>1 DEF Requests
  <2>3. r' \in [Request -> Requests]
    <3>1. CASE Finish(q)
      BY <1>a, <3>1 DEF Finish
    <3>2. ASSUME NEW id \in Live, r' = [r EXCEPT ![q].at = "accused", ![q].user = {UserOf(id)}]
          PROVE  r' \in [Request -> Requests]
      BY <1>0, <3>2, <2>2
    <3>3. ASSUME NEW id \in Id, r' = [r EXCEPT ![q].at = "update", ![q].id = id]
          PROVE  r' \in [Request -> Requests]
      BY <1>0, <3>3, <2>1
    <3> QED
      BY <1>7, <1>b, <3>1, <3>2, <3>3 DEF RefreshFind
  <2>4. /\ row' = row /\ users' = users /\ banned' = banned /\ revoked' = revoked
        /\ access' = access /\ last' = last /\ held' = held /\ cleanup' = cleanup
        /\ changes' = changes /\ unbans' = unbans /\ missed' = missed /\ spoiled' = spoiled /\ unguarded' = unguarded
        /\ disputed' = disputed /\ foreign' = foreign
    BY <1>7 DEF RefreshFind, guardVars, counters, historyVars
  <2> QED
    BY <1>u, <2>3, <2>4 DEF Types
<1>8. ASSUME NEW q \in Request, DeleteAll(q) PROVE Types'
  <2>1. \A ids \in SUBSET Id : [Idle EXCEPT !.at = "revoke", !.dev = r[q].dev, !.ids = ids] \in Requests
    BY <1>e DEF Idle, Requests, NoId, Null
  <2>2. UNION {RowsOf(u) : u \in r[q].user} \in SUBSET Id
    BY <1>b
  <2>3. r' \in [Request -> Requests] /\ row' \in [Id -> Rows]
    BY <1>8, <1>a, <2>1, <2>2 DEF DeleteAll
  <2>4. /\ users' = users /\ banned' = banned /\ revoked' = revoked /\ access' = access
        /\ last' = last /\ held' = held /\ cleanup' = cleanup /\ changes' = changes
        /\ unbans' = unbans /\ missed' = missed /\ spoiled' = spoiled /\ unguarded' = unguarded
        /\ disputed' = disputed /\ foreign' = foreign
    BY <1>8 DEF DeleteAll, guardVars, counters, historyVars
  <2> QED
    BY <1>u, <2>3, <2>4 DEF Types
<1>9. ASSUME NEW q \in Request, UpdateSession(q) PROVE Types'
  <2>u. /\ users' = users /\ banned' = banned /\ revoked' = revoked /\ access' = access
        /\ held' = held /\ cleanup' = cleanup /\ changes' = changes /\ unbans' = unbans /\ missed' = missed
        /\ spoiled' = spoiled /\ unguarded' = unguarded /\ disputed' = disputed /\ foreign' = foreign
    BY <1>9 DEF UpdateSession, guardVars, counters, historyVars
  <2>1. r[q].dev \in Device /\ r[q].id \in Id /\ r[q].token \in Token \cup {Empty}
    BY <1>9, <1>e DEF UpdateSession, IsAt, Requests
  <2>2. (last + 1) \in Token /\ (last + 1) \in 0..MaxToken
    BY <1>9, <1>f DEF UpdateSession
  <2>3. [r[q] EXCEPT !.at = "respond", !.token = last + 1] \in Requests
    BY <1>e, <2>1, <2>2 DEF Requests
  <2>4. [row[r[q].id] EXCEPT !.cur = last + 1, !.prev = r[q].token, !.seen = last + 1, !.stale = FALSE] \in Rows
    <3>1. row[r[q].id] \in Rows
      BY <1>0, <2>1
    <3> QED
      BY <2>1, <2>2, <3>1 DEF Rows
  <2>5. CASE Finish(q) /\ UNCHANGED <<row, last>>
    <3>1. r' \in [Request -> Requests]
      BY <1>a, <2>5 DEF Finish
    <3> QED
      BY <1>u, <2>u, <2>5, <3>1 DEF Types
  <2>6. ASSUME last' = last + 1,
               r' = [r EXCEPT ![q].at = "respond", ![q].token = last + 1],
               \/ row' = row
               \/ row' = [row EXCEPT ![r[q].id].cur = last + 1, ![r[q].id].prev = r[q].token,
                                     ![r[q].id].seen = last + 1, ![r[q].id].stale = FALSE]
        PROVE  Types'
    <3>1. r' \in [Request -> Requests]
      BY <1>0, <2>3, <2>6
    <3>2. row' \in [Id -> Rows]
      <4>1. CASE row' = row
        BY <1>0, <4>1
      <4>2. CASE row' = [row EXCEPT ![r[q].id] = [row[r[q].id] EXCEPT !.cur = last + 1, !.prev = r[q].token,
                                                                   !.seen = last + 1, !.stale = FALSE]]
        BY <1>a, <2>1, <2>4, <4>2
      <4> QED
        BY <2>6, <4>1, <4>2
    <3> QED
      BY <1>u, <2>u, <2>2, <2>6, <3>1, <3>2 DEF Types
  <2> QED
    BY <1>9, <2>5, <2>6 DEF UpdateSession
<1>10. ASSUME NEW q \in Request, Respond(q) PROVE Types'
  <2>1. r[q].dev \in Device /\ r[q].id \in Id /\ r[q].token \in Token
    BY <1>10, <1>e DEF Respond, IsAt, Requests
  <2>2. r' \in [Request -> Requests]
    BY <1>10, <1>a DEF Respond, Finish
  <2>3. revoked' \in [Id -> {"no", "covers", "older"}]
    BY <1>0, <1>10, <2>1 DEF Respond
  <2>4. held' \in [Device -> Token \cup {Null}] /\ spoiled' \subseteq User
    BY <1>0, <1>10, <1>c, <2>1 DEF Respond
  <2>5. changes' \in 0..MaxChanges /\ unbans \in 0..changes'
    BY <1>0, <1>10, <1>f DEF Respond
  <2>6. access' \subseteq Id /\ unguarded' \subseteq Id
    BY <1>0, <1>10, <2>1 DEF Respond
  <2>7. /\ row' = row /\ users' = users /\ banned' = banned /\ last' = last /\ cleanup' = cleanup
        /\ unbans' = unbans /\ missed' = missed /\ disputed' = disputed /\ foreign' = foreign
    BY <1>10 DEF Respond, guardVars, counters, historyVars
  <2> QED
    BY <1>u, <2>2, <2>3, <2>4, <2>5, <2>6, <2>7 DEF Types
<1>11. ASSUME NEW q \in Request, NEW id \in Id, Logout(q, id) \/ Delete(q, id) PROVE Types'
  <2>1. \A d \in Device \cup {NoDevice} : [Idle EXCEPT !.at = "revoke", !.dev = d, !.ids = {id}] \in Requests
    BY DEF Idle, Requests, NoId, Null
  <2>2. row[id].dev \in Device \cup {NoDevice}
    BY <1>0 DEF Rows
  <2>3. PICK d \in Device \cup {NoDevice} : Deleting(q, {id}, d)
    BY <1>11, <2>2 DEF Logout, Delete
  <2>4. spoiled' \subseteq User
    BY <1>0, <1>11, <1>b, <1>c, <2>2 DEF Logout, Delete, historyVars
  <2>5. r' \in [Request -> Requests] /\ row' \in [Id -> Rows]
    BY <1>a, <2>1, <2>3 DEF Deleting
  <2>6. /\ users' = users /\ banned' = banned /\ revoked' = revoked /\ access' = access
        /\ last' = last /\ held' = held /\ cleanup' = cleanup /\ unbans' = unbans /\ missed' = missed
        /\ unguarded' = unguarded /\ disputed' = disputed /\ foreign' = foreign
    BY <1>11 DEF Logout, Delete, historyVars, guardVars, counters
  <2>7. changes' \in 0..MaxChanges /\ unbans \in 0..changes'
    BY <1>11, <1>f DEF Logout, Delete
  <2> QED
    BY <1>u, <2>4, <2>5, <2>6, <2>7 DEF Types
<1>12. ASSUME NEW q \in Request, NEW u \in User, RevokeAll(q, u) PROVE Types'
  <2>1. [Idle EXCEPT !.at = "revoke", !.dev = NoDevice, !.ids = RowsOf(u)] \in Requests
    BY <1>b DEF Idle, Requests, NoId, Null
  <2>2. r' \in [Request -> Requests] /\ row' \in [Id -> Rows]
    BY <1>12, <1>a, <2>1 DEF RevokeAll, Deleting
  <2>3. /\ users' = users /\ banned' = banned /\ revoked' = revoked /\ access' = access
        /\ last' = last /\ held' = held /\ cleanup' = cleanup /\ unbans' = unbans /\ missed' = missed
        /\ spoiled' = spoiled /\ unguarded' = unguarded /\ disputed' = disputed /\ foreign' = foreign
    BY <1>12 DEF RevokeAll, guardVars, counters, historyVars
  <2>4. changes' \in 0..MaxChanges /\ unbans \in 0..changes'
    BY <1>12, <1>f DEF RevokeAll
  <2> QED
    BY <1>u, <2>2, <2>3, <2>4 DEF Types
<1>13. ASSUME NEW q \in Request, Revoke(q) PROVE Types'
  <2>1. r' \in [Request -> Requests]
    BY <1>13, <1>a DEF Revoke, Finish
  <2>2. held' \in [Device -> Token \cup {Null}]
    BY <1>0, <1>13 DEF Revoke
  <2>3. revoked' \in [Id -> {"no", "covers", "older"}]
    BY <1>13, <1>d DEF Revoke
  <2>4. /\ row' = row /\ users' = users /\ banned' = banned /\ access' = access /\ last' = last
        /\ cleanup' = cleanup /\ changes' = changes /\ unbans' = unbans /\ missed' = missed /\ spoiled' = spoiled
        /\ unguarded' = unguarded /\ disputed' = disputed /\ foreign' = foreign
    BY <1>13 DEF Revoke, guardVars, counters, historyVars
  <2> QED
    BY <1>u, <2>1, <2>2, <2>3, <2>4 DEF Types
<1>14. ASSUME NEW q \in Request, NEW id \in Id, Ban(q, id) PROVE Types'
  <2>1. [Idle EXCEPT !.at = "guardBan", !.ids = {id}] \in Requests
    BY DEF Idle, Requests, NoId, Null
  <2>2. [row[id] EXCEPT !.banned = TRUE, !.cur = Null, !.prev = Null] \in Rows
    <3>1. row[id] \in Rows
      BY <1>0
    <3> QED
      BY <3>1 DEF Rows, Null
  <2>3. r' \in [Request -> Requests]
    BY <1>14, <1>a, <2>1 DEF Ban
  <2>4. row' \in [Id -> Rows]
    <3>1. row' = row \/ row' = [row EXCEPT ![id].banned = TRUE, ![id].cur = Null, ![id].prev = Null]
      BY <1>14 DEF Ban
    <3> QED
      BY <1>0, <1>a, <2>2, <3>1
  <2>5. disputed' \subseteq Id /\ foreign' \subseteq Id
    BY <1>0, <1>14 DEF Ban, Disputing, Meddling
  <2>6. changes' \in 0..MaxChanges /\ unbans \in 0..changes'
    BY <1>14, <1>f DEF Ban
  <2>7. /\ users' = users /\ banned' = banned /\ revoked' = revoked /\ access' = access
        /\ last' = last /\ held' = held /\ cleanup' = cleanup /\ spoiled' = spoiled
        /\ unguarded' = unguarded /\ unbans' = unbans /\ missed' = missed
    BY <1>14 DEF Ban, guardVars, counters, historyVars
  <2> QED
    BY <1>u, <2>3, <2>4, <2>5, <2>6, <2>7 DEF Types
<1>15. ASSUME NEW q \in Request, NEW id \in Id, Unban(q, id) PROVE Types'
  <2>1. [Idle EXCEPT !.at = "guardUnban", !.ids = {id}] \in Requests
    BY DEF Idle, Requests, NoId, Null
  <2>2. [row[id] EXCEPT !.banned = FALSE] \in Rows
    <3>1. row[id] \in Rows
      BY <1>0
    <3> QED
      BY <3>1 DEF Rows, Null
  <2>3. r' \in [Request -> Requests] /\ row' \in [Id -> Rows]
    <3>1. row' = row \/ row' = [row EXCEPT ![id] = [row[id] EXCEPT !.banned = FALSE]]
      BY <1>15 DEF Unban
    <3>2. r' \in [Request -> Requests]
      BY <1>15, <1>a, <2>1 DEF Unban
    <3> QED
      BY <1>0, <1>a, <2>2, <3>1, <3>2
  <2>4. disputed' \subseteq Id /\ foreign' \subseteq Id
    BY <1>0, <1>15 DEF Unban, Disputing, Meddling
  <2>5. changes' \in 0..MaxChanges /\ unbans' \in 0..changes'
    BY <1>15, <1>f DEF Unban
  <2>6. /\ users' = users /\ banned' = banned /\ revoked' = revoked /\ access' = access
        /\ last' = last /\ held' = held /\ cleanup' = cleanup /\ spoiled' = spoiled
        /\ unguarded' = unguarded /\ missed' = missed
    BY <1>15 DEF Unban, guardVars, counters, historyVars
  <2> QED
    BY <1>u, <2>3, <2>4, <2>5, <2>6 DEF Types
<1>16. ASSUME NEW q \in Request, GuardBan(q) \/ GuardUnban(q) PROVE Types'
  <2>1. r' \in [Request -> Requests]
    BY <1>16, <1>a DEF GuardBan, GuardUnban, Finish
  <2>3. r[q].ids \subseteq Id
    BY <1>e DEF Requests
  <2>4. banned' \subseteq Id /\ unguarded' \subseteq Id
    BY <1>0, <1>16, <2>3 DEF GuardBan, GuardUnban, historyVars
  <2>5. /\ row' = row /\ users' = users /\ access' = access /\ last' = last /\ held' = held
        /\ cleanup' = cleanup /\ changes' = changes /\ unbans' = unbans /\ missed' = missed /\ spoiled' = spoiled
        /\ disputed' = disputed /\ foreign' = foreign
    BY <1>16 DEF GuardBan, GuardUnban, historyVars, guardVars, counters
  <2>2. revoked' \in [Id -> {"no", "covers", "older"}]
    BY <1>0, <1>16 DEF GuardBan, GuardUnban
  <2> QED
    BY <1>u, <2>1, <2>2, <2>4, <2>5 DEF Types
<1>17. ASSUME NEW u \in User, ChangeCredentials(u) \/ DeleteUser(u) PROVE Types'
  <2>1. row' = Without(RowsOf(u))
    BY <1>17 DEF ChangeCredentials, DeleteUser
  <2>2. users' \subseteq User /\ unguarded' \subseteq Id
    BY <1>0, <1>b, <1>17 DEF ChangeCredentials, DeleteUser
  <2>3. changes' \in 0..MaxChanges /\ unbans \in 0..changes'
    BY <1>f, <1>17 DEF ChangeCredentials, DeleteUser
  <2>4. row' \in [Id -> Rows]
    BY <1>a, <2>1
  <2>5. /\ banned' = banned /\ revoked' = revoked /\ access' = access /\ last' = last
        /\ held' = held /\ r' = r /\ cleanup' = cleanup /\ unbans' = unbans /\ missed' = missed
        /\ spoiled' = spoiled /\ disputed' = disputed /\ foreign' = foreign
    BY <1>17 DEF ChangeCredentials, DeleteUser, guardVars
  <2> QED
    BY <1>u, <2>2, <2>3, <2>4, <2>5 DEF Types
<1>18. ASSUME CleanupList \/ CleanupDelete PROVE Types'
  <2>1. row' \in [Id -> Rows]
    BY <1>0, <1>18, <1>a DEF CleanupList, CleanupDelete
  <2>2. cleanup' \subseteq Id
    BY <1>18, <1>b DEF CleanupList, CleanupDelete
  <2>3. unguarded' \subseteq Id
    BY <1>0, <1>18 DEF CleanupList, CleanupDelete, historyVars
  <2>4. /\ users' = users /\ banned' = banned /\ revoked' = revoked /\ access' = access
        /\ last' = last /\ held' = held /\ r' = r /\ changes' = changes /\ unbans' = unbans /\ missed' = missed
        /\ spoiled' = spoiled /\ disputed' = disputed /\ foreign' = foreign
    BY <1>18 DEF CleanupList, CleanupDelete, historyVars, guardVars, counters
  <2> QED
    BY <1>u, <2>1, <2>2, <2>3, <2>4 DEF Types
<1>19. ASSUME NEW id \in Id, Expire(id) PROVE Types'
  <2>1. access' \subseteq Id /\ unguarded' \subseteq Id
    BY <1>0, <1>19 DEF Expire
  <2>2. revoked' \in [Id -> {"no", "covers", "older"}]
    BY <1>0, <1>19 DEF Expire
  <2>3. /\ row' = row /\ users' = users /\ banned' = banned /\ last' = last /\ held' = held
        /\ r' = r /\ cleanup' = cleanup /\ changes' = changes /\ unbans' = unbans /\ missed' = missed
        /\ spoiled' = spoiled /\ disputed' = disputed /\ foreign' = foreign
    BY <1>19 DEF Expire, guardVars, counters, historyVars
  <2> QED
    BY <1>u, <2>1, <2>2, <2>3 DEF Types
<1>20. ASSUME NEW id \in Id, GoStale(id) PROVE Types'
  <2>1. [row[id] EXCEPT !.stale = TRUE] \in Rows
    <3>1. row[id] \in Rows
      BY <1>0
    <3> QED
      BY <3>1 DEF Rows, Null
  <2>2. row' \in [Id -> Rows]
    BY <1>20, <1>a, <2>1 DEF GoStale
  <2>3. /\ users' = users /\ banned' = banned /\ revoked' = revoked /\ access' = access
        /\ last' = last /\ held' = held /\ r' = r /\ cleanup' = cleanup /\ unbans' = unbans /\ missed' = missed
        /\ spoiled' = spoiled /\ unguarded' = unguarded /\ disputed' = disputed /\ foreign' = foreign
    BY <1>20 DEF GoStale, guardVars, counters, historyVars
  <2>4. changes' \in 0..MaxChanges /\ unbans \in 0..changes'
    BY <1>20, <1>f DEF GoStale
  <2> QED
    BY <1>u, <2>2, <2>3, <2>4 DEF Types
<1>21. ASSUME NEW d \in Device, NEW e \in Device, CopyProfile(d, e) PROVE Types'
  <2>1. held' \in [Device -> Token \cup {Null}]
    BY <1>0, <1>21 DEF CopyProfile
  <2>2. spoiled' \subseteq User
    BY <1>0, <1>21, <1>c DEF CopyProfile
  <2>3. /\ row' = row /\ users' = users /\ banned' = banned /\ revoked' = revoked
        /\ access' = access /\ last' = last /\ r' = r /\ cleanup' = cleanup /\ unbans' = unbans /\ missed' = missed
        /\ unguarded' = unguarded /\ disputed' = disputed /\ foreign' = foreign
    BY <1>21 DEF CopyProfile, guardVars, counters, historyVars
  <2>4. changes' \in 0..MaxChanges /\ unbans \in 0..changes'
    BY <1>21, <1>f DEF CopyProfile
  <2> QED
    BY <1>u, <2>1, <2>2, <2>3, <2>4 DEF Types
<1>22. ASSUME Restart PROVE Types'
  <2>1. {Owner[r[q].dev] : q \in {p \in Request : IsAt(p, "respond")}} \subseteq User
    BY <1>c, <1>e DEF IsAt, Requests
  <2>2. r' \in [Request -> Requests] /\ revoked' \in [Id -> {"no", "covers", "older"}]
    BY <1>22, <1>a DEF Restart
  <2>3. banned' \subseteq Id /\ cleanup' \subseteq Id /\ unguarded' \subseteq Id /\ disputed' \subseteq Id
        /\ foreign' \subseteq Id
    BY <1>0, <1>22, <1>b DEF Restart
  <2>4. spoiled' \subseteq User
    BY <1>0, <1>22, <2>1 DEF Restart
  <2>5. /\ row' = row /\ users' = users /\ access' = access /\ last' = last /\ held' = held
        /\ unbans' = unbans /\ missed' = missed
    BY <1>22 DEF Restart, guardVars, counters, historyVars
  <2>6. changes' \in 0..MaxChanges /\ unbans \in 0..changes'
    BY <1>22, <1>f DEF Restart
  <2> QED
    BY <1>u, <2>2, <2>3, <2>4, <2>5, <2>6 DEF Types
<1>23. ASSUME NEW q \in Request, RefreshUserGone(q) PROVE Types'
  <2>1. r' \in [Request -> Requests]
    BY <1>23, <1>a DEF RefreshUserGone, Finish
  <2>2. /\ row' = row /\ users' = users /\ banned' = banned /\ revoked' = revoked
        /\ access' = access /\ last' = last /\ held' = held /\ cleanup' = cleanup
        /\ changes' = changes /\ unbans' = unbans /\ missed' = missed /\ spoiled' = spoiled /\ unguarded' = unguarded
        /\ disputed' = disputed /\ foreign' = foreign
    BY <1>23 DEF RefreshUserGone, guardVars, counters, historyVars
  <2> QED
    BY <1>u, <2>1, <2>2 DEF Types
<1>24. ASSUME UNCHANGED vars PROVE Types'
  BY <1>24, <1>0 DEF vars, Types, guardVars, counters, historyVars
<1> QED
  BY <1>1, <1>2, <1>3, <1>4, <1>5, <1>6, <1>7, <1>8, <1>9, <1>10, <1>11, <1>12, <1>13, <1>14, <1>15,
     <1>16, <1>17, <1>18, <1>19, <1>20, <1>21, <1>22, <1>23, <1>24, <1>25 DEF Next, Step, Login, Manage

LEMMA InitTypes == Init => Types
<1>1. \A x : x = Absent => x \in Rows
  BY DeviceAuthAssumption DEF Absent, Deleted, Rows, Null
<1>2. Idle \in Requests
  BY DEF Idle, Requests, Null, NoId
<1> QED
  BY <1>1, <1>2, DeviceAuthAssumption DEF Init, Types

\* Type correctness, whatever is in flight, banned, deleted or restarted.
THEOREM TypeCorrect == Spec => []TypeOK
<1>1. Init => Types
  BY InitTypes
<1>2. Types /\ [Next]_vars => Types'
  BY TypePreserved
<1> QED
  BY <1>1, <1>2, TypesIsTypeOK, PTL DEF Spec

-----------------------------------------------------------------------------
(* The number of devices *)

\* Cardinalities of subsets of the rows and of the requests.
LEMMA Counts ==
  /\ Cardinality(Request) \in Nat /\ Cardinality({}) = 0
  /\ \A S, T : (S \subseteq Id \/ S \subseteq Request) /\ T \subseteq S
       => IsFiniteSet(S) /\ Cardinality(S) \in Nat /\ Cardinality(T) \in Nat /\ Cardinality(T) <= Cardinality(S)
  /\ \A S, x : (S \subseteq Id \/ S \subseteq Request)
       => /\ Cardinality(S \cup {x}) \in Nat /\ Cardinality(S \cup {x}) <= Cardinality(S) + 1
          /\ x \in S => Cardinality(S \ {x}) = Cardinality(S) - 1
<1>1. IsFiniteSet(Id) /\ IsFiniteSet(Request)
  BY FS_Interval, DeviceAuthAssumption DEF Id
<1>2. ASSUME NEW S, S \subseteq Id \/ S \subseteq Request PROVE IsFiniteSet(S)
  BY <1>1, <1>2, FS_Subset
<1>3. ASSUME NEW S, NEW T, S \subseteq Id \/ S \subseteq Request, T \subseteq S
      PROVE  IsFiniteSet(S) /\ Cardinality(S) \in Nat /\ Cardinality(T) \in Nat /\ Cardinality(T) <= Cardinality(S)
  BY <1>2, <1>3, FS_Subset, FS_CardinalityType
<1>4. ASSUME NEW S, NEW x, S \subseteq Id \/ S \subseteq Request
      PROVE  /\ Cardinality(S \cup {x}) \in Nat /\ Cardinality(S \cup {x}) <= Cardinality(S) + 1
             /\ x \in S => Cardinality(S \ {x}) = Cardinality(S) - 1
  <2>1. IsFiniteSet(S) /\ Cardinality(S) \in Nat
    BY <1>2, <1>4, FS_CardinalityType
  <2>2. Cardinality(S \cup {x}) = IF x \in S THEN Cardinality(S) ELSE Cardinality(S) + 1
    BY <2>1, FS_AddElement
  <2>3. Cardinality(S \ {x}) = IF x \in S THEN Cardinality(S) - 1 ELSE Cardinality(S)
    BY <2>1, FS_RemoveElement
  <2> QED
    BY <2>1, <2>2, <2>3
<1>5. Cardinality(Request) \in Nat /\ Cardinality({}) = 0
  BY <1>1, FS_CardinalityType, FS_EmptySet
<1> QED
  BY <1>3, <1>4, <1>5

LEMMA OneMore ==
  ASSUME NEW S, NEW x, NEW T, T \subseteq S \cup {x},
         S \cup {x} \subseteq Id \/ S \cup {x} \subseteq Request
  PROVE  Cardinality(T) \in Nat /\ Cardinality(T) <= Cardinality(S) + 1
<1>1. Cardinality(T) \in Nat /\ Cardinality(T) <= Cardinality(S \cup {x}) /\ Cardinality(S \cup {x}) \in Nat
  BY Counts
<1>2. Cardinality(S \cup {x}) <= Cardinality(S) + 1 /\ Cardinality(S) \in Nat
  BY Counts
<1> QED
  BY <1>1, <1>2

BoundOf(u) ==
  Cardinality(Active(u)) + Cardinality(Creating(u)) <= MaxDevices - 1 + Cardinality(Request) + unbans + missed

LEMMA Subsets ==
  ASSUME Types, Types'
  PROVE  /\ \A u : Active(u) \subseteq Id /\ Active(u)' \subseteq Id
         /\ \A u : Creating(u) \subseteq Request /\ Creating(u)' \subseteq Request
         /\ unbans \in Nat /\ unbans' \in Nat /\ missed \in Nat /\ missed' \in Nat /\ MaxDevices \in Nat \ {0}
  BY DeviceAuthAssumption DEF Types, Active, RowsOf, Live, Creating

\* What most steps do for the user u: no row becomes active, no login begins to create.
NoMore(u) ==
  /\ Active(u)' \subseteq Active(u) /\ Creating(u)' \subseteq Creating(u)
  /\ unbans <= unbans' /\ missed <= missed'

LEMMA NoMoreKeepsBound ==
  ASSUME Types, Types', NEW u, BoundOf(u), NoMore(u)
  PROVE  BoundOf(u)'
<1>1. /\ Cardinality(Active(u)') <= Cardinality(Active(u))
      /\ Cardinality(Creating(u)') <= Cardinality(Creating(u))
      /\ Cardinality(Active(u)') \in Nat /\ Cardinality(Active(u)) \in Nat
      /\ Cardinality(Creating(u)') \in Nat /\ Cardinality(Creating(u)) \in Nat
  BY Counts, Subsets DEF NoMore
<1> QED
  BY <1>1, Counts, Subsets DEF NoMore, BoundOf

\* The four steps that add a device or begin to.
LEMMA LoginCountKeepsBound ==
  ASSUME Types, Types', NEW u \in User, BoundOf(u), NEW q \in Request, LoginCount(q)
  PROVE  BoundOf(u)'
<1>1. r[q].dev \in Device /\ r \in [Request -> Requests]
  BY DEF LoginCount, IsAt, Types, Requests
<1>2. Active(u)' = Active(u) /\ unbans' = unbans /\ missed' = missed
  BY DEF LoginCount, Active, RowsOf, Live, UserOf, counters
<1>3. CASE Owner[r[q].dev] # u \/ Cardinality(Active(u)) >= MaxDevices
  <2>1. Creating(u)' \subseteq Creating(u)
    BY <1>1, <1>3 DEF LoginCount, Creating, IsAt
  <2> QED
    BY <1>2, <2>1, NoMoreKeepsBound, Subsets DEF NoMore
<1>4. CASE ~(Cardinality(Active(u)) >= MaxDevices)
  <2>1. Cardinality(Creating(u)') <= Cardinality(Request) /\ Cardinality(Creating(u)') \in Nat
    BY Counts, Subsets
  <2>2. Cardinality(Active(u)) <= MaxDevices - 1 /\ Cardinality(Active(u)) \in Nat
    BY <1>4, Counts, Subsets
  <2> QED
    BY <1>2, <2>1, <2>2, Counts, Subsets DEF BoundOf
<1> QED
  BY <1>3, <1>4

\* Nothing is left to evict: no device is active, and at most all requests create one.
LEMMA LoginChooseKeepsBound ==
  ASSUME Types, Types', NEW u \in User, BoundOf(u), NEW q \in Request, LoginChoose(q)
  PROVE  BoundOf(u)'
<1> DEFINE owner == Owner[r[q].dev]
<1>0. r \in [Request -> Requests] /\ unbans' = unbans /\ missed' = missed /\ IsAt(q, "evict")
  BY DEF Types, LoginChoose, counters
<1>1. Active(u)' = Active(u)
  BY DEF LoginChoose, Active, RowsOf, Live, UserOf
<1>2. r[q] \in Requests
  BY <1>0
<1>3. CASE Active(owner) = {} /\ r' = [r EXCEPT ![q].at = "create"]
  <2>1. CASE owner = u
    <3>1. Cardinality(Creating(u)') <= Cardinality(Request) /\ Cardinality(Creating(u)') \in Nat
      BY Counts, Subsets
    <3>2. Cardinality(Active(u)') = 0
      BY <1>1, <1>3, <2>1, Counts
    <3> QED
      BY <1>0, <3>1, <3>2, Counts, Subsets DEF BoundOf
  <2>2. CASE owner # u
    <3>1. Creating(u)' \subseteq Creating(u)
      BY <1>0, <1>2, <1>3, <2>2 DEF Creating, Requests
    <3> QED
      BY <1>0, <1>1, <3>1, NoMoreKeepsBound, Subsets DEF NoMore
  <2> QED
    BY <2>1, <2>2
<1>4. ASSUME NEW id, r' = [r EXCEPT ![q].at = "delete", ![q].ids = {id}]
      PROVE  BoundOf(u)'
  <2>1. Creating(u)' \subseteq Creating(u)
    BY <1>0, <1>2, <1>4 DEF Creating, Requests
  <2> QED
    BY <1>0, <1>1, <2>1, NoMoreKeepsBound, Subsets DEF NoMore
<1> QED
  BY <1>3, <1>4 DEF LoginChoose

\* The login takes one active device away, or counts as missed.
LEMMA LoginEvictKeepsBound ==
  ASSUME Types, Types', NEW u \in User, BoundOf(u), NEW q \in Request, LoginEvict(q)
  PROVE  BoundOf(u)'
<1> DEFINE owner == Owner[r[q].dev]
<1>0. r \in [Request -> Requests] /\ row \in [Id -> Rows] /\ unbans' = unbans /\ row' = Without(r[q].ids)
  BY DEF Types, LoginEvict
<1>1. Creating(u)' \subseteq Creating(u) \cup {q} /\ (owner # u => Creating(u)' \subseteq Creating(u))
  <2>1. r[q] \in Requests
    BY <1>0
  <2>2. \E at, ids : r' = [r EXCEPT ![q] = [r[q] EXCEPT !.at = at, !.ids = ids]]
    BY DEF LoginEvict
  <2>3. r'[q].dev = r[q].dev /\ \A other \in Request \ {q} : r'[other] = r[other]
    BY <1>0, <2>1, <2>2 DEF Requests
  <2> QED
    BY <2>3 DEF Creating
<1>2. Active(u)' \subseteq Active(u) \ r[q].ids
  BY <1>0 DEF Active, RowsOf, Live, UserOf, Without, Deleted
<1>3. missed' = missed \/ missed' = missed + 1
  BY DEF LoginEvict, Missing
<1>4. CASE owner # u
  <2>1. missed <= missed'
    BY <1>3, Subsets
  <2> QED
    BY <1>0, <1>1, <1>2, <1>4, <2>1, NoMoreKeepsBound, Subsets DEF NoMore
<1>5. CASE owner = u
  <2>1. Cardinality(Creating(u)') <= Cardinality(Creating(u)) + 1 /\ Cardinality(Creating(u)') \in Nat
    <3>1. Creating(u) \cup {q} \subseteq Request
      BY Subsets
    <3> QED
      BY <1>1, <3>1, OneMore
  <2>2. Cardinality(Active(u)) \in Nat /\ Cardinality(Creating(u)) \in Nat
    BY Counts, Subsets
  <2>3. CASE r[q].ids \cap Active(owner) # {}
    <3>1. PICK id \in r[q].ids : id \in Active(owner)
      BY <2>3
    <3>2. id \in Active(u)
      BY <1>5, <3>1
    <3>3. Cardinality(Active(u) \ {id}) = Cardinality(Active(u)) - 1
      BY <3>2, Counts, Subsets
    <3>4. Cardinality(Active(u)') <= Cardinality(Active(u)) - 1 /\ Cardinality(Active(u)') \in Nat
      <4>1. Active(u) \ {id} \subseteq Id /\ Active(u)' \subseteq Active(u) \ {id}
        BY <1>2, <3>1, Subsets
      <4> QED
        BY <3>3, <4>1, Counts
    <3>5. missed <= missed'
      BY <1>3, Subsets
    <3> QED
      BY <1>0, <2>1, <2>2, <3>4, <3>5, Counts, Subsets DEF BoundOf
  <2>4. CASE r[q].ids \cap Active(owner) = {}
    <3>1. missed' = missed + 1
      BY <2>4 DEF LoginEvict, Missing
    <3>2. Cardinality(Active(u)') <= Cardinality(Active(u)) /\ Cardinality(Active(u)') \in Nat
      <4>1. Active(u)' \subseteq Active(u)
        BY <1>2
      <4> QED
        BY <4>1, Counts, Subsets
    <3> QED
      BY <1>0, <2>1, <2>2, <3>1, <3>2, Counts, Subsets DEF BoundOf
  <2> QED
    BY <2>3, <2>4
<1> QED
  BY <1>4, <1>5

LEMMA LoginCreateKeepsBound ==
  ASSUME Types, Types', NEW u \in User, BoundOf(u), NEW q \in Request, LoginCreate(q)
  PROVE  BoundOf(u)'
<1> DEFINE owner == Owner[r[q].dev]
<1>0. r \in [Request -> Requests] /\ row \in [Id -> Rows]
      /\ unbans' = unbans /\ missed' = missed /\ IsAt(q, "create")
  BY DEF Types, LoginCreate, counters
<1>1. CASE UNCHANGED <<row, last>> /\ Finish(q)
  <2>1. Active(u)' = Active(u)
    BY <1>1 DEF Active, RowsOf, Live, UserOf
  <2>2. Creating(u)' \subseteq Creating(u)
    BY <1>0, <1>1 DEF Finish, Creating, Idle
  <2> QED
    BY <1>0, <2>1, <2>2, NoMoreKeepsBound, Subsets DEF NoMore
<1>2. ASSUME NEW id \in Id,
             row' = [row EXCEPT ![id] = [Absent EXCEPT !.dev = r[q].dev, !.live = TRUE,
                                                       !.cur = last + 1, !.seen = last + 1]],
             r' = [r EXCEPT ![q].at = "respond", ![q].id = id, ![q].token = last + 1]
      PROVE  BoundOf(u)'
  <2>1. Creating(u)' \subseteq Creating(u) \ {q}
    BY <1>0, <1>2 DEF Creating
  <2>2. Active(u)' \subseteq Active(u) \cup {id} /\ (owner # u => Active(u)' \subseteq Active(u))
    BY <1>0, <1>2 DEF Active, RowsOf, Live, UserOf, Absent, Deleted
  <2>3. CASE owner = u
    <3>1. q \in Creating(u) /\ Cardinality(Creating(u) \ {q}) = Cardinality(Creating(u)) - 1
      BY <1>0, <2>3, Counts, Subsets DEF Creating, IsAt
    <3>2. Cardinality(Creating(u)') <= Cardinality(Creating(u)) - 1 /\ Cardinality(Creating(u)') \in Nat
      <4>1. Creating(u) \ {q} \subseteq Request
        BY Subsets
      <4> QED
        BY <2>1, <3>1, <4>1, Counts
    <3>3. Cardinality(Active(u)') <= Cardinality(Active(u)) + 1 /\ Cardinality(Active(u)') \in Nat
      <4>1. Active(u) \cup {id} \subseteq Id
        BY Subsets
      <4> QED
        BY <2>2, <4>1, OneMore
    <3>4. Cardinality(Active(u)) \in Nat /\ Cardinality(Creating(u)) \in Nat
      BY Counts, Subsets
    <3> QED
      BY <1>0, <3>2, <3>3, <3>4, Counts, Subsets DEF BoundOf
  <2>4. CASE owner # u
    BY <1>0, <2>1, <2>2, <2>4, NoMoreKeepsBound, Subsets DEF NoMore
  <2> QED
    BY <2>3, <2>4
<1> QED
  BY <1>1, <1>2 DEF LoginCreate

LEMMA UnbanKeepsBound ==
  ASSUME Types, Types', NEW u \in User, BoundOf(u), NEW q \in Request, NEW id \in Id, Unban(q, id)
  PROVE  BoundOf(u)'
<1>0. r \in [Request -> Requests] /\ row \in [Id -> Rows] /\ missed' = missed
  BY DEF Types, Unban
<1>1. Creating(u)' \subseteq Creating(u)
  BY <1>0 DEF Unban, Creating, Idle
<1>2. ASSUME row' = [row EXCEPT ![id].banned = FALSE]
      PROVE  Active(u)' \subseteq Active(u) \cup {id} /\ (row[id].banned \/ Active(u)' \subseteq Active(u))
  BY <1>0, <1>2 DEF Active, RowsOf, Live, UserOf
<1>3. CASE row' = [row EXCEPT ![id].banned = FALSE] /\ row[id].banned /\ unbans' = unbans + 1
  <2>1. Cardinality(Active(u)') <= Cardinality(Active(u)) + 1 /\ Cardinality(Active(u)') \in Nat
    <3>1. Active(u) \cup {id} \subseteq Id
      BY Subsets
    <3> QED
      BY <1>2, <1>3, <3>1, OneMore
  <2>2. Cardinality(Creating(u)') <= Cardinality(Creating(u)) /\ Cardinality(Creating(u)') \in Nat
    BY <1>1, Counts, Subsets
  <2>3. Cardinality(Active(u)) \in Nat /\ Cardinality(Creating(u)) \in Nat
    BY Counts, Subsets
  <2> QED
    BY <1>0, <1>3, <2>1, <2>2, <2>3, Counts, Subsets DEF BoundOf
<1>4. CASE row' = [row EXCEPT ![id].banned = FALSE] /\ ~row[id].banned /\ unbans' = unbans
  <2>1. Active(u)' \subseteq Active(u)
    BY <1>2, <1>4
  <2> QED
    BY <1>0, <1>1, <1>4, <2>1, NoMoreKeepsBound, Subsets DEF NoMore
<1>5. CASE UNCHANGED <<row, unbans>>
  <2>1. Active(u)' \subseteq Active(u)
    BY <1>5 DEF Active, RowsOf, Live, UserOf
  <2> QED
    BY <1>0, <1>1, <1>5, <2>1, NoMoreKeepsBound, Subsets DEF NoMore
<1> QED
  BY <1>3, <1>4, <1>5 DEF Unban

\* Rows that stay, go or are banned, and requests that are not about to create,
\* add nothing to the count.
RowsStayOrGo ==
  \/ UNCHANGED row
  \/ \E ids : row' = Without(ids)
  \/ \A id \in Id : row'[id].live = row[id].live /\ row'[id].dev = row[id].dev /\ (row[id].banned => row'[id].banned)

NoneBeginsToCreate ==
  \/ UNCHANGED r
  \/ r' = [q \in Request |-> Idle]
  \/ \E q \in Request : \E x : r' = [r EXCEPT ![q] = x] /\ x.at \notin {"evicted", "create"}

LEMMA RowsKept ==
  ASSUME Types, NEW u, RowsStayOrGo
  PROVE  Active(u)' \subseteq Active(u)
<1>1. CASE UNCHANGED row
  BY <1>1 DEF Active, RowsOf, Live, UserOf
<1>2. ASSUME NEW ids, row' = Without(ids) PROVE Active(u)' \subseteq Active(u)
  BY <1>2 DEF Active, RowsOf, Live, UserOf, Without, Deleted
<1>3. CASE \A id \in Id : row'[id].live = row[id].live /\ row'[id].dev = row[id].dev /\ (row[id].banned => row'[id].banned)
  BY <1>3 DEF Active, RowsOf, Live, UserOf
<1> QED
  BY <1>1, <1>2, <1>3 DEF RowsStayOrGo

LEMMA RequestsKept ==
  ASSUME Types, NEW u, NoneBeginsToCreate
  PROVE  Creating(u)' \subseteq Creating(u)
<1>0. r \in [Request -> Requests]
  BY DEF Types
<1>1. CASE UNCHANGED r
  BY <1>1 DEF Creating
<1>2. CASE r' = [q \in Request |-> Idle]
  BY <1>2 DEF Creating, Idle
<1>3. ASSUME NEW q \in Request, NEW x, r' = [r EXCEPT ![q] = x], x.at \notin {"evicted", "create"}
      PROVE  Creating(u)' \subseteq Creating(u)
  BY <1>0, <1>3 DEF Creating
<1> QED
  BY <1>1, <1>2, <1>3 DEF NoneBeginsToCreate

LEMMA AddNone ==
  ASSUME Types, NEW u, RowsStayOrGo, NoneBeginsToCreate, UNCHANGED <<unbans, missed>>
  PROVE  NoMore(u)
<1>1. Active(u)' \subseteq Active(u)
  BY RowsKept
<1>2. Creating(u)' \subseteq Creating(u)
  BY RequestsKept
<1>3. unbans <= unbans' /\ missed <= missed'
  BY DEF Types
<1> QED
  BY <1>1, <1>2, <1>3 DEF NoMore

LEMMA OthersAddNone ==
  ASSUME Types, [Next]_vars, NEW u \in User,
         \A q \in Request : ~LoginCount(q) /\ ~LoginChoose(q) /\ ~LoginEvict(q) /\ ~LoginCreate(q),
         \A q \in Request, id \in Id : ~Unban(q, id)
  PROVE  NoMore(u)
<1>0. r \in [Request -> Requests] /\ row \in [Id -> Rows] /\ Idle.at = "idle"
  BY DEF Types, Idle
<1>a. ASSUME NEW q \in Request, NEW x, r' = [r EXCEPT ![q] = x], x.at \notin {"evicted", "create"}
      PROVE  NoneBeginsToCreate
  BY <1>a DEF NoneBeginsToCreate
<1>b. ASSUME NEW q \in Request, Finish(q) PROVE NoneBeginsToCreate
  BY <1>0, <1>a, <1>b DEF Finish
<1>c. ASSUME NEW q \in Request, NEW ids, NEW d, r' = [r EXCEPT ![q] = [Idle EXCEPT !.at = "revoke", !.dev = d, !.ids = ids]]
      PROVE  NoneBeginsToCreate
  <2>1. [Idle EXCEPT !.at = "revoke", !.dev = d, !.ids = ids].at = "revoke"
    BY DEF Idle
  <2> QED
    BY <1>a, <1>c, <2>1
<1>1. ASSUME NEW q \in Request, NEW d \in Device, LoginFind(q, d) PROVE NoMore(u)
  <2>1. /\ [Idle EXCEPT !.at = "count", !.dev = d].at = "count"
        /\ \A id : [Idle EXCEPT !.at = "update", !.dev = d, !.id = id, !.token = Empty].at = "update"
    BY DEF Idle
  <2>2. NoneBeginsToCreate
    BY <1>1, <1>a, <2>1 DEF LoginFind
  <2>3. RowsStayOrGo /\ UNCHANGED <<unbans, missed>>
    BY <1>1 DEF LoginFind, RowsStayOrGo, counters
  <2> QED
    BY <2>2, <2>3, AddNone
<1>2. ASSUME NEW q \in Request, NEW d \in Device, RefreshReplay(q, d) PROVE NoMore(u)
  <2>1. \A us : \A point \in {"find", "accused"} :
          [Idle EXCEPT !.at = point, !.dev = d, !.user = us, !.token = held[d]].at = point
    BY DEF Idle
  <2> DEFINE replayed == {UserOf(id) : id \in {i \in Live : row[i].prev = held[d]}}
             point    == IF replayed = {} THEN "find" ELSE "accused"
             asked    == [Idle EXCEPT !.at = point, !.dev = d, !.user = replayed, !.token = held[d]]
  <2>2. r' = [r EXCEPT ![q] = asked]
    BY <1>2 DEF RefreshReplay
  <2>3. point \in {"find", "accused"}
    OBVIOUS
  <2>4. asked.at \in {"find", "accused"}
    BY <2>1, <2>3
  <2>5. NoneBeginsToCreate
    <3> HIDE DEF asked
    <3> QED
      BY <1>a, <2>2, <2>4
  <2>6. RowsStayOrGo /\ UNCHANGED <<unbans, missed>>
    BY <1>2 DEF RefreshReplay, RowsStayOrGo, counters
  <2> QED
    BY <2>5, <2>6, AddNone
<1>3. ASSUME NEW q \in Request, RevokeEvicted(q) PROVE NoMore(u)
  <2>1. Creating(u)' \subseteq Creating(u)
    BY <1>0, <1>3 DEF RevokeEvicted, Creating, IsAt, Requests
  <2>2. RowsStayOrGo /\ UNCHANGED <<unbans, missed>>
    BY <1>3 DEF RevokeEvicted, RowsStayOrGo, counters
  <2>3. Active(u)' \subseteq Active(u)
    BY <2>2, RowsKept
  <2>4. unbans <= unbans' /\ missed <= missed'
    BY <2>2 DEF Types
  <2> QED
    BY <2>1, <2>3, <2>4 DEF NoMore
<1>4. ASSUME NEW q \in Request, RefreshFind(q) PROVE NoMore(u)
  <2>1. /\ \A us : [r[q] EXCEPT !.at = "accused", !.user = us].at = "accused"
        /\ \A id : [r[q] EXCEPT !.at = "update", !.id = id].at = "update"
    BY <1>0 DEF Requests
  <2>2. ASSUME NEW id, r' = [r EXCEPT ![q].at = "accused", ![q].user = {UserOf(id)}]
        PROVE  NoneBeginsToCreate
    <3>1. r' = [r EXCEPT ![q] = [r[q] EXCEPT !.at = "accused", !.user = {UserOf(id)}]]
      BY <2>2
    <3> QED
      BY <1>a, <2>1, <3>1
  <2>3. ASSUME NEW id, r' = [r EXCEPT ![q].at = "update", ![q].id = id]
        PROVE  NoneBeginsToCreate
    <3>1. r' = [r EXCEPT ![q] = [r[q] EXCEPT !.at = "update", !.id = id]]
      BY <2>3
    <3> QED
      BY <1>a, <2>1, <3>1
  <2>4. NoneBeginsToCreate
    BY <1>4, <1>b, <2>2, <2>3 DEF RefreshFind
  <2>5. RowsStayOrGo /\ UNCHANGED <<unbans, missed>>
    BY <1>4 DEF RefreshFind, RowsStayOrGo, counters
  <2> QED
    BY <2>4, <2>5, AddNone
<1>5. ASSUME NEW q \in Request, DeleteAll(q) PROVE NoMore(u)
  <2>1. RowsStayOrGo /\ UNCHANGED <<unbans, missed>>
    BY <1>5 DEF DeleteAll, RowsStayOrGo, counters
  <2>2. NoneBeginsToCreate
    BY <1>5, <1>c DEF DeleteAll
  <2> QED
    BY <2>1, <2>2, AddNone
<1>6. ASSUME NEW q \in Request, UpdateSession(q) PROVE NoMore(u)
  <2>1. RowsStayOrGo
    <3>1. CASE UNCHANGED row
      BY <3>1 DEF RowsStayOrGo
    <3>2. CASE row' = [row EXCEPT ![r[q].id].cur = last + 1, ![r[q].id].prev = r[q].token,
                                  ![r[q].id].seen = last + 1, ![r[q].id].stale = FALSE]
      <4>1. \A id \in Id : row'[id].live = row[id].live /\ row'[id].dev = row[id].dev /\ row'[id].banned = row[id].banned
        BY <1>0, <3>2 DEF Rows
      <4> QED
        BY <4>1 DEF RowsStayOrGo
    <3> QED
      BY <1>6, <3>1, <3>2 DEF UpdateSession
  <2>2. NoneBeginsToCreate
    <3>1. [r[q] EXCEPT !.at = "respond", !.token = last + 1].at = "respond"
      BY <1>0 DEF Requests
    <3>2. CASE r' = [r EXCEPT ![q].at = "respond", ![q].token = last + 1]
      BY <1>a, <3>1, <3>2
    <3> QED
      BY <1>6, <1>b, <3>2 DEF UpdateSession
  <2>3. UNCHANGED <<unbans, missed>>
    BY <1>6 DEF UpdateSession, counters
  <2> QED
    BY <2>1, <2>2, <2>3, AddNone
<1>7. ASSUME NEW q \in Request, RefreshUserGone(q) \/ Respond(q) \/ Revoke(q) \/ GuardBan(q) \/ GuardUnban(q)
      PROVE  NoMore(u)
  <2>1. Finish(q) /\ RowsStayOrGo /\ UNCHANGED <<unbans, missed>>
    BY <1>7 DEF RefreshUserGone, Respond, Revoke, GuardBan, GuardUnban, RowsStayOrGo, counters
  <2> QED
    BY <1>b, <2>1, AddNone
<1>8. ASSUME NEW q \in Request, NEW ids, NEW d, Deleting(q, ids, d), UNCHANGED <<unbans, missed>> PROVE NoMore(u)
  <2>1. RowsStayOrGo
    BY <1>8 DEF Deleting, RowsStayOrGo
  <2>2. NoneBeginsToCreate
    BY <1>8, <1>c DEF Deleting
  <2> QED
    BY <1>8, <2>1, <2>2, AddNone
<1>9. ASSUME NEW q \in Request, NEW id \in Id, Ban(q, id) PROVE NoMore(u)
  <2>1. [Idle EXCEPT !.at = "guardBan", !.ids = {id}].at = "guardBan"
    BY DEF Idle
  <2>2. NoneBeginsToCreate /\ UNCHANGED <<unbans, missed>>
    BY <1>9, <1>a, <2>1 DEF Ban
  <2>3. RowsStayOrGo
    <3>1. CASE UNCHANGED row
      BY <3>1 DEF RowsStayOrGo
    <3>2. CASE row' = [row EXCEPT ![id].banned = TRUE, ![id].cur = Null, ![id].prev = Null]
      <4>1. \A i \in Id : row'[i].live = row[i].live /\ row'[i].dev = row[i].dev /\ (row[i].banned => row'[i].banned)
        BY <1>0, <3>2 DEF Rows
      <4> QED
        BY <4>1 DEF RowsStayOrGo
    <3> QED
      BY <1>9, <3>1, <3>2 DEF Ban
  <2> QED
    BY <2>2, <2>3, AddNone
<1>10. ASSUME NEW v \in User, ChangeCredentials(v) \/ DeleteUser(v) PROVE NoMore(u)
  <2>1. RowsStayOrGo /\ NoneBeginsToCreate /\ UNCHANGED <<unbans, missed>>
    BY <1>10 DEF ChangeCredentials, DeleteUser, RowsStayOrGo, NoneBeginsToCreate
  <2> QED
    BY <2>1, AddNone
<1>11. ASSUME CleanupList \/ CleanupDelete \/ Restart \/ UNCHANGED vars PROVE NoMore(u)
  <2>1. RowsStayOrGo /\ NoneBeginsToCreate /\ UNCHANGED <<unbans, missed>>
    BY <1>11 DEF CleanupList, CleanupDelete, Restart, vars, counters, RowsStayOrGo, NoneBeginsToCreate
  <2> QED
    BY <2>1, AddNone
<1>12. ASSUME NEW id \in Id, GoStale(id) PROVE NoMore(u)
  <2>1. \A i \in Id : row'[i].live = row[i].live /\ row'[i].dev = row[i].dev /\ (row[i].banned => row'[i].banned)
    BY <1>0, <1>12 DEF GoStale, Rows
  <2>2. RowsStayOrGo
    BY <2>1 DEF RowsStayOrGo
  <2>3. NoneBeginsToCreate /\ UNCHANGED <<unbans, missed>>
    BY <1>12 DEF GoStale, NoneBeginsToCreate
  <2> QED
    BY <2>2, <2>3, AddNone
<1>13. ASSUME NEW id \in Id, Expire(id) PROVE NoMore(u)
  <2>1. RowsStayOrGo /\ NoneBeginsToCreate /\ UNCHANGED <<unbans, missed>>
    BY <1>13 DEF Expire, counters, RowsStayOrGo, NoneBeginsToCreate
  <2> QED
    BY <2>1, AddNone
<1>14. ASSUME NEW d \in Device, NEW e \in Device, CopyProfile(d, e) PROVE NoMore(u)
  <2>1. RowsStayOrGo /\ NoneBeginsToCreate /\ UNCHANGED <<unbans, missed>>
    BY <1>14 DEF CopyProfile, RowsStayOrGo, NoneBeginsToCreate
  <2> QED
    BY <2>1, AddNone
<1>15. ASSUME NEW q \in Request, NEW id \in Id, Logout(q, id) \/ Delete(q, id) PROVE NoMore(u)
  BY <1>8, <1>15 DEF Logout, Delete
<1>16. ASSUME NEW q \in Request, NEW v \in User, RevokeAll(q, v) PROVE NoMore(u)
  BY <1>8, <1>16 DEF RevokeAll
<1> QED
  BY <1>1, <1>2, <1>3, <1>4, <1>5, <1>6, <1>7, <1>9, <1>10, <1>11, <1>12, <1>13, <1>14, <1>15, <1>16
     DEF Next, Step, Login, Manage

\* DevicesMaxPerUser: whatever interleaves, a user's active devices exceed the
\* limit by at most one per further request in flight, one per unban, and one per
\* eviction that took no active device.
THEOREM DevicesStayBounded == Spec => []DevicesBounded
<1> DEFINE Inductive == Types /\ DevicesBounded
<1>1. Init => Inductive
  <2> SUFFICES ASSUME Init PROVE Inductive
    OBVIOUS
  <2>1. Types
    BY InitTypes
  <2>2. ASSUME NEW u \in User PROVE BoundOf(u)
    <3>1. Active(u) = {} /\ Creating(u) = {} /\ unbans = 0 /\ missed = 0
      BY DEF Init, Active, RowsOf, Live, Absent, Deleted, Creating, Idle
    <3> QED
      BY <3>1, Counts, DeviceAuthAssumption DEF BoundOf
  <2> QED
    BY <2>1, <2>2 DEF DevicesBounded, BoundOf
<1>2. Inductive /\ [Next]_vars => Inductive'
  <2> SUFFICES ASSUME Inductive, [Next]_vars PROVE Inductive'
    OBVIOUS
  <2>1. Types'
    BY TypePreserved
  <2>2. ASSUME NEW u \in User PROVE BoundOf(u)'
    <3>1. BoundOf(u)
      BY DEF DevicesBounded, BoundOf
    <3>2. CASE \E q \in Request : LoginCount(q) \/ LoginChoose(q) \/ LoginEvict(q) \/ LoginCreate(q)
      BY <2>1, <3>1, <3>2, LoginCountKeepsBound, LoginChooseKeepsBound, LoginEvictKeepsBound,
         LoginCreateKeepsBound
    <3>3. CASE \E q \in Request, id \in Id : Unban(q, id)
      BY <2>1, <3>1, <3>3, UnbanKeepsBound
    <3>4. CASE /\ \A q \in Request : ~LoginCount(q) /\ ~LoginChoose(q) /\ ~LoginEvict(q) /\ ~LoginCreate(q)
               /\ \A q \in Request, id \in Id : ~Unban(q, id)
      BY <2>1, <3>1, <3>4, OthersAddNone, NoMoreKeepsBound
    <3> QED
      BY <3>2, <3>3, <3>4
  <2> QED
    BY <2>1, <2>2 DEF DevicesBounded, BoundOf
<1> QED
  BY <1>1, <1>2, PTL DEF Spec

-----------------------------------------------------------------------------
(* The guard and the table *)

\* The row was inserted and is deleted: no row ever has its id again.
Gone(id) == ~row[id].live /\ row[id].dev # NoDevice

BanUnderWay    == {"guardBan", "guardUnban"}
RevokeUnderWay == {"evicted", "revoke"}

\* What holds of every id: the guard knows only ids that were inserted or named by a
\* stranger, revokes only rows that are gone, and a request that has changed the table
\* and not yet the guard carries what the guard still lacks.
GuardKnowsRows(id) ==
  /\ id \in banned => row[id].dev # NoDevice \/ id \in foreign
  /\ revoked[id] # "no" => Gone(id)
  /\ revoked[id] = "older" /\ id \in access => id \in unguarded
RequestKnowsRow(x, id) ==
  id \in x.ids =>
    /\ row[id].dev # NoDevice \/ id \in foreign
    /\ x.at \in RevokeUnderWay => Gone(id)
    /\ row[id].live /\ id \notin disputed \cup foreign =>
         (x.at = "guardBan" => row[id].banned) /\ (x.at = "guardUnban" => ~row[id].banned)
Follows(id) ==
  row[id].live /\ id \notin disputed \cup foreign =>
    \/ row[id].banned <=> id \in banned
    \/ \E q \in Request : r[q].at \in BanUnderWay /\ id \in r[q].ids
Blocked(id) ==
  id \in access /\ ~row[id].live =>
    \/ id \in banned \/ revoked[id] # "no" \/ id \in unguarded
    \/ \E q \in Request : r[q].at \in RevokeUnderWay /\ id \in r[q].ids
Guarded(id) ==
  /\ GuardKnowsRows(id) /\ Follows(id) /\ Blocked(id)
  /\ \A q \in Request : RequestKnowsRow(r[q], id)

\* Steps that leave the guard alone: a row stays as it is, goes, or is new and
\* not banned; one that goes is covered; a request that owes the guard something
\* is left alone, and one that begins to owe it carries rows that are gone.
QuietRow(id) ==
  /\ row[id].dev # NoDevice => row'[id].dev # NoDevice
  /\ row'[id].live => \/ row[id].live /\ row'[id].banned = row[id].banned
                      \/ row[id].dev = NoDevice /\ ~row'[id].banned
  /\ row[id].live /\ ~row'[id].live /\ id \in access =>
       \/ id \in unguarded'
       \/ \E q \in Request : r'[q].at \in RevokeUnderWay /\ id \in r'[q].ids
QuietRequest(x, y, id) ==
  \/ y.at = x.at /\ y.ids = x.ids
  \/ /\ x.at \notin BanUnderWay \cup RevokeUnderWay
     /\ \/ /\ y.at \notin BanUnderWay \cup RevokeUnderWay
           /\ id \in y.ids => id \in x.ids \/ row[id].dev # NoDevice
        \/ y.at \in RevokeUnderWay /\ (id \in y.ids => Gone(id)')
Quiet(id) ==
  /\ QuietRow(id) /\ \A q \in Request : QuietRequest(r[q], r'[q], id)
  /\ UNCHANGED <<banned, revoked, access, disputed, foreign>> /\ unguarded \subseteq unguarded'

LEMMA QuietKeepsGuarded ==
  ASSUME NEW id, Guarded(id), Quiet(id)
  PROVE  Guarded(id)'
<1>0. /\ banned' = banned /\ revoked' = revoked /\ access' = access /\ disputed' = disputed
      /\ foreign' = foreign /\ unguarded \subseteq unguarded'
  BY DEF Quiet
<1>1. GuardKnowsRows(id)'
  BY <1>0 DEF Guarded, GuardKnowsRows, Quiet, QuietRow, Gone
<1>2. ASSUME NEW q \in Request PROVE RequestKnowsRow(r[q], id)'
  <2>1. RequestKnowsRow(r[q], id) /\ QuietRequest(r[q], r'[q], id) /\ QuietRow(id)
    BY DEF Guarded, Quiet
  <2>2. CASE r'[q].at = r[q].at /\ r'[q].ids = r[q].ids
    BY <1>0, <2>1, <2>2 DEF RequestKnowsRow, QuietRow, Gone
  <2>3. CASE /\ r'[q].at \notin BanUnderWay \cup RevokeUnderWay
             /\ id \in r'[q].ids => id \in r[q].ids \/ row[id].dev # NoDevice
    BY <1>0, <2>1, <2>3 DEF RequestKnowsRow, QuietRow, BanUnderWay, RevokeUnderWay
  <2>4. CASE r'[q].at \in RevokeUnderWay /\ (id \in r'[q].ids => Gone(id)')
    BY <2>4 DEF RequestKnowsRow, RevokeUnderWay, Gone
  <2> QED
    BY <2>1, <2>2, <2>3, <2>4 DEF QuietRequest
<1>3. \A q \in Request : r[q].at \in BanUnderWay \cup RevokeUnderWay => r'[q].at = r[q].at /\ r'[q].ids = r[q].ids
  BY DEF Quiet, QuietRequest
<1>4. Follows(id)'
  <2>1. CASE \E q \in Request : r[q].at \in BanUnderWay /\ id \in r[q].ids
    BY <1>3, <2>1 DEF Follows
  <2>2. CASE ~\E q \in Request : r[q].at \in BanUnderWay /\ id \in r[q].ids
    BY <1>0, <2>2 DEF Guarded, Follows, GuardKnowsRows, Quiet, QuietRow
  <2> QED
    BY <2>1, <2>2
<1>5. Blocked(id)'
  <2>1. CASE \E q \in Request : r[q].at \in RevokeUnderWay /\ id \in r[q].ids
    BY <1>3, <2>1 DEF Blocked
  <2>2. CASE ~\E q \in Request : r[q].at \in RevokeUnderWay /\ id \in r[q].ids
    BY <1>0, <2>2 DEF Guarded, Blocked, Quiet, QuietRow
  <2> QED
    BY <2>1, <2>2
<1> QED
  BY <1>1, <1>2, <1>4, <1>5 DEF Guarded

\* What the steps that change rows or requests do to one of them.
LEMMA Effects ==
  ASSUME Types
  PROVE  /\ \A id \in Id : row[id].live => row[id].dev # NoDevice
         /\ \A id \in Id : row[id] = Absent => row[id].dev = NoDevice
         /\ \A ids : \A id \in Id :
              /\ Without(ids)[id].dev = row[id].dev
              /\ IF id \in ids THEN ~Without(ids)[id].live ELSE Without(ids)[id] = row[id]
         /\ \A u : RowsOf(u) \subseteq Live
         /\ \A q \in Request : \A x : [r EXCEPT ![q] = x][q] = x
              /\ \A p \in Request \ {q} : [r EXCEPT ![q] = x][p] = r[p]
         /\ Idle.at = "idle" /\ Idle.ids = {}
<1>1. \A id \in Id : row[id] \in Rows
  BY DEF Types
<1>2. \A id \in Id : row[id].live => row[id].dev # NoDevice
  BY <1>1, DeviceAuthAssumption DEF Rows
<1>3. \A id \in Id : row[id] = Absent => row[id].dev = NoDevice
  BY DEF Absent, Deleted
<1>4. \A ids : \A id \in Id :
        /\ Without(ids)[id].dev = row[id].dev
        /\ IF id \in ids THEN ~Without(ids)[id].live ELSE Without(ids)[id] = row[id]
  BY DEF Without, Deleted
<1>5. \A u : RowsOf(u) \subseteq Live
  BY DEF RowsOf
<1>6. \A q \in Request : \A x : [r EXCEPT ![q] = x][q] = x
        /\ \A p \in Request \ {q} : [r EXCEPT ![q] = x][p] = r[p]
  BY DEF Types
<1>7. Idle.at = "idle" /\ Idle.ids = {}
  BY DEF Idle
<1> QED
  BY <1>2, <1>3, <1>4, <1>5, <1>6, <1>7

\* Only one request changes, and it owed the guard nothing and owes it nothing.
LEMMA OneQuietRequest ==
  ASSUME Types, NEW id, NEW q \in Request, NEW x, r' = [r EXCEPT ![q] = x],
         r[q].at \notin BanUnderWay \cup RevokeUnderWay,
         \/ /\ x.at \notin BanUnderWay \cup RevokeUnderWay
            /\ id \in x.ids => id \in r[q].ids \/ row[id].dev # NoDevice
         \/ x.at \in RevokeUnderWay /\ (id \in x.ids => Gone(id)')
  PROVE  \A p \in Request : QuietRequest(r[p], r'[p], id)
BY Effects DEF QuietRequest

\* Steps that change no row and leave the guard alone.
LEMMA QuietRowSame ==
  ASSUME NEW id, UNCHANGED row
  PROVE  QuietRow(id)
BY DEF QuietRow

\* The steps of login and refresh that leave the guard alone.
LEMMA SignInIsQuiet ==
  ASSUME Types, NEW id \in Id, NEW q \in Request
  PROVE  /\ \A d \in Device : Login(q, d) => Quiet(id)
         /\ LoginCount(q) \/ LoginChoose(q) \/ LoginEvict(q) \/ LoginCreate(q) => Quiet(id)
         /\ RefreshFind(q) \/ RefreshUserGone(q) \/ DeleteAll(q) \/ UpdateSession(q) => Quiet(id)
<1>0. r \in [Request -> Requests] /\ row \in [Id -> Rows] /\ \A i \in Id : row[i] \in Rows
  BY DEF Types
<1>1. ASSUME NEW d \in Device, LoginFind(q, d) PROVE Quiet(id)
  <2>1. /\ [Idle EXCEPT !.at = "count", !.dev = d].at = "count"
        /\ [Idle EXCEPT !.at = "count", !.dev = d].ids = {}
        /\ \A i : /\ [Idle EXCEPT !.at = "update", !.dev = d, !.id = i, !.token = Empty].at = "update"
                  /\ [Idle EXCEPT !.at = "update", !.dev = d, !.id = i, !.token = Empty].ids = {}
    BY DEF Idle
  <2>2. \A p \in Request : QuietRequest(r[p], r'[p], id)
    <3>1. r[q].at \notin BanUnderWay \cup RevokeUnderWay
      <4>1. IsAt(q, "idle")
        BY <1>1, Zenon DEF LoginFind
      <4> QED
        BY <4>1 DEF IsAt, BanUnderWay, RevokeUnderWay
    <3>2. ASSUME NEW x, r' = [r EXCEPT ![q] = x], x.at \in {"count", "update"}, x.ids = {}
          PROVE  \A p \in Request : QuietRequest(r[p], r'[p], id)
      <4>1. x.at \notin BanUnderWay \cup RevokeUnderWay
        BY <3>2 DEF BanUnderWay, RevokeUnderWay
      <4> QED
        BY <3>1, <3>2, <4>1, OneQuietRequest
    <3>3. \/ r' = [r EXCEPT ![q] = [Idle EXCEPT !.at = "count", !.dev = d]]
          \/ \E i : r' = [r EXCEPT ![q] = [Idle EXCEPT !.at = "update", !.dev = d, !.id = i, !.token = Empty]]
      BY <1>1, Zenon DEF LoginFind
    <3>4. CASE r' = [r EXCEPT ![q] = [Idle EXCEPT !.at = "count", !.dev = d]]
      <4> DEFINE x == [Idle EXCEPT !.at = "count", !.dev = d]
      <4>1. r' = [r EXCEPT ![q] = x] /\ x.at = "count" /\ x.ids = {}
        BY <2>1, <3>4
      <4> HIDE DEF x
      <4> QED
        BY <3>2, <4>1
    <3>5. ASSUME NEW i, r' = [r EXCEPT ![q] = [Idle EXCEPT !.at = "update", !.dev = d, !.id = i, !.token = Empty]]
          PROVE  \A p \in Request : QuietRequest(r[p], r'[p], id)
      <4> DEFINE x == [Idle EXCEPT !.at = "update", !.dev = d, !.id = i, !.token = Empty]
      <4>1. r' = [r EXCEPT ![q] = x] /\ x.at = "update" /\ x.ids = {}
        BY <2>1, <3>5
      <4> HIDE DEF x
      <4> QED
        BY <3>2, <4>1
    <3> QED
      BY <3>3, <3>4, <3>5, Zenon
  <2>3. UNCHANGED <<row, banned, revoked, access, disputed, foreign, unguarded>>
    <3>1. row' = row /\ guardVars' = guardVars /\ access' = access
          /\ disputed' = disputed /\ foreign' = foreign /\ unguarded' = unguarded
      BY <1>1, Zenon DEF LoginFind
    <3> QED
      BY <3>1 DEF guardVars
  <2> QED
    BY <2>2, <2>3, QuietRowSame DEF Quiet
<1>2. ASSUME NEW d \in Device, RefreshReplay(q, d) PROVE Quiet(id)
  <2>1. \A us, point : LET x == [Idle EXCEPT !.at = point, !.dev = d, !.user = us, !.token = held[d]]
                       IN  x.at = point /\ x.ids = {}
    BY DEF Idle
  <2>2. \A p \in Request : QuietRequest(r[p], r'[p], id)
    <3> DEFINE replayed == {UserOf(i) : i \in {i \in Live : row[i].prev = held[d]}}
    <3>1. PICK x : r' = [r EXCEPT ![q] = x] /\ x.at \in {"find", "accused"} /\ x.ids = {}
      <4> DEFINE point == IF replayed = {} THEN "find" ELSE "accused"
                 asked == [Idle EXCEPT !.at = point, !.dev = d, !.user = replayed, !.token = held[d]]
      <4>1. r' = [r EXCEPT ![q] = asked]
        BY <1>2 DEF RefreshReplay
      <4>2. asked.at = point /\ asked.ids = {}
        <5> HIDE DEF replayed, point
        <5> QED
          BY <2>1
      <4>3. point \in {"find", "accused"}
        OBVIOUS
      <4> HIDE DEF asked, point
      <4> QED
        BY <4>1, <4>2, <4>3
    <3>2. r[q].at \notin BanUnderWay \cup RevokeUnderWay
      BY <1>2 DEF RefreshReplay, IsAt, BanUnderWay, RevokeUnderWay
    <3>3. x.at \notin BanUnderWay \cup RevokeUnderWay
      BY <3>1 DEF BanUnderWay, RevokeUnderWay
    <3> QED
      BY <3>1, <3>2, <3>3, OneQuietRequest
  <2>3. UNCHANGED <<row, banned, revoked, access, disputed, foreign, unguarded>>
    BY <1>2 DEF RefreshReplay, guardVars
  <2> QED
    BY <2>2, <2>3, QuietRowSame DEF Quiet
<1>a. ASSUME NEW x, r' = [r EXCEPT ![q] = x], r[q].at \notin BanUnderWay \cup RevokeUnderWay,
             x.at \in {"evict", "create", "accused", "update", "respond", "idle"}, x.ids \subseteq r[q].ids
      PROVE  \A p \in Request : QuietRequest(r[p], r'[p], id)
  <2>1. x.at \notin BanUnderWay \cup RevokeUnderWay
    BY <1>a DEF BanUnderWay, RevokeUnderWay
  <2> QED
    BY <1>a, <2>1, OneQuietRequest
<1>b. ASSUME Finish(q), r[q].at \notin BanUnderWay \cup RevokeUnderWay
      PROVE  \A p \in Request : QuietRequest(r[p], r'[p], id)
  BY <1>a, <1>b, Effects DEF Finish
<1>c. r[q] \in Requests
  BY <1>0
<1>3. ASSUME LoginCount(q) PROVE Quiet(id)
  <2>1. r[q].at \notin BanUnderWay \cup RevokeUnderWay
    BY <1>3 DEF LoginCount, IsAt, BanUnderWay, RevokeUnderWay
  <2>2. ASSUME NEW point \in {"evict", "create"}
        PROVE  [r[q] EXCEPT !.at = point].at = point /\ [r[q] EXCEPT !.at = point].ids = r[q].ids
    BY <1>c DEF Requests
  <2>3. \A p \in Request : QuietRequest(r[p], r'[p], id)
    <3>1. PICK point \in {"evict", "create"} : r' = [r EXCEPT ![q] = [r[q] EXCEPT !.at = point]]
      BY <1>3 DEF LoginCount
    <3> QED
      BY <1>a, <2>1, <2>2, <3>1
  <2>4. UNCHANGED <<row, banned, revoked, access, disputed, foreign, unguarded>>
    BY <1>3 DEF LoginCount, guardVars, historyVars
  <2> QED
    BY <2>3, <2>4, QuietRowSame DEF Quiet
<1>10. ASSUME LoginChoose(q) PROVE Quiet(id)
  <2>1. r[q].at \notin BanUnderWay \cup RevokeUnderWay
    BY <1>10 DEF LoginChoose, IsAt, BanUnderWay, RevokeUnderWay
  <2>2. UNCHANGED <<row, banned, revoked, access, disputed, foreign, unguarded>>
    BY <1>10 DEF LoginChoose, guardVars, historyVars
  <2>3. CASE r' = [r EXCEPT ![q].at = "create"]
    <3>1. r' = [r EXCEPT ![q] = [r[q] EXCEPT !.at = "create"]]
      BY <2>3
    <3>2. [r[q] EXCEPT !.at = "create"].at = "create" /\ [r[q] EXCEPT !.at = "create"].ids = r[q].ids
      BY <1>c DEF Requests
    <3>3. \A p \in Request : QuietRequest(r[p], r'[p], id)
      BY <1>a, <2>1, <3>1, <3>2
    <3> QED
      BY <2>2, <3>3, QuietRowSame DEF Quiet
  <2>4. ASSUME NEW old \in LeastRecent(Owner[r[q].dev]), r' = [r EXCEPT ![q].at = "delete", ![q].ids = {old}]
        PROVE  Quiet(id)
    <3>1. row[old].dev # NoDevice
      BY Effects DEF LeastRecent, Active, RowsOf, Live
    <3> DEFINE x == [r[q] EXCEPT !.at = "delete", !.ids = {old}]
    <3>2. r' = [r EXCEPT ![q] = x] /\ x.at = "delete" /\ x.ids = {old}
      BY <1>c, <2>4 DEF Requests
    <3> HIDE DEF x
    <3>3. x.at \notin BanUnderWay \cup RevokeUnderWay
      BY <3>2 DEF BanUnderWay, RevokeUnderWay
    <3>4. \A p \in Request : QuietRequest(r[p], r'[p], id)
      BY <2>1, <3>1, <3>2, <3>3, OneQuietRequest
    <3> QED
      BY <2>2, <3>4, QuietRowSame DEF Quiet
  <2> QED
    BY <1>10, <2>3, <2>4 DEF LoginChoose
<1>4. ASSUME LoginEvict(q) PROVE Quiet(id)
  <2> DEFINE gone  == r[q].ids \cap Live
             point == IF gone = {} THEN "create" ELSE "evicted"
             x     == [r[q] EXCEPT !.at = point, !.ids = gone]
  <2>1. r[q].at \notin BanUnderWay \cup RevokeUnderWay
    BY <1>4 DEF LoginEvict, IsAt, BanUnderWay, RevokeUnderWay
  <2>2. UNCHANGED <<banned, revoked, access, disputed, foreign, unguarded>>
    BY <1>4 DEF LoginEvict, guardVars, historyVars
  <2>3. r' = [r EXCEPT ![q] = x] /\ row' = Without(r[q].ids)
    BY <1>4 DEF LoginEvict
  <2>4. x.at = point /\ x.ids = gone
    <3> HIDE DEF gone, point
    <3> QED
      BY <1>c DEF Requests
  <2>5. row'[id].dev = row[id].dev /\ (IF id \in r[q].ids THEN ~row'[id].live ELSE row'[id] = row[id])
    BY <2>3, Effects
  <2>6. id \in gone => Gone(id)'
    BY <2>5, Effects DEF Gone, Live
  <2>7. (point = "create" /\ gone = {}) \/ point = "evicted"
    OBVIOUS
  <2>8. row[id].live /\ ~row'[id].live => id \in gone
    BY <2>5 DEF Live
  <2> HIDE DEF x, gone, point
  <2>9. r'[q].at = point /\ r'[q].ids = gone
    BY <1>0, <2>3, <2>4
  <2>10. QuietRow(id)
    <3>1. row'[id].live => row'[id] = row[id]
      BY <2>5
    <3>2. row[id].live /\ ~row'[id].live => r'[q].at \in RevokeUnderWay /\ id \in r'[q].ids
      BY <2>7, <2>8, <2>9 DEF RevokeUnderWay
    <3> QED
      BY <2>5, <3>1, <3>2 DEF QuietRow
  <2>11. \A p \in Request : QuietRequest(r[p], r'[p], id)
    <3>1. CASE point = "create" /\ gone = {}
      <4>1. x.at \notin BanUnderWay \cup RevokeUnderWay /\ id \notin x.ids
        BY <2>4, <3>1 DEF BanUnderWay, RevokeUnderWay
      <4> QED
        BY <2>1, <2>3, <4>1, OneQuietRequest
    <3>2. CASE point = "evicted"
      <4>1. x.at \in RevokeUnderWay /\ (id \in x.ids => Gone(id)')
        BY <2>4, <2>6, <3>2 DEF RevokeUnderWay
      <4> QED
        BY <2>1, <2>3, <4>1, OneQuietRequest
    <3> QED
      BY <2>7, <3>1, <3>2
  <2> QED
    BY <2>2, <2>10, <2>11 DEF Quiet
<1>5. ASSUME LoginCreate(q) PROVE Quiet(id)
  <2>1. r[q].at \notin BanUnderWay \cup RevokeUnderWay
    <3>1. IsAt(q, "create")
      BY <1>5, Zenon DEF LoginCreate
    <3> QED
      BY <3>1 DEF IsAt, BanUnderWay, RevokeUnderWay
  <2>2. UNCHANGED <<banned, revoked, access, disputed, foreign, unguarded>>
    <3>1. guardVars' = guardVars /\ access' = access /\ historyVars' = historyVars
      BY <1>5, Zenon DEF LoginCreate
    <3> QED
      BY <3>1 DEF guardVars, historyVars
  <2>3. CASE Finish(q) /\ UNCHANGED <<row, last>>
    BY <1>b, <2>1, <2>2, <2>3, QuietRowSame DEF Quiet
  <2>4. ASSUME NEW new \in Id, row[new] = Absent,
               row' = [row EXCEPT ![new] = [Absent EXCEPT !.dev = r[q].dev, !.live = TRUE,
                                                          !.cur = last + 1, !.seen = last + 1]],
               r' = [r EXCEPT ![q].at = "respond", ![q].id = new, ![q].token = last + 1]
        PROVE  Quiet(id)
    <3> DEFINE x == [r[q] EXCEPT !.at = "respond", !.id = new, !.token = last + 1]
    <3>1. r' = [r EXCEPT ![q] = x] /\ x.at = "respond" /\ x.ids = r[q].ids
      BY <1>c, <2>4 DEF Requests
    <3> HIDE DEF x
    <3>2. \A p \in Request : QuietRequest(r[p], r'[p], id)
      BY <1>a, <2>1, <3>1
    <3>3. QuietRow(id)
      <4>1. CASE id = new
        <5>1. ~row'[id].banned /\ row'[id].live
          BY <1>0, <2>4, <4>1 DEF Absent, Deleted
        <5>2. row[id].dev = NoDevice
          BY <2>4, <4>1, Effects
        <5> QED
          BY <5>1, <5>2 DEF QuietRow
      <4>2. CASE id # new
        <5>1. row'[id] = row[id]
          BY <1>0, <2>4, <4>2
        <5> QED
          BY <5>1 DEF QuietRow
      <4> QED
        BY <4>1, <4>2
    <3> QED
      BY <2>2, <3>2, <3>3 DEF Quiet
  <2> QED
    BY <1>5, <2>3, <2>4, Zenon DEF LoginCreate
<1>6. ASSUME RefreshFind(q) PROVE Quiet(id)
  <2>1. r[q].at \notin BanUnderWay \cup RevokeUnderWay
    BY <1>6 DEF RefreshFind, IsAt, BanUnderWay, RevokeUnderWay
  <2>2. UNCHANGED <<row, banned, revoked, access, disputed, foreign, unguarded>>
    BY <1>6 DEF RefreshFind, guardVars, historyVars
  <2>3. ASSUME NEW x, r' = [r EXCEPT ![q] = x], x.at \in {"accused", "update"}, x.ids = r[q].ids
        PROVE  Quiet(id)
    BY <1>a, <2>1, <2>2, <2>3, QuietRowSame DEF Quiet
  <2>4. ASSUME NEW us, r' = [r EXCEPT ![q].at = "accused", ![q].user = us] PROVE Quiet(id)
    <3> DEFINE x == [r[q] EXCEPT !.at = "accused", !.user = us]
    <3>1. r' = [r EXCEPT ![q] = x] /\ x.at = "accused" /\ x.ids = r[q].ids
      BY <1>c, <2>4 DEF Requests
    <3> HIDE DEF x
    <3> QED
      BY <2>3, <3>1
  <2>5. ASSUME NEW i, r' = [r EXCEPT ![q].at = "update", ![q].id = i] PROVE Quiet(id)
    <3> DEFINE x == [r[q] EXCEPT !.at = "update", !.id = i]
    <3>1. r' = [r EXCEPT ![q] = x] /\ x.at = "update" /\ x.ids = r[q].ids
      BY <1>c, <2>5 DEF Requests
    <3> HIDE DEF x
    <3> QED
      BY <2>3, <3>1
  <2>6. CASE Finish(q)
    BY <1>b, <2>1, <2>2, <2>6, QuietRowSame DEF Quiet
  <2> QED
    BY <1>6, <2>4, <2>5, <2>6 DEF RefreshFind
<1>7. ASSUME RefreshUserGone(q) PROVE Quiet(id)
  <2>1. r[q].at \notin BanUnderWay \cup RevokeUnderWay
    BY <1>7 DEF RefreshUserGone, IsAt, BanUnderWay, RevokeUnderWay
  <2>2. UNCHANGED <<row, banned, revoked, access, disputed, foreign, unguarded>> /\ Finish(q)
    BY <1>7 DEF RefreshUserGone, guardVars, historyVars
  <2> QED
    BY <1>b, <2>1, <2>2, QuietRowSame DEF Quiet
<1>8. ASSUME DeleteAll(q) PROVE Quiet(id)
  <2> DEFINE ids == UNION {RowsOf(u) : u \in r[q].user}
             x   == [Idle EXCEPT !.at = "revoke", !.dev = r[q].dev, !.ids = ids]
  <2>1. r[q].at \notin BanUnderWay \cup RevokeUnderWay
    BY <1>8 DEF DeleteAll, IsAt, BanUnderWay, RevokeUnderWay
  <2>2. UNCHANGED <<banned, revoked, access, disputed, foreign, unguarded>>
    BY <1>8 DEF DeleteAll, guardVars, historyVars
  <2>3. r' = [r EXCEPT ![q] = x] /\ x.at = "revoke" /\ x.ids = ids /\ row' = Without(ids)
    BY <1>8 DEF DeleteAll, Idle
  <2>4. ids \subseteq Live
    BY Effects
  <2> HIDE DEF ids, x
  <2>5. QuietRow(id) /\ (id \in ids => Gone(id)')
    <3>1. row'[id].dev = row[id].dev /\ (IF id \in ids THEN ~row'[id].live ELSE row'[id] = row[id])
      BY <2>3, Effects
    <3>2. id \in ids => row[id].dev # NoDevice
      BY <2>4, Effects DEF Live
    <3>3. r'[q].at = "revoke" /\ r'[q].ids = ids
      BY <1>0, <2>3
    <3> QED
      BY <3>1, <3>2, <3>3 DEF QuietRow, Gone, RevokeUnderWay
  <2>6. \A p \in Request : QuietRequest(r[p], r'[p], id)
    BY <2>1, <2>3, <2>5, OneQuietRequest DEF RevokeUnderWay
  <2> QED
    BY <2>2, <2>5, <2>6 DEF Quiet
<1>9. ASSUME UpdateSession(q) PROVE Quiet(id)
  <2>1. r[q].at \notin BanUnderWay \cup RevokeUnderWay
    BY <1>9 DEF UpdateSession, IsAt, BanUnderWay, RevokeUnderWay
  <2>2. UNCHANGED <<banned, revoked, access, disputed, foreign, unguarded>>
    BY <1>9 DEF UpdateSession, guardVars, historyVars
  <2>3. QuietRow(id)
    <3>1. CASE row' = [row EXCEPT ![r[q].id].cur = last + 1, ![r[q].id].prev = r[q].token,
                                  ![r[q].id].seen = last + 1, ![r[q].id].stale = FALSE]
      <4>1. row'[id].live = row[id].live /\ row'[id].dev = row[id].dev /\ row'[id].banned = row[id].banned
        BY <1>0, <3>1 DEF Rows
      <4> QED
        BY <4>1 DEF QuietRow
    <3>2. CASE UNCHANGED row
      BY <3>2, QuietRowSame
    <3> QED
      BY <1>9, <3>1, <3>2 DEF UpdateSession
  <2>4. \A p \in Request : QuietRequest(r[p], r'[p], id)
    <3>1. CASE Finish(q)
      BY <1>b, <2>1, <3>1
    <3>2. CASE r' = [r EXCEPT ![q].at = "respond", ![q].token = last + 1]
      <4> DEFINE x == [r[q] EXCEPT !.at = "respond", !.token = last + 1]
      <4>1. r' = [r EXCEPT ![q] = x] /\ x.at = "respond" /\ x.ids = r[q].ids
        BY <1>c, <3>2 DEF Requests
      <4> HIDE DEF x
      <4> QED
        BY <1>a, <2>1, <4>1
    <3> QED
      BY <1>9, <3>1, <3>2 DEF UpdateSession
  <2> QED
    BY <2>2, <2>3, <2>4 DEF Quiet
<1> QED
  BY <1>1, <1>2, <1>3, <1>4, <1>5, <1>6, <1>7, <1>8, <1>9, <1>10 DEF Login

\* Logout and the deletions: the row goes, and its request owes the guard a revocation.
LEMMA DeletingIsQuiet ==
  ASSUME Types, NEW id \in Id, NEW q \in Request, NEW ids, NEW d, Deleting(q, ids, d),
         \A i \in Id : i \in ids => row[i].dev # NoDevice,
         UNCHANGED <<banned, revoked, access, disputed, foreign, unguarded>>
  PROVE  Quiet(id)
<1> DEFINE x == [Idle EXCEPT !.at = "revoke", !.dev = d, !.ids = ids]
<1>0. r \in [Request -> Requests]
  BY DEF Types
<1>1. r[q].at \notin BanUnderWay \cup RevokeUnderWay
  BY DEF Deleting, IsAt, BanUnderWay, RevokeUnderWay
<1>2. r' = [r EXCEPT ![q] = x] /\ x.at = "revoke" /\ x.ids = ids /\ row' = Without(ids)
  BY DEF Deleting, Idle
<1> HIDE DEF x
<1>3. QuietRow(id) /\ (id \in ids => Gone(id)')
  <2>1. row'[id].dev = row[id].dev /\ (IF id \in ids THEN ~row'[id].live ELSE row'[id] = row[id])
    BY <1>2, Effects
  <2>2. r'[q].at = "revoke" /\ r'[q].ids = ids
    BY <1>0, <1>2
  <2> QED
    BY <2>1, <2>2 DEF QuietRow, Gone, RevokeUnderWay
<1>4. \A p \in Request : QuietRequest(r[p], r'[p], id)
  BY <1>1, <1>2, <1>3, OneQuietRequest DEF RevokeUnderWay
<1> QED
  BY <1>3, <1>4 DEF Quiet

\* The steps outside login and refresh that leave the guard alone.
LEMMA ManageIsQuiet ==
  ASSUME Types, NEW id \in Id
  PROVE  /\ \A q \in Request, i \in Id : Logout(q, i) \/ Delete(q, i) => Quiet(id)
         /\ \A q \in Request, u \in User : RevokeAll(q, u) => Quiet(id)
         /\ \A u \in User : ChangeCredentials(u) \/ DeleteUser(u) => Quiet(id)
         /\ CleanupList \/ CleanupDelete \/ UNCHANGED vars => Quiet(id)
         /\ \A i \in Id : GoStale(i) => Quiet(id)
         /\ \A d, e \in Device : CopyProfile(d, e) => Quiet(id)
<1>0. r \in [Request -> Requests] /\ row \in [Id -> Rows] /\ \A i \in Id : row[i] \in Rows
  BY DEF Types
<1>1. ASSUME NEW q \in Request, NEW i \in Id, Logout(q, i) PROVE Quiet(id)
  <2>1. Deleting(q, {i}, row[i].dev) /\ row[i].dev # NoDevice
    BY <1>1 DEF Logout
  <2>2. UNCHANGED <<banned, revoked, access, disputed, foreign, unguarded>>
    BY <1>1 DEF Logout, guardVars
  <2> QED
    BY <2>1, <2>2, DeletingIsQuiet
<1>2. ASSUME NEW q \in Request, NEW i \in Id, Delete(q, i) PROVE Quiet(id)
  <2>1. Deleting(q, {i}, NoDevice) /\ row[i].dev # NoDevice
    BY <1>2, Effects DEF Delete, Live
  <2>2. UNCHANGED <<banned, revoked, access, disputed, foreign, unguarded>>
    BY <1>2 DEF Delete, guardVars, historyVars
  <2> QED
    BY <2>1, <2>2, DeletingIsQuiet
<1>3. ASSUME NEW q \in Request, NEW u \in User, RevokeAll(q, u) PROVE Quiet(id)
  <2>1. Deleting(q, RowsOf(u), NoDevice)
    BY <1>3 DEF RevokeAll
  <2>2. UNCHANGED <<banned, revoked, access, disputed, foreign, unguarded>>
    BY <1>3 DEF RevokeAll, guardVars, historyVars
  <2>3. \A i \in Id : i \in RowsOf(u) => row[i].dev # NoDevice
    BY Effects DEF RowsOf, Live
  <2> QED
    BY <2>1, <2>2, <2>3, DeletingIsQuiet
<1>a. UNCHANGED r => \A q \in Request : QuietRequest(r[q], r'[q], id)
  BY DEF QuietRequest
<1>b. ASSUME NEW ids, row' = Without(ids), unguarded' = unguarded \cup (ids \cap Live \cap access)
      PROVE  QuietRow(id)
  <2>1. row'[id].dev = row[id].dev /\ (IF id \in ids THEN ~row'[id].live ELSE row'[id] = row[id])
    BY <1>b, Effects
  <2> QED
    BY <1>b, <2>1 DEF QuietRow, Live
<1>4. ASSUME NEW u \in User, ChangeCredentials(u) \/ DeleteUser(u) PROVE Quiet(id)
  <2>1. row' = Without(RowsOf(u)) /\ unguarded' = unguarded \cup (RowsOf(u) \cap access)
    BY <1>4 DEF ChangeCredentials, DeleteUser
  <2>2. UNCHANGED <<banned, revoked, access, disputed, foreign, r>>
    BY <1>4 DEF ChangeCredentials, DeleteUser, guardVars
  <2>3. unguarded' = unguarded \cup (RowsOf(u) \cap Live \cap access)
    BY <2>1, Effects
  <2> QED
    BY <1>a, <1>b, <2>1, <2>2, <2>3 DEF Quiet
<1>5. ASSUME CleanupDelete PROVE Quiet(id)
  <2>1. UNCHANGED <<banned, revoked, access, disputed, foreign, r>>
    BY <1>5 DEF CleanupDelete, guardVars
  <2> QED
    BY <1>5, <1>a, <1>b, <2>1 DEF Quiet, CleanupDelete
<1>6. ASSUME CleanupList \/ UNCHANGED vars \/ \E d, e \in Device : CopyProfile(d, e) PROVE Quiet(id)
  <2>1. UNCHANGED <<row, banned, revoked, access, disputed, foreign, unguarded, r>>
    BY <1>6 DEF CleanupList, CopyProfile, vars, guardVars, historyVars
  <2> QED
    BY <1>a, <2>1, QuietRowSame DEF Quiet
<1>7. ASSUME NEW i \in Id, GoStale(i) PROVE Quiet(id)
  <2>1. UNCHANGED <<banned, revoked, access, disputed, foreign, unguarded, r>>
    BY <1>7 DEF GoStale, guardVars, historyVars
  <2>2. row'[id].live = row[id].live /\ row'[id].dev = row[id].dev /\ row'[id].banned = row[id].banned
    BY <1>0, <1>7 DEF GoStale, Rows
  <2> QED
    BY <1>a, <2>1, <2>2 DEF Quiet, QuietRow
<1> QED
  BY <1>1, <1>2, <1>3, <1>4, <1>5, <1>6, <1>7

\* A request that ends takes nothing with it but what it owed.
LEMMA Ending ==
  ASSUME Types, NEW q \in Request, Finish(q)
  PROVE  /\ r'[q].at \notin BanUnderWay \cup RevokeUnderWay /\ r'[q].ids = {}
         /\ \A p \in Request \ {q} : r'[p] = r[p]
BY Effects DEF Finish, BanUnderWay, RevokeUnderWay

\* The revocations that tell the guard of rows that are gone.
LEMMA RevokingKeepsGuarded ==
  ASSUME Types, NEW id \in Id, Guarded(id), NEW q \in Request, RevokeEvicted(q) \/ Revoke(q)
  PROVE  Guarded(id)'
<1>0. r \in [Request -> Requests] /\ r[q] \in Requests
  BY DEF Types
<1>1. /\ row' = row /\ banned' = banned /\ access' = access /\ unguarded' = unguarded /\ disputed' = disputed
      /\ foreign' = foreign /\ revoked'[id] = IF id \in r[q].ids THEN "covers" ELSE revoked[id]
  BY DEF RevokeEvicted, Revoke, historyVars, Covering
<1>2. r[q].at \in RevokeUnderWay
  BY DEF RevokeEvicted, Revoke, IsAt, RevokeUnderWay
<1>3. /\ r'[q].at \notin BanUnderWay \cup RevokeUnderWay /\ r'[q].ids = {}
      /\ \A p \in Request \ {q} : r'[p] = r[p]
  <2>1. CASE RevokeEvicted(q)
    <3>1. r'[q] = [r[q] EXCEPT !.at = "create", !.ids = {}] /\ \A p \in Request \ {q} : r'[p] = r[p]
      BY <1>0, <2>1 DEF RevokeEvicted
    <3>2. r'[q].at = "create" /\ r'[q].ids = {}
      BY <1>0, <3>1 DEF Requests
    <3> QED
      BY <3>1, <3>2 DEF BanUnderWay, RevokeUnderWay
  <2>2. CASE Revoke(q)
    BY <2>2, Ending DEF Revoke
  <2> QED
    BY <2>1, <2>2
<1>4. id \in r[q].ids => Gone(id)
  BY <1>2 DEF Guarded, RequestKnowsRow
<1>5. GuardKnowsRows(id)'
  BY <1>1, <1>4 DEF Guarded, GuardKnowsRows, Gone
<1>6. Follows(id)'
  <2>1. \A p \in Request : r[p].at \in BanUnderWay => r'[p] = r[p]
    BY <1>2, <1>3 DEF BanUnderWay, RevokeUnderWay
  <2> QED
    BY <1>1, <2>1 DEF Guarded, Follows
<1>7. Blocked(id)'
  <2>1. CASE id \in r[q].ids
    BY <1>1, <2>1 DEF Blocked
  <2>2. CASE id \notin r[q].ids
    BY <1>1, <1>3, <2>2 DEF Guarded, Blocked
  <2> QED
    BY <2>1, <2>2
<1>8. \A p \in Request : RequestKnowsRow(r[p], id)'
  BY <1>1, <1>3 DEF Guarded, RequestKnowsRow, Gone
<1> QED
  BY <1>5, <1>6, <1>7, <1>8 DEF Guarded

\* A new access token: one of a row that is gone is not covered, and is counted.
LEMMA RespondKeepsGuarded ==
  ASSUME Types, NEW id \in Id, Guarded(id), NEW q \in Request, Respond(q)
  PROVE  Guarded(id)'
<1>0. revoked \in [Id -> {"no", "covers", "older"}] /\ r[q].at = "respond"
  BY DEF Types, Respond, IsAt
<1>1. row' = row /\ banned' = banned /\ disputed' = disputed /\ foreign' = foreign /\ Finish(q)
  BY DEF Respond
<1>2. /\ revoked'[id] = revoked[id] \/ (id = r[q].id /\ revoked[id] = "covers" /\ revoked'[id] = "older")
      /\ id \in access' => id \in access \/ (id = r[q].id)
      /\ unguarded \subseteq unguarded'
      /\ id = r[q].id /\ ~row[id].live => id \in unguarded'
  BY <1>0 DEF Respond, Live
<1>3. \A p \in Request : r[p].at \in BanUnderWay \cup RevokeUnderWay => r'[p] = r[p]
  BY <1>0, <1>1, Ending DEF BanUnderWay, RevokeUnderWay
<1>4. GuardKnowsRows(id)'
  BY <1>1, <1>2 DEF Guarded, GuardKnowsRows, Gone
<1>5. Follows(id)'
  BY <1>1, <1>3 DEF Guarded, Follows
<1>6. Blocked(id)'
  BY <1>1, <1>2, <1>3 DEF Guarded, Blocked
<1>7. \A p \in Request : RequestKnowsRow(r[p], id)'
  BY <1>1, Ending DEF Guarded, RequestKnowsRow, Gone
<1> QED
  BY <1>4, <1>5, <1>6, <1>7 DEF Guarded

\* The second halves of a ban and of an unban.
LEMMA GuardBanKeepsGuarded ==
  ASSUME Types, NEW id \in Id, Guarded(id), NEW q \in Request, GuardBan(q)
  PROVE  Guarded(id)'
<1>1. /\ row' = row /\ access' = access /\ disputed' = disputed /\ foreign' = foreign /\ unguarded' = unguarded
      /\ banned' = banned \cup r[q].ids /\ r[q].at = "guardBan" /\ Finish(q)
      /\ revoked'[id] = IF id \in r[q].ids THEN "no" ELSE revoked[id]
  BY DEF GuardBan, IsAt, historyVars
<1>2. RequestKnowsRow(r[q], id)
  BY DEF Guarded
<1>3. GuardKnowsRows(id)'
  BY <1>1, <1>2 DEF Guarded, GuardKnowsRows, RequestKnowsRow, Gone
<1>4. Follows(id)'
  <2>1. CASE id \in r[q].ids
    BY <1>1, <1>2, <2>1 DEF Follows, RequestKnowsRow
  <2>2. CASE id \notin r[q].ids
    BY <1>1, <2>2, Ending DEF Guarded, Follows
  <2> QED
    BY <2>1, <2>2
<1>5. Blocked(id)'
  <2>1. \A p \in Request : r[p].at \in RevokeUnderWay => r'[p] = r[p]
    BY <1>1, Ending DEF RevokeUnderWay
  <2> QED
    BY <1>1, <2>1 DEF Guarded, Blocked
<1>6. \A p \in Request : RequestKnowsRow(r[p], id)'
  BY <1>1, Ending DEF Guarded, RequestKnowsRow, Gone
<1> QED
  BY <1>3, <1>4, <1>5, <1>6 DEF Guarded

LEMMA GuardUnbanKeepsGuarded ==
  ASSUME Types, NEW id \in Id, Guarded(id), NEW q \in Request, GuardUnban(q)
  PROVE  Guarded(id)'
<1>1. /\ row' = row /\ access' = access /\ disputed' = disputed /\ foreign' = foreign /\ revoked' = revoked
      /\ unguarded' = unguarded \cup ((r[q].ids \cap access) \ Live)
      /\ banned' = banned \ r[q].ids /\ r[q].at = "guardUnban" /\ Finish(q)
  BY DEF GuardUnban, IsAt
<1>2. RequestKnowsRow(r[q], id)
  BY DEF Guarded
<1>3. GuardKnowsRows(id)'
  BY <1>1 DEF Guarded, GuardKnowsRows, Gone
<1>4. Follows(id)'
  <2>1. CASE id \in r[q].ids
    BY <1>1, <1>2, <2>1 DEF Follows, RequestKnowsRow
  <2>2. CASE id \notin r[q].ids
    BY <1>1, <2>2, Ending DEF Guarded, Follows
  <2> QED
    BY <2>1, <2>2
<1>5. Blocked(id)'
  <2>1. \A p \in Request : r[p].at \in RevokeUnderWay => r'[p] = r[p]
    BY <1>1, Ending DEF RevokeUnderWay
  <2> QED
    BY <1>1, <2>1 DEF Guarded, Blocked, Live
<1>6. \A p \in Request : RequestKnowsRow(r[p], id)'
  BY <1>1, Ending DEF Guarded, RequestKnowsRow, Gone
<1> QED
  BY <1>3, <1>4, <1>5, <1>6 DEF Guarded

\* The first halves: another one of the same row under way is a dispute.
LEMMA FirstHalfKeepsGuarded ==
  ASSUME Types, NEW id \in Id, Guarded(id), NEW q \in Request, NEW i \in Id, NEW x,
         x.at \in BanUnderWay, x.ids = {i}, r' = [r EXCEPT ![q] = x], r[q].at = "idle",
         UNCHANGED <<banned, revoked, access, unguarded>>, disputed' = Disputing(q, i),
         foreign \subseteq foreign', foreign' \subseteq foreign \cup {i},
         row[i].dev # NoDevice \/ i \in foreign', row'[id].live = row[id].live, row'[id].dev = row[id].dev,
         id # i => row'[id].banned = row[id].banned,
         id = i /\ row[id].live => (row'[id].banned <=> x.at = "guardBan") \/ i \in foreign'
  PROVE  Guarded(id)'
<1>1. banned' = banned /\ revoked' = revoked /\ access' = access /\ unguarded' = unguarded
  OBVIOUS
<1>4. r'[q] = x /\ \A p \in Request \ {q} : r'[p] = r[p]
  <2>1. r \in [Request -> Requests]
    BY DEF Types
  <2> QED
    BY <2>1
<1>5. /\ \A j : j \in disputed => j \in disputed'
      /\ \A j : j # i => (j \in disputed' => j \in disputed)
      /\ \A p \in Request \ {q} : r[p].at \in BanUnderWay /\ i \in r[p].ids /\ row[i].live => i \in disputed'
  BY DEF Disputing, Live, BanUnderWay
<1>6. /\ foreign \subseteq foreign' /\ foreign' \subseteq foreign \cup {i}
      /\ row[i].dev # NoDevice \/ i \in foreign'
  OBVIOUS
<1>7. GuardKnowsRows(id)'
  BY <1>1, <1>6 DEF Guarded, GuardKnowsRows, Gone
<1>8. \A p \in Request : r[p].at \in BanUnderWay \cup RevokeUnderWay => r'[p] = r[p]
  BY <1>4 DEF BanUnderWay, RevokeUnderWay
<1>9. Follows(id)'
  <2>1. CASE id = i
    BY <1>4, <2>1 DEF Follows
  <2>2. CASE id # i
    BY <1>1, <1>5, <1>6, <1>8, <2>2 DEF Guarded, Follows
  <2> QED
    BY <2>1, <2>2
<1>10. Blocked(id)'
  BY <1>1, <1>8 DEF Guarded, Blocked
<1>11. ASSUME NEW p \in Request PROVE RequestKnowsRow(r[p], id)'
  <2>0. RequestKnowsRow(r[p], id)
    BY DEF Guarded
  <2>1. CASE p = q
    BY <1>4, <1>6, <2>1 DEF RequestKnowsRow, BanUnderWay, RevokeUnderWay
  <2>2. CASE p # q /\ id # i
    BY <1>4, <1>5, <1>6, <2>0, <2>2 DEF RequestKnowsRow, Gone
  <2>3. CASE p # q /\ id = i
    BY <1>4, <1>5, <1>6, <2>0, <2>3 DEF RequestKnowsRow, Gone, BanUnderWay
  <2> QED
    BY <2>1, <2>2, <2>3
<1> QED
  BY <1>7, <1>9, <1>10, <1>11 DEF Guarded

LEMMA BanningKeepsGuarded ==
  ASSUME Types, NEW id \in Id, Guarded(id), NEW q \in Request, NEW i \in Id
  PROVE  Ban(q, i) \/ Unban(q, i) => Guarded(id)'
<1>0. row \in [Id -> Rows] /\ row[i] \in Rows
  BY DEF Types
<1>a. /\ [Idle EXCEPT !.at = "guardBan", !.ids = {i}].at = "guardBan"
      /\ [Idle EXCEPT !.at = "guardBan", !.ids = {i}].ids = {i}
      /\ [Idle EXCEPT !.at = "guardUnban", !.ids = {i}].at = "guardUnban"
      /\ [Idle EXCEPT !.at = "guardUnban", !.ids = {i}].ids = {i}
  BY DEF Idle
<1>b. "guardBan" \in BanUnderWay /\ "guardUnban" \in BanUnderWay
  BY DEF BanUnderWay
<1>c. row[i].live => row[i].dev # NoDevice
  BY Effects
<1>d. /\ foreign \subseteq Meddling(i) /\ Meddling(i) \subseteq foreign \cup {i}
      /\ row[i].dev # NoDevice \/ i \in Meddling(i)
      /\ row[i].live => i \in Meddling(i)
  BY DEF Meddling, Live
<1>1. ASSUME Ban(q, i) PROVE Guarded(id)'
  <2> DEFINE x == [Idle EXCEPT !.at = "guardBan", !.ids = {i}]
  <2>1. r' = [r EXCEPT ![q] = x] /\ x.at = "guardBan" /\ x.ids = {i}
    BY <1>1, <1>a DEF Ban
  <2>2. /\ UNCHANGED <<banned, revoked, access, unguarded>> /\ disputed' = Disputing(q, i)
        /\ r[q].at = "idle"
    BY <1>1 DEF Ban, IsAt, guardVars
  <2> HIDE DEF x
  <2>3. CASE row[i].live /\ row' = [row EXCEPT ![i].banned = TRUE, ![i].cur = Null, ![i].prev = Null]
             /\ UNCHANGED foreign
    <3>1. row' = [row EXCEPT ![i] = [row[i] EXCEPT !.banned = TRUE, !.cur = Null, !.prev = Null]]
      BY <2>3
    <3>2. /\ row'[id].live = row[id].live /\ row'[id].dev = row[id].dev
          /\ id # i => row'[id].banned = row[id].banned
          /\ id = i => row'[id].banned
      BY <1>0, <3>1 DEF Rows
    <3> QED
      BY <1>b, <1>c, <2>1, <2>2, <2>3, <3>2, FirstHalfKeepsGuarded
  <2>4. CASE UNCHANGED row /\ foreign' = Meddling(i)
    BY <1>b, <1>d, <2>1, <2>2, <2>4, FirstHalfKeepsGuarded
  <2> QED
    BY <1>1, <2>3, <2>4 DEF Ban, RowsOf, Live
<1>2. ASSUME Unban(q, i) PROVE Guarded(id)'
  <2> DEFINE x == [Idle EXCEPT !.at = "guardUnban", !.ids = {i}]
  <2>1. r' = [r EXCEPT ![q] = x] /\ x.at = "guardUnban" /\ x.ids = {i}
    BY <1>2, <1>a DEF Unban
  <2>2. /\ UNCHANGED <<banned, revoked, access, unguarded>> /\ disputed' = Disputing(q, i)
        /\ r[q].at = "idle"
    BY <1>2 DEF Unban, IsAt, guardVars
  <2> HIDE DEF x
  <2>3. CASE row[i].live /\ row' = [row EXCEPT ![i].banned = FALSE] /\ UNCHANGED foreign
    <3>1. row' = [row EXCEPT ![i] = [row[i] EXCEPT !.banned = FALSE]]
      BY <2>3
    <3>2. /\ row'[id].live = row[id].live /\ row'[id].dev = row[id].dev
          /\ id # i => row'[id].banned = row[id].banned
          /\ id = i => ~row'[id].banned
      BY <1>0, <3>1 DEF Rows
    <3> QED
      BY <1>b, <1>c, <2>1, <2>2, <2>3, <3>2, FirstHalfKeepsGuarded
  <2>4. CASE UNCHANGED row /\ foreign' = Meddling(i)
    BY <1>b, <1>d, <2>1, <2>2, <2>4, FirstHalfKeepsGuarded
  <2> QED
    BY <1>2, <2>3, <2>4 DEF Unban, RowsOf, Live
<1> QED
  BY <1>1, <1>2

\* Time: no entry is dropped while a token it covers lives.
LEMMA ExpireKeepsGuarded ==
  ASSUME Types, NEW id \in Id, Guarded(id), NEW i \in Id, Expire(i)
  PROVE  Guarded(id)'
<1>1. row' = row /\ banned' = banned /\ disputed' = disputed /\ foreign' = foreign /\ r' = r
  BY DEF Expire
<1>2. CASE /\ i \in access /\ revoked[i] # "older"
           /\ access' = access \ {i} /\ unguarded' = unguarded \ {i} /\ UNCHANGED revoked
  BY <1>1, <1>2 DEF Guarded, GuardKnowsRows, Follows, Blocked, RequestKnowsRow, Gone
<1>3. CASE /\ revoked[i] = "older" \/ (revoked[i] = "covers" /\ i \notin access)
           /\ revoked' = [revoked EXCEPT ![i] = "no"] /\ UNCHANGED <<access, unguarded>>
  <2>1. revoked'[id] = IF id = i THEN "no" ELSE revoked[id]
    BY <1>3 DEF Types
  <2>2. Blocked(id)'
    BY <1>1, <1>3, <2>1 DEF Guarded, GuardKnowsRows, Blocked
  <2> QED
    BY <1>1, <1>3, <2>1, <2>2 DEF Guarded, GuardKnowsRows, Follows, RequestKnowsRow, Gone
<1> QED
  BY <1>2, <1>3 DEF Expire

\* A restart loads the bans and forgets the revocations.
LEMMA RestartKeepsGuarded ==
  ASSUME Types, NEW id \in Id, Restart
  PROVE  Guarded(id)'
<1>1. /\ row' = row /\ access' = access /\ revoked'[id] = "no" /\ disputed' = {}
      /\ banned' = {i \in Live : row[i].banned} /\ unguarded' = unguarded \cup (access \ Live)
      /\ \A q \in Request : r'[q].at = "idle" /\ r'[q].ids = {}
  BY Effects DEF Restart
<1>2. id \in banned' <=> row[id].live /\ row[id].banned
  BY <1>1 DEF Live
<1>3. row[id].live => row[id].dev # NoDevice
  BY Effects
<1> QED
  BY <1>1, <1>2, <1>3 DEF Guarded, GuardKnowsRows, Follows, Blocked, RequestKnowsRow, Live

LEMMA GuardedKept ==
  ASSUME Types, [Next]_vars, NEW id \in Id, Guarded(id)
  PROVE  Guarded(id)'
<1>1. ASSUME NEW q \in Request, Step(q) PROVE Guarded(id)'
  <2>1. CASE LoginCount(q) \/ LoginChoose(q) \/ LoginEvict(q) \/ LoginCreate(q)
    BY <2>1, SignInIsQuiet, QuietKeepsGuarded
  <2>2. CASE RefreshFind(q) \/ RefreshUserGone(q) \/ DeleteAll(q) \/ UpdateSession(q)
    BY <2>2, SignInIsQuiet, QuietKeepsGuarded
  <2>3. CASE RevokeEvicted(q) \/ Revoke(q)
    BY <2>3, RevokingKeepsGuarded
  <2>4. CASE Respond(q)
    BY <2>4, RespondKeepsGuarded
  <2>5. CASE GuardBan(q)
    BY <2>5, GuardBanKeepsGuarded
  <2>6. CASE GuardUnban(q)
    BY <2>6, GuardUnbanKeepsGuarded
  <2> QED
    BY <1>1, <2>1, <2>2, <2>3, <2>4, <2>5, <2>6 DEF Step
<1>2. ASSUME NEW q \in Request, NEW d \in Device, Login(q, d) PROVE Guarded(id)'
  BY <1>2, SignInIsQuiet, QuietKeepsGuarded
<1>3. ASSUME NEW q \in Request, NEW i \in Id, Manage(q, i) PROVE Guarded(id)'
  <2>1. CASE Logout(q, i) \/ Delete(q, i)
    BY <2>1, ManageIsQuiet, QuietKeepsGuarded
  <2>2. CASE Ban(q, i) \/ Unban(q, i)
    BY <2>2, BanningKeepsGuarded
  <2> QED
    BY <1>3, <2>1, <2>2 DEF Manage
<1>4. ASSUME NEW q \in Request, NEW u \in User, RevokeAll(q, u) PROVE Guarded(id)'
  BY <1>4, ManageIsQuiet, QuietKeepsGuarded
<1>5. ASSUME NEW u \in User, ChangeCredentials(u) \/ DeleteUser(u) PROVE Guarded(id)'
  BY <1>5, ManageIsQuiet, QuietKeepsGuarded
<1>6. CASE CleanupList \/ CleanupDelete \/ UNCHANGED vars
  BY <1>6, ManageIsQuiet, QuietKeepsGuarded
<1>7. CASE Restart
  BY <1>7, RestartKeepsGuarded
<1>8. ASSUME NEW i \in Id, GoStale(i) \/ Expire(i) PROVE Guarded(id)'
  BY <1>8, ManageIsQuiet, QuietKeepsGuarded, ExpireKeepsGuarded
<1>9. ASSUME NEW d \in Device, NEW e \in Device, CopyProfile(d, e) PROVE Guarded(id)'
  BY <1>9, ManageIsQuiet, QuietKeepsGuarded
<1> QED
  BY <1>1, <1>2, <1>3, <1>4, <1>5, <1>6, <1>7, <1>8, <1>9 DEF Next

AllGuarded == \A id \in Id : Guarded(id)

LEMMA AlwaysGuarded == Spec => [](Types /\ AllGuarded)
<1>1. Init => Types /\ AllGuarded
  <2> SUFFICES ASSUME Init PROVE Types /\ AllGuarded
    OBVIOUS
  <2>1. Types
    BY InitTypes
  <2>2. ASSUME NEW id \in Id PROVE Guarded(id)
    <3>1. /\ ~row[id].live /\ banned = {} /\ access = {} /\ revoked[id] = "no"
          /\ \A q \in Request : r[q].ids = {}
      BY DEF Init, Absent, Deleted, Idle
    <3> QED
      BY <3>1 DEF Guarded, GuardKnowsRows, Follows, Blocked, RequestKnowsRow
  <2> QED
    BY <2>1, <2>2 DEF AllGuarded
<1>2. Types /\ AllGuarded /\ [Next]_vars => (Types /\ AllGuarded)'
  BY TypePreserved, GuardedKept DEF AllGuarded
<1> QED
  BY <1>1, <1>2, PTL DEF Spec

\* Ban and unban change the table first and the guard after, and a restart loads
\* the guard from the table: the two agree on every row that is there, whatever
\* is logged in, deleted, evicted or restarted in between.
THEOREM GuardStaysInStep == Spec => []GuardFollowsBans
<1>1. Types /\ AllGuarded => GuardFollowsBans
  BY DEF AllGuarded, Guarded, Follows, GuardFollowsBans, Live, BanUnderWay
<1> QED
  BY <1>1, AlwaysGuarded, PTL

\* A row that is gone is refused by the guard, revoked by a request under way, or
\* of the deletions the guard is not told of or forgets at a restart or an unban.
THEOREM DeletedStaysBlocked == Spec => []DeletedIsBlocked
<1>1. Types /\ AllGuarded => DeletedIsBlocked
  <2> SUFFICES ASSUME Types, AllGuarded, NEW id \in access \ Live
               PROVE  \/ IsBlocked(id) \/ id \in unguarded
                      \/ \E q \in Request : r[q].at \in {"evicted", "revoke"} /\ id \in r[q].ids
    BY DEF DeletedIsBlocked
  <2>1. id \in Id /\ ~row[id].live
    BY DEF Types, Live
  <2> QED
    BY <2>1 DEF AllGuarded, Guarded, Blocked, IsBlocked, RevokeUnderWay
<1> QED
  BY <1>1, AlwaysGuarded, PTL

-----------------------------------------------------------------------------
(* Tokens: who may know one, and what an installation whose user is not spoiled *)
(* can rely on.                                                                 *)

\* An installation holds a token, has sent it in a request, or has it in its row.
Knows(d, t) ==
  \/ held[d] = t
  \/ \E id \in SessionOf(d) : t \in {row[id].cur, row[id].prev}
  \/ \E q \in Request : r[q].dev = d /\ r[q].token = t

\* A token has been stored, and is known to one installation, or to several of a
\* spoiled user.
Homes ==
  \A t \in Token, d, e \in Device :
    Knows(d, t) =>
      t <= last /\ (Knows(e, t) => d = e \/ (Owner[d] = Owner[e] /\ Owner[d] \in spoiled))

\* Ids are given out in order, and the live row of an installation is its last.
RowsInOrder ==
  /\ \A id \in Id : row[id].dev = NoDevice => row[id] = Absent
  /\ \A i, j \in Id : i < j /\ row[i].dev = NoDevice => row[j].dev = NoDevice
  /\ \A i, j \in Id : i < j /\ row[i].live => row[j].dev # row[i].dev

\* What a request has found out at each point.
Fits(x) ==
  /\ x.at = "find" => x.token \in Token
  /\ x.at \in {"update", "respond"} => row[x.id].dev = x.dev
  /\ x.at = "accused" => x.user \subseteq spoiled /\ x.dev \in Device /\ Owner[x.dev] \in spoiled

\* A row of d knows t, or nothing, and t has not been rotated away.
RowKnows(d, t) ==
  \A id \in SessionOf(d) : row[id].cur \in {Null, t} /\ (t = Null \/ row[id].prev # t)

\* Points of a request at which its installation has no row.
Rowless == {"count", "evict", "delete", "evicted", "create", "revoke"}

Honest(d) ==
  Owner[d] \notin spoiled =>
    /\ \A p, q \in Request : r[p].dev = d /\ r[q].dev = d => p = q
    /\ (\A q \in Request : r[q].dev = d => r[q].at # "respond") => RowKnows(d, held[d])
    /\ \A q \in Request : r[q].dev = d =>
         /\ r[q].at = "respond" => RowKnows(d, r[q].token)
         /\ r[q].at \in Rowless => SessionOf(d) = {}
         /\ r[q].at \in {"update", "respond"} => SessionOf(d) \subseteq {r[q].id}

TokenInv ==
  /\ Types /\ RowsInOrder /\ Homes
  /\ \A q \in Request : Fits(r[q])
  /\ \A d \in Device : Honest(d)

-----------------------------------------------------------------------------

\* Steps that bring d nothing: its rows go, stay or lose their tokens, and its
\* requests end, stay or make room.
RowSpared(id, d) ==
  row'[id].live /\ row'[id].dev = d =>
    /\ row[id].live /\ row[id].dev = d
    /\ \/ row'[id].cur = row[id].cur /\ row'[id].prev = row[id].prev
       \/ row'[id].cur = Null /\ row'[id].prev = Null
RequestSpared(x, y, d) ==
  /\ y.dev = d => /\ x.dev = d /\ y.token = x.token
                  /\ \/ y.at = x.at /\ y.id = x.id
                     \/ {x.at, y.at} \subseteq Rowless
  /\ x.dev = d /\ x.at = "respond" => y.dev = d /\ y.at = "respond"
Spared(d) ==
  /\ held'[d] = held[d] /\ spoiled \subseteq spoiled'
  /\ \A id \in Id : RowSpared(id, d)
  /\ \A q \in Request : RequestSpared(r[q], r'[q], d)

LEMMA SparedStaysHonest ==
  ASSUME NEW d \in Device, Honest(d), Spared(d)
  PROVE  Honest(d)'
<1> SUFFICES ASSUME Owner[d] \notin spoiled' PROVE Honest(d)'
  BY DEF Honest
<1>1. Owner[d] \notin spoiled /\ held'[d] = held[d]
  BY DEF Spared
<1>2. \A id \in Id : RowSpared(id, d)
  BY DEF Spared
<1>3. \A q \in Request : RequestSpared(r[q], r'[q], d)
  BY DEF Spared
<1>4. SessionOf(d)' \subseteq SessionOf(d)
  BY <1>2 DEF SessionOf, Live, RowSpared
<1>5. ASSUME NEW t, RowKnows(d, t) PROVE \A id \in SessionOf(d)' : row'[id].cur \in {Null, t} /\ (t = Null \/ row'[id].prev # t)
  BY <1>2, <1>4, <1>5 DEF RowKnows, SessionOf, Live, RowSpared
<1>6. \A p, q \in Request : r'[p].dev = d /\ r'[q].dev = d => p = q
  BY <1>1, <1>3 DEF Honest, RequestSpared
<1>7. ASSUME \A q \in Request : r'[q].dev = d => r'[q].at # "respond"
      PROVE  RowKnows(d, held[d])'
  <2>1. \A q \in Request : r[q].dev = d => r[q].at # "respond"
    BY <1>3, <1>7 DEF RequestSpared
  <2>2. RowKnows(d, held[d])
    BY <1>1, <2>1 DEF Honest
  <2>3. \A id \in SessionOf(d)' : row'[id].cur \in {Null, held[d]} /\ (held[d] = Null \/ row'[id].prev # held[d])
    BY <1>5, <2>2
  <2> QED
    BY <1>1, <2>3 DEF RowKnows
<1>8. ASSUME NEW q \in Request, r'[q].dev = d
      PROVE  /\ r'[q].at = "respond" => RowKnows(d, r[q].token)'
             /\ r'[q].at \in Rowless => SessionOf(d)' = {}
             /\ r'[q].at \in {"update", "respond"} => SessionOf(d)' \subseteq {r'[q].id}
  <2>1. /\ r[q].dev = d /\ r'[q].token = r[q].token
        /\ \/ r'[q].at = r[q].at /\ r'[q].id = r[q].id
           \/ {r[q].at, r'[q].at} \subseteq Rowless
    BY <1>3, <1>8 DEF RequestSpared
  <2>2. /\ r[q].at = "respond" => RowKnows(d, r[q].token)
        /\ r[q].at \in Rowless => SessionOf(d) = {}
        /\ r[q].at \in {"update", "respond"} => SessionOf(d) \subseteq {r[q].id}
    BY <1>1, <2>1 DEF Honest
  <2>3. r'[q].at = "respond" => RowKnows(d, r[q].token)'
    <3> SUFFICES ASSUME r'[q].at = "respond" PROVE RowKnows(d, r[q].token)'
      OBVIOUS
    <3>1. r[q].at = "respond"
      BY <2>1 DEF Rowless
    <3>2. RowKnows(d, r[q].token)
      BY <2>2, <3>1
    <3> QED
      BY <1>5, <2>1, <3>2 DEF RowKnows
  <2>4. r'[q].at \in {"update", "respond"} => r[q].at = r'[q].at /\ r[q].id = r'[q].id
    BY <2>1 DEF Rowless
  <2>5. r'[q].at \in Rowless => r[q].at \in Rowless
    BY <2>1
  <2> QED
    BY <1>4, <2>2, <2>3, <2>4, <2>5
<1> QED
  BY <1>6, <1>7, <1>8 DEF Honest

\* What d knows after a step: nothing new, but for what its requests hold.
LEMMA SparedLearnsNothing ==
  ASSUME NEW d \in Device, NEW t \in Token, Spared(d), Knows(d, t)'
  PROVE  Knows(d, t)
<1>1. held'[d] = held[d] /\ (\A id \in Id : RowSpared(id, d)) /\ \A q \in Request : RequestSpared(r[q], r'[q], d)
  BY DEF Spared
<1>2. t # Null
  BY DeviceAuthAssumption DEF Token, Null
<1>3. CASE \E id \in SessionOf(d)' : t \in {row'[id].cur, row'[id].prev}
  BY <1>1, <1>2, <1>3 DEF Knows, RowSpared, SessionOf, Live
<1>4. CASE \E q \in Request : r'[q].dev = d /\ r'[q].token = t
  BY <1>1, <1>4 DEF Knows, RequestSpared
<1>5. CASE held'[d] = t
  BY <1>1, <1>5 DEF Knows
<1> QED
  BY <1>3, <1>4, <1>5 DEF Knows

\* Homes when nobody learns anything, and when one installation learns the token
\* that has just been stored.
LEMMA HomesKept ==
  ASSUME Homes, spoiled \subseteq spoiled', last' = last,
         \A d \in Device, t \in Token : Knows(d, t)' => Knows(d, t)
  PROVE  Homes'
BY DEF Homes

LEMMA HomesGrow ==
  ASSUME Types, Homes, spoiled \subseteq spoiled', last' = last + 1, NEW h \in Device,
         \A d \in Device, t \in Token : Knows(d, t)' => Knows(d, t) \/ (d = h /\ t = last + 1)
  PROVE  Homes'
<1>1. last \in Nat /\ \A t \in Token : t \in Nat
  BY DeviceAuthAssumption DEF Types, Token
<1>2. \A d \in Device, t \in Token : Knows(d, t) => t <= last
  BY DEF Homes
<1>3. ASSUME NEW t \in Token, NEW d \in Device, NEW e \in Device, Knows(d, t)'
      PROVE  t <= last + 1 /\ (Knows(e, t)' => d = e \/ (Owner[d] = Owner[e] /\ Owner[d] \in spoiled'))
  BY <1>1, <1>2, <1>3 DEF Homes
<1> QED
  BY <1>3 DEF Homes

LEMMA OrderKept ==
  ASSUME RowsInOrder,
         \A id \in Id : /\ row'[id].dev = row[id].dev /\ (row'[id].live => row[id].live)
                        /\ row[id].dev = NoDevice => row'[id] = row[id]
  PROVE  RowsInOrder'
<1>1. \A id \in Id : row'[id].dev = NoDevice => row'[id] = Absent
  BY DEF RowsInOrder
<1>2. \A i, j \in Id : i < j /\ row'[i].dev = NoDevice => row'[j].dev = NoDevice
  BY DEF RowsInOrder
<1>3. \A i, j \in Id : i < j /\ row'[i].live => row'[j].dev # row'[i].dev
  BY DEF RowsInOrder
<1> QED
  BY <1>1, <1>2, <1>3 DEF RowsInOrder, Absent, Deleted

-----------------------------------------------------------------------------
(* Steps that bring nobody anything *)

RowFades(id) ==
  /\ row'[id].dev = row[id].dev /\ (row'[id].live => row[id].live)
  /\ row[id].dev = NoDevice => row'[id] = row[id]
  /\ \/ row'[id].cur = row[id].cur /\ row'[id].prev = row[id].prev
     \/ row'[id].cur = Null /\ row'[id].prev = Null
RequestFades(x, y) ==
  \/ y = x
  \/ y.dev = NoDevice /\ x.at # "respond" /\ y.at \in {"idle", "guardBan", "guardUnban", "revoke"}
  \/ y.dev = x.dev /\ y.token = x.token /\ {x.at, y.at} \subseteq Rowless
Fades ==
  /\ held' = held /\ last' = last /\ spoiled \subseteq spoiled'
  /\ \A id \in Id : RowFades(id)
  /\ \A q \in Request : RequestFades(r[q], r'[q])

\* What a request has found out stays true while no row changes hands.
LEMMA FitsStay ==
  ASSUME Types, NEW q \in Request, Fits(r[q]), r'[q] = r[q], spoiled \subseteq spoiled',
         \A id \in Id : row[id].dev # NoDevice => row'[id].dev = row[id].dev
  PROVE  Fits(r[q])'
<1>1. r[q] \in Requests
  BY DEF Types
<1>2. r[q].at \in {"update", "respond"} => r[q].id \in Id /\ r[q].dev \in Device
  BY <1>1 DEF Requests
<1>3. r[q].at \in {"update", "respond"} => row'[r[q].id].dev = r[q].dev
  BY <1>2, DeviceAuthAssumption DEF Fits
<1> QED
  BY <1>3 DEF Fits

LEMMA FadesKeep ==
  ASSUME TokenInv, Fades, Types'
  PROVE  TokenInv'
<1>0. Types /\ RowsInOrder /\ Homes /\ NoDevice \notin Device
  BY DeviceAuthAssumption DEF TokenInv
<1>1. ASSUME NEW d \in Device PROVE Spared(d)
  <2>1. \A id \in Id : RowSpared(id, d)
    BY DEF Fades, RowFades, RowSpared
  <2>2. ASSUME NEW q \in Request PROVE RequestSpared(r[q], r'[q], d)
    <3>1. RequestFades(r[q], r'[q])
      BY DEF Fades
    <3>2. CASE r'[q] = r[q]
      BY <3>2 DEF RequestSpared
    <3>3. CASE r'[q].dev = NoDevice /\ r[q].at # "respond"
      BY <1>0, <3>3 DEF RequestSpared
    <3>4. CASE r'[q].dev = r[q].dev /\ r'[q].token = r[q].token /\ {r[q].at, r'[q].at} \subseteq Rowless
      BY <3>4 DEF RequestSpared, Rowless
    <3> QED
      BY <3>1, <3>2, <3>3, <3>4 DEF RequestFades
  <2> QED
    BY <2>1, <2>2 DEF Fades, Spared
<1>2. RowsInOrder'
  BY <1>0, OrderKept DEF Fades, RowFades
<1>3. Homes'
  BY <1>0, <1>1, SparedLearnsNothing, HomesKept DEF Fades
<1>4. ASSUME NEW q \in Request PROVE Fits(r[q])'
  <2>1. RequestFades(r[q], r'[q]) /\ Fits(r[q])
    BY DEF Fades, TokenInv
  <2>2. CASE r'[q] = r[q]
    BY <1>0, <2>1, <2>2, FitsStay DEF Fades, RowFades
  <2>3. CASE r'[q].at \in {"idle", "guardBan", "guardUnban"} \cup Rowless
    BY <2>3 DEF Fits, Rowless
  <2> QED
    BY <2>1, <2>2, <2>3 DEF RequestFades, Rowless
<1>5. \A d \in Device : Honest(d)'
  BY <1>1, SparedStaysHonest DEF TokenInv
<1> QED
  BY <1>2, <1>3, <1>4, <1>5 DEF TokenInv

\* Rows that are deleted, and requests that end or begin without an installation.
LEMMA Deletions ==
  ASSUME Types, RowsInOrder
  PROVE  /\ \A ids : row' = Without(ids) => \A id \in Id : RowFades(id)
         /\ UNCHANGED row => \A id \in Id : RowFades(id)
         /\ \A q \in Request : \A x :
              r' = [r EXCEPT ![q] = x] /\ r[q].at # "respond" /\ x.dev = NoDevice
                   /\ x.at \in {"idle", "guardBan", "guardUnban", "revoke"}
                => \A p \in Request : RequestFades(r[p], r'[p])
         /\ \A q \in Request : Finish(q) /\ r[q].at # "respond"
                => \A p \in Request : RequestFades(r[p], r'[p])
         /\ UNCHANGED r => \A p \in Request : RequestFades(r[p], r'[p])
<1>0. r \in [Request -> Requests]
  BY DEF Types
<1>1. ASSUME NEW ids, row' = Without(ids), NEW id \in Id PROVE RowFades(id)
  <2>1. CASE id \notin ids
    BY <1>1, <2>1, Effects DEF RowFades
  <2>2. CASE id \in ids
    <3>1. row'[id] = Deleted(row[id].dev)
      BY <1>1, <2>2 DEF Without
    <3>2. row[id].dev = NoDevice => row[id] = Deleted(NoDevice)
      BY DEF RowsInOrder, Absent
    <3>3. row'[id].dev = row[id].dev /\ ~row'[id].live /\ row'[id].cur = Null /\ row'[id].prev = Null
      BY <3>1 DEF Deleted
    <3>4. row[id].dev = NoDevice => row'[id] = row[id]
      BY <3>1, <3>2
    <3> QED
      BY <3>3, <3>4 DEF RowFades
  <2> QED
    BY <2>1, <2>2
<1>2. ASSUME UNCHANGED row, NEW id \in Id PROVE RowFades(id)
  BY <1>2 DEF RowFades
<1>3. ASSUME NEW q \in Request, NEW x, r' = [r EXCEPT ![q] = x], r[q].at # "respond", x.dev = NoDevice,
             x.at \in {"idle", "guardBan", "guardUnban", "revoke"}
      PROVE  \A p \in Request : RequestFades(r[p], r'[p])
  BY <1>0, <1>3 DEF RequestFades
<1>4. Idle.dev = NoDevice /\ Idle.at = "idle"
  BY DEF Idle
<1>5. ASSUME NEW q \in Request, Finish(q), r[q].at # "respond"
      PROVE  \A p \in Request : RequestFades(r[p], r'[p])
  BY <1>3, <1>4, <1>5 DEF Finish
<1>6. UNCHANGED r => \A p \in Request : RequestFades(r[p], r'[p])
  BY DEF RequestFades
<1> QED
  BY <1>1, <1>2, <1>3, <1>5, <1>6

\* A request that makes room for a new row.
LEMMA MakingRoom ==
  ASSUME Types, NEW q \in Request, NEW x, r' = [r EXCEPT ![q] = x],
         x.dev = r[q].dev, x.token = r[q].token, {r[q].at, x.at} \subseteq Rowless
  PROVE  \A p \in Request : RequestFades(r[p], r'[p])
BY DEF Types, RequestFades

\* The steps of a request, of the administration and of time that bring nobody
\* anything.
LEMMA FadingSteps ==
  ASSUME Types, RowsInOrder
  PROVE  /\ \A q \in Request : LoginCount(q) \/ LoginChoose(q) \/ LoginEvict(q) \/ RevokeEvicted(q) => Fades
         /\ \A q \in Request : RefreshUserGone(q) \/ GuardBan(q) \/ GuardUnban(q) => Fades
         /\ \A q \in Request, id \in Id : Delete(q, id) \/ Ban(q, id) \/ Unban(q, id) => Fades
         /\ \A q \in Request, u \in User : RevokeAll(q, u) => Fades
         /\ \A u \in User : ChangeCredentials(u) \/ DeleteUser(u) => Fades
         /\ CleanupList \/ CleanupDelete \/ UNCHANGED vars => Fades
         /\ \A id \in Id : GoStale(id) \/ Expire(id) => Fades
<1>0. r \in [Request -> Requests] /\ row \in [Id -> Rows] /\ (\A i \in Id : row[i] \in Rows) /\ \A q \in Request : r[q] \in Requests
  BY DEF Types
<1>1. ASSUME NEW q \in Request, LoginCount(q) PROVE Fades
  <2>1. PICK point \in {"evict", "create"} : r' = [r EXCEPT ![q] = [r[q] EXCEPT !.at = point]]
    BY <1>1 DEF LoginCount
  <2> DEFINE x == [r[q] EXCEPT !.at = point]
  <2>2. r' = [r EXCEPT ![q] = x] /\ x.dev = r[q].dev /\ x.token = r[q].token /\ x.at = point
    BY <1>0, <2>1 DEF Requests
  <2> HIDE DEF x
  <2>3. r[q].at = "count" /\ UNCHANGED <<row, held, last, spoiled>>
    BY <1>1 DEF LoginCount, IsAt, historyVars
  <2>4. \A p \in Request : RequestFades(r[p], r'[p])
    BY <2>2, <2>3, MakingRoom DEF Rowless
  <2> QED
    BY <2>3, <2>4, Deletions DEF Fades
<1>2. ASSUME NEW q \in Request, LoginChoose(q) PROVE Fades
  <2>1. r[q].at = "evict" /\ UNCHANGED <<row, held, last, spoiled>>
    BY <1>2 DEF LoginChoose, IsAt, historyVars
  <2>3. \A p \in Request : RequestFades(r[p], r'[p])
    <3>1. CASE r' = [r EXCEPT ![q].at = "create"]
      <4> DEFINE x == [r[q] EXCEPT !.at = "create"]
      <4>1. r' = [r EXCEPT ![q] = x] /\ x.dev = r[q].dev /\ x.token = r[q].token /\ x.at = "create"
        BY <1>0, <3>1 DEF Requests
      <4> HIDE DEF x
      <4> QED
        BY <2>1, <4>1, MakingRoom DEF Rowless
    <3>2. ASSUME NEW id, r' = [r EXCEPT ![q].at = "delete", ![q].ids = {id}]
          PROVE  \A p \in Request : RequestFades(r[p], r'[p])
      <4> DEFINE x == [r[q] EXCEPT !.at = "delete", !.ids = {id}]
      <4>1. r' = [r EXCEPT ![q] = x] /\ x.dev = r[q].dev /\ x.token = r[q].token /\ x.at = "delete"
        BY <1>0, <3>2 DEF Requests
      <4> HIDE DEF x
      <4> QED
        BY <2>1, <4>1, MakingRoom DEF Rowless
    <3> QED
      BY <1>2, <3>1, <3>2 DEF LoginChoose
  <2> QED
    BY <2>1, <2>3, Deletions DEF Fades
<1>14. ASSUME NEW q \in Request, LoginEvict(q) PROVE Fades
  <2> DEFINE gone  == r[q].ids \cap Live
             point == IF gone = {} THEN "create" ELSE "evicted"
             x     == [r[q] EXCEPT !.at = point, !.ids = gone]
  <2>1. r[q].at = "delete" /\ UNCHANGED <<held, last, spoiled>> /\ row' = Without(r[q].ids)
    BY <1>14 DEF LoginEvict, IsAt, historyVars
  <2>2. r' = [r EXCEPT ![q] = x]
    BY <1>14 DEF LoginEvict
  <2>3. point \in {"create", "evicted"}
    OBVIOUS
  <2>4. x.dev = r[q].dev /\ x.token = r[q].token /\ x.at = point
    <3> HIDE DEF gone, point
    <3> QED
      BY <1>0 DEF Requests
  <2> HIDE DEF x, point, gone
  <2>5. \A p \in Request : RequestFades(r[p], r'[p])
    BY <2>1, <2>2, <2>3, <2>4, MakingRoom DEF Rowless
  <2> QED
    BY <2>1, <2>5, Deletions DEF Fades
<1>3. ASSUME NEW q \in Request, RevokeEvicted(q) PROVE Fades
  <2> DEFINE x == [r[q] EXCEPT !.at = "create", !.ids = {}]
  <2>1. r[q].at = "evicted" /\ UNCHANGED <<row, held, last, spoiled>>
    BY <1>3 DEF RevokeEvicted, IsAt, historyVars
  <2>2. r' = [r EXCEPT ![q] = x] /\ x.dev = r[q].dev /\ x.token = r[q].token /\ x.at = "create"
    BY <1>0, <1>3 DEF RevokeEvicted, Requests
  <2> HIDE DEF x
  <2>3. \A p \in Request : RequestFades(r[p], r'[p])
    BY <2>1, <2>2, MakingRoom DEF Rowless
  <2> QED
    BY <2>1, <2>3, Deletions DEF Fades
<1>4. ASSUME NEW q \in Request, RefreshUserGone(q) \/ GuardBan(q) \/ GuardUnban(q) PROVE Fades
  <2>1. UNCHANGED <<row, held, last, spoiled>> /\ Finish(q) /\ r[q].at # "respond"
    BY <1>4 DEF RefreshUserGone, GuardBan, GuardUnban, IsAt, historyVars
  <2> QED
    BY <2>1, Deletions DEF Fades
<1>5. ASSUME NEW q \in Request, NEW ids, Deleting(q, ids, NoDevice), UNCHANGED <<held, last, spoiled>> PROVE Fades
  <2> DEFINE x == [Idle EXCEPT !.at = "revoke", !.dev = NoDevice, !.ids = ids]
  <2>1. /\ r[q].at # "respond" /\ row' = Without(ids)
        /\ r' = [r EXCEPT ![q] = x] /\ x.dev = NoDevice /\ x.at = "revoke"
    BY <1>5 DEF Deleting, IsAt, Idle
  <2> HIDE DEF x
  <2> QED
    BY <1>5, <2>1, Deletions DEF Fades
<1>6. ASSUME NEW q \in Request, NEW id \in Id, Delete(q, id) PROVE Fades
  BY <1>5, <1>6 DEF Delete, historyVars
<1>7. ASSUME NEW q \in Request, NEW u \in User, RevokeAll(q, u) PROVE Fades
  BY <1>5, <1>7 DEF RevokeAll, historyVars
<1>8. ASSUME NEW q \in Request, NEW id \in Id, Ban(q, id) PROVE Fades
  <2> DEFINE x == [Idle EXCEPT !.at = "guardBan", !.ids = {id}]
  <2>1. /\ r[q].at # "respond" /\ r' = [r EXCEPT ![q] = x] /\ x.dev = NoDevice /\ x.at = "guardBan"
        /\ UNCHANGED <<held, last, spoiled>>
    BY <1>8 DEF Ban, IsAt, Idle
  <2> HIDE DEF x
  <2>2. \A i \in Id : RowFades(i)
    <3>1. CASE row[id].live /\ row' = [row EXCEPT ![id] = [row[id] EXCEPT !.banned = TRUE, !.cur = Null, !.prev = Null]]
      <4>1. row[id].dev # NoDevice
        BY <3>1, Effects
      <4> QED
        BY <1>0, <3>1, <4>1 DEF Rows, RowFades
    <3>2. CASE row' = row
      BY <3>2, Deletions
    <3> QED
      BY <1>8, <3>1, <3>2 DEF Ban, RowsOf, Live
  <2> QED
    BY <2>1, <2>2, Deletions DEF Fades
<1>9. ASSUME NEW q \in Request, NEW id \in Id, Unban(q, id) PROVE Fades
  <2> DEFINE x == [Idle EXCEPT !.at = "guardUnban", !.ids = {id}]
  <2>1. /\ r[q].at # "respond" /\ r' = [r EXCEPT ![q] = x] /\ x.dev = NoDevice /\ x.at = "guardUnban"
        /\ UNCHANGED <<held, last, spoiled>>
    BY <1>9 DEF Unban, IsAt, Idle
  <2> HIDE DEF x
  <2>2. \A i \in Id : RowFades(i)
    <3>1. CASE row[id].live /\ row' = [row EXCEPT ![id] = [row[id] EXCEPT !.banned = FALSE]]
      <4>1. row[id].dev # NoDevice
        BY <3>1, Effects
      <4> QED
        BY <1>0, <3>1, <4>1 DEF Rows, RowFades
    <3>2. CASE row' = row
      BY <3>2, Deletions
    <3> QED
      BY <1>9, <3>1, <3>2 DEF Unban, RowsOf, Live
  <2> QED
    BY <2>1, <2>2, Deletions DEF Fades
<1>10. ASSUME NEW u \in User, ChangeCredentials(u) \/ DeleteUser(u) PROVE Fades
  <2>1. row' = Without(RowsOf(u)) /\ UNCHANGED <<held, last, spoiled, r>>
    BY <1>10 DEF ChangeCredentials, DeleteUser
  <2> QED
    BY <2>1, Deletions DEF Fades
<1>11. ASSUME CleanupList \/ CleanupDelete \/ UNCHANGED vars PROVE Fades
  <2>1. UNCHANGED <<held, last, spoiled, r>> /\ (row' = Without(cleanup) \/ UNCHANGED row)
    BY <1>11 DEF CleanupList, CleanupDelete, vars, historyVars
  <2> QED
    BY <2>1, Deletions DEF Fades
<1>12. ASSUME NEW id \in Id, GoStale(id) PROVE Fades
  <2>1. UNCHANGED <<held, last, spoiled, r>> /\ row[id].live /\ row' = [row EXCEPT ![id] = [row[id] EXCEPT !.stale = TRUE]]
    BY <1>12 DEF GoStale, historyVars, Live
  <2>2. row[id].dev # NoDevice
    BY <2>1, Effects
  <2>3. \A i \in Id : RowFades(i)
    BY <1>0, <2>1, <2>2 DEF Rows, RowFades
  <2> QED
    BY <2>1, <2>3, Deletions DEF Fades
<1>13. ASSUME NEW id \in Id, Expire(id) PROVE Fades
  <2>1. UNCHANGED <<row, held, last, spoiled, r>>
    BY <1>13 DEF Expire
  <2> QED
    BY <2>1, Deletions DEF Fades
<1> QED
  BY <1>1, <1>2, <1>3, <1>4, <1>6, <1>7, <1>8, <1>9, <1>10, <1>11, <1>12, <1>13, <1>14

-----------------------------------------------------------------------------
(* The steps of an installation itself *)

\* The others are spared by a step that changes one request and rows of one
\* installation.
LEMMA OthersSpared ==
  ASSUME Types, NEW q \in Request, NEW x, r' = [r EXCEPT ![q] = x], NEW d \in Device,
         x.dev # d, r[q].dev # d \/ r[q].at # "respond",
         held'[d] = held[d], spoiled \subseteq spoiled', \A id \in Id : RowSpared(id, d)
  PROVE  Spared(d)
<1>1. r'[q] = x /\ \A p \in Request \ {q} : r'[p] = r[p]
  BY DEF Types
<1>2. ASSUME NEW p \in Request PROVE RequestSpared(r[p], r'[p], d)
  BY <1>1 DEF RequestSpared
<1> QED
  BY <1>2 DEF Spared

\* A token that was known where it is now said to be known.
LEMMA HomesOfSteps ==
  ASSUME Types, Homes, spoiled \subseteq spoiled', last' = last, NEW h \in Device,
         \A d \in Device \ {h} : Spared(d),
         \A t \in Token : Knows(h, t)' => Knows(h, t)
  PROVE  Homes'
<1>1. ASSUME NEW d \in Device, NEW t \in Token, Knows(d, t)' PROVE Knows(d, t)
  <2>1. CASE d = h
    BY <1>1, <2>1
  <2>2. CASE d # h
    BY <1>1, <2>2, SparedLearnsNothing
  <2> QED
    BY <2>1, <2>2
<1> QED
  BY <1>1, HomesKept

\* What login and refresh begin with.
LEMMA SignIn ==
  ASSUME Types, NEW q \in Request, NEW d \in Device, Login(q, d)
  PROVE  /\ UNCHANGED <<row, held, last>> /\ spoiled' = Spoiling(d) /\ r[q].at = "idle"
         /\ \E x \in Requests :
              /\ r' = [r EXCEPT ![q] = x] /\ x.dev = d
              /\ \/ x.at = "count" /\ x.token = Null /\ SessionOf(d) = {}
                 \/ x.at = "update" /\ x.token = Empty /\ x.id \in SessionOf(d)
                 \/ x.at = "find" /\ x.token = held[d] /\ held[d] \in Token
                 \/ /\ x.at = "accused" /\ x.token = held[d] /\ held[d] \in Token
                    /\ x.user = {UserOf(id) : id \in {i \in Live : row[i].prev = held[d]}}
                    /\ x.user # {}
<1>0. r' \in [Request -> Requests] => \A x : r' = [r EXCEPT ![q] = x] => x \in Requests
  <2>1. r \in [Request -> Requests]
    BY DEF Types
  <2> QED
    BY <2>1
<1>1. r' \in [Request -> Requests]
  <2>1. [Next]_vars
    BY DEF Next
  <2>2. Types'
    BY <2>1, TypePreserved
  <2> QED
    BY <2>2 DEF Types
<1>2. CASE LoginFind(q, d)
  <2>1. IsAt(q, "idle") /\ spoiled' = Spoiling(d) /\ row' = row /\ held' = held /\ last' = last
    BY <1>2, Zenon DEF LoginFind
  <2>2. \/ SessionOf(d) = {} /\ r' = [r EXCEPT ![q] = [Idle EXCEPT !.at = "count", !.dev = d]]
        \/ \E id \in SessionOf(d) : r' = [r EXCEPT ![q] = [Idle EXCEPT !.at = "update", !.dev = d, !.id = id, !.token = Empty]]
    BY <1>2, Zenon DEF LoginFind
  <2>3. CASE SessionOf(d) = {} /\ r' = [r EXCEPT ![q] = [Idle EXCEPT !.at = "count", !.dev = d]]
    <3> DEFINE x == [Idle EXCEPT !.at = "count", !.dev = d]
    <3>1. r' = [r EXCEPT ![q] = x] /\ x.dev = d /\ x.at = "count" /\ x.token = Null
      BY <2>3 DEF Idle
    <3> HIDE DEF x
    <3>2. x \in Requests
      BY <1>0, <1>1, <3>1
    <3> QED
      BY <2>1, <2>3, <3>1, <3>2 DEF IsAt
  <2>4. ASSUME NEW id \in SessionOf(d), r' = [r EXCEPT ![q] = [Idle EXCEPT !.at = "update", !.dev = d, !.id = id, !.token = Empty]]
        PROVE  \E x \in Requests : /\ r' = [r EXCEPT ![q] = x] /\ x.dev = d
                                   /\ x.at = "update" /\ x.token = Empty /\ x.id \in SessionOf(d)
    <3> DEFINE x == [Idle EXCEPT !.at = "update", !.dev = d, !.id = id, !.token = Empty]
    <3>1. r' = [r EXCEPT ![q] = x] /\ x.dev = d /\ x.at = "update" /\ x.token = Empty /\ x.id = id
      BY <2>4 DEF Idle
    <3> HIDE DEF x
    <3>2. x \in Requests
      BY <1>0, <1>1, <3>1
    <3> QED
      BY <3>1, <3>2
  <2>5. \/ SessionOf(d) = {} /\ r' = [r EXCEPT ![q] = [Idle EXCEPT !.at = "count", !.dev = d]]
        \/ \E x \in Requests : /\ r' = [r EXCEPT ![q] = x] /\ x.dev = d
                               /\ x.at = "update" /\ x.token = Empty /\ x.id \in SessionOf(d)
    BY <2>2, <2>4, Zenon
  <2>6. CASE \E x \in Requests : /\ r' = [r EXCEPT ![q] = x] /\ x.dev = d
                                /\ x.at = "update" /\ x.token = Empty /\ x.id \in SessionOf(d)
    BY <2>1, <2>6 DEF IsAt
  <2> QED
    BY <2>3, <2>5, <2>6
<1>3. CASE RefreshReplay(q, d)
  <2> DEFINE replayed == {UserOf(id) : id \in {i \in Live : row[i].prev = held[d]}}
             point    == IF replayed = {} THEN "find" ELSE "accused"
             x        == [Idle EXCEPT !.at = point, !.dev = d, !.user = replayed, !.token = held[d]]
  <2>1. /\ IsAt(q, "idle") /\ held[d] # Null /\ spoiled' = Spoiling(d)
        /\ row' = row /\ held' = held /\ last' = last /\ r' = [r EXCEPT ![q] = x]
    BY <1>3 DEF RefreshReplay
  <2>2. held[d] \in Token
    BY <2>1 DEF Types
  <2>3. x.at = point /\ x.dev = d /\ x.user = replayed /\ x.token = held[d]
    <3> HIDE DEF point, replayed
    <3> QED
      BY DEF Idle
  <2>4. point = "find" \/ (point = "accused" /\ replayed # {})
    OBVIOUS
  <2> HIDE DEF point, x
  <2>5. x \in Requests
    BY <1>0, <1>1, <2>1
  <2> QED
    BY <2>1, <2>2, <2>3, <2>4, <2>5 DEF IsAt
<1> QED
  BY <1>2, <1>3 DEF Login

LEMMA LoginKeepsTokens ==
  ASSUME TokenInv, NEW q \in Request, NEW d \in Device, Login(q, d), Types'
  PROVE  TokenInv'
<1>0. Types /\ RowsInOrder /\ Homes /\ r \in [Request -> Requests] /\ row \in [Id -> Rows] /\ spoiled \subseteq Spoiling(d)
  BY DEF TokenInv, Types, Spoiling
<1>1. /\ row' = row /\ held' = held /\ last' = last /\ spoiled' = Spoiling(d) /\ r[q].at = "idle"
  BY <1>0, SignIn
<1>2. PICK x \in Requests :
              /\ r' = [r EXCEPT ![q] = x] /\ x.dev = d
              /\ \/ x.at = "count" /\ x.token = Null /\ SessionOf(d) = {}
                 \/ x.at = "update" /\ x.token = Empty /\ x.id \in SessionOf(d)
                 \/ x.at = "find" /\ x.token = held[d] /\ held[d] \in Token
                 \/ /\ x.at = "accused" /\ x.token = held[d] /\ held[d] \in Token
                    /\ x.user = {UserOf(id) : id \in {i \in Live : row[i].prev = held[d]}}
                    /\ x.user # {}
  BY <1>0, SignIn
<1>3. r'[q] = x /\ \A p \in Request \ {q} : r'[p] = r[p]
  BY <1>0, <1>2
<1>4. \A e \in Device : \A id \in Id : RowSpared(id, e)
  BY <1>1 DEF RowSpared
<1>5. ASSUME NEW e \in Device \ {d} PROVE Spared(e)
  BY <1>0, <1>1, <1>2, <1>4, OthersSpared
<1>6. RowsInOrder'
  BY <1>0, <1>1, OrderKept
<1>7. ASSUME NEW t \in Token, Knows(d, t)' PROVE Knows(d, t)
  <2>1. SessionOf(d)' = SessionOf(d)
    BY <1>1 DEF SessionOf, Live
  <2>2. x.token \in Token => x.token = held[d]
    BY <1>2, DeviceAuthAssumption DEF Token, Null, Empty
  <2> QED
    BY <1>1, <1>3, <1>7, <2>1, <2>2 DEF Knows
<1>8. Homes'
  BY <1>0, <1>1, <1>5, <1>7, HomesOfSteps
<1>9. Owner[d] \notin spoiled' => (\A p \in Request : r[p].dev # d) /\ RowKnows(d, held[d])
  BY <1>1 DEF Spoiling, TokenInv, Honest
<1>10. x.at = "accused" => x.user \subseteq spoiled' /\ Owner[d] \in spoiled'
  <2> SUFFICES ASSUME x.at = "accused" PROVE x.user \subseteq spoiled' /\ Owner[d] \in spoiled'
    OBVIOUS
  <2>1. /\ held[d] \in Token /\ x.user # {}
        /\ x.user = {UserOf(id) : id \in {i \in Live : row[i].prev = held[d]}}
    BY <1>2
  <2>2. ASSUME NEW id \in Live, row[id].prev = held[d]
        PROVE  UserOf(id) = Owner[d] /\ Owner[d] \in spoiled'
    <3>1. id \in Id /\ row[id].dev \in Device /\ id \in SessionOf(row[id].dev)
      BY <1>0 DEF Live, Rows, SessionOf
    <3>2. Knows(d, held[d]) /\ Knows(row[id].dev, held[d])
      BY <2>2, <3>1 DEF Knows
    <3>3. d = row[id].dev \/ (Owner[d] = Owner[row[id].dev] /\ Owner[d] \in spoiled)
      BY <1>0, <2>1, <3>1, <3>2 DEF Homes
    <3>4. CASE d = row[id].dev
      <4>1. held[d] # Null
        BY <2>1, DeviceAuthAssumption DEF Token, Null
      <4>2. ~RowKnows(d, held[d])
        BY <2>2, <3>1, <3>4, <4>1 DEF RowKnows
      <4> QED
        BY <1>9, <3>4, <4>2 DEF UserOf
    <3>5. CASE Owner[d] = Owner[row[id].dev] /\ Owner[d] \in spoiled
      BY <1>0, <1>1, <3>5 DEF UserOf
    <3> QED
      BY <3>3, <3>4, <3>5
  <2> QED
    BY <2>1, <2>2
<1>11. ASSUME NEW p \in Request PROVE Fits(r[p])'
  <2>1. CASE p # q
    BY <1>0, <1>1, <1>3, <2>1, FitsStay DEF TokenInv
  <2>2. CASE p = q
    <3>1. x.at = "update" => row'[x.id].dev = d
      BY <1>1, <1>2 DEF SessionOf
    <3>2. x.at # "respond" /\ (x.at = "find" => x.token \in Token)
      BY <1>2
    <3> QED
      BY <1>2, <1>3, <1>10, <2>2, <3>1, <3>2 DEF Fits
  <2> QED
    BY <2>1, <2>2
<1>12. ASSUME NEW e \in Device PROVE Honest(e)'
  <2>1. CASE e # d
    BY <1>5, <2>1, SparedStaysHonest DEF TokenInv
  <2>2. CASE e = d
    <3> SUFFICES ASSUME Owner[d] \notin spoiled' PROVE Honest(d)'
      BY <2>2 DEF Honest
    <3>1. (\A p \in Request : r'[p].dev = d => p = q) /\ RowKnows(d, held[d])' /\ SessionOf(d)' = SessionOf(d)
      BY <1>1, <1>3, <1>9 DEF RowKnows, SessionOf, Live
    <3>2. x.at # "respond" /\ (x.at \in Rowless => SessionOf(d) = {})
      BY <1>2 DEF Rowless
    <3>3. x.at = "update" => SessionOf(d) \subseteq {x.id}
      <4> SUFFICES ASSUME x.at = "update", NEW id \in SessionOf(d) PROVE id = x.id
        OBVIOUS
      <4>1. x.id \in SessionOf(d)
        BY <1>2
      <4>2. id \in Id /\ x.id \in Id /\ row[id].live /\ row[x.id].live /\ row[id].dev = row[x.id].dev
        BY <4>1 DEF SessionOf, Live
      <4>3. id \in Nat /\ x.id \in Nat
        BY <4>2 DEF Id
      <4> QED
        BY <1>0, <4>2, <4>3 DEF RowsInOrder
    <3>4. \A p \in Request : r'[p].dev = d => r'[p] = x
      BY <1>3, <3>1
    <3> QED
      BY <3>1, <3>2, <3>3, <3>4 DEF Honest
  <2> QED
    BY <2>1, <2>2
<1> QED
  BY <1>6, <1>8, <1>11, <1>12 DEF TokenInv


\* A step of one request of h, of which the others are spared.
LEMMA StepOfOne ==
  ASSUME TokenInv, Types', NEW q \in Request, NEW x, r' = [r EXCEPT ![q] = x],
         NEW h \in Device, \A e \in Device \ {h} : Spared(e), spoiled \subseteq spoiled',
         \A id \in Id : row[id].dev # NoDevice => row'[id].dev = row[id].dev,
         RowsInOrder', Homes', Fits(x)', Honest(h)'
  PROVE  TokenInv'
<1>0. Types
  BY DEF TokenInv
<1>1. r'[q] = x /\ \A p \in Request \ {q} : r'[p] = r[p]
  BY <1>0 DEF Types
<1>2. ASSUME NEW p \in Request PROVE Fits(r[p])'
  <2>1. CASE p # q
    BY <1>0, <1>1, <2>1, FitsStay DEF TokenInv
  <2>2. CASE p = q
    BY <1>1, <2>2 DEF Fits
  <2> QED
    BY <2>1, <2>2
<1>3. ASSUME NEW e \in Device PROVE Honest(e)'
  <2>1. CASE e # h
    BY <2>1, SparedStaysHonest DEF TokenInv
  <2> QED
    BY <2>1
<1> QED
  BY <1>2, <1>3 DEF TokenInv

\* A request that stores a new token in the row id of its installation.
LEMMA StoringKeepsTokens ==
  ASSUME TokenInv, Types', NEW q \in Request, NEW x, r' = [r EXCEPT ![q] = x],
         NEW h \in Device, NEW id \in Id, r[q].dev = h, r[q].at # "respond",
         x.at = "respond", x.dev = h, x.id = id, x.token = last + 1,
         last' = last + 1, UNCHANGED <<held, spoiled>>, RowsInOrder',
         row[id].dev \in {NoDevice, h}, row'[id].dev = h,
         \A i \in Id \ {id} : row'[i] = row[i],
         \/ row'[id] = row[id] /\ ~row[id].live
         \/ row'[id].cur = last + 1 /\ row'[id].prev \in {Null, r[q].token},
         Owner[h] \notin spoiled => SessionOf(h)' \subseteq {id}
  PROVE  TokenInv'
<1>0. Types /\ Homes /\ last \in Nat /\ NoDevice \notin Device
  BY DeviceAuthAssumption DEF TokenInv, Types
<1>1. r'[q] = x /\ \A p \in Request \ {q} : r'[p] = r[p]
  BY <1>0 DEF Types
<1>2. ASSUME NEW e \in Device \ {h} PROVE Spared(e)
  <2>1. ASSUME NEW i \in Id PROVE RowSpared(i, e)
    <3>1. CASE i = id
      BY <3>1 DEF RowSpared
    <3>2. CASE i # id
      BY <3>2 DEF RowSpared
    <3> QED
      BY <3>1, <3>2
  <2> QED
    BY <1>0, <2>1, OthersSpared
<1>3. \A t \in Token : t # Null
  BY DeviceAuthAssumption DEF Token, Null
<1>4. ASSUME NEW t \in Token, Knows(h, t)' PROVE Knows(h, t) \/ t = last + 1
  <2>1. CASE held'[h] = t
    BY <2>1 DEF Knows
  <2>2. ASSUME NEW i \in SessionOf(h)', t \in {row'[i].cur, row'[i].prev} PROVE Knows(h, t) \/ t = last + 1
    <3>1. i \in Id /\ row'[i].live /\ row'[i].dev = h
      BY DEF SessionOf, Live
    <3>2. CASE i = id
      BY <1>3, <2>2, <3>1, <3>2 DEF Knows
    <3>3. CASE i # id
      BY <2>2, <3>1, <3>3 DEF Knows, SessionOf, Live
    <3> QED
      BY <3>2, <3>3
  <2>3. ASSUME NEW p \in Request, r'[p].dev = h, r'[p].token = t PROVE Knows(h, t) \/ t = last + 1
    BY <1>1, <2>3 DEF Knows
  <2> QED
    BY <1>4, <2>1, <2>2, <2>3 DEF Knows
<1>5. ASSUME NEW e \in Device, NEW t \in Token, Knows(e, t)' PROVE Knows(e, t) \/ (e = h /\ t = last + 1)
  <2>1. CASE e = h
    BY <1>4, <1>5, <2>1
  <2>2. CASE e # h
    BY <1>2, <1>5, <2>2, SparedLearnsNothing
  <2> QED
    BY <2>1, <2>2
<1>6. Homes'
  BY <1>0, <1>5, HomesGrow
<1>7. Fits(x)'
  BY DEF Fits
<1>8. \A i \in Id : row[i].dev # NoDevice => row'[i].dev = row[i].dev
  OBVIOUS
<1>9. r[q].token # last + 1
  <2>1. r[q].token \in Token \cup {Null, Empty}
    BY <1>0 DEF Types, Requests
  <2>2. CASE r[q].token \in Token
    <3>1. Knows(h, r[q].token)
      BY DEF Knows
    <3>2. r[q].token <= last /\ r[q].token \in Nat
      BY <1>0, <2>2, <3>1, DeviceAuthAssumption DEF Homes, Token
    <3> QED
      BY <1>0, <3>2
  <2>3. CASE r[q].token \in {Null, Empty}
    BY <1>0, <2>3 DEF Null, Empty
  <2> QED
    BY <2>1, <2>2, <2>3
<1>10. Honest(h)'
  <2> SUFFICES ASSUME Owner[h] \notin spoiled' PROVE Honest(h)'
    BY DEF Honest
  <2>1. \A p \in Request : r'[p].dev = h => p = q
    BY <1>1 DEF TokenInv, Honest
  <2>2. SessionOf(h)' \subseteq {id}
    OBVIOUS
  <2>3. Null # last + 1
    BY <1>0 DEF Null
  <2>4. PICK n \in Nat : n = last + 1
    BY <1>0
  <2>5. RowKnows(h, n)'
    <3>1. \A i \in SessionOf(h)' : row'[i].cur = n /\ row'[i].prev # n
      BY <1>9, <2>2, <2>3, <2>4 DEF SessionOf, Live
    <3> QED
      BY <3>1 DEF RowKnows
  <2>6. r'[q].at = "respond" /\ r'[q].token = n /\ r'[q].id = id /\ r'[q].dev = h
    BY <1>1, <2>4
  <2>7. RowKnows(h, r[q].token)'
    BY <2>5, <2>6 DEF RowKnows
  <2> QED
    BY <2>1, <2>2, <2>6, <2>7 DEF Honest, Rowless
<1> QED
  BY <1>1, <1>2, <1>6, <1>7, <1>8, <1>10, StepOfOne

LEMMA LoginCreateKeepsTokens ==
  ASSUME TokenInv, Types', NEW q \in Request, LoginCreate(q)
  PROVE  TokenInv'
<1>0. /\ Types /\ RowsInOrder /\ r \in [Request -> Requests] /\ row \in [Id -> Rows]
      /\ NoDevice \notin Device /\ r[q] \in Requests
  BY DeviceAuthAssumption DEF TokenInv, Types
<1>1. IsAt(q, "create") /\ UNCHANGED <<held, historyVars>>
  BY Zenon DEF LoginCreate
<1>2. r[q].at = "create" /\ held' = held /\ spoiled' = spoiled /\ r[q].dev \in Device
  BY <1>0, <1>1 DEF IsAt, historyVars, Requests
<1>3. \/ Finish(q) /\ UNCHANGED <<row, last>>
      \/ /\ SessionOf(r[q].dev) = {} /\ last' = last + 1
         /\ \E id \in Id :
              /\ row[id] = Absent /\ \A older \in Id : older < id => row[older] # Absent
              /\ row' = [row EXCEPT ![id] = [Absent EXCEPT !.dev = r[q].dev, !.live = TRUE,
                                                           !.cur = last + 1, !.seen = last + 1]]
              /\ r' = [r EXCEPT ![q].at = "respond", ![q].id = id, ![q].token = last + 1]
  BY Zenon DEF LoginCreate
<1>4. CASE Finish(q) /\ UNCHANGED <<row, last>>
  <2>1. Fades
    BY <1>0, <1>2, <1>4, Deletions DEF Fades
  <2> QED
    BY <2>1, FadesKeep
<1>5. ASSUME SessionOf(r[q].dev) = {}, last' = last + 1, NEW id \in Id, row[id] = Absent,
             \A older \in Id : older < id => row[older] # Absent,
             row' = [row EXCEPT ![id] = [Absent EXCEPT !.dev = r[q].dev, !.live = TRUE,
                                                       !.cur = last + 1, !.seen = last + 1]],
             r' = [r EXCEPT ![q].at = "respond", ![q].id = id, ![q].token = last + 1]
      PROVE  TokenInv'
  <2> DEFINE x == [r[q] EXCEPT !.at = "respond", !.id = id, !.token = last + 1]
             n == [Absent EXCEPT !.dev = r[q].dev, !.live = TRUE, !.cur = last + 1, !.seen = last + 1]
  <2>1. PICK h \in Device : h = r[q].dev
    BY <1>2
  <2>2. r' = [r EXCEPT ![q] = x] /\ x.at = "respond" /\ x.dev = h /\ x.id = id /\ x.token = last + 1
    BY <1>0, <1>5, <2>1 DEF Requests
  <2>3. row' = [row EXCEPT ![id] = n] /\ n.dev = h /\ n.live /\ n.cur = last + 1 /\ n.prev = Null
    BY <1>5, <2>1 DEF Absent, Deleted
  <2> HIDE DEF x, n
  <2>4. row'[id] = n /\ \A i \in Id \ {id} : row'[i] = row[i]
    BY <1>0, <2>3
  <2>5. row[id].dev = NoDevice
    BY <1>5 DEF Absent, Deleted
  <2>6. ASSUME NEW i \in Id, row[i].live PROVE row[i].dev # h
    BY <1>5, <2>1, <2>6 DEF SessionOf, Live
  <2>7. ASSUME NEW i \in Id, i < id PROVE row[i].dev # NoDevice
    BY <1>0, <1>5, <2>7 DEF RowsInOrder
  <2>8. ASSUME NEW i \in Id, id < i PROVE row[i].dev = NoDevice
    BY <1>0, <2>5, <2>8 DEF RowsInOrder
  <2>9. RowsInOrder'
    <3>1. \A i \in Id : row'[i].dev = NoDevice => row'[i] = Absent
      BY <1>0, <2>3, <2>4 DEF RowsInOrder
    <3>2. ASSUME NEW i \in Id, NEW j \in Id, i < j, row'[i].dev = NoDevice PROVE row'[j].dev = NoDevice
      <4>1. i \in Int /\ j \in Int /\ id \in Int
        BY DEF Id
      <4>2. i # id /\ row[i].dev = NoDevice
        BY <1>0, <2>3, <2>4, <3>2
      <4>3. id < i
        BY <2>7, <4>1, <4>2
      <4>4. id < j /\ j # id
        BY <3>2, <4>1, <4>3
      <4> QED
        BY <2>4, <2>8, <4>4
    <3>3. ASSUME NEW i \in Id, NEW j \in Id, i < j, row'[i].live PROVE row'[j].dev # row'[i].dev
      <4>1. CASE i = id
        <5>1. j # id
          BY <3>3, <4>1 DEF Id
        <5> QED
          BY <1>0, <2>3, <2>4, <2>8, <3>3, <4>1, <5>1
      <4>2. CASE j = id
        <5>1. i # id
          BY <3>3, <4>2 DEF Id
        <5> QED
          BY <2>3, <2>4, <2>6, <3>3, <4>2, <5>1
      <4>3. CASE i # id /\ j # id
        BY <1>0, <2>4, <3>3, <4>3 DEF RowsInOrder
      <4> QED
        BY <4>1, <4>2, <4>3
    <3> QED
      BY <3>1, <3>2, <3>3 DEF RowsInOrder
  <2>10. SessionOf(h)' \subseteq {id}
    BY <2>4, <2>6 DEF SessionOf, Live
  <2>11. /\ row[id].dev \in {NoDevice, h} /\ row'[id].dev = h
         /\ row'[id].cur = last + 1 /\ row'[id].prev \in {Null, r[q].token}
    BY <2>3, <2>4, <2>5
  <2> QED
    BY <1>2, <1>5, <2>1, <2>2, <2>4, <2>9, <2>10, <2>11, StoringKeepsTokens
<1> QED
  BY <1>3, <1>4, <1>5, Zenon

LEMMA UpdateSessionKeepsTokens ==
  ASSUME TokenInv, Types', NEW q \in Request, UpdateSession(q)
  PROVE  TokenInv'
<1>0. /\ Types /\ RowsInOrder /\ r \in [Request -> Requests] /\ row \in [Id -> Rows] /\ r[q] \in Requests
      /\ NoDevice \notin Device
  BY DeviceAuthAssumption DEF TokenInv, Types
<1>1. /\ r[q].at = "update" /\ held' = held /\ spoiled' = spoiled /\ r[q].dev \in Device /\ r[q].id \in Id
      /\ row[r[q].id].dev = r[q].dev
  BY <1>0 DEF UpdateSession, IsAt, historyVars, Requests, TokenInv, Fits
<1>2. CASE r[q].id \in Live /\ Clashes(r[q].id, r[q].token)
  <2>1. Finish(q) /\ UNCHANGED <<row, last>>
    BY <1>2 DEF UpdateSession
  <2>2. Fades
    BY <1>0, <1>1, <2>1, Deletions DEF Fades
  <2> QED
    BY <2>2, FadesKeep
<1>3. CASE ~(r[q].id \in Live /\ Clashes(r[q].id, r[q].token))
  <2> DEFINE x == [r[q] EXCEPT !.at = "respond", !.token = last + 1]
  <2>1. PICK h \in Device, id \in Id : h = r[q].dev /\ id = r[q].id
    BY <1>1
  <2>2. last' = last + 1 /\ r' = [r EXCEPT ![q] = x] /\ x.at = "respond" /\ x.dev = h /\ x.id = id /\ x.token = last + 1
    BY <1>0, <1>3, <2>1 DEF UpdateSession, Requests
  <2> HIDE DEF x
  <2>3. /\ \A i \in Id \ {id} : row'[i] = row[i]
        /\ row'[id].dev = h /\ row'[id].live = row[id].live
        /\ \/ row'[id] = row[id] /\ ~row[id].live
           \/ row'[id].cur = last + 1 /\ row'[id].prev = r[q].token
    <3>1. CASE id \in Live
      <4>1. row' = [row EXCEPT ![id].cur = last + 1, ![id].prev = r[q].token,
                               ![id].seen = last + 1, ![id].stale = FALSE]
        BY <1>3, <2>1, <3>1 DEF UpdateSession
      <4> QED
        BY <1>0, <1>1, <2>1, <4>1 DEF Rows
    <3>2. CASE id \notin Live
      <4>1. row' = row
        BY <1>3, <2>1, <3>2 DEF UpdateSession
      <4> QED
        BY <1>1, <2>1, <3>2, <4>1 DEF Live
    <3> QED
      BY <3>1, <3>2
  <2>4. RowsInOrder'
    <3>1. \A i \in Id : /\ row'[i].dev = row[i].dev /\ (row'[i].live => row[i].live)
                        /\ row[i].dev = NoDevice => row'[i] = row[i]
      BY <1>0, <1>1, <2>1, <2>3
    <3> QED
      BY <1>0, <3>1, OrderKept
  <2>5. Owner[h] \notin spoiled => SessionOf(h)' \subseteq {id}
    <3>1. SessionOf(h)' \subseteq SessionOf(h)
      BY <1>1, <2>1, <2>3 DEF SessionOf, Live
    <3>2. Owner[h] \notin spoiled => SessionOf(h) \subseteq {id}
      BY <1>1, <2>1 DEF TokenInv, Honest
    <3> QED
      BY <3>1, <3>2
  <2> QED
    BY <1>1, <2>1, <2>2, <2>3, <2>4, <2>5, StoringKeepsTokens
<1> QED
  BY <1>2, <1>3

LEMMA RefreshFindKeepsTokens ==
  ASSUME TokenInv, Types', NEW q \in Request, RefreshFind(q)
  PROVE  TokenInv'
<1>0. /\ Types /\ RowsInOrder /\ Homes /\ r \in [Request -> Requests] /\ row \in [Id -> Rows] /\ r[q] \in Requests
      /\ NoDevice \notin Device
  BY DeviceAuthAssumption DEF TokenInv, Types
<1>1. /\ r[q].at = "find" /\ UNCHANGED <<row, held, last, spoiled>> /\ r[q].dev \in Device
      /\ r[q].token \in Token
  BY <1>0 DEF RefreshFind, IsAt, historyVars, Requests, TokenInv, Fits
<1>2. CASE Finish(q)
  <2>1. Fades
    BY <1>0, <1>1, <1>2, Deletions DEF Fades
  <2> QED
    BY <2>1, FadesKeep
<1>3. PICK h \in Device : h = r[q].dev
  BY <1>1
<1>4. ASSUME NEW x, r' = [r EXCEPT ![q] = x], x.dev = h, x.token = r[q].token,
             x.at \in {"accused", "update"}, Fits(x)', x.at = "update" => x.id \in SessionOf(h),
             x.at = "accused" => Owner[h] \in spoiled
      PROVE  TokenInv'
  <2>1. r'[q] = x /\ \A p \in Request \ {q} : r'[p] = r[p]
    BY <1>0, <1>4
  <2>2. \A e \in Device : \A id \in Id : RowSpared(id, e)
    BY <1>1 DEF RowSpared
  <2>3. ASSUME NEW e \in Device \ {h} PROVE Spared(e)
    BY <1>0, <1>1, <1>4, <2>2, OthersSpared
  <2>4. RowsInOrder'
    BY <1>0, <1>1, OrderKept
  <2>5. SessionOf(h)' = SessionOf(h)
    BY <1>1 DEF SessionOf, Live
  <2>6. ASSUME NEW t \in Token, Knows(h, t)' PROVE Knows(h, t)
    BY <1>1, <1>3, <1>4, <2>1, <2>5, <2>6 DEF Knows
  <2>7. Homes'
    BY <1>0, <1>1, <2>3, <2>6, HomesOfSteps
  <2>8. Honest(h)'
    <3> SUFFICES ASSUME Owner[h] \notin spoiled' PROVE Honest(h)'
      BY DEF Honest
    <3>1. /\ \A p, o \in Request : r[p].dev = h /\ r[o].dev = h => p = o
          /\ (\A p \in Request : r[p].dev = h => r[p].at # "respond") => RowKnows(h, held[h])
      BY <1>1 DEF TokenInv, Honest
    <3>2. RowKnows(h, held[h]) /\ \A p \in Request \ {q} : r[p].dev # h
      BY <1>1, <1>3, <3>1
    <3>3. RowKnows(h, held[h])' /\ \A p \in Request : r'[p].dev = h => p = q
      BY <1>1, <2>1, <2>5, <3>2 DEF RowKnows
    <3>4. x.at = "update"
      BY <1>1, <1>4
    <3>5. SessionOf(h) \subseteq {x.id}
      <4> SUFFICES ASSUME NEW id \in SessionOf(h) PROVE id = x.id
        OBVIOUS
      <4>1. x.id \in SessionOf(h)
        BY <1>4, <3>4
      <4>2. id \in Id /\ x.id \in Id /\ row[id].live /\ row[x.id].live /\ row[id].dev = row[x.id].dev
        BY <4>1 DEF SessionOf, Live
      <4>3. id \in Nat /\ x.id \in Nat
        BY <4>2 DEF Id
      <4> QED
        BY <1>0, <4>2, <4>3 DEF RowsInOrder
    <3> QED
      BY <2>1, <2>5, <3>3, <3>4, <3>5 DEF Honest, Rowless
  <2> QED
    BY <1>1, <1>4, <2>3, <2>4, <2>7, <2>8, StepOfOne
<1>5. ASSUME NEW id \in Live, row[id].cur = r[q].token, row[id].dev # r[q].dev,
             r' = [r EXCEPT ![q].at = "accused", ![q].user = {UserOf(id)}]
      PROVE  TokenInv'
  <2>0. PICK x : x = [r[q] EXCEPT !.at = "accused", !.user = {UserOf(id)}]
    OBVIOUS
  <2>1. /\ r' = [r EXCEPT ![q] = x] /\ x.at = "accused" /\ x.user = {UserOf(id)} /\ x.dev = h
        /\ x.token = r[q].token
    BY <1>0, <1>3, <1>5, <2>0 DEF Requests
  <2>2. id \in Id /\ row[id].dev \in Device /\ id \in SessionOf(row[id].dev)
    BY <1>0 DEF Live, Rows, SessionOf
  <2>3. Knows(h, r[q].token) /\ Knows(row[id].dev, r[q].token)
    BY <1>3, <1>5, <2>2 DEF Knows
  <2>4. Owner[h] = UserOf(id) /\ Owner[h] \in spoiled
    BY <1>0, <1>1, <1>3, <1>5, <2>2, <2>3 DEF Homes, UserOf
  <2>5. Fits(x)'
    BY <1>1, <2>1, <2>4 DEF Fits
  <2> QED
    BY <1>4, <2>1, <2>4, <2>5
<1>6. ASSUME NEW id \in Live, row[id].dev = r[q].dev, r' = [r EXCEPT ![q].at = "update", ![q].id = id]
      PROVE  TokenInv'
  <2>0. PICK x : x = [r[q] EXCEPT !.at = "update", !.id = id]
    OBVIOUS
  <2>1. r' = [r EXCEPT ![q] = x] /\ x.at = "update" /\ x.id = id /\ x.dev = h /\ x.token = r[q].token
    BY <1>0, <1>3, <1>6, <2>0 DEF Requests
  <2>2. id \in SessionOf(h)
    BY <1>3, <1>6 DEF SessionOf
  <2>3. Fits(x)'
    BY <1>1, <1>3, <1>6, <2>1 DEF Fits
  <2> QED
    BY <1>4, <2>1, <2>2, <2>3
<1> QED
  BY <1>2, <1>5, <1>6 DEF RefreshFind

LEMMA DeleteAllKeepsTokens ==
  ASSUME TokenInv, Types', NEW q \in Request, DeleteAll(q)
  PROVE  TokenInv'
<1>0. /\ Types /\ RowsInOrder /\ Homes /\ r \in [Request -> Requests]
  BY DEF TokenInv, Types
<1>1. /\ r[q].at = "accused" /\ UNCHANGED <<held, last, spoiled>>
      /\ r[q].dev \in Device /\ Owner[r[q].dev] \in spoiled
  BY DEF DeleteAll, IsAt, historyVars, TokenInv, Fits
<1>2. PICK h \in Device : h = r[q].dev
  BY <1>1
<1>3. PICK ids : /\ row' = Without(ids)
                 /\ r' = [r EXCEPT ![q] = [Idle EXCEPT !.at = "revoke", !.dev = h, !.ids = ids]]
  <2> DEFINE all == UNION {RowsOf(u) : u \in r[q].user}
  <2>1. row' = Without(all) /\ r' = [r EXCEPT ![q] = [Idle EXCEPT !.at = "revoke", !.dev = r[q].dev, !.ids = all]]
    BY DEF DeleteAll
  <2> HIDE DEF all
  <2> QED
    BY <1>2, <2>1, Zenon
<1>4. PICK x : x = [Idle EXCEPT !.at = "revoke", !.dev = h, !.ids = ids]
  OBVIOUS
<1>5. r' = [r EXCEPT ![q] = x] /\ x.at = "revoke" /\ x.dev = h /\ x.token = Null
  BY <1>3, <1>4 DEF Idle
<1>6. \A id \in Id : RowFades(id)
  BY <1>0, <1>3, Deletions
<1>7. \A e \in Device : \A id \in Id : RowSpared(id, e)
  BY <1>6 DEF RowFades, RowSpared
<1>8. ASSUME NEW e \in Device \ {h} PROVE Spared(e)
  BY <1>0, <1>1, <1>5, <1>7, OthersSpared
<1>9. RowsInOrder'
  BY <1>0, <1>6, OrderKept DEF RowFades
<1>10. \A t \in Token : t # Null
  BY DeviceAuthAssumption DEF Token, Null
<1>11. ASSUME NEW t \in Token, Knows(h, t)' PROVE Knows(h, t)
  <2>1. CASE \E id \in SessionOf(h)' : t \in {row'[id].cur, row'[id].prev}
    BY <1>7, <1>10, <2>1 DEF Knows, RowSpared, SessionOf, Live
  <2>2. CASE \E p \in Request : r'[p].dev = h /\ r'[p].token = t
    BY <1>0, <1>5, <1>10, <2>2 DEF Knows
  <2> QED
    BY <1>1, <1>11, <2>1, <2>2 DEF Knows
<1>12. Homes'
  BY <1>0, <1>1, <1>8, <1>11, HomesOfSteps
<1>13. Honest(h)' /\ Fits(x)'
  BY <1>1, <1>2, <1>5 DEF Honest, Fits
<1>14. \A id \in Id : row[id].dev # NoDevice => row'[id].dev = row[id].dev
  BY <1>6 DEF RowFades
<1> QED
  BY <1>1, <1>5, <1>8, <1>9, <1>12, <1>13, <1>14, StepOfOne

LEMMA LogoutKeepsTokens ==
  ASSUME TokenInv, Types', NEW q \in Request, NEW i \in Id, Logout(q, i)
  PROVE  TokenInv'
<1>0. /\ Types /\ RowsInOrder /\ Homes /\ r \in [Request -> Requests] /\ row \in [Id -> Rows]
  BY DEF TokenInv, Types
<1>1. /\ row[i].dev # NoDevice /\ (\A newer \in Id : newer > i => row[newer].dev # row[i].dev)
      /\ Deleting(q, {i}, row[i].dev) /\ spoiled' = Spoiling(row[i].dev) /\ held' = held /\ last' = last
  BY DEF Logout
<1>2. PICK h \in Device : h = row[i].dev
  BY <1>0, <1>1 DEF Rows
<1>3. /\ row' = Without({i}) /\ r[q].at = "idle"
      /\ r' = [r EXCEPT ![q] = [Idle EXCEPT !.at = "revoke", !.dev = h, !.ids = {i}]]
  BY <1>1, <1>2 DEF Deleting, IsAt
<1>4. PICK x : x = [Idle EXCEPT !.at = "revoke", !.dev = h, !.ids = {i}]
  OBVIOUS
<1>5. r' = [r EXCEPT ![q] = x] /\ x.at = "revoke" /\ x.dev = h /\ x.token = Null
  BY <1>3, <1>4 DEF Idle
<1>6. \A id \in Id : RowFades(id)
  BY <1>0, <1>3, Deletions
<1>7. \A e \in Device : \A id \in Id : RowSpared(id, e)
  BY <1>6 DEF RowFades, RowSpared
<1>8. spoiled \subseteq spoiled' /\ (Owner[h] \notin spoiled' => Owner[h] \notin spoiled /\ \A p \in Request : r[p].dev # h)
  BY <1>1, <1>2 DEF Spoiling
<1>9. ASSUME NEW e \in Device \ {h} PROVE Spared(e)
  <2>1. x.dev # e /\ r[q].at # "respond" /\ held'[e] = held[e] /\ (\A id \in Id : RowSpared(id, e))
    BY <1>1, <1>3, <1>5, <1>7
  <2> QED
    BY <1>0, <1>5, <1>8, <2>1, OthersSpared
<1>10. RowsInOrder'
  BY <1>0, <1>6, OrderKept DEF RowFades
<1>11. \A t \in Token : t # Null
  BY DeviceAuthAssumption DEF Token, Null
<1>12. ASSUME NEW t \in Token, Knows(h, t)' PROVE Knows(h, t)
  <2>1. CASE \E id \in SessionOf(h)' : t \in {row'[id].cur, row'[id].prev}
    BY <1>7, <1>11, <2>1 DEF Knows, RowSpared, SessionOf, Live
  <2>2. CASE \E p \in Request : r'[p].dev = h /\ r'[p].token = t
    BY <1>0, <1>5, <1>11, <2>2 DEF Knows
  <2> QED
    BY <1>1, <1>12, <2>1, <2>2 DEF Knows
<1>13. Homes'
  BY <1>0, <1>1, <1>8, <1>9, <1>12, HomesOfSteps
<1>14. SessionOf(h)' = {}
  <2> SUFFICES ASSUME NEW id \in SessionOf(h)' PROVE FALSE
    OBVIOUS
  <2>1. id \in Id /\ row'[id].live /\ row'[id].dev = h
    BY DEF SessionOf, Live
  <2>2. row[id].live /\ row[id].dev = h /\ id # i
    BY <1>0, <1>3, <2>1, Effects
  <2>3. id < i \/ id > i
    BY <2>1, <2>2 DEF Id
  <2> QED
    BY <1>0, <1>1, <1>2, <2>1, <2>2, <2>3 DEF RowsInOrder
<1>15. Honest(h)'
  <2> SUFFICES ASSUME Owner[h] \notin spoiled' PROVE Honest(h)'
    BY DEF Honest
  <2>1. r'[q] = x /\ \A p \in Request \ {q} : r'[p].dev # h
    BY <1>0, <1>5, <1>8
  <2>2. \A p, o \in Request : r'[p].dev = h /\ r'[o].dev = h => p = o
    BY <2>1
  <2>3. RowKnows(h, held[h])'
    BY <1>14 DEF RowKnows
  <2>4. \A p \in Request : r'[p].dev = h => r'[p].at = "revoke"
    BY <1>5, <2>1
  <2> QED
    BY <1>14, <2>2, <2>3, <2>4 DEF Honest
<1>16. Fits(x)' /\ \A id \in Id : row[id].dev # NoDevice => row'[id].dev = row[id].dev
  BY <1>5, <1>6 DEF Fits, RowFades
<1> QED
  BY <1>5, <1>8, <1>9, <1>10, <1>13, <1>15, <1>16, StepOfOne

\* A request of h that ends, with what h holds from then on.
LEMMA EndingKeepsTokens ==
  ASSUME TokenInv, Types', NEW q \in Request, Finish(q), UNCHANGED <<row, last>>, spoiled \subseteq spoiled',
         NEW h \in Device, r[q].dev = h,
         \A e \in Device \ {h} : held'[e] = held[e],
         held'[h] \in {Null, held[h], r[q].token},
         Owner[h] \notin spoiled' => RowKnows(h, held'[h])
  PROVE  TokenInv'
<1>0. Types /\ RowsInOrder /\ Homes /\ r \in [Request -> Requests] /\ NoDevice \notin Device
  BY DeviceAuthAssumption DEF TokenInv, Types
<1>1. PICK x : x = Idle
  OBVIOUS
<1>2. /\ r' = [r EXCEPT ![q] = x] /\ x.dev = NoDevice /\ x.at = "idle"
      /\ r'[q] = x /\ \A p \in Request \ {q} : r'[p] = r[p]
  BY <1>0, <1>1 DEF Finish, Idle
<1>3. \A e \in Device : \A id \in Id : RowSpared(id, e)
  BY DEF RowSpared
<1>4. ASSUME NEW e \in Device \ {h} PROVE Spared(e)
  BY <1>0, <1>2, <1>3, OthersSpared
<1>5. RowsInOrder' /\ SessionOf(h)' = SessionOf(h)
  BY <1>0, OrderKept DEF SessionOf, Live
<1>6. \A t \in Token : t # Null
  BY DeviceAuthAssumption DEF Token, Null
<1>7. ASSUME NEW t \in Token, Knows(h, t)' PROVE Knows(h, t)
  <2>1. CASE held'[h] = t
    BY <1>6, <2>1 DEF Knows
  <2>2. CASE held'[h] # t
    BY <1>0, <1>2, <1>5, <1>7, <2>2 DEF Knows
  <2> QED
    BY <2>1, <2>2
<1>8. Homes'
  BY <1>0, <1>4, <1>7, HomesOfSteps
<1>9. Honest(h)'
  <2> SUFFICES ASSUME Owner[h] \notin spoiled' PROVE Honest(h)'
    BY DEF Honest
  <2>1. \A p, o \in Request : r[p].dev = h /\ r[o].dev = h => p = o
    BY DEF TokenInv, Honest
  <2>2. \A p \in Request : r'[p].dev # h
    BY <1>0, <1>2, <2>1
  <2>3. RowKnows(h, held[h])'
    BY <1>5 DEF RowKnows
  <2> QED
    BY <2>2, <2>3 DEF Honest
<1>10. Fits(x)'
  BY <1>2 DEF Fits
<1> QED
  BY <1>2, <1>4, <1>5, <1>8, <1>9, <1>10, StepOfOne

LEMMA AnswersKeepTokens ==
  ASSUME TokenInv, Types', NEW q \in Request, Respond(q) \/ Revoke(q)
  PROVE  TokenInv'
<1>0. Types /\ RowsInOrder /\ r \in [Request -> Requests] /\ r[q] \in Requests /\ held \in [Device -> Token \cup {Null}]
      /\ NoDevice \notin Device
  BY DeviceAuthAssumption DEF TokenInv, Types
<1>1. CASE Respond(q)
  <2>1. /\ r[q].at = "respond" /\ r[q].dev \in Device /\ Finish(q) /\ UNCHANGED <<row, last>>
        /\ \/ held' = [held EXCEPT ![r[q].dev] = r[q].token] /\ spoiled' = spoiled
           \/ spoiled' = spoiled \cup {Owner[r[q].dev]} /\ held' = held
    BY <1>0, <1>1 DEF Respond, IsAt, Requests
  <2>2. PICK h \in Device : h = r[q].dev
    BY <2>1
  <2>3. CASE held' = [held EXCEPT ![r[q].dev] = r[q].token] /\ spoiled' = spoiled
    <3>1. held'[h] = r[q].token /\ \A e \in Device \ {h} : held'[e] = held[e]
      BY <1>0, <2>2, <2>3
    <3>2. Owner[h] \notin spoiled => RowKnows(h, r[q].token)
      BY <2>1, <2>2 DEF TokenInv, Honest
    <3> QED
      BY <2>1, <2>2, <2>3, <3>1, <3>2, EndingKeepsTokens
  <2>4. CASE spoiled' = spoiled \cup {Owner[r[q].dev]} /\ held' = held
    BY <2>1, <2>2, <2>4, EndingKeepsTokens
  <2> QED
    BY <2>1, <2>3, <2>4
<1>2. CASE Revoke(q)
  <2>1. /\ r[q].at = "revoke" /\ Finish(q) /\ UNCHANGED <<row, last, spoiled>>
        /\ held' = [d \in Device |-> IF d = r[q].dev THEN Null ELSE held[d]]
    BY <1>2 DEF Revoke, IsAt, historyVars
  <2>2. CASE r[q].dev \notin Device
    <3>1. held' = held
      BY <1>0, <2>1, <2>2
    <3>2. Fades
      BY <1>0, <2>1, <3>1, Deletions DEF Fades
    <3> QED
      BY <3>2, FadesKeep
  <2>3. CASE r[q].dev \in Device
    <3>1. PICK h \in Device : h = r[q].dev
      BY <2>3
    <3>2. held'[h] = Null /\ \A e \in Device \ {h} : held'[e] = held[e]
      BY <2>1, <3>1
    <3>3. Owner[h] \notin spoiled => SessionOf(h) = {}
      BY <2>1, <3>1 DEF TokenInv, Honest, Rowless
    <3>4. Owner[h] \notin spoiled' => RowKnows(h, held'[h])
      BY <2>1, <3>3 DEF RowKnows
    <3> QED
      BY <2>1, <3>1, <3>2, <3>4, EndingKeepsTokens
  <2> QED
    BY <2>2, <2>3
<1> QED
  BY <1>1, <1>2

LEMMA CopyProfileKeepsTokens ==
  ASSUME TokenInv, Types', NEW d \in Device, NEW e \in Device, CopyProfile(d, e)
  PROVE  TokenInv'
<1>0. Types /\ RowsInOrder /\ Homes /\ held \in [Device -> Token \cup {Null}]
  BY DEF TokenInv, Types
<1>1. /\ Owner[d] = Owner[e] /\ held[d] # Null /\ held[d] # held[e]
      /\ held' = [held EXCEPT ![e] = held[d]] /\ spoiled' = spoiled \cup {Owner[d]}
      /\ UNCHANGED <<row, last, r>>
  BY DEF CopyProfile
<1>2. held[d] \in Token /\ Knows(d, held[d])
  BY <1>0, <1>1 DEF Knows
<1>3. held'[e] = held[d] /\ \A c \in Device \ {e} : held'[c] = held[c]
  BY <1>0, <1>1
<1>4. ASSUME NEW c \in Device \ {e} PROVE Spared(c)
  BY <1>1, <1>3 DEF Spared, RowSpared, RequestSpared
<1>5. ASSUME NEW c \in Device, NEW t \in Token, Knows(c, t)' PROVE Knows(c, t) \/ (c = e /\ t = held[d])
  <2>1. CASE c = e
    BY <1>1, <1>3, <1>5, <2>1 DEF Knows, SessionOf, Live
  <2>2. CASE c # e
    BY <1>4, <1>5, <2>2, SparedLearnsNothing
  <2> QED
    BY <2>1, <2>2
<1>6. ASSUME NEW t \in Token, NEW a \in Device, NEW b \in Device, Knows(a, t)'
      PROVE  t <= last' /\ (Knows(b, t)' => a = b \/ (Owner[a] = Owner[b] /\ Owner[a] \in spoiled'))
  <2>1. \A c \in Device : Knows(c, t)' => \/ Knows(c, t)
                                          \/ Knows(d, t) /\ Owner[c] = Owner[d] /\ Owner[d] \in spoiled'
    BY <1>1, <1>2, <1>5
  <2>2. \A c, f \in Device : Knows(c, t) /\ Knows(f, t) => c = f \/ (Owner[c] = Owner[f] /\ Owner[c] \in spoiled')
    BY <1>0, <1>1 DEF Homes
  <2>3. \A c \in Device : Knows(c, t) => t <= last'
    BY <1>0, <1>1 DEF Homes
  <2> QED
    BY <1>1, <1>6, <2>1, <2>2, <2>3
<1>7. Homes'
  BY <1>6 DEF Homes
<1>8. RowsInOrder'
  BY <1>0, <1>1, OrderKept
<1>9. ASSUME NEW q \in Request PROVE Fits(r[q])'
  BY <1>0, <1>1, FitsStay DEF TokenInv
<1>10. ASSUME NEW c \in Device PROVE Honest(c)'
  <2>1. CASE c = e
    BY <1>1, <2>1 DEF Honest
  <2>2. CASE c # e
    BY <1>4, <2>2, SparedStaysHonest DEF TokenInv
  <2> QED
    BY <2>1, <2>2
<1> QED
  BY <1>7, <1>8, <1>9, <1>10 DEF TokenInv

LEMMA RestartKeepsTokens ==
  ASSUME TokenInv, Types', Restart
  PROVE  TokenInv'
<1>0. Types /\ RowsInOrder /\ Homes /\ r \in [Request -> Requests] /\ NoDevice \notin Device
  BY DeviceAuthAssumption DEF TokenInv, Types
<1>1. /\ r' = [q \in Request |-> Idle] /\ UNCHANGED <<row, last, held>>
      /\ spoiled' = spoiled \cup {Owner[r[q].dev] : q \in {p \in Request : IsAt(p, "respond")}}
  BY DEF Restart
<1>2. \A q \in Request : r'[q].dev = NoDevice /\ r'[q].at = "idle"
  BY <1>1 DEF Idle
<1>3. RowsInOrder'
  BY <1>0, <1>1, OrderKept
<1>4. ASSUME NEW d \in Device PROVE SessionOf(d)' = SessionOf(d)
  BY <1>1 DEF SessionOf, Live
<1>5. ASSUME NEW d \in Device, NEW t \in Token, Knows(d, t)' PROVE Knows(d, t)
  BY <1>0, <1>1, <1>2, <1>4, <1>5 DEF Knows
<1>6. Homes'
  BY <1>0, <1>1, <1>5, HomesKept
<1>7. \A q \in Request : Fits(r[q])'
  BY <1>2 DEF Fits
<1>8. ASSUME NEW d \in Device, Owner[d] \notin spoiled' PROVE Honest(d)'
  <2>1. Owner[d] \notin spoiled /\ \A q \in Request : r[q].dev = d => r[q].at # "respond"
    BY <1>1, <1>8 DEF IsAt
  <2>2. RowKnows(d, held[d])
    BY <2>1 DEF TokenInv, Honest
  <2>3. RowKnows(d, held[d])'
    BY <1>1, <1>4, <2>2 DEF RowKnows
  <2> QED
    BY <1>0, <1>2, <2>3 DEF Honest
<1> QED
  BY <1>3, <1>6, <1>7, <1>8 DEF TokenInv, Honest

LEMMA TokensKept ==
  ASSUME TokenInv, [Next]_vars
  PROVE  TokenInv'
<1>0. Types /\ RowsInOrder /\ Types'
  BY TypePreserved DEF TokenInv
<1>1. Fades => TokenInv'
  BY <1>0, FadesKeep
<1>2. ASSUME NEW q \in Request, Step(q) PROVE TokenInv'
  <2>1. CASE \/ LoginCount(q) \/ LoginChoose(q) \/ LoginEvict(q) \/ RevokeEvicted(q)
             \/ RefreshUserGone(q) \/ GuardBan(q) \/ GuardUnban(q)
    BY <1>0, <1>1, <2>1, FadingSteps
  <2>2. CASE LoginCreate(q)
    BY <1>0, <2>2, LoginCreateKeepsTokens
  <2>3. CASE RefreshFind(q)
    BY <1>0, <2>3, RefreshFindKeepsTokens
  <2>4. CASE DeleteAll(q)
    BY <1>0, <2>4, DeleteAllKeepsTokens
  <2>5. CASE UpdateSession(q)
    BY <1>0, <2>5, UpdateSessionKeepsTokens
  <2>6. CASE Respond(q) \/ Revoke(q)
    BY <1>0, <2>6, AnswersKeepTokens
  <2> QED
    BY <1>2, <2>1, <2>2, <2>3, <2>4, <2>5, <2>6 DEF Step
<1>3. ASSUME NEW q \in Request, NEW d \in Device, Login(q, d) PROVE TokenInv'
  BY <1>0, <1>3, LoginKeepsTokens
<1>4. ASSUME NEW q \in Request, NEW id \in Id, Manage(q, id) PROVE TokenInv'
  BY <1>0, <1>1, <1>4, FadingSteps, LogoutKeepsTokens DEF Manage
<1>5. ASSUME NEW q \in Request, NEW u \in User, RevokeAll(q, u) PROVE TokenInv'
  BY <1>0, <1>1, <1>5, FadingSteps
<1>6. ASSUME NEW u \in User, ChangeCredentials(u) \/ DeleteUser(u) PROVE TokenInv'
  BY <1>0, <1>1, <1>6, FadingSteps
<1>7. CASE CleanupList \/ CleanupDelete \/ UNCHANGED vars
  BY <1>0, <1>1, <1>7, FadingSteps
<1>8. CASE Restart
  BY <1>0, <1>8, RestartKeepsTokens
<1>9. ASSUME NEW id \in Id, GoStale(id) \/ Expire(id) PROVE TokenInv'
  BY <1>0, <1>1, <1>9, FadingSteps
<1>10. ASSUME NEW d \in Device, NEW e \in Device, CopyProfile(d, e) PROVE TokenInv'
  BY <1>0, <1>10, CopyProfileKeepsTokens
<1> QED
  BY <1>2, <1>3, <1>4, <1>5, <1>6, <1>7, <1>8, <1>9, <1>10 DEF Next

LEMMA AlwaysTokens == Spec => []TokenInv
<1>1. Init => TokenInv
  <2> SUFFICES ASSUME Init PROVE TokenInv
    OBVIOUS
  <2>1. Types /\ NoDevice \notin Device
    BY InitTypes, DeviceAuthAssumption
  <2>2. \A id \in Id : row[id] = Absent /\ row[id].dev = NoDevice /\ ~row[id].live
    BY DEF Init, Absent, Deleted
  <2>3. \A q \in Request : r[q].dev = NoDevice /\ r[q].at = "idle"
    BY DEF Init, Idle
  <2>4. \A d \in Device : SessionOf(d) = {} /\ held[d] = Null
    BY <2>2 DEF Init, SessionOf, Live
  <2>5. RowsInOrder
    BY <2>2 DEF RowsInOrder
  <2>6. \A t \in Token : t # Null
    BY DeviceAuthAssumption DEF Token, Null
  <2>7. \A d \in Device, t \in Token : ~Knows(d, t)
    BY <2>1, <2>3, <2>4, <2>6 DEF Knows
  <2>8. Homes
    BY <2>7 DEF Homes
  <2>9. \A q \in Request : Fits(r[q])
    BY <2>3 DEF Fits
  <2>10. \A d \in Device : Honest(d)
    BY <2>1, <2>3, <2>4 DEF Honest, RowKnows
  <2> QED
    BY <2>1, <2>5, <2>8, <2>9, <2>10 DEF TokenInv
<1>2. TokenInv /\ [Next]_vars => TokenInv'
  BY TokensKept
<1> QED
  BY <1>1, <1>2, PTL DEF Spec

\* Replay detection accuses only where a token had two owners or an answer was
\* lost: a user whose installations send one request at a time, receive every
\* answer and keep their data to themselves is never signed out for theft.
THEOREM HonestStaysTrusted == Spec => []HonestNeverAccused
<1>1. TokenInv => HonestNeverAccused
  BY DEF TokenInv, Fits, HonestNeverAccused, IsAt
<1> QED
  BY <1>1, AlwaysTokens, PTL

\* The token an installation of such a user holds is the one its row knows, after
\* any rotation, eviction, ban, deletion or restart.
THEOREM ClientsAgree == Spec => []ClientAndRowAgree
<1>1. TokenInv => ClientAndRowAgree
  BY DEF TokenInv, Honest, RowKnows, ClientAndRowAgree
<1> QED
  BY <1>1, AlwaysTokens, PTL
=============================================================================
