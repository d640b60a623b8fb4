------------------------------ MODULE DeviceAuth ------------------------------
(***************************************************************************)
(* Devices and their sessions: the devices table with the current and the   *)
(* previous refresh-token hash of each row, the in-memory DeviceGuard that  *)
(* every authenticated request asks, and the HTTP handlers of api/auth.go   *)
(* and api/admin.go that change both.  One action is one SQL statement or   *)
(* one critical section of the guard; requests interleave between them.     *)
(***************************************************************************)
EXTENDS Integers, FiniteSets

CONSTANTS
  User, Device,   \* users, and client installations (device_uuid)
  Owner,          \* the user who signs in on each installation
  NoDevice,
  Request,        \* requests that can be in flight at once
  MaxDevices,     \* DevicesMaxPerUser (15)
  MaxId, MaxToken, MaxChanges   \* bounds: rows ever inserted, sessions stored, changes

ASSUME DeviceAuthAssumption ==
  /\ Owner \in [Device -> User] /\ NoDevice \notin Device
  /\ IsFiniteSet(Request)
  /\ MaxDevices \in Nat \ {0} /\ MaxId \in Nat /\ MaxToken \in Nat /\ MaxChanges \in Nat

Id    == 1..MaxId
NoId  == 0
Token == 1..MaxToken    \* refresh tokens, named in the order they are stored in rows
Null  == 0
Empty == -1             \* the empty string as a hash

VARIABLES
  row,        \* the devices table, by id; a deleted row keeps its uuid
  users,      \* the users table
  banned,     \* DeviceGuard.banned
  revoked,    \* DeviceGuard.revoked: "no" entry, one that "covers" the access tokens of
              \* the id, or one "older" than the last of them
  access,     \* ids with an unexpired access token
  last,       \* the last refresh token stored
  held,       \* the refresh token each installation holds
  r,          \* the requests in flight
  cleanup,    \* the ids HandleDeviceCleanup has listed and is about to delete
  changes,    \* bound: logouts, bans, unbans, deletions, absences, copies, lost answers, restarts so far
  unbans,     \* history: unbans of a banned device
  missed,     \* history: evictions whose device was gone or banned when it came to the DELETE
  spoiled,    \* history: users with a lost answer, two requests of one installation at once, or a copied profile
  unguarded,  \* history: deleted ids with access tokens that the guard was not told of or has forgotten
  disputed,   \* history: ids with a ban and an unban under way at once
  foreign     \* history: ids banned or unbanned by another user, or before they had a row

guardVars   == <<banned, revoked>>
counters    == <<changes, unbans, missed>>
historyVars == <<spoiled, unguarded, disputed, foreign>>
vars == <<row, users, guardVars, access, last, held, r, cleanup, counters, historyVars>>

Deleted(d) == [dev |-> d, live |-> FALSE, cur |-> Null, prev |-> Null, banned |-> FALSE,
               stale |-> FALSE, seen |-> 0]
Absent == Deleted(NoDevice)
Idle   == [at |-> "idle", dev |-> NoDevice, user |-> {}, id |-> NoId, ids |-> {}, token |-> Null]

IsAt(q, point) == r[q].at = point
Finish(q)      == r' = [r EXCEPT ![q] = Idle]

Change == changes < MaxChanges /\ changes' = changes + 1

Live        == {id \in Id : row[id].live}
UserOf(id)  == Owner[row[id].dev]
RowsOf(u)   == {id \in Live : UserOf(id) = u}
Active(u)   == {id \in RowsOf(u) : ~row[id].banned}
SessionOf(d) == {id \in Live : row[id].dev = d}

\* DeviceGuard.IsBlocked: an entry of revoked is dropped when it expires.
IsBlocked(id)  == id \in banned \/ revoked[id] # "no"
\* requireJWT: some unexpired access token of the device passes the guard.
Authorized(id) == id \in access /\ ~IsBlocked(id)

\* The table without the rows ids.
Without(ids) == [id \in Id |-> IF id \in ids THEN Deleted(row[id].dev) ELSE row[id]]

\* Revoke or RevokeMany: an entry lives as long as a token issued at its moment.
Covering(ids) == [id \in Id |-> IF id \in ids THEN "covers" ELSE revoked[id]]

\* A second request of an installation while one is in flight.
Spoiling(d) == IF \E q \in Request : r[q].dev = d THEN spoiled \cup {Owner[d]} ELSE spoiled

-----------------------------------------------------------------------------
(* login *)

\* DeviceFindByUserAndUUID.  A banned device is refused: nothing changes.
LoginFind(q, d) ==
  /\ IsAt(q, "idle") /\ Owner[d] \in users
  /\ \/ /\ SessionOf(d) = {}
        /\ r' = [r EXCEPT ![q] = [Idle EXCEPT !.at = "count", !.dev = d]]
     \/ \E id \in SessionOf(d) :
          /\ ~row[id].banned
          /\ r' = [r EXCEPT ![q] = [Idle EXCEPT !.at = "update", !.dev = d, !.id = id, !.token = Empty]]
  /\ spoiled' = Spoiling(d)
  /\ UNCHANGED <<row, users, guardVars, access, last, held, cleanup, counters, unguarded, disputed, foreign>>

LoginCount_OffByOne(q) ==
  /\ IsAt(q, "count")
  /\ LET full == Cardinality(Active(Owner[r[q].dev])) > MaxDevices
     IN  r' = [r EXCEPT ![q].at = IF full THEN "evict" ELSE "create"]
  /\ UNCHANGED <<row, users, guardVars, access, last, held, cleanup, counters, historyVars>>
LoginCount(q) ==
  /\ IsAt(q, "count")
  /\ LET full == Cardinality(Active(Owner[r[q].dev])) >= MaxDevices
     IN  r' = [r EXCEPT ![q].at = IF full THEN "evict" ELSE "create"]
  /\ UNCHANGED <<row, users, guardVars, access, last, held, cleanup, counters, historyVars>>

\* DeviceEvictLRU chooses a row in its snapshot, if there is one ...
LeastRecent(u) == {id \in Active(u) : \A other \in Active(u) : row[id].seen <= row[other].seen}

LoginChoose(q) ==
  /\ IsAt(q, "evict")
  /\ LET u == Owner[r[q].dev] IN
       \/ Active(u) = {} /\ r' = [r EXCEPT ![q].at = "create"]
       \/ \E id \in LeastRecent(u) : r' = [r EXCEPT ![q].at = "delete", ![q].ids = {id}]
  /\ UNCHANGED <<row, users, guardVars, access, last, held, cleanup, counters, historyVars>>

\* ... and deletes it when it gets its lock, whatever has become of it, or finds it gone:
\* then it returns no id, and the login goes on without having made room.
Missing(q) == IF r[q].ids \cap Active(Owner[r[q].dev]) = {} THEN missed + 1 ELSE missed

LoginEvict_IdZero(q) ==
  /\ IsAt(q, "delete") /\ row' = Without(r[q].ids) /\ missed' = Missing(q)
  /\ LET gone == r[q].ids \cap Live
     IN  r' = [r EXCEPT ![q].at = "evicted", ![q].ids = IF gone = {} THEN {NoId} ELSE gone]
  /\ UNCHANGED <<users, guardVars, access, last, held, cleanup, changes, unbans, historyVars>>
LoginEvict_NoRevoke(q) ==
  /\ IsAt(q, "delete") /\ row' = Without(r[q].ids) /\ missed' = Missing(q)
  /\ r' = [r EXCEPT ![q].at = "create", ![q].ids = {}]
  /\ UNCHANGED <<users, guardVars, access, last, held, cleanup, changes, unbans, historyVars>>
LoginEvict(q) ==
  /\ IsAt(q, "delete") /\ row' = Without(r[q].ids) /\ missed' = Missing(q)
  /\ LET gone == r[q].ids \cap Live
     IN  r' = [r EXCEPT ![q].at = IF gone = {} THEN "create" ELSE "evicted", ![q].ids = gone]
  /\ UNCHANGED <<users, guardVars, access, last, held, cleanup, changes, unbans, historyVars>>

RevokeEvicted(q) ==
  /\ IsAt(q, "evicted")
  /\ revoked' = Covering(r[q].ids)
  /\ r' = [r EXCEPT ![q].at = "create", ![q].ids = {}]
  /\ UNCHANGED <<row, users, banned, access, last, held, cleanup, counters, historyVars>>

\* DeviceCreate.  It fails when the user is gone or another login has inserted
\* the row of this installation.
LoginCreate(q) ==
  /\ IsAt(q, "create") /\ last < MaxToken
  /\ LET d == r[q].dev IN
       IF Owner[d] \notin users \/ SessionOf(d) # {}
         THEN Finish(q) /\ UNCHANGED <<row, last>>
         ELSE \E id \in Id :
                /\ row[id] = Absent /\ \A older \in Id : older < id => row[older] # Absent
                /\ last' = last + 1
                /\ row' = [row EXCEPT ![id] = [Absent EXCEPT !.dev = d, !.live = TRUE,
                                                             !.cur = last + 1, !.seen = last + 1]]
                /\ r' = [r EXCEPT ![q].at = "respond", ![q].id = id, ![q].token = last + 1]
  /\ UNCHANGED <<users, guardVars, access, held, cleanup, counters, historyVars>>

-----------------------------------------------------------------------------
(* refresh *)

\* DeviceFindByPreviousRefreshTokenHash, with the token the installation holds.
RefreshReplay(q, d) ==
  /\ IsAt(q, "idle") /\ held[d] # Null
  /\ LET replayed == {UserOf(id) : id \in {i \in Live : row[i].prev = held[d]}}
     IN  r' = [r EXCEPT ![q] = [Idle EXCEPT !.at = IF replayed = {} THEN "find" ELSE "accused",
                                             !.dev = d, !.user = replayed, !.token = held[d]]]
  /\ spoiled' = Spoiling(d)
  /\ UNCHANGED <<row, users, guardVars, access, last, held, cleanup, counters, unguarded, disputed, foreign>>

\* DeviceFindByRefreshTokenHash: unknown or expired is refused, a uuid that does
\* not match counts as theft.
RefreshFind(q) ==
  /\ IsAt(q, "find")
  /\ LET found == {id \in Live : row[id].cur = r[q].token} IN
       \/ found = {} /\ Finish(q)
       \/ \E id \in found :
            \/ /\ row[id].dev # r[q].dev
               /\ r' = [r EXCEPT ![q].at = "accused", ![q].user = {UserOf(id)}]
            \/ row[id].dev = r[q].dev /\ row[id].stale /\ Finish(q)
            \/ /\ row[id].dev = r[q].dev /\ ~row[id].stale
               /\ r' = [r EXCEPT ![q].at = "update", ![q].id = id]
  /\ UNCHANGED <<row, users, guardVars, access, last, held, cleanup, counters, historyVars>>

\* UserIsLocalOnly or UserIsAdmin finds no user: refused.
RefreshUserGone(q) ==
  /\ IsAt(q, "update") /\ r[q].token # Empty /\ Owner[r[q].dev] \notin users
  /\ Finish(q)
  /\ UNCHANGED <<row, users, guardVars, access, last, held, cleanup, counters, historyVars>>

\* Suspected theft: DevicesDeleteForUser, then RevokeMany.
DeleteAll(q) ==
  /\ IsAt(q, "accused")
  /\ LET ids == UNION {RowsOf(u) : u \in r[q].user}
     IN  /\ row' = Without(ids)
         /\ r' = [r EXCEPT ![q] = [Idle EXCEPT !.at = "revoke", !.dev = r[q].dev, !.ids = ids]]
  /\ UNCHANGED <<users, guardVars, access, last, held, cleanup, counters, historyVars>>

-----------------------------------------------------------------------------
(* The end of login and refresh: DeviceUpdateSession and the answer *)

\* previous_refresh_token_hash is UNIQUE.
Clashes(id, hash) == \E other \in Live \ {id} : row[other].prev = hash

\* By id alone: whatever has become of the row since it was read, also when
\* there is none.
UpdateSession_Swapped(q) ==
  /\ IsAt(q, "update") /\ last < MaxToken
  /\ LET id == r[q].id IN
       IF id \in Live /\ Clashes(id, r[q].token)
         THEN Finish(q) /\ UNCHANGED <<row, last>>
         ELSE /\ last' = last + 1
              /\ r' = [r EXCEPT ![q].at = "respond", ![q].token = last + 1]
              /\ row' = IF id \in Live
                          THEN [row EXCEPT ![id].cur = r[q].token, ![id].prev = last + 1,
                                           ![id].seen = last + 1, ![id].stale = FALSE]
                          ELSE row
  /\ UNCHANGED <<users, guardVars, access, held, cleanup, counters, historyVars>>
UpdateSession(q) ==
  /\ IsAt(q, "update") /\ last < MaxToken
  /\ LET id == r[q].id IN
       IF id \in Live /\ Clashes(id, r[q].token)
         THEN Finish(q) /\ UNCHANGED <<row, last>>
         ELSE /\ last' = last + 1
              /\ r' = [r EXCEPT ![q].at = "respond", ![q].token = last + 1]
              /\ row' = IF id \in Live
                          THEN [row EXCEPT ![id].cur = last + 1, ![id].prev = r[q].token,
                                           ![id].seen = last + 1, ![id].stale = FALSE]
                          ELSE row
  /\ UNCHANGED <<users, guardVars, access, held, cleanup, counters, historyVars>>

\* IssueToken and the answer, which may be lost.
Respond(q) ==
  /\ IsAt(q, "respond")
  /\ access' = access \cup {r[q].id}
  /\ revoked' = [revoked EXCEPT ![r[q].id] = IF @ = "covers" THEN "older" ELSE @]
  /\ unguarded' = IF r[q].id \in Live THEN unguarded ELSE unguarded \cup {r[q].id}
  /\ \/ held' = [held EXCEPT ![r[q].dev] = r[q].token] /\ UNCHANGED <<changes, spoiled>>
     \/ Change /\ spoiled' = spoiled \cup {Owner[r[q].dev]} /\ UNCHANGED held
  /\ Finish(q)
  /\ UNCHANGED <<row, users, banned, last, cleanup, unbans, missed, disputed, foreign>>

-----------------------------------------------------------------------------
(* Deletions that tell the guard *)

Deleting(q, ids, d) ==
  /\ IsAt(q, "idle")
  /\ row' = Without(ids)
  /\ r' = [r EXCEPT ![q] = [Idle EXCEPT !.at = "revoke", !.dev = d, !.ids = ids]]

\* Logout of an installation with its newest access token.
Logout(q, id) ==
  LET d == row[id].dev IN
  /\ Change
  /\ d # NoDevice /\ Authorized(id)
  /\ \A newer \in Id : newer > id => row[newer].dev # d
  /\ Deleting(q, {id}, d)
  /\ spoiled' = Spoiling(d)
  /\ UNCHANGED <<users, guardVars, access, last, held, cleanup, unbans, missed, unguarded, disputed, foreign>>

\* deleteDevice from another device of the user, or an admin's revokeUserDevice.
Delete(q, id) ==
  /\ Change
  /\ id \in Live /\ Deleting(q, {id}, NoDevice)
  /\ UNCHANGED <<users, guardVars, access, last, held, cleanup, unbans, missed, historyVars>>

RevokeAll(q, u) ==
  /\ Change
  /\ RowsOf(u) # {} /\ Deleting(q, RowsOf(u), NoDevice)
  /\ UNCHANGED <<users, guardVars, access, last, held, cleanup, unbans, missed, historyVars>>

\* Revoke or RevokeMany, and the answer, which takes the client's cookies away.
Revoke(q) ==
  /\ IsAt(q, "revoke")
  /\ revoked' = Covering(r[q].ids)
  /\ held' = [d \in Device |-> IF d = r[q].dev THEN Null ELSE held[d]]
  /\ Finish(q)
  /\ UNCHANGED <<row, users, banned, access, last, cleanup, counters, historyVars>>

-----------------------------------------------------------------------------
(* Bans: the statement, scoped to the user, then the guard, by id alone *)

Disputing(q, id) ==
  IF id \in Live /\ \E other \in Request \ {q} : r[other].at \in {"guardBan", "guardUnban"} /\ id \in r[other].ids
    THEN disputed \cup {id} ELSE disputed

\* An id that is given up has no row to disagree with.
Meddling(id) == IF id \in Live \/ row[id].dev = NoDevice THEN foreign \cup {id} ELSE foreign

\* Any signed-in device may name any id but its own. The statement looks for the id
\* among the rows of the asking user; the guard follows though it has found none.
Ban(q, id) ==
  /\ Change
  /\ IsAt(q, "idle")
  /\ \E by \in Id \ {id} :
       /\ row[by].dev # NoDevice /\ Authorized(by)
       /\ IF id \in RowsOf(UserOf(by))
            THEN /\ row' = [row EXCEPT ![id].banned = TRUE, ![id].cur = Null, ![id].prev = Null]
                 /\ UNCHANGED foreign
            ELSE UNCHANGED row /\ foreign' = Meddling(id)
  /\ r' = [r EXCEPT ![q] = [Idle EXCEPT !.at = "guardBan", !.ids = {id}]]
  /\ disputed' = Disputing(q, id)
  /\ UNCHANGED <<users, guardVars, access, last, held, cleanup, unbans, missed, spoiled, unguarded>>

\* "ban supersedes revoke"
GuardBan(q) ==
  /\ IsAt(q, "guardBan")
  /\ banned' = banned \cup r[q].ids
  /\ revoked' = [id \in Id |-> IF id \in r[q].ids THEN "no" ELSE revoked[id]]
  /\ Finish(q)
  /\ UNCHANGED <<row, users, access, last, held, cleanup, counters, historyVars>>

\* Its own id too: a device that is not blocked has at most a ban the guard missed.
Unban(q, id) ==
  /\ IsAt(q, "idle")
  /\ Change
  /\ \E by \in Id :
       /\ row[by].dev # NoDevice /\ Authorized(by)
       /\ IF id \in RowsOf(UserOf(by))
            THEN /\ row' = [row EXCEPT ![id].banned = FALSE]
                 /\ unbans' = IF row[id].banned THEN unbans + 1 ELSE unbans
                 /\ UNCHANGED foreign
            ELSE UNCHANGED <<row, unbans>> /\ foreign' = Meddling(id)
  /\ r' = [r EXCEPT ![q] = [Idle EXCEPT !.at = "guardUnban", !.ids = {id}]]
  /\ disputed' = Disputing(q, id)
  /\ UNCHANGED <<users, guardVars, access, last, held, cleanup, missed, spoiled, unguarded>>

GuardUnban(q) ==
  /\ IsAt(q, "guardUnban")
  /\ banned' = banned \ r[q].ids
  /\ unguarded' = unguarded \cup ((r[q].ids \cap access) \ Live)
  /\ Finish(q)
  /\ UNCHANGED <<row, users, revoked, access, last, held, cleanup, counters, spoiled, disputed, foreign>>

-----------------------------------------------------------------------------
(* Deletions that tell the guard nothing *)

\* UpdateCredentials: the ids that DevicesDeleteForUser returns are dropped.
ChangeCredentials(u) ==
  /\ Change
  /\ RowsOf(u) # {}
  /\ row' = Without(RowsOf(u))
  /\ unguarded' = unguarded \cup (RowsOf(u) \cap access)
  /\ UNCHANGED <<users, guardVars, access, last, held, r, cleanup, unbans, missed, spoiled, disputed, foreign>>

\* UserDelete, and the devices by ON DELETE CASCADE.
DeleteUser(u) ==
  /\ Change
  /\ u \in users /\ users' = users \ {u}
  /\ row' = Without(RowsOf(u))
  /\ unguarded' = unguarded \cup (RowsOf(u) \cap access)
  /\ UNCHANGED <<guardVars, access, last, held, r, cleanup, unbans, missed, spoiled, disputed, foreign>>

CleanupList ==
  /\ cleanup = {}
  /\ cleanup' = {id \in Live : row[id].stale /\ ~row[id].banned}
  /\ cleanup' # {}
  /\ UNCHANGED <<row, users, guardVars, access, last, held, r, counters, historyVars>>

\* DevicesDeleteByID, of rows that may have been used or banned since.
CleanupDelete ==
  /\ cleanup # {} /\ cleanup' = {}
  /\ row' = Without(cleanup)
  /\ unguarded' = unguarded \cup (cleanup \cap Live \cap access)
  /\ UNCHANGED <<users, guardVars, access, last, held, r, counters, spoiled, disputed, foreign>>

-----------------------------------------------------------------------------
(* Time and restarts *)

\* An access token expires after every one issued before it and before every
\* revocation entered after it.
Expire(id) ==
  /\ \/ /\ id \in access /\ revoked[id] # "older"
        /\ access' = access \ {id} /\ unguarded' = unguarded \ {id} /\ UNCHANGED revoked
     \/ /\ revoked[id] = "older" \/ (revoked[id] = "covers" /\ id \notin access)
        /\ revoked' = [revoked EXCEPT ![id] = "no"] /\ UNCHANGED <<access, unguarded>>
  /\ UNCHANGED <<row, users, banned, last, held, r, cleanup, counters, spoiled, disputed, foreign>>

\* A device is away past its refresh token and past deviceStaleAge: nothing of
\* it is in flight and its access tokens have expired.
GoStale(id) ==
  /\ Change
  /\ id \in Live \ access /\ ~row[id].stale /\ cleanup = {}
  /\ \A q \in Request : IsAt(q, "idle")
  /\ row' = [row EXCEPT ![id].stale = TRUE]
  /\ UNCHANGED <<users, guardVars, access, last, held, r, cleanup, unbans, missed, historyVars>>

\* A browser profile or an app's data restored on another installation.
CopyProfile(d, e) ==
  /\ Change
  /\ Owner[d] = Owner[e] /\ held[d] \notin {Null, held[e]}
  /\ held' = [held EXCEPT ![e] = held[d]]
  /\ spoiled' = spoiled \cup {Owner[d]}
  /\ UNCHANGED <<row, users, guardVars, access, last, r, cleanup, unbans, missed, unguarded, disputed, foreign>>

\* The process starts again: LoadBanned, no revocations, nothing in flight.
Restart_NoLoad ==
  /\ Change
  /\ r' = [q \in Request |-> Idle] /\ cleanup' = {}
  /\ banned' = {} /\ revoked' = [id \in Id |-> "no"]
  /\ spoiled' = spoiled \cup {Owner[r[q].dev] : q \in {p \in Request : IsAt(p, "respond")}}
  /\ unguarded' = unguarded \cup (access \ Live)
  /\ disputed' = {} /\ foreign' = {}
  /\ UNCHANGED <<row, users, access, last, held, unbans, missed>>
Restart ==
  /\ Change
  /\ r' = [q \in Request |-> Idle] /\ cleanup' = {}
  /\ banned' = {id \in Live : row[id].banned} /\ revoked' = [id \in Id |-> "no"]
  /\ spoiled' = spoiled \cup {Owner[r[q].dev] : q \in {p \in Request : IsAt(p, "respond")}}
  /\ unguarded' = unguarded \cup (access \ Live)
  /\ disputed' = {} /\ foreign' = {}
  /\ UNCHANGED <<row, users, access, last, held, unbans, missed>>

Init ==
  /\ row = [id \in Id |-> Absent] /\ users = User
  /\ banned = {} /\ revoked = [id \in Id |-> "no"] /\ access = {} /\ last = 0
  /\ held = [d \in Device |-> Null] /\ r = [q \in Request |-> Idle] /\ cleanup = {}
  /\ changes = 0 /\ unbans = 0 /\ missed = 0
  /\ spoiled = {} /\ unguarded = {} /\ disputed = {} /\ foreign = {}

Login(q, d) == LoginFind(q, d) \/ RefreshReplay(q, d)
Step(q) ==
  \/ LoginCount(q) \/ LoginChoose(q) \/ LoginEvict(q) \/ RevokeEvicted(q) \/ LoginCreate(q)
  \/ RefreshFind(q) \/ RefreshUserGone(q) \/ DeleteAll(q) \/ UpdateSession(q) \/ Respond(q)
  \/ Revoke(q) \/ GuardBan(q) \/ GuardUnban(q)
Manage(q, id) == Logout(q, id) \/ Delete(q, id) \/ Ban(q, id) \/ Unban(q, id)

Next ==
  \/ \E q \in Request :
       \/ Step(q)
       \/ \E d \in Device : Login(q, d)
       \/ \E id \in Id : Manage(q, id)
       \/ \E u \in User : RevokeAll(q, u)
  \/ \E u \in User : ChangeCredentials(u) \/ DeleteUser(u)
  \/ CleanupList \/ CleanupDelete \/ Restart
  \/ \E id \in Id : GoStale(id) \/ Expire(id)
  \/ \E d, e \in Device : CopyProfile(d, e)

Spec == Init /\ [][Next]_vars

-----------------------------------------------------------------------------
TypeOK ==
  /\ row \in [Id -> [dev : Device \cup {NoDevice}, live : BOOLEAN, cur : Token \cup {Null},
                     prev : Token \cup {Null, Empty}, banned : BOOLEAN, stale : BOOLEAN,
                     seen : 0..MaxToken]]
  /\ \A id \in Id : row[id].live => row[id].dev \in Device
  /\ users \subseteq User /\ banned \subseteq Id /\ revoked \in [Id -> {"no", "covers", "older"}]
  /\ access \subseteq Id /\ last \in 0..MaxToken
  /\ held \in [Device -> Token \cup {Null}] /\ cleanup \subseteq Id /\ changes \in 0..MaxChanges /\ unbans \in 0..changes /\ missed \in Nat
  /\ r \in [Request -> [at : {"idle", "count", "evict", "delete", "evicted", "create", "find", "accused",
                              "update", "respond", "revoke", "guardBan", "guardUnban"},
                        dev : Device \cup {NoDevice}, user : SUBSET User, id : Id \cup {NoId},
                        ids : SUBSET Id, token : Token \cup {Null, Empty}]]
  /\ \A q \in Request :
       /\ r[q].at \in {"count", "evict", "delete", "evicted", "create", "find", "update", "respond"} => r[q].dev \in Device
       /\ r[q].at \in {"update", "respond"} => r[q].id \in Id
       /\ r[q].at \in {"find", "update"} => r[q].token # Null
       /\ r[q].at = "respond" => r[q].token \in Token
  /\ spoiled \subseteq User /\ unguarded \subseteq Id /\ disputed \subseteq Id /\ foreign \subseteq Id

\* The logins of a user that have made room, or found it, and will insert a row.
Creating(u) == {q \in Request : r[q].at \in {"evicted", "create"} /\ Owner[r[q].dev] = u}

\* A user's active devices, and those about to be created, exceed the limit by at most
\* one per further request in flight, one per unban, and one per eviction that took no
\* active device: every other login at the limit makes room for itself first (auth.go,
\* DevicesMaxPerUser). Two logins that choose the same row to evict do drift above the
\* limit, by one each time, and missed counts how often.
DevicesBounded ==
  \A u \in User :
    Cardinality(Active(u)) + Cardinality(Creating(u))
      <= MaxDevices - 1 + Cardinality(Request) + unbans + missed

\* "Check for replayed (already-rotated) token": a user whose installations send
\* one request at a time, receive every answer and keep their data to themselves
\* is never accused of theft, whatever is evicted, banned, deleted or restarted.
HonestNeverAccused == \A q \in Request : IsAt(q, "accused") => r[q].user \subseteq spoiled

\* An installation of such a user holds the token its row knows, as long as it
\* has a row and no ban has erased the token.
ClientAndRowAgree ==
  \A d \in Device :
    Owner[d] \notin spoiled /\ (\A q \in Request : r[q].dev # d)
      => \A id \in SessionOf(d) : row[id].cur \in {Null, held[d]}

\* Revocation is there "so existing access tokens are blocked": once a row is
\* gone, its tokens are refused, but for a Revoke under way and the deletions the
\* guard is not told of or has forgotten.
DeletedIsBlocked ==
  \A id \in access \ Live :
    \/ IsBlocked(id) \/ id \in unguarded
    \/ \E q \in Request : r[q].at \in {"evicted", "revoke"} /\ id \in r[q].ids

\* The guard and the table agree on who is banned, across restarts, except while the
\* second half of a ban or unban is under way, or after two have overlapped. A ban or
\* unban by another user, or of an id that has no row yet, changes the guard alone
\* (auth.go:437, 457): guard and table then differ until a restart.
GuardFollowsBans ==
  \A id \in Live \ (disputed \cup foreign) :
    \/ row[id].banned <=> id \in banned
    \/ \E q \in Request : r[q].at \in {"guardBan", "guardUnban"} /\ id \in r[q].ids

\* "login fine as well": signing in again on a device that has a session does not
\* collide with another device that has done so.
ReloginSucceeds ==
  \A q \in Request :
    IsAt(q, "update") /\ r[q].id \in Live /\ r[q].token = Empty => ~Clashes(r[q].id, Empty)
=============================================================================
