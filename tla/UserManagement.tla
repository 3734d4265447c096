---------------------------- MODULE UserManagement ----------------------------
(***************************************************************************)
(* The users of the web UI, as the API manages them: a user is an entry of *)
(* the Cognito user pool, the group that gives him a role and, for an      *)
(* account operator, a row with his accounts in a table.  Invitations,     *)
(* updates, deletions and lists go from one of these to the other, in      *)
(* containers that run one request at a time and keep what they looked up  *)
(* as long as they live.                                                   *)
(***************************************************************************)
EXTENDS Naturals, FiniteSets

CONSTANTS
  Users,       \* email addresses
  Accounts,    \* lists of accounts an operator may have
  Containers,  \* containers of the API function
  PageLimit,   \* users that one ListUsers answers
  MaxCalls,    \* bound on the requests
  MaxFaults,   \* bound on failing calls and stopped containers
  None

ASSUME UsersAssumption ==
  /\ {PageLimit, MaxCalls, MaxFaults} \subseteq Nat
  /\ None \notin Accounts \cup Users
  /\ \A groups \in SUBSET {"delegated", "operator"} : None # groups

VARIABLES
  pool,       \* user -> his groups, None without an entry in the pool
  mapping,    \* user -> accountIds, None without a row
  cache,      \* container -> user -> his type in userCache
  call,       \* container -> the request it handles
  calls,      \* requests still to come
  faults,     \* faults still to come
  wanted,     \* user -> role and accounts that the requests answered with success ask for
  disturbed,  \* users whose requests overlapped, or believed an outdated cache
  cut,        \* users with a request that ended midway, and none answered with success since
  outdated,   \* containers and users: what is cached, or to be, missed a change or an error
  present     \* container -> users who had a role always, or ever, since its list began

storeVars == <<pool, mapping>>
vars == <<storeVars, cache, call, calls, faults, wanted, disturbed, cut, outdated, present>>

Roles == {"delegated", "operator"}

NoUser == [role |-> "none", accounts |-> None]
User == [role: Roles, accounts: Accounts \cup {None}]

Idle == [pc |-> "idle", kind |-> "none", user |-> None, role |-> "none", accounts |-> None,
         todo |-> {}, listed |-> {}]
Looking == {"lookup", "groups", "accounts"}
Steps == {"create", "group", "map", "update", "unmap", "remove", "list"} \cup Looking
Call == [pc: Steps \cup {"idle"}, kind: {"none", "invite", "update", "delete", "list"},
         user: Users \cup {None}, role: Roles \cup {"none"}, accounts: Accounts \cup {None},
         todo: SUBSET Users, listed: SUBSET Users]

Init ==
  /\ pool = [u \in Users |-> None]
  /\ mapping = [u \in Users |-> None]
  /\ cache = [c \in Containers |-> [u \in Users |-> "unknown"]]
  /\ call = [c \in Containers |-> Idle]
  /\ calls = MaxCalls
  /\ faults = MaxFaults
  /\ wanted = [u \in Users |-> NoUser]
  /\ disturbed = {}
  /\ cut = {}
  /\ outdated = {}
  /\ present = [c \in Containers |-> [always |-> {}, ever |-> {}]]

-----------------------------------------------------------------------------
\* Mutant of TypeOf: a type of its own for users without a group.
TypeOfOther(groups) ==
  CASE groups = None -> "null"
    [] groups # None /\ "operator" \in groups -> "operator"
    [] groups # None /\ "operator" \notin groups -> "other"

\* determineUserType, null for an entry without a group.
TypeOf(groups) ==
  CASE groups = None -> "null"
    [] groups = {} -> "null"
    [] groups \notin {None, {}} -> IF "delegated" \in groups THEN "delegated" ELSE "operator"

Goto(c, pc) == call' = [call EXCEPT ![c].pc = pc]

\* The request is answered.
Done(c) == call' = [call EXCEPT ![c] = Idle]

Active(u) == \E c \in Containers : call[c].user = u

\* A request on u comes to a container.
Receive(c, new) ==
  /\ call[c] = Idle
  /\ calls > 0
  /\ calls' = calls - 1
  /\ call' = [call EXCEPT ![c] = new]
  /\ disturbed' = disturbed \cup IF Active(new.user) THEN {new.user} ELSE {}
  /\ UNCHANGED <<storeVars, cache, faults, wanted, cut, outdated, present>>

\* A container that has u cached, or has read his groups and is to cache him.
Holds(c, u) == cache[c][u] # "unknown" \/ (call[c].pc = "accounts" /\ call[c].user = u)

\* The pool's entry of u is made or removed.  Some containers forget him; others need not
\* see the change when they hold him.
Entry(u, groups, forgetting, excused) ==
  /\ pool' = [pool EXCEPT ![u] = groups]
  /\ cache' = [c \in Containers |->
                IF c \in forgetting THEN [cache[c] EXCEPT ![u] = "unknown"] ELSE cache[c]]
  /\ outdated' = {p \in outdated : p \notin forgetting \X {u}} \cup
                 {p \in excused \X {u} : Holds(p[1], u)}
  /\ present' = [c \in Containers |->
       [always |-> IF groups = None THEN present[c].always \ {u} ELSE present[c].always,
        ever |-> IF TypeOf(groups) = "null" THEN present[c].ever ELSE present[c].ever \cup {u}]]

-----------------------------------------------------------------------------
(***************************************************************************)
(* POST /users: inviteUserHandler, createUser.                             *)
(***************************************************************************)
Invite(c, u, role, accounts) ==
  /\ role = "operator" <=> accounts # None
  /\ Receive(c, [Idle EXCEPT !.pc = "create", !.kind = "invite", !.user = u, !.role = role,
                             !.accounts = accounts])

\* AdminCreateUser: a user who is there is answered with an error.
CreateUser(c) ==
  LET u == call[c].user IN
  /\ call[c].pc = "create"
  /\ IF pool[u] # None
     THEN Done(c) /\ UNCHANGED <<pool, cache, outdated, present>>
     ELSE Goto(c, "group") /\ Entry(u, {}, {}, Containers)
  /\ UNCHANGED <<mapping, calls, faults, wanted, disturbed, cut>>

\* An invitation is answered with success.
Invited(c) ==
  /\ Done(c)
  /\ wanted' = [wanted EXCEPT ![call[c].user] =
                 [role |-> call[c].role, accounts |-> call[c].accounts]]
  /\ cut' = cut \ {call[c].user}

\* AdminAddUserToGroup
AddToGroup(c) ==
  LET u == call[c].user IN
  /\ call[c].pc = "group"
  /\ pool[u] # None
  /\ Entry(u, pool[u] \cup {call[c].role}, {}, Containers)
  /\ IF call[c].role = "operator" THEN Goto(c, "map") /\ UNCHANGED <<wanted, cut>> ELSE Invited(c)
  /\ UNCHANGED <<mapping, calls, faults, disturbed>>

\* UserAccountMappingRepository.create
CreateMapping(c) ==
  /\ call[c].pc = "map"
  /\ mapping' = [mapping EXCEPT ![call[c].user] = call[c].accounts]
  /\ Invited(c)
  /\ UNCHANGED <<pool, cache, calls, faults, disturbed, outdated, present>>

-----------------------------------------------------------------------------
(***************************************************************************)
(* PUT and DELETE /users/{id}: getUserById, updateAccountOperatorUser,     *)
(* deleteUser.                                                             *)
(***************************************************************************)
UpdateUser(c, u, accounts) ==
  Receive(c, [Idle EXCEPT !.pc = "lookup", !.kind = "update", !.user = u, !.accounts = accounts])

\* (deleteUserHandler looks the user up, and deleteUser again, from the cache.)
DeleteUser(c, u) ==
  Receive(c, [Idle EXCEPT !.pc = "lookup", !.kind = "delete", !.user = u])

\* What the request does with the type found; null is answered with 404, and an update that
\* names another type, or another status than his, with 400.
AfterLookup(c, type) ==
  \/ type = "null" /\ Done(c)
  \/ type # "null" /\ call[c].kind = "update" /\ Done(c)
  \/ type = "operator" /\ call[c].kind = "update" /\ Goto(c, "update")
  \/ type = "operator" /\ call[c].kind = "delete" /\ Goto(c, "unmap")
  \/ type = "delegated" /\ call[c].kind = "delete" /\ Goto(c, "remove")

\* getUserById ends with a type, and the request goes on with it.
Found(c, type) ==
  LET u == call[c].user IN
  /\ cache' = [cache EXCEPT ![c][u] = type]
  /\ AfterLookup(c, type)
  /\ disturbed' = disturbed \cup IF <<c, u>> \in outdated /\ type # "null" THEN {u} ELSE {}
  /\ UNCHANGED <<storeVars, calls, faults, wanted, cut, outdated, present>>

\* A step that reads, and goes on.
Reads(c, pc) ==
  /\ Goto(c, pc)
  /\ UNCHANGED <<storeVars, cache, calls, faults, wanted, disturbed, cut, outdated, present>>

\* The cache has him; or AdminGetUser, which raises when there is no entry, and then he is
\* cached as missing.
Lookup(c) ==
  LET u == call[c].user IN
  /\ call[c].pc = "lookup"
  /\ \/ cache[c][u] # "unknown" /\ Found(c, cache[c][u])
     \/ cache[c][u] = "unknown" /\ pool[u] = None /\ Found(c, "null")
     \/ cache[c][u] = "unknown" /\ pool[u] # None /\ Reads(c, "groups")

\* AdminListGroupsForUser: only an operator's accounts are read before he is cached.
LookupGroups(c) ==
  LET type == TypeOf(pool[call[c].user]) IN
  /\ call[c].pc = "groups"
  /\ \/ type # "operator" /\ Found(c, type)
     \/ type = "operator" /\ Reads(c, "accounts")

\* getUserAccounts, which counts a failing read as no row.
LookupAccounts(c) ==
  /\ call[c].pc = "accounts"
  /\ Found(c, "operator")

\* A call to the pool fails: the user is cached as missing.
LookupFails(c) ==
  LET u == call[c].user IN
  /\ \/ call[c].pc = "lookup" /\ cache[c][u] = "unknown"
     \/ call[c].pc = "groups"
  /\ faults > 0 /\ faults' = faults - 1
  /\ cache' = [cache EXCEPT ![c][u] = "null"]
  /\ outdated' = outdated \cup {<<c, u>>}
  /\ Done(c)
  /\ UNCHANGED <<storeVars, calls, wanted, disturbed, cut, present>>

\* The row is put or created with the accounts of the request, whatever the read before found:
\* so that read is no step of its own.
UpdateMapping(c) ==
  LET u == call[c].user IN
  /\ call[c].pc = "update"
  /\ mapping' = [mapping EXCEPT ![u] = call[c].accounts]
  /\ wanted' = [wanted EXCEPT ![u] = [role |-> "operator", accounts |-> call[c].accounts]]
  /\ cut' = cut \ {u}
  /\ cache' = [cache EXCEPT ![c][u] = "unknown"]
  /\ outdated' = outdated \ {<<c, u>>}
  /\ Done(c)
  /\ UNCHANGED <<pool, calls, faults, disturbed, present>>

\* Mutant of DeleteMapping: the row stays.
DeleteMappingNot(c) ==
  /\ call[c].pc = "unmap"
  /\ Goto(c, "remove")
  /\ UNCHANGED <<storeVars, cache, calls, faults, wanted, disturbed, cut, outdated, present>>

\* UserAccountMappingRepository.deleteIfExists
DeleteMapping(c) ==
  /\ call[c].pc = "unmap"
  /\ mapping' = [mapping EXCEPT ![call[c].user] = None]
  /\ Goto(c, "remove")
  /\ UNCHANGED <<pool, cache, calls, faults, wanted, disturbed, cut, outdated, present>>

\* Mutant of Forgetting: the cache keeps a deleted user.
ForgettingNone(c) == {}

\* userCache.delete
Forgetting(c) == {c}

\* AdminDeleteUser, answered
RemoveUser(c) ==
  LET u == call[c].user IN
  /\ call[c].pc = "remove"
  /\ pool[u] # None
  /\ Entry(u, None, Forgetting(c), Containers \ {c})
  /\ wanted' = [wanted EXCEPT ![u] = NoUser]
  /\ cut' = cut \ {u}
  /\ Done(c)
  /\ UNCHANGED <<mapping, calls, faults, disturbed>>

-----------------------------------------------------------------------------
(***************************************************************************)
(* GET /users: getAllUsers.                                                *)
(***************************************************************************)

\* ListUsers, one page.
ListUsers(c) ==
  LET entries == {u \in Users : pool[u] # None} IN
  /\ call[c] = Idle
  /\ calls > 0
  /\ calls' = calls - 1
  /\ \E page \in SUBSET entries :
       /\ Cardinality(page) = IF Cardinality(entries) < PageLimit THEN Cardinality(entries)
                              ELSE PageLimit
       /\ call' = [call EXCEPT ![c] = [Idle EXCEPT !.pc = "list", !.kind = "list", !.todo = page]]
  /\ LET roles == {u \in entries : pool[u] # {}}
     IN  present' = [present EXCEPT ![c] = [always |-> roles, ever |-> roles]]
  /\ UNCHANGED <<storeVars, cache, faults, wanted, disturbed, cut, outdated>>

\* Mutant of Listable: users without a group are listed.
ListableAll(u) == TRUE

\* Users without a recognized group are skipped.
Listable(u) == TypeOf(pool[u]) # "null"

\* AdminListGroupsForUser.  The accounts of an operator are read next, which cannot fail and
\* changes nothing but what the list says of him.
ListUser(c, u) ==
  /\ call[c].pc = "list"
  /\ u \in call[c].todo
  /\ pool[u] # None
  /\ call' = [call EXCEPT ![c].todo = @ \ {u},
                          ![c].listed = IF Listable(u) THEN @ \cup {u} ELSE @]
  /\ UNCHANGED <<storeVars, cache, calls, faults, wanted, disturbed, cut, outdated, present>>

ListEnds(c) ==
  /\ call[c].pc = "list"
  /\ call[c].todo = {}
  /\ Done(c)
  /\ UNCHANGED <<storeVars, cache, calls, faults, wanted, disturbed, cut, outdated, present>>

-----------------------------------------------------------------------------
\* The request of c ends in an error: midway, if it may have written and has more to write.
Broken(c) ==
  /\ Done(c)
  /\ cut' = cut \cup IF call[c].pc \in {"group", "map", "remove"} THEN {call[c].user} ELSE {}

\* The user has gone: the call raises.
Raises(c) ==
  /\ \/ call[c].pc \in {"group", "remove"} /\ pool[call[c].user] = None
     \/ call[c].pc = "list" /\ \E u \in call[c].todo : pool[u] = None
  /\ Broken(c)
  /\ UNCHANGED <<storeVars, cache, calls, faults, wanted, disturbed, outdated, present>>

\* A call fails without effect: the rest of the request is not done.
Fails(c) ==
  /\ call[c].pc \in Steps \ Looking
  /\ faults > 0 /\ faults' = faults - 1
  /\ Broken(c)
  /\ UNCHANGED <<storeVars, cache, calls, wanted, disturbed, outdated, present>>

\* A write takes effect and its answer is lost: the request ends in an error, and the container
\* forgets nobody.
AnswerLost(c) ==
  LET u == call[c].user IN
  /\ faults > 0 /\ faults' = faults - 1
  /\ \/ /\ call[c].pc = "create" /\ pool[u] = None
        /\ Entry(u, {}, {}, Containers) /\ UNCHANGED mapping
     \/ /\ call[c].pc = "group" /\ pool[u] # None
        /\ Entry(u, pool[u] \cup {call[c].role}, {}, Containers) /\ UNCHANGED mapping
     \/ /\ call[c].pc = "remove" /\ pool[u] # None
        /\ Entry(u, None, {}, Containers) /\ UNCHANGED mapping
     \/ /\ call[c].pc \in {"map", "update", "unmap"}
        /\ mapping' = [mapping EXCEPT ![u] = IF call[c].pc = "unmap" THEN None ELSE call[c].accounts]
        /\ UNCHANGED <<pool, cache, outdated, present>>
  /\ Done(c)
  /\ cut' = cut \cup {u}
  /\ UNCHANGED <<calls, wanted, disturbed>>

\* The container is lost, and its cache, at work or idle.
Lost(c) ==
  /\ faults' = IF call[c] = Idle THEN faults ELSE faults - 1
  /\ faults' \in Nat
  /\ Broken(c)
  /\ cache' = [cache EXCEPT ![c] = [u \in Users |-> "unknown"]]
  /\ outdated' = outdated \ ({c} \X Users)
  /\ UNCHANGED <<storeVars, calls, wanted, disturbed, present>>

Next ==
  \E c \in Containers :
    \/ \E u \in Users, role \in Roles, accounts \in Accounts \cup {None} :
         Invite(c, u, role, accounts)
    \/ \E u \in Users, accounts \in Accounts : UpdateUser(c, u, accounts)
    \/ \E u \in Users : DeleteUser(c, u)
    \/ CreateUser(c) \/ AddToGroup(c) \/ CreateMapping(c)
    \/ Lookup(c) \/ LookupGroups(c) \/ LookupAccounts(c) \/ LookupFails(c)
    \/ UpdateMapping(c) \/ DeleteMapping(c) \/ RemoveUser(c)
    \/ ListUsers(c) \/ (\E u \in Users : ListUser(c, u)) \/ ListEnds(c)
    \/ Raises(c) \/ Fails(c) \/ AnswerLost(c) \/ Lost(c)

Spec == Init /\ [][Next]_vars

-----------------------------------------------------------------------------
TypeOK ==
  /\ pool \in [Users -> (SUBSET Roles) \cup {None}]
  /\ mapping \in [Users -> Accounts \cup {None}]
  /\ cache \in [Containers -> [Users -> Roles \cup {"unknown", "null"}]]
  /\ call \in [Containers -> Call]
  /\ present \in [Containers -> [always: SUBSET Users, ever: SUBSET Users]]
  /\ calls \in 0 .. MaxCalls
  /\ faults \in 0 .. MaxFaults
  /\ wanted \in [Users -> User \cup {NoUser}]
  /\ disturbed \subseteq Users
  /\ cut \subseteq Users
  /\ outdated \subseteq Containers \X Users

\* Once the last request on a user that wrote anything was answered with success, whatever
\* failed before, the pool and the table hold what the requests so answered asked for: the one
\* group of his role, and the accounts of an operator.  However requests fail, a row belongs to
\* an operator.  Only requests that overlap or believe an outdated cache can break this.
StoresAgree ==
  \A u \in Users : u \notin disturbed /\ ~Active(u) =>
    /\ mapping[u] # None => pool[u] = {"operator"}
    /\ u \notin cut =>
         /\ pool[u] = IF wanted[u] = NoUser THEN None ELSE {wanted[u].role}
         /\ mapping[u] = wanted[u].accounts

\* What a container has cached of a user is what it would find now, except in four cases: he
\* was invited, or deleted by another container, since it read his groups; the read failed;
\* or it deleted him itself and the answer was lost.
CacheFollows ==
  \A c \in Containers, u \in Users :
    cache[c][u] # "unknown" /\ <<c, u>> \notin outdated => cache[c][u] = TypeOf(pool[u])

\* A list has every user who had a role all the time it was made, and nobody who never
\* had one meanwhile.
ListComplete ==
  \A c \in Containers : call[c].pc = "list" /\ call[c].todo = {} =>
    present[c].always \subseteq call[c].listed /\ call[c].listed \subseteq present[c].ever
=============================================================================
