------------------------ MODULE UserManagementProofs ------------------------
(***************************************************************************)
(* Proofs about UserManagement, for any number of users, containers,       *)
(* requests and faults: the pool and the table agree with the requests     *)
(* that were answered, what a container has cached follows the pool, and a *)
(* list has the users it should, if they fit one page.                     *)
(***************************************************************************)
EXTENDS UserManagement, FiniteSetTheorems, TLAPS

\* The stores hold what is wanted.
Agree(u) ==
  /\ pool[u] = IF wanted[u] = NoUser THEN None ELSE {wanted[u].role}
  /\ mapping[u] = wanted[u].accounts

\* What requests that fail leave at most: one group, and no row without an operator.
Tidy(u) ==
  /\ pool[u] \in {None, {}, {"delegated"}, {"operator"}}
  /\ mapping[u] # None => pool[u] = {"operator"}

Settled(u) == Tidy(u) /\ (u \notin cut => Agree(u))

\* A request knows what it needs.
Formed(k) ==
  /\ k.pc \in {"idle", "list"} => k.user = None
  /\ k.pc \notin {"idle", "list"} => k.user # None
  /\ k.pc \in {"create", "group", "map"} =>
       /\ k.kind = "invite" /\ k.role \in Roles
       /\ k.role = "operator" <=> k.accounts # None
  /\ k.pc = "map" => k.role = "operator"
  /\ k.pc \in Looking => k.kind \in {"update", "delete"}
  /\ k.pc = "update" \/ k.kind = "update" => k.accounts # None

\* How far the request has come with a user whom no other disturbs.
Reached(k, u) ==
  /\ Tidy(u)
  /\ k.pc \in {"create", "update", "unmap"} \cup Looking => Settled(u)
  /\ k.pc \in {"update", "unmap", "map"} => pool[u] = {"operator"}
  /\ k.pc = "group" => pool[u] = {}
  /\ k.pc = "remove" => mapping[u] = None

Undisturbed(u) ==
  u \notin disturbed =>
    /\ \A c, d \in Containers : call[c].user = u /\ call[d].user = u => c = d
    /\ \A c \in Containers : call[c].user = u => Reached(call[c], u)
    /\ ~Active(u) => Settled(u)

\* A container that reads the accounts of a user has found an operator, and what it found
\* still holds, or is known to be outdated.
Foreseen(c) ==
  call[c].pc = "accounts" /\ <<c, call[c].user>> \notin outdated =>
    TypeOf(pool[call[c].user]) = "operator"

Inv ==
  /\ TypeOK
  /\ CacheFollows
  /\ \A c \in Containers : Formed(call[c]) /\ Foreseen(c)
  /\ \A u \in Users : Undisturbed(u)

\* The requests keep their part of Inv in a step.
CallsMoved ==
  /\ call' \in [Containers -> Call]
  /\ \A d \in Containers : Formed(call[d])' /\ Foreseen(d)'
  /\ \A v \in Users : Undisturbed(v)'

\* A step of c leaves the pool's entries as the other containers found them, or marks these.
Marked(c) ==
  /\ outdated \ ({c} \X Users) \subseteq outdated'
  /\ \A d \in Containers \ {c} :
       call[d].pc = "accounts" =>
         \/ pool'[call[d].user] = pool[call[d].user]
         \/ <<d, call[d].user>> \in outdated'

\* A step of c on u leaves the other users alone.
Apart(u) ==
  \A v \in Users : v # u =>
    /\ pool'[v] = pool[v] /\ mapping'[v] = mapping[v] /\ wanted'[v] = wanted[v]
    /\ v \in cut' <=> v \in cut

-----------------------------------------------------------------------------
\* The type of a user by his groups.
LEMMA TypeOfFacts ==
  ASSUME NEW groups \in (SUBSET Roles) \cup {None}
  PROVE  /\ TypeOf(groups) \in Roles \cup {"null"}
         /\ TypeOf(groups) = "null" <=> groups \in {None, {}}
         /\ \A role \in Roles : groups = {role} => TypeOf(groups) = role
<1>1. CASE groups \in {None, {}}
  <2>1. TypeOf(groups) = "null"
    BY <1>1 DEF TypeOf
  <2> QED  BY <1>1, <2>1, UsersAssumption DEF Roles
<1>2. CASE groups \notin {None, {}}
  <2>1. TypeOf(groups) = IF "delegated" \in groups THEN "delegated" ELSE "operator"
    BY <1>2 DEF TypeOf
  <2> QED  BY <1>2, <2>1 DEF Roles
<1> QED  BY <1>1, <1>2

\* An entry of the pool changes: the types, and what containers see of it.
LEMMA EntryStep ==
  ASSUME TypeOK, CacheFollows, NEW u \in Users, NEW groups \in (SUBSET Roles) \cup {None},
         NEW c \in Containers, NEW forgetting \in SUBSET {c},
         NEW excused, excused \in {Containers, Containers \ forgetting},
         Entry(u, groups, forgetting, excused)
  PROVE  /\ pool' \in [Users -> (SUBSET Roles) \cup {None}]
         /\ cache' \in [Containers -> [Users -> Roles \cup {"unknown", "null"}]]
         /\ outdated' \subseteq Containers \X Users
         /\ present' \in [Containers -> [always: SUBSET Users, ever: SUBSET Users]]
         /\ CacheFollows' /\ Marked(c)
         /\ pool'[u] = groups /\ \A v \in Users : v # u => pool'[v] = pool[v]
<1>1. pool' = [pool EXCEPT ![u] = groups]
  BY DEF Entry
<1>2. /\ pool' \in [Users -> (SUBSET Roles) \cup {None}]
      /\ pool'[u] = groups /\ \A v \in Users : v # u => pool'[v] = pool[v]
  BY <1>1 DEF TypeOK
<1>3. cache' = [d \in Containers |->
                 IF d \in forgetting THEN [cache[d] EXCEPT ![u] = "unknown"] ELSE cache[d]]
  BY DEF Entry
<1>4. cache' \in [Containers -> [Users -> Roles \cup {"unknown", "null"}]]
  BY <1>3 DEF TypeOK
<1>5. outdated' = {p \in outdated : p \notin forgetting \X {u}} \cup
                  {p \in excused \X {u} : Holds(p[1], u)}
  BY DEF Entry
<1>6. outdated' \subseteq Containers \X Users
  BY <1>5 DEF TypeOK
<1>7. present' \in [Containers -> [always: SUBSET Users, ever: SUBSET Users]]
  <2>1. \A d \in Containers : present[d].always \in SUBSET Users /\ present[d].ever \in SUBSET Users
    BY DEF TypeOK
  <2> QED  BY <2>1 DEF Entry
<1>8. CacheFollows'
  <2> SUFFICES ASSUME NEW d \in Containers, NEW v \in Users,
                      cache'[d][v] # "unknown", <<d, v>> \notin outdated'
               PROVE  cache'[d][v] = TypeOf(pool'[v])
    BY DEF CacheFollows
  <2>1. CASE v # u
    <3>1. cache'[d][v] = cache[d][v] /\ <<d, v>> \notin outdated
      BY <1>3, <1>5, <2>1 DEF TypeOK
    <3> QED  BY <1>2, <2>1, <3>1 DEF CacheFollows
  <2>2. CASE v = u
    <3>1. CASE d \in forgetting
      BY <1>3, <2>2, <3>1 DEF TypeOK
    <3>2. CASE d \notin forgetting
      <4>1. cache[d][u] # "unknown" /\ d \in excused
        BY <1>3, <2>2, <3>2 DEF TypeOK
      <4> QED  BY <1>5, <2>2, <4>1 DEF Holds
    <3> QED  BY <3>1, <3>2
  <2> QED  BY <2>1, <2>2
<1>9. Marked(c)
  <2>1. outdated \ ({c} \X Users) \subseteq outdated'
    BY <1>5 DEF TypeOK
  <2>2. ASSUME NEW d \in Containers \ {c}, call[d].pc = "accounts", call[d].user = u
        PROVE  <<d, u>> \in outdated'
    BY <1>5, <2>2 DEF Holds
  <2>3. \A d \in Containers : call[d].user \in Users \cup {None}
    BY DEF TypeOK, Call
  <2>4. \A d \in Containers : call[d].user # u => pool'[call[d].user] = pool[call[d].user]
    BY <1>1, <2>3 DEF TypeOK
  <2> QED  BY <2>1, <2>2, <2>4 DEF Marked
<1> QED  BY <1>2, <1>4, <1>6, <1>7, <1>8, <1>9

\* The request of a container moves on: it is formed, and the users are undisturbed,
\* if this holds of what it does to its own.
LEMMA CallStep ==
  ASSUME Inv, NEW c \in Containers, NEW k \in Call, Formed(k),
         call' = [call EXCEPT ![c] = k], NEW u \in Users, call[c].user = u,
         k.user \in {u, None}, disturbed \subseteq disturbed', Apart(u), Marked(c),
         k.pc = "accounts" => TypeOf(pool'[k.user]) = "operator",
         u \notin disturbed' /\ k.user = u => Reached(k, u)',
         u \notin disturbed' /\ k.user = None => Settled(u)'
  PROVE  CallsMoved
<1>1. call \in [Containers -> Call]
  BY DEF Inv, TypeOK
<1>2. call'[c] = k /\ (\A d \in Containers : d # c => call'[d] = call[d])
      /\ call' \in [Containers -> Call]
  BY <1>1
<1>3. \A d \in Containers : Formed(call[d])'
  <2>1. \A d \in Containers : Formed(call'[d])
    BY <1>2 DEF Inv
  <2> QED  BY <2>1 DEF Formed
<1>4. ASSUME NEW v \in Users, v # u
      PROVE  Undisturbed(v)'
  <2>1. Undisturbed(v)
    BY DEF Inv
  <2>2. \A d \in Containers : (call'[d].user = v <=> call[d].user = v)
                             /\ (call[d].user = v => call'[d] = call[d])
    BY <1>2, <1>4, UsersAssumption
  <2>3. (Settled(v)' <=> Settled(v)) /\ (Tidy(v)' <=> Tidy(v)) /\ (Active(v)' <=> Active(v))
    BY <1>4, <2>2 DEF Apart, Settled, Tidy, Agree, Active
  <2>4. \A d \in Containers : call[d].user = v => (Reached(call[d], v)' <=> Reached(call[d], v))
    BY <1>4, <2>2, <2>3 DEF Apart, Reached
  <2> QED  BY <2>1, <2>2, <2>3, <2>4 DEF Undisturbed
<1>5. Undisturbed(u)'
  <2> SUFFICES ASSUME u \notin disturbed'
               PROVE  /\ \A d, e \in Containers : call'[d].user = u /\ call'[e].user = u => d = e
                      /\ \A d \in Containers : call'[d].user = u => Reached(call[d], u)'
                      /\ ~Active(u)' => Settled(u)'
    BY DEF Undisturbed
  <2>1. \A d \in Containers : call[d].user = u => d = c
    BY DEF Inv, Undisturbed
  <2>2. \A d \in Containers : call'[d].user = u => d = c
    BY <1>2, <2>1
  <2>3. ASSUME call'[c].user = u PROVE Reached(call[c], u)'
    <3>1. Reached(k, u)' /\ call'[c] = k
      BY <1>2, <2>3
    <3> QED  BY <3>1 DEF Reached
  <2>4. call'[c].user # u => Settled(u)'
    BY <1>2
  <2> QED  BY <2>2, <2>3, <2>4 DEF Active
<1>6. ASSUME NEW d \in Containers PROVE Foreseen(d)'
  <2>1. CASE d = c
    BY <1>2, <2>1 DEF Foreseen
  <2>2. CASE d # c
    <3>1. Foreseen(d) /\ call'[d] = call[d]
      BY <1>2, <2>2 DEF Inv
    <3>2. call[d].pc = "accounts" => call[d].user \in Users
      BY <1>1 DEF Inv, Formed, Call
    <3> QED  BY <2>2, <3>1, <3>2 DEF Foreseen, Marked
  <2> QED  BY <2>1, <2>2
<1> QED  BY <1>2, <1>3, <1>4, <1>5, <1>6 DEF CallsMoved

\* The same for a container that makes or made a list.
LEMMA ListCallStep ==
  ASSUME Inv, NEW c \in Containers, NEW k \in Call, Formed(k),
         call' = [call EXCEPT ![c] = k], call[c].user = None, k.user = None,
         UNCHANGED <<pool, mapping, wanted, cut>>, disturbed \subseteq disturbed',
         k.pc # "accounts", outdated \ ({c} \X Users) \subseteq outdated'
  PROVE  CallsMoved
<1>1. call \in [Containers -> Call]
  BY DEF Inv, TypeOK
<1>2. call'[c] = k /\ (\A d \in Containers : d # c => call'[d] = call[d])
      /\ call' \in [Containers -> Call]
  BY <1>1
<1>3. \A d \in Containers : Formed(call[d])'
  <2>1. \A d \in Containers : Formed(call'[d])
    BY <1>2 DEF Inv
  <2> QED  BY <2>1 DEF Formed
<1>4. ASSUME NEW v \in Users PROVE Undisturbed(v)'
  <2>1. Undisturbed(v) /\ v # None
    BY UsersAssumption DEF Inv
  <2>2. \A d \in Containers : (call'[d].user = v <=> call[d].user = v)
                             /\ (call[d].user = v => call'[d] = call[d])
    BY <1>2, <2>1
  <2>3. (Settled(v)' <=> Settled(v)) /\ (Tidy(v)' <=> Tidy(v)) /\ (Active(v)' <=> Active(v))
    BY <2>2 DEF Settled, Tidy, Agree, Active
  <2>4. \A d \in Containers : call[d].user = v => (Reached(call[d], v)' <=> Reached(call[d], v))
    BY <2>2, <2>3 DEF Reached
  <2> QED  BY <2>1, <2>2, <2>3, <2>4 DEF Undisturbed
<1>5. ASSUME NEW d \in Containers PROVE Foreseen(d)'
  <2>1. CASE d = c
    BY <1>2, <2>1 DEF Foreseen
  <2>2. CASE d # c
    <3>1. Foreseen(d) /\ call'[d] = call[d]
      BY <1>2, <2>2 DEF Inv
    <3>2. call[d].pc = "accounts" => call[d].user \in Users
      BY <1>1 DEF Inv, Formed, Call
    <3> QED  BY <2>2, <3>1, <3>2 DEF Foreseen
  <2> QED  BY <2>1, <2>2
<1> QED  BY <1>2, <1>3, <1>4, <1>5 DEF CallsMoved

\* And for one that takes a request on.
LEMMA ReceiveStep ==
  ASSUME Inv, NEW c \in Containers, NEW k \in Call, Formed(k),
         k.pc \in {"create", "lookup"}, k.user \in Users, Receive(c, k)
  PROVE  Inv'
<1> DEFINE u == k.user
<1>1. call \in [Containers -> Call] /\ call[c].user = None /\ u # None
  BY UsersAssumption DEF Inv, TypeOK, Receive, Idle
<1>2. call'[c] = k /\ (\A d \in Containers : d # c => call'[d] = call[d])
      /\ call' \in [Containers -> Call]
  BY <1>1 DEF Receive
<1>3. UNCHANGED <<pool, mapping, cache, faults, wanted, cut, outdated, present>>
  BY DEF Receive, storeVars
<1>4. disturbed' = disturbed \cup (IF Active(u) THEN {u} ELSE {})
  BY DEF Receive
<1>5. calls' \in 0 .. MaxCalls
  BY UsersAssumption DEF Receive, Inv, TypeOK
<1>6. TypeOK' /\ CacheFollows'
  BY <1>2, <1>3, <1>4, <1>5 DEF Inv, TypeOK, CacheFollows
<1>7. \A d \in Containers : Formed(call[d])'
  <2>1. \A d \in Containers : Formed(call'[d])
    BY <1>2 DEF Inv
  <2> QED  BY <2>1 DEF Formed
<1>8. ASSUME NEW v \in Users PROVE Undisturbed(v)'
  <2>1. (Settled(v)' <=> Settled(v)) /\ (Tidy(v)' <=> Tidy(v))
        /\ \A d \in Containers : d # c => (Reached(call[d], v)' <=> Reached(call[d], v))
    BY <1>2, <1>3 DEF Settled, Tidy, Agree, Reached
  <2>2. Undisturbed(v) /\ (v \notin disturbed' => v \notin disturbed)
    BY <1>4 DEF Inv
  <2>3. CASE v = u
    <3> SUFFICES ASSUME v \notin disturbed'
                 PROVE  /\ \A d, e \in Containers : call'[d].user = v /\ call'[e].user = v => d = e
                        /\ \A d \in Containers : call'[d].user = v => Reached(call[d], v)'
                        /\ ~Active(v)' => Settled(v)'
      BY DEF Undisturbed
    <3>1. ~Active(v) /\ Settled(v)
      BY <1>4, <2>2, <2>3 DEF Undisturbed
    <3>2. \A d \in Containers : call'[d].user = v => d = c
      BY <1>2, <3>1 DEF Active
    <3>3. Reached(call[c], v)'
      BY <1>2, <2>1, <3>1 DEF Reached, Settled
    <3> QED  BY <2>1, <3>1, <3>2, <3>3
  <2>4. CASE v # u
    <3>1. \A d \in Containers : call'[d].user = v <=> call[d].user = v
      BY <1>1, <1>2, <2>4, UsersAssumption
    <3>2. \A d \in Containers : call'[d].user = v => d # c
      BY <1>2, <2>4
    <3> QED  BY <2>1, <2>2, <3>1, <3>2 DEF Undisturbed, Active
  <2> QED  BY <2>3, <2>4
<1>9. ASSUME NEW d \in Containers PROVE Foreseen(d)'
  <2>1. Foreseen(d) /\ (d # c => call'[d] = call[d]) /\ call'[c].pc # "accounts"
    BY <1>2 DEF Inv
  <2> QED  BY <1>3, <2>1 DEF Foreseen
<1> QED  BY <1>6, <1>7, <1>8, <1>9 DEF Inv

\* An idle container.
LEMMA IdleCall == Idle \in Call /\ Formed(Idle) /\ Idle.user = None /\ Idle.pc = "idle"
BY DEF Idle, Call, Looking, Formed

\* Requests that begin.
LEMMA RequestStep ==
  ASSUME Inv, NEW c \in Containers, NEW u \in Users, NEW role \in Roles,
         NEW accounts \in Accounts \cup {None},
         \/ Invite(c, u, role, accounts)
         \/ accounts \in Accounts /\ UpdateUser(c, u, accounts)
         \/ DeleteUser(c, u)
  PROVE  Inv'
<1>1. u # None /\ \A a \in Accounts : a # None
  BY UsersAssumption
<1>2. CASE Invite(c, u, role, accounts)
  <2> DEFINE k == [Idle EXCEPT !.pc = "create", !.kind = "invite", !.user = u, !.role = role,
                               !.accounts = accounts]
  <2>1. k \in Call /\ Formed(k) /\ k.pc = "create" /\ k.user = u
    BY <1>1, <1>2 DEF Invite, Idle, Call, Steps, Looking, Formed
  <2>2. Receive(c, k)
    BY <1>2 DEF Invite
  <2> QED  BY <2>1, <2>2, ReceiveStep
<1>3. CASE accounts \in Accounts /\ UpdateUser(c, u, accounts)
  <2> DEFINE k == [Idle EXCEPT !.pc = "lookup", !.kind = "update", !.user = u,
                               !.accounts = accounts]
  <2>1. k \in Call /\ Formed(k) /\ k.pc = "lookup" /\ k.user = u
    BY <1>1, <1>3 DEF Idle, Call, Steps, Looking, Formed
  <2>2. Receive(c, k)
    BY <1>3 DEF UpdateUser
  <2> QED  BY <2>1, <2>2, ReceiveStep
<1>4. CASE DeleteUser(c, u)
  <2> DEFINE k == [Idle EXCEPT !.pc = "lookup", !.kind = "delete", !.user = u]
  <2>1. k \in Call /\ Formed(k) /\ k.pc = "lookup" /\ k.user = u
    BY <1>1 DEF Idle, Call, Steps, Looking, Formed
  <2>2. Receive(c, k)
    BY <1>4 DEF DeleteUser
  <2> QED  BY <2>1, <2>2, ReceiveStep
<1> QED  BY <1>2, <1>3, <1>4

-----------------------------------------------------------------------------
\* What a request at work can rely on.
LEMMA AtWork ==
  ASSUME Inv, NEW c \in Containers, call[c].pc \in Steps \ {"list"}
  PROVE  \E u \in Users, r \in Call :
           /\ r = call[c] /\ r.user = u /\ u = call[c].user /\ Formed(r)
           /\ u \notin disturbed => Reached(r, u)
<1>1. call[c] \in Call /\ Formed(call[c])
  BY DEF Inv, TypeOK
<1>2. call[c].user \in Users
  BY <1>1 DEF Formed, Call, Steps, Looking
<1>3. call[c].user \notin disturbed => Reached(call[c], call[c].user)
  BY <1>2 DEF Inv, Undisturbed
<1> QED  BY <1>1, <1>2, <1>3

\* A request at another step is a request.
LEMMA GotoCall ==
  ASSUME NEW c \in Containers, NEW r \in Call, r = call[c], NEW pc \in Steps, Goto(c, pc)
  PROVE  \E k \in Call : /\ call' = [call EXCEPT ![c] = k]
                         /\ k.pc = pc /\ k.user = r.user /\ k.kind = r.kind
                         /\ k.role = r.role /\ k.accounts = r.accounts
<1> DEFINE k == [r EXCEPT !.pc = pc]
<1>1. /\ k \in Call /\ k.pc = pc /\ k.user = r.user /\ k.kind = r.kind
      /\ k.role = r.role /\ k.accounts = r.accounts
  BY DEF Call
<1>2. call' = [call EXCEPT ![c] = k]
  BY DEF Goto
<1> QED  BY <1>1, <1>2

\* A request that ends leaves its user as he is wanted.
LEMMA EndStep ==
  ASSUME Inv, NEW c \in Containers, NEW u \in Users, call[c].user = u, Done(c),
         disturbed \subseteq disturbed', Apart(u), Marked(c),
         u \notin disturbed' => Settled(u)'
  PROVE  CallsMoved
<1>1. PICK k \in Call : k = Idle
  BY IdleCall
<1>2. call' = [call EXCEPT ![c] = k]
  BY <1>1 DEF Done
<1>3. Formed(k) /\ k.user = None /\ u # None /\ k.pc # "accounts"
  BY <1>1, IdleCall, UsersAssumption
<1> QED  BY <1>2, <1>3, CallStep

\* A request that goes on has reached its next step.
LEMMA GoOnStep ==
  ASSUME Inv, NEW c \in Containers, NEW u \in Users, NEW r \in Call, r = call[c], r.user = u,
         NEW pc \in Steps, Goto(c, pc), disturbed \subseteq disturbed', Apart(u), Marked(c),
         NEW k \in Call, k = [r EXCEPT !.pc = pc], Formed(k),
         pc = "accounts" => TypeOf(pool'[u]) = "operator",
         u \notin disturbed' => Reached(k, u)'
  PROVE  CallsMoved
<1>1. call' = [call EXCEPT ![c] = k]
  BY DEF Goto
<1>2. k.user = u /\ k.user # None /\ k.pc = pc
  BY UsersAssumption DEF Call
<1> QED  BY <1>1, <1>2, CallStep

LEMMA CreateUserStep == ASSUME NEW c \in Containers PROVE Inv /\ CreateUser(c) => Inv'
<1> SUFFICES ASSUME Inv, CreateUser(c) PROVE Inv'
  OBVIOUS
<1>1. PICK u \in Users, r \in Call :
        /\ r = call[c] /\ r.user = u /\ u = call[c].user /\ Formed(r) /\ r.pc = "create"
        /\ u \notin disturbed => Reached(r, u)
  BY AtWork DEF CreateUser, Steps
<1>2. UNCHANGED <<mapping, calls, faults, wanted, disturbed, cut>>
  BY DEF CreateUser
<1>3. u \notin disturbed => Settled(u) /\ Tidy(u)
  BY <1>1 DEF Reached
<1>4. CASE pool[u] # None
  <2>1. Done(c) /\ UNCHANGED <<pool, cache, outdated, present>>
    BY <1>1, <1>4 DEF CreateUser
  <2>2. u \notin disturbed' => Settled(u)'
    BY <1>2, <1>3, <2>1 DEF Settled, Tidy, Agree
  <2>3. Apart(u) /\ Marked(c) /\ disturbed \subseteq disturbed'
    BY <1>2, <2>1 DEF Apart, Marked
  <2>4. CallsMoved
    BY <1>1, <2>1, <2>2, <2>3, EndStep
  <2> QED  BY <1>2, <2>1, <2>4 DEF Inv, TypeOK, CacheFollows, CallsMoved
<1>5. CASE pool[u] = None
  <2>1. Goto(c, "group") /\ Entry(u, {}, {}, Containers)
    BY <1>1, <1>5 DEF CreateUser
  <2>2. /\ pool' \in [Users -> (SUBSET Roles) \cup {None}]
        /\ cache' \in [Containers -> [Users -> Roles \cup {"unknown", "null"}]]
        /\ outdated' \subseteq Containers \X Users
        /\ present' \in [Containers -> [always: SUBSET Users, ever: SUBSET Users]]
        /\ CacheFollows' /\ Marked(c)
        /\ pool'[u] = {} /\ \A v \in Users : v # u => pool'[v] = pool[v]
    <3>1. {} \in (SUBSET Roles) \cup {None} /\ {} \in SUBSET {c}
      OBVIOUS
    <3>2. TypeOK /\ CacheFollows
      BY DEF Inv
    <3> QED  BY <2>1, <3>1, <3>2, EntryStep
  <2>3. PICK k \in Call : k = [r EXCEPT !.pc = "group"]
    BY DEF Call, Steps
  <2>4. /\ k.pc = "group" /\ k.kind = r.kind /\ k.role = r.role /\ k.accounts = r.accounts
        /\ k.user = u
    BY <1>1, <2>3 DEF Call
  <2>5. Formed(k)
    BY <1>1, <2>4 DEF Formed, Looking
  <2>6. u \notin disturbed' => Reached(k, u)'
    <3> SUFFICES ASSUME u \notin disturbed PROVE Reached(k, u)'
      BY <1>2
    <3>1. mapping'[u] = None /\ pool'[u] = {}
      BY <1>2, <1>3, <1>5, <2>2, UsersAssumption DEF Tidy
    <3> QED  BY <2>4, <3>1 DEF Reached, Tidy, Looking
  <2>7. Apart(u) /\ disturbed \subseteq disturbed' /\ "group" \in Steps
    BY <1>2, <2>2 DEF Apart, Steps
  <2>8. CallsMoved
    BY <1>1, <2>1, <2>2, <2>3, <2>5, <2>6, <2>7, GoOnStep
  <2> QED  BY <1>2, <2>2, <2>8 DEF Inv, TypeOK, CallsMoved
<1> QED  BY <1>4, <1>5

LEMMA AddToGroupStep == ASSUME NEW c \in Containers PROVE Inv /\ AddToGroup(c) => Inv'
<1> SUFFICES ASSUME Inv, AddToGroup(c) PROVE Inv'
  OBVIOUS
<1>1. PICK u \in Users, r \in Call :
        /\ r = call[c] /\ r.user = u /\ u = call[c].user /\ Formed(r) /\ r.pc = "group"
        /\ u \notin disturbed => Reached(r, u)
  BY AtWork DEF AddToGroup, Steps
<1>2. UNCHANGED <<mapping, calls, faults, disturbed>>
  BY DEF AddToGroup
<1>3. r.role \in Roles /\ (r.role = "operator" <=> r.accounts # None) /\ r.kind = "invite"
  BY <1>1 DEF Formed
<1>4. PICK groups \in SUBSET Roles : groups = pool[u] \cup {r.role}
  BY <1>1, <1>3 DEF AddToGroup, Inv, TypeOK
<1>5. Entry(u, groups, {}, Containers)
  BY <1>1, <1>4 DEF AddToGroup
<1>6. /\ pool' \in [Users -> (SUBSET Roles) \cup {None}]
      /\ cache' \in [Containers -> [Users -> Roles \cup {"unknown", "null"}]]
      /\ outdated' \subseteq Containers \X Users
      /\ present' \in [Containers -> [always: SUBSET Users, ever: SUBSET Users]]
      /\ CacheFollows' /\ Marked(c)
      /\ pool'[u] = groups /\ \A v \in Users : v # u => pool'[v] = pool[v]
  <2>1. groups \in (SUBSET Roles) \cup {None} /\ {} \in SUBSET {c}
    OBVIOUS
  <2>2. TypeOK /\ CacheFollows
    BY DEF Inv
  <2> QED  BY <1>5, <2>1, <2>2, EntryStep
<1>7. u \notin disturbed => groups = {r.role} /\ mapping[u] = None
  <2>1. u \notin disturbed => pool[u] = {} /\ Tidy(u)
    BY <1>1 DEF Reached
  <2> QED  BY <1>4, <2>1 DEF Tidy
<1>8. CASE r.role = "operator"
  <2>1. Goto(c, "map") /\ UNCHANGED <<wanted, cut>>
    BY <1>1, <1>8 DEF AddToGroup
  <2>2. PICK k \in Call : k = [r EXCEPT !.pc = "map"]
    BY DEF Call, Steps
  <2>3. /\ k.pc = "map" /\ k.kind = r.kind /\ k.role = r.role /\ k.accounts = r.accounts
        /\ k.user = u
    BY <1>1, <2>2 DEF Call
  <2>4. Formed(k)
    BY <1>3, <1>8, <2>3, UsersAssumption DEF Formed, Looking
  <2>5. u \notin disturbed' => Reached(k, u)'
    BY <1>2, <1>6, <1>7, <1>8, <2>1, <2>3 DEF Reached, Tidy, Looking
  <2>6. Apart(u) /\ Marked(c) /\ disturbed \subseteq disturbed' /\ "map" \in Steps
    BY <1>2, <1>6, <2>1 DEF Apart, Steps
  <2>7. CallsMoved
    BY <1>1, <2>1, <2>2, <2>4, <2>5, <2>6, GoOnStep
  <2> QED  BY <1>2, <1>6, <2>1, <2>7 DEF Inv, TypeOK, CallsMoved
<1>9. CASE r.role # "operator"
  <2>1. /\ Done(c) /\ cut' = cut \ {u}
        /\ wanted' = [wanted EXCEPT ![u] = [role |-> r.role, accounts |-> r.accounts]]
    BY <1>1, <1>9 DEF AddToGroup, Invited
  <2>2. wanted' \in [Users -> User \cup {NoUser}] /\ r.accounts = None
        /\ wanted'[u] = [role |-> r.role, accounts |-> r.accounts]
        /\ \A v \in Users : v # u => wanted'[v] = wanted[v]
    BY <1>3, <1>9, <2>1 DEF Inv, TypeOK, User
  <2>3. u \notin disturbed' => Settled(u)'
    <3>1. wanted'[u] # NoUser
      BY <1>3, <2>2 DEF NoUser, Roles
    <3>2. r.role = "delegated"
      BY <1>3, <1>9 DEF Roles
    <3> QED  BY <1>2, <1>6, <1>7, <2>2, <3>1, <3>2 DEF Settled, Tidy, Agree
  <2>4. Apart(u) /\ disturbed \subseteq disturbed' /\ cut' \subseteq Users
    BY <1>2, <1>6, <2>1, <2>2 DEF Apart, Inv, TypeOK
  <2>5. CallsMoved
    BY <1>1, <1>6, <2>1, <2>3, <2>4, EndStep
  <2> QED  BY <1>2, <1>6, <2>2, <2>4, <2>5 DEF Inv, TypeOK, CallsMoved
<1> QED  BY <1>8, <1>9

LEMMA CreateMappingStep == ASSUME NEW c \in Containers PROVE Inv /\ CreateMapping(c) => Inv'
<1> SUFFICES ASSUME Inv, CreateMapping(c) PROVE Inv'
  OBVIOUS
<1>1. PICK u \in Users, r \in Call :
        /\ r = call[c] /\ r.user = u /\ u = call[c].user /\ Formed(r) /\ r.pc = "map"
        /\ u \notin disturbed => Reached(r, u)
  BY AtWork DEF CreateMapping, Steps
<1>2. UNCHANGED <<pool, cache, calls, faults, disturbed, outdated, present>>
  BY DEF CreateMapping
<1>3. r.role = "operator" /\ r.accounts # None /\ r.accounts \in Accounts \cup {None}
  BY <1>1 DEF Formed, Call
<1>4. Done(c) /\ mapping' = [mapping EXCEPT ![u] = r.accounts] /\ cut' = cut \ {u}
      /\ wanted' = [wanted EXCEPT ![u] = [role |-> r.role, accounts |-> r.accounts]]
  BY <1>1 DEF CreateMapping, Invited
<1>5. /\ mapping' \in [Users -> Accounts \cup {None}] /\ wanted' \in [Users -> User \cup {NoUser}]
      /\ mapping'[u] = r.accounts /\ wanted'[u] = [role |-> r.role, accounts |-> r.accounts]
      /\ \A v \in Users : v # u => mapping'[v] = mapping[v] /\ wanted'[v] = wanted[v]
  BY <1>3, <1>4 DEF Inv, TypeOK, User, Roles
<1>6. u \notin disturbed' => Settled(u)'
  <2>1. wanted'[u] # NoUser
    BY <1>3, <1>5 DEF NoUser
  <2>2. u \notin disturbed' => pool'[u] = {"operator"}
    BY <1>1, <1>2 DEF Reached
  <2>3. wanted'[u].role = "operator" /\ wanted'[u].accounts = r.accounts
    BY <1>3, <1>5
  <2> QED  BY <1>5, <2>1, <2>2, <2>3 DEF Settled, Tidy, Agree
<1>7. /\ Apart(u) /\ Marked(c) /\ disturbed \subseteq disturbed' /\ cut' \subseteq Users
  BY <1>2, <1>4, <1>5 DEF Apart, Marked, Inv, TypeOK
<1>8. CallsMoved
  BY <1>1, <1>4, <1>6, <1>7, EndStep
<1> QED  BY <1>2, <1>5, <1>7, <1>8 DEF Inv, TypeOK, CacheFollows, CallsMoved

\* A lookup ends with a type, that of the user's groups unless it is outdated.
LEMMA FoundStep ==
  ASSUME Inv, NEW c \in Containers, NEW type \in Roles \cup {"null"}, call[c].pc \in Looking,
         Found(c, type), <<c, call[c].user>> \notin outdated => type = TypeOf(pool[call[c].user])
  PROVE  Inv'
<1>1. PICK u \in Users, r \in Call :
        /\ r = call[c] /\ r.user = u /\ u = call[c].user /\ Formed(r) /\ r.pc \in Looking
        /\ u \notin disturbed => Reached(r, u)
  BY AtWork DEF Steps, Looking
<1>2. UNCHANGED <<pool, mapping, calls, faults, wanted, cut, outdated, present>>
  BY DEF Found, storeVars
<1>4. /\ cache' = [cache EXCEPT ![c][u] = type] /\ AfterLookup(c, type)
      /\ disturbed' = disturbed \cup IF <<c, u>> \in outdated /\ type # "null" THEN {u} ELSE {}
  BY <1>1 DEF Found
<1>5. pool[u] \in (SUBSET Roles) \cup {None}
  BY DEF Inv, TypeOK
<1>6. cache' \in [Containers -> [Users -> Roles \cup {"unknown", "null"}]] /\ cache'[c][u] = type
      /\ \A d \in Containers, v \in Users : <<d, v>> # <<c, u>> => cache'[d][v] = cache[d][v]
  BY <1>4 DEF Inv, TypeOK
<1>7. <<c, u>> \notin outdated => type = TypeOf(pool[u])
  BY <1>1
<1>8. CacheFollows'
  BY <1>2, <1>6, <1>7 DEF Inv, CacheFollows
<1>9. ASSUME u \notin disturbed', type # "null"
      PROVE  Settled(u) /\ Tidy(u) /\ pool[u] = {type}
  <2>1. Settled(u) /\ Tidy(u)
    BY <1>1, <1>4, <1>9 DEF Reached
  <2>2. type = TypeOf(pool[u])
    BY <1>4, <1>7, <1>9
  <2>3. pool[u] \notin {None, {}}
    BY <1>5, <1>9, <2>2, TypeOfFacts
  <2>4. PICK role \in Roles : pool[u] = {role}
    BY <2>1, <2>3 DEF Tidy, Roles
  <2> QED  BY <1>5, <2>1, <2>2, <2>4, TypeOfFacts
<1>10. disturbed \subseteq disturbed' /\ disturbed' \subseteq Users
       /\ Apart(u) /\ Marked(c)
  BY <1>2, <1>4 DEF Inv, TypeOK, Apart, Marked
<1>11. ASSUME Done(c) PROVE CallsMoved
  <2>1. u \notin disturbed' => Settled(u)'
    BY <1>1, <1>2, <1>10 DEF Reached, Settled, Tidy, Agree
  <2> QED  BY <1>1, <1>10, <1>11, <2>1, EndStep
<1>12. ASSUME NEW pc \in {"update", "unmap", "remove"}, Goto(c, pc), type # "null",
              pc = "update" => r.kind = "update", pc # "remove" => type = "operator",
              pc = "remove" => type = "delegated"
       PROVE  CallsMoved
  <2>1. PICK k \in Call : k = [r EXCEPT !.pc = pc]
    BY <1>12 DEF Call, Steps
  <2>2. k.pc = pc /\ k.kind = r.kind /\ k.accounts = r.accounts /\ k.user = u
    BY <1>1, <2>1 DEF Call
  <2>3. Formed(k)
    BY <1>1, <1>12, <2>2, UsersAssumption DEF Formed, Looking
  <2>4. u \notin disturbed' => Reached(k, u)'
    <3> SUFFICES ASSUME u \notin disturbed' PROVE Reached(k, u)'
      OBVIOUS
    <3>1. Settled(u) /\ Tidy(u) /\ pool[u] = {type}
      BY <1>9, <1>12
    <3>2. Settled(u)' /\ Tidy(u)'
      BY <1>2, <3>1 DEF Settled, Tidy, Agree
    <3>3. type = "delegated" => mapping'[u] = None
      BY <1>2, <3>1 DEF Tidy
    <3>4. type = "operator" => pool'[u] = {"operator"}
      BY <1>2, <3>1
    <3> QED  BY <1>12, <2>2, <3>2, <3>3, <3>4 DEF Reached
  <2>5. pc \in Steps /\ pc # "accounts"
    BY <1>12 DEF Steps
  <2> QED  BY <1>1, <1>10, <1>12, <2>1, <2>3, <2>4, <2>5, GoOnStep
<1>13. CallsMoved
  <2>1. \/ Done(c)
        \/ type = "operator" /\ r.kind = "update" /\ Goto(c, "update")
        \/ type = "operator" /\ Goto(c, "unmap")
        \/ type = "delegated" /\ Goto(c, "remove")
    BY <1>1, <1>4 DEF AfterLookup
  <2> QED  BY <1>11, <1>12, <2>1
<1> QED  BY <1>2, <1>6, <1>8, <1>10, <1>13 DEF Inv, TypeOK, CallsMoved

\* A lookup reads on; an operator is one as long as nothing tells otherwise.
LEMMA ReadsStep ==
  ASSUME Inv, NEW c \in Containers, NEW pc \in {"groups", "accounts"}, call[c].pc \in Looking,
         Reads(c, pc), pc = "accounts" => TypeOf(pool[call[c].user]) = "operator"
  PROVE  Inv'
<1>1. PICK u \in Users, r \in Call :
        /\ r = call[c] /\ r.user = u /\ u = call[c].user /\ Formed(r) /\ r.pc \in Looking
        /\ u \notin disturbed => Reached(r, u)
  BY AtWork DEF Steps, Looking
<1>2. UNCHANGED <<pool, mapping, cache, calls, faults, wanted, disturbed, cut, outdated, present>>
      /\ Goto(c, pc)
  BY DEF Reads, storeVars
<1>3. PICK k \in Call : k = [r EXCEPT !.pc = pc]
  BY DEF Call, Steps, Looking
<1>4. k.pc = pc /\ k.kind = r.kind /\ k.accounts = r.accounts /\ k.user = u
  BY <1>1, <1>3 DEF Call
<1>5. Formed(k)
  BY <1>1, <1>4, UsersAssumption DEF Formed, Looking
<1>6. u \notin disturbed' => Reached(k, u)'
  <2>1. u \notin disturbed => Settled(u) /\ Tidy(u)
    BY <1>1 DEF Reached
  <2>2. u \notin disturbed' => Settled(u)' /\ Tidy(u)'
    BY <1>2, <2>1 DEF Settled, Tidy, Agree
  <2> QED  BY <1>4, <2>2 DEF Reached
<1>7. Apart(u) /\ Marked(c) /\ disturbed \subseteq disturbed' /\ pc \in Steps
  BY <1>2 DEF Apart, Marked, Steps, Looking
<1>8. CallsMoved
  <2>1. pc = "accounts" => TypeOf(pool'[u]) = "operator"
    BY <1>1, <1>2
  <2> QED  BY <1>1, <1>2, <1>3, <1>5, <1>6, <1>7, <2>1, GoOnStep
<1> QED  BY <1>2, <1>8 DEF Inv, TypeOK, CacheFollows, CallsMoved

LEMMA LookupStep ==
  ASSUME NEW c \in Containers
  PROVE  Inv /\ (Lookup(c) \/ LookupGroups(c) \/ LookupAccounts(c)) => Inv'
<1> SUFFICES ASSUME Inv, Lookup(c) \/ LookupGroups(c) \/ LookupAccounts(c) PROVE Inv'
  OBVIOUS
<1>1. call[c].pc \in Looking
  BY DEF Lookup, LookupGroups, LookupAccounts, Looking
<1>2. PICK u \in Users : u = call[c].user
  BY <1>1, AtWork DEF Steps, Looking
<1>3. /\ cache[c][u] \in Roles \cup {"unknown", "null"}
      /\ TypeOf(pool[u]) \in Roles \cup {"null"}
  <2>1. cache[c][u] \in Roles \cup {"unknown", "null"} /\ pool[u] \in (SUBSET Roles) \cup {None}
    BY DEF Inv, TypeOK
  <2> QED  BY <2>1, TypeOfFacts
<1>4. CASE Lookup(c)
  <2>1. CASE cache[c][u] # "unknown" /\ Found(c, cache[c][u])
    <3>1. <<c, u>> \notin outdated => cache[c][u] = TypeOf(pool[u])
      BY <2>1 DEF Inv, CacheFollows
    <3> QED  BY <1>1, <1>2, <1>3, <2>1, <3>1, FoundStep
  <2>2. CASE pool[u] = None /\ Found(c, "null")
    <3>1. TypeOf(pool[u]) = "null"
      BY <2>2 DEF TypeOf
    <3> QED  BY <1>1, <1>2, <2>2, <3>1, FoundStep
  <2>3. CASE Reads(c, "groups")
    BY <1>1, <2>3, ReadsStep
  <2> QED  BY <1>2, <1>4, <2>1, <2>2, <2>3 DEF Lookup
<1>5. CASE LookupGroups(c)
  <2>1. PICK type : type = TypeOf(pool[u])
    OBVIOUS
  <2>2. CASE Found(c, type)
    BY <1>1, <1>2, <1>3, <2>1, <2>2, FoundStep
  <2>3. CASE type = "operator" /\ Reads(c, "accounts")
    BY <1>1, <1>2, <2>1, <2>3, ReadsStep
  <2> QED  BY <1>2, <1>5, <2>1, <2>2, <2>3 DEF LookupGroups
<1>6. CASE LookupAccounts(c)
  <2>1. Found(c, "operator") /\ call[c].pc = "accounts"
    BY <1>6 DEF LookupAccounts
  <2>2. <<c, u>> \notin outdated => "operator" = TypeOf(pool[u])
    BY <1>2, <2>1 DEF Inv, Foreseen
  <2>3. "operator" \in Roles \cup {"null"}
    BY DEF Roles
  <2> QED  BY <1>1, <1>2, <2>1, <2>2, <2>3, FoundStep
<1> QED  BY <1>4, <1>5, <1>6

LEMMA LookupFailsStep == ASSUME NEW c \in Containers PROVE Inv /\ LookupFails(c) => Inv'
<1> SUFFICES ASSUME Inv, LookupFails(c) PROVE Inv'
  OBVIOUS
<1>1. PICK u \in Users, r \in Call :
        /\ r = call[c] /\ r.user = u /\ u = call[c].user /\ Formed(r) /\ r.pc \in Looking
        /\ u \notin disturbed => Reached(r, u)
  BY AtWork DEF LookupFails, Steps, Looking
<1>2. UNCHANGED <<pool, mapping, calls, wanted, disturbed, cut, present>> /\ Done(c)
  BY DEF LookupFails, storeVars
<1>3. faults' \in 0 .. MaxFaults
  BY UsersAssumption DEF LookupFails, Inv, TypeOK
<1>4. cache' = [cache EXCEPT ![c][u] = "null"] /\ outdated' = outdated \cup {<<c, u>>}
  BY <1>1 DEF LookupFails
<1>5. /\ cache' \in [Containers -> [Users -> Roles \cup {"unknown", "null"}]]
      /\ outdated' \subseteq Containers \X Users /\ CacheFollows'
  BY <1>2, <1>4 DEF Inv, TypeOK, CacheFollows
<1>6. u \notin disturbed' => Settled(u)'
  BY <1>1, <1>2 DEF Reached, Settled, Tidy, Agree
<1>7. Apart(u) /\ Marked(c) /\ disturbed \subseteq disturbed'
  BY <1>2, <1>4 DEF Apart, Marked
<1>8. CallsMoved
  BY <1>1, <1>2, <1>6, <1>7, EndStep
<1> QED  BY <1>2, <1>3, <1>5, <1>8 DEF Inv, TypeOK, CallsMoved

LEMMA UpdateMappingStep == ASSUME NEW c \in Containers PROVE Inv /\ UpdateMapping(c) => Inv'
<1> SUFFICES ASSUME Inv, UpdateMapping(c) PROVE Inv'
  OBVIOUS
<1>1. PICK u \in Users, r \in Call :
        /\ r = call[c] /\ r.user = u /\ u = call[c].user /\ Formed(r) /\ r.pc = "update"
        /\ u \notin disturbed => Reached(r, u)
  BY AtWork DEF UpdateMapping, Steps
<1>2. UNCHANGED <<pool, calls, faults, disturbed, present>> /\ Done(c)
  BY DEF UpdateMapping
<1>3. r.accounts # None /\ r.accounts \in Accounts \cup {None}
  BY <1>1 DEF Formed, Call
<1>4. /\ mapping' = [mapping EXCEPT ![u] = r.accounts] /\ cut' = cut \ {u}
      /\ wanted' = [wanted EXCEPT ![u] = [role |-> "operator", accounts |-> r.accounts]]
      /\ cache' = [cache EXCEPT ![c][u] = "unknown"] /\ outdated' = outdated \ {<<c, u>>}
  BY <1>1 DEF UpdateMapping
<1>5. /\ cache' \in [Containers -> [Users -> Roles \cup {"unknown", "null"}]]
      /\ outdated' \subseteq Containers \X Users /\ CacheFollows'
  BY <1>2, <1>4 DEF Inv, TypeOK, CacheFollows
<1>6. mapping' \in [Users -> Accounts \cup {None}] /\ mapping'[u] = r.accounts
      /\ \A v \in Users : v # u => mapping'[v] = mapping[v]
  BY <1>3, <1>4 DEF Inv, TypeOK
<1>7. /\ wanted' \in [Users -> User \cup {NoUser}]
      /\ wanted'[u] = [role |-> "operator", accounts |-> r.accounts]
      /\ \A v \in Users : v # u => wanted'[v] = wanted[v]
  BY <1>3, <1>4 DEF Inv, TypeOK, User, Roles
<1>8. u \notin disturbed' => Settled(u)'
  <2>1. wanted'[u] # NoUser
    BY <1>7 DEF NoUser
  <2>2. u \notin disturbed' => pool'[u] = {"operator"}
    BY <1>1, <1>2 DEF Reached
  <2> QED  BY <1>6, <1>7, <2>1, <2>2 DEF Settled, Tidy, Agree
<1>9. Apart(u) /\ Marked(c) /\ disturbed \subseteq disturbed' /\ cut' \subseteq Users
  BY <1>2, <1>4, <1>6, <1>7 DEF Apart, Marked, Inv, TypeOK
<1>10. CallsMoved
  BY <1>1, <1>2, <1>8, <1>9, EndStep
<1> QED  BY <1>2, <1>5, <1>6, <1>7, <1>9, <1>10 DEF Inv, TypeOK, CallsMoved

LEMMA DeleteMappingStep == ASSUME NEW c \in Containers PROVE Inv /\ DeleteMapping(c) => Inv'
<1> SUFFICES ASSUME Inv, DeleteMapping(c) PROVE Inv'
  OBVIOUS
<1>1. PICK u \in Users, r \in Call :
        /\ r = call[c] /\ r.user = u /\ u = call[c].user /\ Formed(r) /\ r.pc = "unmap"
        /\ u \notin disturbed => Reached(r, u)
  BY AtWork DEF DeleteMapping, Steps
<1>2. UNCHANGED <<pool, cache, calls, faults, wanted, disturbed, cut, outdated, present>>
      /\ Goto(c, "remove")
  BY DEF DeleteMapping
<1>3. mapping' = [mapping EXCEPT ![u] = None]
  BY <1>1 DEF DeleteMapping
<1>4. mapping' \in [Users -> Accounts \cup {None}] /\ mapping'[u] = None
      /\ \A v \in Users : v # u => mapping'[v] = mapping[v]
  BY <1>3 DEF Inv, TypeOK
<1>5. PICK k \in Call : k = [r EXCEPT !.pc = "remove"]
  BY DEF Call, Steps
<1>6. k.pc = "remove" /\ k.kind = r.kind /\ k.accounts = r.accounts /\ k.user = u
  BY <1>1, <1>5 DEF Call
<1>7. Formed(k)
  BY <1>1, <1>6, UsersAssumption DEF Formed, Looking
<1>8. u \notin disturbed' => Reached(k, u)'
  BY <1>1, <1>2, <1>4, <1>6 DEF Reached, Tidy, Looking
<1>9. Apart(u) /\ Marked(c) /\ disturbed \subseteq disturbed' /\ "remove" \in Steps
  BY <1>2, <1>4 DEF Apart, Marked, Steps
<1>10. CallsMoved
  BY <1>1, <1>2, <1>5, <1>7, <1>8, <1>9, GoOnStep
<1> QED  BY <1>2, <1>4, <1>10 DEF Inv, TypeOK, CacheFollows, CallsMoved

LEMMA RemoveUserStep == ASSUME NEW c \in Containers PROVE Inv /\ RemoveUser(c) => Inv'
<1> SUFFICES ASSUME Inv, RemoveUser(c) PROVE Inv'
  OBVIOUS
<1>1. PICK u \in Users, r \in Call :
        /\ r = call[c] /\ r.user = u /\ u = call[c].user /\ Formed(r) /\ r.pc = "remove"
        /\ u \notin disturbed => Reached(r, u)
  BY AtWork DEF RemoveUser, Steps
<1>2. UNCHANGED <<mapping, calls, faults, disturbed>> /\ Done(c)
  BY DEF RemoveUser
<1>3. /\ pool' \in [Users -> (SUBSET Roles) \cup {None}]
      /\ cache' \in [Containers -> [Users -> Roles \cup {"unknown", "null"}]]
      /\ outdated' \subseteq Containers \X Users
      /\ present' \in [Containers -> [always: SUBSET Users, ever: SUBSET Users]]
      /\ CacheFollows' /\ Marked(c)
      /\ pool'[u] = None /\ \A v \in Users : v # u => pool'[v] = pool[v]
  <2>1. Entry(u, None, {c}, Containers \ {c}) /\ {c} \in SUBSET {c}
    BY <1>1 DEF RemoveUser, Forgetting
  <2>2. TypeOK /\ CacheFollows /\ None \in (SUBSET Roles) \cup {None}
    BY DEF Inv
  <2> QED  BY <2>1, <2>2, EntryStep
<1>4. wanted' = [wanted EXCEPT ![u] = NoUser] /\ cut' = cut \ {u}
  BY <1>1 DEF RemoveUser
<1>5. wanted' \in [Users -> User \cup {NoUser}] /\ wanted'[u] = NoUser
      /\ \A v \in Users : v # u => wanted'[v] = wanted[v]
  BY <1>4 DEF Inv, TypeOK
<1>6. u \notin disturbed' => Settled(u)'
  <2>1. u \notin disturbed => mapping[u] = None
    BY <1>1 DEF Reached
  <2> QED  BY <1>2, <1>3, <1>5, <2>1 DEF Settled, Tidy, Agree, NoUser
<1>7. Apart(u) /\ disturbed \subseteq disturbed' /\ cut' \subseteq Users
  BY <1>2, <1>3, <1>4, <1>5 DEF Apart, Inv, TypeOK
<1>8. CallsMoved
  BY <1>1, <1>2, <1>3, <1>6, <1>7, EndStep
<1> QED  BY <1>2, <1>3, <1>5, <1>7, <1>8 DEF Inv, TypeOK, CallsMoved

\* Lists write nothing.
LEMMA ListUsersStep == ASSUME NEW c \in Containers PROVE Inv /\ ListUsers(c) => Inv'
<1> SUFFICES ASSUME Inv, ListUsers(c) PROVE Inv'
  OBVIOUS
<1>1. UNCHANGED <<pool, mapping, cache, faults, wanted, disturbed, cut, outdated>> /\ call[c] = Idle
  BY DEF ListUsers, storeVars
<1>2. calls' \in 0 .. MaxCalls
  BY UsersAssumption DEF ListUsers, Inv, TypeOK
<1>3. PICK page \in SUBSET Users :
        call' = [call EXCEPT ![c] = [Idle EXCEPT !.pc = "list", !.kind = "list", !.todo = page]]
  BY DEF ListUsers
<1>4. PICK k \in Call : k = [Idle EXCEPT !.pc = "list", !.kind = "list", !.todo = page]
  BY DEF Idle, Call, Steps
<1>5. Formed(k) /\ k.user = None /\ call[c].user = None /\ k.pc # "accounts"
  BY <1>1, <1>4 DEF Formed, Idle, Looking
<1>6. present' \in [Containers -> [always: SUBSET Users, ever: SUBSET Users]]
  BY DEF ListUsers, Inv, TypeOK
<1>7. CallsMoved
  BY <1>1, <1>3, <1>4, <1>5, ListCallStep
<1> QED  BY <1>1, <1>2, <1>6, <1>7 DEF Inv, TypeOK, CacheFollows, CallsMoved

LEMMA ListUserStep ==
  ASSUME NEW c \in Containers, NEW u \in Users
  PROVE  Inv /\ ListUser(c, u) => Inv'
<1> SUFFICES ASSUME Inv, ListUser(c, u) PROVE Inv'
  OBVIOUS
<1>1. UNCHANGED <<pool, mapping, cache, calls, faults, wanted, disturbed, cut, outdated, present>>
      /\ call[c].pc = "list"
  BY DEF ListUser, storeVars
<1>2. PICK r \in Call : r = call[c]
  BY DEF Inv, TypeOK
<1>3. r.user = None /\ Formed(r) /\ r.pc = "list"
  BY <1>1, <1>2 DEF Inv, Formed
<1>4. PICK k \in Call :
        k = [r EXCEPT !.todo = r.todo \ {u},
                      !.listed = IF Listable(u) THEN r.listed \cup {u} ELSE r.listed]
  BY DEF Call
<1>5. call' = [call EXCEPT ![c] = k]
  BY <1>2, <1>4 DEF ListUser
<1>6. Formed(k) /\ k.user = None /\ k.pc # "accounts"
  BY <1>3, <1>4 DEF Formed, Call
<1>7. CallsMoved
  BY <1>1, <1>2, <1>3, <1>5, <1>6, ListCallStep
<1> QED  BY <1>1, <1>7 DEF Inv, TypeOK, CacheFollows, CallsMoved

\* A request that ends in an error leaves its user, if it has one, as tidy as it found him.
LEMMA BrokenStep ==
  ASSUME Inv, NEW c \in Containers, Broken(c), UNCHANGED <<pool, mapping, wanted, disturbed>>,
         outdated \ ({c} \X Users) \subseteq outdated'
  PROVE  CallsMoved /\ cut' \subseteq Users
<1>1. /\ Done(c) /\ call[c] \in Call /\ Formed(call[c])
      /\ cut' = cut \cup IF call[c].pc \in {"group", "map", "remove"} THEN {call[c].user} ELSE {}
  BY DEF Broken, Inv, TypeOK
<1>2. call[c].pc \in {"group", "map", "remove"} => call[c].user \in Users
  BY <1>1 DEF Formed, Call
<1>3. cut' \subseteq Users
  BY <1>1, <1>2 DEF Inv, TypeOK
<1>4. CASE call[c].user = None
  <2>1. PICK k \in Call : k = Idle
    BY IdleCall
  <2>2. UNCHANGED cut
    BY <1>1, <1>2, <1>4, UsersAssumption
  <2>3. call' = [call EXCEPT ![c] = k] /\ Formed(k) /\ k.user = None /\ k.pc # "accounts"
    BY <1>1, <2>1, IdleCall DEF Done
  <2> QED  BY <1>3, <1>4, <2>2, <2>3, ListCallStep
<1>5. CASE call[c].user # None
  <2>1. PICK u \in Users : u = call[c].user
    BY <1>1, <1>5 DEF Call
  <2>2. Apart(u) /\ Marked(c) /\ disturbed \subseteq disturbed'
    BY <1>1, <2>1 DEF Apart, Marked
  <2>3. ASSUME u \notin disturbed' PROVE Settled(u)'
    <3>1. Reached(call[c], u)
      BY <2>1, <2>3 DEF Inv, Undisturbed
    <3>2. CASE call[c].pc \in {"group", "map", "remove"}
      BY <1>1, <2>1, <3>1, <3>2 DEF Reached, Settled, Tidy
    <3>3. CASE call[c].pc \notin {"group", "map", "remove"}
      <4>1. call[c].pc \in {"create", "update", "unmap"} \cup Looking
        BY <1>1, <1>5, <3>3 DEF Formed, Call, Steps
      <4> QED  BY <1>1, <3>1, <3>3, <4>1 DEF Reached, Settled, Tidy, Agree
    <3> QED  BY <3>2, <3>3
  <2> QED  BY <1>1, <1>3, <2>1, <2>2, <2>3, EndStep
<1> QED  BY <1>4, <1>5

LEMMA EndingStep ==
  ASSUME NEW c \in Containers
  PROVE  Inv /\ (ListEnds(c) \/ Raises(c) \/ Fails(c) \/ Lost(c)) => Inv'
<1> SUFFICES ASSUME Inv, ListEnds(c) \/ Raises(c) \/ Fails(c) \/ Lost(c) PROVE Inv'
  OBVIOUS
<1>1. CASE ListEnds(c)
  <2>1. UNCHANGED <<pool, mapping, cache, calls, faults, wanted, disturbed, cut, outdated, present>>
        /\ call[c].pc = "list" /\ Done(c)
    BY <1>1 DEF ListEnds, storeVars
  <2>2. Broken(c)
    BY <2>1 DEF Broken
  <2>3. CallsMoved
    BY <2>1, <2>2, BrokenStep
  <2> QED  BY <2>1, <2>3 DEF Inv, TypeOK, CacheFollows, CallsMoved
<1>2. CASE Raises(c)
  <2>1. UNCHANGED <<pool, mapping, cache, calls, faults, wanted, disturbed, outdated, present>>
        /\ Broken(c)
    BY <1>2 DEF Raises, storeVars
  <2>2. CallsMoved /\ cut' \subseteq Users
    BY <2>1, BrokenStep
  <2> QED  BY <2>1, <2>2 DEF Inv, TypeOK, CacheFollows, CallsMoved
<1>3. CASE Fails(c)
  <2>1. UNCHANGED <<pool, mapping, cache, calls, wanted, disturbed, outdated, present>>
        /\ Broken(c)
    BY <1>3 DEF Fails, storeVars
  <2>2. CallsMoved /\ cut' \subseteq Users
    BY <2>1, BrokenStep
  <2>3. faults' \in 0 .. MaxFaults
    BY <1>3, UsersAssumption DEF Fails, Inv, TypeOK
  <2> QED  BY <2>1, <2>2, <2>3 DEF Inv, TypeOK, CacheFollows, CallsMoved
<1>4. CASE Lost(c)
  <2>1. /\ UNCHANGED <<pool, mapping, calls, wanted, disturbed, present>> /\ Broken(c)
        /\ cache' = [cache EXCEPT ![c] = [u \in Users |-> "unknown"]]
        /\ outdated' = outdated \ ({c} \X Users)
    BY <1>4 DEF Lost, storeVars
  <2>2. CallsMoved /\ cut' \subseteq Users
    BY <2>1, BrokenStep
  <2>3. faults' \in 0 .. MaxFaults
    BY <1>4, UsersAssumption DEF Lost, Inv, TypeOK
  <2>4. \A d \in Containers, u \in Users : cache'[d][u] = IF d = c THEN "unknown" ELSE cache[d][u]
    BY <2>1 DEF Inv, TypeOK
  <2>5. CacheFollows'
    BY <2>1, <2>4 DEF Inv, CacheFollows
  <2> QED  BY <2>1, <2>2, <2>3, <2>5 DEF Inv, TypeOK, CallsMoved
<1> QED  BY <1>1, <1>2, <1>3, <1>4

\* A write whose answer is lost leaves its user cut, and tidy.
LEMMA AnswerLostStep == ASSUME NEW c \in Containers PROVE Inv /\ AnswerLost(c) => Inv'
<1> SUFFICES ASSUME Inv, AnswerLost(c) PROVE Inv'
  OBVIOUS
<1>1. PICK u \in Users, r \in Call :
        /\ r = call[c] /\ r.user = u /\ u = call[c].user /\ Formed(r)
        /\ u \notin disturbed => Reached(r, u)
  BY AtWork DEF AnswerLost, Steps
<1>2. UNCHANGED <<calls, wanted, disturbed>> /\ Done(c) /\ cut' = cut \cup {u}
  BY <1>1 DEF AnswerLost
<1>3. faults' \in 0 .. MaxFaults /\ cut' \subseteq Users
  BY <1>2, UsersAssumption DEF AnswerLost, Inv, TypeOK
<1>4. SUFFICES
        /\ pool' \in [Users -> (SUBSET Roles) \cup {None}]
        /\ mapping' \in [Users -> Accounts \cup {None}]
        /\ cache' \in [Containers -> [Users -> Roles \cup {"unknown", "null"}]]
        /\ outdated' \subseteq Containers \X Users
        /\ present' \in [Containers -> [always: SUBSET Users, ever: SUBSET Users]]
        /\ CacheFollows' /\ Marked(c)
        /\ \A v \in Users : v # u => pool'[v] = pool[v] /\ mapping'[v] = mapping[v]
        /\ u \notin disturbed => Tidy(u)'
  <2>1. Apart(u) /\ disturbed \subseteq disturbed'
    BY <1>2, <1>4 DEF Apart
  <2>2. u \notin disturbed' => Settled(u)'
    BY <1>2, <1>4 DEF Settled
  <2>3. CallsMoved
    BY <1>1, <1>2, <1>4, <2>1, <2>2, EndStep
  <2> QED  BY <1>2, <1>3, <1>4, <2>3 DEF Inv, TypeOK, CallsMoved
<1>5. ASSUME NEW groups \in (SUBSET Roles) \cup {None}, Entry(u, groups, {}, Containers),
             UNCHANGED mapping,
             u \notin disturbed =>
               /\ groups \in {None, {}, {"delegated"}, {"operator"}}
               /\ mapping[u] # None => groups = {"operator"}
      PROVE  <1>4!1
  <2>1. TypeOK /\ CacheFollows /\ {} \in SUBSET {c}
    BY DEF Inv
  <2>2. /\ pool' \in [Users -> (SUBSET Roles) \cup {None}]
        /\ cache' \in [Containers -> [Users -> Roles \cup {"unknown", "null"}]]
        /\ outdated' \subseteq Containers \X Users
        /\ present' \in [Containers -> [always: SUBSET Users, ever: SUBSET Users]]
        /\ CacheFollows' /\ Marked(c)
        /\ pool'[u] = groups /\ \A v \in Users : v # u => pool'[v] = pool[v]
    BY <1>5, <2>1, EntryStep
  <2>3. mapping' \in [Users -> Accounts \cup {None}]
    BY <1>5 DEF Inv, TypeOK
  <2> QED  BY <1>5, <2>2, <2>3 DEF Tidy
<1>6. CASE r.pc = "create"
  <2>1. pool[u] = None /\ Entry(u, {}, {}, Containers) /\ UNCHANGED mapping
    BY <1>1, <1>6 DEF AnswerLost
  <2>2. u \notin disturbed => mapping[u] = None
    BY <1>1, <2>1, UsersAssumption DEF Reached, Tidy
  <2>3. {} \in (SUBSET Roles) \cup {None}
    OBVIOUS
  <2> QED  BY <1>5, <2>1, <2>2, <2>3
<1>7. CASE r.pc = "group"
  <2>1. pool[u] # None /\ Entry(u, pool[u] \cup {r.role}, {}, Containers) /\ UNCHANGED mapping
    BY <1>1, <1>7 DEF AnswerLost
  <2>2. r.role \in Roles
    BY <1>1, <1>7 DEF Formed
  <2>3. PICK groups \in SUBSET Roles : groups = pool[u] \cup {r.role}
    BY <2>1, <2>2 DEF Inv, TypeOK
  <2>4. u \notin disturbed => groups = {r.role} /\ mapping[u] = None
    BY <1>1, <1>7, <2>3 DEF Reached, Tidy
  <2>5. groups \in (SUBSET Roles) \cup {None} /\ Entry(u, groups, {}, Containers)
    BY <2>1, <2>3
  <2>6. r.role \in {"delegated", "operator"}
    BY <2>2 DEF Roles
  <2> QED  BY <1>5, <2>1, <2>4, <2>5, <2>6
<1>8. CASE r.pc = "remove"
  <2>1. Entry(u, None, {}, Containers) /\ UNCHANGED mapping
    BY <1>1, <1>8 DEF AnswerLost
  <2>2. u \notin disturbed => mapping[u] = None
    BY <1>1, <1>8 DEF Reached
  <2>3. None \in (SUBSET Roles) \cup {None}
    OBVIOUS
  <2> QED  BY <1>5, <2>1, <2>2, <2>3
<1>9. CASE r.pc \in {"map", "update", "unmap"}
  <2>1. PICK accounts : accounts = IF r.pc = "unmap" THEN None ELSE r.accounts
    OBVIOUS
  <2>2. mapping' = [mapping EXCEPT ![u] = accounts] /\ UNCHANGED <<pool, cache, outdated, present>>
    BY <1>1, <1>9, <2>1 DEF AnswerLost
  <2>3. accounts \in Accounts \cup {None}
    BY <2>1 DEF Call
  <2>4. u \notin disturbed => pool[u] = {"operator"}
    BY <1>1, <1>9 DEF Reached
  <2>5. Marked(c) /\ CacheFollows'
    BY <2>2 DEF Marked, Inv, CacheFollows
  <2>6. mapping' \in [Users -> Accounts \cup {None}]
        /\ \A v \in Users : v # u => mapping'[v] = mapping[v]
    BY <2>2, <2>3 DEF Inv, TypeOK
  <2>7. u \notin disturbed => Tidy(u)'
    BY <2>2, <2>4 DEF Tidy
  <2> QED  BY <2>2, <2>5, <2>6, <2>7 DEF Inv, TypeOK
<1> QED  BY <1>1, <1>6, <1>7, <1>8, <1>9 DEF AnswerLost

-----------------------------------------------------------------------------
LEMMA InitInv == Init => Inv
<1> SUFFICES ASSUME Init PROVE Inv
  OBVIOUS
<1>1. TypeOK
  BY IdleCall, UsersAssumption DEF Init, TypeOK
<1>2. CacheFollows
  BY DEF Init, CacheFollows
<1>3. \A c \in Containers : Formed(call[c]) /\ call[c].user = None /\ call[c].pc = "idle"
  BY IdleCall DEF Init
<1>4. \A u \in Users : Undisturbed(u)
  BY <1>3, UsersAssumption DEF Init, Undisturbed, Settled, Tidy, Agree, NoUser
<1> QED  BY <1>1, <1>2, <1>3, <1>4 DEF Inv, Foreseen

LEMMA NextInv == Inv /\ [Next]_vars => Inv'
<1> SUFFICES ASSUME Inv, [Next]_vars PROVE Inv'
  OBVIOUS
<1>1. ASSUME UNCHANGED vars PROVE Inv'
  <2>1. UNCHANGED <<pool, mapping, cache, call, calls, faults, wanted, disturbed, cut, outdated,
                    present>>
    BY <1>1 DEF vars, storeVars
  <2>2. TypeOK' /\ CacheFollows' /\ \A c \in Containers : Formed(call[c])' /\ Foreseen(c)'
    BY <2>1 DEF Inv, TypeOK, CacheFollows, Formed, Foreseen
  <2>3. \A u \in Users : Undisturbed(u)'
    BY <2>1 DEF Inv, Undisturbed, Active, Reached, Settled, Tidy, Agree
  <2> QED  BY <2>2, <2>3 DEF Inv
<1>2. ASSUME NEW c \in Containers, NEW u \in Users,
             \/ \E role \in Roles, accounts \in Accounts \cup {None} : Invite(c, u, role, accounts)
             \/ \E accounts \in Accounts : UpdateUser(c, u, accounts)
             \/ DeleteUser(c, u)
      PROVE  Inv'
  BY <1>2, RequestStep DEF Roles
<1>3. ASSUME NEW c \in Containers,
             \/ CreateUser(c) \/ AddToGroup(c) \/ CreateMapping(c)
             \/ Lookup(c) \/ LookupGroups(c) \/ LookupAccounts(c) \/ LookupFails(c)
             \/ UpdateMapping(c) \/ DeleteMapping(c) \/ RemoveUser(c) \/ ListUsers(c)
             \/ (\E u \in Users : ListUser(c, u)) \/ ListEnds(c) \/ Raises(c)
             \/ Fails(c) \/ AnswerLost(c) \/ Lost(c)
      PROVE  Inv'
  BY <1>3, CreateUserStep, AddToGroupStep, CreateMappingStep, LookupStep, LookupFailsStep,
     UpdateMappingStep, DeleteMappingStep, RemoveUserStep, ListUsersStep, ListUserStep, EndingStep,
     AnswerLostStep
<1> QED  BY <1>1, <1>2, <1>3 DEF Next

LEMMA SpecInv == Spec => []Inv
BY InitInv, NextInv, PTL DEF Spec

\* Stores, caches and requests keep their types.
THEOREM TypesOK == Spec => []TypeOK
<1>1. Inv => TypeOK
  BY DEF Inv
<1> QED  BY <1>1, SpecInv, PTL

\* Once no request on a user is under way, a row of accounts belongs to an operator; and if the
\* last one that wrote was answered with success, whatever failed before, the pool and the table
\* hold what the requests so answered asked for, unless requests on him overlapped or believed
\* an outdated cache (createUser, updateAccountOperatorUser and deleteUser of cognito.ts).
THEOREM StoresAgreeAlways == Spec => []StoresAgree
<1>1. Inv => StoresAgree
  BY DEF Inv, StoresAgree, Undisturbed, Settled, Tidy, Agree
<1> QED  BY <1>1, SpecInv, PTL

\* What a container has cached of a user is what it would find now, unless he was invited, or
\* deleted by another container, since it read his groups, the read failed, or it deleted him
\* itself and the answer was lost (userCache of cognito.ts).
THEOREM CacheFollowsAlways == Spec => []CacheFollows
<1>1. Inv => CacheFollows
  BY DEF Inv
<1> QED  BY <1>1, SpecInv, PTL

-----------------------------------------------------------------------------
(***************************************************************************)
(* Lists.                                                                  *)
(***************************************************************************)
HasRole(u) == pool[u] \notin {None, {}}

\* Users who have had a role all the time are listed or still to come; all who have one are
\* noted, and so are those listed.
Listing(c) ==
  call[c].pc = "list" =>
    /\ present[c].always \subseteq call[c].listed \cup call[c].todo
    /\ call[c].listed \subseteq present[c].ever
    /\ \A u \in present[c].always : HasRole(u)
    /\ \A u \in Users : HasRole(u) => u \in present[c].ever

ListInv == Inv /\ \A c \in Containers : Listing(c)

\* Steps that no list is made by, and that leave the pool alone.
LEMMA AsideStep ==
  ASSUME ListInv, UNCHANGED <<pool, present>>,
         \A d \in Containers : call'[d] = call[d] \/ call'[d].pc # "list"
  PROVE  \A d \in Containers : Listing(d)'
BY DEF ListInv, Listing, HasRole

\* The request of a container ends, or goes on to another step than a list.
LEMMA AsideCalls ==
  ASSUME Inv, NEW c \in Containers,
         \/ Done(c)
         \/ \E pc \in Steps \ {"list"} : Goto(c, pc)
  PROVE  \A d \in Containers : call'[d] = call[d] \/ call'[d].pc # "list"
<1>1. call \in [Containers -> Call]
  BY DEF Inv, TypeOK
<1>2. CASE Done(c)
  BY <1>1, <1>2, IdleCall DEF Done
<1>3. ASSUME NEW pc \in Steps \ {"list"}, Goto(c, pc)
      PROVE  \A d \in Containers : call'[d] = call[d] \/ call'[d].pc # "list"
  <2>1. PICK r \in Call : r = call[c]
    BY <1>1
  <2>2. PICK k \in Call : call' = [call EXCEPT ![c] = k] /\ k.pc = pc
    BY <1>3, <2>1, GotoCall
  <2> QED  BY <1>1, <1>3, <2>2
<1> QED  BY <1>2, <1>3

\* A user's entry changes: without a role if it is made, with one if he joins a group.
LEMMA ListedEntry ==
  ASSUME ListInv, NEW u \in Users, NEW groups \in (SUBSET Roles) \cup {None},
         NEW forgetting, NEW excused, Entry(u, groups, forgetting, excused),
         groups = {} => pool[u] = None,
         \A d \in Containers : call'[d] = call[d] \/ call'[d].pc # "list"
  PROVE  \A d \in Containers : Listing(d)'
<1>1. /\ pool \in [Users -> (SUBSET Roles) \cup {None}] /\ pool' = [pool EXCEPT ![u] = groups]
      /\ present \in [Containers -> [always: SUBSET Users, ever: SUBSET Users]]
  BY DEF ListInv, Inv, TypeOK, Entry
<1>2. pool'[u] = groups /\ \A v \in Users : v # u => pool'[v] = pool[v]
  BY <1>1
<1>3. SUFFICES ASSUME NEW d \in Containers, call'[d].pc = "list"
               PROVE  /\ present'[d].always \subseteq call'[d].listed \cup call'[d].todo
                      /\ call'[d].listed \subseteq present'[d].ever
                      /\ \A v \in present'[d].always : pool'[v] \notin {None, {}}
                      /\ \A v \in Users : pool'[v] \notin {None, {}} => v \in present'[d].ever
  BY DEF Listing, HasRole
<1>4. call'[d] = call[d]
  BY <1>3
<1>5. /\ present[d].always \subseteq call[d].listed \cup call[d].todo
      /\ call[d].listed \subseteq present[d].ever
      /\ \A v \in present[d].always : pool[v] \notin {None, {}}
      /\ \A v \in Users : pool[v] \notin {None, {}} => v \in present[d].ever
  BY <1>3, <1>4 DEF ListInv, Listing, HasRole
<1>6. /\ present'[d].always = IF groups = None THEN present[d].always \ {u} ELSE present[d].always
      /\ present'[d].ever = IF TypeOf(groups) = "null" THEN present[d].ever
                            ELSE present[d].ever \cup {u}
  BY DEF Entry
<1>7. TypeOf(groups) = "null" <=> groups \in {None, {}}
  BY TypeOfFacts
<1>8. present[d].always \subseteq Users
  BY <1>1
<1>9. /\ present'[d].always \subseteq present[d].always
      /\ present[d].ever \subseteq present'[d].ever
  BY <1>6
<1>10. ASSUME NEW v \in present'[d].always PROVE pool'[v] \notin {None, {}}
  <2>1. v \in present[d].always /\ v \in Users
    BY <1>8, <1>9, <1>10
  <2>2. CASE v # u
    BY <1>2, <1>5, <2>1, <2>2
  <2>3. CASE v = u
    BY <1>2, <1>5, <1>6, <1>10, <2>1, <2>3
  <2> QED  BY <2>2, <2>3
<1>11. ASSUME NEW v \in Users, pool'[v] \notin {None, {}} PROVE v \in present'[d].ever
  <2>1. CASE v # u
    BY <1>2, <1>5, <1>9, <1>11, <2>1
  <2>2. CASE v = u
    BY <1>2, <1>6, <1>7, <1>11, <2>2
  <2> QED  BY <2>1, <2>2
<1> QED  BY <1>4, <1>5, <1>9, <1>10, <1>11

\* The list begins with all the entries, when one page holds them.
LEMMA ListBegins ==
  ASSUME IsFiniteSet(Users), Cardinality(Users) <= PageLimit,
         ListInv, NEW c \in Containers, ListUsers(c)
  PROVE  \A d \in Containers : Listing(d)'
<1>1. PICK entries \in SUBSET Users : entries = {u \in Users : pool[u] # None}
  OBVIOUS
<1>2. PICK page \in SUBSET entries :
        /\ Cardinality(page) = IF Cardinality(entries) < PageLimit THEN Cardinality(entries)
                               ELSE PageLimit
        /\ call' = [call EXCEPT ![c] = [Idle EXCEPT !.pc = "list", !.kind = "list", !.todo = page]]
  BY <1>1 DEF ListUsers
<1>3. page = entries
  <2>1. IsFiniteSet(entries) /\ Cardinality(entries) <= Cardinality(Users)
    BY <1>1, FS_Subset
  <2>2. IsFiniteSet(page) /\ (page # entries => Cardinality(page) < Cardinality(entries))
    BY <2>1, FS_Subset, FS_CardinalityType
  <2>3. /\ Cardinality(entries) \in Nat /\ Cardinality(page) \in Nat
        /\ Cardinality(Users) \in Nat /\ PageLimit \in Nat
    BY <2>1, <2>2, FS_CardinalityType, UsersAssumption
  <2> QED  BY <1>2, <2>1, <2>2, <2>3
<1>4. PICK roles \in SUBSET Users : roles = {u \in entries : pool[u] # {}}
  BY <1>1
<1>5. present' = [present EXCEPT ![c] = [always |-> roles, ever |-> roles]] /\ UNCHANGED pool
  BY <1>1, <1>4 DEF ListUsers, storeVars
<1>6. call \in [Containers -> Call]
      /\ present \in [Containers -> [always: SUBSET Users, ever: SUBSET Users]]
  BY DEF ListInv, Inv, TypeOK
<1>7. ASSUME NEW d \in Containers, d # c PROVE Listing(d)'
  <2>1. call'[d] = call[d] /\ present'[d] = present[d] /\ pool' = pool
    BY <1>2, <1>5, <1>6, <1>7
  <2> QED  BY <2>1 DEF ListInv, Listing, HasRole
<1>8. Listing(c)'
  <2>1. /\ call'[c].todo = page /\ call'[c].listed = {}
        /\ present'[c].always = roles /\ present'[c].ever = roles
    BY <1>2, <1>5, <1>6 DEF Idle
  <2>2. roles = {u \in Users : pool[u] \notin {None, {}}}
    BY <1>1, <1>4
  <2> QED  BY <1>3, <1>4, <1>5, <2>1, <2>2 DEF Listing, HasRole
<1> QED  BY <1>7, <1>8

LEMMA ListGoesOn ==
  ASSUME ListInv, NEW c \in Containers, NEW u \in Users, ListUser(c, u)
  PROVE  \A d \in Containers : Listing(d)'
<1>1. /\ UNCHANGED <<pool, present>> /\ call[c].pc = "list"
      /\ call \in [Containers -> Call] /\ pool \in [Users -> (SUBSET Roles) \cup {None}]
  BY DEF ListUser, storeVars, ListInv, Inv, TypeOK
<1>2. PICK r \in Call : r = call[c]
  BY <1>1
<1>3. PICK k \in Call :
        k = [r EXCEPT !.todo = r.todo \ {u},
                      !.listed = IF Listable(u) THEN r.listed \cup {u} ELSE r.listed]
  BY DEF Call
<1>4. call' = [call EXCEPT ![c] = k]
  BY <1>2, <1>3 DEF ListUser
<1>5. Listable(u) <=> HasRole(u)
  BY <1>1, TypeOfFacts DEF Listable, HasRole
<1>6. ASSUME NEW d \in Containers, d # c PROVE Listing(d)'
  <2>1. call'[d] = call[d] /\ present' = present /\ pool' = pool
    BY <1>1, <1>4, <1>6
  <2> QED  BY <2>1 DEF ListInv, Listing, HasRole
<1>7. Listing(c)'
  <2>1. /\ present[c].always \subseteq r.listed \cup r.todo /\ r.listed \subseteq present[c].ever
        /\ \A v \in present[c].always : HasRole(v)
        /\ \A v \in Users : HasRole(v) => v \in present[c].ever
    BY <1>1, <1>2 DEF ListInv, Listing
  <2>2. k.todo = r.todo \ {u} /\ k.listed = IF Listable(u) THEN r.listed \cup {u} ELSE r.listed
    BY <1>3 DEF Call
  <2>3. present[c].always \subseteq k.listed \cup k.todo /\ k.listed \subseteq present[c].ever
    BY <1>5, <2>1, <2>2
  <2>4. call'[c] = k
    BY <1>1, <1>4
  <2> QED  BY <1>1, <2>1, <2>3, <2>4 DEF Listing, HasRole
<1> QED  BY <1>6, <1>7

LEMMA ListNext ==
  ASSUME IsFiniteSet(Users), Cardinality(Users) <= PageLimit
  PROVE  ListInv /\ [Next]_vars => ListInv'
<1> SUFFICES ASSUME ListInv, [Next]_vars PROVE \A d \in Containers : Listing(d)'
  BY NextInv DEF ListInv
<1>1. Inv /\ call \in [Containers -> Call] /\ pool \in [Users -> (SUBSET Roles) \cup {None}]
  BY DEF ListInv, Inv, TypeOK
<1>2. CASE UNCHANGED vars
  BY <1>2, AsideStep DEF vars, storeVars
<1>3. ASSUME NEW c \in Containers, NEW new, new.pc # "list", Receive(c, new)
      PROVE  \A d \in Containers : Listing(d)'
  <2>1. call' = [call EXCEPT ![c] = new] /\ UNCHANGED <<pool, present>>
    BY <1>3 DEF Receive, storeVars
  <2>2. \A d \in Containers : call'[d] = call[d] \/ call'[d].pc # "list"
    BY <1>1, <1>3, <2>1
  <2> QED  BY <2>1, <2>2, AsideStep
<1>4. ASSUME NEW c \in Containers, NEW u \in Users,
             \/ \E role \in Roles, accounts \in Accounts \cup {None} : Invite(c, u, role, accounts)
             \/ \E accounts \in Accounts : UpdateUser(c, u, accounts)
             \/ DeleteUser(c, u)
      PROVE  \A d \in Containers : Listing(d)'
  <2>1. PICK new : new.pc # "list" /\ Receive(c, new)
    BY <1>4 DEF Invite, UpdateUser, DeleteUser, Idle
  <2> QED  BY <1>3, <2>1
<1>5. ASSUME NEW c \in Containers,
             \/ CreateMapping(c) \/ Lookup(c) \/ LookupGroups(c) \/ LookupAccounts(c)
             \/ LookupFails(c) \/ UpdateMapping(c) \/ DeleteMapping(c) \/ ListEnds(c) \/ Raises(c)
             \/ Fails(c) \/ Lost(c) \/ (AnswerLost(c) /\ call[c].pc \in {"map", "update", "unmap"})
      PROVE  \A d \in Containers : Listing(d)'
  <2>1. UNCHANGED <<pool, present>>
    BY <1>5 DEF CreateMapping, Lookup, LookupGroups, LookupAccounts, LookupFails, Found, Reads,
       UpdateMapping, DeleteMapping, ListEnds, Raises, Fails, Lost, AnswerLost, storeVars
  <2>2. Done(c) \/ \E pc \in Steps \ {"list"} : Goto(c, pc)
    BY <1>5 DEF CreateMapping, Lookup, LookupGroups, LookupAccounts, LookupFails, Found, Reads,
       AfterLookup, UpdateMapping, DeleteMapping, ListEnds, Raises, Fails, Lost, Broken,
       AnswerLost, Invited, Steps, Looking
  <2> QED  BY <1>1, <2>1, <2>2, AsideCalls, AsideStep
<1>6. ASSUME NEW c \in Containers, CreateUser(c)
      PROVE  \A d \in Containers : Listing(d)'
  <2>1. call[c].user \in Users
    BY <1>1, <1>6, AtWork DEF CreateUser, Steps
  <2>2. CASE pool[call[c].user] # None
    <3>1. Done(c) /\ UNCHANGED <<pool, present>>
      BY <1>6, <2>2 DEF CreateUser
    <3> QED  BY <1>1, <3>1, AsideCalls, AsideStep
  <2>3. CASE pool[call[c].user] = None
    <3>1. Goto(c, "group") /\ Entry(call[c].user, {}, {}, Containers)
      BY <1>6, <2>3 DEF CreateUser
    <3>2. \A d \in Containers : call'[d] = call[d] \/ call'[d].pc # "list"
      BY <1>1, <3>1, AsideCalls DEF Steps
    <3>3. {} \in (SUBSET Roles) \cup {None}
      OBVIOUS
    <3> QED  BY <2>1, <2>3, <3>1, <3>2, <3>3, ListedEntry
  <2> QED  BY <2>2, <2>3
<1>7. ASSUME NEW c \in Containers, AddToGroup(c)
      PROVE  \A d \in Containers : Listing(d)'
  <2>1. call[c].user \in Users /\ call[c].role \in Roles
    BY <1>1, <1>7, AtWork DEF AddToGroup, Steps, Formed
  <2>2. PICK groups : groups = pool[call[c].user] \cup {call[c].role}
    OBVIOUS
  <2>3. groups \in (SUBSET Roles) \cup {None} /\ groups # {}
    BY <1>1, <1>7, <2>1, <2>2 DEF AddToGroup
  <2>4. Entry(call[c].user, groups, {}, Containers) /\ (Goto(c, "map") \/ Done(c))
    BY <1>7, <2>2 DEF AddToGroup, Invited
  <2>5. \A d \in Containers : call'[d] = call[d] \/ call'[d].pc # "list"
    BY <1>1, <2>4, AsideCalls DEF Steps
  <2> QED  BY <2>1, <2>3, <2>4, <2>5, ListedEntry
<1>8. ASSUME NEW c \in Containers, RemoveUser(c)
      PROVE  \A d \in Containers : Listing(d)'
  <2>1. call[c].user \in Users
    BY <1>1, <1>8, AtWork DEF RemoveUser, Steps
  <2>2. Entry(call[c].user, None, Forgetting(c), Containers \ {c}) /\ Done(c)
    BY <1>8 DEF RemoveUser
  <2>3. \A d \in Containers : call'[d] = call[d] \/ call'[d].pc # "list"
    BY <1>1, <2>2, AsideCalls
  <2>4. None \in (SUBSET Roles) \cup {None} /\ None # {}
    BY UsersAssumption
  <2> QED  BY <2>1, <2>2, <2>3, <2>4, ListedEntry
<1>10. ASSUME NEW c \in Containers, AnswerLost(c), call[c].pc \notin {"map", "update", "unmap"}
       PROVE  \A d \in Containers : Listing(d)'
  <2>1. call[c].user \in Users /\ (call[c].pc = "group" => call[c].role \in Roles)
    BY <1>1, <1>10, AtWork DEF AnswerLost, Steps, Formed
  <2>2. \A d \in Containers : call'[d] = call[d] \/ call'[d].pc # "list"
    BY <1>1, <1>10, AsideCalls DEF AnswerLost
  <2>3. CASE call[c].pc = "create"
    <3>1. Entry(call[c].user, {}, {}, Containers) /\ pool[call[c].user] = None
      BY <1>10, <2>3 DEF AnswerLost
    <3>2. {} \in (SUBSET Roles) \cup {None}
      OBVIOUS
    <3> QED  BY <2>1, <2>2, <3>1, <3>2, ListedEntry
  <2>4. CASE call[c].pc = "group"
    <3>1. PICK groups : groups = pool[call[c].user] \cup {call[c].role}
      OBVIOUS
    <3>2. pool[call[c].user] # None /\ Entry(call[c].user, groups, {}, Containers)
      BY <1>10, <2>4, <3>1 DEF AnswerLost
    <3>3. groups \in (SUBSET Roles) \cup {None} /\ groups # {}
      BY <1>1, <2>1, <2>4, <3>1, <3>2
    <3> QED  BY <2>1, <2>2, <3>2, <3>3, ListedEntry
  <2>5. CASE call[c].pc = "remove"
    <3>1. Entry(call[c].user, None, {}, Containers)
      BY <1>10, <2>5 DEF AnswerLost
    <3>2. None \in (SUBSET Roles) \cup {None} /\ None # {}
      BY UsersAssumption
    <3> QED  BY <2>1, <2>2, <3>1, <3>2, ListedEntry
  <2> QED  BY <1>10, <2>3, <2>4, <2>5 DEF AnswerLost
<1>9. ASSUME NEW c \in Containers, ListUsers(c) \/ \E u \in Users : ListUser(c, u)
      PROVE  \A d \in Containers : Listing(d)'
  BY <1>9, ListBegins, ListGoesOn
<1> QED  BY <1>2, <1>4, <1>5, <1>6, <1>7, <1>8, <1>9, <1>10 DEF Next

\* A list has every user who had a role while it was made and nobody who had none, however
\* users come and go meanwhile, provided they all fit the one page that getAllUsers of
\* cognito.ts asks ListUsers for.
THEOREM ListsAreComplete ==
  ASSUME IsFiniteSet(Users), Cardinality(Users) <= PageLimit
  PROVE  Spec => []ListComplete
<1>1. Init => ListInv
  <2>1. Init => \A c \in Containers : Listing(c)
    BY IdleCall DEF Init, Listing
  <2> QED  BY <2>1, InitInv DEF ListInv
<1>2. ListInv /\ [Next]_vars => ListInv'
  BY ListNext
<1>3. ListInv => ListComplete
  <2>1. \A c \in Containers : Listing(c) /\ call[c].pc = "list" /\ call[c].todo = {} =>
          present[c].always \subseteq call[c].listed /\ call[c].listed \subseteq present[c].ever
    BY DEF Listing
  <2> QED  BY <2>1 DEF ListInv, ListComplete
<1> QED  BY <1>1, <1>2, <1>3, PTL DEF Spec
=============================================================================
