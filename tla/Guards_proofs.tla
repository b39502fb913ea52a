---------------------------- MODULE Guards_proofs ----------------------------
(***************************************************************************)
(* Proofs about what stands before the services: the accounts and their    *)
(* roles (Accounts), the limit on wrong passwords (RateLimit), the circuit *)
(* breaker of a provider (CircuitBreaker) and the settings of the          *)
(* processes (RuntimeSettings), for any people, requests, roles, limits,   *)
(* callers, thresholds, processes, tasks and settings.                     *)
(***************************************************************************)
EXTENDS Accounts, CircuitBreaker, RateLimit, RuntimeSettings, Integers, FiniteSetTheorems, TLAPS

-----------------------------------------------------------------------------
(* Accounts.  The invariant says of each request that is about to write    *)
(* what it has seen: an account that exists (and no account is ever        *)
(* deleted), and, if somebody updates himself, an active account whose     *)
(* role and activity the request leaves alone (Spares).                    *)

Spares(k) ==
    /\ k.role \in {Same, k.seen.role}
    /\ k.activity # "off"
    /\ k.seen.active

CallInv(c) ==
    LET k == call[c] IN
    /\ k.at = "read" /\ k.op # "create" => k.seen \in Account /\ Exists(k.target)
    /\ k.at \in {"authorized", "read"} /\ k.op = "update" /\ k.target = k.author =>
          k.at = "read" /\ Spares(k)
    /\ k.at \in {"authorized", "read"} /\ k.op = "create" => k.role \in Roles

AccountsInv ==
    /\ AccountsTypeOK
    /\ \A c \in Calls : CallInv(c)
    /\ AdminRemains
    /\ ResetForcesChange

USE DEF AdminOps, OwnOps, Same

-----------------------------------------------------------------------------
\* A request under way is one of Call.
LEMMA UnderWay ==
    ASSUME AccountsTypeOK, NEW c \in Calls, call[c].at \in {"authorized", "read"}
    PROVE  call[c] \in Call
  <1>1. call[c] \in Call \cup {Idle}
    BY DEF AccountsTypeOK
  <1>2. Idle.at \notin {"authorized", "read"}
    BY DEF Idle
  <1> QED BY <1>1, <1>2

\* What the request of call c means to write is an account.
LEMMA IntendedType ==
    ASSUME NEW k \in Call, k.seen \in Account, k.op # "create"
    PROVE  Intended(k) \in Account
  <1>1. k.op \in AdminOps \cup OwnOps /\ k.role \in Roles \cup {Same}
    BY DEF Call
  <1>2. CASE k.op = "update"
    BY <1>1, <1>2 DEF Intended, Account
  <1>3. CASE k.op = "reset"
    BY <1>3 DEF Intended, Account
  <1>4. CASE k.op = "change"
    BY <1>4 DEF Intended, Account
  <1>5. CASE k.op = "force"
    BY <1>5 DEF Intended, Account
  <1> QED BY <1>1, <1>2, <1>3, <1>4, <1>5

LEMMA WrittenType ==
    ASSUME NEW k \in Call, k.seen \in Account, account[k.target] \in Account, k.op # "create"
    PROVE  Written(k) \in Account
  <1>1. Intended(k) \in Account
    BY IntendedType
  <1> QED BY <1>1 DEF Written, Column, Account

\* Only an update changes a role or an activity.
LEMMA OnlyUpdatesDemote ==
    ASSUME NEW k \in Call, k.seen \in Account, account[k.target] \in Account,
           k.op \in {"reset", "change", "force"}
    PROVE  /\ Written(k).role = account[k.target].role
           /\ Written(k).active = account[k.target].active
  <1>1. Intended(k).role = k.seen.role /\ Intended(k).active = k.seen.active
    BY DEF Intended, Account
  <1> QED BY <1>1 DEF Written, Column

\* An update that spares its target leaves role and activity as they are.
LEMMA SparedStays ==
    ASSUME NEW k \in Call, k.seen \in Account, account[k.target] \in Account,
           k.op = "update", Spares(k), AccountsAssumption
    PROVE  /\ Written(k).role = account[k.target].role
           /\ Written(k).active = account[k.target].active
  <1>1. k.activity \in {"on", Same}
    BY DEF Spares, Call
  <1>2. Intended(k).role = k.seen.role
    BY DEF Intended, Account, Spares
  <1>3. Intended(k).active = k.seen.active
    BY <1>1 DEF Intended, Account, Spares
  <1> QED BY <1>2, <1>3 DEF Written, Column

\* Only a reset makes the password an administrator's, and it forces a change if the
\* account is as it was seen.
LEMMA ResetForces ==
    ASSUME NEW k \in Call, k.seen \in Account, account[k.target] \in Account, k.op # "create",
           k.op = "reset" => account[k.target] = k.seen,
           account[k.target].chosenBy = "admin" => account[k.target].must,
           Written(k).chosenBy = "admin"
    PROVE  Written(k).must
  <1>1. k.op \in {"update", "reset", "change", "force"}
    BY DEF Call
  <1>2. CASE k.op = "update"
    <2>1. Intended(k).chosenBy = k.seen.chosenBy /\ Intended(k).must = k.seen.must
      BY <1>2 DEF Intended, Account
    <2> QED BY <1>2, <2>1 DEF Written, Column
  <1>3. CASE k.op = "reset"
    <2>1. Intended(k).must = TRUE
      BY <1>3 DEF Intended, Account
    <2>2. k.seen.must \in BOOLEAN
      BY DEF Account
    <2> QED BY <1>3, <2>1, <2>2 DEF Written, Column
  <1>4. CASE k.op \in {"change", "force"}
    <2>1. Intended(k).chosenBy = "self"
      BY <1>4 DEF Intended, Account
    <2> QED BY <1>4, <2>1 DEF Written, Column
  <1> QED BY <1>1, <1>2, <1>3, <1>4

-----------------------------------------------------------------------------
LEMMA AccountsStart == ASSUME AccountsAssumption, AccountsInit PROVE AccountsInv
  <1>1. AccountsTypeOK
    <2>1. call \in [Calls -> Call \cup {Idle}]
      BY DEF AccountsInit
    <2>2. requests \in 0 .. MaxRequests
      BY DEF AccountsInit, AccountsAssumption
    <2> QED BY <2>1, <2>2 DEF AccountsInit, AccountsTypeOK
  <1>2. \A c \in Calls : CallInv(c)
    BY DEF AccountsInit, CallInv, Idle
  <1>3. AdminRemains /\ ResetForcesChange
    BY DEF AccountsInit, AdminRemains, ResetForcesChange
  <1> QED BY <1>1, <1>2, <1>3 DEF AccountsInv

\* A step that changes no account and one call, whose invariant it keeps.
LEMMA OneCall ==
    ASSUME AccountsInv, NEW c \in Calls, NEW k \in Call \cup {Idle},
           call' = [call EXCEPT ![c] = k], requests' \in 0 .. MaxRequests,
           UNCHANGED <<account, late, crossed>>, CallInv(c)'
    PROVE  AccountsInv'
  <1>1. AccountsTypeOK'
    BY DEF AccountsInv, AccountsTypeOK
  <1>2. ASSUME NEW d \in Calls PROVE CallInv(d)'
    <2>1. CASE d # c
      <3>1. call'[d] = call[d] /\ account' = account
        BY <2>1 DEF AccountsInv, AccountsTypeOK
      <3> QED BY <3>1 DEF AccountsInv, CallInv, Exists
    <2> QED BY <2>1
  <1>3. AdminRemains' /\ ResetForcesChange'
    BY DEF AccountsInv, AdminRemains, ResetForcesChange, IsAdmin, Exists
  <1> QED BY <1>1, <1>2, <1>3 DEF AccountsInv

LEMMA BeginCounts ==
    ASSUME AccountsTypeOK, AccountsAssumption, NEW c \in Calls, Begin(c)
    PROVE  requests' \in 0 .. MaxRequests
  BY DEF AccountsTypeOK, AccountsAssumption, Begin

LEMMA AuthorizeKeeps ==
    ASSUME AccountsInv, AccountsAssumption, NEW c \in Calls, Authorize(c) PROVE AccountsInv'
  <1>1. PICK op \in AdminOps, author \in People, target \in People :
        \E role \in RolesOf(op), activity \in ActivitiesOf(op) :
          /\ IsAdmin(author) /\ ~account[author].must
          /\ op = "update" => <<role, activity>> # <<Same, Same>>
          /\ ~(op = "update" /\ HurtsOneself(author, target, role, activity))
          /\ call' = [call EXCEPT ![c] =
                [at |-> IF target = author /\ op # "create" THEN "read" ELSE "authorized",
                 op |-> op, author |-> author, target |-> target, role |-> role,
                 activity |-> activity, seen |-> account[author]]]
    BY DEF Authorize
  <1>2. PICK role \in RolesOf(op), activity \in ActivitiesOf(op) :
          /\ IsAdmin(author)
          /\ ~(op = "update" /\ HurtsOneself(author, target, role, activity))
          /\ call' = [call EXCEPT ![c] =
                [at |-> IF target = author /\ op # "create" THEN "read" ELSE "authorized",
                 op |-> op, author |-> author, target |-> target, role |-> role,
                 activity |-> activity, seen |-> account[author]]]
    BY <1>1
  <1> DEFINE k == [at |-> IF target = author /\ op # "create" THEN "read" ELSE "authorized",
                   op |-> op, author |-> author, target |-> target, role |-> role,
                   activity |-> activity, seen |-> account[author]]
  <1>3. role \in Roles \cup {Same} /\ activity \in {"on", "off", Same}
    BY DEF RolesOf, ActivitiesOf
  <1>4. account[author] \in Account
    BY <1>2 DEF AccountsInv, AccountsTypeOK, IsAdmin, Exists
  <1>5. k \in Call
    BY <1>3, <1>4 DEF Call
  <1>6. call'[c] = k
    BY <1>2 DEF AccountsInv, AccountsTypeOK
  <1>7. UNCHANGED <<account, late, crossed>> /\ Begin(c)
    BY DEF Authorize
  <1>8. CallInv(c)'
    <2>1. ASSUME k.at = "read", k.op # "create"
          PROVE  k.seen \in Account /\ Exists(target)'
      BY <1>2, <1>4, <1>7, <2>1 DEF IsAdmin, Exists
    <2>3. /\ k.target = target /\ k.at \in {"authorized", "read"}
          /\ call'[c].target = target
      BY <1>6
    <2>2. ASSUME k.op = "update", k.target = k.author
          PROVE  k.at = "read" /\ Spares(k)
      <3>1. activity # "off" /\ role \in {Same, account[author].role}
        BY <1>2, <2>2 DEF HurtsOneself
      <3>2. account[author].active
        BY <1>2 DEF IsAdmin
      <3> QED BY <2>2, <3>1, <3>2 DEF Spares
    <2>4. k.op = "create" => k.role \in Roles
      BY DEF RolesOf
    <2> HIDE DEF k
    <2> QED BY <1>6, <2>1, <2>2, <2>3, <2>4 DEF CallInv, Spares
  <1>9. requests' \in 0 .. MaxRequests
    BY <1>7, BeginCounts DEF AccountsInv
  <1> QED BY <1>2, <1>5, <1>7, <1>8, <1>9, OneCall

LEMMA AuthorizeOwnKeeps ==
    ASSUME AccountsInv, AccountsAssumption, NEW c \in Calls, AuthorizeOwn(c) PROVE AccountsInv'
  <1>1. PICK op \in OwnOps, author \in People :
          /\ Exists(author)
          /\ call' = [call EXCEPT ![c] =
                [at |-> "read", op |-> op, author |-> author, target |-> author,
                 role |-> Same, activity |-> Same, seen |-> account[author]]]
    BY DEF AuthorizeOwn
  <1> DEFINE k == [at |-> "read", op |-> op, author |-> author, target |-> author,
                   role |-> Same, activity |-> Same, seen |-> account[author]]
  <1>2. account[author] \in Account
    BY <1>1 DEF AccountsInv, AccountsTypeOK, Exists
  <1>3. k \in Call /\ k.op # "update"
    BY <1>2 DEF Call
  <1>4. call'[c] = k
    BY <1>1 DEF AccountsInv, AccountsTypeOK
  <1>5. UNCHANGED <<account, late, crossed>> /\ Begin(c)
    BY DEF AuthorizeOwn
  <1>6. CallInv(c)'
    BY <1>1, <1>2, <1>4, <1>5 DEF CallInv, Exists
  <1>7. requests' \in 0 .. MaxRequests
    BY <1>5, BeginCounts DEF AccountsInv
  <1> QED BY <1>1, <1>3, <1>5, <1>6, <1>7, OneCall

LEMMA ReadKeeps ==
    ASSUME AccountsInv, NEW c \in Calls, Read(c) PROVE AccountsInv'
  <1> DEFINE k == [call[c] EXCEPT !.at = "read", !.seen = account[call[c].target]]
  <1>1. call[c] \in Call /\ call[c].at = "authorized"
    BY UnderWay DEF AccountsInv, Read
  <1>2. /\ call' = [call EXCEPT ![c] = k]
        /\ Exists(call[c].target) <=> call[c].op # "create"
        /\ UNCHANGED <<account, requests, late, crossed>>
    BY DEF Read
  <1>3. account[call[c].target] \in Account \cup {Missing}
    BY <1>1 DEF AccountsInv, AccountsTypeOK, Call
  <1>4. k \in Call
    BY <1>1, <1>3 DEF Call
  <1>5. /\ k.op = call[c].op /\ k.role = call[c].role /\ k.target = call[c].target /\ k.author = call[c].author
        /\ k.seen = account[call[c].target]
    BY <1>1 DEF Call
  <1>6. call'[c] = k
    BY <1>2 DEF AccountsInv, AccountsTypeOK
  <1>7. /\ ~(call[c].op = "update" /\ call[c].target = call[c].author)
        /\ call[c].op = "create" => call[c].role \in Roles
    BY <1>1 DEF AccountsInv, CallInv
  <1>8. CallInv(c)'
    <2> HIDE DEF k
    <2> QED BY <1>2, <1>3, <1>5, <1>6, <1>7 DEF CallInv, Exists
  <1>9. requests' \in 0 .. MaxRequests
    BY <1>2 DEF AccountsInv, AccountsTypeOK
  <1> HIDE DEF k
  <1> QED BY <1>2, <1>4, <1>8, <1>9, OneCall

LEMMA RefuseKeeps ==
    ASSUME AccountsInv, NEW c \in Calls, Refuse(c) PROVE AccountsInv'
  <1>1. call' = [call EXCEPT ![c] = Idle] /\ UNCHANGED <<account, requests, late, crossed>>
    BY DEF Refuse
  <1>2. call'[c] = Idle
    BY <1>1 DEF AccountsInv, AccountsTypeOK
  <1>3. CallInv(c)'
    BY <1>2 DEF CallInv, Idle
  <1>4. requests' \in 0 .. MaxRequests
    BY <1>1 DEF AccountsInv, AccountsTypeOK
  <1> QED BY <1>1, <1>3, <1>4, OneCall

\* A step that ends a call and gives one account another value.
LEMMA OneAccount ==
    ASSUME AccountsInv, NEW c \in Calls, NEW u \in People, NEW row \in Account, AccountsAssumption,
           call' = [call EXCEPT ![c] = Idle], account' = [account EXCEPT ![u] = row],
           requests' = requests, late' \in BOOLEAN, crossed' \subseteq People
    PROVE  AccountsTypeOK' /\ \A d \in Calls : CallInv(d)'
  <1>1. AccountsTypeOK'
    BY DEF AccountsInv, AccountsTypeOK
  <1>2. \A v \in People : Exists(v) => Exists(v)'
    BY DEF AccountsInv, AccountsTypeOK, AccountsAssumption, Exists
  <1>3. ASSUME NEW d \in Calls PROVE CallInv(d)'
    <2>1. CASE d = c
      <3>1. call'[d] = Idle
        BY <2>1 DEF AccountsInv, AccountsTypeOK
      <3> QED BY <3>1 DEF CallInv, Idle
    <2>2. CASE d # c
      <3>1. call'[d] = call[d]
        BY <2>2 DEF AccountsInv, AccountsTypeOK
      <3>2. CallInv(d)
        BY DEF AccountsInv
      <3>3. call[d].at = "read" => call[d].target \in People
        BY UnderWay DEF AccountsInv, Call
      <3> QED BY <1>2, <3>1, <3>2, <3>3 DEF CallInv
    <2> QED BY <2>1, <2>2
  <1> QED BY <1>1, <1>3

LEMMA WriteKeeps ==
    ASSUME AccountsInv, AccountsAssumption, NEW c \in Calls, Write(c) PROVE AccountsInv'
  <1> DEFINE k == call[c]
             row == Written(k)
  <1>1. k \in Call /\ k.at = "read" /\ k.op # "create"
    BY UnderWay DEF AccountsInv, Write
  <1>2. k.seen \in Account /\ Exists(k.target) /\ k.target \in People /\ k.author \in People
    <2>1. CallInv(c)
      BY DEF AccountsInv
    <2> QED BY <1>1, <2>1 DEF CallInv, Call
  <1>3. account[k.target] \in Account
    BY <1>2 DEF AccountsInv, AccountsTypeOK, Exists
  <1>4. row \in Account
    BY <1>1, <1>2, <1>3, WrittenType
  <1>5. /\ account' = [account EXCEPT ![k.target] = row]
        /\ call' = [call EXCEPT ![c] = Idle]
        /\ requests' = requests
        /\ late' = (late \/ (k.op \in AdminOps /\ ~IsAdmin(k.author)))
        /\ crossed' = IF k.op = "reset" /\ account[k.target] # k.seen
                      THEN crossed \cup {k.target} ELSE crossed
    BY DEF Write
  <1>6. AccountsTypeOK' /\ \A d \in Calls : CallInv(d)'
    <2>1. late' \in BOOLEAN
      BY <1>5
    <2>2. crossed' \subseteq People
      BY <1>2, <1>5 DEF AccountsInv, AccountsTypeOK
    <2> HIDE DEF k, row
    <2> QED BY <1>2, <1>4, <1>5, <2>1, <2>2, OneAccount
  <1>7. /\ account'[k.target] = row
        /\ \A u \in People : u # k.target => account'[u] = account[u]
    BY <1>2, <1>5 DEF AccountsInv, AccountsTypeOK
  <1>8. row # Missing
    BY <1>4 DEF AccountsAssumption
  <1>9. AdminRemains'
    <2> SUFFICES ASSUME ~late' PROVE (\E u \in People : IsAdmin(u))'
      BY DEF AdminRemains
    <2>1. ~late /\ (k.op \in AdminOps => IsAdmin(k.author))
      BY <1>5
    <2>2. PICK u \in People : IsAdmin(u)
      BY <2>1 DEF AccountsInv, AdminRemains
    <2>3. CASE row.role = account[k.target].role /\ row.active = account[k.target].active
      <3>1. IsAdmin(u)'
        BY <1>7, <1>8, <2>2, <2>3 DEF IsAdmin, Exists
      <3> QED BY <3>1
    <2>4. CASE k.op = "update" /\ k.target # k.author
      <3>1. PICK v \in People : v = k.author
        BY <1>2
      <3>2. IsAdmin(v)'
        BY <1>7, <2>1, <2>4, <3>1 DEF IsAdmin, Exists
      <3> QED BY <3>2
    <2>5. CASE k.op = "update" /\ k.target = k.author
      <3>1. Spares(k)
        BY <1>1, <2>5 DEF AccountsInv, CallInv
      <3> QED BY <1>1, <1>2, <1>3, <2>3, <2>5, <3>1, SparedStays
    <2>6. CASE k.op \in {"reset", "change", "force"}
      BY <1>1, <1>2, <1>3, <2>3, <2>6, OnlyUpdatesDemote
    <2>7. k.op \in {"update", "reset", "change", "force"}
      BY <1>1 DEF Call
    <2> QED BY <2>4, <2>5, <2>6, <2>7
  <1>10. ResetForcesChange'
    <2> SUFFICES ASSUME NEW u \in People, u \notin crossed', account'[u] # Missing,
                        account'[u].chosenBy = "admin"
                 PROVE  account'[u].must
      BY DEF ResetForcesChange, Exists
    <2>1. u \notin crossed /\ (u = k.target /\ k.op = "reset" => account[k.target] = k.seen)
      BY <1>5
    <2>2. Exists(u) /\ account[u].chosenBy = "admin" => account[u].must
      BY <2>1 DEF AccountsInv, ResetForcesChange
    <2>3. CASE u # k.target
      BY <1>7, <2>2, <2>3 DEF Exists
    <2>4. CASE u = k.target
      BY <1>1, <1>2, <1>3, <1>7, <2>1, <2>2, <2>4, ResetForces
    <2> QED BY <2>3, <2>4
  <1> QED BY <1>6, <1>9, <1>10 DEF AccountsInv

LEMMA CreateKeeps ==
    ASSUME AccountsInv, AccountsAssumption, NEW c \in Calls, Create(c) PROVE AccountsInv'
  <1> DEFINE k == call[c]
             row == [role |-> k.role, active |-> TRUE, chosenBy |-> "admin", must |-> TRUE]
  <1>1. k \in Call /\ k.at = "read" /\ k.op = "create"
    BY UnderWay DEF AccountsInv, Create
  <1>2. /\ account' = IF Exists(k.target) THEN account ELSE [account EXCEPT ![k.target] = row]
        /\ call' = [call EXCEPT ![c] = Idle]
        /\ UNCHANGED <<requests, late, crossed>>
    BY DEF Create
  <1>3. k.target \in People /\ row \in Account
    <2>1. k.role \in Roles
      BY <1>1 DEF AccountsInv, CallInv
    <2> QED BY <1>1, <2>1 DEF Call, Account
  <1>4. CASE Exists(k.target)
    <2>1. CallInv(c)'
      <3>1. call'[c] = Idle
        BY <1>2 DEF AccountsInv, AccountsTypeOK
      <3> QED BY <3>1 DEF CallInv, Idle
    <2>2. requests' \in 0 .. MaxRequests
      BY <1>2 DEF AccountsInv, AccountsTypeOK
    <2> QED BY <1>2, <1>4, <2>1, <2>2, OneCall
  <1>5. CASE ~Exists(k.target)
    <2>1. account' = [account EXCEPT ![k.target] = row]
      BY <1>2, <1>5
    <2>2. AccountsTypeOK' /\ \A d \in Calls : CallInv(d)'
      <3>1. late' \in BOOLEAN /\ crossed' \subseteq People
        BY <1>2 DEF AccountsInv, AccountsTypeOK
      <3> HIDE DEF k, row
      <3> QED BY <1>2, <1>3, <2>1, <3>1, OneAccount
    <2>3. /\ account'[k.target] = row
          /\ \A u \in People : u # k.target => account'[u] = account[u]
      BY <1>3, <2>1 DEF AccountsInv, AccountsTypeOK
    <2>4. AdminRemains'
      <3>1. \A u \in People : IsAdmin(u) => IsAdmin(u)'
        BY <1>5, <2>3 DEF IsAdmin, Exists
      <3> QED BY <1>2, <3>1 DEF AccountsInv, AdminRemains
    <2>5. ResetForcesChange'
      <3> HIDE DEF k
      <3> QED BY <1>2, <2>3 DEF AccountsInv, ResetForcesChange, Exists
    <2> QED BY <2>2, <2>4, <2>5 DEF AccountsInv
  <1> QED BY <1>4, <1>5

\* Every step keeps the invariant.
LEMMA AccountsStep ==
    ASSUME AccountsInv, AccountsAssumption, [AccountsNext]_accountVars PROVE AccountsInv'
  <1>1. CASE UNCHANGED accountVars
    BY <1>1 DEF accountVars, AccountsInv, AccountsTypeOK, CallInv, AdminRemains, ResetForcesChange,
                Exists, IsAdmin
  <1>2. ASSUME NEW c \in Calls, CallMoves(c) PROVE AccountsInv'
    BY <1>2, AuthorizeKeeps, AuthorizeOwnKeeps, ReadKeeps, RefuseKeeps, WriteKeeps,
       CreateKeeps DEF CallMoves
  <1> QED BY <1>1, <1>2 DEF AccountsNext

LEMMA AccountsInvariant == AccountsSpec => []AccountsInv
  <1>1. AccountsInit => AccountsInv
    BY AccountsStart, AccountsAssumption
  <1>2. AccountsInv /\ [AccountsNext]_accountVars => AccountsInv'
    BY AccountsStep, AccountsAssumption
  <1> QED BY <1>1, <1>2, PTL DEF AccountsSpec

\* Accounts and requests have their types in every behaviour.
THEOREM AccountsTypeCorrect == AccountsSpec => []AccountsTypeOK
  <1>1. AccountsInv => AccountsTypeOK
    BY DEF AccountsInv
  <1> QED BY <1>1, AccountsInvariant, PTL

\* The checks of update_user on one's own account keep an administrator, for any number
\* of administrators and of requests at the same time, as long as nobody's request is
\* carried out who no longer is one.
THEOREM AdminRemainsCorrect == AccountsSpec => []AdminRemains
  <1>1. AccountsInv => AdminRemains
    BY DEF AccountsInv
  <1> QED BY <1>1, AccountsInvariant, PTL

\* A password of an administrator's choice has to be changed by its user, whatever
\* requests overlap, unless the account changed under the reset.
THEOREM ResetForcesChangeCorrect == AccountsSpec => []ResetForcesChange
  <1>1. AccountsInv => ResetForcesChange
    BY DEF AccountsInv
  <1> QED BY <1>1, AccountsInvariant, PTL

-----------------------------------------------------------------------------
(* The circuit breaker.  The counter of the code is the number of failures *)
(* with which the history ends (Trailing), and only a full counter opens   *)
(* the circuit.                                                            *)

USE DEF Outcome

\* Two facts of arithmetic.
LEMMA SameBound == ASSUME NEW a \in Int, NEW b \in Int, a <= b, b <= a PROVE a = b
  OBVIOUS

LEMMA NextInRange ==
    ASSUME NEW k \in Int, NEW top \in Int, NEW old \in Int, NEW new \in Int,
           new <= old + 1, k > top - new
    PROVE  k + 1 > top - old
  OBVIOUS

\* The history ends with as many failures as the counter says.
Trailing ==
    /\ failures <= Len(outcomes)
    /\ \A k \in DOMAIN outcomes : k > Len(outcomes) - failures => outcomes[k] = "failure"

BreakerInv == BreakerTypeOK /\ Trailing /\ (left > 0 => failures = Threshold)

\* The history after an outcome: one longer, or moved by one.
LEMMA NotedShape ==
    ASSUME BreakerAssumption, BreakerTypeOK, NEW outcome \in Outcome
    PROVE  /\ Noted(outcome) \in Seq(Outcome)
           /\ Len(Noted(outcome)) <= Threshold
           /\ \/ /\ Len(outcomes) < Threshold
                 /\ Len(Noted(outcome)) = Len(outcomes) + 1
                 /\ Noted(outcome) = Append(outcomes, outcome)
              \/ /\ Len(outcomes) = Threshold
                 /\ Len(Noted(outcome)) = Threshold
                 /\ \A k \in 1 .. Threshold :
                       Noted(outcome)[k] = Append(outcomes, outcome)[k + 1]
  <1> DEFINE longer == Append(outcomes, outcome)
  <1>1. outcomes \in Seq(Outcome) /\ Len(outcomes) \in Nat /\ Len(outcomes) <= Threshold
        /\ Threshold \in Nat \ {0}
    BY DEF BreakerTypeOK, BreakerAssumption
  <1>2. longer \in Seq(Outcome) /\ Len(longer) = Len(outcomes) + 1
    BY <1>1
  <1>3. CASE Len(outcomes) < Threshold
    BY <1>1, <1>2, <1>3 DEF Noted
  <1>4. CASE Len(outcomes) = Threshold
    <2>1. Noted(outcome) = Tail(longer)
      BY <1>1, <1>2, <1>4 DEF Noted
    <2>2. Tail(longer) \in Seq(Outcome) /\ Len(Tail(longer)) = Threshold
          /\ \A k \in 1 .. Threshold : Tail(longer)[k] = longer[k + 1]
      BY <1>1, <1>2, <1>4
    <2> QED BY <2>1, <2>2, <1>1, <1>4
  <1> QED BY <1>1, <1>3, <1>4

LEMMA SuccessKeeps ==
    ASSUME BreakerAssumption, BreakerInv, RecordSuccess, calling' \subseteq Callers
    PROVE  BreakerInv'
  <1>1. outcomes' = Noted("success") /\ failures' = 0 /\ left' = 0
    BY DEF RecordSuccess
  <1>2. outcomes' \in Seq(Outcome) /\ Len(outcomes') <= Threshold /\ Len(outcomes') \in Nat
    BY <1>1, NotedShape DEF BreakerInv
  <1> QED
    BY <1>1, <1>2 DEF BreakerInv, BreakerTypeOK, Trailing, BreakerAssumption

LEMMA FailureKeeps ==
    ASSUME BreakerAssumption, BreakerInv, RecordFailure, calling' \subseteq Callers
    PROVE  BreakerInv'
  <1>1. /\ outcomes \in Seq(Outcome) /\ Len(outcomes) \in Nat
        /\ failures \in 0 .. Threshold /\ failures <= Len(outcomes)
        /\ left \in 0 .. Recovery
        /\ Threshold \in Nat \ {0} /\ Recovery \in Nat \ {0}
    BY DEF BreakerInv, BreakerTypeOK, Trailing, BreakerAssumption
  <1>2. /\ outcomes' = Noted("failure")
        /\ failures' = IF failures < Threshold THEN failures + 1 ELSE failures
        /\ left' = IF failures' = Threshold THEN Recovery ELSE left
    BY DEF RecordFailure
  <1>3. BreakerTypeOK'
    <2>1. outcomes' \in Seq(Outcome) /\ Len(outcomes') <= Threshold
      BY <1>2, NotedShape DEF BreakerInv
    <2>2. failures' \in 0 .. Threshold /\ left' \in 0 .. Recovery
      BY <1>1, <1>2
    <2> QED BY <2>1, <2>2 DEF BreakerTypeOK
  <1>4. \A k \in 1 .. Len(outcomes) : k > Len(outcomes) - failures => outcomes[k] = "failure"
    BY <1>1 DEF BreakerInv, Trailing
  <1>5. Trailing'
    <2>1. CASE Len(outcomes) < Threshold
      <3>1. outcomes' = Append(outcomes, "failure") /\ Len(outcomes') = Len(outcomes) + 1
        BY <1>2, <2>1, NotedShape DEF BreakerInv
      <3>2. failures' = failures + 1
        BY <1>1, <1>2, <2>1
      <3>3. ASSUME NEW k \in 1 .. Len(outcomes'), k > Len(outcomes') - failures'
            PROVE  outcomes'[k] = "failure"
        <4>1. CASE k = Len(outcomes) + 1
          BY <1>1, <3>1, <4>1
        <4>2. CASE k # Len(outcomes) + 1
          <5>1. k \in 1 .. Len(outcomes) /\ k > Len(outcomes) - failures
            BY <1>1, <3>1, <3>2, <3>3, <4>2
          <5>2. outcomes'[k] = outcomes[k]
            BY <1>1, <3>1, <5>1
          <5> QED BY <1>4, <5>1, <5>2
        <4> QED BY <4>1, <4>2
      <3> QED BY <1>1, <3>1, <3>2, <3>3 DEF Trailing
    <2>2. CASE Len(outcomes) = Threshold
      <3>1. /\ Len(outcomes') = Threshold
            /\ \A k \in 1 .. Threshold : outcomes'[k] = Append(outcomes, "failure")[k + 1]
        BY <1>1, <1>2, <2>2, NotedShape DEF BreakerInv
      <3>2. failures' <= Threshold /\ failures' <= failures + 1 /\ failures' \in Nat
        BY <1>1, <1>2
      <3>3. ASSUME NEW k \in 1 .. Threshold, k > Threshold - failures'
            PROVE  outcomes'[k] = "failure"
        <4>1. CASE k = Threshold
          BY <1>1, <2>2, <3>1, <4>1
        <4>2. CASE k # Threshold
          <5>1. k + 1 \in 1 .. Len(outcomes) /\ k + 1 > Len(outcomes) - failures
            <6>1. k \in Int /\ k >= 1 /\ k < Threshold /\ Threshold \in Int
              BY <1>1, <4>2
            <6>2. failures \in Int
              BY <1>1
            <6>3. failures' \in Int
              BY <3>2
            <6>4. k > Threshold - failures'
              BY <3>3
            <6>5. k + 1 > Threshold - failures
              BY <3>2, <6>1, <6>2, <6>3, <6>4, NextInRange
            <6>6. k + 1 \in 1 .. Threshold
              BY <6>1
            <6> QED BY <2>2, <6>5, <6>6
          <5>2. outcomes'[k] = outcomes[k + 1]
            BY <1>1, <3>1, <5>1
          <5> QED BY <1>4, <5>1, <5>2
        <4> QED BY <4>1, <4>2
      <3>4. DOMAIN outcomes' = 1 .. Threshold
        BY <1>3, <3>1 DEF BreakerTypeOK
      <3> QED BY <3>1, <3>2, <3>3, <3>4 DEF Trailing
    <2> QED BY <1>1, <2>1, <2>2 DEF BreakerInv, BreakerTypeOK
  <1>6. (left > 0 => failures = Threshold)'
    BY <1>1, <1>2 DEF BreakerInv
  <1> QED BY <1>3, <1>5, <1>6 DEF BreakerInv

LEMMA BreakerStart == ASSUME BreakerAssumption, BreakerInit PROVE BreakerInv
  BY DEF BreakerAssumption, BreakerInit, BreakerInv, BreakerTypeOK, Trailing

\* Every step keeps the invariant.
LEMMA BreakerStep ==
    ASSUME BreakerAssumption, BreakerInv, [BreakerNext]_breakerVars
    PROVE  BreakerInv'
  <1>1. CASE UNCHANGED breakerVars
    BY <1>1 DEF breakerVars, BreakerInv, BreakerTypeOK, Trailing
  <1>2. CASE Elapse
    BY <1>2 DEF Elapse, BreakerInv, BreakerTypeOK, Trailing, BreakerAssumption
  <1>3. ASSUME NEW c \in Callers, CallProvider(c) PROVE BreakerInv'
    BY <1>3 DEF CallProvider, BreakerInv, BreakerTypeOK, Trailing
  <1>4. ASSUME NEW c \in Callers, Answered(c) PROVE BreakerInv'
    <2>1. calling' \subseteq Callers
      BY <1>4 DEF Answered, BreakerInv, BreakerTypeOK
    <2> QED BY <1>4, <2>1, SuccessKeeps DEF Answered
  <1>5. ASSUME NEW c \in Callers, Failed(c) PROVE BreakerInv'
    <2>1. calling' \subseteq Callers
      BY <1>5 DEF Failed, BreakerInv, BreakerTypeOK
    <2> QED BY <1>5, <2>1, FailureKeeps DEF Failed
  <1> QED BY <1>1, <1>2, <1>3, <1>4, <1>5 DEF BreakerNext, Ends

LEMMA BreakerInvariant == BreakerSpec => []BreakerInv
  <1>1. BreakerInit => BreakerInv
    BY BreakerStart, BreakerAssumption
  <1>2. BreakerInv /\ [BreakerNext]_breakerVars => BreakerInv'
    BY BreakerStep, BreakerAssumption
  <1> QED BY <1>1, <1>2, PTL DEF BreakerSpec

\* The variables of the circuit have their types in every behaviour.
THEOREM BreakerTypeCorrect == BreakerSpec => []BreakerTypeOK
  <1>1. BreakerInv => BreakerTypeOK
    BY DEF BreakerInv
  <1> QED BY <1>1, BreakerInvariant, PTL

\* The circuit of _CircuitState is open only after as many failures in a row as the
\* threshold says, for any number of callers and in any order of their outcomes.
THEOREM TripNeedsRunCorrect == BreakerSpec => []TripNeedsRun
  <1>1. BreakerInv => TripNeedsRun
    <2> SUFFICES ASSUME BreakerInv, left > 0
                 PROVE  Len(outcomes) = Threshold /\ \A k \in DOMAIN outcomes : outcomes[k] = "failure"
      BY DEF TripNeedsRun
    <2>1. /\ failures = Threshold /\ Len(outcomes) \in Nat
          /\ Threshold <= Len(outcomes) /\ Len(outcomes) <= Threshold
          /\ DOMAIN outcomes = 1 .. Len(outcomes)
      <3>1. outcomes \in Seq(Outcome) /\ Len(outcomes) <= Threshold /\ failures <= Len(outcomes)
        BY DEF BreakerInv, BreakerTypeOK, Trailing
      <3>2. failures = Threshold
        BY DEF BreakerInv
      <3> QED BY <3>1, <3>2
    <2>2. Len(outcomes) = Threshold
      <3>1. Threshold \in Nat
        BY BreakerAssumption DEF BreakerAssumption
      <3>2. Threshold \in Int /\ Len(outcomes) \in Int
        BY <2>1, <3>1
      <3> QED BY <2>1, <3>2, SameBound
    <2>3. \A k \in DOMAIN outcomes : outcomes[k] = "failure"
      BY <2>1, <2>2, BreakerAssumption DEF BreakerInv, Trailing, BreakerAssumption
    <2> QED BY <2>2, <2>3
  <1> QED BY <1>1, BreakerInvariant, PTL

-----------------------------------------------------------------------------
(* The login limiter.  A request that has counted one failure too many is  *)
(* on its way to set the block, and until the block stands it makes up for *)
(* the excess; once it does, the failures and the passwords still being    *)
(* verified are no more than the requests that came in before it, and the  *)
(* block outlives the counter that earned it (Counted).                    *)

\* The requests at a place.
There(places) == {r \in Requests : doing[r] \in places}

\* Between the two commands of a new counter.
Timing == There({"time_try"})

\* Past the check of the block, with a password to be verified.
Verifying == There({"verify"})

\* Those that have counted to the limit and will set the block.
Blocking == There(IF MaxAttempts = 1 THEN {"block", "time_try"} ELSE {"block"})

\* The counter has an expiry, or somebody will give it one.
Live == attempts.left > 0 \/ (attempts.count > 0 /\ Timing # {})

\* The block outlives the counter.
InForce == IF Timing = {} THEN blocked >= attempts.left ELSE blocked >= Window

Limit == MaxAttempts - 1 + outages

Counted ==
    Live => \/ attempts.count <= Limit + Cardinality(Blocking)
            \/ InForce /\ attempts.count + Cardinality(Verifying) <= Limit + Cardinality(Requests)

LimitInv ==
    /\ RateLimitTypeOK
    /\ (attempts.count = 0 => attempts.left = 0)
    /\ Counted

USE RateLimitAssumption

LEMMA LimitStart == RateLimitInit => LimitInv
  <1> SUFFICES ASSUME RateLimitInit PROVE LimitInv
    OBVIOUS
  <1>1. TopHits \in Nat /\ TopTries \in Nat
    BY FS_CardinalityType DEF TopHits, TopTries, RateLimitAssumption
  <1>2. RateLimitTypeOK
    BY <1>1 DEF RateLimitInit, RateLimitTypeOK, NoKey, RateLimitAssumption
  <1>3. ~Live
    BY DEF RateLimitInit, NoKey, Live
  <1> QED BY <1>2, <1>3 DEF LimitInv, Counted, RateLimitInit, NoKey

\* A request goes to another place.
LEMMA Moved ==
    ASSUME RateLimitTypeOK, NEW r \in Requests, NEW there, Goto(r, there), NEW places
    PROVE  There(places)' = IF there \in places THEN There(places) \cup {r} ELSE There(places) \ {r}
  BY DEF There, Goto, RateLimitTypeOK

LEMMA Sized ==
    ASSUME NEW places
    PROVE  /\ IsFiniteSet(There(places)) /\ Cardinality(There(places)) \in Nat
           /\ Cardinality(There(places)) <= Cardinality(Requests)
           /\ Cardinality(Requests) \in Nat
  <1>1. There(places) \in SUBSET Requests
    BY DEF There
  <1> QED BY <1>1, FS_Subset, FS_CardinalityType DEF RateLimitAssumption

\* What the move of a request makes of the number of those at a place.
LEMMA MovedSize ==
    ASSUME RateLimitTypeOK, NEW r \in Requests, NEW there, Goto(r, there), NEW places
    PROVE  Cardinality(There(places)') =
              Cardinality(There(places)) + (IF there \in places THEN 1 ELSE 0)
                                         - (IF doing[r] \in places THEN 1 ELSE 0)
  <1> DEFINE S == There(places)
  <1>1. r \in S <=> doing[r] \in places
    BY DEF There
  <1>2. IsFiniteSet(S) /\ Cardinality(S) \in Nat
    BY Sized
  <1>3. CASE there \in places
    <2>1. There(places)' = S \cup {r}
      BY <1>3, Moved
    <2>2. Cardinality(S \cup {r}) = IF r \in S THEN Cardinality(S) ELSE Cardinality(S) + 1
      BY <1>2, FS_AddElement
    <2> QED BY <1>1, <1>2, <1>3, <2>1, <2>2
  <1>4. CASE there \notin places
    <2>1. There(places)' = S \ {r}
      BY <1>4, Moved
    <2>2. Cardinality(S \ {r}) = IF r \in S THEN Cardinality(S) - 1 ELSE Cardinality(S)
      BY <1>2, FS_RemoveElement
    <2> QED BY <1>1, <1>2, <1>4, <2>1, <2>2
  <1> QED BY <1>3, <1>4

-----------------------------------------------------------------------------
\* Types.

LEMMA Tops ==
    /\ TopHits \in Nat /\ TopHits >= 2
    /\ TopTries \in Nat /\ TopTries >= 1
  BY FS_CardinalityType DEF TopHits, TopTries

LEMMA KeyTypes ==
    ASSUME NEW top \in Nat, top >= 1, NEW key \in [count : 0 .. top, left : 0 .. Window]
    PROVE  /\ Incr(key, top) \in [count : 0 .. top, left : 0 .. Window]
           /\ Expire(key) \in [count : 0 .. top, left : 0 .. Window]
           /\ Aged(key) \in [count : 0 .. top, left : 0 .. Window]
  BY DEF Incr, Expire, Aged, NoKey

\* Every step keeps the types.
LEMMA LimitTypes ==
    ASSUME RateLimitTypeOK, [RateLimitNext]_limitVars
    PROVE  RateLimitTypeOK'
  <1> USE DEF RateLimitTypeOK
  <1>1. /\ hits \in [count : 0 .. TopHits, left : 0 .. Window]
        /\ attempts \in [count : 0 .. TopTries, left : 0 .. Window]
    OBVIOUS
  <1>2. ASSUME NEW r \in Requests, NEW there \in {"out", "time", "login", "verify", "time_try", "block"},
               Goto(r, there)
        PROVE  doing' \in [Requests -> {"out", "time", "login", "verify", "time_try", "block"}]
    BY <1>2 DEF Goto
  <1>3. ASSUME NEW r \in Requests, Passes(r)
        PROVE  doing' \in [Requests -> {"out", "time", "login", "verify", "time_try", "block"}]
    BY <1>2, <1>3 DEF Passes
  <1>4. CASE UNCHANGED limitVars
    BY <1>4 DEF limitVars
  <1>5. CASE Tick
    <2>1. hits' = Aged(hits) /\ attempts' = Aged(attempts)
      BY <1>5 DEF Tick
    <2> QED BY <1>5, <2>1, <1>1, Tops, KeyTypes DEF Tick
  <1>6. ASSUME NEW r \in Requests, Arrive(r) PROVE RateLimitTypeOK'
    <2>1. hits' = Incr(hits, TopHits)
      BY <1>6 DEF Arrive
    <2> QED BY <1>6, <1>1, <1>2, <1>3, <2>1, Tops, KeyTypes DEF Arrive
  <1>7. ASSUME NEW r \in Requests, Time(r) PROVE RateLimitTypeOK'
    <2>1. hits' = Expire(hits)
      BY <1>7 DEF Time
    <2> QED BY <1>7, <1>1, <1>3, <2>1, Tops, KeyTypes DEF Time
  <1>8. ASSUME NEW r \in Requests, IsBlocked(r) PROVE RateLimitTypeOK'
    BY <1>8, <1>2 DEF IsBlocked
  <1>9. ASSUME NEW r \in Requests, WrongPassword(r) PROVE RateLimitTypeOK'
    <2>1. attempts' = Incr(attempts, TopTries)
      BY <1>9 DEF WrongPassword
    <2> QED BY <1>9, <1>1, <1>2, <2>1, Tops, KeyTypes DEF WrongPassword, Recorded
  <1>10. ASSUME NEW r \in Requests, TimeAttempts(r) PROVE RateLimitTypeOK'
    <2>1. attempts' = Expire(attempts)
      BY <1>10 DEF TimeAttempts
    <2> QED BY <1>10, <1>1, <1>2, <2>1, Tops, KeyTypes DEF TimeAttempts, Recorded
  <1>11. ASSUME NEW r \in Requests, Block(r) PROVE RateLimitTypeOK'
    BY <1>11, <1>2 DEF Block
  <1>12. ASSUME NEW r \in Requests, LoggedIn(r) PROVE RateLimitTypeOK'
    BY <1>12, <1>2, Tops DEF LoggedIn, NoKey
  <1>13. ASSUME NEW r \in Requests, Disabled(r) PROVE RateLimitTypeOK'
    BY <1>13, <1>2 DEF Disabled
  <1>14. ASSUME NEW r \in Requests, Outage(r) PROVE RateLimitTypeOK'
    <2>1. outages' \in 0 .. MaxOutages
      BY <1>14 DEF Outage
    <2>2. doing' \in [Requests -> {"out", "time", "login", "verify", "time_try", "block"}]
      BY <1>14, <1>2, <1>3 DEF Outage
    <2> QED BY <1>14, <2>1, <2>2 DEF Outage
  <1> QED BY <1>4, <1>5, <1>6, <1>7, <1>8, <1>9, <1>10, <1>11, <1>12, <1>13, <1>14
          DEF RateLimitNext, RequestMoves

-----------------------------------------------------------------------------
\* The counters of a request that moves.
LEMMA Sizes ==
    ASSUME RateLimitTypeOK, NEW r \in Requests, NEW there, Goto(r, there)
    PROVE  /\ Cardinality(Blocking)' =
                Cardinality(Blocking) + (IF there = "block" \/ (MaxAttempts = 1 /\ there = "time_try") THEN 1 ELSE 0)
                    - (IF doing[r] = "block" \/ (MaxAttempts = 1 /\ doing[r] = "time_try") THEN 1 ELSE 0)
           /\ Cardinality(Verifying)' =
                Cardinality(Verifying) + (IF there = "verify" THEN 1 ELSE 0)
                                       - (IF doing[r] = "verify" THEN 1 ELSE 0)
           /\ Timing' = IF there = "time_try" THEN Timing \cup {r} ELSE Timing \ {r}
           /\ r \in Timing <=> doing[r] = "time_try"
  <1>1. ASSUME NEW places
        PROVE  Cardinality(There(places)') =
                  Cardinality(There(places)) + (IF there \in places THEN 1 ELSE 0)
                                             - (IF doing[r] \in places THEN 1 ELSE 0)
    BY MovedSize
  <1>2. Timing' = IF there = "time_try" THEN Timing \cup {r} ELSE Timing \ {r}
    BY Moved DEF Timing
  <1>3. r \in Timing <=> doing[r] = "time_try"
    BY DEF Timing, There
  <1>4. Cardinality(Verifying)' = Cardinality(Verifying) + (IF there = "verify" THEN 1 ELSE 0)
                                       - (IF doing[r] = "verify" THEN 1 ELSE 0)
    BY <1>1 DEF Verifying
  <1>5. Cardinality(Blocking)' =
                Cardinality(Blocking) + (IF there = "block" \/ (MaxAttempts = 1 /\ there = "time_try") THEN 1 ELSE 0)
                    - (IF doing[r] = "block" \/ (MaxAttempts = 1 /\ doing[r] = "time_try") THEN 1 ELSE 0)
    <2>1. CASE MaxAttempts = 1
      <3>1. Blocking = There({"block", "time_try"}) /\ Blocking' = There({"block", "time_try"})'
        BY <2>1 DEF Blocking
      <3> QED BY <1>1, <2>1, <3>1
    <2>2. CASE MaxAttempts # 1
      <3>1. Blocking = There({"block"}) /\ Blocking' = There({"block"})'
        BY <2>2 DEF Blocking
      <3> QED BY <1>1, <2>2, <3>1
    <2> QED BY <2>1, <2>2
  <1> QED BY <1>2, <1>3, <1>4, <1>5

LEMMA Numbers ==
    ASSUME RateLimitTypeOK
    PROVE  /\ attempts.count \in Nat /\ attempts.left \in Nat /\ attempts.left <= Window
           /\ blocked \in Nat /\ outages \in Nat /\ Limit \in Nat
           /\ Cardinality(Blocking) \in Nat /\ Cardinality(Verifying) \in Nat
           /\ Cardinality(Requests) \in Nat /\ Cardinality(Blocking) <= Cardinality(Requests)
           /\ MaxAttempts \in Nat /\ MaxAttempts >= 1
           /\ Window \in Nat /\ Window >= 1 /\ BlockTime \in Nat /\ BlockTime >= Window
  <1>1. /\ Cardinality(Blocking) \in Nat /\ Cardinality(Verifying) \in Nat
        /\ Cardinality(Requests) \in Nat /\ Cardinality(Blocking) <= Cardinality(Requests)
    BY Sized DEF Blocking, Verifying
  <1>2. /\ attempts.count \in Nat /\ attempts.left \in Nat /\ attempts.left <= Window
        /\ blocked \in Nat /\ outages \in Nat
    <2>1. attempts \in [count : 0 .. TopTries, left : 0 .. Window]
      BY DEF RateLimitTypeOK
    <2>2. blocked \in 0 .. BlockTime /\ outages \in 0 .. MaxOutages
      BY DEF RateLimitTypeOK
    <2> QED BY <2>1, <2>2, Tops
  <1>3. Limit \in Nat
    BY <1>2 DEF Limit
  <1> QED BY <1>1, <1>2, <1>3

\* A request that will block has no password to be verified.
LEMMA Disjoint ==
    ASSUME RateLimitTypeOK
    PROVE  Cardinality(Blocking) + Cardinality(Verifying) <= Cardinality(Requests)
  <1>1. Blocking \cup Verifying \in SUBSET Requests /\ Blocking \cap Verifying = {}
    BY DEF Blocking, Verifying, There
  <1>2. IsFiniteSet(Blocking) /\ IsFiniteSet(Verifying)
    BY Sized DEF Blocking, Verifying
  <1>3. Cardinality(Blocking \cup Verifying) =
            Cardinality(Blocking) + Cardinality(Verifying) - Cardinality(Blocking \cap Verifying)
    BY <1>2, FS_Union
  <1>4. Cardinality(Blocking \cup Verifying) <= Cardinality(Requests)
    BY <1>1, FS_Subset
  <1>5. Cardinality(Blocking \cap Verifying) = 0
    BY <1>1, FS_EmptySet
  <1> QED BY <1>3, <1>4, <1>5, Numbers

\* A step that touches neither the counter of attempts nor the block, and after which no
\* more requests have passed the check than before, or one more and one more outage.
LEMMA Quiet ==
    ASSUME LimitInv, NEW r \in Requests, NEW there, Goto(r, there),
           doing[r] # "time_try" \/ outages' = outages + 1, there # "time_try",
           there # "block", UNCHANGED <<attempts, blocked>>,
           \/ outages' = outages /\ (there = "verify" => doing[r] = "verify")
                                 /\ doing[r] # "block"
           \/ outages' = outages + 1
    PROVE  Counted'
  <1>1. RateLimitTypeOK
    BY DEF LimitInv
  <1>2. Limit' = Limit + outages' - outages
    BY <1>1, Numbers DEF Limit
  <1>3. CASE ~Live'
    BY <1>3 DEF Counted
  <1>4. CASE Live'
    <2>1. Live
      BY <1>1, <1>4, Sizes DEF Live
    <2>2. CASE attempts.count <= Limit + Cardinality(Blocking)
      BY <1>1, <1>2, <2>2, Sizes, Numbers DEF Counted
    <2>3. CASE InForce /\ attempts.count + Cardinality(Verifying) <= Limit + Cardinality(Requests)
      <3>1. InForce'
        BY <1>1, <1>4, <2>3, Sizes, Numbers DEF InForce, Live
      <3> QED BY <1>1, <1>2, <2>3, <3>1, Sizes, Numbers DEF Counted
    <2> QED BY <2>1, <2>2, <2>3 DEF LimitInv, Counted
  <1> QED BY <1>3, <1>4

LEMMA WrongPasswordCounts ==
    ASSUME LimitInv, NEW r \in Requests, WrongPassword(r)
    PROVE  Counted'
  <1>1. RateLimitTypeOK
    BY DEF LimitInv
  <1>2. attempts' = Incr(attempts, TopTries) /\ UNCHANGED <<blocked, outages>> /\ doing[r] = "verify"
    BY DEF WrongPassword
  <1>3. /\ attempts'.count <= attempts.count + 1 /\ attempts'.left = attempts.left
        /\ attempts'.count \in Nat /\ (attempts.count = 0 => attempts'.count = 1)
        /\ (attempts'.count = 1 => attempts.count = 0)
    <2>1. attempts \in [count : 0 .. TopTries, left : 0 .. Window]
      BY <1>1 DEF RateLimitTypeOK
    <2>2. TopTries \in Nat /\ TopTries >= 1
      BY Tops
    <2>3. CASE attempts.count < TopTries
      <3>1. attempts' = [attempts EXCEPT !.count = attempts.count + 1]
        BY <1>2, <2>3 DEF Incr
      <3> QED BY <2>1, <2>2, <3>1
    <2>4. CASE ~(attempts.count < TopTries)
      <3>1. attempts' = [attempts EXCEPT !.count = TopTries]
        BY <1>2, <2>4 DEF Incr
      <3>2. attempts.count = TopTries
        BY <2>1, <2>2, <2>4
      <3>3. TopTries >= 2
        <4>1. Cardinality(Requests) # 0
          BY FS_EmptySet
        <4> QED BY <1>1, <4>1, Numbers DEF TopTries
      <3> QED BY <2>1, <2>2, <3>1, <3>2, <3>3
    <2> QED BY <2>3, <2>4
  <1>4. Limit' = Limit /\ Limit \in Nat
    BY <1>1, <1>2, Numbers DEF Limit
  <1>5. CASE attempts'.count = 1
    <2>1. Goto(r, "time_try")
      BY <1>5 DEF WrongPassword
    <2>2. Cardinality(Blocking)' = Cardinality(Blocking) + (IF MaxAttempts = 1 THEN 1 ELSE 0)
      BY <1>1, <1>2, <2>1, Sizes
    <2>3. attempts'.count <= Limit' + Cardinality(Blocking)'
      BY <1>1, <1>4, <1>5, <2>2, Numbers DEF Limit
    <2> QED BY <2>3 DEF Counted
  <1>6. CASE attempts'.count # 1
    <2>1. Goto(r, IF attempts'.count >= MaxAttempts THEN "block" ELSE "out")
      BY <1>6 DEF WrongPassword, Recorded
    <2>2. /\ Timing' = Timing /\ Cardinality(Verifying)' = Cardinality(Verifying) - 1
          /\ Cardinality(Blocking)' = Cardinality(Blocking)
                                        + (IF attempts'.count >= MaxAttempts THEN 1 ELSE 0)
      BY <1>1, <1>2, <2>1, Sizes, Numbers
    <2>3. CASE ~(attempts'.count >= MaxAttempts)
      <3>1. attempts'.count <= Limit' + Cardinality(Blocking)'
        BY <1>1, <1>3, <1>4, <2>2, <2>3, Numbers DEF Limit
      <3> QED BY <3>1 DEF Counted
    <2>4. CASE ~Live
      <3>1. attempts'.left = 0 /\ Timing' = {}
        BY <1>1, <1>3, <1>6, <2>2, <2>4, Numbers DEF Live
      <3> QED BY <3>1 DEF Counted, Live
    <2>5. CASE attempts'.count >= MaxAttempts /\ attempts.count <= Limit + Cardinality(Blocking)
      <3>1. attempts'.count <= Limit' + Cardinality(Blocking)'
        BY <1>1, <1>3, <1>4, <2>2, <2>5, Numbers
      <3> QED BY <3>1 DEF Counted
    <2>6. CASE InForce /\ attempts.count + Cardinality(Verifying) <= Limit + Cardinality(Requests)
      <3>1. InForce'
        BY <1>2, <1>3, <2>2, <2>6 DEF InForce
      <3>2. attempts'.count + Cardinality(Verifying)' <= Limit' + Cardinality(Requests)
        BY <1>1, <1>3, <1>4, <2>2, <2>6, Numbers
      <3> QED BY <3>1, <3>2 DEF Counted
    <2> QED BY <2>3, <2>4, <2>5, <2>6 DEF LimitInv, Counted
  <1> QED BY <1>5, <1>6

\* The expiry comes no later than the end of the block: no tick has gone by since then.
LEMMA TimeAttemptsCounts ==
    ASSUME LimitInv, NEW r \in Requests, TimeAttempts(r)
    PROVE  Counted'
  <1>1. RateLimitTypeOK
    BY DEF LimitInv
  <1>2. attempts' = Expire(attempts) /\ UNCHANGED <<blocked, outages>> /\ doing[r] = "time_try"
        /\ Goto(r, IF 1 >= MaxAttempts THEN "block" ELSE "out")
    BY DEF TimeAttempts, Recorded
  <1>3. /\ Limit' = Limit /\ Timing' = Timing \ {r} /\ r \in Timing
        /\ Cardinality(Blocking)' = Cardinality(Blocking)
        /\ Cardinality(Verifying)' = Cardinality(Verifying)
    BY <1>1, <1>2, Sizes, Numbers DEF Limit
  <1>4. CASE attempts.count = 0
    <2>1. attempts'.left = 0 /\ attempts'.count = 0
      BY <1>2, <1>4 DEF Expire, LimitInv
    <2> QED BY <2>1 DEF Counted, Live
  <1>5. CASE attempts.count # 0
    <2>1. attempts'.count = attempts.count /\ attempts'.left = Window
      <3>1. attempts \in [count : 0 .. TopTries, left : 0 .. Window]
        BY <1>1 DEF RateLimitTypeOK
      <3> QED BY <1>2, <1>5, <3>1 DEF Expire
    <2>2. Live
      BY <1>1, <1>3, <1>5, Numbers DEF Live
    <2>3. InForce => InForce'
      BY <1>2, <1>3, <2>1 DEF InForce
    <2> QED BY <1>3, <2>1, <2>2, <2>3 DEF LimitInv, Counted
  <1> QED BY <1>4, <1>5

\* Whoever sets the block has counted, and the passwords that are still to be verified
\* are of the others.
LEMMA BlockCounts ==
    ASSUME LimitInv, NEW r \in Requests, Block(r)
    PROVE  Counted'
  <1>1. RateLimitTypeOK
    BY DEF LimitInv
  <1>2. blocked' = BlockTime /\ UNCHANGED <<attempts, outages>> /\ Goto(r, "out") /\ doing[r] = "block"
    BY DEF Block
  <1>3. Limit' = Limit /\ Timing' = Timing /\ Cardinality(Verifying)' = Cardinality(Verifying)
    BY <1>1, <1>2, Sizes, Numbers DEF Limit
  <1>4. InForce'
    BY <1>1, <1>2, <1>3, Numbers DEF InForce
  <1>5. Live' => Live
    BY <1>2, <1>3 DEF Live
  <1>6. Live => attempts.count + Cardinality(Verifying) <= Limit + Cardinality(Requests)
    BY <1>1, Numbers, Disjoint DEF LimitInv, Counted
  <1> QED BY <1>2, <1>3, <1>4, <1>5, <1>6 DEF Counted

LEMMA TickCounts ==
    ASSUME LimitInv, Tick
    PROVE  Counted'
  <1>1. RateLimitTypeOK
    BY DEF LimitInv
  <1>2. attempts' = Aged(attempts) /\ blocked' = (IF blocked > 0 THEN blocked - 1 ELSE 0)
        /\ UNCHANGED <<doing, outages>>
    BY DEF Tick
  <1>3. Timing = {} /\ Timing' = {}
    BY <1>2 DEF Tick, Timing, There
  <1>4. Limit' = Limit /\ Blocking' = Blocking /\ Verifying' = Verifying
    BY <1>2 DEF Limit, Blocking, Verifying, There
  <1>5. CASE attempts.left > 1
    <2>1. attempts'.count = attempts.count /\ attempts'.left = attempts.left - 1
      <3>1. attempts \in [count : 0 .. TopTries, left : 0 .. Window]
        BY <1>1 DEF RateLimitTypeOK
      <3>2. attempts' = [attempts EXCEPT !.left = attempts.left - 1]
        BY <1>1, <1>2, <1>5, Numbers DEF Aged
      <3> QED BY <3>1, <3>2
    <2>2. Live
      BY <1>1, <1>5, Numbers DEF Live
    <2>3. InForce => InForce'
      BY <1>1, <1>2, <1>3, <1>5, <2>1, Numbers DEF InForce
    <2> QED BY <1>4, <2>1, <2>2, <2>3 DEF LimitInv, Counted
  <1>6. CASE ~(attempts.left > 1)
    <2>1. attempts'.left = 0
      BY <1>1, <1>2, <1>6, Numbers DEF Aged, NoKey
    <2> QED BY <1>3, <2>1 DEF Counted, Live
  <1> QED BY <1>5, <1>6

\* Every step keeps the invariant.
LEMMA LimitStep ==
    ASSUME LimitInv, [RateLimitNext]_limitVars
    PROVE  LimitInv'
  <1>1. RateLimitTypeOK /\ RateLimitTypeOK'
    BY LimitTypes DEF LimitInv
  <1>2. (attempts.count = 0 => attempts.left = 0)'
    <2>1. attempts \in [count : 0 .. TopTries, left : 0 .. Window]
      BY <1>1 DEF RateLimitTypeOK
    <2>2. CASE UNCHANGED attempts
      BY <2>2 DEF LimitInv
    <2>3. CASE attempts' = Incr(attempts, TopTries)
      BY <2>1, <2>3, Tops DEF Incr
    <2>4. CASE attempts' = Expire(attempts)
      BY <2>1, <2>4 DEF Expire, LimitInv
    <2>5. CASE attempts' = Aged(attempts)
      BY <2>1, <2>5 DEF Aged, NoKey, LimitInv
    <2>6. CASE attempts' = NoKey
      BY <2>6 DEF NoKey
    <2> QED
      BY <2>2, <2>3, <2>4, <2>5, <2>6
         DEF RateLimitNext, RequestMoves, limitVars, Tick, Arrive, Time, IsBlocked, WrongPassword,
             TimeAttempts, Block, LoggedIn, Disabled, Outage
  <1>3. Counted'
    <2>1. CASE UNCHANGED limitVars
      BY <2>1 DEF LimitInv, limitVars, Counted, Live, InForce, Limit, Timing, Verifying, Blocking, There
    <2>2. CASE Tick
      BY <2>2, TickCounts
    <2>3. ASSUME NEW r \in Requests, Arrive(r) PROVE Counted'
      <3>1. PICK there \in {"time", "out", "login"} : Goto(r, there)
        BY <2>3 DEF Arrive, Passes
      <3> QED BY <2>3, <3>1, Quiet DEF Arrive
    <2>4. ASSUME NEW r \in Requests, Time(r) PROVE Counted'
      <3>1. PICK there \in {"out", "login"} : Goto(r, there)
        BY <2>4 DEF Time, Passes
      <3> QED BY <2>4, <3>1, Quiet DEF Time
    <2>5. ASSUME NEW r \in Requests, IsBlocked(r) PROVE Counted'
      <3>1. CASE blocked > 0
        BY <2>5, <3>1, Quiet DEF IsBlocked
      <3>2. CASE ~(blocked > 0)
        <4>1. Goto(r, "verify") /\ UNCHANGED <<attempts, blocked, outages>> /\ doing[r] = "login"
          BY <2>5, <3>2 DEF IsBlocked
        <4>2. Timing' = Timing /\ Limit' = Limit /\ Cardinality(Blocking)' = Cardinality(Blocking)
          BY <1>1, <4>1, Sizes, Numbers DEF Limit
        <4>3. Live => ~InForce
          BY <1>1, <3>2, Numbers DEF Live, InForce
        <4> QED BY <4>1, <4>2, <4>3 DEF Counted, LimitInv, Live
      <3> QED BY <3>1, <3>2
    <2>6. ASSUME NEW r \in Requests, WrongPassword(r) PROVE Counted'
      BY <2>6, WrongPasswordCounts
    <2>7. ASSUME NEW r \in Requests, TimeAttempts(r) PROVE Counted'
      BY <2>7, TimeAttemptsCounts
    <2>8. ASSUME NEW r \in Requests, Block(r) PROVE Counted'
      BY <2>8, BlockCounts
    <2>9. ASSUME NEW r \in Requests, LoggedIn(r) PROVE Counted'
      BY <2>9 DEF LoggedIn, NoKey, Counted, Live
    <2>10. ASSUME NEW r \in Requests, Disabled(r) PROVE Counted'
      BY <2>10, Quiet DEF Disabled
    <2>11. ASSUME NEW r \in Requests, Outage(r) PROVE Counted'
      <3>1. PICK there \in {"out", "login", "verify"} : Goto(r, there)
        BY <2>11 DEF Outage, Passes
      <3> QED BY <2>11, <3>1, Quiet DEF Outage
    <2> QED BY <2>1, <2>2, <2>3, <2>4, <2>5, <2>6, <2>7, <2>8, <2>9, <2>10, <2>11
            DEF RateLimitNext, RequestMoves
  <1> QED BY <1>1, <1>2, <1>3 DEF LimitInv

LEMMA LimitInvariant == RateLimitSpec => []LimitInv
  <1>1. LimitInv /\ [RateLimitNext]_limitVars => LimitInv'
    BY LimitStep
  <1> QED BY <1>1, LimitStart, PTL DEF RateLimitSpec

\* The limiters' keys, ticks and requests have their types in every behaviour.
THEOREM LimiterTypeCorrect == RateLimitSpec => []RateLimitTypeOK
  <1>1. LimitInv => RateLimitTypeOK
    BY DEF LimitInv
  <1> QED BY <1>1, LimitInvariant, PTL

\* is_blocked, record_attempt and reset of the login limiter: for any limit, window and
\* block that outlives it, any number of requests and any commands that fail, one window
\* lets no more wrong passwords be tried than the limit and those already past the check.
THEOREM GuessesCorrect == RateLimitSpec => []GuessesBounded
  <1>1. LimitInv => GuessesBounded
    <2> SUFFICES ASSUME LimitInv, attempts.left > 0
                 PROVE  attempts.count < MaxAttempts + Cardinality(Requests) + outages
      BY DEF GuessesBounded
    <2>1. RateLimitTypeOK /\ Live
      BY DEF LimitInv, Live
    <2> QED BY <2>1, Numbers DEF LimitInv, Counted, Limit
  <1> QED BY <1>1, LimitInvariant, PTL

-----------------------------------------------------------------------------
(* RuntimeSettings.  A setting is Current if it was saved and not          *)
(* overtaken.  The invariant says that whoever has read the table has the  *)
(* current settings right: what a load has read, and the copy that an      *)
(* update will save, which is the copy from before its change as long as   *)
(* the lock is held (Base).                                                *)

Current(f) == f \notin overtaken /\ wanted[f] # Unset

\* The copy of a process without the change of the update that holds its lock.
Base(p) == IF locked[p] = Unset THEN memory[p] ELSE task[locked[p]].old

LockInv(p) ==
    locked[p] # Unset =>
        /\ task[locked[p]] \in Task
        /\ task[locked[p]].at = "persist" /\ task[locked[p]].on = p

ReadIsSaved(k) == \A f \in Fields : k.read[f] # Unset => k.read[f] \in saved[f]
ReadIsCurrent(k) == \A f \in Fields : Current(f) => k.read[f] = stored[f]
BaseIsCurrent(p) == \A f \in Fields : Current(f) => Base(p)[f] = stored[f]
OldIsSaved(k) == \A f \in Fields : k.old[f] \in saved[f] \cup {Default}

TaskInv(t) ==
    task[t] \in Task =>
        /\ ReadIsSaved(task[t])
        /\ task[t].at = "load" => ReadIsCurrent(task[t])
        /\ task[t].at \in {"change", "persist"} => BaseIsCurrent(task[t].on)
        /\ task[t].at = "persist" =>
              /\ locked[task[t].on] = t
              /\ memory[task[t].on] = [task[t].old EXCEPT ![task[t].field] = task[t].value]
              /\ OldIsSaved(task[t])

StoredIsSaved == \A f \in Fields : stored[f] # Unset => stored[f] \in saved[f]

SettingsInv ==
    /\ SettingsTypeOK
    /\ \A p \in Processes : LockInv(p)
    /\ \A t \in Tasks : TaskInv(t)
    /\ StoredIsSaved
    /\ UpdatesSurvive
    /\ OnlySavedSettings

-----------------------------------------------------------------------------
\* Values.

LEMMA EmptyType ==
    ASSUME SettingsAssumption
    PROVE  /\ Empty \in Table /\ \A f \in Fields : Empty[f] = Unset
           /\ Defaults \in Copy /\ \A f \in Fields : Defaults[f] = Default
  BY DEF SettingsAssumption, Empty, Defaults, Table, Copy

LEMMA LoadedType ==
    ASSUME NEW copy \in Copy, NEW table \in Table
    PROVE  /\ Loaded(copy, table) \in Copy
           /\ \A f \in Fields : Loaded(copy, table)[f] =
                                  IF table[f] = Unset THEN copy[f] ELSE table[f]
  BY DEF Copy, Table, Loaded

LEMMA AtType ==
    ASSUME SettingsTypeOK, NEW t \in Tasks, NEW here, TaskAt(t, here)
    PROVE  /\ task[t] \in Task /\ task[t].at = here
           /\ task[t].on \in Processes /\ task[t].field \in Fields
           /\ task[t].value \in Values /\ task[t].read \in Table /\ task[t].old \in Copy
           /\ task[t].update \in BOOLEAN
  BY DEF SettingsTypeOK, TaskAt, Task

-----------------------------------------------------------------------------
\* A step that changes neither the table nor what is said of it.
LEMMA NobodyMoves ==
    ASSUME SettingsInv, UNCHANGED <<stored, historyVars>>, SettingsTypeOK',
           \A p \in Processes : LockInv(p)', \A t \in Tasks : TaskInv(t)', OnlySavedSettings'
    PROVE  SettingsInv'
  BY DEF SettingsInv, historyVars, StoredIsSaved, UpdatesSurvive

\* A step of one task that neither holds a lock nor gets one.
LEMMA OneTask ==
    ASSUME SettingsInv, UnsetAssumption, NEW t \in Tasks, NEW k \in Task \cup {Unset},
           task' = [task EXCEPT ![t] = k],
           UNCHANGED <<stored, memory, locked, historyVars>>,
           task[t] \in Task => task[t].at # "persist",
           k \in Task => k.at \in {"read", "load", "change"},
           k \in Task => ReadIsSaved(k),
           k \in Task /\ k.at = "load" => ReadIsCurrent(k),
           k \in Task /\ k.at = "change" => BaseIsCurrent(k.on) /\ k.on \in Processes,
           updates' \in 0 .. MaxUpdates, trouble' \in 0 .. MaxTrouble
    PROVE  SettingsInv'
  <1>1. SettingsTypeOK'
    BY DEF SettingsInv, SettingsTypeOK, historyVars
  <1>2. /\ task'[t] = k
        /\ \A u \in Tasks : u # t => task'[u] = task[u]
    BY DEF SettingsInv, SettingsTypeOK
  <1>3. ASSUME NEW p \in Processes
        PROVE  LockInv(p)' /\ Base(p)' = Base(p)
    <2>1. LockInv(p) /\ locked' = locked /\ memory' = memory /\ locked[p] \in Tasks \cup {Unset}
      BY DEF SettingsInv, SettingsTypeOK
    <2>2. CASE locked[p] = Unset
      BY <2>1, <2>2 DEF LockInv, Base
    <2>3. CASE locked[p] # Unset
      <3>1. locked[p] # t /\ task'[locked[p]] = task[locked[p]]
        BY <1>2, <2>1, <2>3 DEF LockInv
      <3> QED BY <2>1, <2>3, <3>1 DEF LockInv, Base
    <2> QED BY <2>2, <2>3
  <1>4. \A f \in Fields : Current(f)' = Current(f)
    BY DEF historyVars, Current
  <1>5. ASSUME NEW p \in Processes, BaseIsCurrent(p) PROVE BaseIsCurrent(p)'
    <2>1. Base(p)' = Base(p) /\ stored' = stored
      BY <1>3
    <2> QED BY <1>4, <1>5, <2>1 DEF BaseIsCurrent
  <1>6. ASSUME NEW u \in Tasks PROVE TaskInv(u)'
    <2>1. CASE u = t
      <3> SUFFICES ASSUME k \in Task
                   PROVE  /\ ReadIsSaved(k)'
                          /\ k.at = "load" => ReadIsCurrent(k)'
                          /\ k.at = "change" => BaseIsCurrent(k.on)'
                          /\ k.at \in {"read", "load", "change"}
        BY <1>2, <2>1 DEF TaskInv, ReadIsSaved, ReadIsCurrent, BaseIsCurrent, Base
      <3>1. ReadIsSaved(k)'
        BY DEF ReadIsSaved, historyVars
      <3>2. k.at = "load" => ReadIsCurrent(k)'
        BY <1>4 DEF ReadIsCurrent
      <3>3. k.at = "change" => BaseIsCurrent(k.on)'
        BY <1>5
      <3> QED BY <3>1, <3>2, <3>3
    <2>2. CASE u # t
      <3> SUFFICES ASSUME task[u] \in Task PROVE TaskInv(u)'
        BY <1>2, <2>2 DEF TaskInv
      <3>1. TaskInv(u) /\ task'[u] = task[u] /\ task[u].on \in Processes
        BY <1>2, <2>2 DEF SettingsInv, Task
      <3>2. BaseIsCurrent(task[u].on) => BaseIsCurrent(task[u].on)'
        BY <1>5, <3>1
      <3>3. ReadIsSaved(task[u])' = ReadIsSaved(task[u])
        BY <3>1 DEF ReadIsSaved, historyVars
      <3>4. ReadIsCurrent(task[u])' = ReadIsCurrent(task[u])
        BY <1>4, <3>1 DEF ReadIsCurrent
      <3>5. OldIsSaved(task[u])' = OldIsSaved(task[u])
        BY <3>1 DEF OldIsSaved, historyVars
      <3> QED BY <3>1, <3>2, <3>3, <3>4, <3>5 DEF TaskInv
    <2> QED BY <2>1, <2>2
  <1>7. OnlySavedSettings'
    BY DEF SettingsInv, OnlySavedSettings, historyVars
  <1> QED BY <1>1, <1>3, <1>6, <1>7, NobodyMoves

-----------------------------------------------------------------------------
\* The actions.

LEMMA NewType ==
    ASSUME SettingsAssumption, NEW at \in {"read"}, NEW p \in Processes, NEW update \in BOOLEAN,
           NEW f \in Fields, NEW v \in Values
    PROVE  LET k == [at |-> at, on |-> p, update |-> update, field |-> f, value |-> v,
                     read |-> Empty, old |-> Defaults]
           IN  k \in Task /\ k.at = "read" /\ ReadIsSaved(k)
  <1> DEFINE k == [at |-> at, on |-> p, update |-> update, field |-> f, value |-> v,
                   read |-> Empty, old |-> Defaults]
  <1>1. k \in Task
    BY EmptyType DEF Task
  <1>2. ReadIsSaved(k)
    BY EmptyType DEF ReadIsSaved
  <1> QED BY <1>1, <1>2

LEMMA BeginKeeps ==
    ASSUME SettingsInv, SettingsAssumption, UnsetAssumption, NEW t \in Tasks,
           BeginLoad(t) \/ BeginUpdate(t)
    PROVE  SettingsInv'
  <1>1. PICK p \in Processes, update \in BOOLEAN, f \in Fields, v \in Values :
          New(t, "read", p, update, f, v)
    <2>1. CASE BeginLoad(t)
      <3>1. (CHOOSE f \in Fields : TRUE) \in Fields /\ Default \in Values
        BY DEF SettingsAssumption
      <3> QED BY <2>1, <3>1 DEF BeginLoad
    <2>2. CASE BeginUpdate(t)
      BY <2>2 DEF BeginUpdate
    <2> QED BY <2>1, <2>2
  <1> DEFINE k == [at |-> "read", on |-> p, update |-> update, field |-> f, value |-> v,
                   read |-> Empty, old |-> Defaults]
  <1>2. k \in Task /\ k.at = "read" /\ ReadIsSaved(k)
    BY NewType
  <1>3. /\ task' = [task EXCEPT ![t] = k] /\ task[t] = Unset
        /\ UNCHANGED <<stored, memory, locked, historyVars, trouble>>
    BY <1>1 DEF BeginLoad, BeginUpdate, New
  <1>4. updates' \in 0 .. MaxUpdates
    <2>1. updates \in 0 .. MaxUpdates /\ MaxUpdates \in Nat
      BY DEF SettingsInv, SettingsTypeOK, SettingsAssumption
    <2>2. CASE BeginLoad(t)
      BY <2>1, <2>2 DEF BeginLoad
    <2>3. CASE BeginUpdate(t)
      <3>1. updates < MaxUpdates /\ updates' = updates + 1
        BY <2>3 DEF BeginUpdate
      <3>2. updates + 1 \in 0 .. MaxUpdates
        BY <2>1, <3>1
      <3> QED BY <3>1, <3>2
    <2> QED BY <2>2, <2>3
  <1>5. trouble' \in 0 .. MaxTrouble
    BY <1>3 DEF SettingsInv, SettingsTypeOK
  <1> HIDE DEF k
  <1> QED BY <1>2, <1>3, <1>4, <1>5, OneTask DEF UnsetAssumption

LEMMA ReadTableKeeps ==
    ASSUME SettingsInv, SettingsAssumption, UnsetAssumption, NEW t \in Tasks, ReadTable(t)
    PROVE  SettingsInv'
  <1> DEFINE k == [task[t] EXCEPT !.at = "load", !.read = stored]
  <1>1. task[t] \in Task /\ task[t].at = "read"
    BY AtType DEF ReadTable, SettingsInv
  <1>2. stored \in Table
    BY DEF SettingsInv, SettingsTypeOK
  <1>3. k \in Task /\ k.at = "load" /\ k.read = stored
    BY <1>1, <1>2 DEF Task
  <1>4. ReadIsSaved(k) /\ ReadIsCurrent(k)
    <2> HIDE DEF k
    <2> QED BY <1>3 DEF ReadIsSaved, ReadIsCurrent, SettingsInv, StoredIsSaved
  <1>5. /\ task' = [task EXCEPT ![t] = k]
        /\ UNCHANGED <<stored, memory, locked, historyVars, updates, trouble>>
    BY DEF ReadTable
  <1>6. updates' \in 0 .. MaxUpdates /\ trouble' \in 0 .. MaxTrouble
    BY <1>5 DEF SettingsInv, SettingsTypeOK
  <1> HIDE DEF k
  <1> QED BY <1>1, <1>3, <1>4, <1>5, <1>6, OneTask

LEMMA GivesUpKeeps ==
    ASSUME SettingsInv, SettingsAssumption, UnsetAssumption, NEW t \in Tasks,
           ReadFails(t) \/ Invalid(t)
    PROVE  SettingsInv'
  <1>1. task[t].at \in {"read", "change"}
    BY DEF ReadFails, Invalid, TaskAt
  <1>2. /\ task' = [task EXCEPT ![t] = Unset]
        /\ UNCHANGED <<stored, memory, locked, historyVars, updates>>
    BY DEF ReadFails, Invalid
  <1>3. updates' \in 0 .. MaxUpdates
    BY <1>2 DEF SettingsInv, SettingsTypeOK
  <1>4. trouble' \in 0 .. MaxTrouble
    BY DEF ReadFails, Invalid, Trouble, SettingsInv, SettingsTypeOK, SettingsAssumption
  <1> QED BY <1>1, <1>2, <1>3, <1>4, OneTask DEF UnsetAssumption

LEMMA LoadKeeps ==
    ASSUME SettingsInv, SettingsAssumption, UnsetAssumption, NEW t \in Tasks, Load(t)
    PROVE  SettingsInv'
  <1>1. PICK p \in Processes : p = task[t].on
    BY AtType DEF Load, SettingsInv
  <1> DEFINE copy == Loaded(memory[p], task[t].read)
  <1>2. /\ task[t] \in Task /\ task[t].at = "load" /\ task[t].read \in Table
        /\ task[t].update \in BOOLEAN
    BY AtType DEF Load, SettingsInv
  <1>3. PICK k \in Task \cup {Unset} :
          /\ task' = [task EXCEPT ![t] = k]
          /\ k \in Task => /\ k.at = "change" /\ k.on = p /\ ReadIsSaved(k)
    <2>1. CASE task[t].update
      <3> DEFINE k == [task[t] EXCEPT !.at = "change", !.read = Empty]
      <3>1. k \in Task /\ k.at = "change" /\ k.on = p /\ k.read = Empty
        BY <1>1, <1>2, EmptyType DEF Task
      <3>2. ReadIsSaved(k)
        <4> HIDE DEF k
        <4> QED BY <3>1, EmptyType DEF ReadIsSaved
      <3>3. task' = [task EXCEPT ![t] = k]
        BY <2>1 DEF Load
      <3> HIDE DEF k
      <3> QED BY <3>1, <3>2, <3>3
    <2>2. CASE ~task[t].update
      <3>1. task' = [task EXCEPT ![t] = Unset]
        BY <2>2 DEF Load
      <3> QED BY <3>1 DEF UnsetAssumption
    <2> QED BY <2>1, <2>2
  <1>4. /\ locked[p] = Unset /\ memory' = [memory EXCEPT ![p] = copy]
        /\ UNCHANGED <<stored, locked, historyVars, updates, trouble>>
    BY <1>1 DEF Load
  <1>5. memory[p] \in Copy
    BY DEF SettingsInv, SettingsTypeOK
  <1>6. /\ copy \in Copy
        /\ \A f \in Fields : copy[f] = IF task[t].read[f] = Unset THEN memory[p][f]
                                        ELSE task[t].read[f]
    BY <1>2, <1>5, LoadedType
  <1>7. ReadIsSaved(task[t]) /\ ReadIsCurrent(task[t])
    BY <1>2 DEF SettingsInv, TaskInv
  <1> HIDE DEF copy
  <1>8. SettingsTypeOK'
    BY <1>3, <1>4, <1>6 DEF SettingsInv, SettingsTypeOK, historyVars
  <1>9. /\ task'[t] = k /\ \A u \in Tasks : u # t => task'[u] = task[u]
        /\ memory'[p] = copy /\ \A q \in Processes : q # p => memory'[q] = memory[q]
    BY <1>3, <1>4 DEF SettingsInv, SettingsTypeOK
  <1>10. \A f \in Fields : Current(f)' = Current(f)
    BY <1>4 DEF historyVars, Current
  <1>11. \A f \in Fields : Current(f) => copy[f] = stored[f]
    <2> SUFFICES ASSUME NEW f \in Fields, Current(f) PROVE copy[f] = stored[f]
      OBVIOUS
    <2>1. stored[f] = wanted[f] /\ wanted[f] # Unset
      BY DEF SettingsInv, UpdatesSurvive, Current
    <2> QED BY <1>6, <1>7, <2>1 DEF ReadIsCurrent
  <1>12. ASSUME NEW q \in Processes PROVE LockInv(q)'
    <2>1. LockInv(q) /\ locked'[q] = locked[q] /\ locked[q] \in Tasks \cup {Unset}
      BY <1>4 DEF SettingsInv, SettingsTypeOK
    <2>2. CASE locked[q] = Unset
      BY <2>1, <2>2 DEF LockInv
    <2>3. CASE locked[q] # Unset
      <3>1. task'[locked[q]] = task[locked[q]]
        BY <1>2, <1>9, <2>1, <2>3 DEF LockInv
      <3> QED BY <2>1, <2>3, <3>1 DEF LockInv
    <2> QED BY <2>2, <2>3
  <1>13. BaseIsCurrent(p)'
    <2>1. Base(p)' = copy
      BY <1>4, <1>9 DEF Base
    <2> QED BY <1>4, <1>10, <1>11, <2>1 DEF BaseIsCurrent
  <1>14. ASSUME NEW q \in Processes, BaseIsCurrent(q) PROVE BaseIsCurrent(q)'
    <2>1. CASE q = p
      BY <1>13, <2>1
    <2>2. CASE q # p
      <3>1. LockInv(q) /\ locked' = locked /\ memory'[q] = memory[q] /\ locked[q] \in Tasks \cup {Unset}
        BY <1>4, <1>9, <2>2 DEF SettingsInv, SettingsTypeOK
      <3>2. Base(q)' = Base(q)
        <4>1. CASE locked[q] = Unset
          BY <3>1, <4>1 DEF Base
        <4>2. CASE locked[q] # Unset
          <5>1. task'[locked[q]] = task[locked[q]]
            BY <1>2, <1>9, <3>1, <4>2 DEF LockInv
          <5> QED BY <3>1, <4>2, <5>1 DEF Base
        <4> QED BY <4>1, <4>2
      <3> QED BY <1>4, <1>10, <1>14, <3>2 DEF BaseIsCurrent
    <2> QED BY <2>1, <2>2
  <1>15. ASSUME NEW u \in Tasks PROVE TaskInv(u)'
    <2>1. CASE u = t
      <3> SUFFICES ASSUME k \in Task PROVE TaskInv(u)'
        BY <1>9, <2>1 DEF TaskInv
      <3>1. task'[u] = k /\ k.at = "change" /\ k.on = p
        BY <1>3, <1>9, <2>1
      <3>2. ReadIsSaved(task[u])'
        BY <1>3, <1>4, <3>1 DEF ReadIsSaved, historyVars
      <3>3. BaseIsCurrent(task[u].on)'
        BY <1>13, <3>1 DEF BaseIsCurrent, Base
      <3> QED BY <3>1, <3>2, <3>3 DEF TaskInv
    <2>2. CASE u # t
      <3> SUFFICES ASSUME task[u] \in Task PROVE TaskInv(u)'
        BY <1>9, <2>2 DEF TaskInv
      <3>1. TaskInv(u) /\ task'[u] = task[u] /\ task[u].on \in Processes
        BY <1>9, <2>2 DEF SettingsInv, Task
      <3>2. BaseIsCurrent(task[u].on) => BaseIsCurrent(task[u].on)'
        <4>1. PICK q \in Processes : q = task[u].on
          BY <3>1
        <4>2. BaseIsCurrent(q) => BaseIsCurrent(q)'
          BY <1>14
        <4> QED BY <3>1, <4>1, <4>2 DEF BaseIsCurrent, Base
      <3>3. ReadIsSaved(task[u])' = ReadIsSaved(task[u])
        BY <1>4, <3>1 DEF ReadIsSaved, historyVars
      <3>4. ReadIsCurrent(task[u])' = ReadIsCurrent(task[u])
        BY <1>4, <1>10, <3>1 DEF ReadIsCurrent
      <3>5. OldIsSaved(task[u])' = OldIsSaved(task[u])
        BY <1>4, <3>1 DEF OldIsSaved, historyVars
      <3>6. task[u].at = "persist" => memory'[task[u].on] = memory[task[u].on]
        BY <1>4, <1>9, <3>1 DEF TaskInv, UnsetAssumption, SettingsAssumption
      <3> QED BY <1>4, <3>1, <3>2, <3>3, <3>4, <3>5, <3>6 DEF TaskInv
    <2> QED BY <2>1, <2>2
  <1>16. OnlySavedSettings'
    <2> SUFFICES ASSUME NEW q \in Processes, NEW f \in Fields, locked'[q] = Unset
                 PROVE  memory'[q][f] \in saved[f] \cup {Default}
      BY <1>4 DEF OnlySavedSettings, historyVars
    <2>1. memory[q][f] \in saved[f] \cup {Default}
      BY <1>4 DEF SettingsInv, OnlySavedSettings
    <2> QED BY <1>6, <1>7, <1>9, <2>1 DEF ReadIsSaved
  <1> QED BY <1>4, <1>8, <1>12, <1>15, <1>16, NobodyMoves

LEMMA ChangeCopyKeeps ==
    ASSUME SettingsInv, SettingsAssumption, UnsetAssumption, NEW t \in Tasks, ChangeCopy(t)
    PROVE  SettingsInv'
  <1>1. PICK p \in Processes : p = task[t].on
    BY AtType DEF ChangeCopy, SettingsInv
  <1> DEFINE k == [task[t] EXCEPT !.at = "persist", !.old = memory[p]]
             copy == [memory[p] EXCEPT ![task[t].field] = task[t].value]
  <1>2. /\ task[t] \in Task /\ task[t].at = "change"
        /\ task[t].field \in Fields /\ task[t].value \in Values
    BY AtType DEF ChangeCopy, SettingsInv
  <1>3. /\ locked[p] = Unset /\ locked' = [locked EXCEPT ![p] = t]
        /\ task' = [task EXCEPT ![t] = k]
        /\ memory' = [memory EXCEPT ![p] = copy]
        /\ UNCHANGED <<stored, historyVars, updates, trouble>>
    BY <1>1 DEF ChangeCopy
  <1>4. memory[p] \in Copy /\ copy \in Copy
    BY <1>2 DEF SettingsInv, SettingsTypeOK, Copy
  <1>5. /\ k \in Task /\ k.at = "persist" /\ k.on = p /\ k.old = memory[p]
        /\ k.read = task[t].read /\ k.field = task[t].field /\ k.value = task[t].value
    BY <1>1, <1>2, <1>4 DEF Task
  <1>6. t # Unset
    BY DEF SettingsAssumption
  <1>7. TaskInv(t) /\ BaseIsCurrent(p) /\ ReadIsSaved(task[t])
    BY <1>1, <1>2 DEF SettingsInv, TaskInv
  <1>8. copy = [k.old EXCEPT ![k.field] = k.value]
    BY <1>5
  <1> HIDE DEF k, copy
  <1>9. SettingsTypeOK'
    BY <1>3, <1>4, <1>5 DEF SettingsInv, SettingsTypeOK, historyVars
  <1>10. /\ task'[t] = k /\ \A u \in Tasks : u # t => task'[u] = task[u]
         /\ memory'[p] = copy /\ \A q \in Processes : q # p => memory'[q] = memory[q]
         /\ locked'[p] = t /\ \A q \in Processes : q # p => locked'[q] = locked[q]
    BY <1>3 DEF SettingsInv, SettingsTypeOK
  <1>11. \A f \in Fields : Current(f)' = Current(f)
    BY <1>3 DEF historyVars, Current
  <1>12. ASSUME NEW q \in Processes PROVE LockInv(q)' /\ Base(q)' = Base(q)
    <2>1. CASE q = p
      <3>1. locked'[q] = t /\ task'[t] = k /\ locked[q] = Unset
        BY <1>3, <1>10, <2>1
      <3> QED BY <1>5, <1>6, <2>1, <3>1 DEF LockInv, Base
    <2>2. CASE q # p
      <3>1. LockInv(q) /\ locked'[q] = locked[q] /\ memory'[q] = memory[q]
            /\ locked[q] \in Tasks \cup {Unset}
        BY <1>10, <2>2 DEF SettingsInv, SettingsTypeOK
      <3>2. CASE locked[q] = Unset
        BY <3>1, <3>2 DEF LockInv, Base
      <3>3. CASE locked[q] # Unset
        <4>1. task'[locked[q]] = task[locked[q]]
          BY <1>2, <1>10, <3>1, <3>3 DEF LockInv
        <4> QED BY <3>1, <3>3, <4>1 DEF LockInv, Base
      <3> QED BY <3>2, <3>3
    <2> QED BY <2>1, <2>2
  <1>13. ASSUME NEW q \in Processes, BaseIsCurrent(q) PROVE BaseIsCurrent(q)'
    <2>1. Base(q)' = Base(q) /\ stored' = stored
      BY <1>3, <1>12
    <2> QED BY <1>11, <1>13, <2>1 DEF BaseIsCurrent
  <1>14. ASSUME NEW u \in Tasks PROVE TaskInv(u)'
    <2>1. CASE u = t
      <3>1. task'[u] = k
        BY <1>10, <2>1
      <3>2. ReadIsSaved(task[u])'
        BY <1>3, <1>5, <1>7, <3>1 DEF ReadIsSaved, historyVars
      <3>3. BaseIsCurrent(task[u].on)'
        <4>1. BaseIsCurrent(p)'
          BY <1>7, <1>13
        <4> QED BY <1>5, <3>1, <4>1 DEF BaseIsCurrent, Base
      <3>4. OldIsSaved(task[u])'
        BY <1>3, <1>5, <3>1 DEF OldIsSaved, SettingsInv, OnlySavedSettings, historyVars
      <3>5. locked'[task'[u].on] = u
        BY <1>5, <1>10, <2>1, <3>1
      <3>6. memory'[task'[u].on] = [task'[u].old EXCEPT ![task'[u].field] = task'[u].value]
        BY <1>5, <1>8, <1>10, <3>1
      <3>7. task'[u].at = "persist"
        BY <1>5, <3>1
      <3> QED BY <3>2, <3>3, <3>4, <3>5, <3>6, <3>7 DEF TaskInv
    <2>2. CASE u # t
      <3> SUFFICES ASSUME task[u] \in Task PROVE TaskInv(u)'
        BY <1>10, <2>2 DEF TaskInv
      <3>1. TaskInv(u) /\ task'[u] = task[u] /\ task[u].on \in Processes
        BY <1>10, <2>2 DEF SettingsInv, Task
      <3>2. BaseIsCurrent(task[u].on) => BaseIsCurrent(task[u].on)'
        <4>1. PICK q \in Processes : q = task[u].on
          BY <3>1
        <4>2. BaseIsCurrent(q) => BaseIsCurrent(q)'
          BY <1>13
        <4> QED BY <3>1, <4>1, <4>2 DEF BaseIsCurrent, Base
      <3>3. ReadIsSaved(task[u])' = ReadIsSaved(task[u])
        BY <1>3, <3>1 DEF ReadIsSaved, historyVars
      <3>4. ReadIsCurrent(task[u])' = ReadIsCurrent(task[u])
        BY <1>3, <1>11, <3>1 DEF ReadIsCurrent
      <3>5. OldIsSaved(task[u])' = OldIsSaved(task[u])
        BY <1>3, <3>1 DEF OldIsSaved, historyVars
      <3>6. task[u].at = "persist" => task[u].on # p
        BY <1>3, <3>1 DEF TaskInv, SettingsAssumption
      <3> QED BY <1>10, <3>1, <3>2, <3>3, <3>4, <3>5, <3>6 DEF TaskInv
    <2> QED BY <2>1, <2>2
  <1>15. OnlySavedSettings'
    <2> SUFFICES ASSUME NEW q \in Processes, NEW f \in Fields, locked'[q] = Unset
                 PROVE  memory'[q][f] \in saved[f] \cup {Default}
      BY <1>3 DEF OnlySavedSettings, historyVars
    <2>1. q # p
      BY <1>6, <1>10
    <2> QED BY <1>10, <2>1 DEF SettingsInv, OnlySavedSettings
  <1> QED BY <1>3, <1>9, <1>12, <1>14, <1>15, NobodyMoves

\* The lock is given back by a task that ends, and everybody else is as before.
GivesBack(t, p, copy) ==
    /\ locked' = [locked EXCEPT ![p] = Unset] /\ task' = [task EXCEPT ![t] = Unset]
    /\ memory' = [memory EXCEPT ![p] = copy]

LEMMA LockGivenBack ==
    ASSUME SettingsInv, SettingsAssumption, UnsetAssumption, NEW t \in Tasks,
           TaskAt(t, "persist"), NEW p \in Processes, p = task[t].on,
           NEW copy \in Copy, GivesBack(t, p, copy)
    PROVE  /\ locked[p] = t
           /\ task'[t] = Unset /\ \A u \in Tasks : u # t => task'[u] = task[u]
           /\ Base(p)' = copy /\ locked'[p] = Unset /\ memory'[p] = copy
           /\ \A q \in Processes : q # p =>
                 /\ Base(q)' = Base(q) /\ locked'[q] = locked[q] /\ memory'[q] = memory[q]
           /\ \A q \in Processes : LockInv(q)'
  <1>1. task[t] \in Task /\ task[t].at = "persist"
    BY AtType DEF SettingsInv
  <1>2. locked[p] = t
    BY <1>1 DEF SettingsInv, TaskInv
  <1>3. /\ task'[t] = Unset /\ \A u \in Tasks : u # t => task'[u] = task[u]
        /\ memory'[p] = copy /\ \A q \in Processes : q # p => memory'[q] = memory[q]
        /\ locked'[p] = Unset /\ \A q \in Processes : q # p => locked'[q] = locked[q]
    BY DEF GivesBack, SettingsInv, SettingsTypeOK
  <1>4. Base(p)' = copy
    BY <1>3 DEF Base
  <1>5. ASSUME NEW q \in Processes, q # p
        PROVE  /\ Base(q)' = Base(q) /\ locked'[q] = locked[q] /\ memory'[q] = memory[q]
               /\ LockInv(q)'
    <2>1. LockInv(q) /\ locked'[q] = locked[q] /\ memory'[q] = memory[q]
          /\ locked[q] \in Tasks \cup {Unset}
      BY <1>3, <1>5 DEF SettingsInv, SettingsTypeOK
    <2>2. CASE locked[q] = Unset
      BY <2>1, <2>2 DEF LockInv, Base
    <2>3. CASE locked[q] # Unset
      <3>1. task'[locked[q]] = task[locked[q]]
        BY <1>3, <1>5, <2>1, <2>3 DEF LockInv
      <3> QED BY <2>1, <2>3, <3>1 DEF LockInv, Base
    <2> QED BY <2>2, <2>3
  <1>6. LockInv(p)'
    BY <1>3 DEF LockInv
  <1> QED BY <1>2, <1>3, <1>4, <1>5, <1>6

LEMMA PersistFailsKeeps ==
    ASSUME SettingsInv, SettingsAssumption, UnsetAssumption, NEW t \in Tasks, PersistFails(t)
    PROVE  SettingsInv'
  <1>1. PICK p \in Processes : p = task[t].on
    BY AtType DEF PersistFails, SettingsInv
  <1>2. PICK old \in Copy : old = task[t].old
    BY AtType DEF PersistFails, SettingsInv
  <1>3. task[t] \in Task /\ task[t].at = "persist" /\ TaskAt(t, "persist")
    BY AtType DEF PersistFails, SettingsInv
  <1>4. /\ memory' = [memory EXCEPT ![p] = old]
        /\ locked' = [locked EXCEPT ![p] = Unset] /\ task' = [task EXCEPT ![t] = Unset]
        /\ UNCHANGED <<stored, historyVars, updates>>
    BY <1>1, <1>2 DEF PersistFails
  <1>5. TaskInv(t)
    BY DEF SettingsInv
  <1>6. /\ locked[p] = t /\ task'[t] = Unset /\ \A u \in Tasks : u # t => task'[u] = task[u]
        /\ Base(p)' = old /\ locked'[p] = Unset /\ memory'[p] = old
        /\ \A q \in Processes : q # p =>
              /\ Base(q)' = Base(q) /\ locked'[q] = locked[q] /\ memory'[q] = memory[q]
        /\ \A q \in Processes : LockInv(q)'
    <2>1. GivesBack(t, p, old)
      BY <1>4 DEF GivesBack
    <2> QED BY <1>1, <1>3, <2>1, LockGivenBack
  <1>7. SettingsTypeOK'
    <2>1. trouble' \in 0 .. MaxTrouble
      BY DEF PersistFails, Trouble, SettingsInv, SettingsTypeOK, SettingsAssumption
    <2> QED BY <1>4, <2>1 DEF SettingsInv, SettingsTypeOK, historyVars
  <1>8. \A f \in Fields : Current(f)' = Current(f)
    BY <1>4 DEF historyVars, Current
  <1>9. ASSUME NEW q \in Processes, BaseIsCurrent(q) PROVE BaseIsCurrent(q)'
    <2>1. Base(q)' = Base(q)
      <3>1. CASE q = p
        <4>1. t # Unset
          BY DEF SettingsAssumption
        <4> QED BY <1>2, <1>6, <3>1, <4>1 DEF Base
      <3> QED BY <1>6, <3>1
    <2> QED BY <1>4, <1>8, <1>9, <2>1 DEF BaseIsCurrent
  <1>10. ASSUME NEW u \in Tasks PROVE TaskInv(u)'
    <2>1. CASE u = t
      BY <1>6, <2>1 DEF TaskInv, UnsetAssumption
    <2>2. CASE u # t
      <3> SUFFICES ASSUME task[u] \in Task PROVE TaskInv(u)'
        BY <1>6, <2>2 DEF TaskInv
      <3>1. TaskInv(u) /\ task'[u] = task[u] /\ task[u].on \in Processes
        BY <1>6, <2>2 DEF SettingsInv, Task
      <3>2. BaseIsCurrent(task[u].on) => BaseIsCurrent(task[u].on)'
        <4>1. PICK q \in Processes : q = task[u].on
          BY <3>1
        <4>2. BaseIsCurrent(q) => BaseIsCurrent(q)'
          BY <1>9
        <4> QED BY <3>1, <4>1, <4>2 DEF BaseIsCurrent, Base
      <3>3. ReadIsSaved(task[u])' = ReadIsSaved(task[u])
        BY <1>4, <3>1 DEF ReadIsSaved, historyVars
      <3>4. ReadIsCurrent(task[u])' = ReadIsCurrent(task[u])
        BY <1>4, <1>8, <3>1 DEF ReadIsCurrent
      <3>5. OldIsSaved(task[u])' = OldIsSaved(task[u])
        BY <1>4, <3>1 DEF OldIsSaved, historyVars
      <3>6. task[u].at = "persist" => task[u].on # p
        BY <1>6, <2>2, <3>1 DEF TaskInv
      <3> QED BY <1>6, <3>1, <3>2, <3>3, <3>4, <3>5, <3>6 DEF TaskInv
    <2> QED BY <2>1, <2>2
  <1>11. OnlySavedSettings'
    <2> SUFFICES ASSUME NEW q \in Processes, NEW f \in Fields, locked'[q] = Unset
                 PROVE  memory'[q][f] \in saved[f] \cup {Default}
      BY <1>4 DEF OnlySavedSettings, historyVars
    <2>1. CASE q = p
      BY <1>2, <1>3, <1>5, <1>6, <2>1 DEF TaskInv, OldIsSaved
    <2>2. CASE q # p
      BY <1>6, <2>2 DEF SettingsInv, OnlySavedSettings
    <2> QED BY <2>1, <2>2
  <1> QED BY <1>4, <1>6, <1>7, <1>10, <1>11, NobodyMoves

LEMMA RestartKeeps ==
    ASSUME SettingsInv, SettingsAssumption, UnsetAssumption, NEW p \in Processes, Restart(p)
    PROVE  SettingsInv'
  <1>1. stored \in Table /\ StoredIsSaved
    BY DEF SettingsInv, SettingsTypeOK
  <1>2. PICK copy \in Copy :
          /\ memory' = [memory EXCEPT ![p] = copy]
          /\ \A f \in Fields : copy[f] \in saved[f] \cup {Default}
    <2>1. /\ Loaded(Defaults, stored) \in Copy
          /\ \A f \in Fields : Loaded(Defaults, stored)[f] \in saved[f] \cup {Default}
      BY <1>1, EmptyType, LoadedType DEF StoredIsSaved
    <2>2. Defaults \in Copy /\ \A f \in Fields : Defaults[f] = Default
      BY EmptyType
    <2> QED BY <2>1, <2>2 DEF Restart
  <1>3. /\ locked' = [locked EXCEPT ![p] = Unset]
        /\ task' = [t \in Tasks |-> IF task[t] # Unset /\ task[t].on = p THEN Unset
                                    ELSE task[t]]
        /\ UNCHANGED <<stored, historyVars, updates>>
    BY DEF Restart
  <1>4. SettingsTypeOK'
    <2>1. trouble' \in 0 .. MaxTrouble
      BY DEF Restart, Trouble, SettingsInv, SettingsTypeOK, SettingsAssumption
    <2>2. task' \in [Tasks -> Task \cup {Unset}]
      BY <1>3 DEF SettingsInv, SettingsTypeOK
    <2> QED BY <1>2, <1>3, <2>1, <2>2 DEF SettingsInv, SettingsTypeOK, historyVars
  <1>5. /\ memory'[p] = copy /\ \A q \in Processes : q # p => memory'[q] = memory[q]
        /\ locked'[p] = Unset /\ \A q \in Processes : q # p => locked'[q] = locked[q]
    BY <1>2, <1>3 DEF SettingsInv, SettingsTypeOK
  <1>6. \A f \in Fields : Current(f)' = Current(f)
    BY <1>3 DEF historyVars, Current
  <1>7. ASSUME NEW q \in Processes, q # p PROVE LockInv(q)' /\ Base(q)' = Base(q)
    <2>1. LockInv(q) /\ locked'[q] = locked[q] /\ memory'[q] = memory[q]
          /\ locked[q] \in Tasks \cup {Unset}
      BY <1>5, <1>7 DEF SettingsInv, SettingsTypeOK
    <2>2. CASE locked[q] = Unset
      BY <2>1, <2>2 DEF LockInv, Base
    <2>3. CASE locked[q] # Unset
      <3>1. task'[locked[q]] = task[locked[q]]
        BY <1>3, <1>7, <2>1, <2>3 DEF LockInv
      <3> QED BY <2>1, <2>3, <3>1 DEF LockInv, Base
    <2> QED BY <2>2, <2>3
  <1>8. LockInv(p)'
    BY <1>5 DEF LockInv
  <1>9. ASSUME NEW u \in Tasks PROVE TaskInv(u)'
    <2> SUFFICES ASSUME task'[u] \in Task PROVE TaskInv(u)'
      BY DEF TaskInv
    <2>1. task'[u] = task[u] /\ task[u].on # p
      BY <1>3 DEF UnsetAssumption
    <2>2. TaskInv(u) /\ task[u] \in Task /\ task[u].on \in Processes
      BY <2>1 DEF SettingsInv, Task
    <2>3. BaseIsCurrent(task[u].on) => BaseIsCurrent(task[u].on)'
      <3>1. PICK q \in Processes : q = task[u].on
        BY <2>2
      <3>2. Base(q)' = Base(q)
        BY <1>7, <2>1, <3>1
      <3>3. BaseIsCurrent(q) => BaseIsCurrent(q)'
        BY <1>3, <1>6, <3>2 DEF BaseIsCurrent
      <3> QED BY <2>1, <3>1, <3>3 DEF BaseIsCurrent, Base
    <2>4. ReadIsSaved(task[u])' = ReadIsSaved(task[u])
      BY <1>3, <2>1 DEF ReadIsSaved, historyVars
    <2>5. ReadIsCurrent(task[u])' = ReadIsCurrent(task[u])
      BY <1>3, <1>6, <2>1 DEF ReadIsCurrent
    <2>6. OldIsSaved(task[u])' = OldIsSaved(task[u])
      BY <1>3, <2>1 DEF OldIsSaved, historyVars
    <2> QED BY <1>5, <2>1, <2>2, <2>3, <2>4, <2>5, <2>6 DEF TaskInv
  <1>10. OnlySavedSettings'
    <2> SUFFICES ASSUME NEW q \in Processes, NEW f \in Fields, locked'[q] = Unset
                 PROVE  memory'[q][f] \in saved[f] \cup {Default}
      BY <1>3 DEF OnlySavedSettings, historyVars
    <2> QED BY <1>2, <1>5 DEF SettingsInv, OnlySavedSettings
  <1> QED BY <1>3, <1>4, <1>7, <1>8, <1>9, <1>10, NobodyMoves

\* The only step that changes the table.  Whoever has read it before is behind, and the
\* setting is overtaken; nothing else changes but what is not current.
LEMMA PersistKeeps ==
    ASSUME SettingsInv, SettingsAssumption, UnsetAssumption, NEW t \in Tasks, Persist(t)
    PROVE  SettingsInv'
  <1>1. PICK p \in Processes, f \in Fields, v \in Values :
          p = task[t].on /\ f = task[t].field /\ v = task[t].value
    BY AtType DEF Persist, SettingsInv
  <1>2. PICK copy \in Copy : copy = memory[p]
    BY DEF SettingsInv, SettingsTypeOK
  <1>3. task[t] \in Task /\ task[t].at = "persist" /\ TaskAt(t, "persist")
    BY AtType DEF Persist, SettingsInv
  <1>4. /\ stored' = copy
        /\ locked' = [locked EXCEPT ![p] = Unset] /\ task' = [task EXCEPT ![t] = Unset]
        /\ wanted' = [wanted EXCEPT ![f] = v]
        /\ saved' = [g \in Fields |-> saved[g] \cup {copy[g]}]
        /\ overtaken' = IF Behind(t) = {} THEN overtaken \ {f} ELSE overtaken \cup {f}
        /\ UNCHANGED <<memory, updates, trouble>>
    BY <1>1, <1>2 DEF Persist
  <1>5. memory' = [memory EXCEPT ![p] = copy]
    BY <1>2, <1>4 DEF SettingsInv, SettingsTypeOK
  <1>6. /\ locked[p] = t /\ task'[t] = Unset /\ \A u \in Tasks : u # t => task'[u] = task[u]
        /\ Base(p)' = copy /\ locked'[p] = Unset
        /\ \A q \in Processes : q # p => Base(q)' = Base(q) /\ locked'[q] = locked[q]
        /\ \A q \in Processes : LockInv(q)'
    <2>1. GivesBack(t, p, copy)
      BY <1>4, <1>5 DEF GivesBack
    <2> QED BY <1>1, <1>3, <2>1, LockGivenBack
  <1>7. /\ TaskInv(t) /\ BaseIsCurrent(p) /\ copy = [task[t].old EXCEPT ![f] = v]
        /\ Base(p) = task[t].old /\ task[t].old \in Copy
    <2>1. t # Unset
      BY DEF SettingsAssumption
    <2> QED BY <1>1, <1>2, <1>3, <1>6, <2>1, AtType DEF SettingsInv, TaskInv, Base
  <1>8. copy[f] = v /\ \A g \in Fields : g # f => copy[g] = Base(p)[g]
    BY <1>7 DEF Copy
  <1>9. SettingsTypeOK'
    <2>1. copy \in Table /\ wanted' \in Table
      BY <1>4 DEF Copy, Table, SettingsInv, SettingsTypeOK
    <2>2. saved' \in [Fields -> SUBSET Values]
      BY <1>4 DEF Copy, SettingsInv, SettingsTypeOK
    <2>3. overtaken' \subseteq Fields
      BY <1>4 DEF SettingsInv, SettingsTypeOK
    <2> QED BY <1>4, <2>1, <2>2, <2>3 DEF SettingsInv, SettingsTypeOK
  <1>10. /\ \A g \in Fields : saved'[g] = saved[g] \cup {copy[g]}
         /\ wanted'[f] = v /\ \A g \in Fields : g # f => wanted'[g] = wanted[g]
    BY <1>4 DEF SettingsInv, SettingsTypeOK, Table
  \* What is current after the step and is not the setting of this update was before,
  \* and has its value still.
  <1>11. ASSUME NEW g \in Fields, g # f, Current(g)'
         PROVE  Current(g) /\ stored'[g] = stored[g]
    <2>1. Current(g)
      BY <1>4, <1>10, <1>11 DEF Current
    <2> QED BY <1>4, <1>7, <1>8, <1>11, <2>1 DEF BaseIsCurrent
  \* If anybody is behind, the setting of this update is not current.
  <1>12. ASSUME NEW u \in Tasks, u # t, task[u] \in Task, task[u].at # "read"
         PROVE  ~Current(f)'
    <2>1. u \in Behind(t)
      BY <1>12 DEF Behind, UnsetAssumption
    <2> QED BY <1>4, <2>1 DEF Current
  <1>13. ASSUME NEW u \in Tasks PROVE TaskInv(u)'
    <2>1. CASE u = t
      BY <1>6, <2>1 DEF TaskInv, UnsetAssumption
    <2>2. CASE u # t
      <3> SUFFICES ASSUME task[u] \in Task PROVE TaskInv(u)'
        BY <1>6, <2>2 DEF TaskInv
      <3>1. TaskInv(u) /\ task'[u] = task[u] /\ task[u].on \in Processes
        BY <1>6, <2>2 DEF SettingsInv, Task
      <3>2. task[u].at \in {"change", "persist"} => BaseIsCurrent(task[u].on)'
        <4> SUFFICES ASSUME task[u].at \in {"change", "persist"}
                     PROVE  BaseIsCurrent(task[u].on)'
          OBVIOUS
        <4>1. PICK q \in Processes : q = task[u].on
          BY <3>1
        <4>2. BaseIsCurrent(q) /\ ~Current(f)'
          BY <1>12, <2>2, <3>1, <4>1 DEF TaskInv
        <4>3. CASE q = p
          <5>1. BaseIsCurrent(p)'
            BY <1>4, <1>6 DEF BaseIsCurrent
          <5> QED BY <3>1, <4>1, <4>3, <5>1 DEF BaseIsCurrent, Base
        <4>4. CASE q # p
          <5>1. Base(q)' = Base(q)
            BY <1>6, <4>4
          <5>2. BaseIsCurrent(q)'
            BY <1>11, <4>2, <5>1 DEF BaseIsCurrent
          <5> QED BY <3>1, <4>1, <5>2 DEF BaseIsCurrent, Base
        <4> QED BY <4>3, <4>4
      <3>3. ReadIsSaved(task[u])'
        BY <1>10, <3>1 DEF ReadIsSaved, TaskInv
      <3>4. task[u].at = "load" => ReadIsCurrent(task[u])'
        <4> SUFFICES ASSUME task[u].at = "load", NEW g \in Fields, Current(g)'
                     PROVE  task[u].read[g] = stored'[g]
          BY <3>1 DEF ReadIsCurrent
        <4>1. ReadIsCurrent(task[u]) /\ ~Current(f)'
          BY <1>12, <2>2, <3>1 DEF TaskInv
        <4> QED BY <1>11, <4>1 DEF ReadIsCurrent
      <3>5. OldIsSaved(task[u]) => OldIsSaved(task[u])'
        BY <1>10, <3>1 DEF OldIsSaved
      <3>6. task[u].at = "persist" => task[u].on # p
        BY <1>6, <2>2, <3>1 DEF TaskInv
      <3> QED BY <1>4, <1>6, <3>1, <3>2, <3>3, <3>4, <3>5, <3>6 DEF TaskInv
    <2> QED BY <2>1, <2>2
  <1>14. StoredIsSaved'
    BY <1>4, <1>10 DEF StoredIsSaved
  <1>15. UpdatesSurvive'
    <2> SUFFICES ASSUME NEW g \in Fields, Current(g)' PROVE stored'[g] = wanted'[g]
      BY DEF UpdatesSurvive, Current
    <2>1. CASE g = f
      BY <1>4, <1>8, <1>10, <2>1
    <2>2. CASE g # f
      <3>1. Current(g) /\ stored'[g] = stored[g] /\ wanted'[g] = wanted[g]
        BY <1>10, <1>11, <2>2
      <3> QED BY <3>1 DEF SettingsInv, UpdatesSurvive, Current
    <2> QED BY <2>1, <2>2
  <1>16. OnlySavedSettings'
    <2> SUFFICES ASSUME NEW q \in Processes, NEW g \in Fields, locked'[q] = Unset
                 PROVE  memory[q][g] \in saved[g] \cup {copy[g], Default}
      BY <1>4, <1>10 DEF OnlySavedSettings
    <2>1. CASE q = p
      BY <1>2, <2>1
    <2>2. CASE q # p
      BY <1>6, <2>2 DEF SettingsInv, OnlySavedSettings
    <2> QED BY <2>1, <2>2
  <1> QED BY <1>6, <1>9, <1>13, <1>14, <1>15, <1>16 DEF SettingsInv

-----------------------------------------------------------------------------
LEMMA SettingsStart ==
    ASSUME SettingsAssumption, UnsetAssumption, SettingsInit PROVE SettingsInv
  <1>1. Empty \in Table /\ Defaults \in Copy /\ \A f \in Fields : Empty[f] = Unset
        /\ Defaults[f] = Default
    BY EmptyType
  <1>2. SettingsTypeOK
    <2>1. updates \in 0 .. MaxUpdates /\ trouble \in 0 .. MaxTrouble
      BY DEF SettingsAssumption, SettingsInit
    <2> QED BY <1>1, <2>1 DEF SettingsInit, SettingsTypeOK
  <1>3. \A p \in Processes : LockInv(p)
    BY DEF SettingsInit, LockInv
  <1>4. \A t \in Tasks : TaskInv(t)
    BY DEF SettingsInit, TaskInv, UnsetAssumption
  <1>5. StoredIsSaved /\ UpdatesSurvive
    BY <1>1 DEF SettingsInit, StoredIsSaved, UpdatesSurvive
  <1>6. OnlySavedSettings
    BY <1>1 DEF SettingsInit, OnlySavedSettings
  <1> QED BY <1>2, <1>3, <1>4, <1>5, <1>6 DEF SettingsInv

\* Every step keeps the invariant.
LEMMA SettingsStep ==
    ASSUME SettingsAssumption, UnsetAssumption, SettingsInv, [SettingsNext]_settingsVars
    PROVE  SettingsInv'
  <1>1. CASE UNCHANGED settingsVars
    <2>1. UNCHANGED <<stored, memory, locked, task, wanted, saved, overtaken, updates, trouble>>
      BY <1>1 DEF settingsVars
    <2>2. SettingsTypeOK'
      BY <2>1 DEF SettingsInv, SettingsTypeOK
    <2>3. \A p \in Processes : LockInv(p)'
      BY <2>1 DEF SettingsInv, LockInv
    <2>4. \A t \in Tasks : TaskInv(t)'
      BY <2>1 DEF SettingsInv, TaskInv, ReadIsSaved, ReadIsCurrent, BaseIsCurrent, Base,
                  OldIsSaved, Current
    <2>5. OnlySavedSettings'
      BY <2>1 DEF SettingsInv, OnlySavedSettings
    <2> QED BY <2>1, <2>2, <2>3, <2>4, <2>5, NobodyMoves DEF historyVars
  <1>2. ASSUME NEW t \in Tasks, BeginLoad(t) \/ BeginUpdate(t) \/ TaskMoves(t) \/ ReadFails(t)
        PROVE  SettingsInv'
    BY <1>2, BeginKeeps, ReadTableKeeps, LoadKeeps, ChangeCopyKeeps, PersistKeeps,
       PersistFailsKeeps, GivesUpKeeps DEF TaskMoves
  <1>3. ASSUME NEW p \in Processes, Restart(p) PROVE SettingsInv'
    BY <1>3, RestartKeeps
  <1> QED BY <1>1, <1>2, <1>3 DEF SettingsNext

LEMMA SettingsInvariant == SettingsSpec => []SettingsInv
  <1>1. SettingsInit => SettingsInv
    BY SettingsStart, SettingsAssumption, UnsetAssumption
  <1>2. SettingsInv /\ [SettingsNext]_settingsVars => SettingsInv'
    BY SettingsStep, SettingsAssumption, UnsetAssumption
  <1> QED BY <1>1, <1>2, PTL DEF SettingsSpec

\* The table, the copies and the tasks have their types in every behaviour.
THEOREM SettingsTypeCorrect == SettingsSpec => []SettingsTypeOK
  <1>1. SettingsInv => SettingsTypeOK
    BY DEF SettingsInv
  <1> QED BY <1>1, SettingsInvariant, PTL

\* A setting that was saved keeps its value until it is set anew, for any number of
\* processes, loads and updates, unless somebody had read the table before.
THEOREM UpdatesSurviveCorrect == SettingsSpec => []UpdatesSurvive
  <1>1. SettingsInv => UpdatesSurvive
    BY DEF SettingsInv
  <1> QED BY <1>1, SettingsInvariant, PTL

\* A failed update leaves nothing behind: a process works with settings that were saved
\* or are its environment's.
THEOREM OnlySavedSettingsCorrect == SettingsSpec => []OnlySavedSettings
  <1>1. SettingsInv => OnlySavedSettings
    BY DEF SettingsInv
  <1> QED BY <1>1, SettingsInvariant, PTL
=============================================================================
