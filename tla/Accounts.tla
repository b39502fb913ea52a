------------------------------ MODULE Accounts ------------------------------
(***************************************************************************)
(* User accounts and the requests that change them (api/v1/users.py,       *)
(* api/v1/auth.py, auth/deps.py, db/repos/user.py).  A request looks at    *)
(* its own account when it begins and at the row it changes when it gets   *)
(* there; its UPDATE carries only the columns whose value differs from the *)
(* one it has seen, whatever the row holds by then.                        *)
(***************************************************************************)
EXTENDS Naturals

CONSTANTS
    People,      \* usernames
    Calls,       \* requests
    OtherRoles,  \* operator and viewer
    MaxRequests, \* bound: requests
    Missing

Roles == {"admin"} \cup OtherRoles
Same  == "same"

\* Who has chosen the password, and whether it has to be changed.
Account == [role : Roles, active : BOOLEAN, chosenBy : {"admin", "self"}, must : BOOLEAN]

ASSUME AccountsAssumption == Missing \notin Account /\ Same \notin Roles /\ MaxRequests \in Nat

VARIABLES
    account,     \* the table users
    call,        \* each request
    requests,    \* how many there were
    late,        \* history: an administrator's request was carried out after its
                 \* author had stopped being one
    crossed      \* history: the accounts that changed between the look and the write
                 \* of a password reset

accountVars == <<account, call, requests, late, crossed>>

AdminOps == {"create", "update", "reset"}
OwnOps   == {"change", "force"}

\* A request: `seen` is the account of its target as it has read it, `role` and
\* `activity` what it sets.
Call == [at : {"authorized", "read"}, op : AdminOps \cup OwnOps,
         author : People, target : People, role : Roles \cup {Same},
         activity : {"on", "off", Same}, seen : Account \cup {Missing}]

Idle == [at |-> "idle"]

AccountsTypeOK ==
    /\ account \in [People -> Account \cup {Missing}]
    /\ call \in [Calls -> Call \cup {Idle}]
    /\ requests \in 0 .. MaxRequests
    /\ late \in BOOLEAN
    /\ crossed \subseteq People

Exists(u) == account[u] # Missing

IsAdmin(u) == Exists(u) /\ account[u].active /\ account[u].role = "admin"

\* Any accounts with an administrator; a password of the administrator's choice is one
\* to be changed.
AccountsInit ==
    /\ account \in [People -> Account \cup {Missing}]
    /\ \E u \in People : IsAdmin(u)
    /\ \A u \in People : Exists(u) => (account[u].must <=> account[u].chosenBy = "admin")
    /\ call = [c \in Calls |-> Idle]
    /\ requests = 0
    /\ late = FALSE
    /\ crossed = {}

\* Plausible bug: an administrator may give his own role away.
HurtsOneselfActiveOnly(author, target, role, activity) ==
    /\ target = author
    /\ activity = "off"

-----------------------------------------------------------------------------
\* Nobody deactivates or demotes himself.
HurtsOneself(author, target, role, activity) ==
    /\ target = author
    /\ activity = "off" \/ role \notin {Same, account[author].role}

\* The roles and activities that the body of an operation may carry.
RolesOf(op) == CASE op = "create" -> Roles [] op = "update" -> Roles \cup {Same}
                 [] OTHER -> {Same}
ActivitiesOf(op) == IF op = "update" THEN {"on", "off", Same} ELSE {Same}

Begin(c) ==
    /\ call[c] = Idle
    /\ requests < MaxRequests
    /\ requests' = requests + 1

\* get_current_user and require_role.  One's own row is not read a second time.
Authorize(c) ==
    /\ Begin(c)
    /\ \E op \in AdminOps, author, target \in People :
       \E role \in RolesOf(op), activity \in ActivitiesOf(op) :
          /\ IsAdmin(author) /\ ~account[author].must
          /\ op = "update" => <<role, activity>> # <<Same, Same>>
          /\ ~(op = "update" /\ HurtsOneself(author, target, role, activity))
          /\ call' = [call EXCEPT ![c] =
                [at |-> IF target = author /\ op # "create" THEN "read" ELSE "authorized",
                 op |-> op, author |-> author, target |-> target, role |-> role,
                 activity |-> activity, seen |-> account[author]]]
    /\ UNCHANGED <<account, late, crossed>>

\* The current password has been verified; a forced change needs no verification and
\* is the only thing that an account with a password of the administrator's may do.
AuthorizeOwn(c) ==
    /\ Begin(c)
    /\ \E op \in OwnOps, author \in People :
          /\ Exists(author) /\ account[author].active
          /\ account[author].must <=> op = "force"
          /\ call' = [call EXCEPT ![c] =
                [at |-> "read", op |-> op, author |-> author, target |-> author,
                 role |-> Same, activity |-> Same, seen |-> account[author]]]
    /\ UNCHANGED <<account, late, crossed>>

\* A new name must not exist, another target must.
Read(c) ==
    /\ call[c].at = "authorized"
    /\ Exists(call[c].target) <=> call[c].op # "create"
    /\ call' = [call EXCEPT ![c].at = "read", ![c].seen = account[call[c].target]]
    /\ UNCHANGED <<account, requests, late, crossed>>

\* 404 or 409, a rejected body, a process that dies: nothing is written.
Refuse(c) ==
    /\ call[c].at \in {"authorized", "read"}
    /\ call' = [call EXCEPT ![c] = Idle]
    /\ UNCHANGED <<account, requests, late, crossed>>

\* Plausible bug: a reset sets the password and nothing else.
IntendedKeepingMust(k) ==
    CASE k.op = "update" -> [k.seen EXCEPT
                              !.role = IF k.role = Same THEN @ ELSE k.role,
                              !.active = IF k.activity = Same THEN @ ELSE k.activity = "on"]
      [] k.op = "reset"  -> [k.seen EXCEPT !.chosenBy = "admin"]
      [] k.op = "change" -> [k.seen EXCEPT !.chosenBy = "self"]
      [] k.op = "force"  -> [k.seen EXCEPT !.chosenBy = "self", !.must = FALSE]

\* The row as the request has seen it, with its change.
Intended(k) ==
    CASE k.op = "update" -> [k.seen EXCEPT
                              !.role = IF k.role = Same THEN @ ELSE k.role,
                              !.active = IF k.activity = Same THEN @ ELSE k.activity = "on"]
      [] k.op = "reset"  -> [k.seen EXCEPT !.chosenBy = "admin", !.must = TRUE]
      [] k.op = "change" -> [k.seen EXCEPT !.chosenBy = "self"]
      [] k.op = "force"  -> [k.seen EXCEPT !.chosenBy = "self", !.must = FALSE]

\* The columns of the UPDATE: a new password always differs from the old one.
Column(k, new, c) ==
    IF new[c] # k.seen[c] \/ (c = "chosenBy" /\ k.op \in {"reset", "change", "force"})
    THEN new[c] ELSE account[k.target][c]

Written(k) ==
    LET new == Intended(k)
    IN  [role |-> Column(k, new, "role"), active |-> Column(k, new, "active"),
         chosenBy |-> Column(k, new, "chosenBy"), must |-> Column(k, new, "must")]

Write(c) ==
    LET k == call[c] IN
    /\ k.at = "read" /\ k.op # "create"
    /\ account' = [account EXCEPT ![k.target] = Written(k)]
    /\ call' = [call EXCEPT ![c] = Idle]
    /\ UNCHANGED requests
    /\ late' = (late \/ (k.op \in AdminOps /\ ~IsAdmin(k.author)))
    /\ crossed' = IF k.op = "reset" /\ account[k.target] # k.seen
                  THEN crossed \cup {k.target} ELSE crossed

\* Two requests may have found the name free: the unique index refuses the second.
Create(c) ==
    LET k == call[c] IN
    /\ k.at = "read" /\ k.op = "create"
    /\ account' = IF Exists(k.target) THEN account
                  ELSE [account EXCEPT ![k.target] =
                          [role |-> k.role, active |-> TRUE, chosenBy |-> "admin",
                           must |-> TRUE]]
    /\ call' = [call EXCEPT ![c] = Idle]
    /\ UNCHANGED <<requests, late, crossed>>

CallMoves(c) ==
    Authorize(c) \/ AuthorizeOwn(c) \/ Read(c) \/ Refuse(c) \/ Write(c) \/ Create(c)

AccountsNext == \E c \in Calls : CallMoves(c)

AccountsSpec == AccountsInit /\ [][AccountsNext]_accountVars

-----------------------------------------------------------------------------
\* However many administrators change each other at the same time, an active one
\* remains, unless somebody's request was carried out who no longer was one: what the
\* check of one's own account protects from, and what it cannot.
AdminRemains == (\E u \in People : IsAdmin(u)) \/ late

\* A password of an administrator's choice has to be changed by its user, whatever the
\* user and other administrators do meanwhile, unless the account changed between the
\* look and the write of the reset: the column that had the right value then is not
\* written.
ResetForcesChange ==
    \A u \in People \ crossed :
        Exists(u) /\ account[u].chosenBy = "admin" => account[u].must
=============================================================================
