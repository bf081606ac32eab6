------------------------------ MODULE Accounts ------------------------------
(***************************************************************************)
(* The administration of local accounts: create_local_user,                *)
(* update_local_user and delete_local_user of routers/admin.py, with what  *)
(* hangs on an account: its sessions, its node assignments, its ownerships.*)
(* Every handler reads, decides and writes in database sessions of its     *)
(* own, with awaits in between, so that handlers of two administrators     *)
(* interleave there; a step of this module is one such session.            *)
(*                                                                         *)
(* Assignments and ownerships refer to an account by its row id, sessions  *)
(* by its name.  SQLite gives a new row the id after the largest one in    *)
(* the table (the tables are created without AUTOINCREMENT), so the id of  *)
(* an account that was deleted may come back, and so may its name, with    *)
(* the sessions that the deletion left behind.                             *)
(***************************************************************************)
EXTENDS Naturals, FiniteSets

CONSTANTS Request,     \* handlers: as many requests are served at the same time
          MaxUsers,    \* the user limit of the Core edition
          MaxId,       \* bound: the largest row id
          MaxRequests  \* bound: requests that arrive

ASSUME LimitsAssumption ==
  MaxUsers \in Nat /\ MaxRequests \in Nat /\ MaxId \in Nat \ {0}

Id == 1 .. MaxId
Role == {"admin", "operator"}
Name == Id  \* as many names as ids; the first accounts are named by theirs
Account == [name : Name, role : Role, active : BOOLEAN]
Ownership == {"never", "past", "active"}

\* What an update asks for: a role and an active flag, or to leave them;
\* and a deletion: ownership_action, transfer or orphan
Keep == "keep"
Body == [role : Role \cup {Keep}, active : {"yes", "no", Keep}, orphan : BOOLEAN]
Nothing == [role |-> Keep, active |-> Keep, orphan |-> FALSE]
Handler == [op : {"none", "create", "update", "delete", "assign", "login"},
            pc : {"idle", "read", "name", "count", "self", "assignments", "owners",
                  "write", "revoke"},
            id : Id, name : Name, body : Body, wasActive : BOOLEAN]
Idle == [op |-> "none", pc |-> "idle", id |-> 1, name |-> 1, body |-> Nothing,
         wasActive |-> FALSE]

VARIABLES
  users,     \* local_users: a function on the ids in use
  assigned,  \* node_assignments with subject_type 'user': the subject ids
  owning,    \* by id: no rows in vm_owners, soft-deleted ones only, or active ones
  signedIn,  \* the names with a session that is not revoked
  request,   \* the handlers
  served,    \* how many requests have arrived
  met        \* the pairs of operations that have run at the same time

vars == <<users, assigned, owning, signedIn, request, served, met>>

------------------------------------------------------------------------------
Admins == {i \in DOMAIN users : users[i].role = "admin" /\ users[i].active}

Running == {r \in Request : request[r].pc # "idle"}

At(r, op, pc) == request[r].op = op /\ request[r].pc = pc
End(r) == request' = [request EXCEPT ![r] = Idle]
Goto(r, pc) == request' = [request EXCEPT ![r].pc = pc]

\* A handler whose check passes goes on, or it answers with an error
Pass(r, check, pc) == IF check THEN Goto(r, pc) ELSE End(r)

\* A request for account i arrives; its sender has seen the account in a list
Arrives(r, op, i, name, body) ==
  /\ request[r].pc = "idle" /\ served < MaxRequests
  /\ served' = served + 1
  /\ request' = [request EXCEPT ![r] =
       [Idle EXCEPT !.op = op, !.pc = "read", !.id = i, !.name = name, !.body = body]]
  /\ met' = met \cup {{op, request[q].op} : q \in Running}

\* Any accounts within the limit, an active administrator among them; nobody ever
\* owned a VM, everybody once did, or everybody does
Init ==
  /\ \E S \in SUBSET Id : \E role \in [S -> Role], active \in [S -> BOOLEAN] :
       /\ Cardinality(S) <= MaxUsers
       /\ users = [i \in S |-> [name |-> i, role |-> role[i], active |-> active[i]]]
  /\ Admins # {}
  /\ assigned = DOMAIN users
  /\ \E k \in Ownership : owning = [i \in Id |-> IF i \in DOMAIN users THEN k ELSE "never"]
  /\ signedIn = {users[i].name : i \in {j \in DOMAIN users : users[j].active}}
  /\ request = [r \in Request |-> Idle]
  /\ served = 0 /\ met = {}

------------------------------------------------------------------------------
(* create_local_user *)

CreateArrives(r, name, role) ==
  /\ Arrives(r, "create", 1, name, [Nothing EXCEPT !.role = role])
  /\ UNCHANGED <<users, assigned, owning, signedIn>>

\* Mutant: one account too many
CreateCountsOffByOne(r) ==
  /\ At(r, "create", "read")
  /\ Pass(r, Cardinality(DOMAIN users) <= MaxUsers, "name")
  /\ UNCHANGED <<users, assigned, owning, signedIn, served, met>>

\* The limit, in a session of its own
CreateCounts(r) ==
  /\ At(r, "create", "read")
  /\ Pass(r, Cardinality(DOMAIN users) < MaxUsers, "name")
  /\ UNCHANGED <<users, assigned, owning, signedIn, served, met>>

NameTaken(name) == \E i \in DOMAIN users : users[i].name = name

\* 409 "Username already exists"
CreateLooksUpName(r) ==
  /\ At(r, "create", "name")
  /\ Pass(r, ~NameTaken(request[r].name), "write")
  /\ UNCHANGED <<users, assigned, owning, signedIn, served, met>>

NewId(i) == /\ \A j \in DOMAIN users : j < i
            /\ i = 1 \/ i - 1 \in DOMAIN users

\* The column is unique: the INSERT of a name taken since the look-up is refused
CreateInserts(r) ==
  /\ At(r, "create", "write")
  /\ IF NameTaken(request[r].name) THEN UNCHANGED users
     ELSE \E i \in Id :
            /\ NewId(i)
            /\ users' = [j \in DOMAIN users \cup {i} |->
                 IF j = i THEN [name |-> request[r].name, active |-> TRUE,
                                role |-> request[r].body.role]
                 ELSE users[j]]
  /\ End(r)
  /\ UNCHANGED <<assigned, owning, signedIn, served, met>>

------------------------------------------------------------------------------
(* update_local_user *)

UpdateArrives(r, i, body) ==
  /\ ~body.orphan
  /\ Arrives(r, "update", i, 1, body)
  /\ UNCHANGED <<users, assigned, owning, signedIn>>

\* Mutant: only the role is looked at
WouldLoseAdminByRole(row, body) == body.role \notin {Keep, "admin"} /\ row.role = "admin"
WouldLoseAdmin(row, body) ==
  \/ body.role \notin {Keep, "admin"} /\ row.role = "admin"
  \/ body.active = "no" /\ row.role = "admin" /\ row.active

UpdateReads(r) ==
  /\ At(r, "update", "read")
  /\ LET i == request[r].id IN
     IF i \notin DOMAIN users THEN End(r)
     ELSE request' = [request EXCEPT
            ![r].pc = IF WouldLoseAdmin(users[i], request[r].body) THEN "count" ELSE "write",
            ![r].wasActive = users[i].active,
            ![r].name = users[i].name]
  /\ UNCHANGED <<users, assigned, owning, signedIn, served, met>>

\* count_active_admins, for an update and for a deletion
CountAdmins(r, next) ==
  /\ request[r].pc = "count"
  /\ Pass(r, Cardinality(Admins) > 1, next)
  /\ UNCHANGED <<users, assigned, owning, signedIn, served, met>>

UpdateCounts(r) == request[r].op = "update" /\ CountAdmins(r, "write")

\* Mutant: a role that was not asked for is written all the same
UpdatedAlways(row, body) ==
  [row EXCEPT !.role = body.role,
              !.active = IF body.active = Keep THEN @ ELSE body.active = "yes"]
Updated(row, body) ==
  [row EXCEPT !.role = IF body.role = Keep THEN @ ELSE body.role,
              !.active = IF body.active = Keep THEN @ ELSE body.active = "yes"]

\* Mutant: nobody is signed out
UpdateWritesOnly(r) ==
  /\ At(r, "update", "write")
  /\ LET i == request[r].id IN
     users' = IF i \in DOMAIN users
                THEN [users EXCEPT ![i] = Updated(@, request[r].body)] ELSE users
  /\ End(r)
  /\ UNCHANGED <<assigned, owning, signedIn, served, met>>

\* update_user writes the columns that were asked for; the row may be gone.
\* A user who was active and is not any more is signed out afterwards.
UpdateWrites(r) ==
  /\ At(r, "update", "write")
  /\ LET i == request[r].id IN
     /\ users' = IF i \in DOMAIN users
                   THEN [users EXCEPT ![i] = Updated(@, request[r].body)] ELSE users
     /\ Pass(r, /\ i \in DOMAIN users
                /\ request[r].body.active = "no" /\ request[r].wasActive, "revoke")
  /\ UNCHANGED <<assigned, owning, signedIn, served, met>>

UpdateRevokes(r) ==
  /\ At(r, "update", "revoke")
  /\ signedIn' = signedIn \ {request[r].name}
  /\ End(r)
  /\ UNCHANGED <<users, assigned, owning, served, met>>

------------------------------------------------------------------------------
(* delete_local_user *)

DeleteArrives(r, i, orphan) ==
  /\ Arrives(r, "delete", i, 1, [Nothing EXCEPT !.orphan = orphan])
  /\ UNCHANGED <<users, assigned, owning, signedIn>>

DeleteReads(r) ==
  /\ At(r, "delete", "read")
  /\ LET i == request[r].id IN
     Pass(r, i \in DOMAIN users, IF users[i].role = "admin" THEN "count" ELSE "self")
  /\ UNCHANGED <<users, assigned, owning, signedIn, served, met>>

DeleteCounts(r) == request[r].op = "delete" /\ CountAdmins(r, "self")

\* An account is never deleted by its own user
DeleteIsOfAnother(r) ==
  /\ At(r, "delete", "self")
  /\ Goto(r, "assignments") \/ End(r)
  /\ UNCHANGED <<users, assigned, owning, signedIn, served, met>>

\* Mutant: the rows are left to a cascade that the table does not have
DeleteAssignmentsByCascade(r) ==
  /\ At(r, "delete", "assignments")
  /\ Goto(r, "owners")
  /\ UNCHANGED <<users, assigned, owning, signedIn, served, met>>

\* cleanup_assignments_for_user: the table has no foreign key on the user
DeleteAssignments(r) ==
  /\ At(r, "delete", "assignments")
  /\ assigned' = assigned \ {request[r].id}
  /\ Goto(r, "owners")
  /\ UNCHANGED <<users, owning, signedIn, served, met>>

\* 409 user_has_ownerships, or the hand-over of the ownerships
DeleteOwnerships(r) ==
  /\ At(r, "delete", "owners")
  /\ LET i == request[r].id IN
     IF owning[i] = "active"
       THEN IF request[r].body.orphan
              THEN Goto(r, "write") /\ owning' = [owning EXCEPT ![i] = "past"]
              ELSE End(r) /\ UNCHANGED owning
       ELSE Goto(r, "write") /\ UNCHANGED owning
  /\ UNCHANGED <<users, assigned, signedIn, served, met>>

\* DELETE FROM local_users: refused by the foreign key of vm_owners (ondelete
\* RESTRICT) while a row of it, a soft-deleted one too, refers to the account
DeleteRow(r) ==
  /\ At(r, "delete", "write")
  /\ LET i == request[r].id IN
     users' = IF owning[i] = "never" THEN [j \in DOMAIN users \ {i} |-> users[j]]
              ELSE users
  /\ End(r)
  /\ UNCHANGED <<assigned, owning, signedIn, served, met>>

------------------------------------------------------------------------------
(* add_assignment and login_local, as far as they touch an account          *)

AssignArrives(r, i) ==
  /\ Arrives(r, "assign", i, 1, Nothing)
  /\ UNCHANGED <<users, assigned, owning, signedIn>>

AssignChecksSubject(r) ==
  /\ At(r, "assign", "read")
  /\ Pass(r, request[r].id \in DOMAIN users, "write")
  /\ UNCHANGED <<users, assigned, owning, signedIn, served, met>>

AssignInserts(r) ==
  /\ At(r, "assign", "write")
  /\ assigned' = assigned \cup {request[r].id}
  /\ End(r)
  /\ UNCHANGED <<users, owning, signedIn, served, met>>

LoginArrives(r, i) ==
  /\ Arrives(r, "login", i, 1, Nothing)
  /\ UNCHANGED <<users, assigned, owning, signedIn>>

LoginChecks(r) ==
  /\ At(r, "login", "read")
  /\ LET i == request[r].id IN
     IF i \in DOMAIN users /\ users[i].active
       THEN request' = [request EXCEPT ![r].pc = "write", ![r].name = users[i].name]
       ELSE End(r)
  /\ UNCHANGED <<users, assigned, owning, signedIn, served, met>>

LoginCreatesSession(r) ==
  /\ At(r, "login", "write")
  /\ signedIn' = signedIn \cup {request[r].name}
  /\ End(r)
  /\ UNCHANGED <<users, assigned, owning, served, met>>

------------------------------------------------------------------------------
Create(r) == \/ \E name \in Name, role \in Role : CreateArrives(r, name, role)
             \/ CreateCounts(r) \/ CreateLooksUpName(r) \/ CreateInserts(r)
Update(r) == \/ \E i \in DOMAIN users, body \in Body : UpdateArrives(r, i, body)
             \/ UpdateReads(r) \/ UpdateCounts(r) \/ UpdateWrites(r) \/ UpdateRevokes(r)
Delete(r) == \/ \E i \in DOMAIN users, orphan \in BOOLEAN : DeleteArrives(r, i, orphan)
             \/ DeleteReads(r) \/ DeleteCounts(r) \/ DeleteIsOfAnother(r)
             \/ DeleteAssignments(r) \/ DeleteOwnerships(r) \/ DeleteRow(r)
Assign(r) == \/ \E i \in DOMAIN users : AssignArrives(r, i)
             \/ AssignChecksSubject(r) \/ AssignInserts(r)
Login(r) == \/ \E i \in DOMAIN users : LoginArrives(r, i)
            \/ LoginChecks(r) \/ LoginCreatesSession(r)

Next == \E r \in Request : Create(r) \/ Update(r) \/ Delete(r) \/ Assign(r) \/ Login(r)

Spec == Init /\ [][Next]_vars
------------------------------------------------------------------------------
(* What the handlers owe the accounts.  A property names the pairs of       *)
(* operations that must not have overlapped for it to hold; every other     *)
(* order of steps is covered.                                               *)

TypeOK ==
  /\ DOMAIN users \subseteq Id /\ \A i \in DOMAIN users : users[i] \in Account
  /\ assigned \subseteq Id /\ owning \in [Id -> Ownership]
  /\ signedIn \subseteq Name
  /\ request \in [Request -> Handler] /\ served \in 0 .. MaxRequests
  /\ met \subseteq {{a, b} : a, b \in {"create", "update", "delete", "assign", "login"}}

\* "Self-lockout protection: prevent reducing active admin count to zero"
\* (admin.py:114). The guard counts in one session and writes in another: it holds
\* unless two updates or deletions overlap, whatever else runs.
Overlaps(ops) == \E a, b \in ops : {a, b} \in met
AdminStays == ~Overlaps({"update", "delete"}) => Admins # {}

\* "Sessions invalidieren wenn Nutzer deaktiviert wird" (admin.py:132): when no
\* update is under way, an account that is not active has no session. A login
\* or another update that overlaps may leave one, and so may a creation that
\* gives the id of the update to an account whose name has sessions of old.
DisabledIsSignedOut ==
  /\ ~Overlaps({"update"}) /\ {"login", "update"} \notin met
  /\ {"create", "update"} \notin met
  /\ \A r \in Running : request[r].op # "update"
  => \A i \in DOMAIN users : ~users[i].active => users[i].name \notin signedIn

\* An assignment never outlives its account, to be inherited by the next account
\* with that id: the clean-up comes before the deletion, and only an assignment
\* that is made meanwhile escapes it.
AssignmentsHaveUser == {"assign", "delete"} \notin met => assigned \subseteq DOMAIN users

\* The user limit holds unless two creations overlap.
LimitHolds == {"create"} \notin met => Cardinality(DOMAIN users) <= MaxUsers

==============================================================================
