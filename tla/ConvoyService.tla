--------------------------- MODULE ConvoyService ---------------------------
(***************************************************************************)
(* The REST side of the backend: convoys, memberships, vehicles and the    *)
(* deletion of accounts, on PostgreSQL at READ COMMITTED.  A request is a  *)
(* sequence of SQL statements; statements of different requests interleave *)
(* freely, a transaction shows its writes when it commits.  Foreign keys,  *)
(* unique indexes, cascades and row locks are the schema's and the         *)
(* database's part.                                                        *)
(***************************************************************************)
EXTENDS Naturals, FiniteSets, Functions

CONSTANTS
  Person,   \* people with a Firebase identity
  Convoy,   \* convoy ids; each convoy that is created takes a new one
  Req,      \* requests; each is issued once, which bounds a behaviour
  None,     \* "no convoy" / "no vehicle" / "not resolved yet"
  Overlap,  \* may all changes of one person overlap, or only with its deletion?
  Past,     \* where behaviours start, see Init
  Spent     \* how many of the requests the start "crossed" has used up

ASSUME ServiceAssumption ==
  /\ None \notin Convoy /\ None \notin Req
  /\ Overlap \in BOOLEAN
  /\ Past \subseteq {"none", "crossed"}
  /\ Spent \in Nat

VARIABLES
  account,   \* account[p]: number of p's row in users, 0 when there is none
  minted,    \* minted[p]: rows of users ever created for p
  convoys,   \* rows of convoys
  members,   \* rows of convoy_members
  vehicles,  \* rows of vehicles
  req,       \* req[r]: request r, where it is and how it was answered
  erased     \* people who were told that their account is gone, and are quiet since

tables == <<account, minted, convoys, members, vehicles>>
vars == <<tables, req, erased>>

User == Person \X Nat
ConvoyRow  == [id : Convoy, owner : User]
MemberRow  == [convoy : Convoy, user : User, role : {"owner", "member"}, left : BOOLEAN]
VehicleRow == [id : Req, user : User]
Entry      == [user : User, vehicle : Req \cup {None}]

(* What people ask for, and the SQL statements that requests wait to run   *)
Op         == {"create", "join", "leave", "get", "aim", "put", "unset", "delete"}
Changing   == Op \ {"get", "delete"}
OnConvoy   == {"join", "leave", "get", "aim"}
Statement  == {"create", "find", "membership", "insert", "rejoin", "leave", "check", "lookup",
               "aim", "convoy", "roster", "unseat", "seat", "unset", "eraseConvoys", "eraseUser"}

FirstStatement(op) ==
  CASE op = "join"   -> "find"
    [] op = "get"    -> "check"
    [] op = "aim"    -> "lookup"
    [] op = "put"    -> "unseat"
    [] op = "delete" -> "eraseConvoys"
    [] OTHER         -> op

UserExists(u)   == u[2] # 0 /\ account[u[1]] = u[2]
ConvoyExists(c) == \E v \in convoys : v.id = c
RowsOf(c, u)    == {m \in members : m.convoy = c /\ m.user = u}
OwnedBy(u)      == {v.id : v \in {w \in convoys : w.owner = u}}
VehiclesOf(u)   == {v \in vehicles : v.user = u}

(* Ids that no row and no request refers to.                               *)
FreshIds == {c \in Convoy : ~ConvoyExists(c) /\ \A s \in Req : req[s].convoy # c}

Running(r) == req[r].at \in Statement \cup {"auth"}

(* An account deletion whose transaction is open holds the rows of the     *)
(* convoys it has deleted, and those of their members.                     *)
Locked(c) == \E s \in Req : req[s].at = "eraseUser" /\ c \in req[s].held

GoTo(r, where)  == req' = [req EXCEPT ![r].at = where]
Answer(r, code) == req' = [req EXCEPT ![r] = [@ EXCEPT !.at = "done", !.code = code]]
At(r, where)    == req[r].at = where

-----------------------------------------------------------------------------
(* Issuing a request, and the hook that runs before every route.           *)

(* The app, or any holder of the person's token, sends a request about a   *)
(* convoy that exists.  (Convoy bounds how many convoys there can be, so   *)
(* creations are only issued while there are ids for all of them.)         *)
Issue(r, p, op, c) ==
  /\ At(r, "new")
  /\ IF op \in OnConvoy THEN ConvoyExists(c) ELSE c = None
  /\ op = "create" =>
       Cardinality({s \in Req : req[s].op = "create" /\ req[s].at \in {"auth", "create"}})
         < Cardinality(FreshIds)
  /\ op \in Changing /\ ~Overlap =>
       ~ \E s \in Req : Running(s) /\ req[s].person = p /\ req[s].op \in Changing
  /\ req' = [req EXCEPT ![r] = [@ EXCEPT !.op = op, !.person = p, !.convoy = c, !.at = "auth"]]
  /\ erased' = erased \ {p}
  /\ UNCHANGED tables

(* Slip: users are numbered by how many there are, and numbers come back.  *)
AuthReusesIds(r) ==
  LET p == req[r].person IN
  /\ At(r, "auth")
  /\ account' = [account EXCEPT ![p] = 1]
  /\ req' = [req EXCEPT ![r] = [@ EXCEPT !.at = FirstStatement(req[r].op), !.user = <<p, 1>>]]
  /\ UNCHANGED <<minted, convoys, members, vehicles, erased>>

(* getOrCreateUser: INSERT ... ON CONFLICT DO UPDATE.                      *)
Auth(r) ==
  LET p == req[r].person
      n == IF account[p] = 0 THEN minted[p] + 1 ELSE account[p]
  IN
  /\ At(r, "auth")
  /\ account' = [account EXCEPT ![p] = n]
  /\ minted' = [minted EXCEPT ![p] = IF n > @ THEN n ELSE @]
  /\ req' = [req EXCEPT ![r] = [@ EXCEPT !.at = FirstStatement(req[r].op), !.user = <<p, n>>]]
  /\ UNCHANGED <<convoys, members, vehicles, erased>>

-----------------------------------------------------------------------------
(* Creating, joining, leaving and aiming a convoy; its payload.            *)

CreateConvoy(r) ==
  LET u == req[r].user IN
  /\ At(r, "create")
  /\ \/ /\ ~UserExists(u)                        \* foreign key
        /\ Answer(r, 500)
        /\ UNCHANGED tables
     \/ /\ UserExists(u)
        /\ \E c \in FreshIds :
             /\ convoys' = convoys \cup {[id |-> c, owner |-> u]}
             /\ members' = members \cup {[convoy |-> c, user |-> u, role |-> "owner", left |-> FALSE]}
             /\ req' = [req EXCEPT ![r] = [@ EXCEPT !.at = "convoy", !.convoy = c]]
        /\ UNCHANGED <<account, minted, vehicles>>
  /\ UNCHANGED erased

FindConvoy(r) ==
  /\ At(r, "find")
  /\ IF ConvoyExists(req[r].convoy) THEN GoTo(r, "membership") ELSE Answer(r, 404)
  /\ UNCHANGED <<tables, erased>>

(* Slip: a membership that was left counts as a membership.                *)
FindAnyMembership(r) ==
  /\ At(r, "membership")
  /\ GoTo(r, IF RowsOf(req[r].convoy, req[r].user) = {} THEN "insert" ELSE "convoy")
  /\ UNCHANGED <<tables, erased>>

(* Slip: memberships that were left are not looked at.                     *)
FindActiveMembership(r) ==
  LET rows == RowsOf(req[r].convoy, req[r].user) IN
  /\ At(r, "membership")
  /\ GoTo(r, IF \E m \in rows : ~m.left THEN "convoy" ELSE "insert")
  /\ UNCHANGED <<tables, erased>>

FindMembership(r) ==
  LET rows == RowsOf(req[r].convoy, req[r].user) IN
  /\ At(r, "membership")
  /\ GoTo(r, IF rows = {} THEN "insert"
             ELSE IF \E m \in rows : m.left THEN "rejoin" ELSE "convoy")
  /\ UNCHANGED <<tables, erased>>

(* Both foreign keys and the unique index on (convoy, user) are checked.   *)
InsertMember(r) ==
  LET c == req[r].convoy
      u == req[r].user
  IN
  /\ At(r, "insert") /\ ~Locked(c)
  /\ IF ConvoyExists(c) /\ UserExists(u) /\ RowsOf(c, u) = {}
     THEN /\ members' = members \cup {[convoy |-> c, user |-> u, role |-> "member", left |-> FALSE]}
          /\ GoTo(r, "convoy")
     ELSE Answer(r, 500) /\ UNCHANGED members
  /\ UNCHANGED <<account, minted, convoys, vehicles, erased>>

SetLeft(c, u, to) ==
  {IF m.convoy = c /\ m.user = u THEN [m EXCEPT !.left = to] ELSE m : m \in members}

(* Slip: whoever comes back is a plain member.                             *)
RejoinAsMember(r) ==
  /\ At(r, "rejoin") /\ ~Locked(req[r].convoy)
  /\ members' = {IF m \in RowsOf(req[r].convoy, req[r].user)
                 THEN [m EXCEPT !.left = FALSE, !.role = "member"] ELSE m : m \in members}
  /\ GoTo(r, "convoy")
  /\ UNCHANGED <<account, minted, convoys, vehicles, erased>>

Rejoin(r) ==
  /\ At(r, "rejoin") /\ ~Locked(req[r].convoy)
  /\ members' = SetLeft(req[r].convoy, req[r].user, FALSE)
  /\ GoTo(r, "convoy")
  /\ UNCHANGED <<account, minted, convoys, vehicles, erased>>

LeaveConvoy(r) ==
  LET rows == {m \in RowsOf(req[r].convoy, req[r].user) : ~m.left} IN
  /\ At(r, "leave")
  /\ rows # {} => ~Locked(req[r].convoy)
  /\ members' = SetLeft(req[r].convoy, req[r].user, TRUE)
  /\ Answer(r, 204)
  /\ UNCHANGED <<account, minted, convoys, vehicles, erased>>

(* getConvoyForMember: current members only.                               *)
CheckMember(r) ==
  /\ At(r, "check")
  /\ IF \E m \in RowsOf(req[r].convoy, req[r].user) : ~m.left
     THEN GoTo(r, "convoy") ELSE Answer(r, 404)
  /\ UNCHANGED <<tables, erased>>

(* setConvoyDestination: whoever owns the convoy may aim it.               *)
FindOwned(r) ==
  /\ At(r, "lookup")
  /\ IF ~ConvoyExists(req[r].convoy) THEN Answer(r, 404)
     ELSE IF req[r].convoy \in OwnedBy(req[r].user) THEN GoTo(r, "aim") ELSE Answer(r, 403)
  /\ UNCHANGED <<tables, erased>>

(* The UPDATE waits for an open deletion of the row, and finds none to     *)
(* change after it; nothing here depends on what the destination is.       *)
SetDestination(r) ==
  /\ At(r, "aim") /\ ~Locked(req[r].convoy)
  /\ GoTo(r, "convoy")
  /\ UNCHANGED <<tables, erased>>

LoadConvoy(r) ==
  /\ At(r, "convoy")
  /\ IF ConvoyExists(req[r].convoy) THEN GoTo(r, "roster") ELSE Answer(r, 500)
  /\ UNCHANGED <<tables, erased>>

(* Current members, LEFT JOIN their vehicles: one entry per pair.          *)
Roster(c) ==
  UNION {IF VehiclesOf(m.user) = {} THEN {[user |-> m.user, vehicle |-> None]}
         ELSE {[user |-> m.user, vehicle |-> v.id] : v \in VehiclesOf(m.user)} :
           m \in {n \in members : n.convoy = c /\ ~n.left}}

LoadRoster(r) ==
  /\ At(r, "roster")
  /\ req' = [req EXCEPT ![r] = [@ EXCEPT !.at = "done",
                        !.code = IF req[r].op = "create" THEN 201 ELSE 200,
                        !.roster = Roster(req[r].convoy)]]
  /\ UNCHANGED <<tables, erased>>

-----------------------------------------------------------------------------
(* The vehicle: DELETE, then INSERT, in one transaction.  The DELETE sees  *)
(* what was committed when it began.                                       *)

(* Slip: the new vehicle is added to the old one.                          *)
KeepOldVehicle(r) ==
  /\ At(r, "unseat")
  /\ req' = [req EXCEPT ![r] = [@ EXCEPT !.at = "seat", !.held = {}]]
  /\ UNCHANGED <<tables, erased>>

DeleteOldVehicle(r) ==
  /\ At(r, "unseat")
  /\ req' = [req EXCEPT ![r] = [@ EXCEPT !.at = "seat", !.held = VehiclesOf(req[r].user)]]
  /\ UNCHANGED <<tables, erased>>

(* Slip: vehicles.user_id without its foreign key.                         *)
InsertVehicleUnchecked(r) ==
  /\ At(r, "seat")
  /\ vehicles' = (vehicles \ req[r].held) \cup {[id |-> r, user |-> req[r].user]}
  /\ Answer(r, 200)
  /\ UNCHANGED <<account, minted, convoys, members, erased>>

InsertVehicle(r) ==
  LET u == req[r].user IN
  /\ At(r, "seat")
  /\ IF UserExists(u)
     THEN /\ vehicles' = (vehicles \ req[r].held) \cup {[id |-> r, user |-> u]}
          /\ Answer(r, 200)
     ELSE Answer(r, 500) /\ UNCHANGED vehicles
  /\ UNCHANGED <<account, minted, convoys, members, erased>>

UnsetVehicle(r) ==
  /\ At(r, "unset")
  /\ vehicles' = vehicles \ VehiclesOf(req[r].user)
  /\ Answer(r, 204)
  /\ UNCHANGED <<account, minted, convoys, members, erased>>

-----------------------------------------------------------------------------
(* Deleting an account: DELETE convoys, then DELETE users, in one          *)
(* transaction.                                                            *)

EraseConvoys(r) ==
  LET owned == OwnedBy(req[r].user) IN
  /\ At(r, "eraseConvoys")
  /\ \A c \in owned : ~Locked(c)
  /\ req' = [req EXCEPT ![r] = [@ EXCEPT !.at = "eraseUser", !.held = owned]]
  /\ UNCHANGED <<tables, erased>>

(* The cascade from users to convoy_members needs rows that another open   *)
(* deletion has deleted.                                                   *)
WaitsFor(r, s) ==
  /\ At(r, "eraseUser") /\ At(s, "eraseUser") /\ r # s
  /\ \E m \in members : m.user = req[r].user /\ m.convoy \in req[s].held

InDeadlock(r) == \E S \in SUBSET Req : r \in S /\ \A s \in S : \E t \in S : WaitsFor(s, t)

(* A vehicle replacement holds vehicle rows of the user, and will wait for *)
(* the user row: the database may pick the deletion as the victim.         *)
VehicleHeld(r) == \E s \in Req : At(s, "seat") /\ req[s].held \cap VehiclesOf(req[r].user) # {}

(* A convoy created since the first statement still refers to the user.    *)
EraseUser(r) ==
  LET u == req[r].user IN
  /\ At(r, "eraseUser")
  /\ ~ \E s \in Req : WaitsFor(r, s)
  /\ OwnedBy(u) \subseteq req[r].held
  /\ account' = [account EXCEPT ![u[1]] = IF @ = u[2] THEN 0 ELSE @]
  /\ convoys' = {v \in convoys : v.id \notin req[r].held}
  /\ members' = {m \in members : m.convoy \notin req[r].held /\ m.user # u}
  /\ vehicles' = vehicles \ VehiclesOf(u)
  /\ Answer(r, 204)
  /\ erased' = erased \cup {u[1]}
  /\ UNCHANGED minted

(* Foreign-key violation or deadlock: rolled back, nothing deleted.        *)
EraseFails(r) ==
  /\ At(r, "eraseUser")
  /\ InDeadlock(r) \/ VehicleHeld(r) \/ ~(OwnedBy(req[r].user) \subseteq req[r].held)
  /\ Answer(r, 500)
  /\ UNCHANGED <<tables, erased>>

-----------------------------------------------------------------------------
Unissued == [op |-> None, person |-> None, convoy |-> None, user |-> None,
             at |-> "new", held |-> {}, code |-> 0, roster |-> {}]

(* Nobody has an account; or everybody has, owns a convoy and is in        *)
(* everybody's, which takes more requests than a run can afford.           *)
Init ==
  /\ \/ /\ "none" \in Past
        /\ account = [p \in Person |-> 0]
        /\ convoys = {} /\ members = {}
        /\ req = [r \in Req |-> Unissued]
     \/ /\ "crossed" \in Past
        /\ account = [p \in Person |-> 1]
        /\ \E own \in Injection(Person, Convoy) :
             /\ convoys = {[id |-> own[p], owner |-> <<p, 1>>] : p \in Person}
             /\ members = {[convoy |-> own[p], user |-> <<q, 1>>,
                            role |-> IF p = q THEN "owner" ELSE "member",
                            left |-> FALSE] : p, q \in Person}
        /\ \E gone \in SUBSET Req :
             /\ Cardinality(gone) = Spent
             /\ req = [r \in Req |-> [Unissued EXCEPT !.at = IF r \in gone THEN "done" ELSE "new"]]
  /\ minted = account
  /\ vehicles = {}
  /\ erased = {}

Handle(r) ==
  \/ Auth(r)
  \/ CreateConvoy(r)
  \/ FindConvoy(r) \/ FindMembership(r) \/ InsertMember(r) \/ Rejoin(r)
  \/ LeaveConvoy(r) \/ CheckMember(r) \/ FindOwned(r) \/ SetDestination(r) \/ LoadConvoy(r) \/ LoadRoster(r)
  \/ DeleteOldVehicle(r) \/ InsertVehicle(r) \/ UnsetVehicle(r)
  \/ EraseConvoys(r) \/ EraseUser(r) \/ EraseFails(r)

Idle == (\A r \in Req : At(r, "done")) /\ UNCHANGED vars

Next ==
  \/ \E r \in Req, p \in Person, op \in Op, c \in Convoy \cup {None} : Issue(r, p, op, c)
  \/ \E r \in Req : Handle(r)
  \/ Idle

Spec == Init /\ [][Next]_vars

-----------------------------------------------------------------------------
(* Properties.                                                             *)

Request == [op : Op \cup {None}, person : Person \cup {None}, convoy : Convoy \cup {None}, user : User \cup {None},
            at : Statement \cup {"new", "auth", "done"},
            held : (SUBSET Convoy) \cup (SUBSET VehicleRow),
            code : {0, 200, 201, 204, 403, 404, 500}, roster : SUBSET Entry]

TypeOK ==
  /\ account \in [Person -> Nat] /\ minted \in [Person -> Nat]
  /\ \A p \in Person : account[p] <= minted[p]
  /\ convoys \subseteq ConvoyRow /\ members \subseteq MemberRow /\ vehicles \subseteq VehicleRow
  /\ req \in [Req -> Request]
  /\ erased \subseteq Person

(* Every convoy has exactly one membership row with the leader's role, its *)
(* owner's, whether the owner is in the convoy or has left it, and nobody  *)
(* has two rows: joining, leaving, coming back and account deletions in    *)
(* between leave no convoy without, and none with a second, leader.        *)
OwnerLeads ==
  /\ \A v \in convoys : \E m \in RowsOf(v.id, v.owner) : m.role = "owner"
  /\ \A m \in members : m.role = "owner" => m.convoy \in OwnedBy(m.user)
  /\ \A m, n \in members : m.convoy = n.convoy /\ m.user = n.user => m = n
  /\ \A v, w \in convoys : v.id = w.id => v = w

(* Once a deletion is answered 204, no row of the deleted account exists,  *)
(* nor does one appear: what the account's other requests still had to     *)
(* write fails or is erased with it.                                       *)
DeletedForGood ==
  \A r \in Req : req[r].op = "delete" /\ req[r].code = 204 =>
    /\ ~UserExists(req[r].user)
    /\ \A v \in convoys : v.owner # req[r].user
    /\ \A m \in members : m.user # req[r].user
    /\ \A v \in vehicles : v.user # req[r].user

(* Who is told that a create or a join succeeded finds itself in the       *)
(* roster of the reply, unless the convoy was deleted meanwhile.           *)
JoinerListed ==
  [][\A r \in Req :
       At(r, "roster") /\ req'[r].at = "done" /\ req[r].op \in {"create", "join"} =>
         \/ \E e \in req'[r].roster : e.user = req[r].user
         \/ ~ConvoyExists(req[r].convoy)
         \/ ~UserExists(req[r].user)]_vars

(* No roster lists a member twice, as it would with two vehicle rows.      *)
OneEntryEach ==
  \A r \in Req : \A e, f \in req[r].roster : e.user = f.user => e = f

(* A request fails with an internal error only because of an account that  *)
(* is, or was, being deleted.                                              *)
ErrorsExplained ==
  (\E r \in Req : req[r].code = 500) =>
    \E s \in Req : req[s].op = "delete" /\ req[s].at \in {"eraseUser", "done"}

(* Somebody who was told that the account is gone, and asked for nothing   *)
(* since, has none.                                                        *)
StaysErased == \A p \in erased : account[p] = 0

=============================================================================
