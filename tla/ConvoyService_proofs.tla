----------------------- MODULE ConvoyService_proofs -----------------------
(***************************************************************************)
(* Proofs about ConvoyService.  Whether or not the changes of one person   *)
(* overlap: types, one leader per convoy, and the completeness of an       *)
(* account's deletion.  When they do not overlap: one roster entry each,   *)
(* who joined is in the roster, and errors only next to a deletion.        *)
(***************************************************************************)
EXTENDS ConvoyService, TLAPS

(* The foreign keys: rows refer to accounts and convoys that exist.        *)
Referential ==
  /\ \A v \in convoys : UserExists(v.owner)
  /\ \A m \in members : ConvoyExists(m.convoy) /\ UserExists(m.user)
  /\ \A v \in vehicles : UserExists(v.user)

(* A user row that was created at some time.                               *)
WasMinted(u) == u \in User /\ u[2] # 0 /\ u[2] <= minted[u[1]]

(* What a request carries at each point: a person until the hook has run,  *)
(* a user row afterwards, an answer at the end.                            *)
Carries(q) ==
  /\ q.at = "auth" => q.op \in Op /\ q.person \in Person
  /\ q.at = "leave" => q.op = "leave"
  /\ q.at = "unset" => q.op = "unset"
  /\ q.at \in Statement \/ q.code # 0 => WasMinted(q.user)
  /\ q.code # 0 => q.at = "done"

Typed == TypeOK /\ \A r \in Req : Carries(req[r])

ServiceInv ==
  /\ Typed
  /\ OwnerLeads
  /\ Referential
  /\ DeletedForGood

-----------------------------------------------------------------------------
(* Types, and what requests carry.                                         *)

(* Waiting for a statement is neither being new nor in the hook nor done.  *)
LEMMA StatementsApart ==
  /\ "auth" \notin Statement /\ "new" \notin Statement /\ "done" \notin Statement
  /\ \A op \in Op : FirstStatement(op) \in Statement
  /\ \A op \in Op : FirstStatement(op) = "leave" => op = "leave"
  /\ \A op \in Op : FirstStatement(op) = "unset" => op = "unset"
BY DEF Statement, Op, FirstStatement

(* A request that runs a statement does so for a user row of its person.   *)
LEMMA RunsAsUser ==
  ASSUME Typed, NEW r \in Req, req[r].at \in Statement
  PROVE  WasMinted(req[r].user) /\ req[r].user[1] \in Person
BY DEF Typed, Carries, WasMinted, User

(* A step that touches one request.                                        *)
LEMMA OneRequest ==
  ASSUME Typed, NEW r \in Req, NEW q \in Request, Carries(q),
         req' = [req EXCEPT ![r] = q], minted' = minted
  PROVE  req' \in [Req -> Request] /\ \A s \in Req : Carries(req[s])'
<1>1. req \in [Req -> Request] /\ \A s \in Req : Carries(req[s])
  BY DEF Typed, TypeOK
<1>2. ASSUME NEW s \in Req PROVE Carries(req'[s])
  BY <1>1
<1> QED BY <1>1, <1>2 DEF Carries, WasMinted

(* A request that goes on to another statement, or is answered.            *)
LEMMA MoveTyped ==
  ASSUME Typed, NEW r \in Req, req[r].at \in Statement, minted' = minted,
         \/ \E a \in Statement \ {"leave", "unset"} : GoTo(r, a)
         \/ \E code \in {200, 201, 204, 403, 404, 500} : Answer(r, code)
  PROVE  req' \in [Req -> Request] /\ \A s \in Req : Carries(req[s])'
<1>1. req[r] \in Request /\ Carries(req[r])
  BY DEF Typed, TypeOK
<1>2. ASSUME NEW a \in Statement \ {"leave", "unset"}, GoTo(r, a)
      PROVE  req' \in [Req -> Request] /\ \A s \in Req : Carries(req[s])'
  <2> DEFINE q == [req[r] EXCEPT !.at = a]
  <2>1. q \in Request
    BY <1>1 DEF Request
  <2>2. Carries(q)
    BY <1>1, StatementsApart DEF Carries, Request
  <2> QED BY ZenonT(40), <1>2, <2>1, <2>2, OneRequest DEF GoTo
<1>3. ASSUME NEW code \in {200, 201, 204, 403, 404, 500}, Answer(r, code)
      PROVE  req' \in [Req -> Request] /\ \A s \in Req : Carries(req[s])'
  <2> DEFINE p == [req[r] EXCEPT !.at = "done"]
             q == [p EXCEPT !.code = code]
  <2>a. p \in Request /\ p.at = "done" /\ p.user = req[r].user
    BY <1>1 DEF Request
  <2> HIDE DEF p
  <2>1. q \in Request
    BY <2>a DEF Request
  <2>b. q.at = "done" /\ q.code = code /\ q.user = req[r].user
    BY <2>a DEF Request
  <2>2. Carries(q)
    BY <1>1, <2>b, StatementsApart DEF Carries
  <2> QED BY ZenonT(40), <1>3, <2>1, <2>2, OneRequest DEF Answer, p
<1> QED BY <1>2, <1>3

(* Each step preserves the types and what requests carry.                  *)
LEMMA TypedStep ==
  ASSUME Typed, [Next]_vars
  PROVE  Typed'
<1>1. ASSUME NEW r \in Req, NEW p \in Person, NEW op \in Op, NEW c \in Convoy \cup {None}, Issue(r, p, op, c)
      PROVE  Typed'
  <2> DEFINE q1 == [req[r] EXCEPT !.op = op]
             q2 == [q1 EXCEPT !.person = p]
             q3 == [q2 EXCEPT !.convoy = c]
             q  == [q3 EXCEPT !.at = "auth"]
  <2>a. req[r] \in Request /\ req[r].code = 0
    BY <1>1 DEF Typed, TypeOK, Carries, Issue, At
  <2> HIDE DEF q1, q2, q3
  <2>b. q1 \in Request /\ q1.op = op /\ q1.code = req[r].code
    BY <2>a DEF Request, q1
  <2>c. q2 \in Request /\ q2.op = op /\ q2.person = p /\ q2.code = req[r].code
    BY <2>b DEF Request, q2
  <2>d. q3 \in Request /\ q3.op = op /\ q3.person = p /\ q3.code = req[r].code
    BY <2>c DEF Request, q3
  <2>1. q \in Request /\ q.op = op /\ q.person = p /\ q.code = 0 /\ q.at = "auth"
    BY <2>a, <2>d DEF Request
  <2>2. Carries(q)
    BY <2>1, StatementsApart DEF Carries
  <2> QED BY <1>1, <2>1, <2>2, OneRequest DEF Issue, Typed, TypeOK, tables, q1, q2, q3
<1>2. ASSUME NEW r \in Req, FindConvoy(r)
      PROVE  Typed'
  <2>1. req' \in [Req -> Request] /\ \A s \in Req : Carries(req[s])'
    BY <1>2, MoveTyped DEF FindConvoy, At, Statement, tables
  <2> QED BY <1>2, <2>1 DEF FindConvoy, Typed, TypeOK, tables
<1>3. ASSUME NEW r \in Req, FindMembership(r)
      PROVE  Typed'
  <2>1. req' \in [Req -> Request] /\ \A s \in Req : Carries(req[s])'
    BY <1>3, MoveTyped DEF FindMembership, At, Statement, tables
  <2> QED BY <1>3, <2>1 DEF FindMembership, Typed, TypeOK, tables
<1>4. ASSUME NEW r \in Req, CheckMember(r)
      PROVE  Typed'
  <2>1. req' \in [Req -> Request] /\ \A s \in Req : Carries(req[s])'
    BY <1>4, MoveTyped DEF CheckMember, At, Statement, tables
  <2> QED BY <1>4, <2>1 DEF CheckMember, Typed, TypeOK, tables
<1>5. ASSUME NEW r \in Req, LoadConvoy(r)
      PROVE  Typed'
  <2>1. req' \in [Req -> Request] /\ \A s \in Req : Carries(req[s])'
    BY <1>5, MoveTyped DEF LoadConvoy, At, Statement, tables
  <2> QED BY <1>5, <2>1 DEF LoadConvoy, Typed, TypeOK, tables
<1>6. ASSUME NEW r \in Req, EraseFails(r)
      PROVE  Typed'
  <2>1. req' \in [Req -> Request] /\ \A s \in Req : Carries(req[s])'
    BY <1>6, MoveTyped DEF EraseFails, At, Statement, tables
  <2> QED BY <1>6, <2>1 DEF EraseFails, Typed, TypeOK, tables
<1>7. ASSUME NEW r \in Req, LeaveConvoy(r)
      PROVE  Typed'
  <2>1. req' \in [Req -> Request] /\ \A s \in Req : Carries(req[s])'
    BY <1>7, MoveTyped DEF LeaveConvoy, At, Statement, tables
  <2> QED BY <1>7, <2>1 DEF LeaveConvoy, Typed, TypeOK, tables, RowsOf, SetLeft, MemberRow
<1>8. ASSUME NEW r \in Req, Rejoin(r)
      PROVE  Typed'
  <2>1. req' \in [Req -> Request] /\ \A s \in Req : Carries(req[s])'
    BY <1>8, MoveTyped DEF Rejoin, At, Statement, tables
  <2> QED BY <1>8, <2>1 DEF Rejoin, Typed, TypeOK, tables, RowsOf, SetLeft, MemberRow
<1>9. ASSUME NEW r \in Req, UnsetVehicle(r)
      PROVE  Typed'
  <2>1. req' \in [Req -> Request] /\ \A s \in Req : Carries(req[s])'
    BY <1>9, MoveTyped DEF UnsetVehicle, At, Statement, tables
  <2> QED BY <1>9, <2>1 DEF UnsetVehicle, Typed, TypeOK, tables, VehiclesOf
<1>10. ASSUME NEW r \in Req, InsertMember(r)
      PROVE  Typed'
  <2>1. req' \in [Req -> Request] /\ \A s \in Req : Carries(req[s])'
    BY <1>10, MoveTyped DEF InsertMember, At, Statement, tables
  <2>2. WasMinted(req[r].user)
    BY <1>10, RunsAsUser DEF InsertMember, At, Statement
  <2>a. ConvoyExists(req[r].convoy) => req[r].convoy \in Convoy
    BY DEF Typed, TypeOK, ConvoyRow, ConvoyExists
  <2>b. ConvoyExists(req[r].convoy) =>
          [convoy |-> req[r].convoy, user |-> req[r].user, role |-> "member", left |-> FALSE] \in MemberRow
    BY <2>2, <2>a DEF WasMinted, MemberRow
  <2>3. members' \subseteq MemberRow
    BY <1>10, <2>b DEF InsertMember, Typed, TypeOK
  <2> QED BY <1>10, <2>1, <2>3 DEF InsertMember, Typed, TypeOK, tables
<1>11. ASSUME NEW r \in Req, InsertVehicle(r)
      PROVE  Typed'
  <2>1. req' \in [Req -> Request] /\ \A s \in Req : Carries(req[s])'
    BY <1>11, MoveTyped DEF InsertVehicle, At, Statement, tables
  <2>2. WasMinted(req[r].user)
    BY <1>11, RunsAsUser DEF InsertVehicle, At, Statement
  <2>3. vehicles' \subseteq VehicleRow
    BY <1>11, <2>2 DEF InsertVehicle, Typed, TypeOK, WasMinted, VehicleRow, tables
  <2> QED BY <1>11, <2>1, <2>3 DEF InsertVehicle, Typed, TypeOK, tables
<1>12. ASSUME NEW r \in Req, EraseUser(r)
      PROVE  Typed'
  <2>1. req' \in [Req -> Request] /\ \A s \in Req : Carries(req[s])'
    BY <1>12, MoveTyped DEF EraseUser, At, Statement, tables
  <2>2. req[r].user[1] \in Person
    BY <1>12, RunsAsUser DEF EraseUser, At, Statement
  <2>3. account' \in [Person -> Nat] /\ \A p \in Person : account'[p] <= minted[p]
    BY <1>12, <2>2 DEF EraseUser, Typed, TypeOK
  <2> QED BY <1>12, <2>1, <2>2, <2>3 DEF EraseUser, Typed, TypeOK, VehiclesOf
<1>13. ASSUME NEW r \in Req, DeleteOldVehicle(r)
       PROVE  Typed'
  <2> DEFINE p == [req[r] EXCEPT !.at = "seat"]
             q == [p EXCEPT !.held = VehiclesOf(req[r].user)]
  <2>1. req[r] \in Request /\ req[r].at \in Statement /\ Carries(req[r])
    BY <1>13 DEF Typed, TypeOK, DeleteOldVehicle, At, Statement
  <2>2. VehiclesOf(req[r].user) \in SUBSET VehicleRow
    BY DEF Typed, TypeOK, VehiclesOf
  <2>3. p \in Request /\ p.at = "seat" /\ p.code = req[r].code /\ p.user = req[r].user
    BY <2>1 DEF Request, Statement
  <2> HIDE DEF p
  <2>4. q \in Request /\ q.at = "seat" /\ q.code = req[r].code /\ q.user = req[r].user
    BY <2>2, <2>3 DEF Request
  <2>5. Carries(q)
    BY <2>1, <2>4, StatementsApart DEF Carries
  <2> QED BY <1>13, <2>4, <2>5, OneRequest DEF DeleteOldVehicle, Typed, TypeOK, tables, p
<1>14. ASSUME NEW r \in Req, EraseConvoys(r)
       PROVE  Typed'
  <2> DEFINE p == [req[r] EXCEPT !.at = "eraseUser"]
             q == [p EXCEPT !.held = OwnedBy(req[r].user)]
  <2>1. req[r] \in Request /\ req[r].at \in Statement /\ Carries(req[r])
    BY <1>14 DEF Typed, TypeOK, EraseConvoys, At, Statement
  <2>2. OwnedBy(req[r].user) \in SUBSET Convoy
    BY DEF Typed, TypeOK, OwnedBy, ConvoyRow
  <2>3. p \in Request /\ p.at = "eraseUser" /\ p.code = req[r].code /\ p.user = req[r].user
    BY <2>1 DEF Request, Statement
  <2> HIDE DEF p
  <2>4. q \in Request /\ q.at = "eraseUser" /\ q.code = req[r].code /\ q.user = req[r].user
    BY <2>2, <2>3 DEF Request
  <2>5. Carries(q)
    BY <2>1, <2>4, StatementsApart DEF Carries
  <2> QED BY <1>14, <2>4, <2>5, OneRequest DEF EraseConvoys, Typed, TypeOK, tables, p
<1>15. ASSUME NEW r \in Req, LoadRoster(r)
       PROVE  Typed'
  <2> DEFINE code == IF req[r].op = "create" THEN 201 ELSE 200
             p1 == [req[r] EXCEPT !.at = "done"]
             p2 == [p1 EXCEPT !.code = code]
             q  == [p2 EXCEPT !.roster = Roster(req[r].convoy)]
  <2>1. req[r] \in Request /\ req[r].at \in Statement /\ Carries(req[r])
    BY <1>15 DEF Typed, TypeOK, LoadRoster, At, Statement
  <2>2. Roster(req[r].convoy) \in SUBSET Entry
    BY DEF Typed, TypeOK, Roster, Entry, VehiclesOf, MemberRow, VehicleRow
  <2>3. p1 \in Request /\ p1.at = "done" /\ p1.user = req[r].user
    BY <2>1 DEF Request
  <2> HIDE DEF p1, p2
  <2>4. p2 \in Request /\ p2.at = "done" /\ p2.user = req[r].user
    BY <2>3 DEF Request, p2
  <2>5. q \in Request /\ q.at = "done" /\ q.user = req[r].user
    BY <2>2, <2>4 DEF Request
  <2>6. Carries(q)
    BY <2>1, <2>5, StatementsApart DEF Carries
  <2> QED BY ZenonT(40), <1>15, <2>5, <2>6, OneRequest DEF LoadRoster, Typed, TypeOK, tables, p1, p2
<1>16. ASSUME NEW r \in Req, CreateConvoy(r)
       PROVE  Typed'
  <2>1. req[r] \in Request /\ req[r].at \in Statement /\ Carries(req[r]) /\ req[r].user \in User
    BY <1>16, RunsAsUser DEF Typed, TypeOK, CreateConvoy, At, Statement, WasMinted
  <2>2. CASE Answer(r, 500) /\ UNCHANGED tables
    <3>1. req' \in [Req -> Request] /\ \A s \in Req : Carries(req[s])'
      BY <2>1, <2>2, MoveTyped DEF tables
    <3> QED BY <1>16, <2>2, <3>1 DEF CreateConvoy, Typed, TypeOK, tables
  <2>3. ASSUME NEW c \in FreshIds,
               convoys' = convoys \cup {[id |-> c, owner |-> req[r].user]},
               members' = members \cup {[convoy |-> c, user |-> req[r].user,
                                          role |-> "owner", left |-> FALSE]},
               req' = [req EXCEPT ![r] = [@ EXCEPT !.at = "convoy", !.convoy = c]],
               UNCHANGED <<account, minted, vehicles, erased>>
        PROVE  Typed'
    <3> DEFINE p == [req[r] EXCEPT !.at = "convoy"]
               q == [p EXCEPT !.convoy = c]
    <3>1. c \in Convoy
      BY DEF FreshIds
    <3>2. p \in Request /\ p.at = "convoy" /\ p.code = req[r].code /\ p.user = req[r].user
      BY <2>1 DEF Request, Statement
    <3> HIDE DEF p
    <3>3. q \in Request /\ q.at = "convoy" /\ q.code = req[r].code /\ q.user = req[r].user
      BY <3>1, <3>2 DEF Request
    <3>4. Carries(q)
      BY <2>1, <3>3, StatementsApart DEF Carries
    <3>5. req' \in [Req -> Request] /\ \A s \in Req : Carries(req[s])'
      BY <2>3, <3>3, <3>4, OneRequest DEF p
    <3>6. /\ [id |-> c, owner |-> req[r].user] \in ConvoyRow
          /\ [convoy |-> c, user |-> req[r].user, role |-> "owner", left |-> FALSE] \in MemberRow
      BY <2>1, <3>1 DEF ConvoyRow, MemberRow
    <3>7. convoys' \subseteq ConvoyRow /\ members' \subseteq MemberRow
      BY <2>3, <3>6 DEF Typed, TypeOK
    <3> QED BY <2>3, <3>5, <3>7 DEF Typed, TypeOK
  <2> QED BY <1>16, <2>2, <2>3 DEF CreateConvoy
<1>17. ASSUME NEW r \in Req, Auth(r)
       PROVE  Typed'
  <2> DEFINE p  == req[r].person
             n  == IF account[p] = 0 THEN minted[p] + 1 ELSE account[p]
             st == FirstStatement(req[r].op)
             q1 == [req[r] EXCEPT !.at = st]
             q  == [q1 EXCEPT !.user = <<p, n>>]
  <2>1. req[r] \in Request /\ Carries(req[r]) /\ p \in Person /\ req[r].op \in Op
    BY <1>17 DEF Typed, TypeOK, Carries, Auth, At
  <2>2. n \in Nat /\ n # 0 /\ account[p] <= minted[p] /\ account[p] <= n
    BY <2>1 DEF Typed, TypeOK
  <2>3. st \in Statement /\ (st = "leave" => req[r].op = "leave") /\ (st = "unset" => req[r].op = "unset")
    BY <2>1, StatementsApart
  <2>4. minted' \in [Person -> Nat] /\ minted'[p] >= n /\ \A o \in Person : minted'[o] >= minted[o]
    BY <1>17, <2>1, <2>2 DEF Auth, Typed, TypeOK
  <2>5. account' \in [Person -> Nat] /\ \A o \in Person : account'[o] <= minted'[o]
    BY <1>17, <2>1, <2>2, <2>4 DEF Auth, Typed, TypeOK
  <2>6. q1 \in Request /\ q1.at = st /\ q1.code = req[r].code /\ q1.op = req[r].op
    BY <2>1, <2>3 DEF Request
  <2> HIDE DEF st, q1, n
  <2>7. <<p, n>> \in User
    BY <2>1, <2>2 DEF User
  <2>8. q \in Request /\ q.at = st /\ q.code = req[r].code /\ q.op = req[r].op /\ q.user = <<p, n>>
    BY <2>6, <2>7 DEF Request
  <2>9. req' = [req EXCEPT ![r] = q]
    BY <1>17 DEF Auth, q1, st, n
  <2>10. req' \in [Req -> Request]
    BY <2>8, <2>9 DEF Typed, TypeOK
  <2>11. ASSUME NEW s \in Req PROVE Carries(req[s])'
    <3>1. CASE s = r
      <4>1. /\ req'[s].at = st /\ req'[s].op = req[r].op /\ req'[s].code = req[r].code
            /\ req'[s].user = <<p, n>>
        BY <2>8, <2>9, <3>1 DEF Typed, TypeOK
      <4>2. WasMinted(req[s].user)'
        BY <2>2, <2>4, <2>7, <4>1 DEF WasMinted
      <4>3. req[r].code = 0
        BY <1>17, <2>1 DEF Carries, Auth, At
      <4> QED BY <2>1, <2>3, <4>1, <4>2, <4>3, StatementsApart DEF Carries
    <3>2. CASE s # r
      <4>1. req'[s] = req[s] /\ Carries(req[s])
        BY <2>9, <3>2 DEF Typed, TypeOK
      <4>2. ASSUME NEW u, WasMinted(u) PROVE WasMinted(u)'
        BY <2>4, <4>2 DEF WasMinted, Typed, TypeOK, User
      <4> QED BY <4>1, <4>2 DEF Carries
    <3> QED BY <3>1, <3>2
  <2> QED BY <1>17, <2>4, <2>5, <2>10, <2>11 DEF Auth, Typed, TypeOK
<1>18. CASE UNCHANGED vars
  BY <1>18 DEF Typed, TypeOK, Carries, WasMinted, vars, tables
<1>19. ASSUME NEW r \in Req, FindOwned(r)
       PROVE  Typed'
  <2>1. req' \in [Req -> Request] /\ \A s \in Req : Carries(req[s])'
    BY <1>19, MoveTyped DEF FindOwned, At, Statement, tables
  <2> QED BY <1>19, <2>1 DEF FindOwned, Typed, TypeOK, tables
<1>20. ASSUME NEW r \in Req, SetDestination(r)
       PROVE  Typed'
  <2>1. req' \in [Req -> Request] /\ \A s \in Req : Carries(req[s])'
    BY <1>20, MoveTyped DEF SetDestination, At, Statement, tables
  <2> QED BY <1>20, <2>1 DEF SetDestination, Typed, TypeOK, tables
<1> QED BY <1>1, <1>2, <1>3, <1>4, <1>5, <1>6, <1>7, <1>8, <1>9, <1>10, <1>11, <1>12, <1>13,
           <1>14, <1>15, <1>16, <1>17, <1>18, <1>19, <1>20 DEF Next, Handle, Idle

-----------------------------------------------------------------------------
(* Rows.                                                                   *)

Rows == OwnerLeads /\ Referential

(* Marking memberships as left or current disturbs neither roles nor keys. *)
LEMMA MarkingKeepsRows ==
  ASSUME Typed, Rows, NEW c, NEW u, NEW to \in BOOLEAN, members' = SetLeft(c, u, to),
         UNCHANGED <<account, convoys, vehicles>>
  PROVE  Rows'
<1> DEFINE marked(m) == IF m.convoy = c /\ m.user = u THEN [m EXCEPT !.left = to] ELSE m
<1>1. members' = {marked(m) : m \in members}
  BY DEF SetLeft
<1>2. ASSUME NEW m \in members
      PROVE  marked(m).convoy = m.convoy /\ marked(m).user = m.user /\ marked(m).role = m.role
  BY DEF Typed, TypeOK, MemberRow
<1> HIDE DEF marked
<1>3. Referential'
  BY <1>1, <1>2 DEF Rows, Referential, ConvoyExists, UserExists
<1>4. \A v \in convoys : \E m \in members' : m.convoy = v.id /\ m.user = v.owner /\ m.role = "owner"
  <2> TAKE v \in convoys
  <2>1. PICK m \in members : m.convoy = v.id /\ m.user = v.owner /\ m.role = "owner"
    BY DEF Rows, OwnerLeads, RowsOf
  <2> QED BY <1>1, <1>2, <2>1
<1>5. \A m \in members' : m.role = "owner" => \E v \in convoys : v.id = m.convoy /\ v.owner = m.user
  BY <1>1, <1>2 DEF Rows, OwnerLeads, OwnedBy
<1>6. \A m, n \in members' : m.convoy = n.convoy /\ m.user = n.user => m = n
  BY <1>1, <1>2 DEF Rows, OwnerLeads
<1> QED BY <1>3, <1>4, <1>5, <1>6 DEF Rows, OwnerLeads, RowsOf, OwnedBy

(* Each step keeps the foreign keys and one leader's row per convoy.       *)
LEMMA RowsStep ==
  ASSUME Typed, Rows, [Next]_vars
  PROVE  Rows'
<1>1. CASE UNCHANGED tables
  BY <1>1 DEF Rows, OwnerLeads, Referential, RowsOf, OwnedBy, UserExists, ConvoyExists, tables
<1>2. ASSUME NEW r \in Req, Auth(r) PROVE Rows'
  <2>1. ASSUME NEW u \in User, UserExists(u) PROVE UserExists(u)'
    BY <1>2, <2>1 DEF Auth, UserExists, Typed, TypeOK, User
  <2>2. UNCHANGED <<convoys, members, vehicles>>
    BY <1>2 DEF Auth
  <2>3. /\ \A v \in convoys : v.owner \in User
        /\ \A m \in members : m.user \in User
        /\ \A v \in vehicles : v.user \in User
    BY DEF Typed, TypeOK, ConvoyRow, MemberRow, VehicleRow
  <2>4. Referential'
    BY <2>1, <2>2, <2>3 DEF Rows, Referential, ConvoyExists
  <2> QED BY <2>2, <2>4 DEF Rows, OwnerLeads, RowsOf, OwnedBy
<1>3. ASSUME NEW r \in Req, CreateConvoy(r) PROVE Rows'
  <2> DEFINE u == req[r].user
  <2>1. CASE UNCHANGED tables
    BY <1>1, <2>1
  <2>2. ASSUME NEW c \in FreshIds, UserExists(u),
               convoys' = convoys \cup {[id |-> c, owner |-> u]},
               members' = members \cup {[convoy |-> c, user |-> u, role |-> "owner", left |-> FALSE]},
               UNCHANGED <<account, minted, vehicles>>
        PROVE  Rows'
    <3> DEFINE v0 == [id |-> c, owner |-> u]
               m0 == [convoy |-> c, user |-> u, role |-> "owner", left |-> FALSE]
    <3>0. /\ convoys' = convoys \cup {v0} /\ v0.id = c /\ v0.owner = u
          /\ members' = members \cup {m0} /\ m0.convoy = c /\ m0.user = u /\ m0.role = "owner"
          /\ UserExists(u) /\ UNCHANGED <<account, vehicles>>
      BY <2>2
    <3> HIDE DEF u, v0, m0
    <3>1. ~ConvoyExists(c) /\ \A m \in members : m.convoy # c
      BY DEF FreshIds, Rows, Referential
    <3>2. Referential'
      BY <3>0 DEF Rows, Referential, ConvoyExists, UserExists
    <3>3. \A v \in convoys' : \E m \in members' : m.convoy = v.id /\ m.user = v.owner /\ m.role = "owner"
      BY <3>0 DEF Rows, OwnerLeads, RowsOf
    <3>4. \A m \in members' : m.role = "owner" => \E v \in convoys' : v.id = m.convoy /\ v.owner = m.user
      BY <3>0 DEF Rows, OwnerLeads, OwnedBy
    <3>5. \A m, n \in members' : m.convoy = n.convoy /\ m.user = n.user => m = n
      BY <3>0, <3>1 DEF Rows, OwnerLeads
    <3>6. \A v, w \in convoys' : v.id = w.id => v = w
      BY <3>0, <3>1 DEF Rows, OwnerLeads, ConvoyExists
    <3> QED BY <3>2, <3>3, <3>4, <3>5, <3>6 DEF Rows, OwnerLeads, RowsOf, OwnedBy
  <2> QED BY <1>3, <2>1, <2>2 DEF CreateConvoy
<1>4. ASSUME NEW r \in Req, InsertMember(r) PROVE Rows'
  <2> DEFINE c == req[r].convoy
             u == req[r].user
             m0 == [convoy |-> c, user |-> u, role |-> "member", left |-> FALSE]
  <2>1. CASE UNCHANGED members
    BY <1>1, <1>4, <2>1 DEF InsertMember, tables
  <2>2. CASE ConvoyExists(c) /\ UserExists(u) /\ RowsOf(c, u) = {} /\ members' = members \cup {m0}
    <3>0. UNCHANGED <<account, convoys, vehicles>>
      BY <1>4 DEF InsertMember
    <3>1. m0.convoy = c /\ m0.user = u /\ m0.role # "owner"
      OBVIOUS
    <3> HIDE DEF m0, c, u
    <3>2. Referential'
      BY <2>2, <3>0, <3>1 DEF Rows, Referential, ConvoyExists, UserExists
    <3>3. \A m, n \in members' : m.convoy = n.convoy /\ m.user = n.user => m = n
      BY <2>2, <3>1 DEF Rows, OwnerLeads, RowsOf
    <3> QED BY <2>2, <3>0, <3>1, <3>2, <3>3 DEF Rows, OwnerLeads, RowsOf, OwnedBy
  <2> QED BY <1>4, <2>1, <2>2 DEF InsertMember
<1>5. ASSUME NEW r \in Req, Rejoin(r) \/ LeaveConvoy(r) PROVE Rows'
  BY <1>5, MarkingKeepsRows DEF Rejoin, LeaveConvoy
<1>6. ASSUME NEW r \in Req, InsertVehicle(r) \/ UnsetVehicle(r) PROVE Rows'
  <2>1. \A v \in vehicles' : v \in vehicles \/ UserExists(v.user)
    BY <1>6 DEF InsertVehicle, UnsetVehicle
  <2>2. UNCHANGED <<account, convoys, members>>
    BY <1>6 DEF InsertVehicle, UnsetVehicle
  <2> QED BY <2>1, <2>2 DEF Rows, OwnerLeads, Referential, RowsOf, OwnedBy, UserExists, ConvoyExists
<1>7. ASSUME NEW r \in Req, EraseUser(r) PROVE Rows'
  <2> DEFINE u == req[r].user
             gone == req[r].held
  <2>1. /\ \A v \in convoys : v.owner = u => v.id \in gone
        /\ convoys' = {v \in convoys : v.id \notin gone}
        /\ members' = {m \in members : m.convoy \notin gone /\ m.user # u}
        /\ vehicles' = {v \in vehicles : v.user # u}
    BY <1>7 DEF EraseUser, OwnedBy, VehiclesOf
  <2>2. u \in User
    BY <1>7, RunsAsUser DEF EraseUser, At, Statement, WasMinted
  <2>3. ASSUME NEW w \in User, w # u, UserExists(w) PROVE UserExists(w)'
    BY <1>7, <2>2, <2>3 DEF EraseUser, UserExists, Typed, TypeOK, User
  <2>4. /\ \A v \in convoys : v.owner \in User
        /\ \A m \in members : m.user \in User
        /\ \A v \in vehicles : v.user \in User
    BY DEF Typed, TypeOK, ConvoyRow, MemberRow, VehicleRow
  <2> HIDE DEF u, gone
  <2>5. Referential'
    BY <2>1, <2>3, <2>4 DEF Rows, Referential, ConvoyExists
  <2> QED BY <2>1, <2>5 DEF Rows, OwnerLeads, RowsOf, OwnedBy
<1>8. ASSUME NEW r \in Req,
             \/ \E p \in Person, op \in Op, c \in Convoy \cup {None} : Issue(r, p, op, c)
             \/ FindConvoy(r) \/ FindMembership(r) \/ CheckMember(r) \/ FindOwned(r) \/ SetDestination(r)
             \/ LoadConvoy(r) \/ LoadRoster(r) \/ DeleteOldVehicle(r) \/ EraseConvoys(r) \/ EraseFails(r)
      PROVE  Rows'
  BY <1>1, <1>8 DEF Issue, FindConvoy, FindMembership, CheckMember, FindOwned, SetDestination,
                    LoadConvoy, LoadRoster, DeleteOldVehicle, EraseConvoys, EraseFails
<1> QED BY <1>1, <1>2, <1>3, <1>4, <1>5, <1>6, <1>7, <1>8 DEF Next, Handle, Idle, vars

-----------------------------------------------------------------------------
(* Deletion.                                                               *)

(* A user row that is gone, and was created once, stays gone.              *)
LEMMA GoneStaysGone ==
  ASSUME Typed, [Next]_vars, NEW u, WasMinted(u), ~UserExists(u)
  PROVE  ~UserExists(u)'
<1>1. u[1] \in Person /\ u[2] \in Nat
  BY DEF WasMinted, User
<1>2. ASSUME NEW r \in Req, Auth(r) PROVE ~UserExists(u)'
  BY <1>1, <1>2 DEF Auth, Typed, TypeOK, UserExists, WasMinted
<1>3. ASSUME NEW r \in Req, EraseUser(r) PROVE ~UserExists(u)'
  <2>1. req[r].user[1] \in Person
    BY <1>3, RunsAsUser DEF EraseUser, At, Statement
  <2> QED BY <1>1, <1>3, <2>1 DEF EraseUser, Typed, TypeOK, UserExists
<1>4. CASE UNCHANGED account
  BY <1>4 DEF UserExists
<1>5. ASSUME NEW r \in Req, Handle(r) PROVE UNCHANGED account \/ Auth(r) \/ EraseUser(r)
  BY <1>5 DEF Handle, CreateConvoy, FindConvoy, FindMembership, InsertMember, Rejoin, LeaveConvoy,
       CheckMember, FindOwned, SetDestination, LoadConvoy, LoadRoster, DeleteOldVehicle, InsertVehicle, UnsetVehicle,
       EraseConvoys, EraseFails, tables
<1>6. ASSUME NEW r \in Req, NEW p \in Person, NEW op \in Op, NEW c \in Convoy \cup {None}, Issue(r, p, op, c)
      PROVE  UNCHANGED account
  BY <1>6 DEF Issue, tables
<1>7. CASE UNCHANGED vars
  BY <1>4, <1>7 DEF vars, tables
<1> QED BY <1>2, <1>3, <1>4, <1>5, <1>6, <1>7 DEF Next, Idle

(* Going on to another statement replaces the place, and nothing else.     *)
LEMMA MoveEffect ==
  ASSUME Typed, NEW r \in Req, NEW a, GoTo(r, a), NEW s \in Req
  PROVE  /\ s # r => req'[s] = req[s]
         /\ req'[s].code = req[s].code /\ req'[s].op = req[s].op /\ req'[s].user = req[s].user
BY DEF GoTo, Typed, TypeOK, Request

(* Answering replaces the place and the code, and nothing else.            *)
LEMMA AnswerEffect ==
  ASSUME Typed, NEW r \in Req, NEW code, Answer(r, code), NEW s \in Req
  PROVE  /\ s # r => req'[s] = req[s]
         /\ req'[s].op = req[s].op /\ req'[s].user = req[s].user
         /\ req'[r].code = code
<1> DEFINE p == [req[r] EXCEPT !.at = "done"]
           q == [p EXCEPT !.code = code]
<1>1. req[r] \in Request /\ req \in [Req -> Request]
  BY DEF Typed, TypeOK
<1>2. p.op = req[r].op /\ p.user = req[r].user /\ p = [f \in DOMAIN req[r] |-> p[f]]
      /\ DOMAIN p = DOMAIN req[r] /\ "code" \in DOMAIN req[r]
  BY <1>1 DEF Request
<1> HIDE DEF p
<1>3. q.op = req[r].op /\ q.user = req[r].user /\ q.code = code
  BY <1>1, <1>2
<1>4. req' = [req EXCEPT ![r] = q]
  BY DEF Answer, p
<1> QED BY <1>1, <1>3, <1>4

(* Each step leaves complete what an account's deletion has removed.       *)
LEMMA DeletedStep ==
  ASSUME ServiceInv, Typed', Rows', [Next]_vars
  PROVE  DeletedForGood'
<1> USE DEF ServiceInv
<1> SUFFICES ASSUME NEW s \in Req, req'[s].op = "delete", req'[s].code = 204
             PROVE  ~UserExists(req[s].user)'
  BY DEF DeletedForGood, Rows, Referential, UserExists
<1>1. CASE req'[s] = req[s]
  <2>1. ~UserExists(req[s].user) /\ WasMinted(req[s].user)
    BY <1>1 DEF DeletedForGood, Typed, Carries
  <2> QED BY <1>1, <2>1, GoneStaysGone DEF UserExists
<1>2. ASSUME NEW r \in Req, NEW p \in Person, NEW op \in Op, NEW c \in Convoy \cup {None}, Issue(r, p, op, c),
             req'[s] # req[s]
      PROVE  FALSE
  <2>1. r = s /\ req[s].at = "new" /\ req'[s].code = req[s].code
    BY <1>2 DEF Issue, At, Typed, TypeOK, Request
  <2> QED BY <2>1 DEF Typed, Carries
<1>3. ASSUME NEW r \in Req, Handle(r), req'[s] # req[s]
      PROVE  ~UserExists(req[s].user)'
  <2>1. req \in [Req -> Request] /\ Carries(req[s])
    BY DEF Typed, TypeOK
  <2>2. CASE Auth(r)
    <3>1. r = s /\ req[s].at = "auth" /\ req'[s].code = req[s].code
      BY <1>3, <2>1, <2>2 DEF Auth, At, Request
    <3> QED BY <2>1, <3>1 DEF Carries
  <2>3. CASE FindConvoy(r) \/ FindMembership(r) \/ InsertMember(r) \/ Rejoin(r) \/ CheckMember(r)
             \/ FindOwned(r) \/ SetDestination(r) \/ LoadConvoy(r) \/ InsertVehicle(r) \/ EraseFails(r)
    <3>1. \/ \E a \in Statement : GoTo(r, a)
          \/ \E code \in {200, 403, 404, 500} : Answer(r, code)
      <4>1. CASE FindConvoy(r) \/ FindMembership(r) \/ CheckMember(r) \/ FindOwned(r)
                  \/ SetDestination(r) \/ LoadConvoy(r)
        BY <4>1 DEF FindConvoy, FindMembership, CheckMember, FindOwned, SetDestination, LoadConvoy, Statement
      <4>2. CASE InsertMember(r)
        BY <4>2 DEF InsertMember, Statement
      <4>3. CASE Rejoin(r)
        BY <4>3 DEF Rejoin, Statement
      <4>4. CASE InsertVehicle(r)
        BY <4>4 DEF InsertVehicle
      <4>5. CASE EraseFails(r)
        BY <4>5 DEF EraseFails
      <4> QED BY <2>3, <4>1, <4>2, <4>3, <4>4, <4>5
    <3>2. req[r].at \in Statement
      BY <2>3 DEF FindConvoy, FindMembership, InsertMember, Rejoin, CheckMember, FindOwned,
                  SetDestination, LoadConvoy, InsertVehicle, EraseFails, Statement, At
    <3>3. r = s /\ (req'[s].code = req[s].code \/ req'[s].code # 204)
      BY <1>3, <3>1, MoveEffect, AnswerEffect
    <3> QED BY <2>1, <3>2, <3>3, StatementsApart DEF Carries
  <2>4. CASE CreateConvoy(r) \/ LoadRoster(r) \/ DeleteOldVehicle(r) \/ EraseConvoys(r)
    <3>1. req[r].at \in Statement
      BY <2>4 DEF CreateConvoy, LoadRoster, DeleteOldVehicle, EraseConvoys, Statement, At
    <3>2. r = s /\ (req'[s].code = req[s].code \/ req'[s].code # 204)
      <4>1. CASE CreateConvoy(r)
        <5>1. CASE Answer(r, 500)
          BY <1>3, <5>1, AnswerEffect
        <5>2. CASE \E c \in Convoy : req' = [req EXCEPT ![r] = [@ EXCEPT !.at = "convoy", !.convoy = c]]
          BY <1>3, <2>1, <5>2 DEF Request
        <5> QED BY <4>1, <5>1, <5>2 DEF CreateConvoy, FreshIds
      <4>2. CASE LoadRoster(r)
        BY <1>3, <2>1, <4>2 DEF LoadRoster, Request
      <4>3. CASE DeleteOldVehicle(r)
        BY <1>3, <2>1, <4>3 DEF DeleteOldVehicle, Request
      <4>4. CASE EraseConvoys(r)
        BY <1>3, <2>1, <4>4 DEF EraseConvoys, Request
      <4> QED BY <2>4, <4>1, <4>2, <4>3, <4>4
    <3> QED BY <2>1, <3>1, <3>2, StatementsApart DEF Carries
  <2>5. CASE LeaveConvoy(r) \/ UnsetVehicle(r)
    <3>1. r = s /\ req'[s].op = req[s].op /\ (At(s, "leave") \/ At(s, "unset"))
      <4>1. Answer(r, 204) /\ (At(r, "leave") \/ At(r, "unset"))
        BY <2>5 DEF LeaveConvoy, UnsetVehicle
      <4> QED BY <1>3, <4>1, AnswerEffect
    <3> QED BY <2>1, <3>1 DEF Carries, At
  <2>6. CASE EraseUser(r)
    <3>1. r = s /\ req'[s].user = req[s].user
      BY <1>3, <2>6, AnswerEffect DEF EraseUser
    <3>2. WasMinted(req[s].user) /\ req[s].user[1] \in Person
      BY <2>6, <3>1, RunsAsUser DEF EraseUser, At, Statement
    <3> QED BY <2>6, <3>1, <3>2 DEF EraseUser, Typed, TypeOK, UserExists, WasMinted
  <2> QED BY <1>3, <2>2, <2>3, <2>4, <2>5, <2>6 DEF Handle
<1> QED BY <1>1, <1>2, <1>3 DEF Next, Idle, vars

-----------------------------------------------------------------------------
(* The theorems.                                                           *)

(* The invariant holds initially, from either start.                       *)
LEMMA ServiceStart ==
  ASSUME Init
  PROVE  ServiceInv
<1> DEFINE q(at) == [Unissued EXCEPT !.at = at]
<1>1. ASSUME NEW at \in {"new", "done"}
      PROVE  q(at) \in Request /\ Carries(q(at)) /\ q(at).code = 0
  BY DEF Unissued, Request, Carries, Statement
<1>2. Unissued \in Request /\ Carries(Unissued) /\ Unissued.code = 0
  BY DEF Unissued, Request, Carries, Statement
<1> HIDE DEF q
<1>3. \A r \in Req : req[r] = Unissued \/ req[r] = q("new") \/ req[r] = q("done")
  BY DEF Init, q
<1>4. req \in [Req -> Request]
  BY <1>1, <1>2 DEF Init, q
<1>5. DeletedForGood
  BY <1>1, <1>2, <1>3 DEF DeletedForGood
<1>6. /\ account \in [Person -> Nat] /\ minted = account /\ vehicles = {} /\ erased = {}
  BY DEF Init
<1>7. CASE convoys = {} /\ members = {}
  <2>1. Rows
    BY <1>6, <1>7 DEF Rows, OwnerLeads, Referential
  <2>2. Typed
    BY <1>1, <1>2, <1>3, <1>4, <1>6, <1>7 DEF Typed, TypeOK
  <2> QED BY <1>5, <2>1, <2>2 DEF ServiceInv, Rows
<1>8. ASSUME NEW own \in Injection(Person, Convoy),
             account = [p \in Person |-> 1],
             convoys = {[id |-> own[p], owner |-> <<p, 1>>] : p \in Person},
             members = {[convoy |-> own[p], user |-> <<x, 1>>,
                         role |-> IF p = x THEN "owner" ELSE "member",
                         left |-> FALSE] : p, x \in Person}
      PROVE  ServiceInv
  <2>1. own \in [Person -> Convoy] /\ \A p, x \in Person : own[p] = own[x] => p = x
    BY DEF Injection, IsInjective
  <2>2. \A v \in convoys : \E p \in Person : v.id = own[p] /\ v.owner = <<p, 1>> /\ v \in ConvoyRow
    BY <1>8, <2>1 DEF ConvoyRow, User
  <2>3. \A p \in Person : \E v \in convoys : v.id = own[p] /\ v.owner = <<p, 1>>
    <3> TAKE p \in Person
    <3>1. [id |-> own[p], owner |-> <<p, 1>>] \in convoys
      BY <1>8
    <3> QED BY <3>1
  <2>4. \A m \in members : \E p, x \in Person :
           /\ m = [convoy |-> own[p], user |-> <<x, 1>>,
                   role |-> IF p = x THEN "owner" ELSE "member", left |-> FALSE]
           /\ m \in MemberRow
    <3> TAKE m \in members
    <3>1. PICK p, x \in Person :
             m = [convoy |-> own[p], user |-> <<x, 1>>,
                  role |-> IF p = x THEN "owner" ELSE "member", left |-> FALSE]
      BY <1>8
    <3>2. own[p] \in Convoy /\ <<x, 1>> \in User
      BY <2>1 DEF User
    <3> QED BY <3>1, <3>2 DEF MemberRow
  <2>5. \A p \in Person : \E m \in members : m.convoy = own[p] /\ m.user = <<p, 1>> /\ m.role = "owner"
    <3> TAKE p \in Person
    <3>1. ASSUME NEW x \in Person
          PROVE  [convoy |-> own[p], user |-> <<x, 1>>, role |-> IF p = x THEN "owner" ELSE "member",
                  left |-> FALSE] \in members
      <4> DEFINE row(a, b) == [convoy |-> own[a], user |-> <<b, 1>>,
                               role |-> IF a = b THEN "owner" ELSE "member", left |-> FALSE]
      <4>1. members = {row(a, b) : a, b \in Person}
        BY <1>8
      <4> HIDE DEF row
      <4>2. row(p, x) \in members
        BY <3>1, <4>1
      <4> QED BY <4>2 DEF row
    <3>2. \A x \in Person : x = p => \E m \in members :
             m.convoy = own[p] /\ m.user = <<x, 1>> /\ m.role = "owner"
      BY <3>1
    <3> QED BY <3>2
  <2>6. \A p \in Person : UserExists(<<p, 1>>)
    BY <1>8 DEF UserExists
  <2>7. Typed
    BY <1>1, <1>2, <1>3, <1>4, <1>6, <2>2, <2>4 DEF Typed, TypeOK
  <2>8. Referential
    <3>1. \A v \in convoys : UserExists(v.owner)
      BY <2>2, <2>6
    <3>2. \A m \in members : ConvoyExists(m.convoy) /\ UserExists(m.user)
      <4> TAKE m \in members
      <4>1. PICK p, x \in Person : m.convoy = own[p] /\ m.user = <<x, 1>>
        BY <2>4
      <4> QED BY <2>3, <2>6, <4>1 DEF ConvoyExists
    <3> QED BY <1>6, <3>1, <3>2 DEF Referential
  <2>9. \A v \in convoys : \E m \in RowsOf(v.id, v.owner) : m.role = "owner"
    BY <2>2, <2>5 DEF RowsOf
  <2>10. \A m \in members : m.role = "owner" => m.convoy \in OwnedBy(m.user)
    <3> TAKE m \in members
    <3> HAVE m.role = "owner"
    <3>1. PICK p \in Person : m.convoy = own[p] /\ m.user = <<p, 1>>
      BY <2>4
    <3> QED BY <2>3, <3>1 DEF OwnedBy
  <2>11. \A m, n \in members : m.convoy = n.convoy /\ m.user = n.user => m = n
    <3> TAKE m, n \in members
    <3>1. PICK p, x \in Person : m = [convoy |-> own[p], user |-> <<x, 1>>,
                   role |-> IF p = x THEN "owner" ELSE "member", left |-> FALSE]
      BY <2>4
    <3>2. PICK p2, x2 \in Person : n = [convoy |-> own[p2], user |-> <<x2, 1>>,
                   role |-> IF p2 = x2 THEN "owner" ELSE "member", left |-> FALSE]
      BY <2>4
    <3>3. m.convoy = own[p] /\ m.user = <<x, 1>> /\ n.convoy = own[p2] /\ n.user = <<x2, 1>>
      BY <3>1, <3>2
    <3> HAVE m.convoy = n.convoy /\ m.user = n.user
    <3>4. p = p2 /\ x = x2
      <4>1. <<x, 1>> = <<x2, 1>> /\ own[p] = own[p2]
        BY <3>3
      <4> QED BY <2>1, <4>1
    <3> QED BY <3>1, <3>2, <3>4
  <2>12. \A v, w \in convoys : v.id = w.id => v = w
    BY <1>8, <2>1
  <2> QED BY <1>5, <2>7, <2>8, <2>9, <2>10, <2>11, <2>12 DEF ServiceInv, OwnerLeads
<1> QED BY <1>7, <1>8 DEF Init

(* The invariant of the tables and the requests: types, foreign keys, one  *)
(* leader's row per convoy, and deletions that are complete.               *)
LEMMA ServiceInvariant == Spec => []ServiceInv
<1>1. ServiceInv /\ [Next]_vars => ServiceInv'
  BY TypedStep, RowsStep, DeletedStep DEF ServiceInv, Rows
<1> QED BY <1>1, ServiceStart, PTL DEF Spec

(* Rows and requests keep their types, for any number of people, convoys   *)
(* and requests.                                                           *)
THEOREM ServiceTypeCorrect == Spec => []TypeOK
<1>1. ServiceInv => TypeOK
  BY DEF ServiceInv, Typed
<1> QED BY <1>1, ServiceInvariant, PTL

(* Every convoy has exactly one leader's row, its owner's, in every        *)
(* interleaving of the statements of create, join, leave and deletion.     *)
THEOREM OneLeader == Spec => []OwnerLeads
<1>1. ServiceInv => OwnerLeads
  BY DEF ServiceInv
<1> QED BY <1>1, ServiceInvariant, PTL

(* No row of an account is left, or written again, once its deletion was   *)
(* answered 204, whatever else the account had under way.                  *)
THEOREM DeletionComplete == Spec => []DeletedForGood
<1>1. ServiceInv => DeletedForGood
  BY DEF ServiceInv
<1> QED BY <1>1, ServiceInvariant, PTL

-----------------------------------------------------------------------------
(* What one step does to the requests.                                     *)

(* Only request r changes, and it stays what was asked for by whom.        *)
OthersKept(r) ==
  /\ \A s \in Req : s # r => req'[s] = req[s]
  /\ req'[r].op = req[r].op /\ req'[r].person = req[r].person

Carried(q, p) == q.user = p.user /\ q.convoy = p.convoy /\ q.held = p.held /\ q.roster = p.roster

(* Where each place is reached from, and what changes the rest of r.       *)
ArrivesBy(r) ==
  LET to == req'[r].at IN
  /\ to # "new" /\ to # "auth"
  /\ to \in {"create", "find", "leave", "check", "lookup", "unseat", "unset", "eraseConvoys"} => Auth(r)
  /\ to = "membership" => FindConvoy(r)
  /\ to \in {"insert", "rejoin"} => FindMembership(r)
  /\ to = "aim" => FindOwned(r)
  /\ to = "convoy" => \/ CreateConvoy(r) \/ FindMembership(r) \/ InsertMember(r) \/ Rejoin(r)
                      \/ CheckMember(r) \/ SetDestination(r)
  /\ to = "roster" => LoadConvoy(r)
  /\ to = "seat" => DeleteOldVehicle(r)
  /\ to = "eraseUser" => EraseConvoys(r)

RestKept(r) ==
  /\ req'[r].user = req[r].user \/ Auth(r)
  /\ req'[r].convoy = req[r].convoy \/ (CreateConvoy(r) /\ req'[r].convoy \in FreshIds)
  /\ req'[r].held = req[r].held \/ DeleteOldVehicle(r) \/ EraseConvoys(r)
  /\ req'[r].roster = req[r].roster \/ LoadRoster(r)
  /\ req'[r].code = 500 => \/ req[r].code = 500
                           \/ CreateConvoy(r) \/ InsertMember(r) \/ LoadConvoy(r) \/ InsertVehicle(r)
                           \/ EraseFails(r)

Handled(r) ==
  /\ req[r].at \in Statement \cup {"auth"}
  /\ OthersKept(r) /\ ArrivesBy(r) /\ RestKept(r)

Moved(r, a) == OthersKept(r) /\ Carried(req'[r], req[r]) /\ req'[r].at = a /\ req'[r].code = req[r].code
Answered(r, code) == OthersKept(r) /\ Carried(req'[r], req[r]) /\ req'[r].at = "done" /\ req'[r].code = code

(* Going on to another statement replaces the place only.                  *)
LEMMA Moving ==
  ASSUME Typed, NEW r \in Req, NEW a, GoTo(r, a)
  PROVE  Moved(r, a)
BY DEF GoTo, Typed, TypeOK, Request, Moved, OthersKept, Carried

(* An answer replaces the place and the code only.                         *)
LEMMA Answering ==
  ASSUME Typed, NEW r \in Req, NEW code, Answer(r, code)
  PROVE  Answered(r, code)
<1> DEFINE p == [req[r] EXCEPT !.at = "done"]
           q == [p EXCEPT !.code = code]
<1>1. req[r] \in Request /\ req \in [Req -> Request]
  BY DEF Typed, TypeOK
<1>2. p.op = req[r].op /\ p.person = req[r].person /\ Carried(p, req[r]) /\ p.at = "done"
      /\ DOMAIN p = DOMAIN req[r] /\ p = [f \in DOMAIN p |-> p[f]] /\ "code" \in DOMAIN p
  BY <1>1 DEF Request, Carried
<1> HIDE DEF p
<1>3. q.op = p.op /\ q.person = p.person /\ Carried(q, p) /\ q.at = p.at /\ q.code = code
  BY <1>2 DEF Carried
<1>4. req' = [req EXCEPT ![r] = q]
  BY DEF Answer, p
<1> QED BY <1>1, <1>2, <1>3, <1>4 DEF Answered, OthersKept, Carried

(* Every handling of a request is one of the steps above.                  *)
LEMMA Handling ==
  ASSUME Typed, NEW r \in Req, Handle(r)
  PROVE  Handled(r)
<1>a. req \in [Req -> Request] /\ req[r] \in Request /\ Carries(req[r])
  BY DEF Typed, TypeOK
<1>b. ASSUME NEW code, Answered(r, code), code # 500, req[r].at \in Statement
      PROVE  Handled(r)
  BY <1>b DEF Answered, Handled, ArrivesBy, RestKept, Carried
<1>1. CASE FindConvoy(r)
  <2>1. Moved(r, "membership") \/ Answered(r, 404)
    BY <1>1, Moving, Answering DEF FindConvoy
  <2>2. req[r].at \in Statement
    BY <1>1 DEF FindConvoy, At, Statement
  <2> QED BY <1>1, <1>b, <2>1, <2>2, <1>a, StatementsApart DEF Moved, Handled, ArrivesBy, RestKept, Carried, Carries
<1>2. CASE FindMembership(r)
  <2>1. Moved(r, "insert") \/ Moved(r, "rejoin") \/ Moved(r, "convoy")
    BY <1>2, Moving DEF FindMembership
  <2>2. req[r].at \in Statement
    BY <1>2 DEF FindMembership, At, Statement
  <2> QED BY <1>2, <2>1, <2>2, <1>a, StatementsApart DEF Moved, Handled, ArrivesBy, RestKept, Carried, Carries
<1>3. CASE InsertMember(r)
  <2>1. Moved(r, "convoy") \/ Answered(r, 500)
    BY <1>3, Moving, Answering DEF InsertMember
  <2>2. req[r].at \in Statement
    BY <1>3 DEF InsertMember, At, Statement
  <2> QED BY <1>3, <2>1, <2>2 DEF Moved, Answered, Handled, ArrivesBy, RestKept, Carried
<1>4. CASE Rejoin(r)
  <2>1. Moved(r, "convoy")
    BY <1>4, Moving DEF Rejoin
  <2>2. req[r].at \in Statement
    BY <1>4 DEF Rejoin, At, Statement
  <2> QED BY <1>4, <2>1, <2>2 DEF Moved, Handled, ArrivesBy, RestKept, Carried
<1>5. CASE LeaveConvoy(r)
  <2>1. Answered(r, 204)
    BY <1>5, Answering DEF LeaveConvoy
  <2>2. req[r].at \in Statement
    BY <1>5 DEF LeaveConvoy, At, Statement
  <2> QED BY <1>b, <2>1, <2>2
<1>6. CASE CheckMember(r)
  <2>1. Moved(r, "convoy") \/ Answered(r, 404)
    BY <1>6, Moving, Answering DEF CheckMember
  <2>2. req[r].at \in Statement
    BY <1>6 DEF CheckMember, At, Statement
  <2> QED BY <1>6, <1>b, <2>1, <2>2 DEF Moved, Handled, ArrivesBy, RestKept, Carried
<1>7. CASE FindOwned(r)
  <2>1. Moved(r, "aim") \/ Answered(r, 404) \/ Answered(r, 403)
    BY <1>7, Moving, Answering DEF FindOwned
  <2>2. req[r].at \in Statement
    BY <1>7 DEF FindOwned, At, Statement
  <2> QED BY <1>7, <1>b, <2>1, <2>2 DEF Moved, Handled, ArrivesBy, RestKept, Carried
<1>8. CASE SetDestination(r)
  <2>1. Moved(r, "convoy")
    BY <1>8, Moving DEF SetDestination
  <2>2. req[r].at \in Statement
    BY <1>8 DEF SetDestination, At, Statement
  <2> QED BY <1>8, <2>1, <2>2 DEF Moved, Handled, ArrivesBy, RestKept, Carried
<1>9. CASE LoadConvoy(r)
  <2>1. Moved(r, "roster") \/ Answered(r, 500)
    BY <1>9, Moving, Answering DEF LoadConvoy
  <2>2. req[r].at \in Statement
    BY <1>9 DEF LoadConvoy, At, Statement
  <2> QED BY <1>9, <2>1, <2>2 DEF Moved, Answered, Handled, ArrivesBy, RestKept, Carried
<1>10. CASE InsertVehicle(r)
  <2>1. Answered(r, 200) \/ Answered(r, 500)
    BY <1>10, Answering DEF InsertVehicle
  <2>2. req[r].at \in Statement
    BY <1>10 DEF InsertVehicle, At, Statement
  <2> QED BY <1>10, <2>1, <2>2 DEF Answered, Handled, ArrivesBy, RestKept, Carried
<1>11. CASE UnsetVehicle(r)
  <2>1. Answered(r, 204)
    BY <1>11, Answering DEF UnsetVehicle
  <2>2. req[r].at \in Statement
    BY <1>11 DEF UnsetVehicle, At, Statement
  <2> QED BY <1>b, <2>1, <2>2
<1>12. CASE EraseUser(r)
  <2>1. Answered(r, 204)
    BY <1>12, Answering DEF EraseUser
  <2>2. req[r].at \in Statement
    BY <1>12 DEF EraseUser, At, Statement
  <2> QED BY <1>b, <2>1, <2>2
<1>13. CASE EraseFails(r)
  <2>1. Answered(r, 500)
    BY <1>13, Answering DEF EraseFails
  <2>2. req[r].at \in Statement
    BY <1>13 DEF EraseFails, At, Statement
  <2> QED BY <1>13, <2>1, <2>2 DEF Answered, Handled, ArrivesBy, RestKept, Carried
<1>14. CASE Auth(r)
  <2>1. req' = [req EXCEPT ![r] = [@ EXCEPT !.at = FirstStatement(req[r].op), !.user = <<req[r].person,
                  IF account[req[r].person] = 0 THEN minted[req[r].person] + 1 ELSE account[req[r].person]>>]]
        /\ req[r].at = "auth"
    BY <1>14 DEF Auth, At
  <2>2. /\ \A s \in Req : s # r => req'[s] = req[s]
        /\ req'[r].op = req[r].op /\ req'[r].person = req[r].person
        /\ req'[r].convoy = req[r].convoy /\ req'[r].held = req[r].held /\ req'[r].roster = req[r].roster
        /\ req'[r].code = req[r].code /\ req'[r].at = FirstStatement(req[r].op)
    BY <1>a, <2>1 DEF Request
  <2>3. req[r].op \in Op
    BY <1>a, <2>1 DEF Carries
  <2>4. FirstStatement(req[r].op) \in
          {"create", "find", "leave", "check", "lookup", "unseat", "unset", "eraseConvoys"}
    BY <2>3 DEF FirstStatement, Op
  <2> QED BY <1>14, <2>1, <2>2, <2>4 DEF Handled, OthersKept, ArrivesBy, RestKept
<1>15. CASE CreateConvoy(r)
  <2>1. req[r].at \in Statement
    BY <1>15 DEF CreateConvoy, At, Statement
  <2>2. CASE Answer(r, 500)
    <3>1. Answered(r, 500)
      BY <2>2, Answering
    <3> QED BY <1>15, <2>1, <3>1 DEF Answered, Handled, ArrivesBy, RestKept, Carried
  <2>3. ASSUME NEW c \in FreshIds, req' = [req EXCEPT ![r] = [@ EXCEPT !.at = "convoy", !.convoy = c]]
        PROVE  Handled(r)
    <3>1. /\ \A s \in Req : s # r => req'[s] = req[s]
          /\ req'[r].op = req[r].op /\ req'[r].person = req[r].person
          /\ req'[r].user = req[r].user /\ req'[r].held = req[r].held /\ req'[r].roster = req[r].roster
          /\ req'[r].code = req[r].code /\ req'[r].at = "convoy" /\ req'[r].convoy = c
      BY <1>a, <2>3 DEF Request
    <3> QED BY <1>15, <2>1, <3>1 DEF Handled, OthersKept, ArrivesBy, RestKept
  <2> QED BY <1>15, <2>2, <2>3 DEF CreateConvoy
<1>16. CASE LoadRoster(r)
  <2>1. req[r].at \in Statement
    BY <1>16 DEF LoadRoster, At, Statement
  <2>2. /\ \A s \in Req : s # r => req'[s] = req[s]
        /\ req'[r].op = req[r].op /\ req'[r].person = req[r].person
        /\ req'[r].user = req[r].user /\ req'[r].held = req[r].held /\ req'[r].convoy = req[r].convoy
        /\ req'[r].code \in {200, 201} /\ req'[r].at = "done"
    BY <1>a, <1>16 DEF LoadRoster, Request
  <2> QED BY <1>16, <2>1, <2>2 DEF Handled, OthersKept, ArrivesBy, RestKept
<1>17. CASE DeleteOldVehicle(r)
  <2>1. req[r].at \in Statement
    BY <1>17 DEF DeleteOldVehicle, At, Statement
  <2>2. /\ \A s \in Req : s # r => req'[s] = req[s]
        /\ req'[r].op = req[r].op /\ req'[r].person = req[r].person
        /\ req'[r].user = req[r].user /\ req'[r].roster = req[r].roster /\ req'[r].convoy = req[r].convoy
        /\ req'[r].code = req[r].code /\ req'[r].at = "seat"
    BY <1>a, <1>17 DEF DeleteOldVehicle, Request
  <2> QED BY <1>17, <2>1, <2>2 DEF Handled, OthersKept, ArrivesBy, RestKept
<1>18. CASE EraseConvoys(r)
  <2>1. req[r].at \in Statement
    BY <1>18 DEF EraseConvoys, At, Statement
  <2>2. /\ \A s \in Req : s # r => req'[s] = req[s]
        /\ req'[r].op = req[r].op /\ req'[r].person = req[r].person
        /\ req'[r].user = req[r].user /\ req'[r].roster = req[r].roster /\ req'[r].convoy = req[r].convoy
        /\ req'[r].code = req[r].code /\ req'[r].at = "eraseUser"
    BY <1>a, <1>18 DEF EraseConvoys, Request
  <2> QED BY <1>18, <2>1, <2>2 DEF Handled, OthersKept, ArrivesBy, RestKept
<1> QED BY <1>1, <1>2, <1>3, <1>4, <1>5, <1>6, <1>7, <1>8, <1>9, <1>10, <1>11, <1>12, <1>13,
           <1>14, <1>15, <1>16, <1>17, <1>18 DEF Handle

(* Issuing a request takes a new one to the hook.                          *)
Issued(r, p, op) ==
  /\ req[r].at = "new" /\ req'[r].at = "auth"
  /\ \A s \in Req : s # r => req'[s] = req[s]
  /\ req'[r].op = op /\ req'[r].person = p
  /\ req'[r].code = req[r].code /\ req'[r].roster = req[r].roster

(* Issuing does so.                                                        *)
LEMMA Issuing ==
  ASSUME Typed, NEW r \in Req, NEW p \in Person, NEW op \in Op, NEW c \in Convoy \cup {None}, Issue(r, p, op, c)
  PROVE  Issued(r, p, op)
<1>1. req \in [Req -> Request] /\ req[r] \in Request
  BY DEF Typed, TypeOK
<1>2. /\ req' = [req EXCEPT ![r] = [@ EXCEPT !.op = op, !.person = p, !.convoy = c, !.at = "auth"]]
      /\ req[r].at = "new"
  BY DEF Issue, At
<1> QED BY <1>1, <1>2 DEF Issued, Request

-----------------------------------------------------------------------------
(* Whose statement a request runs, and who runs next to whom.              *)

(* A statement belongs to the operation that was asked for, and runs for   *)
(* a user row of the person who asked.                                     *)
Serves(q) ==
  /\ q.at \in Statement \cup {"auth"} => q.op \in Op /\ q.person \in Person
  /\ q.at \in Statement => q.user[1] = q.person
  /\ q.at = "create" => q.op = "create"
  /\ q.at \in {"find", "membership", "insert", "rejoin"} => q.op = "join"
  /\ q.at = "leave" => q.op = "leave"
  /\ q.at = "check" => q.op = "get"
  /\ q.at \in {"lookup", "aim"} => q.op = "aim"
  /\ q.at \in {"convoy", "roster"} => q.op \in {"create", "join", "get", "aim"}
  /\ q.at \in {"unseat", "seat"} => q.op = "put"
  /\ q.at = "unset" => q.op = "unset"
  /\ q.at \in {"eraseConvoys", "eraseUser"} => q.op = "delete"

(* No two changes of one person are under way.                             *)
Exclusive ==
  \A r, s \in Req : /\ Running(r) /\ Running(s) /\ req[r].person = req[s].person
                    /\ req[r].op \in Changing /\ req[s].op \in Changing
                    => r = s

Orderly == (\A r \in Req : Serves(req[r])) /\ Exclusive

(* Each step keeps both: a change is only asked for when none is under way. *)
LEMMA OrderlyStep ==
  ASSUME ~Overlap, Typed, Orderly, [Next]_vars
  PROVE  Orderly'
<1>1. ASSUME NEW r \in Req, NEW p \in Person, NEW op \in Op, NEW c \in Convoy \cup {None}, Issue(r, p, op, c)
      PROVE  Orderly'
  <2>1. Issued(r, p, op)
    BY <1>1, Issuing
  <2>2. op \in Changing => ~ \E s \in Req : Running(s) /\ req[s].person = p /\ req[s].op \in Changing
    BY <1>1 DEF Issue
  <2>3. \A s \in Req : Serves(req[s])'
    BY <2>1, StatementsApart DEF Orderly, Issued, Serves
  <2>4. Exclusive'
    BY <2>1, <2>2 DEF Orderly, Issued, Exclusive, Running
  <2> QED BY <2>3, <2>4 DEF Orderly
<1>2. ASSUME NEW r \in Req, Handle(r) PROVE Orderly'
  <2>1. Handled(r)
    BY <1>2, Handling
  <2>2. Serves(req[r])
    BY DEF Orderly
  <2>3. req'[r].op \in Op /\ req'[r].person \in Person
    BY <2>1, <2>2 DEF Handled, OthersKept, Serves
  <2>4. req'[r].at \in Statement => req'[r].user[1] = req'[r].person
    <3>1. CASE Auth(r)
      <4>1. req'[r].user = <<req[r].person, IF account[req[r].person] = 0 THEN minted[req[r].person] + 1
                                                                       ELSE account[req[r].person]>>
        BY <3>1 DEF Auth, Typed, TypeOK, Request
      <4> QED BY <2>1, <4>1 DEF Handled, OthersKept
    <3>2. CASE ~Auth(r)
      <4>1. req[r].at # "auth"
        BY <1>2, <3>2 DEF Handle, CreateConvoy, FindConvoy, FindMembership, InsertMember, Rejoin, LeaveConvoy,
           CheckMember, FindOwned, SetDestination, LoadConvoy, LoadRoster, DeleteOldVehicle, InsertVehicle,
           UnsetVehicle, EraseConvoys, EraseUser, EraseFails, At
      <4> QED BY <2>1, <2>2, <3>2, <4>1 DEF Handled, OthersKept, RestKept, Serves
    <3> QED BY <3>1, <3>2
  <2>5. Auth(r) => req'[r].at = FirstStatement(req'[r].op)
    BY <2>1 DEF Auth, Typed, TypeOK, Request, Handled, OthersKept
  <2>6. Serves(req[r])'
    <3> DEFINE to == req'[r].at
               op == req'[r].op
    <3>1. op = req[r].op
      BY <2>1 DEF Handled, OthersKept
    <3>2. to \in {"create", "find", "leave", "check", "lookup", "unseat", "unset", "eraseConvoys"}
            => op \in Op /\ to = FirstStatement(op)
      BY <2>1, <2>3, <2>5 DEF Handled, ArrivesBy
    <3>3. \A o \in Op : /\ FirstStatement(o) = "create" => o = "create"
                        /\ FirstStatement(o) = "find" => o = "join"
                        /\ FirstStatement(o) = "leave" => o = "leave"
                        /\ FirstStatement(o) = "check" => o = "get"
                        /\ FirstStatement(o) = "lookup" => o = "aim"
                        /\ FirstStatement(o) = "unseat" => o = "put"
                        /\ FirstStatement(o) = "unset" => o = "unset"
                        /\ FirstStatement(o) = "eraseConvoys" => o = "delete"
      BY DEF FirstStatement, Op
    <3>4. to = "membership" => req[r].at = "find"
      BY <2>1 DEF Handled, ArrivesBy, FindConvoy, At
    <3>5. to \in {"insert", "rejoin"} => req[r].at = "membership"
      BY <2>1 DEF Handled, ArrivesBy, FindMembership, At
    <3>6. to = "aim" => req[r].at = "lookup"
      BY <2>1 DEF Handled, ArrivesBy, FindOwned, At
    <3>7. to = "convoy" => req[r].at \in {"create", "membership", "insert", "rejoin", "check", "aim"}
      BY <2>1 DEF Handled, ArrivesBy, CreateConvoy, FindMembership, InsertMember, Rejoin, CheckMember,
                  SetDestination, At
    <3>8. to = "roster" => req[r].at = "convoy"
      BY <2>1 DEF Handled, ArrivesBy, LoadConvoy, At
    <3>9. to = "seat" => req[r].at = "unseat"
      BY <2>1 DEF Handled, ArrivesBy, DeleteOldVehicle, At
    <3>10. to = "eraseUser" => req[r].at = "eraseConvoys"
      BY <2>1 DEF Handled, ArrivesBy, EraseConvoys, At
    <3> QED BY <2>2, <2>3, <2>4, <3>1, <3>2, <3>3, <3>4, <3>5, <3>6, <3>7, <3>8, <3>9, <3>10 DEF Serves
  <2>7. \A s \in Req : Serves(req[s])'
    BY <2>1, <2>6 DEF Orderly, Handled, OthersKept
  <2>8. \A s \in Req : Running(s)' => Running(s) /\ req'[s].op = req[s].op /\ req'[s].person = req[s].person
    BY <2>1 DEF Handled, OthersKept, Running
  <2> QED BY <2>7, <2>8 DEF Orderly, Exclusive
<1>3. CASE UNCHANGED vars
  BY <1>3 DEF vars, Orderly, Exclusive, Running
<1> QED BY <1>1, <1>2, <1>3 DEF Next, Idle

-----------------------------------------------------------------------------
(* One vehicle each, and one entry each in the rosters.                    *)

(* Nobody has two vehicles; and between the DELETE and the INSERT of a     *)
(* replacement, every vehicle its user has is one the DELETE found.        *)
OneVehicle ==
  /\ \A v, w \in vehicles : v.user = w.user => v = w
  /\ \A r \in Req : At(r, "seat") => VehiclesOf(req[r].user) \subseteq req[r].held

(* Only three statements change the vehicles.                              *)
LEMMA VehicleChanges ==
  ASSUME NEW r \in Req, Handle(r)
  PROVE  vehicles' = vehicles \/ InsertVehicle(r) \/ UnsetVehicle(r) \/ EraseUser(r)
BY DEF Handle, Auth, CreateConvoy, FindConvoy, FindMembership, InsertMember, Rejoin, LeaveConvoy,
       CheckMember, FindOwned, SetDestination, LoadConvoy, LoadRoster, DeleteOldVehicle, EraseConvoys, EraseFails, tables

(* A replacement leaves its user with one vehicle: the statements of       *)
(* another replacement for that user do not come between its own.          *)
LEMMA OneVehicleStep ==
  ASSUME Typed, Orderly, OneVehicle, [Next]_vars
  PROVE  OneVehicle'
<1>1. ASSUME NEW r \in Req, NEW p \in Person, NEW op \in Op, NEW c \in Convoy \cup {None}, Issue(r, p, op, c)
      PROVE  OneVehicle'
  <2>1. Issued(r, p, op) /\ vehicles' = vehicles
    BY <1>1, Issuing DEF Issue, tables
  <2> QED BY <2>1 DEF Issued, OneVehicle, At, VehiclesOf
<1>2. ASSUME NEW r \in Req, Handle(r) PROVE OneVehicle'
  <2>1. Handled(r)
    BY <1>2, Handling
  <2>2. CASE vehicles' \subseteq vehicles
    <3>1. ASSUME NEW s \in Req, At(s, "seat")' PROVE VehiclesOf(req[s].user)' \subseteq req'[s].held
      <4>1. CASE s # r
        BY <2>1, <2>2, <3>1, <4>1 DEF Handled, OthersKept, OneVehicle, At, VehiclesOf
      <4>2. CASE s = r
        <5>1. DeleteOldVehicle(r)
          BY <2>1, <3>1, <4>2 DEF Handled, ArrivesBy, At
        <5>2. req'[r].held = VehiclesOf(req[r].user) /\ req'[r].user = req[r].user
          BY <5>1 DEF DeleteOldVehicle, Typed, TypeOK, Request
        <5> QED BY <2>2, <4>2, <5>2 DEF VehiclesOf
      <4> QED BY <4>1, <4>2
    <3> QED BY <2>2, <3>1 DEF OneVehicle
  <2>3. CASE InsertVehicle(r) /\ ~(vehicles' \subseteq vehicles)
    <3> DEFINE u == req[r].user
               v0 == [id |-> r, user |-> u]
    <3>1. vehicles' = (vehicles \ req[r].held) \cup {v0} /\ At(r, "seat") /\ v0.user = u
      BY <2>3 DEF InsertVehicle
    <3>2. \A v \in vehicles : v.user = u => v \in req[r].held
      BY <3>1 DEF OneVehicle, VehiclesOf
    <3>3. ASSUME NEW s \in Req, At(s, "seat")' PROVE s # r /\ At(s, "seat") /\ req[s].user # u /\ req'[s] = req[s]
      <4>0. req'[r].at # "seat"
        BY <2>1, <3>1 DEF Handled, ArrivesBy, DeleteOldVehicle, At
      <4>1. s # r /\ At(s, "seat") /\ req'[s] = req[s]
        BY <2>1, <3>3, <4>0 DEF Handled, OthersKept, At
      <4>2. /\ req[s].op = "put" /\ req[s].user[1] = req[s].person /\ Running(s)
            /\ req[r].op = "put" /\ req[r].user[1] = req[r].person /\ Running(r)
        BY <3>1, <4>1 DEF Orderly, Serves, At, Running, Statement
      <4>3. "put" \in Changing
        BY DEF Changing, Op
      <4>4. req[s].user = u => req[s].person = req[r].person
        BY <4>2
      <4> QED BY <4>1, <4>2, <4>3, <4>4 DEF Orderly, Exclusive
    <3> HIDE DEF u, v0
    <3>4. \A v, w \in vehicles' : v.user = w.user => v = w
      BY <3>1, <3>2 DEF OneVehicle
    <3>5. ASSUME NEW s \in Req, At(s, "seat")' PROVE VehiclesOf(req[s].user)' \subseteq req'[s].held
      BY <3>1, <3>3, <3>5 DEF OneVehicle, VehiclesOf
    <3> QED BY <3>4, <3>5 DEF OneVehicle
  <2>4. UnsetVehicle(r) \/ EraseUser(r) => vehicles' \subseteq vehicles
    BY DEF UnsetVehicle, EraseUser
  <2> QED BY <1>2, <2>2, <2>3, <2>4, VehicleChanges
<1>3. CASE UNCHANGED vars
  BY <1>3 DEF vars, tables, OneVehicle, At, VehiclesOf
<1> QED BY <1>1, <1>2, <1>3 DEF Next, Idle

(* A roster has one entry for each vehicle of each current member, and one *)
(* for a member without a vehicle.                                         *)
LEMMA RosterEntries ==
  ASSUME NEW c
  PROVE  /\ \A e \in Roster(c) : \E m \in members :
              /\ m.convoy = c /\ ~m.left /\ e.user = m.user
              /\ \/ VehiclesOf(m.user) = {} /\ e = [user |-> m.user, vehicle |-> None]
                 \/ \E v \in VehiclesOf(m.user) : e = [user |-> m.user, vehicle |-> v.id]
         /\ \A m \in members : m.convoy = c /\ ~m.left => \E e \in Roster(c) : e.user = m.user
<1> DEFINE of(m) == IF VehiclesOf(m.user) = {} THEN {[user |-> m.user, vehicle |-> None]}
                    ELSE {[user |-> m.user, vehicle |-> v.id] : v \in VehiclesOf(m.user)}
           now == {n \in members : n.convoy = c /\ ~n.left}
<1>1. Roster(c) = UNION {of(m) : m \in now}
  BY DEF Roster
<1>2. \A m : \A e \in of(m) :
         /\ e.user = m.user
         /\ \/ VehiclesOf(m.user) = {} /\ e = [user |-> m.user, vehicle |-> None]
            \/ \E v \in VehiclesOf(m.user) : e = [user |-> m.user, vehicle |-> v.id]
  OBVIOUS
<1>3. ASSUME NEW m PROVE \E e \in of(m) : e.user = m.user
  <2>1. CASE VehiclesOf(m.user) = {}
    <3>1. [user |-> m.user, vehicle |-> None] \in of(m)
      BY <2>1
    <3> QED BY <3>1
  <2>2. ASSUME NEW v \in VehiclesOf(m.user) PROVE \E e \in of(m) : e.user = m.user
    <3>1. [user |-> m.user, vehicle |-> v.id] \in of(m)
      BY <2>2
    <3> QED BY <3>1
  <2> QED BY <2>1, <2>2
<1> HIDE DEF of
<1>4. \A e \in Roster(c) : \E m \in now : e \in of(m)
  BY <1>1
<1>5. \A m \in now : of(m) \subseteq Roster(c)
  BY <1>1
<1> QED BY ZenonT(40), <1>2, <1>3, <1>4, <1>5

(* Rosters are loaded from tables with one row per member and vehicle.     *)
LEMMA OneEntryStep ==
  ASSUME Typed, OwnerLeads, OneVehicle, OneEntryEach, [Next]_vars
  PROVE  OneEntryEach'
<1>1. ASSUME NEW r \in Req, NEW p \in Person, NEW op \in Op, NEW c \in Convoy \cup {None}, Issue(r, p, op, c)
      PROVE  OneEntryEach'
  <2>1. Issued(r, p, op)
    BY <1>1, Issuing
  <2> QED BY <2>1 DEF Issued, OneEntryEach
<1>2. ASSUME NEW r \in Req, Handle(r) PROVE OneEntryEach'
  <2>1. Handled(r)
    BY <1>2, Handling
  <2>2. LoadRoster(r) => req'[r].roster = Roster(req[r].convoy)
    BY DEF LoadRoster, Typed, TypeOK, Request
  <2>3. ASSUME NEW c, NEW e \in Roster(c), NEW f \in Roster(c), e.user = f.user PROVE e = f
    <3>1. PICK m \in members :
              /\ m.convoy = c /\ e.user = m.user
              /\ \/ VehiclesOf(m.user) = {} /\ e = [user |-> m.user, vehicle |-> None]
                 \/ \E v \in VehiclesOf(m.user) : e = [user |-> m.user, vehicle |-> v.id]
      BY RosterEntries
    <3>2. PICK n \in members :
              /\ n.convoy = c /\ f.user = n.user
              /\ \/ VehiclesOf(n.user) = {} /\ f = [user |-> n.user, vehicle |-> None]
                 \/ \E v \in VehiclesOf(n.user) : f = [user |-> n.user, vehicle |-> v.id]
      BY RosterEntries
    <3>3. m.user = n.user
      BY <2>3, <3>1, <3>2
    <3>4. \A v, w \in VehiclesOf(m.user) : v = w
      BY DEF VehiclesOf, OneVehicle
    <3> QED BY <3>1, <3>2, <3>3, <3>4
  <2> QED BY <2>1, <2>2, <2>3 DEF Handled, OthersKept, RestKept, OneEntryEach
<1>3. CASE UNCHANGED vars
  BY <1>3 DEF vars, OneEntryEach
<1> QED BY <1>1, <1>2, <1>3 DEF Next, Idle

-----------------------------------------------------------------------------
(* Memberships.                                                            *)

Present(c, u) == ConvoyExists(c) /\ UserExists(u)
IsIn(c, u)    == \E m \in RowsOf(c, u) : ~m.left

(* What FindMembership found stays so until the request acts on it, as     *)
(* long as the convoy and the account exist: no row at "insert", a row at  *)
(* "rejoin"; and who created or joined is in the convoy until the reply.   *)
Seated ==
  \A r \in Req :
    LET c == req[r].convoy
        u == req[r].user
    IN
    /\ At(r, "insert") => RowsOf(c, u) = {}
    /\ At(r, "rejoin") /\ Present(c, u) => RowsOf(c, u) # {}
    /\ req[r].at \in {"convoy", "roster"} /\ req[r].op \in {"create", "join"} /\ Present(c, u) => IsIn(c, u)

(* Five statements change the memberships.                                 *)
LEMMA MemberChanges ==
  ASSUME NEW r \in Req, Handle(r)
  PROVE  members' = members \/ CreateConvoy(r) \/ InsertMember(r) \/ Rejoin(r) \/ LeaveConvoy(r) \/ EraseUser(r)
BY DEF Handle, Auth, FindConvoy, FindMembership,
       CheckMember, FindOwned, SetDestination, LoadConvoy, LoadRoster, DeleteOldVehicle, InsertVehicle,
       UnsetVehicle, EraseConvoys, EraseFails, tables

(* Two statements change the convoys.                                      *)
LEMMA ConvoyChanges ==
  ASSUME NEW r \in Req, Handle(r)
  PROVE  convoys' = convoys \/ CreateConvoy(r) \/ EraseUser(r)
BY DEF Handle, Auth, FindConvoy, FindMembership, InsertMember, Rejoin, LeaveConvoy,
       CheckMember, FindOwned, SetDestination, LoadConvoy, LoadRoster, DeleteOldVehicle, InsertVehicle,
       UnsetVehicle, EraseConvoys, EraseFails, tables

(* Setting left keeps whose rows there are.                                *)
LEMMA Marking ==
  ASSUME Typed, NEW c0, NEW u0, NEW to \in BOOLEAN, members' = SetLeft(c0, u0, to), NEW c, NEW u
  PROVE  /\ RowsOf(c, u)' = {} <=> RowsOf(c, u) = {}
         /\ <<c, u>> # <<c0, u0>> => (IsIn(c, u)' <=> IsIn(c, u))
         /\ RowsOf(c, u) # {} /\ <<c, u>> = <<c0, u0>> /\ ~to => IsIn(c, u)'
         /\ IsIn(c, u) /\ ~to => IsIn(c, u)'
<1> DEFINE marked(m) == IF m.convoy = c0 /\ m.user = u0 THEN [m EXCEPT !.left = to] ELSE m
<1>1. members' = {marked(m) : m \in members}
  BY DEF SetLeft
<1>2. ASSUME NEW m \in members
      PROVE  /\ marked(m).convoy = m.convoy /\ marked(m).user = m.user
             /\ marked(m).left = IF m.convoy = c0 /\ m.user = u0 THEN to ELSE m.left
  BY DEF Typed, TypeOK, MemberRow
<1> HIDE DEF marked
<1>3. \A m \in members : marked(m) \in members'
  BY <1>1
<1>4. \A n \in members' : \E m \in members : n = marked(m)
  BY <1>1
<1>5. \A m : m \in RowsOf(c, u) <=> m \in members /\ m.convoy = c /\ m.user = u
  BY DEF RowsOf
<1>6. \A m : m \in RowsOf(c, u)' <=> m \in members' /\ m.convoy = c /\ m.user = u
  BY DEF RowsOf
<1>7. \A m \in RowsOf(c, u) : marked(m) \in RowsOf(c, u)'
  BY <1>2, <1>3, <1>5, <1>6
<1>8. \A n \in RowsOf(c, u)' : \E m \in RowsOf(c, u) : n = marked(m)
  BY <1>2, <1>4, <1>5, <1>6
<1>9. <<c, u>> # <<c0, u0>> => \A m \in RowsOf(c, u) : marked(m).left = m.left
  BY <1>2, <1>5
<1>10. <<c, u>> = <<c0, u0>> => \A m \in RowsOf(c, u) : marked(m).left = to
  BY <1>2, <1>5
<1>11. IsIn(c, u)' <=> \E n \in RowsOf(c, u)' : ~n.left
  BY DEF IsIn
<1> QED BY <1>7, <1>8, <1>9, <1>10, <1>11 DEF IsIn

(* Creating a convoy adds its row and its owner's.                         *)
LEMMA Creating ==
  ASSUME Typed, NEW r \in Req, CreateConvoy(r)
  PROVE  \/ ~UserExists(req[r].user) /\ Answer(r, 500) /\ UNCHANGED <<account, convoys, members, vehicles>>
         \/ \E c \in FreshIds : \E v, m :
              /\ UserExists(req[r].user)
              /\ convoys' = convoys \cup {v} /\ v.id = c /\ v.owner = req[r].user
              /\ members' = members \cup {m} /\ m.convoy = c /\ m.user = req[r].user /\ m.left = FALSE
              /\ req'[r].convoy = c /\ req'[r].user = req[r].user /\ req'[r].code = req[r].code
              /\ account' = account
<1>1. CASE ~UserExists(req[r].user) /\ Answer(r, 500) /\ UNCHANGED tables
  BY <1>1 DEF tables
<1>2. ASSUME NEW c \in FreshIds, UserExists(req[r].user), account' = account,
             convoys' = convoys \cup {[id |-> c, owner |-> req[r].user]},
             members' = members \cup {[convoy |-> c, user |-> req[r].user, role |-> "owner", left |-> FALSE]},
             req' = [req EXCEPT ![r] = [@ EXCEPT !.at = "convoy", !.convoy = c]]
      PROVE  \E v, m :
              /\ UserExists(req[r].user)
              /\ convoys' = convoys \cup {v} /\ v.id = c /\ v.owner = req[r].user
              /\ members' = members \cup {m} /\ m.convoy = c /\ m.user = req[r].user /\ m.left = FALSE
              /\ req'[r].convoy = c /\ req'[r].user = req[r].user /\ req'[r].code = req[r].code
              /\ account' = account
  <2> DEFINE v == [id |-> c, owner |-> req[r].user]
             m == [convoy |-> c, user |-> req[r].user, role |-> "owner", left |-> FALSE]
  <2>1. v.id = c /\ v.owner = req[r].user /\ m.convoy = c /\ m.user = req[r].user /\ m.left = FALSE
    OBVIOUS
  <2>2. convoys' = convoys \cup {v} /\ members' = members \cup {m}
    BY <1>2
  <2>3. req'[r].convoy = c /\ req'[r].user = req[r].user /\ req'[r].code = req[r].code
    BY <1>2 DEF Typed, TypeOK, Request
  <2> HIDE DEF v, m
  <2> QED BY <1>2, <2>1, <2>2, <2>3
<1> QED BY <1>1, <1>2 DEF CreateConvoy

(* A convoy or an account that is referred to does not come back.          *)
LEMMA PresentBefore ==
  ASSUME Typed, NEW r \in Req, Handle(r), NEW c, c \notin FreshIds, NEW u, WasMinted(u), Present(c, u)'
  PROVE  Present(c, u)
<1>1. UserExists(u)
  BY GoneStaysGone DEF Present, Next
<1>2. ConvoyExists(c)
  <2>1. CASE CreateConvoy(r)
    <3>1. \A v \in convoys' : v \in convoys \/ v.id \in FreshIds
      BY <2>1, Creating
    <3> QED BY <3>1 DEF Present, ConvoyExists
  <2>2. CASE convoys' \subseteq convoys
    BY <2>2 DEF Present, ConvoyExists
  <2> QED BY <2>1, <2>2, ConvoyChanges DEF EraseUser
<1> QED BY <1>1, <1>2 DEF Present

(* Rows go only with their convoy or their account.                        *)
LEMMA RowsStay ==
  ASSUME Typed, NEW r \in Req, Handle(r), NEW c, NEW u, WasMinted(u), Present(c, u)'
  PROVE  /\ RowsOf(c, u) # {} => RowsOf(c, u)' # {}
         /\ IsIn(c, u) /\ ~(LeaveConvoy(r) /\ req[r].user = u) => IsIn(c, u)'
<1>1. CASE members \subseteq members'
  BY <1>1 DEF RowsOf, IsIn
<1>2. CASE Rejoin(r) \/ LeaveConvoy(r)
  <2>1. PICK c0, u0 : c0 = req[r].convoy /\ u0 = req[r].user
    OBVIOUS
  <2>2. CASE members' = SetLeft(c0, u0, FALSE)
    BY <2>2, Marking
  <2>3. CASE members' = SetLeft(c0, u0, TRUE) /\ LeaveConvoy(r)
    BY <2>1, <2>3, Marking
  <2> QED BY <1>2, <2>1, <2>2, <2>3 DEF Rejoin, LeaveConvoy
<1>3. CASE EraseUser(r)
  <2>1. req[r].user \in User /\ req[r].user[1] \in Person
    BY <1>3, RunsAsUser DEF EraseUser, At, Statement, WasMinted
  <2>a. PICK gone : gone = req[r].user
    OBVIOUS
  <2>2. ~UserExists(gone)'
    BY <1>3, <2>1, <2>a DEF EraseUser, UserExists, Typed, TypeOK, User
  <2>b. u # gone
    BY <2>2 DEF Present
  <2>c. \A v \in convoys' : v.id \notin req[r].held
    BY <1>3 DEF EraseUser
  <2>3. u # req[r].user /\ c \notin req[r].held
    BY <2>a, <2>b, <2>c DEF Present, ConvoyExists
  <2>4. \A m \in members : m.convoy = c /\ m.user = u => m \in members'
    BY <1>3, <2>3 DEF EraseUser
  <2> QED BY <2>4 DEF RowsOf, IsIn
<1>4. CASE CreateConvoy(r) \/ InsertMember(r)
  <2>1. CreateConvoy(r) => members \subseteq members'
    BY Creating
  <2> QED BY <1>1, <1>4, <2>1 DEF InsertMember
<1> QED BY <1>1, <1>2, <1>3, <1>4, MemberChanges

(* A row appears when its user is inserted, or with a new convoy.          *)
LEMMA RowsAppear ==
  ASSUME Typed, NEW r \in Req, Handle(r), NEW c, c \notin FreshIds, NEW u,
         ~(InsertMember(r) /\ req[r].user = u), RowsOf(c, u) = {}
  PROVE  RowsOf(c, u)' = {}
<1>1. CASE members' \subseteq members
  BY <1>1 DEF RowsOf
<1>2. CASE Rejoin(r) \/ LeaveConvoy(r)
  <2>1. PICK c0, u0 : c0 = req[r].convoy /\ u0 = req[r].user
    OBVIOUS
  <2>2. CASE members' = SetLeft(c0, u0, FALSE)
    BY <2>2, Marking
  <2>3. CASE members' = SetLeft(c0, u0, TRUE)
    BY <2>3, Marking
  <2> QED BY <1>2, <2>1, <2>2, <2>3 DEF Rejoin, LeaveConvoy
<1>3. CASE CreateConvoy(r)
  <2>1. \A m \in members' : m \in members \/ m.convoy \in FreshIds
    BY <1>3, Creating
  <2> QED BY <2>1 DEF RowsOf
<1>4. CASE InsertMember(r)
  <2>1. \A m \in members' : m \in members \/ m.user = req[r].user
    BY <1>4 DEF InsertMember
  <2> QED BY <1>4, <2>1 DEF RowsOf
<1>5. CASE EraseUser(r)
  BY <1>1, <1>5 DEF EraseUser
<1> QED BY <1>1, <1>2, <1>3, <1>4, <1>5, MemberChanges

(* While two requests of one person do not both change something, what one *)
(* of them has found in the memberships is still so when it acts on it.    *)
LEMMA SeatedStep ==
  ASSUME Typed, Orderly, Seated, [Next]_vars
  PROVE  Seated'
<1>1. ASSUME NEW r \in Req, NEW p \in Person, NEW op \in Op, NEW c \in Convoy \cup {None}, Issue(r, p, op, c)
      PROVE  Seated'
  <2>1. Issued(r, p, op) /\ UNCHANGED <<account, convoys, members>>
    BY <1>1, Issuing DEF Issue, tables
  <2> QED BY <2>1 DEF Issued, Seated, At, RowsOf, IsIn, Present, ConvoyExists, UserExists
<1>2. ASSUME NEW r \in Req, Handle(r), NEW s \in Req, NEW c, NEW u, c = req'[s].convoy, u = req'[s].user
      PROVE  /\ At(s, "insert")' => RowsOf(c, u)' = {}
             /\ At(s, "rejoin")' /\ Present(c, u)' => RowsOf(c, u)' # {}
             /\ req'[s].at \in {"convoy", "roster"} /\ req'[s].op \in {"create", "join"} /\ Present(c, u)'
                  => IsIn(c, u)'
  <2>1. Handled(r)
    BY <1>2, Handling
  <2>2. CASE s # r
    <3>1. req'[s] = req[s] /\ c = req[s].convoy /\ u = req[s].user
      BY <1>2, <2>1, <2>2 DEF Handled, OthersKept
    <3>2. c \notin FreshIds
      BY <3>1 DEF FreshIds
    <3>3. req[s].at \in Statement => WasMinted(u)
      BY <3>1, RunsAsUser
    <3>4. /\ "insert" \in Statement /\ "rejoin" \in Statement /\ "convoy" \in Statement /\ "roster" \in Statement
          /\ "leave" \in Changing /\ "join" \in Changing /\ "create" \in Changing
      BY DEF Statement, Changing, Op
    <3>5. ASSUME req[r].user = u, req[r].op \in Changing, req[s].op \in Changing, req[s].at \in Statement,
                 req[r].at \in Statement
          PROVE  FALSE
      BY <2>2, <3>1, <3>5 DEF Orderly, Serves, Exclusive, Running
    <3>6. InsertMember(r) => req[r].op = "join" /\ req[r].at \in Statement
      BY <3>4 DEF InsertMember, At, Orderly, Serves
    <3>7. LeaveConvoy(r) => req[r].op = "leave" /\ req[r].at \in Statement
      BY DEF LeaveConvoy, At, Orderly, Serves, Statement
    <3>8. At(s, "insert") => RowsOf(c, u)' = {}
      <4>1. At(s, "insert") => req[s].op = "join" /\ RowsOf(c, u) = {}
        BY <3>1 DEF Orderly, Serves, At, Seated
      <4> QED BY <1>2, <3>2, <3>4, <3>5, <3>6, <4>1, RowsAppear DEF At
    <3>9. ASSUME req[s].at \in Statement, Present(c, u)'
          PROVE  /\ Present(c, u)
                 /\ RowsOf(c, u) # {} => RowsOf(c, u)' # {}
                 /\ IsIn(c, u) /\ req[s].op \in {"create", "join"} => IsIn(c, u)'
      <4>1. Present(c, u)
        BY <1>2, <3>2, <3>3, <3>9, PresentBefore
      <4>2. req[s].op \in {"create", "join"} => ~(LeaveConvoy(r) /\ req[r].user = u)
        BY <3>4, <3>5, <3>7, <3>9
      <4> QED BY <1>2, <3>3, <3>9, <4>1, <4>2, RowsStay
    <3> QED BY <3>1, <3>4, <3>8, <3>9 DEF Seated, At
  <2>3. CASE s = r
    <3>a. req \in [Req -> Request] /\ req[r] \in Request
      BY DEF Typed, TypeOK
    <3>1. CASE FindMembership(r)
      <4>1. /\ members' = members /\ u = req[r].user /\ c = req[r].convoy
            /\ req'[r].at = IF RowsOf(c, u) = {} THEN "insert"
                            ELSE IF \E m \in RowsOf(c, u) : m.left THEN "rejoin" ELSE "convoy"
        BY <1>2, <2>3, <3>1, <3>a DEF FindMembership, GoTo, tables, Request
      <4>2. RowsOf(c, u)' = RowsOf(c, u)
        BY <4>1 DEF RowsOf
      <4> QED BY <2>3, <4>1, <4>2 DEF At, IsIn
    <3>2. CASE CreateConvoy(r)
      <4>1. CASE Answer(r, 500)
        <5>1. req'[r].at = "done"
          BY <4>1, Answering DEF Answered
        <5> QED BY <2>3, <5>1 DEF At
      <4>2. CASE \E m \in members' : m.convoy = c /\ m.user = u /\ m.left = FALSE
        <5>1. IsIn(c, u)'
          BY <4>2 DEF IsIn, RowsOf
        <5>2. req'[r].at \notin {"insert", "rejoin"}
          BY <2>1, <3>2 DEF Handled, ArrivesBy, FindMembership, CreateConvoy, At
        <5> QED BY <2>3, <5>1, <5>2 DEF At
      <4>3. Answer(r, 500) \/ \E m \in members' : /\ m.convoy = req'[r].convoy /\ m.user = req'[r].user
                                                  /\ m.left = FALSE
        BY <3>2, Creating
      <4> QED BY <1>2, <2>3, <4>1, <4>2, <4>3
    <3>3. CASE InsertMember(r)
      <4>1. CASE Answer(r, 500)
        <5>1. req'[r].at = "done"
          BY <4>1, Answering DEF Answered
        <5> QED BY <2>3, <5>1 DEF At
      <4>2. CASE /\ members' = members \cup {[convoy |-> req[r].convoy, user |-> req[r].user,
                                              role |-> "member", left |-> FALSE]}
                 /\ GoTo(r, "convoy")
        <5>1. req'[r].at = "convoy" /\ c = req[r].convoy /\ u = req[r].user
          BY <1>2, <2>3, <4>2, Moving DEF Moved, Carried
        <5>2. PICK m \in members' : m.convoy = c /\ m.user = u /\ m.left = FALSE
          <6> DEFINE m0 == [convoy |-> req[r].convoy, user |-> req[r].user,
                            role |-> "member", left |-> FALSE]
          <6>1. m0 \in members' /\ m0.convoy = c /\ m0.user = u /\ m0.left = FALSE
            BY <4>2, <5>1
          <6> HIDE DEF m0
          <6> QED BY <6>1
        <5> QED BY <2>3, <5>1, <5>2 DEF At, IsIn, RowsOf
      <4> QED BY <3>3, <4>1, <4>2 DEF InsertMember
    <3>4. CASE Rejoin(r)
      <4>1. /\ req'[r].at = "convoy" /\ c = req[r].convoy /\ u = req[r].user
            /\ members' = SetLeft(c, u, FALSE) /\ UNCHANGED <<account, convoys>>
        BY <1>2, <2>3, <3>4, Moving DEF Rejoin, Moved, Carried
      <4>2. Present(c, u)' => RowsOf(c, u) # {}
        BY <3>4, <4>1 DEF Present, ConvoyExists, UserExists, Seated, Rejoin
      <4>3. Present(c, u)' => IsIn(c, u)'
        <5>1. members' = SetLeft(c, u, FALSE)
          BY <4>1
        <5>2. RowsOf(c, u) # {} => IsIn(c, u)'
          BY ZenonT(40), <5>1, Marking
        <5> QED BY <4>2, <5>2
      <4> QED BY <2>3, <4>1, <4>3 DEF At
    <3>5. CASE LoadConvoy(r)
      <4>1. /\ c = req[r].convoy /\ u = req[r].user /\ req[r].at = "convoy" /\ req'[r].op = req[r].op
            /\ UNCHANGED <<account, convoys, members>> /\ req'[r].at \in {"roster", "done"}
        BY <1>2, <2>1, <2>3, <3>5, <3>a, Moving, Answering
        DEF LoadConvoy, Moved, Answered, Carried, tables, Handled, OthersKept, At
      <4> QED BY <2>3, <4>1 DEF At, Seated, Present, ConvoyExists, UserExists, IsIn, RowsOf
    <3>6. CASE CheckMember(r) \/ SetDestination(r)
      <4>1. req'[r].op \in {"get", "aim"} /\ req'[r].at \notin {"insert", "rejoin"}
        BY <2>1, <3>6 DEF Handled, OthersKept, ArrivesBy, FindMembership, CheckMember, SetDestination,
                          At, Orderly, Serves
      <4> QED BY <2>3, <4>1 DEF At
    <3>7. CASE req'[r].at \notin {"insert", "rejoin", "convoy", "roster"}
      BY <2>3, <3>7 DEF At
    <3> QED BY <2>1, <3>1, <3>2, <3>3, <3>4, <3>5, <3>6, <3>7 DEF Handled, ArrivesBy
  <2> QED BY <2>2, <2>3
<1>3. ASSUME NEW r \in Req, Handle(r) PROVE Seated'
  BY <1>2, <1>3 DEF Seated
<1>4. CASE UNCHANGED vars
  BY <1>4 DEF vars, tables, Seated, At, RowsOf, IsIn, Present, ConvoyExists, UserExists
<1> QED BY <1>1, <1>3, <1>4 DEF Next, Idle

-----------------------------------------------------------------------------
(* Errors.                                                                 *)

Erasing == \E s \in Req : req[s].op = "delete" /\ req[s].at \in {"eraseUser", "done"}

(* Before the first account deletion is under way, no request has failed,  *)
(* and what its next statement refers to exists.                           *)
Undisturbed ==
  Erasing \/ \A r \in Req :
    /\ req[r].code # 500
    /\ req[r].at \in Statement => UserExists(req[r].user)
    /\ req[r].at \in {"membership", "insert", "rejoin", "aim", "convoy"} => ConvoyExists(req[r].convoy)

(* Errors are only answered once a deletion is under way.                  *)
LEMMA UndisturbedStep ==
  ASSUME Typed, Referential, Orderly, Seated, Undisturbed, [Next]_vars
  PROVE  Undisturbed'
<1>1. ASSUME NEW r \in Req, NEW p \in Person, NEW op \in Op, NEW c \in Convoy \cup {None}, Issue(r, p, op, c)
      PROVE  Undisturbed'
  <2>1. Issued(r, p, op) /\ UNCHANGED <<account, convoys>>
    BY <1>1, Issuing DEF Issue, tables
  <2> QED BY <2>1, StatementsApart DEF Issued, Undisturbed, Erasing, ConvoyExists, UserExists
<1>2. ASSUME NEW r \in Req, Handle(r) PROVE Undisturbed'
  <2>1. Handled(r)
    BY <1>2, Handling
  <2>a. req \in [Req -> Request] /\ req[r] \in Request /\ Carries(req[r]) /\ Serves(req[r])
    BY DEF Typed, TypeOK, Orderly
  <2>2. CASE Erasing
    <3>1. PICK s \in Req : req[s].op = "delete" /\ req[s].at \in {"eraseUser", "done"}
      BY <2>2 DEF Erasing
    <3>2. CASE s # r
      BY <2>1, <3>1, <3>2 DEF Handled, OthersKept, Undisturbed, Erasing
    <3>3. CASE s = r
      <4>1. req[r].at = "eraseUser" /\ req[r].op = "delete"
        BY <2>1, <3>1, <3>3, StatementsApart DEF Handled
      <4>2. EraseUser(r) \/ EraseFails(r)
        BY <1>2, <4>1 DEF Handle, Auth, CreateConvoy, FindConvoy, FindMembership, InsertMember, Rejoin,
           LeaveConvoy, CheckMember, FindOwned, SetDestination, LoadConvoy, LoadRoster, DeleteOldVehicle,
           InsertVehicle, UnsetVehicle, EraseConvoys, At
      <4>3. req'[r].at = "done"
        BY <4>2, Answering DEF EraseUser, EraseFails, Answered
      <4>4. req'[r].op = "delete"
        BY <2>1, <4>1 DEF Handled, OthersKept
      <4> QED BY <4>3, <4>4 DEF Undisturbed, Erasing
    <3> QED BY <3>2, <3>3
  <2>3. CASE EraseUser(r) \/ EraseFails(r)
    <3>1. req[r].op = "delete" /\ req'[r].at = "done"
      BY <2>3, <2>a, Answering DEF EraseUser, EraseFails, Answered, At, Serves
    <3> QED BY <2>1, <3>1 DEF Handled, OthersKept, Undisturbed, Erasing
  <2>4. CASE ~Erasing /\ ~EraseUser(r) /\ ~EraseFails(r)
    <3>1. \A s \in Req : /\ req[s].code # 500
                         /\ req[s].at \in Statement => UserExists(req[s].user)
                         /\ req[s].at \in {"membership", "insert", "rejoin", "aim", "convoy"}
                              => ConvoyExists(req[s].convoy)
      BY <2>4 DEF Undisturbed
    <3>2. convoys \subseteq convoys'
      <4>1. CreateConvoy(r) => convoys \subseteq convoys'
        BY Creating
      <4> QED BY <1>2, <2>4, <4>1, ConvoyChanges
    <3>3. \A c : ConvoyExists(c) => ConvoyExists(c)'
      BY <3>2 DEF ConvoyExists
    <3>4. account' = account \/ Auth(r)
      BY <1>2, <2>4 DEF Handle, CreateConvoy, FindConvoy, FindMembership, InsertMember, Rejoin,
           LeaveConvoy, CheckMember, FindOwned, SetDestination, LoadConvoy, LoadRoster, DeleteOldVehicle,
           InsertVehicle, UnsetVehicle, EraseConvoys, tables
    <3>5. ASSUME NEW u, u[1] \in Person, UserExists(u) PROVE UserExists(u)'
      <4>1. Auth(r) => account'[u[1]] = account[u[1]]
        BY <3>5 DEF Auth, UserExists, Typed, TypeOK
      <4> QED BY <3>4, <3>5, <4>1 DEF UserExists
    <3>6. ASSUME NEW s \in Req, s # r
          PROVE  /\ req'[s].code # 500
                 /\ req'[s].at \in Statement => UserExists(req[s].user)'
                 /\ req'[s].at \in {"membership", "insert", "rejoin", "aim", "convoy"}
                      => ConvoyExists(req[s].convoy)'
      <4>1. req'[s] = req[s]
        BY <2>1, <3>6 DEF Handled, OthersKept
      <4>2. PICK c, u : c = req[s].convoy /\ u = req[s].user
        OBVIOUS
      <4>3. req[s].at \in Statement => UserExists(u)'
        BY <3>1, <3>5, <4>2, RunsAsUser
      <4>4. req[s].at \in {"membership", "insert", "rejoin", "aim", "convoy"} => ConvoyExists(c)'
        BY <3>1, <3>3, <4>2
      <4> QED BY <3>1, <4>1, <4>2, <4>3, <4>4 DEF UserExists, ConvoyExists
    <3>7. req'[r].code # 500
      <4>1. CreateConvoy(r) => req'[r].code # 500
        <5>1. CreateConvoy(r) => UserExists(req[r].user)
          BY ZenonT(40), <3>1 DEF CreateConvoy, At, Statement
        <5>2. CreateConvoy(r) /\ UserExists(req[r].user) => req'[r].code = req[r].code
          BY Creating
        <5> QED BY <3>1, <5>1, <5>2
      <4>2. InsertMember(r) => req'[r].code # 500
        <5>1. InsertMember(r) => /\ ConvoyExists(req[r].convoy) /\ UserExists(req[r].user)
                                 /\ RowsOf(req[r].convoy, req[r].user) = {}
          BY <3>1 DEF InsertMember, At, Statement, Seated
        <5>2. InsertMember(r) => GoTo(r, "convoy")
          BY <5>1 DEF InsertMember
        <5> QED BY <3>1, <5>2, Moving DEF Moved
      <4>3. LoadConvoy(r) => req'[r].code # 500
        <5>1. LoadConvoy(r) => GoTo(r, "roster")
          BY <3>1 DEF LoadConvoy, At
        <5> QED BY <3>1, <5>1, Moving DEF Moved
      <4>4. InsertVehicle(r) => req'[r].code # 500
        <5>1. InsertVehicle(r) => Answer(r, 200)
          BY <3>1 DEF InsertVehicle, At, Statement
        <5> QED BY <5>1, Answering DEF Answered
      <4> QED BY <2>1, <2>4, <3>1, <4>1, <4>2, <4>3, <4>4 DEF Handled, RestKept
    <3>8. req'[r].at \in Statement => UserExists(req[r].user)'
      <4>1. CASE Auth(r)
        <5> DEFINE p == req[r].person
                   n == IF account[p] = 0 THEN minted[p] + 1 ELSE account[p]
        <5>1. p \in Person /\ account[p] \in Nat /\ minted[p] \in Nat /\ account \in [Person -> Nat]
          BY <2>a, <4>1 DEF Auth, At, Carries, Typed, TypeOK
        <5>2. n # 0
          BY <5>1
        <5>3. req'[r].user = <<p, n>> /\ account' = [account EXCEPT ![p] = n]
          BY <2>a, <4>1 DEF Auth, Request
        <5> HIDE DEF p, n
        <5>4. account'[p] = n
          BY <5>1, <5>3
        <5> QED BY <5>2, <5>3, <5>4 DEF UserExists
      <4>2. CASE ~Auth(r)
        <5>1. req[r].at \in Statement /\ req'[r].user = req[r].user
          BY <1>2, <2>1, <4>2 DEF Handled, RestKept, Handle, CreateConvoy, FindConvoy, FindMembership, InsertMember,
             Rejoin, LeaveConvoy, CheckMember, FindOwned, SetDestination, LoadConvoy, LoadRoster, DeleteOldVehicle,
             InsertVehicle, UnsetVehicle, EraseConvoys, EraseUser, EraseFails, At, Statement
        <5>2. PICK u : u = req[r].user
          OBVIOUS
        <5>3. UserExists(u)'
          BY <3>1, <3>5, <5>1, <5>2, RunsAsUser
        <5> QED BY <5>1, <5>2, <5>3 DEF UserExists
      <4> QED BY <4>1, <4>2
    <3>9. req'[r].at \in {"membership", "insert", "rejoin", "aim", "convoy"} => ConvoyExists(req[r].convoy)'
      <4>1. CASE CreateConvoy(r)
        <5>1. UserExists(req[r].user)
          BY ZenonT(40), <3>1, <4>1 DEF CreateConvoy, At, Statement
        <5>2. PICK c, v : convoys' = convoys \cup {v} /\ v.id = c /\ req'[r].convoy = c
          BY <4>1, <5>1, Creating
        <5> QED BY <5>2 DEF ConvoyExists
      <4>2. CASE ~CreateConvoy(r)
        <5>1. req'[r].convoy = req[r].convoy
          BY <2>1, <4>2 DEF Handled, RestKept
        <5>2. req'[r].at \in {"membership", "insert", "rejoin", "aim", "convoy"} => ConvoyExists(req[r].convoy)
          <6>1. FindConvoy(r) /\ req'[r].at = "membership" => ConvoyExists(req[r].convoy)
            BY Answering DEF FindConvoy, Answered
          <6>2. FindOwned(r) /\ req'[r].at = "aim" => ConvoyExists(req[r].convoy)
            BY Answering DEF FindOwned, Answered
          <6>3. CheckMember(r) /\ req'[r].at = "convoy" => ConvoyExists(req[r].convoy)
            BY Answering DEF CheckMember, Answered, Referential, RowsOf
          <6>4. ASSUME req[r].at \in {"membership", "insert", "rejoin", "aim"} PROVE ConvoyExists(req[r].convoy)
            BY <3>1, <6>4
          <6>5. FindMembership(r) \/ InsertMember(r) => req[r].at \in {"membership", "insert"}
            BY DEF FindMembership, InsertMember, At
          <6>6. Rejoin(r) \/ SetDestination(r) => req[r].at \in {"rejoin", "aim"}
            BY DEF Rejoin, SetDestination, At
          <6> QED BY <2>1, <4>2, <6>1, <6>2, <6>3, <6>4, <6>5, <6>6 DEF Handled, ArrivesBy
        <5>3. PICK c : c = req[r].convoy
          OBVIOUS
        <5> QED BY <3>3, <5>1, <5>2, <5>3 DEF ConvoyExists
      <4> QED BY <4>1, <4>2
    <3> QED BY <3>6, <3>7, <3>8, <3>9 DEF Undisturbed
  <2> QED BY <2>2, <2>3, <2>4
<1>3. CASE UNCHANGED vars
  BY <1>3 DEF vars, tables, Undisturbed, Erasing, UserExists, ConvoyExists
<1> QED BY <1>1, <1>2, <1>3 DEF Next, Idle

-----------------------------------------------------------------------------
(* The invariant when the changes of one person do not overlap.            *)

OrderlyInv ==
  /\ ~Overlap
  /\ Orderly
  /\ OneVehicle /\ OneEntryEach
  /\ Seated
  /\ Undisturbed

(* It holds in both starts, where no request runs and nobody has a vehicle. *)
LEMMA OrderlyStart ==
  ASSUME ~Overlap, Init
  PROVE  OrderlyInv
<1>1. \A r \in Req : req[r].at \in {"new", "done"} /\ req[r].code = 0 /\ req[r].roster = {}
  BY DEF Init, Unissued
<1>2. vehicles = {}
  BY DEF Init
<1>3. \A r \in Req : ~Running(r) /\ Serves(req[r])
  BY <1>1 DEF Running, Serves, Statement
<1>4. Orderly
  BY <1>3 DEF Orderly, Exclusive
<1>5. OneVehicle /\ OneEntryEach
  BY <1>1, <1>2 DEF OneVehicle, OneEntryEach, VehiclesOf
<1>6. Seated
  BY <1>1 DEF Seated, At
<1>7. Undisturbed
  BY <1>1, StatementsApart DEF Undisturbed
<1> QED BY <1>4, <1>5, <1>6, <1>7 DEF OrderlyInv

(* Each step preserves it.                                                 *)
LEMMA OrderlyInvariant == Spec /\ ~Overlap => []OrderlyInv
<1>1. ~Overlap /\ Init => OrderlyInv
  BY OrderlyStart
<1>2. ServiceInv /\ OrderlyInv /\ [Next]_vars => OrderlyInv'
  BY OrderlyStep, OneVehicleStep, OneEntryStep, SeatedStep, UndisturbedStep DEF ServiceInv, OrderlyInv
<1> QED BY <1>1, <1>2, ServiceInvariant, PTL DEF Spec

-----------------------------------------------------------------------------
(* The theorems of people who do one thing at a time.                      *)

(* No roster lists a member twice, for any number of people: the two       *)
(* statements of a vehicle's replacement keep one vehicle each, unless two *)
(* replacements of one person overlap.                                     *)
THEOREM OneEntryUnlessOverlapping == Spec /\ ~Overlap => []OneEntryEach
<1>1. OrderlyInv => OneEntryEach
  BY DEF OrderlyInv
<1> QED BY <1>1, OrderlyInvariant, PTL

(* Without an account deletion under way or done, no request is answered   *)
(* with an internal error: every row it refers to is there, and none it    *)
(* adds is there already.                                                  *)
THEOREM ErrorsExplainedUnlessOverlapping == Spec /\ ~Overlap => []ErrorsExplained
<1>1. OrderlyInv => ErrorsExplained
  BY DEF OrderlyInv, Undisturbed, Erasing, ErrorsExplained
<1> QED BY <1>1, OrderlyInvariant, PTL

(* Who is told that a create or a join succeeded is in the roster that     *)
(* comes with it, unless the convoy or the account was deleted meanwhile.  *)
THEOREM JoinerListedUnlessOverlapping == Spec /\ ~Overlap => JoinerListed
<1>1. ASSUME ServiceInv, OrderlyInv, [Next]_vars,
             NEW r \in Req, At(r, "roster"), req'[r].at = "done", req[r].op \in {"create", "join"}
      PROVE  \/ \E e \in req'[r].roster : e.user = req[r].user
             \/ ~ConvoyExists(req[r].convoy)
             \/ ~UserExists(req[r].user)
  <2>1. Typed
    BY <1>1 DEF ServiceInv
  <2>2. ~UNCHANGED vars
    BY <1>1 DEF vars, At
  <2>3. ASSUME NEW s \in Req, NEW p \in Person, NEW op \in Op, NEW c \in Convoy \cup {None}, Issue(s, p, op, c)
        PROVE  FALSE
    <3>1. Issued(s, p, op)
      BY <2>1, <2>3, Issuing
    <3> QED BY <1>1, <3>1 DEF Issued, At
  <2>4. LoadRoster(r)
    <3>1. PICK s \in Req : Handle(s)
      BY <1>1, <2>2, <2>3 DEF Next, Idle
    <3>2. s = r
      BY <1>1, <2>1, <3>1, Handling DEF Handled, OthersKept, At
    <3> QED BY <1>1, <3>1, <3>2 DEF Handle, Auth, CreateConvoy, FindConvoy, FindMembership, InsertMember, Rejoin,
         LeaveConvoy, CheckMember, FindOwned, SetDestination, LoadConvoy, DeleteOldVehicle, InsertVehicle,
         UnsetVehicle, EraseConvoys, EraseUser, EraseFails, At
  <2>5. req'[r].roster = Roster(req[r].convoy)
    BY <2>1, <2>4 DEF LoadRoster, Typed, TypeOK, Request
  <2>6. Present(req[r].convoy, req[r].user) => IsIn(req[r].convoy, req[r].user)
    BY <1>1 DEF OrderlyInv, Seated, At
  <2>7. IsIn(req[r].convoy, req[r].user) => \E e \in Roster(req[r].convoy) : e.user = req[r].user
    BY RosterEntries DEF IsIn, RowsOf
  <2> QED BY <2>5, <2>6, <2>7 DEF Present
<1>2. ServiceInv /\ OrderlyInv /\ [Next]_vars =>
        \A r \in Req :
          At(r, "roster") /\ req'[r].at = "done" /\ req[r].op \in {"create", "join"} =>
            \/ \E e \in req'[r].roster : e.user = req[r].user
            \/ ~ConvoyExists(req[r].convoy)
            \/ ~UserExists(req[r].user)
  BY <1>1
<1> QED BY <1>2, ServiceInvariant, OrderlyInvariant, PTL DEF Spec, JoinerListed

=============================================================================
