-------------------------- MODULE DocumentsProofs ---------------------------
(***************************************************************************)
(* The properties of Documents for every set of users and requests, with   *)
(* ids that are used again.  What an accept or a rename may still do       *)
(* depends on the stage the present document has reached, and on whether   *)
(* the request was checked against this document: Inv says, for each       *)
(* stage, which rows, links and pending requests there can be, as long as  *)
(* no late request has given a role.                                       *)
(***************************************************************************)
EXTENDS Documents, TLAPS

Pending == [pc : {"grant", "rename", "remove", "accept"}, user : User, role : Role]
Requests == {Idle} \cup Pending

Timely == Request \ late

(* The row is there; one request has yet to grant the owner's role. *)
Growing ==
  /\ Unclaimed /\ ~ half /\ signed = {}
  /\ \E g \in Timely :
       /\ req[g] = [pc |-> "grant", user |-> row, role |-> "owner"]
       /\ \A r \in Timely \ {g} : req[r] = Idle

(* That request died. *)
Stuck == Unclaimed /\ half /\ signed = {} /\ \A r \in Timely : req[r] = Idle

(* Who a pending request is from, and what it was told. *)
Entitled(r) ==
  /\ req[r].pc # "grant"
  /\ req[r].pc = "remove" => req[r].user = row
  /\ req[r].pc = "accept" =>
       req[r].user \in User \ {row} /\ [role |-> req[r].role, by |-> row] \in signed

(* The owner holds its role; everybody else's is from the owner's links. *)
Claimed ==
  /\ ~ half
  /\ perm[row] = "owner"
  /\ \A u \in User \ {row} : perm[u] # "none" => [role |-> perm[u], by |-> row] \in signed
  /\ \A link \in signed : link.by = row
  /\ \A r \in Timely : Entitled(r)

(* Whoever may write, or was told so, is known as an editor. *)
EditorsKnown ==
  /\ \A u \in User : CanEdit(u) => u \in editors
  /\ \A r \in Timely : req[r].pc = "rename" => req[r].user \in editors

Staged == row # NoOne /\ ~ haunted => Growing \/ Stuck \/ Claimed

Inv == TypeOK /\ EditorsKnown /\ Staged

-----------------------------------------------------------------------------
(* At first there is no document. *)
LEMMA InitInv == Init => Inv
<1> SUFFICES ASSUME Init PROVE Inv
  OBVIOUS
<1>1. TypeOK
  BY DEF Init, TypeOK, NoRoles, Role, Unclaimed
<1>2. EditorsKnown
  BY DEF Init, EditorsKnown, CanEdit, NoRoles, Idle, Timely
<1> QED BY <1>1, <1>2 DEF Init, Inv, Staged

(* An idle request is in no state of the others. *)
LEMMA IdleIsNone ==
  /\ Idle.pc = "idle"
  /\ \A p \in Pending : p # Idle
  BY DEF Idle, Pending

(* A request goes on to a state it may be in. *)
LEMMA GoesIsTyped ==
  ASSUME TypeOK, NEW r \in Request, NEW u \in User, NEW role \in Role,
         NEW pc \in {"grant", "rename", "remove", "accept"}, Goes(r, pc, u, role)
  PROVE  /\ req' \in [Request -> Requests]
         /\ req'[r] = [pc |-> pc, user |-> u, role |-> role]
         /\ req'[r] # Idle
         /\ \A q \in Request \ {r} : req'[q] = req[q]
<1>1. [pc |-> pc, user |-> u, role |-> role] \in Pending
  BY DEF Pending
<1>2. req \in [Request -> Requests]
  BY DEF TypeOK, Requests, Pending
<1> QED BY <1>1, <1>2, IdleIsNone DEF Goes, Requests

(* An answered request is idle again, and no other one changes. *)
LEMMA AnswerIsTyped ==
  ASSUME TypeOK, NEW r \in Request, Answer(r)
  PROVE  /\ req' \in [Request -> Requests]
         /\ req'[r] = Idle
         /\ \A q \in Request \ {r} : req'[q] = req[q]
         /\ late' = late \ {r}
         /\ late' \subseteq {q \in Request : req'[q] # Idle}
<1>1. req \in [Request -> Requests]
  BY DEF TypeOK, Requests, Pending
<1>2. /\ req' \in [Request -> Requests]
      /\ req'[r] = Idle /\ \A q \in Request \ {r} : req'[q] = req[q]
  BY <1>1 DEF Answer, Requests
<1> QED BY <1>2 DEF Answer, TypeOK

(* A pending request is from a user, with a role. *)
LEMMA PendingIsTyped ==
  ASSUME TypeOK, NEW r \in Request, req[r].pc # "idle"
  PROVE  req[r] \in Pending /\ req[r] # Idle /\ req[r].user \in User /\ req[r].role \in Role
<1>1. req[r] \in Pending
  BY IdleIsNone DEF TypeOK, Pending
<1> QED BY <1>1, IdleIsNone DEF Pending

(* A role is given where there is a row; who may edit is still a user.     *)
LEMMA GrantIsTyped ==
  ASSUME TypeOK, NEW r \in Request, NEW role \in Role, req[r].user \in User, Grant(r, role)
  PROVE  TypeOK'
<1>1. /\ req' \in [Request -> Requests]
      /\ late' \subseteq {q \in Request : req'[q] # Idle}
  BY AnswerIsTyped DEF Grant
<1>2. perm' \in [User -> Role] /\ editors' \subseteq User /\ haunted' \in BOOLEAN
  BY DEF Grant, SetRole, TypeOK
<1>3. row = NoOne => perm' = perm
  BY DEF Grant
<1> QED BY <1>1, <1>2, <1>3 DEF Grant, TypeOK, Unclaimed, Requests, Pending

(* Every step keeps the types. *)
LEMMA StepTypeOK ==
  ASSUME TypeOK, [Next]_vars
  PROVE  TypeOK'
<1> USE DocumentsAssumption DEF DocumentsAssumption
<1> DEFINE Typed == /\ req' \in [Request -> Requests]
                    /\ late' \subseteq {q \in Request : req'[q] # Idle}
<1>1. ASSUME NEW r \in Request, NEW u \in User, CreateRow(r, u)
      PROVE  TypeOK'
  <2>1. /\ req' \in [Request -> Requests] /\ req'[r] # Idle
        /\ \A q \in Request \ {r} : req'[q] = req[q]
    BY <1>1, GoesIsTyped DEF CreateRow, NewDocument, Role
  <2>2. Typed
    BY <1>1, <2>1 DEF CreateRow, NewDocument
  <2> QED BY <1>1, <2>2 DEF CreateRow, NewDocument, TypeOK, Unclaimed, Requests, Pending
<1>2. ASSUME NEW r \in Request, GrantOwner(r)
      PROVE  TypeOK'
  BY <1>2, PendingIsTyped, GrantIsTyped DEF GrantOwner, Role
<1>3. ASSUME NEW r \in Request, NEW u \in User, CheckRename(r, u) \/ CheckRemove(r, u)
      PROVE  TypeOK'
  <2> DEFINE role == perm[u]
  <2>1. role \in Role
    BY DEF TypeOK
  <2>2. /\ Goes(r, "rename", u, role) \/ Goes(r, "remove", u, role)
        /\ UNCHANGED <<rows, links, history>>
    BY <1>3 DEF CheckRename, CheckRemove
  <2> HIDE DEF role
  <2>3. /\ req' \in [Request -> Requests] /\ req'[r] # Idle
        /\ \A q \in Request \ {r} : req'[q] = req[q]
    <3>1. CASE Goes(r, "rename", u, role)
      BY <2>1, <3>1, GoesIsTyped
    <3>2. CASE Goes(r, "remove", u, role)
      BY <2>1, <3>2, GoesIsTyped
    <3> QED BY <2>2, <3>1, <3>2
  <2>4. Typed
    BY <2>2, <2>3 DEF history, TypeOK
  <2> QED BY <2>2, <2>4 DEF rows, history, TypeOK, Unclaimed, Requests, Pending
<1>4. ASSUME NEW r \in Request, Rename(r) \/ Die(r)
      PROVE  TypeOK'
  <2>1. Answer(r)
    BY <1>4 DEF Rename, Die
  <2>2. Typed
    BY <2>1, AnswerIsTyped
  <2>3. /\ UNCHANGED <<row, perm, links, editors, signed, haunted>>
        /\ title' \in User \cup {NoOne} /\ (row = NoOne => title' = title)
        /\ half' \in BOOLEAN /\ (row = NoOne => half' = half)
    <3>1. CASE Rename(r)
      BY <3>1, PendingIsTyped DEF Rename, TypeOK
    <3>2. CASE Die(r)
      BY <3>2 DEF Die, TypeOK
    <3> QED BY <1>4, <3>1, <3>2
  <2> QED BY <2>2, <2>3 DEF TypeOK, Unclaimed, Requests, Pending
<1>5. ASSUME NEW r \in Request, Remove(r)
      PROVE  TypeOK'
  <2>1. Typed
    BY <1>5, AnswerIsTyped DEF Remove
  <2> QED BY <1>5, <2>1 DEF Remove, TypeOK, Unclaimed, NoRoles, Role, Requests, Pending
<1>6. ASSUME NEW r \in Request, NEW u \in User, NEW link \in links, CheckAccept(r, u, link)
      PROVE  TypeOK'
  <2> DEFINE role == link.role
  <2>1. role \in Role /\ Goes(r, "accept", u, role)
    BY <1>6 DEF CheckAccept, GoesAccept, TypeOK, Link, Role
  <2> HIDE DEF role
  <2>2. /\ req' \in [Request -> Requests] /\ req'[r] # Idle
        /\ \A q \in Request \ {r} : req'[q] = req[q]
    BY <2>1, GoesIsTyped
  <2>3. Typed
    BY <1>6, <2>2 DEF CheckAccept, GoesAccept, TypeOK
  <2> QED BY <1>6, <2>3 DEF CheckAccept, GoesAccept, rows, TypeOK, Unclaimed, Requests, Pending
<1>7. ASSUME NEW r \in Request, Accept(r)
      PROVE  TypeOK'
  <2> DEFINE role == req[r].role
  <2>1. role \in Role /\ req[r].user \in User /\ Grant(r, role)
    BY <1>7, PendingIsTyped DEF Accept
  <2> HIDE DEF role
  <2> QED BY <2>1, GrantIsTyped
<1>8. ASSUME NEW u \in User, Revoke(u)
      PROVE  TypeOK'
  <2>1. perm' \in [User -> Role]
    BY <1>8 DEF Revoke, TypeOK, Role
  <2>2. perm = NoRoles => perm' = NoRoles
    BY <1>8 DEF Revoke, NoRoles
  <2> QED BY <1>8, <2>1, <2>2 DEF Revoke, history, TypeOK, Unclaimed
<1>9. ASSUME NEW u \in User, NEW role \in {"editor", "viewer"}, Share(u, role)
      PROVE  TypeOK'
  <2>1. [role |-> role, by |-> u] \in Link
    BY DEF Link
  <2> QED BY <1>9, <2>1 DEF Share, rows, TypeOK, Unclaimed
<1>10. CASE UNCHANGED vars
  BY <1>10 DEF vars, rows, history, TypeOK, Unclaimed
<1> QED
  BY <1>1, <1>2, <1>3, <1>4, <1>5, <1>6, <1>7, <1>8, <1>9, <1>10 DEF Next

-----------------------------------------------------------------------------
(* Roles there are only on a document with a row; before a late request    *)
(* gives one, only on a claimed one, and the owner's on its row's user.    *)
LEMMA RoleStage ==
  ASSUME Inv, NEW u \in User, perm[u] # "none"
  PROVE  /\ row # NoOne
         /\ ~ haunted => Claimed /\ (perm[u] = "owner" => u = row)
<1>1. ~ Unclaimed
  BY DEF Unclaimed, NoRoles
<1>2. row # NoOne
  BY <1>1 DEF Inv, TypeOK
<1>3. ~ haunted => Claimed
  BY <1>1, <1>2 DEF Inv, Staged, Growing, Stuck
<1>4. ASSUME ~ haunted, perm[u] = "owner", u # row PROVE FALSE
  <2>1. [role |-> perm[u], by |-> row] \in signed
    BY <1>3, <1>4 DEF Claimed
  <2>2. [role |-> perm[u], by |-> row] \in Link
    BY <2>1 DEF Inv, TypeOK
  <2> QED BY <1>4, <2>2 DEF Link
<1> QED BY <1>2, <1>3, <1>4

(* A role that is given makes an editor known; the others stay known.      *)
LEMMA GrantKnown ==
  ASSUME TypeOK, EditorsKnown, NEW r \in Request, NEW role \in Role, Grant(r, role)
  PROVE  EditorsKnown'
<1>1. /\ req'[r] = Idle /\ \A q \in Request \ {r} : req'[q] = req[q]
      /\ late' = late \ {r}
  BY AnswerIsTyped DEF Grant
<1>2. editors \subseteq editors' /\ \A u \in User : CanEdit(u)' => u \in editors'
  BY DEF Grant, SetRole, TypeOK, EditorsKnown, CanEdit
<1> QED BY <1>1, <1>2, IdleIsNone DEF EditorsKnown, Timely

(* Every step keeps the editors known. *)
LEMMA StepKnown ==
  ASSUME TypeOK, EditorsKnown, [Next]_vars
  PROVE  EditorsKnown'
<1>1. ASSUME NEW r \in Request, NEW u \in User, CreateRow(r, u)
      PROVE  EditorsKnown'
  <2>1. req'[r].pc = "grant" /\ \A q \in Request \ {r} : req'[q] = req[q]
    <3>1. Goes(r, "grant", u, "owner")
      BY <1>1 DEF CreateRow, NewDocument
    <3> QED BY <3>1 DEF Goes, TypeOK
  <2>2. \A q \in Request : q \notin late' => req[q] = Idle
    BY <1>1 DEF CreateRow, NewDocument
  <2>3. \A v \in User : perm'[v] = "none"
    BY <1>1 DEF CreateRow, NewDocument, TypeOK, Unclaimed, NoRoles
  <2> QED BY <2>1, <2>2, <2>3, IdleIsNone DEF EditorsKnown, Timely, CanEdit
<1>2. ASSUME NEW r \in Request, GrantOwner(r)
      PROVE  EditorsKnown'
  BY <1>2, GrantKnown DEF GrantOwner, Role
<1>3. ASSUME NEW r \in Request, NEW u \in User, CheckRename(r, u) \/ CheckRemove(r, u)
      PROVE  EditorsKnown'
  <2>1. /\ req'[r].pc = "rename" => CanEdit(u)
        /\ req'[r].user = u
        /\ \A q \in Request \ {r} : req'[q] = req[q]
    BY <1>3 DEF CheckRename, CheckRemove, Goes, TypeOK
  <2> QED BY <1>3, <2>1
      DEF CheckRename, CheckRemove, rows, history, EditorsKnown, Timely, CanEdit
<1>4. ASSUME NEW r \in Request, Rename(r) \/ Die(r)
      PROVE  EditorsKnown'
  <2>1. Answer(r) /\ UNCHANGED <<perm, editors>>
    BY <1>4 DEF Rename, Die
  <2>2. /\ req'[r] = Idle /\ \A q \in Request \ {r} : req'[q] = req[q]
        /\ late' = late \ {r}
    BY <2>1, AnswerIsTyped
  <2> QED BY <2>1, <2>2, IdleIsNone DEF EditorsKnown, Timely, CanEdit
<1>5. ASSUME NEW r \in Request, Remove(r)
      PROVE  EditorsKnown'
  <2>1. /\ req'[r] = Idle /\ \A q \in Request \ {r} : req'[q] = req[q]
        /\ late' = late \ {r}
    BY <1>5, AnswerIsTyped DEF Remove
  <2>2. \A v \in User : perm'[v] = "none"
    BY <1>5 DEF Remove, NoRoles
  <2> QED BY <1>5, <2>1, <2>2, IdleIsNone DEF Remove, EditorsKnown, Timely, CanEdit
<1>6. ASSUME NEW r \in Request, NEW u \in User, NEW link \in links, CheckAccept(r, u, link)
      PROVE  EditorsKnown'
  <2>1. req'[r].pc = "accept" /\ \A q \in Request \ {r} : req'[q] = req[q]
    BY <1>6 DEF CheckAccept, GoesAccept, Goes, TypeOK
  <2> QED BY <1>6, <2>1 DEF CheckAccept, GoesAccept, rows, EditorsKnown, Timely, CanEdit
<1>7. ASSUME NEW r \in Request, Accept(r)
      PROVE  EditorsKnown'
  <2> DEFINE role == req[r].role
  <2>1. role \in Role /\ Grant(r, role)
    BY <1>7, PendingIsTyped DEF Accept
  <2> HIDE DEF role
  <2> QED BY <2>1, GrantKnown
<1>8. ASSUME NEW u \in User, Revoke(u)
      PROVE  EditorsKnown'
  BY <1>8 DEF Revoke, history, TypeOK, EditorsKnown, Timely, CanEdit
<1>9. ASSUME NEW u \in User, NEW role \in {"editor", "viewer"}, Share(u, role)
      PROVE  EditorsKnown'
  BY <1>9 DEF Share, rows, EditorsKnown, Timely, CanEdit
<1>10. CASE UNCHANGED vars
  BY <1>10 DEF vars, rows, history, EditorsKnown, Timely, CanEdit
<1> QED
  BY <1>1, <1>2, <1>3, <1>4, <1>5, <1>6, <1>7, <1>8, <1>9, <1>10 DEF Next

-----------------------------------------------------------------------------
(* What one answered request leaves of a stage. *)
LEMMA AnswerKeepsClaimed ==
  ASSUME TypeOK, Claimed, NEW r \in Request, Answer(r),
         UNCHANGED <<row, perm, half, signed>>
  PROVE  Claimed'
<1>1. /\ req'[r] = Idle /\ \A q \in Request \ {r} : req'[q] = req[q]
      /\ late' = late \ {r}
  BY AnswerIsTyped
<1>2. \A q \in Request \ {r} : Entitled(q) => Entitled(q)'
  BY <1>1 DEF Entitled
<1>3. Entitled(r)'
  BY <1>1, IdleIsNone DEF Entitled
<1>4. \A q \in Timely' : Entitled(q)'
  BY <1>1, <1>2, <1>3 DEF Claimed, Timely
<1> QED BY <1>4 DEF Claimed

(* A request of no stage, answered, leaves the others what they are.       *)
LEMMA LateAnswerKeepsGrowing ==
  ASSUME TypeOK, NEW r \in Request, r \in late, Answer(r),
         UNCHANGED <<row, perm, half, signed>>
  PROVE  (Growing => Growing') /\ (Stuck => Stuck')
<1>1. /\ req'[r] = Idle /\ \A q \in Request \ {r} : req'[q] = req[q]
      /\ late' = late \ {r}
  BY AnswerIsTyped
<1>2. Timely' = Timely \cup {r}
  BY <1>1 DEF Timely
<1>3. \A q \in Timely : req'[q] = req[q]
  BY <1>1 DEF Timely
<1>4. Growing => Growing'
  BY <1>1, <1>2, <1>3, IdleIsNone DEF Growing, Unclaimed
<1>5. Stuck => Stuck'
  BY <1>1, <1>2, <1>3 DEF Stuck, Unclaimed
<1> QED BY <1>4, <1>5

(* Every step keeps to the stages: a request that is checked on a claimed  *)
(* document is entitled, and one checked before it is late.                *)
LEMMA StepStaged ==
  ASSUME Inv, [Next]_vars
  PROVE  Staged'
<1> USE DocumentsAssumption DEF DocumentsAssumption
<1>0. TypeOK
  BY DEF Inv
<1> DEFINE Stage == Growing \/ Stuck \/ Claimed
<1> SUFFICES ASSUME row' # NoOne, ~ haunted'
             PROVE  Stage'
  BY DEF Staged
<1>1. ASSUME NEW r \in Request, NEW u \in User, CreateRow(r, u)
      PROVE  Stage'
  <2>1. /\ req'[r] = [pc |-> "grant", user |-> u, role |-> "owner"]
        /\ \A q \in Request \ {r} : req'[q] = req[q]
    BY <1>0, <1>1, GoesIsTyped DEF CreateRow, NewDocument, Role
  <2>2. \A q \in Timely' : req[q] = Idle
    BY <1>1 DEF CreateRow, NewDocument, Timely
  <2>3. r \in Timely'
    BY <1>1 DEF CreateRow, NewDocument, Timely
  <2>4. Growing'
    <3>1. perm' = NoRoles /\ row' = u /\ signed' = {} /\ ~ half'
      BY <1>0, <1>1 DEF CreateRow, NewDocument, TypeOK, Unclaimed
    <3>2. \A q \in Timely' \ {r} : req'[q] = Idle
      BY <2>1, <2>2 DEF Timely
    <3> QED BY <2>1, <2>3, <3>1, <3>2 DEF Growing, Unclaimed
  <2> QED BY <2>4
<1>2. ASSUME NEW r \in Request, GrantOwner(r)
      PROVE  Stage'
  <2>1. row # NoOne /\ r \in Timely /\ ~ haunted /\ SetRole(req[r].user, "owner")
    BY <1>2 DEF GrantOwner, Grant, Timely
  <2>2. Growing
    BY <1>2, <2>1, IdleIsNone DEF GrantOwner, Inv, Staged, Stuck, Claimed, Entitled
  <2>3. /\ req[r] = [pc |-> "grant", user |-> row, role |-> "owner"]
        /\ \A q \in Timely \ {r} : req[q] = Idle
    BY <1>2, <2>1, <2>2, IdleIsNone DEF GrantOwner, Growing
  <2>4. /\ req'[r] = Idle /\ \A q \in Request \ {r} : req'[q] = req[q]
        /\ late' = late \ {r}
    BY <1>0, <1>2, AnswerIsTyped DEF GrantOwner, Grant
  <2>5. \A q \in Timely' : req'[q] = Idle
    BY <2>3, <2>4 DEF Timely
  <2>6. \A q \in Timely' : Entitled(q)'
    BY <2>5, IdleIsNone DEF Entitled
  <2>7. perm'[row] = "owner" /\ \A u \in User \ {row} : perm'[u] = "none"
    BY <1>0, <2>1, <2>2, <2>3 DEF SetRole, Growing, Unclaimed, NoRoles, TypeOK
  <2>8. Claimed'
    BY <1>2, <2>2, <2>6, <2>7 DEF GrantOwner, Grant, Growing, Claimed
  <2> QED BY <2>8
<1>3. ASSUME NEW r \in Request, NEW u \in User, CheckRename(r, u) \/ CheckRemove(r, u)
      PROVE  Stage'
  <2>1. UNCHANGED <<rows, links, history>> /\ perm[u] # "none"
    BY <1>3 DEF CheckRename, CheckRemove, CanEdit
  <2>2. Claimed
    BY <2>1, RoleStage DEF history
  <2>3. /\ req'[r].pc \in {"rename", "remove"} /\ req'[r].user = u
        /\ req'[r].pc = "remove" => perm[u] = "owner"
        /\ \A q \in Request \ {r} : req'[q] = req[q]
    BY <1>0, <1>3 DEF CheckRename, CheckRemove, Goes, TypeOK
  <2>4. perm[u] = "owner" => u = row
    BY <2>1, RoleStage DEF history
  <2>5. Entitled(r)' /\ \A q \in Request \ {r} : Entitled(q) => Entitled(q)'
    BY <2>1, <2>3, <2>4 DEF rows, history, Entitled
  <2>6. Claimed'
    BY <2>1, <2>2, <2>5 DEF rows, history, Claimed, Timely
  <2> QED BY <2>6
<1>4. ASSUME NEW r \in Request, Rename(r) \/ Die(r)
      PROVE  Stage'
  <2>1. Answer(r) /\ UNCHANGED <<row, perm, signed, haunted>> /\ req[r].pc # "idle"
    BY <1>0, <1>4, IdleIsNone DEF Rename, Die, TypeOK, Pending
  <2>2. Stage
    BY <2>1 DEF Inv, Staged
  <2>3. half' = half \/ (Die(r) /\ req[r].pc = "grant" /\ r \in Timely)
    <3>1. CASE Rename(r)
      BY <3>1 DEF Rename
    <3>2. CASE Die(r) /\ ~ (req[r].pc = "grant" /\ row # NoOne /\ r \notin late)
      <4>1. half' = (half \/ FALSE)
        BY <3>2 DEF Die
      <4> QED BY <1>0, <4>1 DEF TypeOK
    <3>3. CASE Die(r) /\ req[r].pc = "grant" /\ row # NoOne /\ r \notin late
      BY <3>3 DEF Timely
    <3> QED BY <1>4, <3>1, <3>2, <3>3
  <2>4. CASE r \in late
    <3>1. half' = half
      BY <2>3, <2>4 DEF Timely
    <3> QED BY <1>0, <2>1, <2>2, <2>4, <3>1, LateAnswerKeepsGrowing, AnswerKeepsClaimed
  <2>5. CASE r \in Timely /\ Claimed
    <3>1. half' = half
      BY <2>3, <2>5 DEF Claimed, Entitled
    <3> QED BY <1>0, <2>1, <2>5, <3>1, AnswerKeepsClaimed
  <2>6. CASE r \in Timely /\ Growing
    <3>1. req[r].pc = "grant" /\ \A q \in Timely \ {r} : req[q] = Idle
      BY <2>1, <2>6, IdleIsNone DEF Growing
    <3>2. half'
      BY <1>4, <2>1, <2>6, <3>1 DEF Rename, Die, Timely
    <3>3. /\ req'[r] = Idle /\ \A q \in Request \ {r} : req'[q] = req[q]
          /\ late' = late \ {r}
      BY <1>0, <2>1, AnswerIsTyped
    <3>4. \A q \in Timely' : req'[q] = Idle
      BY <3>1, <3>3 DEF Timely
    <3>5. Stuck'
      BY <2>1, <2>6, <3>2, <3>4 DEF Growing, Stuck, Unclaimed
    <3> QED BY <3>5
  <2>7. CASE r \in Timely /\ Stuck
    BY <2>1, <2>7, IdleIsNone DEF Stuck
  <2> QED BY <2>2, <2>4, <2>5, <2>6, <2>7 DEF Timely
<1>5. ASSUME NEW r \in Request, Remove(r)
      PROVE  Stage'
  BY <1>5 DEF Remove
<1>6. ASSUME NEW r \in Request, NEW u \in User, NEW link \in links, CheckAccept(r, u, link)
      PROVE  Stage'
  <2>1. UNCHANGED <<rows, editors, signed, haunted>> /\ req[r] = Idle
    BY <1>6 DEF CheckAccept, GoesAccept
  <2>2. Stage
    BY <2>1 DEF rows, Inv, Staged
  <2>3. /\ req'[r] = [pc |-> "accept", user |-> u, role |-> link.role]
        /\ \A q \in Request \ {r} : req'[q] = req[q]
    BY <1>0, <1>6 DEF CheckAccept, GoesAccept, Goes, TypeOK
  <2>4. \A q \in Request \ {r} : Entitled(q) => Entitled(q)'
    BY <2>1, <2>3 DEF rows, Entitled
  <2>5. CASE link \notin signed
    <3>1. Timely' = Timely \ {r}
      BY <1>6, <2>5 DEF CheckAccept, GoesAccept, Timely
    <3>2. \A q \in Timely' : q # r /\ req'[q] = req[q]
      BY <2>3, <3>1 DEF Timely
    <3>3. Growing => Growing'
      BY <2>1, <3>1, <3>2, IdleIsNone DEF rows, Growing, Unclaimed
    <3>4. Stuck => Stuck'
      BY <2>1, <3>1, <3>2 DEF rows, Stuck, Unclaimed
    <3>5. Claimed => Claimed'
      BY <2>1, <2>4, <3>1 DEF rows, Claimed, Timely
    <3> QED BY <2>2, <3>3, <3>4, <3>5
  <2>6. CASE link \in signed
    <3>1. Claimed
      BY <2>2, <2>6 DEF Growing, Stuck
    <3>2. u # row /\ link.by = row /\ link \in Link
      BY <1>0, <1>6, <2>6, <3>1 DEF CheckAccept, Claimed, TypeOK
    <3>3. link = [role |-> link.role, by |-> row]
      BY <3>2 DEF Link
    <3>4. Entitled(r)'
      BY <2>1, <2>3, <2>6, <3>2, <3>3 DEF rows, Entitled
    <3>5. Timely' = Timely
      BY <1>6, <2>6 DEF CheckAccept, GoesAccept, Timely
    <3>6. Claimed'
      BY <2>1, <2>4, <3>1, <3>4, <3>5 DEF rows, Claimed, Timely
    <3> QED BY <3>6
  <2> QED BY <2>5, <2>6
<1>7. ASSUME NEW r \in Request, Accept(r)
      PROVE  Stage'
  <2>1. /\ row # NoOne /\ r \in Timely /\ ~ haunted
        /\ SetRole(req[r].user, req[r].role) /\ UNCHANGED <<row, half, signed>>
    BY <1>7 DEF Accept, Grant, Timely
  <2>2. Claimed
    BY <1>7, <2>1, IdleIsNone DEF Accept, Inv, Staged, Growing, Stuck
  <2>3. /\ req[r].user \in User \ {row}
        /\ [role |-> req[r].role, by |-> row] \in signed
    BY <1>7, <2>1, <2>2 DEF Accept, Claimed, Entitled
  <2>4. /\ req'[r] = Idle /\ \A q \in Request \ {r} : req'[q] = req[q]
        /\ late' = late \ {r}
    BY <1>0, <1>7, AnswerIsTyped DEF Accept, Grant
  <2>5. /\ perm'[req[r].user] = req[r].role
        /\ \A u \in User \ {req[r].user} : perm'[u] = perm[u]
    BY <1>0, <2>1, <2>3 DEF SetRole, TypeOK
  <2>6. Entitled(r)' /\ \A q \in Request \ {r} : Entitled(q) => Entitled(q)'
    BY <2>1, <2>4, IdleIsNone DEF Entitled
  <2>7. \A q \in Timely' : Entitled(q)'
    BY <2>2, <2>4, <2>6 DEF Claimed, Timely
  <2>8. perm'[row] = "owner"
    BY <1>0, <2>1, <2>2, <2>3, <2>5 DEF Claimed, TypeOK
  <2>9. \A u \in User \ {row} : perm'[u] # "none" => [role |-> perm'[u], by |-> row] \in signed
    BY <2>2, <2>3, <2>5 DEF Claimed
  <2>10. Claimed'
    BY <2>1, <2>2, <2>7, <2>8, <2>9 DEF Claimed
  <2> QED BY <2>10
<1>8. ASSUME NEW u \in User, Revoke(u)
      PROVE  Stage'
  <2>1. UNCHANGED <<row, half, req, history>>
    BY <1>8 DEF Revoke
  <2>2. Stage
    BY <2>1 DEF history, Inv, Staged
  <2>3. \A v \in User : perm'[v] = perm[v] \/ (perm[v] # "owner" /\ perm'[v] = "none")
    <3>1. \A v \in User \ {u} : perm'[v] = perm[v]
      BY <1>0, <1>8 DEF Revoke, TypeOK
    <3>2. perm'[u] = perm[u] \/ (perm[u] # "owner" /\ perm'[u] = "none")
      BY <1>0, <1>8 DEF Revoke, TypeOK
    <3> QED BY <3>1, <3>2
  <2>4. Unclaimed => Unclaimed'
    BY <1>8 DEF Revoke, Unclaimed, NoRoles
  <2>5. Growing => Growing'
    BY <2>1, <2>4 DEF history, Growing, Timely
  <2>6. Stuck => Stuck'
    BY <2>1, <2>4 DEF history, Stuck, Timely
  <2>7. ASSUME Claimed PROVE Claimed'
    <3>1. perm'[row] = "owner"
      BY <1>0, <2>1, <2>3, <2>7 DEF Claimed, TypeOK
    <3>2. \A v \in User \ {row} : perm'[v] # "none" => [role |-> perm'[v], by |-> row] \in signed
      BY <2>3, <2>7 DEF Claimed
    <3>3. \A q \in Timely' : Entitled(q)'
      BY <2>1, <2>7 DEF history, Claimed, Timely, Entitled
    <3> QED BY <2>1, <2>7, <3>1, <3>2, <3>3 DEF history, Claimed
  <2> QED BY <2>2, <2>5, <2>6, <2>7
<1>9. ASSUME NEW u \in User, NEW role \in {"editor", "viewer"}, Share(u, role)
      PROVE  Stage'
  <2>1. /\ UNCHANGED <<rows, req, late, haunted>> /\ perm[u] = "owner"
        /\ signed' = signed \cup {[role |-> role, by |-> u]}
    BY <1>9 DEF Share
  <2>2. Claimed /\ u = row
    BY <2>1, RoleStage
  <2>3. \A q \in Timely' : Entitled(q)'
    BY <2>1, <2>2 DEF rows, Claimed, Timely, Entitled
  <2>4. Claimed'
    BY <2>1, <2>2, <2>3 DEF rows, Claimed
  <2> QED BY <2>4
<1>10. CASE UNCHANGED vars
  <2>1. Stage
    BY <1>10 DEF vars, rows, history, Inv, Staged
  <2> QED BY <1>10, <2>1
      DEF vars, rows, history, Growing, Stuck, Claimed, Unclaimed, Timely, Entitled
<1> QED
  BY <1>1, <1>2, <1>3, <1>4, <1>5, <1>6, <1>7, <1>8, <1>9, <1>10 DEF Next

-----------------------------------------------------------------------------
(* Inv holds throughout: the stages and what they allow are all the states *)
(* of api.ts and documents.ts that no late request has given a role in.    *)
THEOREM Invariance == Spec => []Inv
<1>1. Inv /\ [Next]_vars => Inv'
  BY StepTypeOK, StepKnown, StepStaged DEF Inv
<1> QED BY InitInv, <1>1, PTL DEF Spec

(* Rows, links and requests keep their types; without its row a document   *)
(* has no permission rows (the foreign key of postgres.ts:34-39).          *)
THEOREM TypeCorrect == Spec => []TypeOK
<1>1. Inv => TypeOK
  BY DEF Inv
<1> QED BY Invariance, <1>1, PTL

(* The two tables name one owner (documents.ts:44-56), until a request     *)
(* that was checked against an earlier document of the id gives a role.    *)
THEOREM OneOwner == Spec => []OwnerHolds
<1>1. Inv => OwnerHolds
  <2> SUFFICES ASSUME Inv, row # NoOne, ~ haunted, NEW u \in User
               PROVE  /\ perm[u] = "owner" => u = row
                      /\ perm[row] = "owner" \/ Granting \/ half
    BY DEF OwnerHolds
  <2>1. perm[u] = "owner" => u = row
    BY RoleStage
  <2>2. CASE Growing
    BY <2>1, <2>2 DEF Growing, Granting, Timely
  <2>3. CASE Stuck \/ Claimed
    BY <2>1, <2>3 DEF Stuck, Claimed
  <2> QED BY <2>2, <2>3 DEF Inv, Staged
<1> QED BY Invariance, <1>1, PTL

(* Every lesser role is one the owner of this document signed a link for   *)
(* (api.ts:108-115), until a late request gives one.                       *)
THEOREM RolesAreShared == Spec => []RolesWereShared
<1>1. Inv => RolesWereShared
  BY RoleStage DEF RolesWereShared, Claimed
<1> QED BY Invariance, <1>1, PTL

(* No step takes an owner's role but the removal of the document, if no    *)
(* late request gives a role.                                              *)
LEMMA OwnerStep ==
  ASSUME Inv, [Next]_vars, ~ haunted', NEW u \in User, perm[u] = "owner"
  PROVE  perm'[u] = "owner" \/ row' = NoOne
<1>1. TypeOK /\ row # NoOne
  BY RoleStage DEF Inv
<1>2. ASSUME ~ haunted
      PROVE  u = row /\ Claimed /\ \A r \in Timely : Entitled(r)
  <2>1. perm[u] # "none"
    OBVIOUS
  <2> QED BY <1>2, <2>1, RoleStage DEF Claimed
<1>3. ASSUME NEW r \in Request, GrantOwner(r) PROVE FALSE
  <2>1. ~ haunted /\ r \in Timely
    BY <1>1, <1>3 DEF GrantOwner, Grant, Timely
  <2> QED BY <1>2, <1>3, <2>1 DEF GrantOwner, Entitled
<1>4. ASSUME NEW r \in Request, Remove(r) PROVE row' = NoOne
  BY <1>4 DEF Remove
<1>5. ASSUME NEW r \in Request, Accept(r) PROVE perm'[u] = perm[u]
  <2>1. ~ haunted /\ r \in Timely /\ SetRole(req[r].user, req[r].role)
    BY <1>1, <1>5 DEF Accept, Grant, Timely
  <2>2. req[r].user # u
    BY <1>2, <1>5, <2>1 DEF Accept, Entitled
  <2> QED BY <1>1, <2>1, <2>2 DEF SetRole, TypeOK
<1>6. ASSUME NEW v \in User, Revoke(v) PROVE perm'[u] = perm[u]
  BY <1>1, <1>6 DEF Revoke, TypeOK
<1>7. CASE UNCHANGED vars
  BY <1>7 DEF vars, rows
<1>8. ASSUME NEW r \in Request, NEW v \in User,
             CreateRow(r, v) \/ CheckRename(r, v) \/ CheckRemove(r, v)
      PROVE  perm' = perm
  BY <1>8 DEF CreateRow, NewDocument, CheckRename, CheckRemove, rows
<1>9. ASSUME NEW r \in Request, NEW v \in User, NEW link \in links, CheckAccept(r, v, link)
      PROVE  perm' = perm
  BY <1>9 DEF CheckAccept, GoesAccept, rows
<1>10. ASSUME NEW r \in Request, Rename(r) \/ Die(r) PROVE perm' = perm
  BY <1>10 DEF Rename, Die
<1>11. ASSUME NEW v \in User, NEW role \in {"editor", "viewer"}, Share(v, role)
       PROVE  perm' = perm
  BY <1>11 DEF Share, rows
<1> QED
  BY <1>3, <1>4, <1>5, <1>6, <1>7, <1>8, <1>9, <1>10, <1>11 DEF Next

(* An owner stays one until the document is removed (api.ts:128), however  *)
(* many accepts were checked before the role they meet was given; only one *)
(* that belongs to an earlier document of the id can demote.               *)
THEOREM OwnerIsNeverDemoted == Spec => OwnersStay
<1>1. Inv /\ [Next]_vars =>
        [~ haunted' =>
           \A u \in User : perm[u] = "owner" => perm'[u] = "owner" \/ row' = NoOne]_vars
  BY OwnerStep
<1> QED BY Invariance, <1>1, PTL DEF Spec, OwnersStay

(* A title is from someone who was an editor, a removal from the owner,    *)
(* or from a request checked against an earlier document of the id.        *)
LEMMA ChangeStep ==
  ASSUME Inv, [Next]_vars
  PROVE  /\ title' \notin {title, NoOne} =>
               title' \in editors \/ \E r \in late : Acts(r, "rename") /\ req[r].user = title'
         /\ row # NoOne /\ row' = NoOne /\ ~ haunted =>
               \E r \in Request : Acts(r, "remove") /\ (req[r].user = row \/ r \in late)
<1> DEFINE Kept == row' = row /\ title' = title
<1>0. TypeOK
  BY DEF Inv
<1>1. ASSUME NEW r \in Request, NEW u \in User, CreateRow(r, u)
      PROVE  row = NoOne /\ title' = NoOne
  BY <1>1 DEF CreateRow, NewDocument
<1>2. ASSUME NEW r \in Request, Rename(r)
      PROVE  /\ row' = row
             /\ title' # title =>
                  title' \in editors \/ (r \in late /\ Acts(r, "rename") /\ req[r].user = title')
  <2>1. req'[r] = Idle
    BY <1>0, <1>2, AnswerIsTyped DEF Rename
  <2>2. r \notin late => req[r].user \in editors
    BY <1>2 DEF Rename, Inv, EditorsKnown, Timely
  <2> QED BY <1>2, <2>1, <2>2 DEF Rename, Acts
<1>3. ASSUME NEW r \in Request, Remove(r)
      PROVE  /\ title' = NoOne
             /\ row # NoOne /\ ~ haunted =>
                  Acts(r, "remove") /\ (req[r].user = row \/ r \in late)
  <2>1. req'[r] = Idle
    BY <1>0, <1>3, AnswerIsTyped DEF Remove
  <2>2. ASSUME row # NoOne, ~ haunted, r \notin late PROVE req[r].user = row
    <3>1. r \in Timely /\ req[r].pc = "remove"
      BY <1>3, <2>2 DEF Remove, Timely
    <3>2. ~ Growing /\ ~ Stuck
      BY <3>1, IdleIsNone DEF Growing, Stuck
    <3> QED BY <2>2, <3>1, <3>2 DEF Inv, Staged, Claimed, Entitled
  <2> QED BY <1>3, <2>1, <2>2 DEF Remove, Acts
<1>4. ASSUME NEW r \in Request, NEW u \in User, CheckRename(r, u) \/ CheckRemove(r, u)
      PROVE  Kept
  BY <1>4 DEF CheckRename, CheckRemove, rows
<1>5. ASSUME NEW r \in Request, NEW u \in User, NEW link \in links, CheckAccept(r, u, link)
      PROVE  Kept
  BY <1>5 DEF CheckAccept, GoesAccept, rows
<1>6. ASSUME NEW r \in Request, GrantOwner(r) \/ Accept(r) \/ Die(r) PROVE Kept
  BY <1>6 DEF GrantOwner, Accept, Grant, Die
<1>7. ASSUME NEW u \in User, NEW role \in {"editor", "viewer"}, Share(u, role) PROVE Kept
  BY <1>7 DEF Share, rows
<1>8. ASSUME NEW u \in User, Revoke(u) PROVE Kept
  BY <1>8 DEF Revoke
<1>9. CASE UNCHANGED vars
  BY <1>9 DEF vars, rows
<1> QED
  BY <1>1, <1>2, <1>3, <1>4, <1>5, <1>6, <1>7, <1>8, <1>9 DEF Next

(* Who changes the document had the role when its request was checked      *)
(* (api.ts:95-105), for this document or for an earlier one.               *)
THEOREM ChangesAreByRole == Spec => ChangedByRole
<1>1. Inv /\ [Next]_vars =>
        [/\ title' \notin {title, NoOne} =>
              title' \in editors \/ \E r \in late : Acts(r, "rename") /\ req[r].user = title'
         /\ row # NoOne /\ row' = NoOne /\ ~ haunted =>
              \E r \in Request : Acts(r, "remove") /\ (req[r].user = row \/ r \in late)]_vars
  BY ChangeStep
<1> QED BY Invariance, <1>1, PTL DEF Spec, ChangedByRole
=============================================================================
