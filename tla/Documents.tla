------------------------------ MODULE Documents ------------------------------
(***************************************************************************)
(* One document's metadata and roles: DocumentsRepo (apps/server/src/      *)
(* documents.ts), the REST handlers that call it (api.ts), share links     *)
(* (auth.ts) and the authorizer that reads the same rows for the sockets   *)
(* (authz.ts).  Every statement the code sends to the database is a step   *)
(* of its own; a request that has read a role acts on it later, and        *)
(* requests of all users go on meanwhile, or die with their instance.      *)
(* A share link is valid for ever and carries a role.  The title is who    *)
(* changed it last.                                                        *)
(*                                                                         *)
(* The id of a removed document may be given out again, by whoever names   *)
(* it (api.ts:78) or by the seed (seed.ts:218); requests and links of the  *)
(* document that had it before may still come.  The history variables say  *)
(* which those are.                                                        *)
(*                                                                         *)
(* Bound: as many requests under way together as Request has members.      *)
(***************************************************************************)
EXTENDS FiniteSets

CONSTANTS User, Request, NoOne

ASSUME DocumentsAssumption == NoOne \notin User

VARIABLES
  row,        \* the documents row: its owner_id, or NoOne
  title,
  perm,       \* the permissions rows: a role, or "none"
  links,      \* share links: [role, by]
  req,        \* [pc, user, role] of each request
  half,       \* the create died between its two statements
  editors,    \* history: who ever held a role that may write,
  signed,     \*   the links signed for it (of this document),
  late,       \*   the requests under way checked against an earlier document,
  haunted     \*   whether such a request has given a role in this one

(* verifyShare takes no other role. *)
Link == [role : {"editor", "viewer"}, by : User]

rows == <<row, title, perm, half>>
history == <<editors, signed, late, haunted>>
vars == <<rows, links, req, history>>

Idle == [pc |-> "idle", user |-> NoOne, role |-> "none"]
NoRoles == [u \in User |-> "none"]

Init ==
  /\ row = NoOne /\ title = NoOne /\ perm = NoRoles
  /\ links = {} /\ req = [r \in Request |-> Idle]
  /\ half = FALSE
  /\ editors = {} /\ signed = {} /\ late = {} /\ haunted = FALSE

-----------------------------------------------------------------------------
(* The role of a user; who may write; a change of one permission row. *)
CanEdit(u) == perm[u] \in {"owner", "editor"}

SetRole(u, role) ==
  /\ perm' = [perm EXCEPT ![u] = role]
  /\ editors' = IF role \in {"owner", "editor"} THEN editors \cup {u} ELSE editors

Goes(r, pc, u, role) == req' = [req EXCEPT ![r] = [pc |-> pc, user |-> u, role |-> role]]
Answer(r) == req' = [req EXCEPT ![r] = Idle] /\ late' = late \ {r}

(* No row, no role: the foreign key. *)
Grant(r, role) ==
  /\ IF row = NoOne THEN UNCHANGED <<perm, editors, haunted>>
     ELSE SetRole(req[r].user, role) /\ haunted' = (haunted \/ r \in late)
  /\ Answer(r)
  /\ UNCHANGED <<row, title, half, links, signed>>

(* A document without permission rows is unclaimed, and open to all. *)
Unclaimed == perm = NoRoles

-----------------------------------------------------------------------------
(* POST /api/docs: the row, then the owner's role *)

NewDocument(r, u) ==
  /\ row' = u /\ title' = NoOne
  /\ Goes(r, "grant", u, "owner")
  /\ editors' = {} /\ signed' = {} /\ haunted' = FALSE
  /\ late' = {q \in Request : req[q] # Idle}
  /\ UNCHANGED <<perm, links, half>>

(* A slip: an existing document is taken over. *)
CreateRowOverwrites(r, u) == req[r] = Idle /\ NewDocument(r, u)

(* A row that exists is a duplicate key: 409. *)
CreateRow(r, u) == req[r] = Idle /\ row = NoOne /\ NewDocument(r, u)

GrantOwner(r) == req[r].pc = "grant" /\ Grant(r, "owner")

-----------------------------------------------------------------------------
(* PATCH and DELETE /api/docs/:id *)

(* A slip: any role will do. *)
CheckRenameAnyRole(r, u) ==
  /\ req[r] = Idle /\ perm[u] # "none"
  /\ Goes(r, "rename", u, perm[u])
  /\ UNCHANGED <<rows, links, history>>

CheckRename(r, u) ==
  /\ req[r] = Idle /\ CanEdit(u)
  /\ Goes(r, "rename", u, perm[u])
  /\ UNCHANGED <<rows, links, history>>

Rename(r) ==
  /\ req[r].pc = "rename"
  /\ title' = IF row = NoOne THEN title ELSE req[r].user
  /\ Answer(r)
  /\ UNCHANGED <<row, perm, half, links, editors, signed, haunted>>

CheckRemove(r, u) ==
  /\ req[r] = Idle /\ perm[u] = "owner"
  /\ Goes(r, "remove", u, perm[u])
  /\ UNCHANGED <<rows, links, history>>

(* The permission rows go with it (ON DELETE CASCADE). *)
Remove(r) ==
  /\ req[r].pc = "remove"
  /\ row' = NoOne /\ title' = NoOne /\ perm' = NoRoles /\ half' = FALSE
  /\ Answer(r)
  /\ UNCHANGED <<links, editors, signed, haunted>>

-----------------------------------------------------------------------------
(* POST /api/docs/:id/share, POST /api/share/accept, and revoke *)

(* A slip: whoever has a role signs links. *)
ShareByMember(u, role) ==
  /\ perm[u] # "none"
  /\ links' = links \cup {[role |-> role, by |-> u]}
  /\ signed' = signed \cup {[role |-> role, by |-> u]}
  /\ UNCHANGED <<rows, req, editors, late, haunted>>

(* Signing touches nothing else: one step. *)
Share(u, role) ==
  /\ perm[u] = "owner"
  /\ links' = links \cup {[role |-> role, by |-> u]}
  /\ signed' = signed \cup {[role |-> role, by |-> u]}
  /\ UNCHANGED <<rows, req, editors, late, haunted>>

GoesAccept(r, u, link) ==
  /\ Goes(r, "accept", u, link.role)
  /\ late' = IF link \in signed THEN late ELSE late \cup {r}
  /\ UNCHANGED <<rows, links, editors, signed, haunted>>

(* A slip: an owner is not spared. *)
CheckAcceptAnyone(r, u, link) == req[r] = Idle /\ GoesAccept(r, u, link)

(* Never downgrade an existing owner: who holds that role is answered. *)
CheckAccept(r, u, link) == req[r] = Idle /\ perm[u] # "owner" /\ GoesAccept(r, u, link)

(* A slip: no foreign key. *)
AcceptUnchecked(r) ==
  /\ req[r].pc = "accept"
  /\ SetRole(req[r].user, req[r].role)
  /\ Answer(r)
  /\ UNCHANGED <<row, title, half, links, signed, haunted>>

Accept(r) == req[r].pc = "accept" /\ Grant(r, req[r].role)

Revoke(u) ==
  /\ perm' = [perm EXCEPT ![u] = IF @ = "owner" THEN @ ELSE "none"]
  /\ UNCHANGED <<row, title, half, links, req, history>>

(* The instance dies, or a statement fails: the request is gone. *)
Die(r) ==
  /\ req[r] # Idle
  /\ half' = (half \/ (req[r].pc = "grant" /\ row # NoOne /\ r \notin late))
  /\ Answer(r)
  /\ UNCHANGED <<row, title, perm, links, editors, signed, haunted>>

Next ==
  \/ \E r \in Request, u \in User :
       \/ CreateRow(r, u) \/ CheckRename(r, u) \/ CheckRemove(r, u)
       \/ \E link \in links : CheckAccept(r, u, link)
  \/ \E r \in Request : GrantOwner(r) \/ Rename(r) \/ Remove(r) \/ Accept(r) \/ Die(r)
  \/ \E u \in User : Revoke(u) \/ \E role \in {"editor", "viewer"} : Share(u, role)

Spec == Init /\ [][Next]_vars

-----------------------------------------------------------------------------
Role == {"owner", "editor", "viewer", "none"}

TypeOK ==
  /\ row \in User \cup {NoOne} /\ title \in User \cup {NoOne}
  /\ perm \in [User -> Role]
  /\ links \subseteq Link
  /\ req \in [Request ->
       {Idle} \cup [pc : {"grant", "rename", "remove", "accept"}, user : User, role : Role]]
  /\ half \in BOOLEAN /\ editors \subseteq User
  /\ signed \subseteq links /\ late \subseteq {r \in Request : req[r] # Idle} /\ haunted \in BOOLEAN
  /\ row = NoOne => title = NoOne /\ Unclaimed /\ ~ half

Granting == \E r \in Request \ late : req[r].pc = "grant"

(* The two tables name one owner: the user of owner_id, and nobody else,   *)
(* holds the owner role, unless its create has yet to grant it or died     *)
(* before it could (documents.ts:44-56), or a request that was checked     *)
(* against an earlier document of the id has given out a role.             *)
OwnerHolds ==
  row # NoOne /\ ~ haunted => \A u \in User :
    /\ perm[u] = "owner" => u = row
    /\ perm[row] = "owner" \/ Granting \/ half

(* "Owners cannot be demoted through this path" (documents.ts:92): once    *)
(* its create is done, the user of owner_id holds the owner role.          *)
OwnersHoldTheirRole == row # NoOne /\ ~ half /\ ~ Granting => perm[row] = "owner"

(* An owner stays one until the document is removed, although accept reads *)
(* the role in one statement and sets it in another (documents.ts:92,      *)
(* api.ts:128): only a request checked against, or a link signed for, an   *)
(* earlier document of the id can take it.                                 *)
OwnersStay ==
  [][~ haunted' =>
       \A u \in User : perm[u] = "owner" => perm'[u] = "owner" \/ row' = NoOne]_vars

(* Every other role is one the owner signed a link for, for this document  *)
(* (api.ts:108-115), until a late request brings one from before.          *)
RolesWereShared ==
  ~ haunted => \A u \in User :
    perm[u] \in {"editor", "viewer"} => [role |-> perm[u], by |-> row] \in signed

(* A request that acts on the role it read before its body had arrived     *)
(* (api.ts:95-105) sets a title only for someone who was an editor of this *)
(* document, and removes it only for its owner, unless it was checked      *)
(* against an earlier one.                                                 *)
Acts(r, pc) == req[r].pc = pc /\ req'[r] = Idle
ChangedByRole ==
  [][/\ title' \notin {title, NoOne} =>
          title' \in editors \/ \E r \in late : Acts(r, "rename") /\ req[r].user = title'
     /\ row # NoOne /\ row' = NoOne /\ ~ haunted =>
          \E r \in Request : Acts(r, "remove") /\ (req[r].user = row \/ r \in late)]_vars
=============================================================================
