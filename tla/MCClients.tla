----------------------------- MODULE MCClients ------------------------------
(* Clients, for TLC: two clients, each of whose second socket goes to the  *)
(* other instance; one of them may be restricted.                          *)
EXTENDS Clients

CONSTANTS a, b, i1, i2

MCClient == {a, b}
MCHome == [c \in Conn |-> IF (c[1] = a) = (c[2] = 1) THEN i1 ELSE i2]

Setting(kind, enforce_, roleOfA, authors, cursors, reloads, failures_) ==
  [kind |-> kind, enforce |-> enforce_, authors |-> authors, cursors |-> cursors,
   reloads |-> reloads, failures |-> failures_,
   role |-> [p \in MCClient |-> IF p = a THEN roleOfA ELSE "editor"]]

(* Pages reloaded, roles, cursors, and a handler that throws.              *)
MCSettings ==
  {Setting("plain", FALSE, "editor", {a}, 0, TRUE, 0),
   Setting("plain", FALSE, "editor", {}, 2, TRUE, 0),
   Setting("plain", TRUE, "editor", {a}, 0, TRUE, 0),
   Setting("plain", TRUE, "viewer", {a, b}, 0, FALSE, 0),
   Setting("plain", TRUE, "none", {a, b}, 0, TRUE, 0),
   Setting("rich", TRUE, "viewer", {a}, 0, TRUE, 0),
   Setting("rich", FALSE, "editor", {b}, 0, TRUE, 0)}
  \cup {Setting("plain", FALSE, "editor", {p}, 0, FALSE, 1) : p \in MCClient}
  \cup {Setting("plain", TRUE, r, {a}, 0, FALSE, 1) : r \in {"editor", "viewer"}}

(* A room's socket that breaks. *)
MCOneBreak == {Setting("plain", FALSE, "editor", {a, b}, 0, FALSE, 0)}

(* The provider under an authorizer; every user may write. *)
MCEnforced == {Setting("rich", TRUE, "editor", {a}, 0, FALSE, 0)}
=============================================================================
