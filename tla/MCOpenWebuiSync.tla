--------------------------- MODULE MCOpenWebuiSync ---------------------------
(* The groups and the accounts of Open WebUI for TLC.  A full run pushes   *)
(* the groups through the operations of GroupSync and writes accounts of   *)
(* its own; the two share no state here, so a behaviour is one of either,  *)
(* with the other standing still in one state.                             *)
EXTENDS GroupSync, MCAccountSync

VARIABLE half

Groupless == holders = [r \in Roles |-> {}] /\ mapping = [r \in Roles |-> NoGroup] /\ accounts = {}

(* The users are interchangeable: of two beginnings that differ only in    *)
(* who is who, one is enough.                                              *)
Place(list, x) == CHOOSE i \in DOMAIN list : list[i] = x

Rank(u) == 10 * Place(<<"none", "member", "admin", "inactive", "inactive-admin">>, standing[u])
           + Place(<<"none", "pending", "user", "admin">>, account[u])

Sorted ==
  LET first == CHOOSE u \in Users : TRUE
  IN  \A u \in Users : Rank(first) <= Rank(u)

Accountless == standing = [u \in Everybody |-> "none"] /\ account = [u \in Users |-> "none"]

SyncInit ==
  /\ Init /\ AccountInit
  /\ half \in {"groups", "accounts"}
  /\ Sorted
  /\ IF half = "groups" THEN Accountless ELSE Groupless

SyncNext ==
  \/ half = "groups" /\ Next /\ UNCHANGED <<half, accountVars>>
  \/ half = "accounts" /\ AccountNext /\ UNCHANGED <<half, vars>>

SyncSpec == SyncInit /\ [][SyncNext]_<<half, vars, accountVars>>
=============================================================================
