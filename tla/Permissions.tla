---------------------------- MODULE Permissions ----------------------------
(***************************************************************************)
(* Permission grants (moseby/permissions.py).  A permission is a path of   *)
(* segments and an action; a grant covers its path and everything below.   *)
(***************************************************************************)
EXTENDS Integers, SequencesExt

Permission == [path : Seq(STRING) \ {<<>>}, action : {"read", "write", "execute"}]

Matches(granted, required) ==
  granted.action = required.action /\ IsPrefix(granted.path, required.path)

Allows(grants, required) == \E g \in grants : Matches(g, required)
AllowsAll(grants, required) == \A p \in required : Allows(grants, p)

(* The narrower of every two grants of which one covers the other.         *)
Shared(first, second) ==
  {p \in first : \E q \in second : Matches(q, p)}
    \cup {q \in second : \E p \in first : Matches(p, q)}

\* Mutant: a grant is dropped when it covers another one.
NarrowestOnly(first, second) ==
  LET shared == Shared(first, second) IN
  {p \in shared : ~\E q \in shared : q # p /\ Matches(p, q)}

(* A grant that a broader shared one covers is left out.                   *)
Intersection(first, second) ==
  LET shared == Shared(first, second) IN
  {p \in shared : ~\E q \in shared : q # p /\ Matches(q, p)}

(* The permission and its ancestors, as documented for every route.        *)
CoveringGrants(required) ==
  {[path |-> SubSeq(required.path, 1, n), action |-> required.action] :
     n \in 1 .. Len(required.path)}

(* What a route documents as sufficient is exactly what the check accepts. *)
(* Grants are any set of permissions (contracts/route_metadata.py).        *)
CoveringGrantsSuffice(grants, required) ==
  Allows(grants, required) <=> grants \cap CoveringGrants(required) # {}

=============================================================================
