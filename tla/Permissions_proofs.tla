------------------------- MODULE Permissions_proofs -------------------------
(***************************************************************************)
(* Facts about permission grants, for any sets of grants: they may be      *)
(* infinite, and their paths may have any length.                          *)
(***************************************************************************)
EXTENDS Permissions, Facts, TLAPS

(* One permission covers another when it has its action and its path       *)
(* begins the other's, segment by segment (permissions.matches).           *)
LEMMA MatchesBySegment ==
  ASSUME NEW g \in Permission, NEW p \in Permission
  PROVE  Matches(g, p) <=> /\ g.action = p.action
                           /\ Len(g.path) <= Len(p.path)
                           /\ \A i \in 1 .. Len(g.path) : g.path[i] = p.path[i]
<1>1. g.path \in Seq(STRING) /\ p.path \in Seq(STRING)
  BY DEF Permission
<1>2. QED
  BY <1>1, PrefixByElement DEF Matches

(* A grant below a grant covers what is below it. *)
LEMMA MatchesTransitive ==
  ASSUME NEW p \in Permission, NEW q \in Permission, NEW r \in Permission,
         Matches(p, q), Matches(q, r)
  PROVE  Matches(p, r)
<1>1. p.path \in Seq(STRING) /\ q.path \in Seq(STRING) /\ r.path \in Seq(STRING)
  BY DEF Permission
<1>2. QED
  BY <1>1, MatchesBySegment

(* Of two grants that cover one permission, one covers the other. *)
LEMMA CoversAreComparable ==
  ASSUME NEW p \in Permission, NEW q \in Permission, NEW r \in Permission,
         Matches(p, r), Matches(q, r)
  PROVE  Matches(p, q) \/ Matches(q, p)
<1>1. p.path \in Seq(STRING) /\ q.path \in Seq(STRING) /\ r.path \in Seq(STRING)
  BY DEF Permission
<1>2. CASE Len(p.path) <= Len(q.path)
  BY <1>1, <1>2, MatchesBySegment
<1>3. CASE Len(q.path) <= Len(p.path)
  BY <1>1, <1>3, MatchesBySegment
<1>4. QED
  BY <1>1, <1>2, <1>3

(* Grants of the same length that cover each other are the same. *)
LEMMA MatchesEqualLength ==
  ASSUME NEW p \in Permission, NEW q \in Permission, Matches(p, q),
         Len(q.path) <= Len(p.path)
  PROVE  p = q
<1>1. p.path \in Seq(STRING) /\ q.path \in Seq(STRING)
  BY DEF Permission
<1>2. p.path = q.path
  BY <1>1, MatchesBySegment, SeqEqual
<1>3. p.action = q.action
  BY DEF Matches
<1>4. QED
  BY <1>2, <1>3 DEF Permission

-----------------------------------------------------------------------------
(* What two sets of grants share allows exactly what each of them allows,  *)
(* although the grants another shared one covers are left out              *)
(* (permissions.intersection).                                             *)
THEOREM IntersectionIsExact ==
  ASSUME NEW A \in SUBSET Permission, NEW B \in SUBSET Permission, NEW r \in Permission
  PROVE  Allows(Intersection(A, B), r) <=> Allows(A, r) /\ Allows(B, r)
<1>1. ASSUME Allows(Intersection(A, B), r) PROVE Allows(A, r) /\ Allows(B, r)
  <2>1. PICK p \in Shared(A, B) : Matches(p, r)
    BY <1>1 DEF Allows, Intersection
  <2>2. CASE p \in A /\ \E q \in B : Matches(q, p)
    BY <2>1, <2>2, MatchesTransitive DEF Allows
  <2>3. CASE p \in B /\ \E q \in A : Matches(q, p)
    BY <2>1, <2>3, MatchesTransitive DEF Allows
  <2>4. QED
    BY <2>1, <2>2, <2>3 DEF Shared
<1>2. ASSUME Allows(A, r), Allows(B, r) PROVE Allows(Intersection(A, B), r)
  <2> DEFINE Covers == {p \in Shared(A, B) : Matches(p, r)}
             lengths == {Len(p.path) : p \in Covers}
  <2>1. Covers # {}
    <3>1. PICK a \in A : Matches(a, r)
      BY <1>2 DEF Allows
    <3>2. PICK b \in B : Matches(b, r)
      BY <1>2 DEF Allows
    <3>3. Matches(a, b) \/ Matches(b, a)
      BY <3>1, <3>2, CoversAreComparable
    <3>4. b \in Shared(A, B) \/ a \in Shared(A, B)
      BY <3>3 DEF Shared
    <3>5. QED
      BY <3>1, <3>2, <3>4
  <2>2. Covers \subseteq Permission
    BY DEF Shared
  <2>3. \A p \in Permission : Len(p.path) \in Nat
    BY DEF Permission
  <2>4. PICK p \in Covers : \A q \in Covers : Len(p.path) <= Len(q.path)
    <3>1. lengths \in SUBSET Nat /\ lengths # {}
      BY <2>1, <2>2, <2>3
    <3>2. PICK n \in lengths : \A m \in lengths : n <= m
      BY <3>1, LeastNumber
    <3>3. QED
      BY <3>2
  <2>5. ASSUME NEW q \in Shared(A, B), q # p, Matches(q, p) PROVE FALSE
    <3>1. q \in Permission /\ p \in Permission
      BY <2>2 DEF Shared
    <3>2. q \in Covers
      BY <2>5, <3>1, MatchesTransitive
    <3>3. QED
      BY <2>4, <2>5, <3>1, <3>2, MatchesEqualLength
  <2>6. p \in Intersection(A, B)
    BY <2>5 DEF Intersection
  <2>7. QED
    BY <2>6 DEF Allows
<1>3. QED
  BY <1>1, <1>2

(* A route documents a grant as sufficient exactly when the check accepts  *)
(* it (contracts/route_metadata.py, covering_grants).                      *)
THEOREM CoveringGrantsAreExact ==
  ASSUME NEW A \in SUBSET Permission, NEW r \in Permission
  PROVE  CoveringGrantsSuffice(A, r)
<1>1. ASSUME NEW g \in A PROVE Matches(g, r) <=> g \in CoveringGrants(r)
  <2>1. /\ g \in Permission /\ g.path \in Seq(STRING) /\ r.path \in Seq(STRING)
        /\ Len(g.path) \in Nat \ {0} /\ Len(r.path) \in Nat
    BY DEF Permission
  <2>2. ASSUME NEW n \in 1 .. Len(r.path)
        PROVE /\ SubSeq(r.path, 1, n) \in Seq(STRING)
              /\ Len(SubSeq(r.path, 1, n)) = n
              /\ \A i \in 1 .. n : SubSeq(r.path, 1, n)[i] = r.path[i]
    BY <2>1, <2>2
  <2>3. ASSUME Matches(g, r) PROVE g \in CoveringGrants(r)
    <3>1. Len(g.path) \in 1 .. Len(r.path)
      BY <2>1, <2>3, MatchesBySegment
    <3>2. g.path = SubSeq(r.path, 1, Len(g.path))
      BY <2>1, <2>2, <2>3, <3>1, MatchesBySegment, SeqEqual
    <3>3. g = [path |-> g.path, action |-> r.action]
      BY <2>1, <2>3 DEF Matches, Permission
    <3>4. QED
      BY <3>1, <3>2, <3>3 DEF CoveringGrants
  <2>4. ASSUME g \in CoveringGrants(r) PROVE Matches(g, r)
    <3>1. PICK n \in 1 .. Len(r.path) : g = [path |-> SubSeq(r.path, 1, n), action |-> r.action]
      BY <2>4 DEF CoveringGrants
    <3>2. g.action = r.action /\ g.path = SubSeq(r.path, 1, n)
      BY <3>1
    <3>3. /\ Len(g.path) = n /\ n <= Len(r.path)
          /\ \A i \in 1 .. n : g.path[i] = r.path[i]
      BY <2>1, <2>2, <3>2
    <3>4. QED
      BY <2>1, <3>2, <3>3, MatchesBySegment
  <2>5. QED
    BY <2>3, <2>4
<1>2. QED
  BY <1>1 DEF CoveringGrantsSuffice, Allows

=============================================================================
