--------------------------- MODULE MCConversation ---------------------------
(* Small instances of Conversation for TLC.                                *)
EXTENDS Conversation, FiniteSets, TLC

CONSTANTS p1, p2, q1, q2

(* The longest history: each request starts at most one run. *)
ASSUME Long == MaxLength >= 1 + Cardinality(Request) * (2 + MaxTurns * (2 + MaxCalls + 2 * Cardinality(Notes)))

Symmetry == Permutations(Process) \cup Permutations(Request)

=============================================================================
