------------------------- MODULE MCGuestReferences -------------------------
EXTENDS GuestReferences, TLC

Anybody == Permutations(Guest) \cup Permutations(Request) \cup Permutations(Attempt)
             \cup Permutations(Details)

(* Nothing depends on a reading that is over, and it changes no more: what *)
(* happens after it also happens where nobody reads.                       *)
StillReading == reading = None \/ ~reading.ended

=============================================================================
