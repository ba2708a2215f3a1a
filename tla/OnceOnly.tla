------------------------------ MODULE OnceOnly ------------------------------
(***************************************************************************)
(* What a command under a request key promises: it takes effect at most    *)
(* once, and everyone who is answered is told of that one effect.          *)
(***************************************************************************)
CONSTANTS
  Request,  \* request keys
  Effect,   \* effects a command may have
  Caller,   \* attempts, also repeated ones
  Nothing   \* not answered

VARIABLES
  done,     \* done[r]: the effects of request r
  told      \* told[c]: the request of c and the effect it was told of

vars == <<done, told>>

Init ==
  /\ done = [r \in Request |-> {}]
  /\ told = [c \in Caller |-> Nothing]

(* The request takes effect, if it had none, and the caller is told.       *)
Ask(c, r, e) ==
  /\ told[c] = Nothing
  /\ done[r] = {} \/ done[r] = {e}
  /\ done' = [done EXCEPT ![r] = {e}]
  /\ told' = [told EXCEPT ![c] = <<r, e>>]

Next == \E c \in Caller, r \in Request, e \in Effect : Ask(c, r, e)

Spec == Init /\ [][Next]_vars

=============================================================================
