---------------------------- MODULE ThreadTurns -----------------------------
(***************************************************************************)
(* What one conversation thread promises, with processes, transactions and *)
(* records left out.  Requests are taken one at a time and at most once    *)
(* each.  The model is asked only when nothing it called for is still      *)
(* open, calls come only from a reply to a question, and each call is      *)
(* answered at most once, while the request that caused it is being        *)
(* worked on.  Conversation is shown to implement this.                    *)
(***************************************************************************)
EXTENDS Naturals

CONSTANTS
  Request,   \* requests that users submit
  Call,      \* identities of tool calls
  Nobody     \* no request is being worked on

VARIABLES
  talk,      \* the request being worked on, or Nobody
  taken,     \* requests taken so far
  waiting,   \* a question to the model is open
  current,   \* calls made for the request being worked on
  made,      \* all calls ever made
  answered   \* calls answered

vars == <<talk, taken, waiting, current, made, answered>>

Init ==
  /\ talk = Nobody
  /\ taken = {}
  /\ waiting = FALSE
  /\ current = {}
  /\ made = {}
  /\ answered = {}

(* A new request is taken while none is being worked on. *)
Take(q) ==
  /\ talk = Nobody
  /\ q \notin taken
  /\ talk' = q
  /\ taken' = taken \cup {q}
  /\ UNCHANGED <<waiting, current, made, answered>>

(* The model sees the whole thread, so nothing in it may be open. *)
Ask ==
  /\ talk # Nobody
  /\ ~waiting
  /\ made = answered
  /\ waiting' = TRUE
  /\ UNCHANGED <<talk, taken, current, made, answered>>

(* A reply brings any number of new calls. *)
Reply ==
  /\ waiting
  /\ made \subseteq made'
  /\ made' \subseteq Call
  /\ waiting' = FALSE
  /\ current' = current \cup (made' \ made)
  /\ UNCHANGED <<talk, taken, answered>>

(* The question got no reply. *)
GiveUp ==
  /\ waiting
  /\ waiting' = FALSE
  /\ UNCHANGED <<talk, taken, current, made, answered>>

Answer(c) ==
  /\ ~waiting
  /\ c \in current \ answered
  /\ answered' = answered \cup {c}
  /\ UNCHANGED <<talk, taken, waiting, current, made>>

(* Work on a request ends for good; calls it left open stay open.          *)
Leave ==
  /\ talk # Nobody
  /\ ~waiting
  /\ talk' = Nobody
  /\ current' = {}
  /\ UNCHANGED <<taken, waiting, made, answered>>

Next ==
  \/ \E q \in Request : Take(q)
  \/ Ask
  \/ Reply
  \/ GiveUp
  \/ \E c \in Call : Answer(c)
  \/ Leave

Spec == Init /\ [][Next]_vars

=============================================================================
