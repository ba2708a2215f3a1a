------------------------------- MODULE Journal ------------------------------
(***************************************************************************)
(* What a thread promises about finished jobs: each outcome is entered in  *)
(* its history at most once, the summary is always of the whole history,   *)
(* and whoever delivers an outcome is told of its one entry.               *)
(***************************************************************************)
EXTENDS Naturals, Sequences

CONSTANTS
  Job, Outcome,
  Deliverer,    \* those who deliver outcomes, repeatedly or at the same time
  Message,      \* an entry that is not about a job
  Nothing

VARIABLES
  outcome,  \* outcome[j]: how job j ended
  entries,  \* the thread's history
  summary,  \* the history that the saved summary describes
  told      \* told[d]: the job and the position of the entry d was told of

vars == <<outcome, entries, summary, told>>

Init ==
  /\ outcome = [j \in Job |-> Nothing]
  /\ entries = <<Message>> /\ summary = entries
  /\ told = [d \in Deliverer |-> Nothing]

Entry(j) == [job |-> j, outcome |-> outcome'[j]]
Entered(j) == \E i \in DOMAIN entries : entries[i] # Message /\ entries[i].job = j

Enter(entry) == entries' = Append(entries, entry) /\ summary' = entries'
KeepHistory == UNCHANGED <<entries, summary>>

Finish(j) ==
  /\ outcome[j] = Nothing
  /\ \E o \in Outcome : outcome' = [outcome EXCEPT ![j] = o]
  /\ KeepHistory \/ Enter(Entry(j))
  /\ UNCHANGED told

Say == Enter(Message) /\ UNCHANGED <<outcome, told>>

Deliver(d, j) ==
  /\ outcome[j] # Nothing /\ told[d] = Nothing
  /\ IF Entered(j) THEN KeepHistory ELSE Enter(Entry(j))
  /\ \E i \in 1 .. Len(entries') :
       entries'[i] = Entry(j) /\ told' = [told EXCEPT ![d] = <<j, i>>]
  /\ UNCHANGED outcome

Next ==
  \/ \E j \in Job : Finish(j) \/ \E d \in Deliverer : Deliver(d, j)
  \/ Say

Spec == Init /\ [][Next]_vars

=============================================================================
