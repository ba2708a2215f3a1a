----------------------------- MODULE MCCommands -----------------------------
EXTENDS Commands, TLC

p(path, action) == [path |-> path, action |-> action]
All == <<"moseby">>
Guests == <<"moseby", "guests">>
Notes == <<"moseby", "guests", "notes">>

MCConcierge == {p(Guests, "read"), p(Guests, "write")}
MCRequired == MCConcierge
MCDefinitions == {{p(All, "read"), p(All, "write")}, {p(Guests, "read"), p(Notes, "write")}}
MCCeilings == {{p(Guests, "read"), p(Guests, "write")}, {p(Guests, "read")},
               {p(Guests, "read"), p(Notes, "write")},
               {p(Guests, "read"), p(Guests, "write"), p(Notes, "write")}}

CallSymmetry == Permutations(Caller) \cup Permutations(Request) \cup Permutations(Guest)
=============================================================================
