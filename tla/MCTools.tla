------------------------------ MODULE MCTools ------------------------------
(* Instances of TurnTools for TLC. *)
EXTENDS TurnTools

CONSTANTS f1, f2

Shell    == [kind |-> "exclusive", path |-> None, crew |-> FALSE]
Launch   == [kind |-> "free", path |-> None, crew |-> TRUE]
Reads(p)  == [kind |-> "reads", path |-> p, crew |-> FALSE]
Writes(p) == [kind |-> "writes", path |-> p, crew |-> FALSE]

Scripts == {<<Reads(f1), Shell, Reads(f1)>>,
            <<Shell, Launch, Reads(f1)>>,
            <<Launch, Writes(f1), Reads(f2)>>,
            <<Writes(f1), Reads(f2), Writes(f2)>>,
            <<Writes(f1), Reads(f2), Reads(f1)>>,
            <<Reads(f1), Writes(f1), Reads(f1)>>}

Itself == {<<p, p>> : p \in Path}
============================================================================
