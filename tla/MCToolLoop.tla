------------------------------ MODULE MCToolLoop ------------------------------
(***************************************************************************)
(* Instances of ToolLoop.  The raw calls "a" and "a_" are the same call of *)
(* the tool "logs" but for blanks in an argument, "b" is another call of   *)
(* "logs", "w" a call of a write tool.                                     *)
(***************************************************************************)
EXTENDS ToolLoop

MCToolOf  == [r \in Raw |-> IF r = "w" THEN "write_file" ELSE "logs"]
MCSigOf   == [r \in Raw |-> IF r = "a_" THEN "a" ELSE r]
MCLimit   == [t \in {"logs"} |-> 1]
MCNoLimit == [t \in {} |-> 0]
============================================================================
