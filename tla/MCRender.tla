------------------------------ MODULE MCRender ------------------------------
(* Small instances of Render for TLC. *)
EXTENDS Render

CONSTANTS nan, text_, garbage

\* Out of order, as a configuration may list them.
TwoBounds  == <<1, 3>>
\* On a bound, and above both.
TwoNumbers == {1, 4}
Matches    == [p \in Numbers \cup {nan, text_} |-> IF p \in {nan, text_} THEN 0 ELSE 1]
=============================================================================
