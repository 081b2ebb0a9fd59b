---------------------------- MODULE MCSubmission ----------------------------
(* An instance of Submission for TLC. *)
EXTENDS Submission

CONSTANTS q1, q2, f1, big, t1

\* Three people; Ann's address is spelled in two ways, and odd is one the pattern
\* finds but zod refuses.
MCLower == [s \in {"ann", "Ann", "bob", "odd"} |-> IF s = "Ann" THEN "ann" ELSE s]
Line(found) == [found |-> found, header |-> FALSE]
Header == [found |-> <<>>, header |-> TRUE]

MCTexts == {<<Line(<<"Ann">>)>>, <<Line(<<"odd", "ann">>)>>}
MCLists == {<<Header, Line(<<"ann", "bob">>), Line(<<"Ann">>)>>, <<Line(<<>>), Header>>}
=============================================================================
