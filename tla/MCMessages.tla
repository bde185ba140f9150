----------------------------- MODULE MCMessages -----------------------------
(* Messages for TLC: values that read as 1 and values that nearly do, one  *)
(* variable at a time and all at once.                                     *)
EXTENDS Messages

Values ==
  {<<"1">>, <<" ", "\t", "+", "0", "1", "x">>,
   << >>, <<"0">>, <<"1", "0">>, <<"-", "1">>, <<"+", " ", "1">>, <<"x", "1">>}

MCEnvironments ==
  {[f \in Flags |-> v] : v \in Values}
  \cup {[f \in Flags |-> IF f = g THEN <<"+", "1">> ELSE <<"2">>] : g \in Flags}
=============================================================================
