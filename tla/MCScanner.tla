------------------------------ MODULE MCScanner ------------------------------
(* Statements for TLC: every short sequence of the items that steer the     *)
(* scanner, every sequence of up to four of its openers and closers, every  *)
(* sequence of up to three words and symbols that steer the gates, and      *)
(* pragmas with up to four more.                                            *)
EXTENDS Scanner

UpTo(n, S) == UNION {[1 .. m -> S] : m \in 0 .. n}

(* Sequences of fragments, put end to end.                                  *)
Joins(n, fragments) ==
  LET glue[m \in 0 .. n] ==
        IF m = 0 THEN {<<>>}
        ELSE glue[m - 1] \cup {s \o f : s \in glue[m - 1], f \in fragments}
  IN glue[n]

Keywords ==
  {"select", "pragma", "table_info", "drop", "sleep", "into", "commit",
   "start", "transaction", "save", "tran", "x"}

Short == UpTo(4, {"squote", "dquote", "[", "]", "-", "/", "*", "!", ";",
                  Blank, Newline, "drop"})
Fragments ==
  Joins(4, {<<"squote">>, <<"squote", "squote">>, <<"dquote">>, <<"[">>,
            <<"]">>, <<"-", "-">>, <<"-">>, <<"/", "*">>, <<"*", "/">>,
            <<"/", "*", "!">>, <<Newline>>, <<"select", Blank>>, <<"drop">>,
            <<";">>})
Marks == {<<"(">>, <<")">>, <<"=">>, <<".">>, <<";">>}
Statements ==
  Joins(3, {<<w, Blank>> : w \in Keywords} \cup Marks \cup {<<"drop">>})
    \cup {<<"pragma", Blank>> \o s :
            s \in Joins(4, {<<"x">>, <<"table_info">>} \cup Marks)}

AllTexts == Short \cup Fragments \cup Statements
=============================================================================
