----------------------------- MODULE MCConsole -----------------------------
(***************************************************************************)
(* An instance of Console for TLC: two services that a refresh may report  *)
(* or miss, lists of one or two names, and views of one to three lines.    *)
(***************************************************************************)
EXTENDS Console, TLC

CONSTANTS s1, s2

MCFleets == {<<s2>>, <<s1, s2>>}

MCLines == [v \in Views \cup {"main", "detail"} |->
               IF v = "main" THEN 2 ELSE IF v = "detail" THEN 3 ELSE 1]

=============================================================================
