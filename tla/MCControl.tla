------------------------------ MODULE MCControl ------------------------------
(* Instance of Control for TLC: a long name fills a page. *)
EXTENDS Control

MCNames == {"short", "long"}
MCNameSize == [n \in MCNames |-> IF n = "long" THEN 3 ELSE 1]

\* One channel, two that are in different bytes of a mask, and none.
MCRenameIds == {{2}, {1, 3}, {4}}

\* Names of one length and no flows, or as many flows as there may be.
MCTables ==
    [reads: {"channels"}, names: {[c \in 1..3 |-> "short"]}, flows: {<<>>}]
      \cup [reads: {"flows"}, names: {[c \in 1..3 |-> "short"]}, flows: {<<>>, <<-1, -2, -3>>}]

=============================================================================
