-------------------------------- MODULE MCRing --------------------------------
(* Instances of Ring for TLC. *)
EXTENDS Ring

OneChan == {1}

\* From the start of the clock and across a wrap of its words, in time; and
\* across the wrap with timestamps of more than a lap ahead and any reader.
MCEnvironments ==
    [start: {0, 13}, ticks: {6}, lead: {0}, lag: {2}, delay: {1}, timely: {TRUE}]
      \cup [start: {13}, ticks: {4}, lead: {3}, lag: {1}, delay: {0}, timely: {FALSE}]

=============================================================================
