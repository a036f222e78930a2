------------------------------ MODULE MCServer ------------------------------
(* Constants of Server for model checking. *)
EXTENDS Server, TLC

MCSpellings == {"get", "GET", "quit"}
MCLower     == [s \in MCSpellings |-> IF s = "GET" THEN "get" ELSE s]
MCClosers   == {"quit"}
\* two commands, and only one of them
MCTwoSpellings == {"get", "quit"}
MCTwoLower     == [s \in MCTwoSpellings |-> s]
MCOneSpelling  == {"quit"}
MCOneLower     == [s \in MCOneSpelling |-> s]

\* "get" may change from a handler to a stream handler while it is served.
MCRegistrations == {<<"get", "handler">>, <<"get", "stream">>,
                    <<"quit", "handler">>}
\* Only the command that closes its client is a stream.
MCStreamCloses  == {<<"GET", "handler">>, <<"quit", "stream">>}
MCQuitOnly      == {<<"quit", "handler">>, <<"quit", "stream">>}

ConnSymmetry == Permutations(Conns)
=============================================================================
