------------------------------ MODULE MCCommands ------------------------------
(* The calls that are checked: each exercises one part of run_command. *)
EXTENDS Commands

Command == [says |-> <<0, 0>>, bytes |-> {"x"}, deaf |-> FALSE, kids |-> {}]
Call(mode, width, runs) == [mode |-> mode, width |-> width, refused |-> FALSE, runs |-> runs]

\* Line ends of every kind, split by chunks, and more bytes than are kept.
Printer == [Command EXCEPT !.says = <<0, 4>>, !.bytes = {"x", "CR", "LF"}]
\* Both streams beyond the budget.
Talker == [Command EXCEPT !.says = <<2, 1>>]
\* Every kind of descendant, under a shell that heeds SIGTERM and under one that does not.
Forker == [Command EXCEPT !.says = <<0, 1>>, !.kids = {k \in Kids : k.holds # {stderr}}]
Deaf   == [Command EXCEPT !.says = <<0, 1>>, !.kids = {k \in Kids : k.holds = {stdout}}, !.deaf = TRUE]
\* A descendant that keeps stdout open and must be killed.
Daemon == [Command EXCEPT !.says = <<0, 1>>,
                          !.kids = {[holds |-> {stdout}, escaped |-> FALSE, deaf |-> TRUE]}]

TheBatches ==
    {Call("single", 1, <<r>>) : r \in {Printer, Talker, Forker, Deaf}}
    \cup {Call("sequential", 1, <<Talker, Daemon>>), Call("parallel", 2, <<Daemon, Command>>),
          [Call("parallel", 2, <<Command>>) EXCEPT !.refused = TRUE]}
===============================================================================
