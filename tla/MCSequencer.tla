---------------------------- MODULE MCSequencer ----------------------------
EXTENDS Sequencer, TLC
CONSTANTS c1, c2

Op(name) == [name |-> name, arg |-> {}]
Push(n) == [name |-> "push", arg |-> [i \in 1 .. n |-> IF i = n THEN "stop" ELSE "plain"]]

MCOps == c1 :> ({Op(n) : n \in {"initialize", "start", "unprocessed", "enable", "check_err", "clear_flag"}}
                 \cup {Push(1), Push(3)})
         @@ c2 :> ({Op(n) : n \in {"initialize", "terminate", "clear", "clear_reports", "disable", "wait", "unprocessed"}}
                 \cup {Push(2), [name |-> "set_branch", arg |-> FALSE], [name |-> "set_branch", arg |-> TRUE]})
MCQueues == {<<>>, <<"plain", "back">>}
=============================================================================
