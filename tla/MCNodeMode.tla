----------------------------- MODULE MCNodeMode -----------------------------
(* NodeMode for TLC: the node as it is shipped and as a tool left it.      *)
EXTENDS NodeMode

\* NV 1 as a tool writes it: access point and ED server, either or none.
Flags == SUBSET {0, 6}

Shipped == [node_number |-> 300, canid |-> 100, node_mode |-> "SLIM",
            ap_mode |-> TRUE, edserver |-> TRUE, create_log_file |-> TRUE,
            tcpport |-> 5555]
Numbered == [Shipped EXCEPT !.node_number = 301, !.node_mode = "FLIM"]
Files == {Shipped, Numbered}

=============================================================================
