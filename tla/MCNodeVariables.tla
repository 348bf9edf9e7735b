--------------------------- MODULE MCNodeVariables ---------------------------
(* NodeVariables for TLC: the file the program comes with, one of an older *)
(* version, and one with values that fill their fields or do not fit.      *)
EXTENDS NodeVariables

Text(n) == [i \in 1..n |-> 96 + i]

Shipped ==
  [ap_mode |-> TRUE, can_grid |-> TRUE, ap_no_password |-> TRUE,
   create_log_file |-> TRUE, edserver |-> TRUE, loglevel |-> "INFO",
   tcpport |-> 5555, cangrid_port |-> 5550, ap_channel |-> 6,
   ap_ssid |-> Text(7), ap_password |-> Text(8), service_name |-> Text(8),
   turnout_file |-> Text(11), fn_momentary |-> {2}, start_event_id |-> 1]
Older ==
  [k \in DOMAIN Shipped \ {"edserver", "ap_no_password", "create_log_file"} |-> Shipped[k]]
Extreme ==
  [Shipped EXCEPT !.edserver = FALSE, !.loglevel = "NOTICE", !.fn_momentary = {},
                  !.ap_password = Text(9), !.service_name = Text(12),
                  !.ap_ssid = <<97, 32, 98>>,
                  !.start_event_id = 65535]
Files == {Shipped, Older, Extreme}

Edits == {<<"tcpport", 256>>, <<"edserver", TRUE>>, <<"loglevel", "DEBUG">>,
          <<"ap_ssid", <<97, 32, 59, 98>> >>, <<"fn_momentary", {0, 7, 8, 28}>>,
          <<"fn_momentary", {}>>, <<"ap_channel", 13>>}
Entries == {<<"ap_mode", FALSE>>, <<"edserver", FALSE>>, <<"cangrid_port", 65535>>,
            <<"loglevel", "NOTSET">>, <<"service_name", Text(3)>>,
            <<"ap_ssid", Text(9)>>, <<"tcpport", 5550>>}

=============================================================================
