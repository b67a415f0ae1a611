--------------------------- MODULE MCWebTransportWS ---------------------------
(* Two streams that carry everything, two that share it out, one with a       *)
(* ping, one without commands, one of bare bytes, and datagrams.              *)
EXTENDS WebTransportWS

Option(mode, count, datagrams, command, ping_, auto, messages) ==
    [mode |-> mode, streamCount |-> count, useDatagrams |-> datagrams,
     enableCommand |-> command, enablePing |-> ping_, autoStream |-> auto,
     messages |-> messages]

MCConfigs == {Option("text", 2, FALSE, TRUE, FALSE, FALSE, 3),
              Option("text", 2, FALSE, TRUE, FALSE, TRUE, 2),
              Option("text", 1, FALSE, TRUE, TRUE, FALSE, 2),
              Option("text", 1, FALSE, FALSE, TRUE, FALSE, 1),
              Option("stream", 1, FALSE, FALSE, FALSE, FALSE, 3),
              Option("text", 1, TRUE, TRUE, TRUE, FALSE, 2)}
===============================================================================
