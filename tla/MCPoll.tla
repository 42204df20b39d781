------------------------------- MODULE MCPoll -------------------------------
(* Poll with the edges of PollConfig: no timeout, no interval, an interval  *)
(* longer than the timeout, and a timeout the clock cannot represent.       *)
EXTENDS Poll

MCConfig == { [interval |-> 2, timeout |-> 5],
              [interval |-> 0, timeout |-> 3],
              [interval |-> 4, timeout |-> 1],
              [interval |-> 1, timeout |-> 0],
              [interval |-> 1, timeout |-> 99] }
=============================================================================
