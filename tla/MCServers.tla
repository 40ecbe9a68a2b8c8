------------------------------- MODULE MCServers -------------------------------
EXTENDS Servers
MCSegmentLen == <<2, 1, 2>>
MCLoads == {[datagrams |-> 6, clients |-> 0, segments |-> 0],
            [datagrams |-> 1, clients |-> 1, segments |-> 2],
            [datagrams |-> 0, clients |-> 2, segments |-> 3]}
=============================================================================
