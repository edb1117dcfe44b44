------------------------------ MODULE MCPciBus ------------------------------
EXTENDS PciBus

\* A small device with doorbells, one that also has a 64-bit BAR, and one with two
\* 64-bit BARs, of which one is as large as what the low register can tell apart.
MCBarInfo == [blk  |-> [idx |-> 0, size |-> 2, wide |-> FALSE, doors |-> {0, 1}],
              reg  |-> [idx |-> 0, size |-> 4, wide |-> FALSE, doors |-> {1}],
              shm  |-> [idx |-> 2, size |-> 8, wide |-> TRUE, doors |-> {}],
              cfg  |-> [idx |-> 0, size |-> 8, wide |-> TRUE, doors |-> {1}],
              pool |-> [idx |-> 4, size |-> 16, wide |-> TRUE, doors |-> {}]]
MCDevices == <<<<"blk">>, <<"reg", "shm">>, <<"cfg", "pool">>>>
MCWindow32 == [start |-> 4, end |-> 16]
MCWindow64 == [start |-> 32, end |-> 80]
=============================================================================
