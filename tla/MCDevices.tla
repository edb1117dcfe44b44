----------------------------- MODULE MCDevices -----------------------------
(***************************************************************************)
(* The devices that share the MSI-X table and the register layout of       *)
(* common.rs but no state with each other.  A behaviour is one of one      *)
(* part; the others rest in an initial state of theirs.                    *)
(***************************************************************************)
EXTENDS Msix, VhostDevice, NvPools, Console

VARIABLE part

Desc(n, w) == [len |-> n, write |-> w]

MCRxChains == {<<Desc(1, TRUE)>>, <<Desc(1, FALSE), Desc(1, TRUE), Desc(2, TRUE)>>}
MCTxChains == {<<1>>, <<1, 0, 1>>}

MCWishes ==
    {{"V1"}, {"MRG_RXBUF", "GUEST_TSO"},
     {"V1", "MRG_RXBUF", "GUEST_CSUM", "GUEST_TSO", "EVENT_IDX"}}

mcVars == <<part, vars, vhostVars, poolVars, consoleVars>>

\* Only the vhost devices have more than one initial state.
MCInit ==
    /\ part \in {"msix", "vhost", "pools", "console"}
    /\ Init /\ VhostInit /\ PoolsInit /\ ConsoleInit
    /\ part = "vhost" \/ (kind = "net" /\ able = {"V1", "MRG_RXBUF"})

MCNext ==
    /\ UNCHANGED part
    /\ \/ part = "msix" /\ Next /\ UNCHANGED <<vhostVars, poolVars, consoleVars>>
       \/ part = "vhost" /\ VhostNext /\ UNCHANGED <<vars, poolVars, consoleVars>>
       \/ part = "pools" /\ PoolsNext /\ UNCHANGED <<vars, vhostVars, consoleVars>>
       \/ part = "console" /\ ConsoleNext /\ UNCHANGED <<vars, vhostVars, poolVars>>

MCSpec == MCInit /\ [][MCNext]_mcVars
=============================================================================
