------------------------------ MODULE Console ------------------------------
(***************************************************************************)
(* The two ways text crosses the guest's edge.  virtio-console: a thread   *)
(* reads the host's stdin into a buffer and moves it into the receive      *)
(* queue; the transmit queue goes to stdout.  The serial port: transmit    *)
(* only, gathered into lines.  Both handlers of the console and the reader *)
(* thread run under the device's lock; the driver posts buffers, kicks and *)
(* reaps in its own time.                                                  *)
(*                                                                         *)
(* Input bytes are numbered as typed, output bytes as sent.  Descriptors   *)
(* are writable or not and hold `len` bytes of guest memory.               *)
(***************************************************************************)
EXTENDS Naturals, Sequences, SequencesExt

CONSTANTS
    Typed,          \* bound: bytes typed on the host
    Sent,           \* bound: bytes the guest transmits, by each way
    LineMax,        \* 256: a partial line this long is flushed
    RxChains,       \* the chains of descriptors a driver posts to receive
    TxChains,       \* and to transmit: of lengths, 0 for a device-writable one
    MaxPosted,      \* bound: receive chains posted and not reaped
    MaxConsoleLives \* bound: drivers

ASSUME ConsoleAssumption ==
    {Typed, Sent, LineMax, MaxPosted, MaxConsoleLives} \subseteq Nat

VARIABLES
    stdin,          \* bytes read from the host so far
    stdinBuf,       \* stdin_buf
    queuesOn,       \* both queues are enabled and have addresses
    rxAvail,        \* the chains posted to receive
    rxUsed,         \* what came back in each completed chain, unreaped
    rxKick, rxIrq,  \* a notification, an interrupt under way
    got,            \* the bytes every driver so far has reaped
    dropped,        \* completed bytes a reset took from the driver
    txAvail, txKick, txIrq, txDone,
    sent,           \* console bytes transmitted so far
    stdout,         \* what the host sees: <<"con", n>> and <<"ser", n>>
    serialBuf,      \* Serial.out
    serialSent, consoleLife

consoleVars == <<stdin, stdinBuf, queuesOn, rxAvail, rxUsed, rxKick, rxIrq, got, dropped, txAvail,
                 txKick, txIrq, txDone, sent, stdout, serialBuf, serialSent, consoleLife>>
rxVars     == <<stdin, stdinBuf, rxAvail, rxUsed, rxKick, rxIrq, got, dropped>>
txVars     == <<txAvail, txKick, txIrq, txDone, sent>>
serialVars == <<serialBuf, serialSent>>

Numbers(n, k) == [i \in 1 .. k |-> n + i]

------------------------------------------------------------------------------
(* process_rx: buffered input into as many chains as it takes. *)

Room(chain) == FoldLeft(LAMBDA n, d : n + (IF d.write THEN d.len ELSE 0), 0, chain)

\* Taking the whole buffer for a chain that holds less.
FillDrainingAll(state, chain) ==
    IF state.buf = <<>> THEN [state EXCEPT !.left = Append(@, chain)]
    ELSE LET n == IF Room(chain) < Len(state.buf) THEN Room(chain) ELSE Len(state.buf)
         IN [buf |-> <<>>, used |-> Append(state.used, SubSeq(state.buf, 1, n)),
             left |-> state.left]

\* A chain is taken only while there is input for it.
Fill(state, chain) ==
    IF state.buf = <<>> THEN [state EXCEPT !.left = Append(@, chain)]
    ELSE LET n == IF Room(chain) < Len(state.buf) THEN Room(chain) ELSE Len(state.buf)
         IN [buf  |-> SubSeq(state.buf, n + 1, Len(state.buf)),
             used |-> Append(state.used, SubSeq(state.buf, 1, n)),
             left |-> state.left]

\* Raising no interrupt while an earlier one is not acknowledged.
process_rx_gated(buf) ==
    LET out == FoldLeft(Fill, [buf |-> buf, used |-> <<>>, left |-> <<>>], rxAvail)
    IN IF ~queuesOn THEN stdinBuf' = buf /\ UNCHANGED <<rxAvail, rxUsed, rxIrq>>
       ELSE /\ stdinBuf' = out.buf /\ rxAvail' = out.left /\ rxUsed' = rxUsed \o out.used
            /\ rxIrq' = (rxIrq \/ (FlattenSeq(out.used) # <<>> /\ ~txIrq))

process_rx(buf) ==
    LET out == FoldLeft(Fill, [buf |-> buf, used |-> <<>>, left |-> <<>>], rxAvail)
    IN IF ~queuesOn THEN stdinBuf' = buf /\ UNCHANGED <<rxAvail, rxUsed, rxIrq>>
       ELSE /\ stdinBuf' = out.buf /\ rxAvail' = out.left /\ rxUsed' = rxUsed \o out.used
            /\ rxIrq' = (rxIrq \/ FlattenSeq(out.used) # <<>>)

\* The reader thread: one read, into the buffer, and on into the queue.
StdinReader ==
    /\ \E n \in 1 .. Typed - stdin :
          /\ process_rx(stdinBuf \o Numbers(stdin, n))
          /\ stdin' = stdin + n
    /\ UNCHANGED <<queuesOn, rxKick, got, dropped, txVars, stdout, serialVars, consoleLife>>

RxNotify ==
    /\ rxKick
    /\ process_rx(stdinBuf)
    /\ rxKick' = FALSE
    /\ UNCHANGED <<stdin, queuesOn, got, dropped, txVars, stdout, serialVars, consoleLife>>

\* process_tx: everything posted, in order, then always an interrupt.
Readable(chain) == FoldLeft(LAMBDA n, len : n + len, 0, chain)

process_tx ==
    /\ txKick /\ txKick' = FALSE
    /\ IF ~queuesOn THEN UNCHANGED <<stdout, txAvail, txDone, txIrq>>
       ELSE /\ stdout' = stdout \o [i \in 1 .. Len(FlattenSeq(txAvail)) |->
                                      <<"con", FlattenSeq(txAvail)[i]>>]
            /\ txAvail' = <<>> /\ txDone' = txDone + Len(txAvail)
            /\ txIrq' = TRUE
    /\ UNCHANGED <<queuesOn, rxVars, sent, serialVars, consoleLife>>

------------------------------------------------------------------------------
(* The driver. *)

DriverEnables ==
    /\ ~queuesOn /\ consoleLife < MaxConsoleLives
    /\ queuesOn' = TRUE /\ consoleLife' = consoleLife + 1
    /\ UNCHANGED <<rxVars, txVars, stdout, serialVars>>

\* A posted buffer is always followed by a kick.
PostRx ==
    /\ queuesOn /\ Len(rxAvail) + Len(rxUsed) < MaxPosted
    /\ \E chain \in RxChains : rxAvail' = Append(rxAvail, chain)
    /\ rxKick' = TRUE
    /\ UNCHANGED <<stdin, stdinBuf, queuesOn, rxUsed, rxIrq, got, dropped, txVars, stdout,
                   serialVars, consoleLife>>

\* The interrupt is acknowledged before the used ring is read to its end.
ReapRx ==
    /\ rxIrq /\ rxIrq' = FALSE
    /\ got' = got \o FlattenSeq(rxUsed) /\ rxUsed' = <<>>
    /\ UNCHANGED <<stdin, stdinBuf, queuesOn, rxAvail, rxKick, dropped, txVars, stdout, serialVars,
                   consoleLife>>

PostTx ==
    /\ queuesOn
    /\ \E chain \in TxChains :
          /\ sent + Readable(chain) <= Sent
          /\ txAvail' = Append(txAvail, Numbers(sent, Readable(chain)))
          /\ sent' = sent + Readable(chain)
    /\ txKick' = TRUE
    /\ UNCHANGED <<queuesOn, rxVars, txIrq, txDone, stdout, serialVars, consoleLife>>

ReapTx ==
    /\ txIrq /\ txIrq' = FALSE /\ txDone' = 0
    /\ UNCHANGED <<queuesOn, rxVars, txAvail, txKick, sent, stdout, serialVars, consoleLife>>

\* Status 0 forgets both queues and keeps the input not yet delivered.
WriteStatusReset ==
    /\ queuesOn /\ queuesOn' = FALSE
    /\ rxAvail' = <<>> /\ rxUsed' = <<>> /\ rxIrq' = FALSE
    /\ dropped' = dropped \o FlattenSeq(rxUsed)
    /\ txAvail' = <<>> /\ txIrq' = FALSE /\ txDone' = 0
    /\ UNCHANGED <<stdin, stdinBuf, rxKick, txKick, got, sent, stdout, serialVars, consoleLife>>

------------------------------------------------------------------------------
(* The serial port. *)

flush(buf) == stdout' = stdout \o [i \in 1 .. Len(buf) |-> <<"ser", buf[i].n>>]

\* A byte to the data register: a newline, or a long line, flushes.
SerialWrite ==
    /\ serialSent < Sent /\ serialSent' = serialSent + 1
    /\ \E newline \in BOOLEAN :
          LET buf == Append(serialBuf, [n |-> serialSent + 1, nl |-> newline])
          IN IF newline \/ Len(buf) >= LineMax
             THEN flush(buf) /\ serialBuf' = <<>>
             ELSE serialBuf' = buf /\ UNCHANGED stdout
    /\ UNCHANGED <<queuesOn, rxVars, txVars, consoleLife>>

\* Polling the line status shows a partial line.
SerialReadLsr ==
    /\ serialBuf # <<>>
    /\ flush(serialBuf) /\ serialBuf' = <<>>
    /\ UNCHANGED <<queuesOn, rxVars, txVars, serialSent, consoleLife>>

ConsoleInit ==
    /\ stdin = 0 /\ stdinBuf = <<>> /\ queuesOn = FALSE /\ rxAvail = <<>> /\ rxUsed = <<>>
    /\ rxKick = FALSE /\ rxIrq = FALSE /\ got = <<>> /\ dropped = <<>>
    /\ txAvail = <<>> /\ txKick = FALSE /\ txIrq = FALSE /\ txDone = 0 /\ sent = 0
    /\ stdout = <<>> /\ serialBuf = <<>> /\ serialSent = 0 /\ consoleLife = 0

ConsoleNext ==
    \/ StdinReader \/ RxNotify \/ process_tx
    \/ DriverEnables \/ PostRx \/ ReapRx \/ PostTx \/ ReapTx \/ WriteStatusReset
    \/ SerialWrite \/ SerialReadLsr

ConsoleSpec == ConsoleInit /\ [][ConsoleNext]_consoleVars

------------------------------------------------------------------------------
(* Properties. *)

\* Input is neither lost, repeated nor reordered on its way from stdin through
\* the buffer and the used ring to the driver, drivers that reset included; and
\* output of either kind appears on stdout in the order the guest sent it.
ConsoleFaithful ==
    /\ Len(got) + Len(dropped) + Len(FlattenSeq(rxUsed)) + Len(stdinBuf) = stdin
    /\ LET onTheWay == FlattenSeq(rxUsed) \o stdinBuf
       IN onTheWay = Numbers(stdin - Len(onTheWay), Len(onTheWay))
    /\ \A i, j \in 1 .. Len(got) : i < j => got[i] < got[j]
    /\ \A i, j \in 1 .. Len(stdout) :
          i < j /\ stdout[i][1] = stdout[j][1] => stdout[i][2] < stdout[j][2]

\* Nothing waits for an event that is not coming: input stays buffered only while
\* no receive chain is posted or its kick is under way, completed chains with
\* data in them have an interrupt under way, and so has transmitted output.
\* (process_rx: gating the interrupt "meant one byte of console output
\* suppressed every later keystroke".)
ConsoleAwake ==
    /\ queuesOn /\ stdinBuf # <<>> => rxAvail = <<>> \/ rxKick
    /\ FlattenSeq(rxUsed) # <<>> => rxIrq
    /\ txAvail # <<>> => txKick
    /\ txDone > 0 => txIrq
==============================================================================
