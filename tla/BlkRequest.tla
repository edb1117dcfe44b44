----------------------------- MODULE BlkRequest -----------------------------
(***************************************************************************)
(* One virtio-blk request from its descriptor chain to its status byte:    *)
(* parsing (blk/request.rs), choosing between the guest's own pages and a  *)
(* bounce buffer (blk/disk.rs), and the loop of submissions, short         *)
(* transfers and retries (blk/worker.rs).  BlkQueue has the control around *)
(* it; here every byte is followed.                                        *)
(*                                                                         *)
(* The bytes of the data segments are numbered through: guest[k] is the    *)
(* k-th byte of the request.  A byte of the file is named by its offset, a *)
(* byte of the guest by GuestByte(k); 0 is zero.                           *)
(***************************************************************************)
EXTENDS Integers, Sequences, SequencesExt

CONSTANTS
    SectorSize,     \* SECTOR_SIZE
    MaxU64,         \* u64::MAX
    MaxRequest,     \* MAX_REQUEST_BYTES
    IdLen,          \* DISK_ID.len()
    SegSize,        \* DISCARD_SEG_SIZE
    Disks,          \* [read_only, len, dio, size, eof]: the opened image
    Chains,         \* descriptor chains a driver may post
    MaxInterrupts   \* bound: EINTR or EAGAIN results of one request

VARIABLES
    disk, chain,        \* what is served, and for whom
    pc,                 \* "start", "kernel", "completed" or "finished"
    slot,               \* Worker.slots[token], with the bounce buffer's skip
    guest, bounce,      \* bytes of the data segments and of the bounce buffer
    file, eof,          \* bytes and length of the backing file
    result,             \* Done.result: an error, or how many bytes moved
    interrupts,
    oom,                \* whether an allocation fails while the request is served
    status, used        \* status byte and used length the driver gets

vars == <<disk, chain, pc, slot, guest, bounce, file, eof, result, interrupts, oom,
          status, used>>

Junk == -1                      \* a byte of fresh heap memory
GuestByte(k) == 1000 + k        \* what the driver put into its k-th byte
IdByte == 2000
NoStatus == "none"

SumLens(s) == FoldLeft(LAMBDA n, v : n + v.len, 0, s)

\* The buffer positions a scatter-gather list names, in order.
Bytes(iovs) == FlattenSeq([i \in 1 .. Len(iovs) |->
                              [j \in 1 .. iovs[i].len |-> iovs[i].at + j - 1]])

-----------------------------------------------------------------------------
(* Parsing *)

\* A product that does not fit, and the test every byte range has to pass.
checked_mul(a) == IF a * SectorSize > MaxU64 THEN -1 ELSE a * SectorSize

saturating_add(a, b) == IF a + b > MaxU64 THEN MaxU64 ELSE a + b

Within(offset, len) == offset >= 0 /\ saturating_add(offset, len) <= disk.len

segments == SelectSeq(chain.data, LAMBDA s : s.len # 0)
total    == SumLens(segments)

Malformed == chain.short \/ ~chain.status_ok

\* Everything before the request type is looked at.
ChainOk ==
    /\ chain.header_ok
    /\ \A i \in DOMAIN segments : segments[i].inside
    /\ total <= MaxRequest

Op(op, offset, len) == [op |-> op, offset |-> offset, len |-> len]
Reject(s)           == [op |-> "reject", status |-> s]

parse_rw(op) ==
    LET offset == checked_mul(chain.sector)
    IN IF (op = "write" /\ disk.read_only) \/ ~Within(offset, total)
       THEN Reject("ioerr") ELSE Op(op, offset, total)

parse_discard(op) ==
    LET offset == checked_mul(chain.range.sector)
        len    == chain.range.sectors * SectorSize
    IN IF disk.read_only \/ Len(segments) # 1
       THEN Reject("ioerr")
       ELSE IF segments[1].len < SegSize \/ ~Within(offset, len)
       THEN Reject("ioerr")
       ELSE IF op = "discard" /\ chain.range.flags # 0
       THEN Reject("unsupp") ELSE Op(op, offset, len)

parse ==
    IF ~ChainOk THEN Reject("ioerr")
    ELSE CASE chain.kind = "in"           -> parse_rw("read")
           [] chain.kind = "out"          -> parse_rw("write")
           [] chain.kind = "flush"        -> Op("flush", 0, 0)
           [] chain.kind = "get_id"       -> Op("get_id", 0, 0)
           [] chain.kind = "discard"      -> parse_discard("discard")
           [] chain.kind = "write_zeroes" -> parse_discard("write_zeroes")
           [] OTHER                       -> Reject("unsupp")

-----------------------------------------------------------------------------
(* The image: what direct I/O accepts (dio = 0: opened buffered) *)

Multiple(n, a) == n % a = 0

direct_ok(offset, iovs) ==
    disk.dio # 0 =>
       /\ Multiple(offset, disk.dio)
       /\ \A i \in DOMAIN iovs : Multiple(iovs[i].skew, disk.dio) /\ Multiple(iovs[i].len, disk.dio)

next_multiple_of(n, a) == ((n + a - 1) \div a) * a

bounce_shape(offset, len) ==
    IF disk.dio = 0 THEN [head |-> 0, io_len |-> len]
    ELSE LET head == offset % disk.dio
         IN [head |-> head, io_len |-> next_multiple_of(len + head, disk.dio)]

-----------------------------------------------------------------------------
(* Preparing and submitting *)

\* iovecs straight at the guest's pages.
iovs_for == LET at(i) == SumLens(SubSeq(segments, 1, i - 1))
            IN [i \in 1 .. Len(segments) |->
                   [at |-> at(i), len |-> segments[i].len, skew |-> segments[i].skew]]

Data(op) == op \in {"read", "write"}

\* The slot for a request of the engine, pointing at the guest's pages.
DirectSlot(r) == [op |-> r.op, offset |-> r.offset, done |-> 0, io_len |-> r.len,
                  bounced |-> FALSE, skip |-> 0, iovs |-> IF Data(r.op) THEN iovs_for ELSE <<>>]

\* Mutant: any write is staged.
CanStage_any(s) == ~oom

\* A write that would need the blocks around it is refused, and so is a request
\* no buffer can be allocated for.
CanStage(s) == LET b == bounce_shape(s.offset, total)
               IN ~oom /\ (s.op = "read" \/ (b.head = 0 /\ b.io_len = total))

\* An allocation is never empty.
BounceLen(b) == IF b.io_len = 0 THEN 1 ELSE b.io_len

\* The slot rebuilt around a bounce buffer, and that buffer's bytes.
Staged(s) ==
    LET b == bounce_shape(s.offset, total)
    IN [s EXCEPT !.offset = @ - b.head, !.io_len = b.io_len, !.bounced = TRUE,
                 !.skip = b.head,
                 !.iovs = <<[at |-> 0, len |-> BounceLen(b), skew |-> 0]>>]

StagedBytes(s) ==
    LET b == bounce_shape(s.offset, total)
    IN [i \in 0 .. BounceLen(b) - 1 |->
           IF s.op = "write" /\ i - b.head \in 0 .. total - 1 THEN guest[i - b.head] ELSE Junk]

finish(s, len) == status' = s /\ used' = len /\ pc' = "finished"
submitted == pc' = "kernel" /\ UNCHANGED <<status, used>>

\* start, issue and prepare, up to the submission or an answer on the spot.
start ==
    /\ pc = "start"
    /\ LET r == parse
           s == DirectSlot(r)
       IN \/ /\ Malformed
             /\ finish(NoStatus, 0)
             /\ UNCHANGED <<slot, guest, bounce>>
          \/ /\ ~Malformed /\ r.op = "reject"
             /\ finish(r.status, 1)
             /\ UNCHANGED <<slot, guest, bounce>>
          \/ /\ ~Malformed /\ r.op = "get_id"
             /\ LET written == IF total < IdLen THEN total ELSE IdLen
                IN /\ guest' = [k \in DOMAIN guest |-> IF k < written THEN IdByte ELSE guest[k]]
                   /\ finish("ok", written + 1)
             /\ UNCHANGED <<slot, bounce>>
          \/ /\ ~Malformed /\ r.op \notin {"reject", "get_id"}
             /\ Data(r.op) => direct_ok(r.offset, iovs_for)
             /\ slot' = s /\ submitted
             /\ UNCHANGED <<guest, bounce>>
          \/ /\ ~Malformed /\ Data(r.op) /\ ~direct_ok(r.offset, iovs_for)
             /\ IF CanStage(s)
                THEN slot' = Staged(s) /\ bounce' = StagedBytes(s) /\ submitted
                ELSE finish("ioerr", 1) /\ UNCHANGED <<slot, bounce>>
             /\ UNCHANGED guest
    /\ UNCHANGED <<disk, chain, file, eof, result, interrupts, oom>>

-----------------------------------------------------------------------------
(* The kernel (external): readv, writev, fdatasync and fallocate *)

Errors == {"EINTR", "EINVAL", "EOPNOTSUPP", "EIO"}
Done(err, moved) == [err |-> err, moved |-> moved]

Left == IF eof > slot.offset THEN eof - slot.offset ELSE 0
Misaligned == ~direct_ok(slot.offset, slot.iovs)

Filled(buf, P, n) == [k \in DOMAIN buf |->
    IF \E i \in 1 .. n : P[i] = k THEN file[slot.offset + (CHOOSE i \in 1 .. n : P[i] = k) - 1]
                                  ELSE buf[k]]

\* A read moves some bytes, and none only at the end of the file.
KernelReads(n) ==
    /\ pc = "kernel" /\ slot.op = "read"
    /\ LET P == Bytes(slot.iovs)
       IN /\ n <= Len(P) /\ n <= Left
          /\ n = 0 => Left = 0 \/ P = <<>>
          /\ n > 0 => ~Misaligned
          /\ IF slot.bounced THEN bounce' = Filled(bounce, P, n) /\ UNCHANGED guest
                             ELSE guest' = Filled(guest, P, n) /\ UNCHANGED bounce
    /\ result' = Done("none", n) /\ pc' = "completed"
    /\ UNCHANGED <<disk, chain, slot, file, eof, interrupts, oom, status, used>>

KernelWrites(n) ==
    /\ pc = "kernel" /\ slot.op = "write" /\ ~Misaligned
    /\ LET P == Bytes(slot.iovs)
           src == IF slot.bounced THEN bounce ELSE guest
       IN /\ n <= Len(P)
          /\ file' = [o \in DOMAIN file |->
                         IF o - slot.offset \in 0 .. n - 1 THEN src[P[o - slot.offset + 1]]
                                                           ELSE file[o]]
    /\ eof' = IF n > 0 /\ slot.offset + n > eof THEN slot.offset + n ELSE eof
    /\ result' = Done("none", n) /\ pc' = "completed"
    /\ UNCHANGED <<disk, chain, slot, guest, bounce, interrupts, oom, status, used>>

\* A flush, or a hole or zeroes in a range; the size is kept.
KernelOther ==
    /\ pc = "kernel" /\ ~Data(slot.op)
    /\ file' = [o \in DOMAIN file |->
                   IF slot.op # "flush" /\ o - slot.offset \in 0 .. slot.io_len - 1 THEN 0
                                                                                    ELSE file[o]]
    /\ result' = Done("none", 0) /\ pc' = "completed"
    /\ UNCHANGED <<disk, chain, slot, guest, bounce, eof, interrupts, oom, status, used>>

KernelFails(e) ==
    /\ pc = "kernel"
    /\ e = "EINTR" => interrupts < MaxInterrupts
    /\ e = "EINVAL" /\ Data(slot.op) => disk.dio # 0
    /\ e = "EOPNOTSUPP" => ~Data(slot.op)
    /\ interrupts' = IF e = "EINTR" THEN interrupts + 1 ELSE interrupts
    /\ result' = Done(e, 0) /\ pc' = "completed"
    /\ UNCHANGED <<disk, chain, slot, guest, bounce, file, eof, oom, status, used>>

KernelStep ==
    \/ \E n \in 0 .. MaxRequest : KernelReads(n) \/ KernelWrites(n)
    \/ KernelOther
    \/ \E e \in Errors : KernelFails(e)

-----------------------------------------------------------------------------
(* Completing *)

\* Drop n bytes from the front of a scatter-gather list.
advance(iovs, n) ==
    FoldLeft(LAMBDA a, v :
                 IF a.left = 0 THEN [a EXCEPT !.out = Append(@, v)]
                 ELSE IF a.left >= v.len THEN [a EXCEPT !.left = @ - v.len]
                 ELSE [left |-> 0,
                       out  |-> Append(a.out, [at   |-> v.at + a.left,
                                               len  |-> v.len - a.left,
                                               skew |-> v.skew + a.left])],
             [left |-> n, out |-> <<>>], iovs).out

\* Mutant: the request's bytes are taken from the start of the window.
copy_out_unskewed(b) == guest' = [k \in DOMAIN guest |-> b[k]]

\* The staged bytes of the request itself, without the window around them.
copy_out(b) == guest' = [k \in DOMAIN guest |-> b[slot.skip + k]]

\* A read that met the end of the file: what it did not reach becomes zeroes.
ZeroTail(done) ==
    IF slot.bounced
    THEN LET b == [i \in DOMAIN bounce |-> IF i >= done THEN 0 ELSE bounce[i]]
         IN bounce' = b /\ copy_out(b)
    ELSE /\ guest' = [k \in DOMAIN guest |-> IF k >= done THEN 0 ELSE guest[k]]   \* zero_fill
         /\ UNCHANGED bounce

\* Mutant: whatever failed is tried again.
CompleteError_retried == submitted /\ UNCHANGED <<slot, bounce>>

CompleteError ==
    \/ /\ result.err = "EINTR"
       /\ submitted /\ UNCHANGED <<slot, bounce>>
    \/ /\ result.err = "EINVAL" /\ ~slot.bounced /\ slot.done = 0 /\ Data(slot.op)
       /\ IF CanStage(slot)
          THEN slot' = Staged(slot) /\ bounce' = StagedBytes(slot) /\ submitted
          ELSE finish("ioerr", 1) /\ UNCHANGED <<slot, bounce>>
    \/ /\ result.err = "EOPNOTSUPP" /\ slot.op \in {"discard", "write_zeroes"}
       /\ finish("unsupp", 1) /\ UNCHANGED <<slot, bounce>>
    \/ /\ result.err \in Errors \ {"EINTR"}
       /\ ~(result.err = "EINVAL" /\ ~slot.bounced /\ slot.done = 0 /\ Data(slot.op))
       /\ ~(result.err = "EOPNOTSUPP" /\ slot.op \in {"discard", "write_zeroes"})
       /\ finish("ioerr", 1) /\ UNCHANGED <<slot, bounce>>

\* The slot after a transfer of moved bytes.
Moved(moved) == [slot EXCEPT !.done = @ + moved, !.offset = @ + moved]

CompleteData(moved) ==
    LET s == Moved(moved)
    IN \/ /\ s.done < s.io_len /\ moved = 0 /\ s.op = "read"
          /\ ZeroTail(s.done) /\ finish("ok", total + 1)
          /\ slot' = s
       \/ /\ s.done < s.io_len /\ moved = 0 /\ s.op = "write"
          /\ finish("ioerr", 1)
          /\ slot' = s /\ UNCHANGED <<guest, bounce>>
       \/ /\ s.done < s.io_len /\ moved > 0
          /\ slot' = [s EXCEPT !.iovs = advance(@, moved)] /\ submitted
          /\ UNCHANGED <<guest, bounce>>
       \/ /\ s.done >= s.io_len
          /\ IF s.op = "read" /\ s.bounced THEN copy_out(bounce) ELSE UNCHANGED guest
          /\ finish("ok", IF s.op = "read" THEN total + 1 ELSE 1)
          /\ slot' = s /\ UNCHANGED bounce

\* A resubmission always finds room in the engine (BlkQueue, RoomForKick).
complete ==
    /\ pc = "completed"
    /\ \/ result.err # "none" /\ CompleteError /\ UNCHANGED guest
       \/ /\ result.err = "none" /\ ~Data(slot.op)
          /\ finish("ok", 1) /\ UNCHANGED <<slot, guest, bounce>>
       \/ result.err = "none" /\ Data(slot.op) /\ CompleteData(result.moved)
    /\ UNCHANGED <<disk, chain, file, eof, result, interrupts, oom>>

-----------------------------------------------------------------------------
NoSlot == [op |-> "none", offset |-> 0, done |-> 0, io_len |-> 0, bounced |-> FALSE,
           skip |-> 0, iovs |-> <<>>]
FileBytes(d) == [o \in 0 .. d.size - 1 |-> IF o < d.eof THEN o + 1 ELSE 0]

Init ==
    /\ disk \in Disks /\ chain \in Chains
    /\ pc = "start" /\ slot = NoSlot
    /\ guest = [k \in 0 .. total - 1 |-> GuestByte(k)] /\ bounce = <<>>
    /\ file = FileBytes(disk) /\ eof = disk.eof
    /\ result = Done("none", 0) /\ interrupts = 0 /\ oom \in BOOLEAN
    /\ status = NoStatus /\ used = 0

Ended == pc = "finished" /\ UNCHANGED vars

Next == start \/ KernelStep \/ complete \/ Ended
Spec == Init /\ [][Next]_vars

\* The worker is scheduled and the kernel answers what it was given.
FairSpec == Spec /\ WF_vars(start \/ complete) /\ WF_vars(KernelStep)

-----------------------------------------------------------------------------
(* Properties *)

\* Where the driver asked for, in numbers that do not wrap.
Asked == SectorSize * (IF Data(slot.op) THEN chain.sector ELSE chain.range.sector)
AskedLen == IF Data(slot.op) THEN total ELSE SectorSize * chain.range.sectors

\* Types; a transfer never counts more bytes than it was submitted for, and what
\* is left of it ends on the disk, or in the block the disk ends in.
\* A read that succeeds has put into every byte of the guest's buffer the byte
\* of the image it asked for, and zero past the end of the file: across short
\* transfers, a widened window, staging and retries, never a byte of somewhere
\* else nor of the heap.
ReadExact ==
    pc = "finished" /\ slot.op = "read" /\ status = "ok" =>
        \A k \in DOMAIN guest : Asked + k \in DOMAIN file /\ guest[k] = file[Asked + k]

\* A write changes no byte outside the range it names, whether it succeeds or
\* not, and one that succeeds has stored every byte.
WriteExact ==
    slot.op \in {"write", "discard", "write_zeroes"} =>
        \A o \in DOMAIN file :
            IF o - Asked \in 0 .. AskedLen - 1
            THEN pc = "finished" /\ status = "ok" =>
                     file[o] = IF slot.op = "write" THEN GuestByte(o - Asked) ELSE 0
            ELSE file[o] = FileBytes(disk)[o]

\* The used length counts bytes the device did write: a driver may look at that
\* many bytes of its buffer.
UsedIsWritten ==
    pc = "finished" => \A k \in 0 .. used - 2 : k \in DOMAIN guest /\ guest[k] # GuestByte(k)

\* A short transfer is not a failure: a read the device accepted is reported
\* failed only if the kernel reported an error or memory ran out.
HonestFailure ==
    pc = "finished" /\ slot.op = "read" /\ status = "ioerr" =>
        oom \/ result.err \in Errors \ {"EINTR"}

\* Liveness: every request ends, since each round moves a byte, gives up or
\* spends the one staged retry.
Finishes == <>(pc = "finished")

\* Every request is answered, and the answer is true.
AnsweredHonestly == Finishes /\ [](UsedIsWritten /\ HonestFailure)
=============================================================================
