------------------------------ MODULE LogStore ------------------------------
(***************************************************************************)
(* The storage area of one sensor, as log_controller.c keeps it through    *)
(* the MX25 flash driver (spi_slave_mx25_flash_memory.c).                  *)
(*                                                                         *)
(* An area is one header sector, NumSectors data sectors and the gap       *)
(* sector that senstick_flash_address_definition.h leaves before the next  *)
(* area.  Only the header sector and the first data sector are erased by a *)
(* format; every later sector is erased when a write reaches its first     *)
(* byte.  That erase-ahead, the page-wise splitting of a write and the     *)
(* power being cut inside any of these flash operations are what this      *)
(* module is about.                                                        *)
(*                                                                         *)
(* Addresses are counted in cells from the first data sector.  A cell      *)
(* holds one byte of a log, which is represented by its log and position.  *)
(*                                                                         *)
(* The caller's contract is in the guards of createLog: the two ASSERTs of *)
(* the function, and that a log whose recording was cut short is never     *)
(* followed by another one before a format.  SenStickControl models the    *)
(* callers.                                                                *)
(***************************************************************************)
EXTENDS Integers

CONSTANTS
    SectorSize,   \* cells in an erase unit (4096 bytes)
    PageSize,     \* cells in a program unit (256 bytes)
    NumSectors,   \* data sectors of the area
    HeaderSlots,  \* log_header_t records that fit in the header sector (256)
    MaxNumOfLog,  \* MAX_NUM_OF_LOG: log IDs are below it (100)
    MaxLength,    \* longest buffer given to writeLog
    Erased,       \* a cell, or a header, that has been erased
    Junk,         \* torn, programmed twice, or left from before a format
    Foreign       \* what the next area keeps in its header sector

AreaEnd   == NumSectors * SectorSize      \* first cell of the gap sector
FlashEnd  == AreaEnd + 2 * SectorSize     \* the gap and the next area's header
Cells     == 0 .. FlashEnd - 1
Gap       == AreaEnd .. AreaEnd + SectorSize - 1
Neighbour == AreaEnd + SectorSize .. FlashEnd - 1
LogIDs    == 0 .. MaxNumOfLog - 1
Lengths   == 1 .. MaxLength
Samples   == LogIDs \X (0 .. FlashEnd)
Headers   == [start : 0 .. AreaEnd, size : 0 .. AreaEnd]

ASSUME SizeAssumption ==
    /\ PageSize \in Nat /\ PageSize > 1
    /\ SectorSize \in Nat
    /\ \E pages \in 1 .. SectorSize : SectorSize = pages * PageSize
    /\ NumSectors \in Nat \ {0}
    /\ HeaderSlots \in Nat /\ MaxNumOfLog \in Nat
    /\ MaxNumOfLog < HeaderSlots
    /\ MaxLength \in Nat

ASSUME MarkAssumption ==
    /\ Erased # Junk /\ Erased # Foreign /\ Junk # Foreign
    /\ {Erased, Junk, Foreign} \cap Samples = {}
    /\ {Erased, Junk} \cap Headers = {}

VARIABLES
    flash,    \* the cells of the area, the gap and the next header sector
    header,   \* the header sector, one log_header_t per log ID
    ctx,      \* the sensor's writingLogContext: log, start, size, wpos
    session,  \* "none"; "open", from createLog to closeLog; "broken", once
              \* a power cut has ended that; "formatting", until it is done
    op        \* the flash operation under way: what, where, cells left

vars == <<flash, header, ctx, session, op>>

Idle      == [pc |-> "idle", at |-> 0, left |-> 0]
NoContext == [log |-> 0, start |-> 0, size |-> 0, wpos |-> 0]

TypeOK ==
    /\ flash \in [Cells -> Samples \cup {Erased, Junk, Foreign}]
    /\ header \in [LogIDs -> Headers \cup {Erased, Junk}]
    /\ ctx \in [log : Nat, start : 0 .. AreaEnd, size : 0 .. AreaEnd,
                wpos : 0 .. AreaEnd]
    /\ session \in {"none", "open", "broken", "formatting"}
    /\ op \in [pc : {"idle", "program", "erase", "header",
                     "formatHeader", "formatData"},
               at : 0 .. AreaEnd, left : 0 .. MaxLength]

-----------------------------------------------------------------------------
(* The flash device. *)

\* Programming only clears bits: an erased cell takes the byte of the log
\* being written, any other cell is ruined.
Programmed(from, count) ==
    [c \in Cells |-> IF c \notin from .. from + count - 1 THEN flash[c]
                     ELSE IF flash[c] = Erased THEN <<ctx.log, c - ctx.start>>
                     ELSE Junk]

\* Mutant: the sector that ends at the address.
SectorBefore(first) == first - SectorSize .. first - 1

SectorAt(first) == first .. first + SectorSize - 1

ErasedSector(first) ==
    [c \in Cells |-> IF c \in SectorAt(first) THEN Erased ELSE flash[c]]

\* Mutant: no sector is erased ahead.
NeverSectorStart(address) == address # address

IsSectorStart(address) == (address % SectorSize) = 0

ChunkSize(address, remaining) ==
    LET page == PageSize - (address % PageSize)
        most == IF page < PageSize THEN page ELSE PageSize - 1
    IN  IF remaining < most THEN remaining ELSE most

-----------------------------------------------------------------------------
(* log_controller.c. *)

\* The area just after a format: other sectors keep whatever they held.
Init ==
    /\ \E used \in SUBSET (1 .. NumSectors) :
          flash = [c \in Cells |->
                      IF c \in Neighbour THEN Foreign
                      ELSE IF (c \div SectorSize) \in used THEN Junk ELSE Erased]
    /\ header = [id \in LogIDs |-> Erased]
    /\ ctx = NoContext
    /\ session = "none"
    /\ op = Idle

IsClosed(id) == header[id] \in Headers

\* A log starts where the one before it ends.
StartOf(id) ==
    IF id = 0 THEN 0 ELSE header[id - 1].start + header[id - 1].size

\* Mutants: the three parts of a new log that its ASSERTs, its start address
\* and its size are about.
createAnyLog(id) ==
    /\ session = "none" /\ op = Idle
    /\ id > 0 => IsClosed(id - 1)
    /\ ctx' = [log |-> id, start |-> StartOf(id),
               size |-> AreaEnd - StartOf(id), wpos |-> 0]
    /\ session' = "open"
    /\ UNCHANGED <<flash, header, op>>

createLogOverlapping(id) ==
    /\ session = "none" /\ op = Idle
    /\ header[id] = Erased
    /\ id > 0 => IsClosed(id - 1)
    /\ LET start == IF id = 0 THEN 0 ELSE header[id - 1].size
       IN  ctx' = [log |-> id, start |-> start, size |-> AreaEnd - start, wpos |-> 0]
    /\ session' = "open"
    /\ UNCHANGED <<flash, header, op>>

createLogOversized(id) ==
    /\ session = "none" /\ op = Idle
    /\ header[id] = Erased
    /\ id > 0 => IsClosed(id - 1)
    /\ ctx' = [log |-> id, start |-> StartOf(id), size |-> AreaEnd, wpos |-> 0]
    /\ session' = "open"
    /\ UNCHANGED <<flash, header, op>>

createLog(id) ==
    /\ session = "none" /\ op = Idle
    /\ header[id] = Erased
    /\ id > 0 => IsClosed(id - 1)
    /\ ctx' = [log |-> id, start |-> StartOf(id),
               size |-> AreaEnd - StartOf(id), wpos |-> 0]
    /\ session' = "open"
    /\ UNCHANGED <<flash, header, op>>

\* Mutant: a buffer is not refused.
writeLogUnchecked(length) ==
    /\ session = "open" /\ op = Idle
    /\ op' = [pc |-> "program", at |-> ctx.start + ctx.wpos, left |-> length]
    /\ UNCHANGED <<flash, header, ctx, session>>

\* writeLog refuses a buffer that does not fit; otherwise it enters writeFlash.
writeLog(length) ==
    /\ session = "open" /\ op = Idle
    /\ ctx.wpos + length <= ctx.size
    /\ op' = [pc |-> "program", at |-> ctx.start + ctx.wpos, left |-> length]
    /\ UNCHANGED <<flash, header, ctx, session>>

\* Mutant: writePosition counts from the start of the area.
ContinueFromArea(next, remaining) ==
    IF remaining = 0
    THEN /\ op' = Idle
         /\ ctx' = [ctx EXCEPT !.wpos = next]
    ELSE /\ op' = [pc |-> "program", at |-> next, left |-> remaining]
         /\ UNCHANGED ctx

\* writePosition advances once writeFlash has returned.
Continue(next, remaining) ==
    IF remaining = 0
    THEN /\ op' = Idle
         /\ ctx' = [ctx EXCEPT !.wpos = next - ctx.start]
    ELSE /\ op' = [pc |-> "program", at |-> next, left |-> remaining]
         /\ UNCHANGED ctx

\* One turn of the do-while of writeFlash, up to its erase.
programChunk ==
    /\ op.pc = "program"
    /\ LET count == ChunkSize(op.at, op.left)
           next  == op.at + count
       IN  /\ flash' = Programmed(op.at, count)
           /\ IF IsSectorStart(next)
              THEN /\ op' = [pc |-> "erase", at |-> next,
                             left |-> op.left - count]
                   /\ UNCHANGED ctx
              ELSE Continue(next, op.left - count)
    /\ UNCHANGED <<header, session>>

\* The write has reached the first byte of a sector: erase4kSector.
eraseAhead ==
    /\ op.pc = "erase"
    /\ flash' = ErasedSector(op.at)
    /\ Continue(op.at, op.left)
    /\ UNCHANGED <<header, session>>

\* closeLog hands the header, with its final size, to writeFlash ...
closeLog ==
    /\ session = "open" /\ op = Idle
    /\ op' = [Idle EXCEPT !.pc = "header"]
    /\ UNCHANGED <<flash, header, ctx, session>>

\* ... which would erase the first data sector after the last slot.
writeHeader ==
    /\ op.pc = "header"
    /\ header' = [header EXCEPT ![ctx.log] =
                     IF @ = Erased THEN [start |-> ctx.start, size |-> ctx.wpos]
                     ELSE Junk]
    /\ flash' = IF ctx.log + 1 = HeaderSlots THEN ErasedSector(0) ELSE flash
    /\ session' = "none"
    /\ op' = Idle
    /\ UNCHANGED ctx

\* formatLog, which may also be called while a log is open: the format
\* command stops the sensors without closing their logs.
formatLog ==
    /\ op = Idle
    /\ op' = [Idle EXCEPT !.pc = "formatHeader"]
    /\ session' = "formatting"
    /\ UNCHANGED <<flash, header, ctx>>

\* What the erased headers pointed at is old data from here on.
formatHeader ==
    /\ op.pc = "formatHeader"
    /\ header' = [id \in LogIDs |-> Erased]
    /\ flash' = [c \in Cells |-> IF flash[c] \in Samples THEN Junk ELSE flash[c]]
    /\ op' = [Idle EXCEPT !.pc = "formatData"]
    /\ UNCHANGED <<ctx, session>>

formatData ==
    /\ op.pc = "formatData"
    /\ flash' = ErasedSector(0)
    /\ session' = "none"
    /\ op' = Idle
    /\ UNCHANGED <<header, ctx>>

-----------------------------------------------------------------------------
(* Power loss or reset, between flash operations or inside one.  The RAM   *)
(* context is lost; the cells being programmed or erased are left in any   *)
(* state.                                                                  *)

Endangered ==
    CASE op.pc = "program"      -> op.at .. op.at + ChunkSize(op.at, op.left) - 1
      [] op.pc = "erase"        -> SectorAt(op.at)
      [] op.pc = "formatData"   -> SectorAt(0)
      [] OTHER                  -> {}

powerCut ==
    /\ \E torn \in SUBSET Endangered :
          flash' = [c \in Cells |-> IF c \in torn THEN Junk ELSE flash[c]]
    /\ \/ UNCHANGED header
       \/ op.pc = "header" /\ header' = [header EXCEPT ![ctx.log] = Junk]
       \/ op.pc = "formatHeader"
          /\ \E torn \in SUBSET LogIDs :
                header' = [id \in LogIDs |-> IF id \in torn THEN Junk
                                             ELSE header[id]]
    /\ session' = IF session = "open" THEN "broken" ELSE session
    /\ ctx' = NoContext
    /\ op' = Idle

Next ==
    \/ \E id \in LogIDs : createLog(id)
    \/ \E length \in Lengths : writeLog(length)
    \/ programChunk
    \/ eraseAhead
    \/ closeLog
    \/ writeHeader
    \/ formatLog
    \/ formatHeader
    \/ formatData
    \/ powerCut

Spec == Init /\ [][Next]_vars

-----------------------------------------------------------------------------
(* What the rest of the firmware relies on. *)

Holds(id, start, count) ==
    \A p \in 0 .. count - 1 : flash[start + p] = <<id, p>>

\* Every closed log reads back, byte for byte, what was written to it: no
\* later write, erase-ahead, close, refused write, or power cut inside any
\* of them reaches a log that has a header (readLog, log_controller.c:103).
ClosedLogsIntact ==
    \A id \in LogIDs : IsClosed(id) =>
        Holds(id, header[id].start, header[id].size)

\* A log can be read while it is written: readLog serves a writing context
\* up to writePosition (log_controller.c:108), and those bytes are already
\* in place even when a later chunk is still being programmed.
OpenLogReadable ==
    session = "open" => Holds(ctx.log, ctx.start, ctx.wpos)

\* The logs of an area tile it from its first data sector without gaps or
\* overlaps and end inside it, as createLog, readSampleCount and IsDataFull
\* compute from the last header alone.
LogsTile ==
    \A id \in LogIDs : IsClosed(id) =>
        /\ header[id].start + header[id].size <= AreaEnd
        /\ session # "formatting" =>
              /\ id > 0 => IsClosed(id - 1)
              /\ header[id].start = StartOf(id)

\* The erase that follows a write to the very end of an area stays in the
\* gap sector; the next sensor's headers survive
\* (senstick_flash_address_definition.h:9-11).
NeighbourUntouched ==
    \A c \in Neighbour : flash[c] = Foreign

\* writeFlash never programs a cell that is not erased, although only the
\* first data sector was erased beforehand
\* (senstick_flash_address_definition.h:9).
ProgramsErasedCellsOnly ==
    [][programChunk =>
         \A c \in op.at .. op.at + ChunkSize(op.at, op.left) - 1 :
            flash[c] = Erased]_vars

\* Once closed, a log's header stays as it is until the area is formatted.
HeadersAreFinal ==
    [][\A id \in LogIDs :
         (IsClosed(id) /\ op.pc # "formatHeader") => header'[id] = header[id]]_vars
=============================================================================
