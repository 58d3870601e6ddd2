--------------------------- MODULE LogStoreProofs ---------------------------
(***************************************************************************)
(* LogStore's invariants, proved for every sector, page and area size.     *)
(*                                                                         *)
(* The first lemmas are arithmetic: where an address lies in its sector,   *)
(* and that a page program never leaves the sector.  One lemma per action  *)
(* then shows that the action preserves IInv.                              *)
(***************************************************************************)
EXTENDS LogStore, TLAPS

-----------------------------------------------------------------------------
(* The inductive invariant. *)

\* Where the next byte of the open log goes.
Cursor ==
    IF op.pc \in {"program", "erase"} THEN op.at ELSE ctx.start + ctx.wpos

\* The rest of the sector that an address lies in is erased.
ErasedFrom(address) ==
    \A c \in Cells :
        (address <= c /\ c < address + SectorSize - (address % SectorSize))
            => flash[c] = Erased

\* The state of the operation, and of the headers, agrees with the session.
OperationFits ==
    /\ op.pc \in {"program", "erase", "header"} => session = "open"
    /\ op.pc \in {"formatHeader", "formatData"} => session = "formatting"
    /\ op.pc \in {"idle", "header"} => op = [Idle EXCEPT !.pc = op.pc]
    /\ op.pc = "formatData" => \A id \in LogIDs : header[id] = Erased
    /\ session = "none" => \A id \in LogIDs : header[id] # Junk

\* Closed logs precede one another in the order of their IDs.
LogsOrdered ==
    session # "formatting" =>
        \A i, j \in LogIDs : (i < j /\ IsClosed(j)) =>
            /\ IsClosed(i)
            /\ header[i].start + header[i].size <= header[j].start

\* The open log follows every closed one and ends inside the area.
OpenLogLast ==
    session = "open" =>
        /\ ctx.log \in LogIDs
        /\ \A id \in LogIDs :
              IF id < ctx.log
              THEN IsClosed(id) /\ header[id].start + header[id].size <= ctx.start
              ELSE header[id] = Erased
        /\ ctx.start = StartOf(ctx.log)
        /\ ctx.start + ctx.size = AreaEnd
        /\ ctx.start + ctx.wpos <= Cursor
        /\ Cursor + op.left <= AreaEnd
        /\ Holds(ctx.log, ctx.start, Cursor - ctx.start)
        /\ IF op.pc = "erase" THEN IsSectorStart(op.at) ELSE ErasedFrom(Cursor)
        /\ op.pc = "program" => op.left > 0

\* Wherever the next log may start, its sector is erased from there on.
ErasedAhead ==
    session = "none" =>
        \A id \in LogIDs :
            (header[id] = Erased /\ (id > 0 => IsClosed(id - 1)))
                => ErasedFrom(StartOf(id))

IInv ==
    /\ TypeOK
    /\ OperationFits
    /\ NeighbourUntouched
    /\ LogsTile
    /\ LogsOrdered
    /\ ClosedLogsIntact
    /\ OpenLogLast
    /\ ErasedAhead

-----------------------------------------------------------------------------
(* Arithmetic of sectors and pages. *)

\* A multiple of S that lies strictly between -S and S is zero.
LEMMA SmallMultiple ==
    ASSUME NEW S \in Nat, S > 0, NEW q \in Int, -S < S * q, S * q < S
    PROVE  q = 0
<1>1. CASE q > 0
  <2>1. S * q >= S  BY <1>1
  <2> QED  BY <2>1
<1>2. CASE q < 0
  <2>1. S * q <= -S  BY <1>2
  <2> QED  BY <2>1
<1> QED  BY <1>1, <1>2

\* Quotient and remainder.
LEMMA DivMod ==
    ASSUME NEW S \in Nat, S > 0, NEW a \in Nat
    PROVE  /\ a \div S \in Nat
           /\ a % S \in 0 .. S - 1
           /\ a = S * (a \div S) + (a % S)
  OBVIOUS

\* The remainder is determined by any decomposition of the address.
LEMMA ModUnique ==
    ASSUME NEW S \in Nat, S > 0, NEW a \in Nat,
           NEW q \in Int, NEW r \in 0 .. S - 1, a = S * q + r
    PROVE  a % S = r /\ a \div S = q
<1> DEFINE p == a \div S
           m == a % S
<1>1. p \in Int /\ m \in 0 .. S - 1 /\ a = S * p + m  BY DivMod
<1> HIDE DEF p, m
<1>2. S * (p - q) = r - m  BY <1>1
<1>3. p - q = 0  BY <1>1, <1>2, SmallMultiple
<1>4. p = q  BY <1>1, <1>3
<1>5. m = r  BY <1>1, <1>4
<1> QED  BY <1>4, <1>5 DEF p, m

\* Advancing inside a sector, and to its end.
LEMMA Advance ==
    ASSUME NEW S \in Nat, S > 0, NEW a \in Nat, NEW n \in 0 .. S - (a % S)
    PROVE  (a + n) % S = IF n = S - (a % S) THEN 0 ELSE (a % S) + n
<1> DEFINE q == a \div S
           r == a % S
<1>1. q \in Nat /\ r \in 0 .. S - 1 /\ a = S * q + r  BY DivMod
<1> HIDE DEF q, r
<1>2. CASE n = S - r
  <2>1. a + n = S * (q + 1) + 0
    <3>1. \A w \in Int : a = w + r => a + n = w + S  BY <1>1, <1>2
    <3>2. S * q \in Int /\ S * (q + 1) = S * q + S  BY <1>1
    <3> QED  BY <1>1, <3>1, <3>2
  <2>2. (a + n) % S = 0
    <3> DEFINE b == a + n
    <3>1. b = S * (q + 1) + 0 /\ b \in Nat /\ q + 1 \in Int /\ 0 \in 0 .. S - 1
      BY <1>1, <2>1
    <3> HIDE DEF b
    <3>2. b % S = 0  BY <3>1, ModUnique
    <3> QED  BY <3>2 DEF b
  <2> QED  BY <1>2, <2>2 DEF r
<1>3. CASE n # S - r
  <2>1. a + n = S * q + (r + n)
    <3>1. \A w \in Int : a = w + r => a + n = w + (r + n)  BY <1>1
    <3>2. S * q \in Int  BY <1>1
    <3> QED  BY <1>1, <3>1, <3>2
  <2>2. r + n \in 0 .. S - 1  BY <1>1, <1>3 DEF r
  <2>3. (a + n) % S = r + n  BY <1>1, <2>1, <2>2, ModUnique
  <2> QED  BY <1>3, <2>3 DEF r
<1> QED  BY <1>2, <1>3

\* A page ends no later than the sector it is part of.
LEMMA PageInSector ==
    ASSUME NEW P \in Nat, P > 0, NEW S \in Nat, S > 0, NEW a \in Nat,
           NEW k \in Nat, S = k * P
    PROVE  P - (a % P) <= S - (a % S)
<1> DEFINE q == a \div S
           r == a % S
           x == r \div P
           y == r % P
<1>2. q \in Nat /\ r \in 0 .. S - 1 /\ a = S * q + r  BY DivMod
<1>3. x \in Nat /\ y \in 0 .. P - 1 /\ r = P * x + y
  <2>1. r \in Nat  BY <1>2
  <2> HIDE DEF r
  <2> QED  BY <2>1, DivMod
<1>4. a % P = y
  <2>1. a = P * (k * q + x) + y
    <3> HIDE DEF q, r, x, y
    <3> QED  BY <1>2, <1>3
  <2>2. k * q + x \in Int  BY <1>2, <1>3
  <2> HIDE DEF q, r, x, y
  <2> QED  BY <1>3, <2>1, <2>2, ModUnique
<1>5. x + 1 <= k
  <2> HIDE DEF q, r, x, y
  <2>1. P * x < P * k  BY <1>2, <1>3
  <2>2. x < k  BY <1>3, <2>1
  <2> QED  BY <1>3, <2>2
<1>6. P * x + P <= S
  <2> HIDE DEF q, r, x, y
  <2>1. P * (x + 1) <= P * k  BY <1>3, <1>5
  <2> QED  BY <1>3, <2>1
<1>7. P - y <= S - r
  <2> HIDE DEF q, r, x, y
  <2> QED  BY <1>2, <1>3, <1>6
<1> QED  BY <1>4, <1>7

\* The sizes as they are used below.
LEMMA Sizes ==
    /\ SectorSize \in Nat /\ SectorSize > 0
    /\ PageSize \in Nat /\ PageSize > 1
    /\ NumSectors \in Nat /\ NumSectors > 0
    /\ AreaEnd \in Nat /\ SectorSize <= AreaEnd
    /\ FlashEnd = AreaEnd + 2 * SectorSize
<1>1. SectorSize \in Nat /\ SectorSize > 0 /\ NumSectors \in Nat
      /\ NumSectors > 0 /\ PageSize \in Nat /\ PageSize > 1
  BY SizeAssumption
<1>2. AreaEnd \in Nat  BY <1>1 DEF AreaEnd
<1>3. SectorSize <= AreaEnd  BY <1>1 DEF AreaEnd
<1> QED  BY <1>1, <1>2, <1>3 DEF FlashEnd

\* A page program is not empty, and ends inside the write and the sector.
LEMMA Chunk ==
    ASSUME NEW a \in Nat, NEW left \in Nat, left > 0
    PROVE  /\ ChunkSize(a, left) \in 1 .. left
           /\ ChunkSize(a, left) <= SectorSize - (a % SectorSize)
<1>1. a % PageSize \in 0 .. PageSize - 1  BY Sizes, DivMod
<1>2. ChunkSize(a, left) \in 1 .. left
      /\ ChunkSize(a, left) <= PageSize - (a % PageSize)
  BY <1>1, Sizes DEF ChunkSize
<1>3. PageSize - (a % PageSize) <= SectorSize - (a % SectorSize)
  <2>1. PICK k \in 1 .. SectorSize : SectorSize = k * PageSize
    BY SizeAssumption
  <2>2. k \in Nat /\ k > 0  BY Sizes
  <2>3. PageSize \in Nat /\ PageSize > 0  BY Sizes
  <2>4. SectorSize \in Nat /\ SectorSize > 0  BY Sizes
  <2> QED  BY <2>1, <2>2, <2>3, <2>4, PageInSector, Zenon
<1>4. a % SectorSize \in 0 .. SectorSize - 1  BY Sizes, DivMod
<1> QED  BY <1>1, <1>2, <1>3, <1>4, Sizes

-----------------------------------------------------------------------------
(* Each action preserves IInv. *)

\* Log IDs are numbers.
LEMMA Ids == LogIDs \subseteq Nat
BY SizeAssumption DEF LogIDs

\* createLog places the new log after the last one, in erased cells.
LEMMA CreateKeepsIInv ==
    ASSUME IInv, NEW id \in LogIDs, createLog(id)
    PROVE  IInv'
<1> USE Sizes, Ids DEF IInv
<1>1. /\ session = "none" /\ session' = "open" /\ op = Idle /\ op' = Idle
      /\ header[id] = Erased /\ (id > 0 => IsClosed(id - 1))
      /\ UNCHANGED <<flash, header>>
  BY DEF createLog
<1>2. StartOf(id) \in 0 .. AreaEnd
  <2>1. CASE id = 0  BY <2>1 DEF StartOf
  <2>2. CASE id > 0
    <3>1. id - 1 \in LogIDs  BY <2>2, SizeAssumption DEF LogIDs
    <3> QED  BY <1>1, <2>2, <3>1 DEF StartOf, LogsTile, IsClosed, Headers
  <2> QED  BY <2>1, <2>2
<1>3. ctx' = [log |-> id, start |-> StartOf(id), size |-> AreaEnd - StartOf(id),
              wpos |-> 0]
  BY DEF createLog
<1>4. TypeOK'  BY <1>1, <1>2, <1>3 DEF TypeOK
<1>5. OperationFits'  BY <1>1 DEF OperationFits, Idle
<1>6. NeighbourUntouched' /\ LogsTile' /\ LogsOrdered' /\ ClosedLogsIntact'
  BY <1>1 DEF NeighbourUntouched, LogsTile, LogsOrdered, ClosedLogsIntact,
              IsClosed, StartOf, Holds
<1>7. OpenLogLast'
  <2>1. Cursor' = StartOf(id)  BY <1>1, <1>2, <1>3 DEF Cursor, Idle
  <2>2. ErasedFrom(StartOf(id))  BY <1>1 DEF ErasedAhead
  <2>3. ASSUME NEW j \in LogIDs, j < id
        PROVE  IsClosed(j) /\ header[j].start + header[j].size <= StartOf(id)
    <3>1. id - 1 \in LogIDs /\ IsClosed(id - 1)
      BY <1>1, <2>3, SizeAssumption DEF LogIDs
    <3>2. StartOf(id) = header[id - 1].start + header[id - 1].size
      BY <2>3 DEF StartOf
    <3>3. CASE j = id - 1  BY <3>1, <3>2, <3>3 DEF IsClosed, Headers
    <3>4. CASE j < id - 1
      BY <1>1, <3>1, <3>2, <3>4, SizeAssumption
         DEF LogsOrdered, IsClosed, Headers, LogIDs
    <3> QED  BY <2>3, <3>3, <3>4
  <2>4. ASSUME NEW j \in LogIDs, ~(j < id)
        PROVE  header[j] = Erased
    <3>1. CASE j = id  BY <1>1, <3>1
    <3>2. CASE id < j
      <4>1. ~IsClosed(j)  
        BY <1>1, <3>2, MarkAssumption DEF LogsOrdered, IsClosed
      <4> QED  BY <1>1, <4>1 DEF TypeOK, OperationFits, IsClosed
    <3> QED  BY <2>4, <3>1, <3>2
  <2> QED
    BY <1>1, <1>2, <1>3, <2>1, <2>2, <2>3, <2>4
       DEF OpenLogLast, Idle, IsClosed, StartOf, Holds, ErasedFrom
<1>8. ErasedAhead'  BY <1>1 DEF ErasedAhead
<1> QED  BY <1>4, <1>5, <1>6, <1>7, <1>8

\* writeLog accepts only what fits, and enters the loop of writeFlash.
LEMMA WriteKeepsIInv ==
    ASSUME IInv, NEW length \in Lengths, writeLog(length)
    PROVE  IInv'
<1> USE Sizes, Ids DEF IInv
<1>1. /\ session = "open" /\ op = Idle /\ ctx.wpos + length <= ctx.size
      /\ op' = [pc |-> "program", at |-> ctx.start + ctx.wpos, left |-> length]
      /\ UNCHANGED <<flash, header, ctx, session>>
  BY DEF writeLog
<1>2. /\ ctx.start \in 0 .. AreaEnd /\ ctx.wpos \in 0 .. AreaEnd
      /\ ctx.size \in 0 .. AreaEnd /\ ctx.start + ctx.size = AreaEnd
      /\ length \in 1 .. MaxLength
  BY <1>1 DEF TypeOK, OpenLogLast, Lengths
<1>3. TypeOK'  BY <1>1, <1>2, SizeAssumption DEF TypeOK
<1>4. OperationFits'  BY <1>1 DEF OperationFits
<1>5. NeighbourUntouched' /\ LogsTile' /\ LogsOrdered' /\ ClosedLogsIntact'
  BY <1>1 DEF NeighbourUntouched, LogsTile, LogsOrdered, ClosedLogsIntact,
              IsClosed, StartOf, Holds
<1>6. OpenLogLast'
  <2>1. Cursor = ctx.start + ctx.wpos /\ Cursor' = ctx.start + ctx.wpos
    BY <1>1 DEF Cursor, Idle
  <2>2. /\ ctx'.log \in LogIDs
        /\ \A id \in LogIDs :
              IF id < ctx'.log
              THEN IsClosed(id)' /\ header'[id].start + header'[id].size <= ctx'.start
              ELSE header'[id] = Erased
        /\ ctx'.start = StartOf(ctx.log)' /\ ctx'.start + ctx'.size = AreaEnd
    BY <1>1 DEF OpenLogLast, IsClosed, StartOf
  <2>3. Holds(ctx.log, ctx.start, Cursor - ctx.start)'
    BY <1>1, <2>1 DEF OpenLogLast, Holds
  <2>4. ErasedFrom(Cursor)'
    BY <1>1, <2>1 DEF OpenLogLast, ErasedFrom, Idle
  <2>5. ctx'.start + ctx'.wpos <= Cursor'  BY <1>1, <1>2, <2>1
  <2>6. Cursor' + op'.left <= AreaEnd  BY <1>1, <1>2, <2>1
  <2>7. op'.pc = "program" /\ op'.left > 0  BY <1>1, <1>2
  <2> QED
    BY <2>2, <2>3, <2>4, <2>5, <2>6, <2>7 DEF OpenLogLast
<1>7. ErasedAhead'  BY <1>1 DEF ErasedAhead
<1> QED  BY <1>3, <1>4, <1>5, <1>6, <1>7

\* What both halves of writeFlash have in common: a step that changes flash
\* only at or after the cursor, and outside the next area, leaves the closed
\* logs and the neighbour alone.
LEMMA BehindCursor ==
    ASSUME IInv, session = "open", header' = header, session' = session,
           NEW a \in Nat, \A i \in LogIDs : i < ctx.log =>
                              header[i].start + header[i].size <= a,
           flash' \in [Cells -> Samples \cup {Erased, Junk, Foreign}],
           \A c \in Cells : (c < a \/ c \in Neighbour) => flash'[c] = flash[c]
    PROVE  /\ NeighbourUntouched' /\ ClosedLogsIntact'
           /\ LogsTile' /\ LogsOrdered' /\ ErasedAhead'
<1> USE Sizes, Ids DEF IInv
<1>1. NeighbourUntouched'
  BY DEF NeighbourUntouched, Neighbour, Cells
<1>2. LogsTile' /\ LogsOrdered' /\ ErasedAhead'
  BY DEF LogsTile, LogsOrdered, ErasedAhead, IsClosed, StartOf
<1>3. ClosedLogsIntact'
  <2> SUFFICES ASSUME NEW i \in LogIDs, IsClosed(i),
                      NEW p \in 0 .. header[i].size - 1
               PROVE  flash'[header[i].start + p] = <<i, p>>
    BY DEF ClosedLogsIntact, IsClosed, Holds
  <2>1. i < ctx.log
    BY MarkAssumption DEF OpenLogLast, IsClosed
  <2>2. header[i].start \in 0 .. AreaEnd /\ header[i].size \in 0 .. AreaEnd
    BY DEF IsClosed, Headers
  <2>3. header[i].start + header[i].size <= AreaEnd
    BY DEF LogsTile
  <2>4. header[i].start + header[i].size <= a
    BY <2>1
  <2>5. header[i].start + p \in Cells
    BY <2>2, <2>3 DEF Cells
  <2>6. header[i].start + p < a
    BY <2>2, <2>4
  <2>7. flash[header[i].start + p] = <<i, p>>
    BY DEF ClosedLogsIntact, Holds
  <2> QED  BY <2>5, <2>6, <2>7
<1> QED  BY <1>1, <1>2, <1>3

\* What is known of the write in progress.
LEMMA OpenFacts ==
    ASSUME IInv, session = "open"
    PROVE  /\ ctx.log \in LogIDs
           /\ ctx.start \in 0 .. AreaEnd /\ ctx.size \in 0 .. AreaEnd
           /\ ctx.wpos \in 0 .. AreaEnd
           /\ op.at \in 0 .. AreaEnd /\ op.left \in 0 .. MaxLength
           /\ Cursor \in Nat /\ Cursor + op.left <= AreaEnd
           /\ ctx.start + ctx.wpos <= Cursor
           /\ \A i \in LogIDs : i < ctx.log =>
                 header[i].start + header[i].size <= ctx.start
           /\ \A i \in LogIDs : i < ctx.log <=> IsClosed(i)
           /\ \A i \in LogIDs : i < ctx.log =>
                 header[i].start + header[i].size \in Nat
<1> USE Sizes, Ids DEF IInv
<1>1. /\ ctx.log \in LogIDs
      /\ ctx.start + ctx.wpos <= Cursor /\ Cursor + op.left <= AreaEnd
      /\ \A i \in LogIDs :
            IF i < ctx.log
            THEN IsClosed(i) /\ header[i].start + header[i].size <= ctx.start
            ELSE header[i] = Erased
  BY DEF OpenLogLast
<1>2. /\ ctx.start \in 0 .. AreaEnd /\ ctx.size \in 0 .. AreaEnd
      /\ ctx.wpos \in 0 .. AreaEnd
      /\ op.at \in 0 .. AreaEnd /\ op.left \in 0 .. MaxLength
  BY DEF TypeOK
<1>3. Cursor \in Nat  BY <1>2 DEF Cursor
<1>4. \A i \in LogIDs : i < ctx.log <=> IsClosed(i)
  BY <1>1, MarkAssumption DEF IsClosed
<1>5. \A i \in LogIDs : i < ctx.log => header[i].start + header[i].size \in Nat
  BY <1>4 DEF IsClosed, Headers
<1> QED  BY <1>1, <1>2, <1>3, <1>4, <1>5

\* The end of a turn of writeFlash's loop: the cells up to next are written.
LEMMA ContinueKeepsOpenLog ==
    ASSUME IInv, session = "open", session' = session, header' = header,
           NEW next \in Nat, NEW remaining \in 0 .. MaxLength,
           next + remaining <= AreaEnd, ctx.start + ctx.wpos <= next,
           Holds(ctx.log, ctx.start, next - ctx.start)',
           ErasedFrom(next)',
           Continue(next, remaining),
           flash' \in [Cells -> Samples \cup {Erased, Junk, Foreign}],
           ctx'.log = ctx.log, ctx'.start = ctx.start, ctx'.size = ctx.size
    PROVE  TypeOK' /\ OperationFits' /\ OpenLogLast'
<1> USE Sizes, Ids, OpenFacts, SizeAssumption
<1>1. /\ ctx'.log \in LogIDs
      /\ \A id \in LogIDs :
            IF id < ctx'.log
            THEN IsClosed(id)' /\ header'[id].start + header'[id].size <= ctx'.start
            ELSE header'[id] = Erased
      /\ ctx'.start = StartOf(ctx.log)' /\ ctx'.start + ctx'.size = AreaEnd
  BY DEF IInv, OpenLogLast, IsClosed, StartOf
<1>2. ASSUME Cursor' = next, op'.left = remaining, op'.pc \in {"idle", "program"},
             op'.pc = "program" => remaining > 0,
             ctx'.start + ctx'.wpos <= next
      PROVE  OpenLogLast'
  <2>1. Holds(ctx.log, ctx.start, Cursor - ctx.start)'
    BY <1>2 DEF Holds
  <2>2. ErasedFrom(Cursor)'  BY <1>2 DEF ErasedFrom
  <2> QED  BY <1>1, <1>2, <2>1, <2>2 DEF OpenLogLast
<1>3. CASE remaining = 0
  <2>1. op' = Idle /\ ctx' = [ctx EXCEPT !.wpos = next - ctx.start]
    BY <1>3 DEF Continue
  <2>2. ctx'.wpos = next - ctx.start  BY <2>1 DEF IInv, TypeOK
  <2>3. Cursor' = next  BY <2>1, <2>2 DEF Cursor, Idle
  <2>4. TypeOK'  BY <1>3, <2>1 DEF IInv, TypeOK, Idle
  <2>5. OperationFits'  BY <2>1 DEF OperationFits, Idle
  <2>6. OpenLogLast'  BY <1>2, <1>3, <2>1, <2>2, <2>3 DEF Idle
  <2> QED  BY <2>4, <2>5, <2>6
<1>4. CASE remaining # 0
  <2>1. op' = [pc |-> "program", at |-> next, left |-> remaining]
        /\ ctx' = ctx
    BY <1>4 DEF Continue
  <2>2. Cursor' = next  BY <2>1 DEF Cursor
  <2>3. TypeOK'  BY <2>1 DEF IInv, TypeOK
  <2>4. OperationFits'  BY <2>1 DEF OperationFits
  <2>5. OpenLogLast'  BY <1>2, <1>4, <2>1, <2>2
  <2> QED  BY <2>3, <2>4, <2>5
<1> QED  BY <1>3, <1>4

\* The erase starts at the cursor: everything written lies behind it.
LEMMA EraseAheadKeepsIInv ==
    ASSUME IInv, eraseAhead
    PROVE  IInv'
<1> USE Sizes, Ids
<1>1. /\ session = "open" /\ op.pc = "erase" /\ header' = header
      /\ session' = session /\ flash' = ErasedSector(op.at)
      /\ Continue(op.at, op.left)
  BY DEF eraseAhead, IInv, OperationFits
<1>2. PICK next \in Nat : next = op.at  BY <1>1, OpenFacts
<1>3. /\ op.left \in 0 .. MaxLength /\ next + op.left <= AreaEnd
      /\ ctx.start + ctx.wpos <= next
      /\ next % SectorSize = 0
      /\ Holds(ctx.log, ctx.start, next - ctx.start)
      /\ ctx.start \in 0 .. AreaEnd /\ ctx.wpos \in 0 .. AreaEnd
  BY <1>1, <1>2, OpenFacts DEF IInv, OpenLogLast, Cursor, IsSectorStart
<1>4. flash' \in [Cells -> Samples \cup {Erased, Junk, Foreign}]
  BY <1>1 DEF ErasedSector, IInv, TypeOK
<1>5. \A c \in Cells : (c < next \/ c \in Neighbour) => flash'[c] = flash[c]
  BY <1>1, <1>2, <1>3 DEF ErasedSector, SectorAt, Neighbour, Cells
<1>6. ErasedFrom(next)'
  BY <1>1, <1>2, <1>3 DEF ErasedFrom, ErasedSector, SectorAt, Cells
<1>7. ctx'.log = ctx.log /\ ctx'.start = ctx.start /\ ctx'.size = ctx.size
  BY <1>1 DEF Continue, IInv, TypeOK
<1>8. Holds(ctx.log, ctx.start, next - ctx.start)'
  <2> SUFFICES ASSUME NEW p \in 0 .. next - ctx.start - 1
               PROVE  flash'[ctx.start + p] = <<ctx.log, p>>
    BY <1>7 DEF Holds
  <2>1. ctx.start + p \in Cells /\ ctx.start + p < next
    BY <1>3 DEF Cells
  <2>2. flash[ctx.start + p] = <<ctx.log, p>>  BY <1>3 DEF Holds
  <2> QED  BY <1>5, <2>1, <2>2
<1>9. TypeOK' /\ OperationFits' /\ OpenLogLast'
  <2>1. Continue(next, op.left)  BY <1>1, <1>2
  <2>2. PICK left \in 0 .. MaxLength : left = op.left  BY <1>3
  <2>3. Continue(next, left) /\ next + left <= AreaEnd  BY <1>3, <2>1, <2>2
  <2> QED
    BY <1>1, <1>3, <1>4, <1>6, <1>7, <1>8, <2>3, ContinueKeepsOpenLog
<1>10. \A i \in LogIDs : i < ctx.log =>
          header[i].start + header[i].size <= next
  BY <1>1, <1>3, OpenFacts
<1>11. /\ NeighbourUntouched' /\ ClosedLogsIntact'
       /\ LogsTile' /\ LogsOrdered' /\ ErasedAhead'
  BY <1>1, <1>4, <1>5, <1>10, BehindCursor
<1> QED  BY <1>9, <1>11 DEF IInv

\* A page program fills erased cells up to the end of the sector at most.
LEMMA ProgramKeepsIInv ==
    ASSUME IInv, programChunk
    PROVE  IInv'
<1> USE Sizes, Ids
<1>1. /\ session = "open" /\ op.pc = "program" /\ header' = header
      /\ session' = session /\ op.left > 0
  BY DEF programChunk, IInv, OperationFits, OpenLogLast
<1>2. PICK at \in Nat : at = op.at  BY <1>1, OpenFacts
<1>3. PICK left \in 1 .. MaxLength : left = op.left
  BY <1>1, OpenFacts, SizeAssumption
<1>4. /\ at + left <= AreaEnd /\ ctx.start + ctx.wpos <= at
      /\ ctx.start \in 0 .. AreaEnd /\ ctx.wpos \in 0 .. AreaEnd
      /\ ctx.log \in LogIDs
      /\ Holds(ctx.log, ctx.start, at - ctx.start)
      /\ ErasedFrom(at)
  BY <1>1, <1>2, <1>3, OpenFacts DEF IInv, OpenLogLast, Cursor
<1>5. PICK count \in 1 .. left :
         /\ count = ChunkSize(at, left)
         /\ count <= SectorSize - (at % SectorSize)
  BY Chunk, SizeAssumption
<1>6. PICK next \in Nat : next = at + count  BY SizeAssumption
<1>7. PICK remaining \in 0 .. MaxLength : remaining = left - count
  BY SizeAssumption
<1>8. next + remaining <= AreaEnd /\ at < next
  BY <1>4, <1>6, <1>7, SizeAssumption
<1>9. flash' = Programmed(at, count)
  BY <1>2, <1>3, <1>5 DEF programChunk
<1>10. \A c \in Cells : (at <= c /\ c < next) => flash[c] = Erased
  BY <1>4, <1>5, <1>6, DivMod DEF ErasedFrom, Cells
<1>11. \A c \in Cells :
          flash'[c] = IF at <= c /\ c < next
                      THEN <<ctx.log, c - ctx.start>> ELSE flash[c]
  <2> SUFFICES ASSUME NEW c \in Cells
               PROVE  flash'[c] = IF at <= c /\ c < next
                      THEN <<ctx.log, c - ctx.start>> ELSE flash[c]
    OBVIOUS
  <2>1. c \in at .. at + count - 1 <=> (at <= c /\ c < next)
    BY <1>6 DEF Cells
  <2>2. flash'[c] = IF c \notin at .. at + count - 1 THEN flash[c]
                    ELSE IF flash[c] = Erased THEN <<ctx.log, c - ctx.start>>
                    ELSE Junk
    BY <1>9 DEF Programmed
  <2> QED  BY <1>10, <2>1, <2>2
<1>12. flash' \in [Cells -> Samples \cup {Erased, Junk, Foreign}]
  <2>1. ASSUME NEW c \in Cells, at <= c, c < next
        PROVE  <<ctx.log, c - ctx.start>> \in Samples
    BY <1>4, <1>8, <2>1 DEF Samples, Cells
  <2>2. flash \in [Cells -> Samples \cup {Erased, Junk, Foreign}]
    BY DEF IInv, TypeOK
  <2>3. ASSUME NEW c \in Cells
        PROVE  flash'[c] \in Samples \cup {Erased, Junk, Foreign}
    BY <1>11, <2>1, <2>2
  <2> QED  BY <1>9, <2>3 DEF Programmed
<1>13. ctx'.log = ctx.log /\ ctx'.start = ctx.start /\ ctx'.size = ctx.size
  BY DEF programChunk, Continue, IInv, TypeOK
<1>14. Holds(ctx.log, ctx.start, next - ctx.start)'
  <2> SUFFICES ASSUME NEW p \in 0 .. next - ctx.start - 1
               PROVE  flash'[ctx.start + p] = <<ctx.log, p>>
    BY <1>13 DEF Holds
  <2>2. ctx.start + p \in Cells /\ ctx.start + p < next
    BY <1>4, <1>8 DEF Cells
  <2>3. CASE at <= ctx.start + p
    <3>1. PICK c \in Cells : c = ctx.start + p  BY <2>2
    <3>2. p = c - ctx.start  BY <1>4, <3>1
    <3>3. flash'[c] = <<ctx.log, c - ctx.start>>
      BY <1>11, <2>2, <2>3, <3>1
    <3> QED  BY <3>1, <3>2, <3>3
  <2>4. CASE ctx.start + p < at
    <3>1. p \in 0 .. at - ctx.start - 1  BY <1>4, <2>4
    <3>2. flash[ctx.start + p] = <<ctx.log, p>>  BY <1>4, <3>1 DEF Holds
    <3>3. PICK c \in Cells : c = ctx.start + p  BY <2>2
    <3>4. ~(at <= c)
      <4>1. c < at  BY <2>4, <3>3
      <4> QED  BY <4>1 DEF Cells
    <3> QED  BY <1>11, <3>2, <3>3, <3>4
  <2> QED  BY <1>4, <2>3, <2>4
<1>15. TypeOK' /\ OperationFits' /\ OpenLogLast'
  <2>1. CASE IsSectorStart(next)
    <3>1. op' = [pc |-> "erase", at |-> next, left |-> remaining] /\ ctx' = ctx
      BY <1>2, <1>3, <1>5, <1>6, <1>7, <2>1 DEF programChunk
    <3>2. Cursor' = next  BY <3>1 DEF Cursor
    <3>3. TypeOK'
      BY <1>1, <1>8, <1>12, <3>1 DEF IInv, TypeOK
    <3>4. OperationFits'  BY <1>1, <3>1 DEF OperationFits
    <3>5. /\ \A id \in LogIDs :
                IF id < ctx'.log
                THEN IsClosed(id)' /\ header'[id].start + header'[id].size <= ctx'.start
                ELSE header'[id] = Erased
          /\ ctx'.start = StartOf(ctx.log)' /\ ctx'.start + ctx'.size = AreaEnd
      BY <1>1, <3>1 DEF IInv, OpenLogLast, IsClosed, StartOf
    <3>6. Holds(ctx.log, ctx.start, Cursor - ctx.start)'
      BY <1>14, <3>2 DEF Holds
    <3>7. IsSectorStart(op.at)'  BY <2>1, <3>1 DEF IsSectorStart
    <3>8. OpenLogLast'
      BY <1>1, <1>4, <1>8, <3>1, <3>2, <3>5, <3>6, <3>7 DEF OpenLogLast
    <3> QED  BY <3>3, <3>4, <3>8
  <2>2. CASE ~IsSectorStart(next)
    <3>1. Continue(next, remaining)
      BY <1>2, <1>3, <1>5, <1>6, <1>7, <2>2 DEF programChunk
    <3>2. next % SectorSize = (at % SectorSize) + count
      <4>1. count \in 0 .. SectorSize - (at % SectorSize)
        BY <1>5, SizeAssumption
      <4>2. (at + count) % SectorSize = IF count = SectorSize - (at % SectorSize)
                THEN 0 ELSE (at % SectorSize) + count
        BY <4>1, Advance
      <4> QED  BY <1>6, <2>2, <4>2 DEF IsSectorStart
    <3>3. ErasedFrom(next)'
      <4> SUFFICES ASSUME NEW c \in Cells, next <= c,
                          c < next + SectorSize - (next % SectorSize)
                   PROVE  flash'[c] = Erased
        BY DEF ErasedFrom
      <4> PICK m \in Nat : m = at % SectorSize  BY DivMod
      <4>1. at <= c /\ c < at + SectorSize - m
        BY <1>5, <1>6, <3>2 DEF Cells
      <4>2. flash[c] = Erased  BY <1>4, <4>1 DEF ErasedFrom
      <4>3. ~(c < next)  BY DEF Cells
      <4> QED  BY <1>11, <4>2, <4>3
    <3>4. ctx.start + ctx.wpos <= next  BY <1>4, <1>8
    <3> QED
      BY <1>1, <1>8, <1>12, <1>13, <1>14, <3>1, <3>3, <3>4, ContinueKeepsOpenLog
  <2> QED  BY <2>1, <2>2
<1>16. \A i \in LogIDs : i < ctx.log =>
          header[i].start + header[i].size <= at
  BY <1>1, <1>4, OpenFacts
<1>17. ASSUME NEW c \in Cells, c < at \/ c \in Neighbour
       PROVE  flash'[c] = flash[c]
  <2>1. ~(at <= c /\ c < next)
    <3>1. next <= AreaEnd  BY <1>8
    <3>2. AreaEnd \in Nat /\ SectorSize \in Nat  OBVIOUS
    <3> HIDE DEF AreaEnd
    <3> QED  BY <1>8, <1>17, <3>1, <3>2 DEF Neighbour, Cells
  <2> QED  BY <1>11, <2>1
<1>18. /\ NeighbourUntouched' /\ ClosedLogsIntact'
       /\ LogsTile' /\ LogsOrdered' /\ ErasedAhead'
  BY <1>1, <1>12, <1>16, <1>17, BehindCursor
<1> QED  BY <1>15, <1>18 DEF IInv

\* closeLog only starts the header's program.
LEMMA CloseKeepsIInv ==
    ASSUME IInv, closeLog
    PROVE  IInv'
<1> USE Sizes, Ids DEF IInv
<1>1. /\ session = "open" /\ op = Idle
      /\ op'.pc = "header" /\ op'.at = 0 /\ op'.left = 0
      /\ op' = [Idle EXCEPT !.pc = "header"]
      /\ UNCHANGED <<flash, header, ctx, session>>
  BY DEF closeLog, Idle
<1>2. TypeOK' /\ OperationFits'
  <2>1. TypeOK'  BY <1>1, SizeAssumption DEF TypeOK, Idle
  <2>2. OperationFits'  BY <1>1 DEF OperationFits
  <2> QED  BY <2>1, <2>2
<1>3. NeighbourUntouched' /\ LogsTile' /\ LogsOrdered' /\ ClosedLogsIntact'
  BY <1>1 DEF NeighbourUntouched, LogsTile, LogsOrdered, ClosedLogsIntact,
              IsClosed, StartOf, Holds
<1>4. OpenLogLast'
  <2>1. Cursor = ctx.start + ctx.wpos /\ Cursor' = ctx.start + ctx.wpos
    BY <1>1 DEF Cursor, Idle
  <2> QED
    BY <1>1, <2>1 DEF OpenLogLast, IsClosed, StartOf, Holds, ErasedFrom, Idle
<1>5. ErasedAhead'  BY <1>1 DEF ErasedAhead
<1> QED  BY <1>2, <1>3, <1>4, <1>5

\* The log gets its header: it joins the closed logs as the last of them,
\* and what was erased ahead of it is where the next one will start.
LEMMA HeaderKeepsIInv ==
    ASSUME IInv, writeHeader
    PROVE  IInv'
<1> USE Sizes, Ids
<1>1. /\ session = "open" /\ op.pc = "header" /\ op' = Idle
      /\ session' = "none" /\ ctx' = ctx
  BY DEF writeHeader, IInv, OperationFits
<1>2. /\ ctx.log \in LogIDs /\ header[ctx.log] = Erased
      /\ ctx.start \in 0 .. AreaEnd /\ ctx.wpos \in 0 .. AreaEnd
      /\ ctx.start + ctx.wpos <= AreaEnd
      /\ ctx.start = StartOf(ctx.log)
      /\ Holds(ctx.log, ctx.start, ctx.wpos)
      /\ ErasedFrom(ctx.start + ctx.wpos)
  <2>1. Cursor = ctx.start + ctx.wpos  BY <1>1 DEF Cursor
  <2>2. ctx.start \in 0 .. AreaEnd /\ ctx.wpos \in 0 .. AreaEnd
        /\ op.left \in 0 .. MaxLength /\ Cursor + op.left <= AreaEnd
    BY <1>1, OpenFacts
  <2>3. Cursor - ctx.start = ctx.wpos  BY <2>1, <2>2
  <2>4. Holds(ctx.log, ctx.start, ctx.wpos)
    BY <1>1, <2>3 DEF IInv, OpenLogLast
  <2>5. ErasedFrom(ctx.start + ctx.wpos)
    BY <1>1, <2>1 DEF IInv, OpenLogLast
  <2>6. ctx.log \in LogIDs /\ header[ctx.log] = Erased
        /\ ctx.start = StartOf(ctx.log)
    <3>1. PICK log \in LogIDs : log = ctx.log  BY <1>1, OpenFacts
    <3>2. ~(log < log)  OBVIOUS
    <3> QED  BY <1>1, <3>1, <3>2 DEF IInv, OpenLogLast
  <2> QED  BY <2>1, <2>2, <2>4, <2>5, <2>6, SizeAssumption
<1>3. PICK log \in LogIDs : log = ctx.log  BY <1>2
<1>4. flash' = flash
  <2>1. log + 1 # HeaderSlots  BY SizeAssumption DEF LogIDs
  <2> QED  BY <1>3, <2>1 DEF writeHeader
<1>5. PICK new \in Headers : new = [start |-> ctx.start, size |-> ctx.wpos]
  BY <1>2 DEF Headers
<1>6. header' = [header EXCEPT ![log] = new]
  BY <1>2, <1>3, <1>5 DEF writeHeader
<1>7. header \in [LogIDs -> Headers \cup {Erased, Junk}]
  BY DEF IInv, TypeOK
<1>8. \A i \in LogIDs : header'[i] = IF i = log THEN new ELSE header[i]
  BY <1>6, <1>7
<1>9. new.start = ctx.start /\ new.size = ctx.wpos  BY <1>5
<1>10. \A i \in LogIDs : IF i < log
                          THEN /\ header[i] \in Headers
                               /\ header[i].start + header[i].size <= ctx.start
                          ELSE header[i] = Erased
  BY <1>1, <1>3 DEF IInv, OpenLogLast, IsClosed
<1>11. \A i \in LogIDs : IsClosed(i)' <=> i < log \/ i = log
  BY <1>3, <1>8, <1>10, MarkAssumption DEF IsClosed
<1>12. TypeOK'
  BY <1>1, <1>4, <1>5, <1>6, SizeAssumption DEF IInv, TypeOK, Idle
<1>13. OperationFits'
  BY <1>1, <1>3, <1>5, <1>8, <1>10, MarkAssumption DEF OperationFits, Idle
<1>14. NeighbourUntouched'  BY <1>4 DEF IInv, NeighbourUntouched
<1>15. LogsTile'
  <2> SUFFICES ASSUME NEW i \in LogIDs, IsClosed(i)'
               PROVE  /\ header'[i].start + header'[i].size <= AreaEnd
                      /\ i > 0 => IsClosed(i - 1)'
                      /\ header'[i].start = StartOf(i)'
    BY DEF LogsTile
  <2>1. i > 0 => i - 1 \in LogIDs  BY SizeAssumption DEF LogIDs
  <2>2. i > 0 => IsClosed(i - 1)'
    <3>1. i < log \/ i = log  BY <1>11
    <3>2. SUFFICES ASSUME i > 0, NEW j \in LogIDs, j = i - 1  PROVE IsClosed(j)'
      BY <2>1 DEF IsClosed
    <3>3. j < log  BY <3>1, <3>2
    <3> QED  BY <1>11, <3>3
  <2>3. StartOf(i)' = StartOf(i)
    BY <1>3, <1>8, <1>11, <2>1 DEF StartOf
  <2>4. CASE i = log
    BY <1>2, <1>3, <1>8, <1>9, <2>2, <2>3, <2>4
  <2>5. CASE i < log
    <3>1. header'[i] = header[i] /\ IsClosed(i)
      <4>1. i # log  BY <2>5
      <4> QED  BY <1>8, <1>10, <2>5, <4>1 DEF IsClosed
    <3> QED  BY <1>1, <2>2, <2>3, <3>1 DEF IInv, LogsTile
  <2> QED  BY <1>11, <2>4, <2>5
<1>16. LogsOrdered'
  <2> SUFFICES ASSUME NEW i \in LogIDs, NEW j \in LogIDs, i < j, IsClosed(j)'
               PROVE  /\ IsClosed(i)'
                      /\ header'[i].start + header'[i].size <= header'[j].start
    BY DEF LogsOrdered
  <2>0. i < log  BY <1>11
  <2>1. i # log /\ header'[i] = header[i] /\ IsClosed(i)'
    <3>1. i # log  BY <2>0
    <3> QED  BY <1>8, <1>11, <2>0, <3>1
  <2>2. CASE j = log  BY <1>8, <1>9, <1>10, <2>0, <2>1, <2>2
  <2>3. CASE j < log
    <3>1. header'[j] = header[j] /\ IsClosed(j)
      BY <1>8, <1>10, <2>3 DEF IsClosed
    <3> QED  BY <1>1, <2>1, <3>1 DEF IInv, LogsOrdered
  <2> QED  BY <1>11, <2>2, <2>3
<1>17. ClosedLogsIntact'
  <2> SUFFICES ASSUME NEW i \in LogIDs, IsClosed(i)',
                      NEW p \in 0 .. header'[i].size - 1
               PROVE  flash[header'[i].start + p] = <<i, p>>
    BY <1>4 DEF ClosedLogsIntact, Holds
  <2>1. CASE i = log
    BY <1>2, <1>3, <1>8, <1>9, <2>1 DEF Holds
  <2>2. CASE i < log
    <3>1. header'[i] = header[i] /\ IsClosed(i)
      <4>1. i # log  BY <2>2
      <4> QED  BY <1>8, <1>10, <2>2, <4>1 DEF IsClosed
    <3> QED  BY <3>1 DEF IInv, ClosedLogsIntact, Holds
  <2> QED  BY <1>11, <2>1, <2>2
<1>18. OpenLogLast'  BY <1>1 DEF OpenLogLast
<1>19. ErasedAhead'
  <2> SUFFICES ASSUME NEW i \in LogIDs, header'[i] = Erased,
                      i > 0 => IsClosed(i - 1)'
               PROVE  ErasedFrom(StartOf(i))'
    BY DEF ErasedAhead
  <2>1. ~IsClosed(i)'  BY MarkAssumption DEF IsClosed
  <2>2. i > log  BY <1>11, <2>1
  <2>3. i - 1 \in LogIDs /\ i > 0  BY <2>2, SizeAssumption DEF LogIDs
  <2>4. i - 1 = log  BY <1>11, <2>2, <2>3
  <2>5. StartOf(i)' = ctx.start + ctx.wpos
    BY <1>8, <1>9, <2>3, <2>4 DEF StartOf
  <2> QED  BY <1>2, <1>4, <2>5 DEF ErasedFrom
<1> QED
  BY <1>12, <1>13, <1>14, <1>15, <1>16, <1>17, <1>18, <1>19 DEF IInv

\* Asking for a format changes nothing in flash yet.
LEMMA FormatKeepsIInv ==
    ASSUME IInv, formatLog
    PROVE  IInv'
<1> USE DEF IInv
<1>1. /\ op' = [pc |-> "formatHeader", at |-> 0, left |-> 0]
      /\ session' = "formatting" /\ UNCHANGED <<flash, header, ctx>>
  BY DEF formatLog, Idle
<1>2. TypeOK'  BY <1>1, Sizes, SizeAssumption DEF TypeOK
<1>3. OperationFits'  BY <1>1 DEF OperationFits
<1>4. NeighbourUntouched' /\ ClosedLogsIntact' /\ LogsTile'
  BY <1>1 DEF NeighbourUntouched, ClosedLogsIntact, LogsTile, IsClosed, Holds
<1>5. LogsOrdered' /\ OpenLogLast' /\ ErasedAhead'
  BY <1>1 DEF LogsOrdered, OpenLogLast, ErasedAhead
<1> QED  BY <1>2, <1>3, <1>4, <1>5

\* No log is left once the headers are erased.
LEMMA FormatHeaderKeepsIInv ==
    ASSUME IInv, formatHeader
    PROVE  IInv'
<1> USE DEF IInv
<1>1. /\ op' = [pc |-> "formatData", at |-> 0, left |-> 0]
      /\ session' = session /\ session = "formatting" /\ ctx' = ctx
      /\ header' = [id \in LogIDs |-> Erased]
      /\ flash' = [c \in Cells |-> IF flash[c] \in Samples THEN Junk ELSE flash[c]]
  BY DEF formatHeader, Idle, OperationFits
<1>2. TypeOK'  BY <1>1, Sizes, SizeAssumption DEF TypeOK
<1>3. OperationFits'  BY <1>1 DEF OperationFits
<1>4. NeighbourUntouched'
  BY <1>1, MarkAssumption, Sizes DEF NeighbourUntouched, Neighbour, Cells
<1>5. ClosedLogsIntact' /\ LogsTile'
  BY <1>1, MarkAssumption DEF ClosedLogsIntact, LogsTile, IsClosed
<1>6. LogsOrdered' /\ OpenLogLast' /\ ErasedAhead'
  BY <1>1 DEF LogsOrdered, OpenLogLast, ErasedAhead
<1> QED  BY <1>2, <1>3, <1>4, <1>5, <1>6

\* After a format, the first sector awaits log 0.
LEMMA FormatDataKeepsIInv ==
    ASSUME IInv, formatData
    PROVE  IInv'
<1> USE DEF IInv
<1>1. /\ op' = Idle /\ session' = "none" /\ UNCHANGED <<header, ctx>>
      /\ flash' = [c \in Cells |-> IF c \in SectorAt(0) THEN Erased ELSE flash[c]]
      /\ \A id \in LogIDs : header[id] = Erased
  BY DEF formatData, ErasedSector, OperationFits
<1>2. TypeOK'  BY <1>1, Sizes, SizeAssumption DEF TypeOK, Idle
<1>3. OperationFits'  BY <1>1, MarkAssumption DEF OperationFits, Idle
<1>4. NeighbourUntouched'
  <2> SUFFICES ASSUME NEW c \in Neighbour  PROVE flash'[c] = Foreign
    BY DEF NeighbourUntouched
  <2>1. c \in Cells /\ c \notin SectorAt(0)
    BY Sizes DEF Neighbour, Cells, SectorAt
  <2> QED  BY <1>1, <2>1 DEF NeighbourUntouched
<1>5. \A id \in LogIDs : ~IsClosed(id)' /\ ~IsClosed(id)
  BY <1>1, MarkAssumption DEF IsClosed
<1>6. ClosedLogsIntact' /\ LogsTile' /\ LogsOrdered' /\ OpenLogLast'
  BY <1>1, <1>5 DEF ClosedLogsIntact, LogsTile, LogsOrdered, OpenLogLast
<1>7. ErasedAhead'
  <2> SUFFICES ASSUME NEW id \in LogIDs, id > 0 => IsClosed(id - 1)'
               PROVE  ErasedFrom(StartOf(id))'
    BY DEF ErasedAhead
  <2>1. id = 0
    <3>1. id > 0 => id - 1 \in LogIDs  BY SizeAssumption DEF LogIDs
    <3>2. ~(id > 0)  BY <1>5, <3>1
    <3> QED  BY <3>2, Ids
  <2>2. StartOf(id)' = 0  BY <2>1 DEF StartOf
  <2>3. 0 % SectorSize = 0  BY Sizes
  <2>4. \A c \in Cells : (0 <= c /\ c < SectorSize) => flash'[c] = Erased
    BY <1>1, Sizes DEF SectorAt, Cells
  <2> QED  BY <2>2, <2>3, <2>4, Sizes DEF ErasedFrom
<1> QED  BY <1>2, <1>3, <1>4, <1>6, <1>7

\* What a power cut may tear lies at or after the cursor of the open log, or
\* in an area without logs; it never reaches the next area.
LEMMA EndangeredCells ==
    ASSUME IInv, NEW c \in Cells, c \in Endangered
    PROVE  /\ c < AreaEnd + SectorSize
           /\ session = "open" => ctx.start <= c
           /\ session # "open" => \A id \in LogIDs : header[id] = Erased
<1> USE Sizes
<1>1. CASE op.pc = "program"
  <2>1. session = "open" /\ op.left > 0
    BY <1>1 DEF IInv, OperationFits, OpenLogLast
  <2>2. PICK at \in Nat : at = op.at  BY <2>1, OpenFacts
  <2>3. PICK left \in 1 .. MaxLength : left = op.left
    BY <2>1, OpenFacts, SizeAssumption
  <2>4. at + left <= AreaEnd /\ ctx.start <= at /\ ctx.start \in Nat
    BY <1>1, <2>1, <2>2, <2>3, OpenFacts DEF Cursor
  <2>5. PICK count \in 1 .. left : count = ChunkSize(at, left)
    BY Chunk, SizeAssumption
  <2>6. c \in at .. at + count - 1
    BY <1>1, <2>2, <2>3, <2>5 DEF Endangered
  <2> QED  BY <2>1, <2>4, <2>6, SizeAssumption
<1>2. CASE op.pc = "erase"
  <2>1. session = "open"  BY <1>2 DEF IInv, OperationFits
  <2>2. PICK at \in Nat : at = op.at  BY <2>1, OpenFacts
  <2>3. at <= AreaEnd /\ ctx.start <= at
    BY <1>2, <2>1, <2>2, OpenFacts, SizeAssumption DEF Cursor
  <2>4. c \in at .. at + SectorSize - 1
    BY <1>2, <2>2 DEF Endangered, SectorAt
  <2>5. ctx.start \in Nat  BY <2>1, OpenFacts
  <2> QED  BY <2>1, <2>3, <2>4, <2>5
<1>3. CASE op.pc = "formatData"
  <2>1. session = "formatting" /\ \A id \in LogIDs : header[id] = Erased
    BY <1>3 DEF IInv, OperationFits
  <2>2. c \in SectorAt(0)  BY <1>3 DEF Endangered
  <2> QED  BY <2>1, <2>2 DEF SectorAt
<1>4. CASE op.pc \notin {"program", "erase", "formatData"}
  <2>1. Endangered = {}  BY <1>4 DEF Endangered
  <2> QED  BY <2>1
<1> QED  BY <1>1, <1>2, <1>3, <1>4

\* A power cut tears nothing that a closed log has.
LEMMA PowerCutKeepsIInv ==
    ASSUME IInv, powerCut
    PROVE  IInv'
<1> USE Sizes, Ids
<1>1. /\ op' = Idle /\ ctx' = NoContext
      /\ session' = IF session = "open" THEN "broken" ELSE session
  BY DEF powerCut
<1>2. PICK torn \in SUBSET Endangered :
         flash' = [c \in Cells |-> IF c \in torn THEN Junk ELSE flash[c]]
  BY DEF powerCut
<1>3. \A c \in Cells : c \notin Endangered => flash'[c] = flash[c]
  BY <1>2
<1>4. \A id \in LogIDs : header'[id] = header[id] \/ header'[id] = Junk
  BY DEF powerCut, IInv, TypeOK
<1>5. session = "none" => UNCHANGED <<header, flash>>
  <2>1. ASSUME session = "none"  PROVE op.pc = "idle"
    BY <2>1 DEF IInv, OperationFits, TypeOK
  <2>2. ASSUME session = "none"  PROVE header' = header
    BY <2>1, <2>2 DEF powerCut
  <2>3. ASSUME session = "none"  PROVE flash' = flash
    <3>1. Endangered = {}  BY <2>1, <2>3 DEF Endangered
    <3>2. flash \in [Cells -> Samples \cup {Erased, Junk, Foreign}]
      BY DEF IInv, TypeOK
    <3> QED  BY <1>2, <3>1, <3>2
  <2> QED  BY <2>2, <2>3
<1>6. \A id \in LogIDs : IsClosed(id)' => IsClosed(id) /\ header'[id] = header[id]
  BY <1>4, MarkAssumption DEF IsClosed
<1>7. session = "open" => \A id \in LogIDs : IsClosed(id) => header'[id] = header[id]
  <2> SUFFICES ASSUME session = "open", NEW id \in LogIDs, IsClosed(id)
               PROVE  header'[id] = header[id]
    OBVIOUS
  <2>1. id < ctx.log /\ ctx.log \in LogIDs  BY OpenFacts
  <2>2. id # ctx.log
    <3>1. PICK log \in LogIDs : log = ctx.log  BY <2>1
    <3> QED  BY <2>1, <3>1
  <2>3. op.pc # "formatHeader"  BY DEF IInv, OperationFits
  <2> QED  BY <2>2, <2>3 DEF powerCut, IInv, TypeOK
<1>8. TypeOK'
  <2>1. flash' \in [Cells -> Samples \cup {Erased, Junk, Foreign}]
    BY <1>2 DEF IInv, TypeOK
  <2>2. header' \in [LogIDs -> Headers \cup {Erased, Junk}]
    <3>1. header \in [LogIDs -> Headers \cup {Erased, Junk}]
      BY DEF IInv, TypeOK
    <3>2. CASE header' = header  BY <3>1, <3>2
    <3>3. CASE header' = [header EXCEPT ![ctx.log] = Junk]  BY <3>1, <3>3
    <3>4. CASE \E some \in SUBSET LogIDs :
                  header' = [id \in LogIDs |-> IF id \in some THEN Junk
                                               ELSE header[id]]
      BY <3>1, <3>4
    <3> QED  BY <3>2, <3>3, <3>4 DEF powerCut
  <2>3. ctx' \in [log : Nat, start : 0 .. AreaEnd, size : 0 .. AreaEnd,
                  wpos : 0 .. AreaEnd]
    BY <1>1 DEF NoContext
  <2>4. session' \in {"none", "open", "broken", "formatting"}
    BY <1>1 DEF IInv, TypeOK
  <2> QED  BY <1>1, <2>1, <2>2, <2>3, <2>4, SizeAssumption DEF TypeOK, Idle
<1>9. OperationFits'
  <2>1. op'.pc = "idle" /\ op' = [Idle EXCEPT !.pc = "idle"]
    BY <1>1 DEF Idle
  <2>2. session' = "none" => \A id \in LogIDs : header'[id] # Junk
    BY <1>1, <1>5 DEF IInv, OperationFits
  <2> QED  BY <2>1, <2>2 DEF OperationFits
<1>10. NeighbourUntouched'
  <2> SUFFICES ASSUME NEW c \in Neighbour  PROVE flash'[c] = Foreign
    BY DEF NeighbourUntouched
  <2>1. c \in Cells /\ ~(c < AreaEnd + SectorSize)
    BY DEF Neighbour, Cells
  <2>2. c \notin Endangered  BY <2>1, EndangeredCells
  <2> QED  BY <1>3, <2>1, <2>2 DEF IInv, NeighbourUntouched
<1>11. \A i \in LogIDs : i > 0 => i - 1 \in LogIDs
  BY SizeAssumption DEF LogIDs
<1>12. session' # "formatting" =>
          \A i \in LogIDs : IsClosed(i) => header'[i] = header[i] 
  <2>1. CASE session = "open"  BY <1>7, <2>1
  <2>2. CASE session = "none"  BY <1>5, <2>2
  <2>3. CASE session = "broken"
    <3>1. op.pc = "idle"  BY <2>3 DEF IInv, OperationFits, TypeOK
    <3> QED  BY <3>1 DEF powerCut
  <2> QED  BY <1>1, <2>1, <2>2, <2>3 DEF IInv, TypeOK
<1>13. LogsTile'
  <2> SUFFICES ASSUME NEW i \in LogIDs, IsClosed(i)'
               PROVE  /\ header'[i].start + header'[i].size <= AreaEnd
                      /\ session' # "formatting" =>
                            /\ i > 0 => IsClosed(i - 1)'
                            /\ header'[i].start = StartOf(i)'
    BY DEF LogsTile
  <2>1. IsClosed(i) /\ header'[i] = header[i]  BY <1>6
  <2>2. header'[i].start + header'[i].size <= AreaEnd
    BY <2>1 DEF IInv, LogsTile
  <2>3. CASE session' # "formatting"
    <3>1. session # "formatting"  BY <1>1, <2>3
    <3>2. (i > 0 => IsClosed(i - 1)) /\ header[i].start = StartOf(i)
      BY <2>1, <3>1 DEF IInv, LogsTile
    <3>3. ASSUME i > 0
          PROVE  header'[i - 1] = header[i - 1] /\ IsClosed(i - 1)'
      <4>1. PICK j \in LogIDs : j = i - 1  BY <1>11, <3>3
      <4>2. IsClosed(j)  BY <3>2, <3>3, <4>1
      <4>3. header'[j] = header[j]  BY <1>12, <2>3, <4>2
      <4> QED  BY <4>1, <4>2, <4>3 DEF IsClosed
    <3>4. StartOf(i)' = StartOf(i)
      <4>1. CASE i = 0  BY <4>1 DEF StartOf
      <4>2. CASE i > 0  BY <3>3, <4>2 DEF StartOf
      <4> QED  BY <4>1, <4>2
    <3> QED  BY <2>1, <2>2, <3>2, <3>3, <3>4
  <2> QED  BY <2>2, <2>3
<1>14. LogsOrdered'
  <2> SUFFICES ASSUME session' # "formatting", NEW i \in LogIDs,
                      NEW j \in LogIDs, i < j, IsClosed(j)'
               PROVE  /\ IsClosed(i)'
                      /\ header'[i].start + header'[i].size <= header'[j].start
    BY DEF LogsOrdered
  <2>1. session # "formatting"  BY <1>1
  <2>2. IsClosed(j) /\ header'[j] = header[j]  BY <1>6
  <2>3. IsClosed(i) /\ header[i].start + header[i].size <= header[j].start
    BY <2>1, <2>2 DEF IInv, LogsOrdered
  <2>4. header'[i] = header[i]  BY <1>12, <2>3
  <2> QED  BY <2>2, <2>3, <2>4 DEF IsClosed
<1>15. ClosedLogsIntact'
  <2> SUFFICES ASSUME NEW i \in LogIDs, IsClosed(i)',
                      NEW p \in 0 .. header'[i].size - 1
               PROVE  flash'[header'[i].start + p] = <<i, p>>
    BY DEF ClosedLogsIntact, Holds
  <2>1. IsClosed(i) /\ header'[i] = header[i]  BY <1>6
  <2>2. flash[header[i].start + p] = <<i, p>>
    BY <2>1 DEF IInv, ClosedLogsIntact, Holds
  <2>3. PICK c \in Int : c = header[i].start + p
    BY <2>1 DEF IsClosed, Headers
  <2>4. ASSUME c \notin Cells \/ c \notin Endangered
        PROVE  flash'[c] = flash[c]
    <3>1. CASE c \in Cells  BY <1>3, <2>4, <3>1
    <3>2. CASE c \notin Cells
      <4>1. /\ header[i].start \in 0 .. AreaEnd /\ header[i].size \in 0 .. AreaEnd
            /\ header[i].start + header[i].size <= AreaEnd
        BY <2>1 DEF IsClosed, Headers, IInv, LogsTile
      <4> QED  BY <2>1, <2>3, <3>2, <4>1 DEF Cells
    <3> QED  BY <3>1, <3>2
  <2>5. ASSUME c \in Cells, c \in Endangered
        PROVE  FALSE
    <3>1. CASE session = "open"
      <4>1. ctx.start <= c  BY <2>5, <3>1, EndangeredCells
      <4>2. header[i].start + header[i].size <= ctx.start
            /\ ctx.start \in Nat
        BY <2>1, <3>1, OpenFacts
      <4>3. header[i].start \in 0 .. AreaEnd /\ header[i].size \in 0 .. AreaEnd
        BY <2>1 DEF IsClosed, Headers
      <4> QED  BY <2>1, <2>3, <4>1, <4>2, <4>3
    <3>2. CASE session # "open"
      <4>1. header[i] = Erased  BY <2>5, <3>2, EndangeredCells
      <4> QED  BY <2>1, <4>1, MarkAssumption DEF IsClosed
    <3> QED  BY <3>1, <3>2
  <2> QED  BY <2>1, <2>2, <2>3, <2>4, <2>5
<1>16. OpenLogLast'  BY <1>1 DEF OpenLogLast
<1>17. ErasedAhead'
  <2> SUFFICES ASSUME session' = "none"  PROVE ErasedAhead'
    BY DEF ErasedAhead
  <2>1. session = "none" /\ UNCHANGED <<header, flash>>  BY <1>1, <1>5
  <2> QED
    BY <2>1 DEF IInv, ErasedAhead, IsClosed, StartOf, ErasedFrom
<1> QED
  BY <1>8, <1>9, <1>10, <1>13, <1>14, <1>15, <1>16, <1>17 DEF IInv

\* A formatted area satisfies the invariant.
LEMMA InitIInv ==
    ASSUME Init  PROVE IInv
<1> USE Sizes, Ids
<1>1. /\ \A id \in LogIDs : header[id] = Erased /\ ~IsClosed(id)
      /\ ctx = NoContext /\ session = "none" /\ op = Idle
      /\ header \in [LogIDs -> Headers \cup {Erased, Junk}]
  BY MarkAssumption DEF Init, IsClosed
<1>2. PICK used \in SUBSET (1 .. NumSectors) :
          flash = [c \in Cells |->
                      IF c \in Neighbour THEN Foreign
                      ELSE IF (c \div SectorSize) \in used THEN Junk ELSE Erased]
  BY DEF Init
<1>3. TypeOK  BY <1>1, <1>2, SizeAssumption DEF TypeOK, Idle, NoContext
<1>4. OperationFits  BY <1>1, MarkAssumption DEF OperationFits, Idle
<1>5. NeighbourUntouched
  BY <1>2 DEF NeighbourUntouched, Neighbour, Cells
<1>6. LogsTile /\ LogsOrdered /\ ClosedLogsIntact /\ OpenLogLast
  BY <1>1 DEF LogsTile, LogsOrdered, ClosedLogsIntact, OpenLogLast
<1>7. ErasedAhead
  <2> SUFFICES ASSUME NEW id \in LogIDs, id > 0 => IsClosed(id - 1)
               PROVE  ErasedFrom(StartOf(id))
    BY DEF ErasedAhead
  <2>1. StartOf(id) = 0
    <3>1. id > 0 => id - 1 \in LogIDs  BY SizeAssumption DEF LogIDs
    <3>2. id = 0  BY <1>1, <3>1
    <3> QED  BY <3>2 DEF StartOf
  <2>2. ASSUME NEW c \in Cells, c < SectorSize
        PROVE  flash[c] = Erased
    <3>1. c \in Nat /\ c = SectorSize * 0 + c /\ c \in 0 .. SectorSize - 1
      BY <2>2 DEF Cells
    <3>2. c \div SectorSize = 0  BY <3>1, ModUnique
    <3>3. c \notin Neighbour  BY <2>2, <3>1 DEF Neighbour
    <3> QED  BY <1>2, <3>2, <3>3
  <2>3. 0 % SectorSize = 0  OBVIOUS
  <2> QED  BY <2>1, <2>2, <2>3 DEF ErasedFrom, Cells
<1> QED  BY <1>3, <1>4, <1>5, <1>6, <1>7 DEF IInv

\* Every step of the specification preserves it.
LEMMA NextKeepsIInv ==
    ASSUME IInv, [Next]_vars  PROVE IInv'
<1>1. ASSUME NEW id \in LogIDs, createLog(id)  PROVE IInv'
  BY <1>1, CreateKeepsIInv
<1>2. ASSUME NEW length \in Lengths, writeLog(length)  PROVE IInv'
  BY <1>2, WriteKeepsIInv
<1>3. CASE programChunk  BY <1>3, ProgramKeepsIInv
<1>4. CASE eraseAhead    BY <1>4, EraseAheadKeepsIInv
<1>5. CASE closeLog      BY <1>5, CloseKeepsIInv
<1>6. CASE writeHeader   BY <1>6, HeaderKeepsIInv
<1>7. CASE formatLog     BY <1>7, FormatKeepsIInv
<1>8. CASE formatHeader  BY <1>8, FormatHeaderKeepsIInv
<1>9. CASE formatData    BY <1>9, FormatDataKeepsIInv
<1>10. CASE powerCut     BY <1>10, PowerCutKeepsIInv
<1>11. CASE UNCHANGED vars
  <2>1. UNCHANGED <<flash, header, ctx, session, op>>  BY <1>11 DEF vars
  <2>2. TypeOK' /\ OperationFits' /\ NeighbourUntouched'
    BY <2>1 DEF IInv, TypeOK, OperationFits, NeighbourUntouched
  <2>3. LogsTile' /\ LogsOrdered' /\ ClosedLogsIntact' /\ ErasedAhead'
    BY <2>1 DEF IInv, LogsTile, LogsOrdered, ClosedLogsIntact, ErasedAhead,
                IsClosed, StartOf, Holds, ErasedFrom
  <2>4. OpenLogLast'
    BY <2>1 DEF IInv, OpenLogLast, IsClosed, StartOf, Holds, ErasedFrom,
                IsSectorStart, Cursor
  <2> QED  BY <2>2, <2>3, <2>4 DEF IInv
<1> QED
  BY <1>1, <1>2, <1>3, <1>4, <1>5, <1>6, <1>7, <1>8, <1>9, <1>10, <1>11 DEF Next

-----------------------------------------------------------------------------
(* The theorems. *)

\* The inductive invariant holds in every reachable state, for every sector,
\* page and area size and every number of logs.
THEOREM Invariance == Spec => []IInv
<1>1. Init => IInv  BY InitIInv
<1>2. IInv /\ [Next]_vars => IInv'  BY NextKeepsIInv
<1> QED  BY <1>1, <1>2, PTL DEF Spec

\* The variables keep their types: no address leaves the area.
THEOREM TypeCorrect == Spec => []TypeOK
<1>1. IInv => TypeOK  BY DEF IInv
<1> QED  BY <1>1, Invariance, PTL

\* A log that has a header reads back what was written to it, whatever the
\* later writes, erases, closes and power cuts (log_controller.c, writeFlash).
THEOREM ClosedLogsStayIntact == Spec => []ClosedLogsIntact
<1>1. IInv => ClosedLogsIntact  BY DEF IInv
<1> QED  BY <1>1, Invariance, PTL

\* The log being written can be read up to its writePosition.
THEOREM OpenLogIsReadable == Spec => []OpenLogReadable
<1>1. IInv => OpenLogReadable
  <2> SUFFICES ASSUME IInv, session = "open",
                      NEW p \in 0 .. ctx.wpos - 1
               PROVE  flash[ctx.start + p] = <<ctx.log, p>>
    BY DEF OpenLogReadable, Holds
  <2>1. PICK cursor \in Nat : cursor = Cursor  BY OpenFacts
  <2>2. ctx.start + ctx.wpos <= cursor
        /\ ctx.start \in 0 .. AreaEnd /\ ctx.wpos \in 0 .. AreaEnd
    BY <2>1, OpenFacts
  <2>3. p \in 0 .. cursor - ctx.start - 1  BY <2>2, Sizes
  <2> QED  BY <2>1, <2>3 DEF IInv, OpenLogLast, Holds
<1> QED  BY <1>1, Invariance, PTL

\* Logs follow one another without a gap and end inside the area, so that
\* the last header alone tells how much of it is used.
THEOREM LogsTileTheArea == Spec => []LogsTile
<1>1. IInv => LogsTile  BY DEF IInv
<1> QED  BY <1>1, Invariance, PTL

\* The erase-ahead never reaches the next sensor's headers: the gap sector
\* of senstick_flash_address_definition.h is enough.
THEOREM NeighbourIsSafe == Spec => []NeighbourUntouched
<1>1. IInv => NeighbourUntouched  BY DEF IInv
<1> QED  BY <1>1, Invariance, PTL

\* writeFlash programs erased cells only.
THEOREM ErasedBeforeProgram == Spec => ProgramsErasedCellsOnly
<1>1. IInv /\ programChunk =>
         \A c \in op.at .. op.at + ChunkSize(op.at, op.left) - 1 :
            flash[c] = Erased
  <2> SUFFICES ASSUME IInv, programChunk,
                      NEW c \in op.at .. op.at + ChunkSize(op.at, op.left) - 1
               PROVE  flash[c] = Erased
    OBVIOUS
  <2>1. session = "open" /\ op.pc = "program" /\ op.left > 0
    BY DEF programChunk, IInv, OperationFits, OpenLogLast
  <2>2. PICK at \in Nat : at = op.at  BY <2>1, OpenFacts
  <2>3. PICK left \in 1 .. MaxLength : left = op.left
    BY <2>1, OpenFacts, SizeAssumption
  <2>4. at + left <= AreaEnd /\ ErasedFrom(at)
    BY <2>1, <2>2, <2>3, OpenFacts DEF IInv, OpenLogLast, Cursor
  <2>5. PICK count \in 1 .. left :
           /\ count = ChunkSize(at, left)
           /\ count <= SectorSize - (at % SectorSize)
    BY Chunk, SizeAssumption
  <2>6. c \in at .. at + count - 1  BY <2>2, <2>3, <2>5
  <2>7. c \in Cells  BY <2>4, <2>6, Sizes, SizeAssumption DEF Cells
  <2>8. at <= c /\ c < at + SectorSize - (at % SectorSize)
    <3>1. PICK m \in Nat : m = at % SectorSize  BY Sizes, DivMod
    <3> QED  BY <2>5, <2>6, <3>1, Sizes
  <2> QED  BY <2>4, <2>7, <2>8 DEF ErasedFrom
<1>2. IInv /\ [Next]_vars =>
         [programChunk =>
            \A c \in op.at .. op.at + ChunkSize(op.at, op.left) - 1 :
               flash[c] = Erased]_vars
  BY <1>1
<1> QED  BY <1>2, Invariance, PTL DEF Spec, ProgramsErasedCellsOnly

\* A log's header is written once: createLog and closeLog never touch the
\* header of an earlier log, and a power cut can only spoil the new one.
THEOREM HeadersStayFinal == Spec => HeadersAreFinal
<1>1. IInv /\ Next =>
         \A id \in LogIDs :
            (IsClosed(id) /\ op.pc # "formatHeader") => header'[id] = header[id]
  <2> SUFFICES ASSUME IInv, Next, NEW id \in LogIDs, IsClosed(id),
                      op.pc # "formatHeader"
               PROVE  header'[id] = header[id]
    OBVIOUS
  <2>1. header \in [LogIDs -> Headers \cup {Erased, Junk}]
    BY DEF IInv, TypeOK
  <2>2. op.pc = "header" => id # ctx.log
    <3> SUFFICES ASSUME op.pc = "header"  PROVE id # ctx.log
      OBVIOUS
    <3>1. session = "open"  BY DEF IInv, OperationFits
    <3>2. PICK log \in LogIDs : log = ctx.log  BY <3>1, OpenFacts
    <3>3. id < log  BY <3>1, <3>2, OpenFacts
    <3> QED  BY <3>2, <3>3, Ids
  <2>3. CASE writeHeader  BY <2>1, <2>2, <2>3 DEF writeHeader
  <2>4. CASE powerCut  BY <2>1, <2>2, <2>4 DEF powerCut
  <2> QED
    BY <2>3, <2>4 DEF Next, createLog, writeLog, programChunk, eraseAhead,
                      closeLog, formatLog, formatHeader, formatData
<1>2. IInv /\ [Next]_vars =>
         [\A id \in LogIDs :
            (IsClosed(id) /\ op.pc # "formatHeader") => header'[id] = header[id]]_vars
  BY <1>1
<1> QED  BY <1>2, Invariance, PTL DEF Spec, HeadersAreFinal

=============================================================================
