--------------------------- MODULE DumpLoadProofs ---------------------------
(***************************************************************************)
(* Proofs about dump and load, for every set of processes and of names,    *)
(* number of junks, queue room and length of the sequence of file names.   *)
(***************************************************************************)
EXTENDS DumpLoad, TLAPS

(***************************************************************************)
(* The cells.                                                              *)
(***************************************************************************)
LEMMA SlotIsSlot ==
  ASSUME NEW i \in Int
  PROVE  Slot(i) \in Slots
<1>1. NumSlots \in Nat \ {0}
  BY DumpLoadAssumption
<1>2. i % NumSlots \in 0 .. NumSlots - 1
  BY <1>1
<1>. QED
  BY <1>1, <1>2 DEF Slot, Slots, Last

(***************************************************************************)
(* The slots of one queue are different ones.                              *)
(***************************************************************************)
LEMMA Wraps ==
  ASSUME NEW n \in Nat \ {0}, NEW a \in 0 .. 2 * n - 1
  PROVE  a % n = IF a < n THEN a ELSE a - n
<1>1. CASE a < n
  BY <1>1
<1>2. CASE a >= n
  <2>1. a = n + (a - n) /\ a - n \in 0 .. n - 1
    BY <1>2
  <2>2. a % n = (a - n) % n
    BY <2>1
  <2>. QED
    BY <1>2, <2>1, <2>2
<1>. QED
  BY <1>1, <1>2

LEMMA SlotsApart ==
  ASSUME NEW r \in 0 .. NumSlots - 1, NEW k \in 0 .. NumSlots - 1, NEW i \in 1 .. k
  PROVE  Slot(r + i - 1) # Slot(r + k)
<1>1. NumSlots \in Nat \ {0}
  BY DumpLoadAssumption
<1>2. r + i - 1 \in 0 .. 2 * NumSlots - 1 /\ r + k \in 0 .. 2 * NumSlots - 1
  BY <1>1
<1>3. /\ (r + i - 1) % NumSlots = IF r + i - 1 < NumSlots THEN r + i - 1 ELSE r + i - 1 - NumSlots
      /\ (r + k) % NumSlots = IF r + k < NumSlots THEN r + k ELSE r + k - NumSlots
  <2>1. \A a \in 0 .. 2 * NumSlots - 1 : a % NumSlots = IF a < NumSlots THEN a ELSE a - NumSlots
    BY <1>1, Wraps
  <2>2. PICK a \in 0 .. 2 * NumSlots - 1, b \in 0 .. 2 * NumSlots - 1 :
          a = r + i - 1 /\ b = r + k
    BY <1>2
  <2>3. /\ a % NumSlots = IF a < NumSlots THEN a ELSE a - NumSlots
        /\ b % NumSlots = IF b < NumSlots THEN b ELSE b - NumSlots
    BY <2>1, Zenon
  <2>. QED
    BY <1>1, <2>2, <2>3
<1>4. (r + i - 1) % NumSlots # (r + k) % NumSlots
  BY <1>1, <1>3
<1>5. (r + i - 1) % NumSlots \in Int /\ (r + k) % NumSlots \in Int
  BY <1>1, <1>3
<1>. QED
  BY <1>4, <1>5 DEF Slot

LEMMA CellFacts ==
  /\ Last \in Nat /\ Last > 3
  /\ Label \in Cells /\ ReadPos \in Cells /\ CountPos \in Cells /\ Slots \subseteq Cells
  /\ CellValues(Label) = Labels
  /\ CellValues(ReadPos) = 0 .. NumSlots - 1
  /\ CellValues(CountPos) = 0 .. NumSlots
  /\ \A c \in Slots : CellValues(c) = Elems
  /\ \A c \in Slots : c # Label /\ c # ReadPos /\ c # CountPos
  /\ Label # ReadPos /\ Label # CountPos /\ ReadPos # CountPos
<1>. USE DumpLoadAssumption DEF Label, ReadPos, CountPos, Slots, Cells, Last
<1>1. Last \in Nat /\ Last > 3
  OBVIOUS
<1>2. Label \in Cells /\ ReadPos \in Cells /\ CountPos \in Cells /\ Slots \subseteq Cells
  OBVIOUS
<1>3. \A c \in Slots : c # Label /\ c # ReadPos /\ c # CountPos
  OBVIOUS
<1>4. CellValues(Label) = Labels /\ CellValues(ReadPos) = 0 .. NumSlots - 1
      /\ CellValues(CountPos) = 0 .. NumSlots
  BY DEF CellValues
<1>5. \A c \in Slots : CellValues(c) = Elems
  BY <1>3 DEF CellValues
<1>. QED
  BY <1>1, <1>2, <1>3, <1>4, <1>5

-----------------------------------------------------------------------------
(***************************************************************************)
(* Writing one cell of one junk.                                           *)
(***************************************************************************)
MemOK(m) ==
  /\ m = [j \in Junks |-> [c \in Cells |-> m[j][c]]]
  /\ \A j \in Junks, c \in Cells : m[j][c] \in CellValues(c)

Wrote(m, j, c, v, w) == w = [m EXCEPT ![j][c] = v]

LEMMA WriteCell ==
  ASSUME NEW m, MemOK(m), NEW j \in Junks, NEW c \in Cells, NEW v \in CellValues(c),
         NEW w, Wrote(m, j, c, v, w)
  PROVE  /\ MemOK(w)
         /\ w = [k \in Junks |-> [d \in Cells |-> IF k = j /\ d = c THEN v ELSE m[k][d]]]
         /\ \A k \in Junks \ {j} : w[k] = m[k]
<1>1. m = [k \in Junks |-> [d \in Cells |-> m[k][d]]]
  BY DEF MemOK
<1>2. \A k \in Junks : m[k] = [d \in Cells |-> m[k][d]]
  BY <1>1
<1>3. w = [k \in Junks |-> IF k = j THEN [m[j] EXCEPT ![c] = v] ELSE m[k]]
  BY <1>1 DEF Wrote
<1>4. [m[j] EXCEPT ![c] = v] = [d \in Cells |-> IF d = c THEN v ELSE m[j][d]]
  BY <1>2
<1>5. w = [k \in Junks |-> [d \in Cells |-> IF k = j /\ d = c THEN v ELSE m[k][d]]]
  BY <1>2, <1>3, <1>4
<1>6. \A k \in Junks \ {j} : w[k] = m[k]
  BY <1>3
<1>7. \A k \in Junks, d \in Cells : w[k][d] \in CellValues(d)
  BY <1>5 DEF MemOK
<1>8. MemOK(w)
  BY <1>5, <1>7 DEF MemOK
<1>. QED
  BY <1>5, <1>6, <1>8

-----------------------------------------------------------------------------
(***************************************************************************)
(* The inductive invariant.  A file marked whole is the row of cells its   *)
(* tape entry speaks of.  Unless others disturbed it, the junk a dump      *)
(* copies is what the tape entry says, and the file has the cells in front *)
(* of pos; if others did no more than push to it, the queue of the tape    *)
(* entry is the beginning of its queue, and the file has what it needs of  *)
(* that in front of pos.  A load that nobody disturbed has brought over    *)
(* the cells in front of pos.  This is needed because RoundTrip and        *)
(* PushesHarmNoDump speak of the end of calls, and the copies are made     *)
(* long before.                                                            *)
(***************************************************************************)
IsEntry(t) == t = [of |-> t.of, label |-> t.label, q |-> t.q, whole |-> t.whole]

FileTrue(f) ==
  /\ IsEntry(tape[f])
  /\ tape[f].whole =>
       /\ files[f] = [c \in Cells |-> files[f][c]]
       /\ tape[f].of # 0 => /\ tape[f].label = files[f][Label]
                            /\ files[f][Label].home = tape[f].of
                            /\ tape[f].q = RowQueue(files[f])

(***************************************************************************)
(* What a file has of the queue q of the row, as far as the copy came.     *)
(***************************************************************************)
CopiedQueue(file, row, q, pos) ==
  /\ pos > ReadPos => file[ReadPos] = row[ReadPos]
  /\ pos > CountPos => DOMAIN q \subseteq 1 .. file[CountPos]
  /\ \A i \in DOMAIN q :
       LET c == Slot(row[ReadPos] + i - 1) IN c < pos => file[c] = q[i]

DumpTrue(p) ==
  pc[p] = "dump" =>
    LET f == job[p].file
        from == job[p].from
        pos == job[p].pos
    IN
      /\ ~tape[f].whole
      /\ files[f] = [c \in 1 .. pos - 1 |-> files[f][c]]
      /\ ~disturbed[p] =>
           /\ \A c \in Cells : c < pos => files[f][c] = mem[from][c]
           /\ tape[f].of # 0 => /\ tape[f].of = from
                                /\ tape[f].label = mem[from][Label]
                                /\ mem[from][Label].home = from
                                /\ tape[f].q = RowQueue(mem[from])
      /\ ~spoiled[p] /\ tape[f].of # 0 =>
           /\ BeginsWith(tape[f].q, RowQueue(mem[from]))
           /\ CopiedQueue(files[f], mem[from], tape[f].q, pos)

LoadTrue(p) ==
  pc[p] = "load" /\ ~disturbed[p] =>
    \A c \in Cells : c < job[p].pos => mem[job[p].from][c] = files[job[p].file][c]

ProcTrue(p) ==
  /\ ~Copying(p) => ~disturbed[p]
  /\ pc[p] # "dump" => ~spoiled[p]
  /\ DumpTrue(p) /\ LoadTrue(p)

IInv ==
  /\ TypeOK
  /\ \A f \in DOMAIN files : FileTrue(f)
  /\ \A p \in Procs : ProcTrue(p)

LEMMA TypeMem == TypeOK => MemOK(mem)
  BY DEF TypeOK, Shape, MemOK

LEMMA Homes == ASSUME TypeOK, NEW j \in Junks PROVE Home(j) \in Junks
<1>1. mem[j][Label] \in Labels
  BY CellFacts DEF TypeOK
<1>. QED
  BY <1>1 DEF Labels, Home

LEMMA OneCopier ==
  ASSUME TypeOK, NEW p \in Procs, NEW q \in Procs, p # q,
         pc[q] \in {"path", "open", "dump", "take", "label", "load"} \/ Calls[q] \cap {"dump", "load"} # {}
  PROVE  pc[p] \notin {"path", "open", "dump", "take", "label", "load"}
<1>1. Calls[q] \cap {"dump", "load"} # {}
  BY DEF TypeOK, Shape, JobFits
<1>. QED
  BY <1>1, DumpLoadAssumption DEF TypeOK, Shape, JobFits

LEMMA InitHolds == Init => IInv
<1>. SUFFICES ASSUME Init PROVE IInv
  OBVIOUS
<1>. USE DEF Init
<1>1. \A j \in Junks, n \in Names : /\ Fresh(j, n) = [c \in Cells |-> Fresh(j, n)[c]]
                                    /\ \A c \in Cells : Fresh(j, n)[c] \in CellValues(c)
                                    /\ Fresh(j, n)[Label].home = j
  <2>. SUFFICES ASSUME NEW j \in Junks, NEW n \in Names
                PROVE  /\ Fresh(j, n) = [c \in Cells |-> Fresh(j, n)[c]]
                       /\ \A c \in Cells : Fresh(j, n)[c] \in CellValues(c)
                       /\ Fresh(j, n)[Label].home = j
    OBVIOUS
  <2>1. Fresh(j, n)[Label].home = j /\ Fresh(j, n)[Label] \in CellValues(Label)
    BY CellFacts DEF Fresh, Labels
  <2>2. ASSUME NEW c \in Cells, c # Label PROVE 0 \in CellValues(c)
    <3>1. c \in Slots \/ c = ReadPos \/ c = CountPos
      BY <2>2, CellFacts DEF Cells, Slots, Label, ReadPos, CountPos
    <3>. QED
      BY <3>1, CellFacts, DumpLoadAssumption DEF Elems
  <2>. QED
    BY <2>1, <2>2 DEF Fresh
<1>2. MemOK(mem)
  BY <1>1, DumpLoadAssumption DEF MemOK, Junks
<1> DEFINE row == files[OlderFile]
<1>3. /\ row = [c \in Cells |-> row[c]]
      /\ \A c \in Cells : row[c] \in CellValues(c)
      /\ row[Label] = Fresh(1, Older)[Label] /\ row[ReadPos] = 0
      /\ row[CountPos] = 1 /\ row[Slot(0)] = 1
  <2>1. 1 \in Junks /\ Older \in Names /\ Slot(0) \in Slots
    BY DumpLoadAssumption, SlotIsSlot DEF Junks
  <2>2. row = [Fresh(1, Older) EXCEPT ![CountPos] = 1, ![Slot(0)] = 1]
    OBVIOUS
  <2>3. \A c \in Cells : row[c] = IF c = Slot(0) \/ c = CountPos THEN 1 ELSE Fresh(1, Older)[c]
    BY <1>1, <2>1, <2>2, CellFacts
  <2>4. row = [c \in Cells |-> row[c]]
    BY <1>1, <2>1, <2>2, CellFacts
  <2>5. 1 \in CellValues(Slot(0)) /\ 1 \in CellValues(CountPos)
    BY <2>1, CellFacts, DumpLoadAssumption DEF Elems
  <2>6. Fresh(1, Older)[ReadPos] = 0
    BY CellFacts DEF Fresh
  <2>. QED
    BY <1>1, <2>1, <2>3, <2>4, <2>5, <2>6, CellFacts
<1>4. /\ DOMAIN files = {OlderFile} /\ DOMAIN tape = {OlderFile} /\ OlderFile \in Files
      /\ \E n \in 0 .. Last : row = [c \in 1 .. n |-> row[c]]
  <2>1. OlderFile \in Files
    BY DumpLoadAssumption DEF OlderFile, Files
  <2>2. Last \in 0 .. Last /\ row = [c \in 1 .. Last |-> row[c]]
    BY <1>3, CellFacts DEF Cells
  <2>. QED
    BY <2>1, <2>2
<1>5. /\ pc \in [Procs -> PCs] /\ job \in [Procs -> Jobs]
      /\ disturbed \in [Procs -> BOOLEAN] /\ spoiled \in [Procs -> BOOLEAN]
      /\ \A p \in Procs : JobFits(p)
  <2>1. NoJob \in Jobs
    BY CellFacts, DumpLoadAssumption DEF Jobs, NoJob
  <2>2. job \in [Procs -> Jobs]
    BY <2>1
  <2>. QED
    BY <2>2 DEF PCs, JobFits, Copying
<1>6. TypeOK
  <2>1. Shape
    BY <1>2, <1>4, <1>5 DEF Shape, MemOK
  <2>2. \A f \in DOMAIN files : \A c \in DOMAIN files[f] : files[f][c] \in CellValues(c)
    <3>1. DOMAIN row = Cells
      BY <1>3
    <3>. QED
      BY <1>3, <1>4, <3>1
  <2>3. pushed \in 0 .. MaxPushes /\ calls \in 0 .. MaxCalls
    BY DumpLoadAssumption
  <2>. QED
    BY <1>2, <2>1, <2>2, <2>3 DEF TypeOK, MemOK
<1>7. FileTrue(OlderFile)
  <2>1. tape[OlderFile] = [of |-> 1, label |-> Fresh(1, Older)[Label], q |-> <<1>>, whole |-> TRUE]
    OBVIOUS
  <2>2. RowQueue(row) = [i \in 1 .. 1 |-> row[Slot(0 + i - 1)]]
    BY <1>3 DEF RowQueue
  <2>3. RowQueue(row) = [i \in 1 .. 1 |-> 1]
    BY <2>2, <1>3
  <2>4. <<1>> = [i \in 1 .. 1 |-> 1]
    OBVIOUS
  <2>5. row[Label].home = 1
    <3>1. 1 \in Junks /\ Older \in Names
      BY DumpLoadAssumption DEF Junks
    <3>2. Fresh(1, Older)[Label].home = 1
      BY <1>1, <3>1
    <3>. QED
      BY <1>3, <3>2
  <2>. QED
    BY <1>3, <2>1, <2>3, <2>4, <2>5 DEF FileTrue, IsEntry
<1>8. \A p \in Procs : ProcTrue(p)
  BY DEF ProcTrue, DumpTrue, LoadTrue, Copying
<1>. QED
  BY <1>4, <1>6, <1>7, <1>8 DEF IInv

-----------------------------------------------------------------------------
(***************************************************************************)
(* What the writes do to the junks: the cells keep their types, and only   *)
(* junks that Disturb is told of change.                                   *)
(***************************************************************************)
Touches(js) == \A k \in Junks \ js : mem'[k] = mem[k]

LEMMA LabelEffect ==
  ASSUME TypeOK, NEW j \in Junks, NEW n \in Names \cup {NoName}, NEW flag \in BOOLEAN,
         SetFlag(j, flag) \/ SetName(j, n)
  PROVE  MemOK(mem') /\ Touches({j})
<1>1. MemOK(mem)
  BY TypeMem
<1>2. mem[j][Label] \in Labels
  BY <1>1, CellFacts DEF MemOK
<1>3. PICK v \in CellValues(Label) : Wrote(mem, j, Label, v, mem')
  <2>1. [mem[j][Label] EXCEPT !.assigned = flag] \in CellValues(Label)
    BY <1>2, CellFacts DEF Labels
  <2>2. [mem[j][Label] EXCEPT !.name = n] \in CellValues(Label)
    BY <1>2, CellFacts DEF Labels
  <2>. QED
    BY <2>1, <2>2 DEF SetFlag, SetName, Wrote
<1>. QED
  BY <1>1, <1>3, WriteCell, CellFacts DEF Touches

LEMMA ClearEffect ==
  ASSUME TypeOK, NEW q \in Procs, NEW j \in Junks, Clear(q, j)
  PROVE  MemOK(mem') /\ Touches({j, Home(j)})
<1>1. MemOK(mem)
  BY TypeMem
<1>2. \A c \in Slots \cup {ReadPos, CountPos} : 0 \in CellValues(c)
  BY CellFacts, DumpLoadAssumption DEF Elems
<1>3. mem' = [k \in Junks |-> [c \in Cells |->
               IF (k = j /\ c \in {ReadPos, CountPos}) \/ (k = Home(j) /\ c \in Slots)
               THEN 0 ELSE mem[k][c]]]
  BY DEF Clear
<1>4. MemOK(mem')
  <2>1. \A k \in Junks, c \in Cells : mem'[k][c] \in CellValues(c)
    BY <1>1, <1>2, <1>3 DEF MemOK
  <2>2. mem' = [k \in Junks |-> [c \in Cells |-> mem'[k][c]]]
    BY <1>3
  <2>. QED
    BY <2>1, <2>2 DEF MemOK
<1>5. ASSUME NEW k \in Junks, k # j, k # Home(j) PROVE mem'[k] = mem[k]
  <2>1. mem'[k] = [c \in Cells |-> mem[k][c]]
    BY <1>3, <1>5
  <2>2. mem[k] = [c \in Cells |-> mem[k][c]]
    BY <1>1 DEF MemOK
  <2>. QED
    BY <2>1, <2>2
<1>. QED
  BY <1>4, <1>5 DEF Touches

(***************************************************************************)
(* The queue of junk k at most grew.                                       *)
(***************************************************************************)
Grew(k) ==
  /\ mem'[k][Label] = mem[k][Label] /\ mem'[k][ReadPos] = mem[k][ReadPos]
  /\ mem'[k][CountPos] >= mem[k][CountPos]
  /\ \A i \in 1 .. mem[k][CountPos] :
       mem'[k][Slot(mem[k][ReadPos] + i - 1)] = mem[k][Slot(mem[k][ReadPos] + i - 1)]

LEMMA GrewKeeps ==
  ASSUME TypeOK, MemOK(mem'), NEW k \in Junks, Grew(k), NEW q, BeginsWith(q, RowQueue(mem[k]))
  PROVE  BeginsWith(q, RowQueue(mem'[k]))
<1>1. mem[k][CountPos] \in Nat /\ mem'[k][CountPos] \in Nat
  BY CellFacts, DumpLoadAssumption DEF TypeOK, MemOK
<1>2. 1 .. mem[k][CountPos] \subseteq 1 .. mem'[k][CountPos]
  BY <1>1 DEF Grew
<1>. QED
  BY <1>2 DEF Grew, BeginsWith, RowQueue

PushWrites(j) ==
  mem' = [mem EXCEPT ![Home(j)][Slot(Read(j) + Count(j))] = pushed + 1,
                     ![j][CountPos] = Count(j) + 1]

LEMMA PushEffect ==
  ASSUME TypeOK, pushed < MaxPushes, NEW j \in Junks, Count(j) < NumSlots, PushWrites(j)
  PROVE  /\ MemOK(mem') /\ Touches({j, Home(j)})
         /\ \A k \in {j} \cap {Home(j)} : Grew(k)
<1> DEFINE c == Slot(Read(j) + Count(j))
           m == [mem EXCEPT ![Home(j)][c] = pushed + 1]
<1>1. MemOK(mem) /\ Home(j) \in Junks
  BY TypeMem, Homes
<1>2. Read(j) \in Int /\ Count(j) \in Nat
  BY <1>1, CellFacts, DumpLoadAssumption DEF MemOK, Read, Count
<1>3. c \in Slots
  BY <1>2, SlotIsSlot
<1>4. pushed + 1 \in CellValues(c)
  BY <1>3, CellFacts, DumpLoadAssumption DEF TypeOK, Elems
<1>5. /\ MemOK(m)
      /\ m = [k \in Junks |-> [d \in Cells |-> IF k = Home(j) /\ d = c THEN pushed + 1 ELSE mem[k][d]]]
      /\ \A k \in Junks \ {Home(j)} : m[k] = mem[k]
  <2>1. Wrote(mem, Home(j), c, pushed + 1, m)
    BY DEF Wrote
  <2>. HIDE DEF c, m
  <2>. QED
    BY <1>1, <1>3, <1>4, <2>1, WriteCell, CellFacts
<1>7. Count(j) + 1 \in CellValues(CountPos)
  BY <1>2, CellFacts, DumpLoadAssumption
<1>6. CountPos \in Cells
  BY CellFacts
<1>9. Wrote(m, j, CountPos, Count(j) + 1, mem')
  BY DEF Wrote, PushWrites
<1>10. /\ MemOK(mem') /\ \A k \in Junks \ {j} : mem'[k] = m[k]
       /\ mem' = [k \in Junks |-> [d \in Cells |->
                    IF k = j /\ d = CountPos THEN Count(j) + 1 ELSE m[k][d]]]
  <2>1. MemOK(m)
    BY <1>5
  <2>. HIDE DEF m, c
  <2>. QED
    BY <2>1, <1>6, <1>7, <1>9, WriteCell
<1>11. ASSUME Home(j) = j PROVE Grew(j)
  <2>. HIDE DEF m, c
  <2>1. \A d \in Cells : mem'[j][d] = IF d = CountPos THEN Count(j) + 1
                                      ELSE IF d = c THEN pushed + 1 ELSE mem[j][d]
    BY <1>5, <1>10, <1>11
  <2>2. mem'[j][Label] = mem[j][Label] /\ mem'[j][ReadPos] = mem[j][ReadPos]
    BY <1>3, <2>1, CellFacts
  <2>3. mem'[j][CountPos] >= mem[j][CountPos]
    BY <1>2, <2>1, CellFacts DEF Count
  <2>4. ASSUME NEW i \in 1 .. Count(j)
        PROVE  mem'[j][Slot(Read(j) + i - 1)] = mem[j][Slot(Read(j) + i - 1)]
    <3>1. Read(j) \in 0 .. NumSlots - 1 /\ Count(j) \in 0 .. NumSlots - 1
      BY <1>1, <1>2, CellFacts, DumpLoadAssumption DEF MemOK, Read
    <3>2. Slot(Read(j) + i - 1) # c
      BY <3>1, SlotsApart DEF c
    <3>3. Slot(Read(j) + i - 1) \in Slots
      BY <3>1, SlotIsSlot
    <3>. QED
      BY <2>1, <3>2, <3>3, CellFacts
  <2>. QED
    BY <2>2, <2>3, <2>4 DEF Grew, Read, Count
<1>. QED
  BY <1>5, <1>10, <1>11 DEF Touches

PopWrites(j) ==
  mem' = [mem EXCEPT ![j][ReadPos] = (Read(j) + 1) % NumSlots,
                     ![j][CountPos] = Count(j) - 1]

LEMMA PopEffect ==
  ASSUME TypeOK, NEW j \in Junks, Count(j) > 0, PopWrites(j)
  PROVE  MemOK(mem') /\ Touches({j})
<1> DEFINE r == (Read(j) + 1) % NumSlots
           m == [mem EXCEPT ![j][ReadPos] = r]
<1>1. MemOK(mem)
  BY TypeMem
<1>2. Read(j) \in Nat /\ Count(j) \in 0 .. NumSlots
  BY <1>1, CellFacts, DumpLoadAssumption DEF MemOK, Read, Count
<1>3. r \in CellValues(ReadPos)
  <2>1. NumSlots \in Nat \ {0}
    BY DumpLoadAssumption
  <2>2. r \in 0 .. NumSlots - 1
    BY <1>2, <2>1
  <2>. QED
    BY <2>2, CellFacts
<1>5. ReadPos \in Cells /\ CountPos \in Cells
  BY CellFacts
<1>4. /\ MemOK(m)
      /\ m = [k \in Junks |-> [d \in Cells |-> IF k = j /\ d = ReadPos THEN r ELSE mem[k][d]]]
      /\ \A k \in Junks \ {j} : m[k] = mem[k]
  <2>1. Wrote(mem, j, ReadPos, r, m)
    BY DEF Wrote
  <2>. HIDE DEF r, m
  <2>. QED
    BY <1>1, <1>3, <1>5, <2>1, WriteCell
<1>6. Count(j) - 1 \in CellValues(CountPos)
  BY <1>2, CellFacts, DumpLoadAssumption
<1>8. Wrote(m, j, CountPos, Count(j) - 1, mem')
  BY DEF Wrote, PopWrites
<1>9. MemOK(mem') /\ \A k \in Junks \ {j} : mem'[k] = m[k]
  <2>. HIDE DEF m
  <2>. QED
    BY <1>4, <1>5, <1>6, <1>8, WriteCell
<1>. QED
  BY <1>4, <1>9 DEF Touches

LEMMA LoadEffect ==
  ASSUME TypeOK, NEW q \in Procs, LoadCell(q)
  PROVE  /\ job[q].from \in Junks /\ job[q].pos \in Cells
         /\ job[q].file \in DOMAIN files
         /\ MemOK(mem') /\ Touches({job[q].from})
         /\ mem' = [k \in Junks |-> [d \in Cells |->
                      IF k = job[q].from /\ d = job[q].pos THEN files[job[q].file][job[q].pos]
                      ELSE mem[k][d]]]
<1> DEFINE f == job[q].file
           v == files[f][job[q].pos]
<1>1. MemOK(mem)
  BY TypeMem
<1>2. f \in DOMAIN files /\ job[q].from \in Junks
  BY DEF TypeOK, Shape, JobFits, Copying, LoadCell
<1>3. DOMAIN files[f] \subseteq Cells
  <2>1. PICK n \in 0 .. Last : files[f] = [c \in 1 .. n |-> files[f][c]]
    BY <1>2 DEF TypeOK, Shape
  <2>. QED
    BY <2>1, CellFacts DEF Cells
<1>4. job[q].pos \in Cells /\ v \in CellValues(job[q].pos)
  BY <1>2, <1>3 DEF LoadCell, TypeOK
<1>5. Wrote(mem, job[q].from, job[q].pos, v, mem')
  BY DEF LoadCell, Wrote
<1>. QED
  <2>. HIDE DEF v
  <2>1. MemOK(mem') /\ Touches({job[q].from})
    BY <1>1, <1>2, <1>4, <1>5, WriteCell DEF Touches
  <2>2. mem' = [k \in Junks |-> [d \in Cells |->
                      IF k = job[q].from /\ d = job[q].pos THEN v ELSE mem[k][d]]]
    BY <1>1, <1>2, <1>4, <1>5, WriteCell
  <2>. QED
    BY <1>2, <1>4, <2>1, <2>2 DEF v

-----------------------------------------------------------------------------
(***************************************************************************)
(* What a step of one process leaves to the others.                        *)
(***************************************************************************)
LEMMA OwnHistory ==
  ASSUME TypeOK, NEW q \in Procs, NEW js, NEW grown, Disturb(q, js, grown)
  PROVE  /\ disturbed' \in [Procs -> BOOLEAN] /\ spoiled' \in [Procs -> BOOLEAN]
         /\ disturbed'[q] = disturbed[q] /\ spoiled'[q] = spoiled[q]
<1>1. disturbed' \in [Procs -> BOOLEAN] /\ spoiled' \in [Procs -> BOOLEAN]
  BY DEF Disturb, TypeOK, Shape
<1>2. disturbed'[q] = disturbed[q]
  BY DEF Disturb, TypeOK, Shape
<1>3. spoiled'[q] = spoiled[q]
  BY DEF Disturb, TypeOK, Shape
<1>. QED
  BY <1>1, <1>2, <1>3

LEMMA BystanderKeeps ==
  ASSUME TypeOK, MemOK(mem'), NEW p \in Procs, ProcTrue(p), NEW q \in Procs, p # q,
         NEW js, NEW grown, Touches(js), Disturb(q, js, grown), UNCHANGED <<files, tape>>,
         \A k \in grown : Grew(k),
         pc'[p] = pc[p], job'[p] = job[p]
  PROVE  ProcTrue(p)'
<1>1. /\ disturbed'[p] <=> disturbed[p] \/ (Copying(p) /\ job[p].from \in js)
      /\ spoiled'[p] <=> spoiled[p] \/ (pc[p] = "dump" /\ job[p].from \in js \ grown)
  BY DEF Disturb
<1>2. Copying(p)' <=> Copying(p)
  BY DEF Copying
<1>3. Copying(p) => job[p].from \in Junks
  BY DEF TypeOK, Shape, JobFits
<1>4. Copying(p) /\ ~disturbed'[p] => ~disturbed[p] /\ mem'[job[p].from] = mem[job[p].from]
  BY <1>1, <1>3 DEF Touches
<1>5. DumpTrue(p)'
  <2>. SUFFICES ASSUME pc[p] = "dump" PROVE DumpTrue(p)'
    BY DEF DumpTrue
  <2> DEFINE f == job[p].file
             from == job[p].from
             pos == job[p].pos
  <2>1. DumpTrue(p) /\ Copying(p)
    BY DEF ProcTrue, Copying
  <2>2. ~disturbed'[p] => ~disturbed[p] /\ mem'[from] = mem[from]
    BY <1>4, <2>1
  <2>3. ASSUME ~spoiled'[p], tape[f].of # 0
        PROVE  /\ BeginsWith(tape[f].q, RowQueue(mem'[from]))
               /\ CopiedQueue(files[f], mem'[from], tape[f].q, pos)
    <3>1. /\ BeginsWith(tape[f].q, RowQueue(mem[from]))
          /\ CopiedQueue(files[f], mem[from], tape[f].q, pos)
      BY <1>1, <2>1, <2>3 DEF DumpTrue
    <3>2. CASE from \notin js
      BY <1>3, <2>1, <3>1, <3>2 DEF Touches
    <3>3. CASE from \in grown
      <4>1. from \in Junks /\ Grew(from)
        BY <1>3, <2>1, <3>3
      <4>2. BeginsWith(tape[f].q, RowQueue(mem'[from]))
        BY <3>1, <4>1, GrewKeeps
      <4>3. mem'[from][ReadPos] = mem[from][ReadPos]
        BY <4>1 DEF Grew
      <4>. QED
        BY <3>1, <4>2, <4>3 DEF CopiedQueue
    <3>. QED
      BY <1>1, <2>3, <3>2, <3>3
  <2>4. /\ ~tape[f].whole
        /\ files[f] = [c \in 1 .. pos - 1 |-> files[f][c]]
        /\ ~disturbed[p] =>
             /\ \A c \in Cells : c < pos => files[f][c] = mem[from][c]
             /\ tape[f].of # 0 => /\ tape[f].of = from
                                  /\ tape[f].label = mem[from][Label]
                                  /\ mem[from][Label].home = from
                                  /\ tape[f].q = RowQueue(mem[from])
    BY <2>1 DEF DumpTrue
  <2>5. tape' = tape /\ files' = files
    OBVIOUS
  <2>. QED
    BY <2>2, <2>3, <2>4, <2>5 DEF DumpTrue
<1>6. LoadTrue(p)'
  BY <1>4 DEF LoadTrue, ProcTrue, Copying
<1>7. ~Copying(p)' => ~disturbed'[p]
  BY <1>1, <1>2 DEF ProcTrue
<1>8. pc'[p] # "dump" => ~spoiled'[p]
  BY <1>1 DEF ProcTrue
<1>. QED
  BY <1>5, <1>6, <1>7, <1>8 DEF ProcTrue

LEMMA ProcSame ==
  ASSUME NEW p \in Procs, ProcTrue(p), mem' = mem, files' = files, tape' = tape,
         pc'[p] = pc[p], job'[p] = job[p], disturbed'[p] = disturbed[p],
         spoiled'[p] = spoiled[p]
  PROVE  ProcTrue(p)'
<1>1. DumpTrue(p)'
  <2>. SUFFICES ASSUME pc[p] = "dump" PROVE DumpTrue(p)'
    BY DEF DumpTrue
  <2>1. DumpTrue(p)
    BY DEF ProcTrue
  <2>. QED
    BY <2>1 DEF DumpTrue
<1>2. LoadTrue(p)'
  BY DEF ProcTrue, LoadTrue
<1>. QED
  BY <1>1, <1>2 DEF ProcTrue, Copying

LEMMA JobStillFits ==
  ASSUME TypeOK, NEW p \in Procs, pc'[p] = pc[p], job'[p] = job[p],
         DOMAIN files \subseteq DOMAIN files'
  PROVE  JobFits(p)'
  BY DEF TypeOK, Shape, JobFits, Copying

(***************************************************************************)
(* A step that writes junks.                                               *)
(***************************************************************************)
LEMMA WriterStep ==
  ASSUME IInv, NEW q \in Procs, NEW js, NEW grown, NEW x \in PCs, NEW y \in Jobs,
         MemOK(mem'), Touches(js), \A k \in grown : Grew(k), Disturb(q, js, grown),
         UNCHANGED <<files, tape>>,
         pc' = [pc EXCEPT ![q] = x], job' = [job EXCEPT ![q] = y],
         pushed' \in 0 .. MaxPushes, calls' \in 0 .. MaxCalls,
         JobFits(q)', LoadTrue(q)', x # "dump",
         pc[q] # "dump", x # "load" => ~disturbed[q]
  PROVE  IInv'
<1>. USE DEF IInv
<1>1. \A p \in Procs : p # q => pc'[p] = pc[p] /\ job'[p] = job[p]
  OBVIOUS
<1>2. pc' \in [Procs -> PCs] /\ job' \in [Procs -> Jobs] /\ pc'[q] = x
  BY DEF TypeOK, Shape
<1>3. \A p \in Procs : JobFits(p)'
  BY <1>1, JobStillFits
<1>4. TypeOK'
  <2>1. Shape'
    BY <1>2, <1>3, OwnHistory DEF TypeOK, Shape, MemOK
  <2>. QED
    BY <2>1 DEF TypeOK, MemOK
<1>5. \A f \in DOMAIN files' : FileTrue(f)'
  BY DEF FileTrue, RowQueue
<1>6. ProcTrue(q)'
  <2>1. DumpTrue(q)'
    BY <1>2 DEF DumpTrue
  <2>2. spoiled'[q] = FALSE /\ disturbed'[q] = disturbed[q]
    BY OwnHistory DEF ProcTrue
  <2>. QED
    BY <1>2, <2>1, <2>2 DEF ProcTrue, Copying
<1>7. \A p \in Procs : ProcTrue(p)'
  BY <1>1, <1>6, BystanderKeeps
<1>. QED
  BY <1>4, <1>5, <1>7

(***************************************************************************)
(* A step that leaves the junks alone.                                     *)
(***************************************************************************)
LEMMA QuietStep ==
  ASSUME IInv, NEW q \in Procs, NEW x \in PCs, NEW y \in Jobs,
         UNCHANGED mem,
         pc' = [pc EXCEPT ![q] = x], job' = [job EXCEPT ![q] = y],
         UNCHANGED pushed, calls' \in 0 .. MaxCalls,
         disturbed' \in [Procs -> BOOLEAN], spoiled' \in [Procs -> BOOLEAN],
         \A p \in Procs \ {q} : disturbed'[p] = disturbed[p] /\ spoiled'[p] = spoiled[p],
         UNCHANGED <<files, tape>> \/ pc[q] \in {"open", "dump"},
         DOMAIN files \subseteq DOMAIN files', DOMAIN files' \subseteq Files,
         DOMAIN tape' = DOMAIN files',
         \A f \in DOMAIN files' :
           /\ \E n \in 0 .. Last : files'[f] = [c \in 1 .. n |-> files'[f][c]]
           /\ \A c \in DOMAIN files'[f] : files'[f][c] \in CellValues(c)
           /\ FileTrue(f)',
         JobFits(q)', ProcTrue(q)'
  PROVE  IInv'
<1>. USE DEF IInv
<1>1. \A p \in Procs : p # q => pc'[p] = pc[p] /\ job'[p] = job[p]
  OBVIOUS
<1>2. pc' \in [Procs -> PCs] /\ job' \in [Procs -> Jobs]
  BY DEF TypeOK, Shape
<1>3. \A p \in Procs : JobFits(p)'
  BY <1>1, JobStillFits
<1>4. TypeOK'
  <2>1. Shape'
    BY <1>2, <1>3 DEF TypeOK, Shape
  <2>2. \A j \in Junks, c \in Cells : mem'[j][c] \in CellValues(c)
    BY DEF TypeOK
  <2>. QED
    BY <2>1, <2>2 DEF TypeOK
<1>5. ASSUME NEW p \in Procs, p # q PROVE ProcTrue(p)'
  <2>1. CASE UNCHANGED <<files, tape>>
    <3>1. /\ pc'[p] = pc[p] /\ job'[p] = job[p] /\ mem' = mem /\ files' = files /\ tape' = tape
          /\ disturbed'[p] = disturbed[p] /\ spoiled'[p] = spoiled[p]
      BY <1>1, <1>5, <2>1
    <3>. QED
      BY <3>1, ProcSame
  <2>2. CASE pc[q] \in {"open", "dump"}
    <3>1. pc[p] \notin {"open", "dump", "take", "load"}
      BY <1>5, <2>2, OneCopier
    <3>2. pc'[p] = pc[p] /\ disturbed'[p] = disturbed[p] /\ spoiled'[p] = spoiled[p] /\ ProcTrue(p)
      BY <1>1, <1>5
    <3>. QED
      BY <3>1, <3>2 DEF ProcTrue, DumpTrue, LoadTrue, Copying
  <2>. QED
    BY <2>1, <2>2
<1>. QED
  BY <1>4, <1>5

-----------------------------------------------------------------------------
(***************************************************************************)
(* Jobs.                                                                   *)
(***************************************************************************)
LEMMA IdleJob == NoJob \in Jobs
  BY CellFacts, DumpLoadAssumption DEF Jobs, NoJob

IsNewJob(z, n, f, j) == z = [NoJob EXCEPT !.name = n, !.file = f, !.junk = j]

LEMMA NewJob ==
  ASSUME NEW n \in Names \cup {NoName}, NEW f \in Files \cup {NoFile}, NEW j \in 0 .. NumJunks,
         NEW z, IsNewJob(z, n, f, j)
  PROVE  z \in Jobs /\ z.name = n /\ z.file = f /\ z.junk = j
  BY IdleJob DEF Jobs, NoJob, IsNewJob

IsCopyJob(z, y, j, k) == z = [y EXCEPT !.junk = j, !.from = k, !.pos = 1]

LEMMA CopyJob ==
  ASSUME NEW y \in Jobs, NEW j \in Junks, NEW k \in Junks,
         NEW z, IsCopyJob(z, y, j, k)
  PROVE  z \in Jobs /\ z.name = y.name /\ z.file = y.file /\ z.junk = j /\ z.from = k /\ z.pos = 1
<1>1. j \in 0 .. NumJunks /\ k \in 0 .. NumJunks /\ 1 \in 0 .. Last + 1
  BY CellFacts, DumpLoadAssumption DEF Junks
<1>. QED
  BY <1>1 DEF Jobs, IsCopyJob

LEMMA NextCell ==
  ASSUME NEW y \in Jobs, y.pos \in Cells, NEW z, z = [y EXCEPT !.pos = @ + 1]
  PROVE  /\ z \in Jobs /\ z.name = y.name /\ z.file = y.file /\ z.junk = y.junk /\ z.from = y.from
         /\ z.pos = y.pos + 1
<1>1. y.pos + 1 \in 0 .. Last + 1
  BY CellFacts DEF Cells
<1>. QED
  BY <1>1 DEF Jobs

-----------------------------------------------------------------------------
(***************************************************************************)
(* The steps.                                                              *)
(***************************************************************************)
LEMMA LabelStep ==
  ASSUME IInv, NEW q \in Procs, AssignJunk(q) \/ UnassignJunk(q)
  PROVE  IInv'
<1>. USE DEF IInv
<1>1. PICK j \in Junks, m \in Names \cup {NoName}, flag \in BOOLEAN :
        SetFlag(j, flag) /\ Begin(q, "name", m, NoFile, j) /\ Disturb(q, {j}, {})
  BY DEF AssignJunk, UnassignJunk
<1>2. /\ pc[q] = "idle" /\ UNCHANGED <<files, tape, pushed>>
      /\ calls' = calls + 1 /\ calls < MaxCalls
  BY DEF AssignJunk, UnassignJunk, CountedCall, Call
<1> DEFINE y == [NoJob EXCEPT !.name = m, !.file = NoFile, !.junk = j]
<1>3. y \in Jobs /\ y.junk = j
  <2>1. j \in 0 .. NumJunks
    BY DumpLoadAssumption DEF Junks
  <2>2. IsNewJob(y, m, NoFile, j)
    BY DEF IsNewJob
  <2>3. m \in Names \cup {NoName} /\ NoFile \in Files \cup {NoFile}
    OBVIOUS
  <2>. HIDE DEF y
  <2>. QED
    BY <2>1, <2>2, <2>3, NewJob
<1>4. pc' = [pc EXCEPT ![q] = "name"] /\ job' = [job EXCEPT ![q] = y]
  BY <1>1 DEF Begin, Goto
<1>. HIDE DEF y
<1>5. pc'[q] = "name" /\ job'[q] = y /\ "name" \in PCs
  BY <1>4 DEF TypeOK, Shape, PCs
<1>6. JobFits(q)' /\ LoadTrue(q)'
  BY <1>3, <1>5 DEF JobFits, LoadTrue, Copying
<1>7. MemOK(mem') /\ Touches({j})
  <2>1. NoName \in Names \cup {NoName}
    OBVIOUS
  <2>. QED
    BY <1>1, <2>1, LabelEffect
<1>8. ~disturbed[q]
  BY <1>2 DEF ProcTrue, Copying
<1>9. pushed' \in 0 .. MaxPushes /\ calls' \in 0 .. MaxCalls
  BY <1>2, DumpLoadAssumption DEF TypeOK
<1>20. PICK js, grown : /\ MemOK(mem') /\ Touches(js) /\ Disturb(q, js, grown)
                        /\ \A k \in grown : Grew(k)
  BY <1>1, <1>7
<1>. QED
  BY <1>1, <1>2, <1>3, <1>4, <1>5, <1>6, <1>7, <1>8, <1>9, <1>20, WriterStep

LEMMA NameStep ==
  ASSUME IInv, NEW q \in Procs, NameJunk(q)
  PROVE  IInv'
<1>. USE DEF IInv
<1> DEFINE j == job[q].junk
<1>1. /\ pc[q] = "name" /\ j \in Junks /\ job[q] \in Jobs
      /\ SetName(j, job[q].name) /\ Disturb(q, {j}, {})
      /\ UNCHANGED <<files, tape, job, pushed, calls>>
      /\ pc' = [pc EXCEPT ![q] = "clear"]
  BY DEF NameJunk, Goto, counters, TypeOK, Shape, JobFits
<1>. HIDE DEF j
<1>2. MemOK(mem') /\ Touches({j})
  <2>1. job[q].name \in Names \cup {NoName}
    BY <1>1 DEF Jobs
  <2>. QED
    BY <1>1, <2>1, LabelEffect
<1>3. pc'[q] = "clear" /\ "clear" \in PCs /\ job' = [job EXCEPT ![q] = job[q]]
  BY <1>1 DEF TypeOK, Shape, PCs
<1>4. JobFits(q)' /\ LoadTrue(q)'
  BY <1>1, <1>3 DEF JobFits, LoadTrue, Copying, j
<1>5. ~disturbed[q] /\ pushed' \in 0 .. MaxPushes /\ calls' \in 0 .. MaxCalls
  BY <1>1 DEF ProcTrue, Copying, TypeOK
<1>20. PICK js, grown : /\ MemOK(mem') /\ Touches(js) /\ Disturb(q, js, grown)
                        /\ \A k \in grown : Grew(k)
  BY <1>1, <1>2
<1>. QED
  BY <1>1, <1>2, <1>3, <1>4, <1>5, <1>20, WriterStep

(***************************************************************************)
(* Pushes, pops and clears with a pointer at hand.                         *)
(***************************************************************************)
LEMMA UseStep ==
  ASSUME IInv, NEW q \in Procs, ClearJunk(q) \/ PushElem(q) \/ PopElemData(q)
  PROVE  IInv'
<1>. USE DEF IInv
<1>1. \A j \in Held[q] : j \in Junks
  BY DumpLoadAssumption DEF Junks
<1>2. /\ pc[q] = "idle" /\ UNCHANGED <<files, tape, pc, job, calls>>
      /\ pushed' \in 0 .. MaxPushes
  <2>1. pc[q] = "idle" /\ UNCHANGED <<files, tape, pc, job, calls>>
    BY DEF ClearJunk, PushElem, PopElemData, Call, Clear, counters
  <2>2. UNCHANGED pushed \/ (pushed < MaxPushes /\ pushed' = pushed + 1)
    BY DEF ClearJunk, PushElem, PopElemData, Clear, counters
  <2>. QED
    BY <2>1, <2>2, DumpLoadAssumption DEF TypeOK
<1>3. PICK js, grown : /\ MemOK(mem') /\ Touches(js) /\ Disturb(q, js, grown)
                       /\ \A k \in grown : Grew(k)
  <2>1. CASE ClearJunk(q)
    BY <1>1, <2>1, ClearEffect DEF ClearJunk
  <2>2. CASE PushElem(q)
    <3>1. PICK j \in Held[q] :
            /\ Count(j) < NumSlots /\ PushWrites(j)
            /\ Disturb(q, {j, Home(j)}, {j} \cap {Home(j)})
      BY <2>2 DEF PushElem, PushWrites
    <3>2. pushed < MaxPushes
      BY <2>2 DEF PushElem
    <3>. QED
      BY <1>1, <3>1, <3>2, PushEffect
  <2>3. CASE PopElemData(q)
    <3>1. PICK j \in Held[q] : Count(j) > 0 /\ PopWrites(j) /\ Disturb(q, {j}, {})
      BY <2>3 DEF PopElemData, PopWrites
    <3>. QED
      BY <1>1, <3>1, PopEffect
  <2>. QED
    BY <2>1, <2>2, <2>3
<1>4. /\ pc' = [pc EXCEPT ![q] = "idle"] /\ job' = [job EXCEPT ![q] = job[q]]
      /\ pc'[q] = "idle" /\ "idle" \in PCs /\ job[q] \in Jobs
  BY <1>2 DEF TypeOK, Shape, PCs
<1>5. JobFits(q)' /\ LoadTrue(q)'
  BY <1>4 DEF JobFits, LoadTrue, Copying
<1>6. ~disturbed[q] /\ calls' \in 0 .. MaxCalls
  BY <1>2 DEF ProcTrue, Copying, TypeOK
<1>. QED
  BY <1>2, <1>3, <1>4, <1>5, <1>6, WriterStep

LEMMA ClearAndReturnStep ==
  ASSUME IInv, NEW q \in Procs, ClearAndReturn(q)
  PROVE  IInv'
<1>. USE DEF IInv
<1> DEFINE j == job[q].junk
<1>1. pc[q] = "clear" /\ j \in Junks
  BY DEF ClearAndReturn, TypeOK, Shape, JobFits
<1>2. Clear(q, j) /\ Disturb(q, {j, Home(j)}, {})
  BY DEF ClearAndReturn
<1>. HIDE DEF j
<1>3. MemOK(mem') /\ Touches({j, Home(j)})
  BY <1>1, <1>2, ClearEffect
<1>4. UNCHANGED <<files, tape, pushed, calls>>
  BY <1>2 DEF Clear, counters
<1>5. /\ pc' = [pc EXCEPT ![q] = "idle"] /\ job' = [job EXCEPT ![q] = NoJob]
      /\ pc'[q] = "idle" /\ "idle" \in PCs /\ NoJob \in Jobs
  BY CellFacts, DumpLoadAssumption DEF ClearAndReturn, EndCall, Goto, TypeOK, Shape, PCs, Jobs, NoJob
<1>6. JobFits(q)' /\ LoadTrue(q)'
  BY <1>5 DEF JobFits, LoadTrue, Copying
<1>7. ~disturbed[q] /\ pushed' \in 0 .. MaxPushes /\ calls' \in 0 .. MaxCalls
  BY <1>1, <1>4 DEF ProcTrue, Copying, TypeOK
<1>20. PICK js, grown : /\ MemOK(mem') /\ Touches(js) /\ Disturb(q, js, grown)
                        /\ \A k \in grown : Grew(k)
  BY <1>2, <1>3
<1>. QED
  BY <1>1, <1>2, <1>3, <1>4, <1>5, <1>6, <1>7, <1>20, WriterStep

LEMMA TakeFreeStep ==
  ASSUME IInv, NEW q \in Procs, TakeFree(q)
  PROVE  IInv'
<1>. USE DEF IInv
<1>1. PICK j \in Junks : /\ SetFlag(j, TRUE) /\ Disturb(q, {j}, {})
                         /\ job' = [job EXCEPT ![q].junk = j]
  BY DEF TakeFree, IsFirst
<1>2. /\ pc[q] = "take" /\ job[q].file \in DOMAIN files /\ job[q] \in Jobs
      /\ Calls[q] \cap {"dump", "load"} # {}
      /\ UNCHANGED <<files, tape, pushed, calls>>
      /\ pc' = [pc EXCEPT ![q] = "label"]
  BY DEF TakeFree, Goto, TypeOK, Shape, JobFits, counters
<1> DEFINE y == [job[q] EXCEPT !.junk = j]
<1>3. y \in Jobs /\ y.junk = j /\ y.file = job[q].file
  <2>1. j \in 0 .. NumJunks
    BY DumpLoadAssumption DEF Junks
  <2>. QED
    BY <1>2, <2>1 DEF Jobs
<1>4. job' = [job EXCEPT ![q] = y]
  BY <1>1 DEF TypeOK, Shape
<1>. HIDE DEF y
<1>5. pc'[q] = "label" /\ job'[q] = y /\ "label" \in PCs
  BY <1>2, <1>4 DEF TypeOK, Shape, PCs
<1>6. JobFits(q)' /\ LoadTrue(q)'
  BY <1>2, <1>3, <1>5 DEF JobFits, LoadTrue, Copying
<1>7. MemOK(mem') /\ Touches({j})
  <2>1. NoName \in Names \cup {NoName} /\ TRUE \in BOOLEAN
    OBVIOUS
  <2>. QED
    BY <1>1, <2>1, LabelEffect
<1>8. ~disturbed[q] /\ pushed' \in 0 .. MaxPushes /\ calls' \in 0 .. MaxCalls
  BY <1>2 DEF ProcTrue, Copying, TypeOK
<1>20. PICK js, grown : /\ MemOK(mem') /\ Touches(js) /\ Disturb(q, js, grown)
                        /\ \A k \in grown : Grew(k)
  BY <1>1, <1>7
<1>. QED
  BY <1>1, <1>2, <1>3, <1>4, <1>5, <1>6, <1>7, <1>8, <1>20, WriterStep

LEMMA NameTakenStep ==
  ASSUME IInv, NEW q \in Procs, NameTaken(q)
  PROVE  IInv'
<1>. USE DEF IInv
<1> DEFINE j == job[q].junk
<1>1. SetName(j, job[q].name) /\ Copy(q, "load", j) /\ Disturb(q, {j}, {})
  BY DEF NameTaken
<1>2. /\ pc[q] = "label" /\ job[q].file \in DOMAIN files /\ job[q] \in Jobs /\ j \in Junks
      /\ Calls[q] \cap {"dump", "load"} # {}
      /\ UNCHANGED <<files, tape, pushed, calls>>
  BY DEF NameTaken, TypeOK, Shape, JobFits, counters
<1>. HIDE DEF j
<1> DEFINE y == [job[q] EXCEPT !.junk = j, !.from = Home(j), !.pos = 1]
<1>3. y \in Jobs /\ y.junk = j /\ y.from \in Junks /\ y.pos = 1 /\ y.file = job[q].file
  <2>1. Home(j) \in Junks
    BY <1>2, Homes
  <2>2. IsCopyJob(y, job[q], j, Home(j))
    BY DEF IsCopyJob
  <2>. HIDE DEF y
  <2>. QED
    BY <1>2, <2>1, <2>2, CopyJob
<1>4. pc' = [pc EXCEPT ![q] = "load"] /\ job' = [job EXCEPT ![q] = y]
  BY <1>1 DEF Copy, Goto
<1>. HIDE DEF y
<1>5. pc'[q] = "load" /\ job'[q] = y /\ "load" \in PCs
  BY <1>4 DEF TypeOK, Shape, PCs
<1>6. JobFits(q)'
  BY <1>2, <1>3, <1>5 DEF JobFits, Copying
<1>7. LoadTrue(q)'
  BY <1>3, <1>5 DEF LoadTrue, Cells
<1>8. MemOK(mem') /\ Touches({j})
  <2>1. job[q].name \in Names \cup {NoName}
    BY <1>2 DEF Jobs
  <2>. QED
    BY <1>1, <1>2, <2>1, LabelEffect
<1>9. pushed' \in 0 .. MaxPushes /\ calls' \in 0 .. MaxCalls
  BY <1>2 DEF TypeOK
<1>20. PICK js, grown : /\ MemOK(mem') /\ Touches(js) /\ Disturb(q, js, grown)
                        /\ \A k \in grown : Grew(k)
  BY <1>1, <1>8
<1>. QED
  BY <1>1, <1>2, <1>3, <1>4, <1>5, <1>6, <1>7, <1>8, <1>9, <1>20, WriterStep

LEMMA LoadCellStep ==
  ASSUME IInv, NEW q \in Procs, LoadCell(q)
  PROVE  IInv'
<1>. USE DEF IInv
<1> DEFINE from == job[q].from
           f == job[q].file
           pos == job[q].pos
           y == [job[q] EXCEPT !.pos = @ + 1]
<1>1. /\ pc[q] = "load" /\ Disturb(q, {from}, {})
      /\ UNCHANGED <<files, tape, pc, pushed, calls>>
      /\ job' = [job EXCEPT ![q].pos = @ + 1]
  BY DEF LoadCell, Advance, counters
<1>2. /\ from \in Junks /\ pos \in Cells /\ f \in DOMAIN files
      /\ MemOK(mem') /\ Touches({from})
      /\ mem' = [k \in Junks |-> [d \in Cells |->
                   IF k = from /\ d = pos THEN files[f][pos] ELSE mem[k][d]]]
  BY LoadEffect
<1>3. job[q] \in Jobs /\ job[q].junk \in Junks /\ Calls[q] \cap {"dump", "load"} # {}
  BY <1>1 DEF TypeOK, Shape, JobFits, Copying
<1>4. /\ y \in Jobs /\ y.pos = pos + 1 /\ y.from = from /\ y.file = f /\ y.junk = job[q].junk
  BY <1>2, <1>3, NextCell
<1>5. job' = [job EXCEPT ![q] = y]
  BY <1>1 DEF TypeOK, Shape
<1>. HIDE DEF y
<1>6. /\ pc' = [pc EXCEPT ![q] = "load"] /\ pc'[q] = "load" /\ job'[q] = y /\ "load" \in PCs
  BY <1>1, <1>5 DEF TypeOK, Shape, PCs
<1>7. JobFits(q)'
  BY <1>1, <1>2, <1>3, <1>4, <1>6 DEF JobFits, Copying, Cells
<1>8. LoadTrue(q)'
  <2>1. SUFFICES ASSUME ~disturbed'[q], NEW c \in Cells, c < pos + 1
                 PROVE  mem'[from][c] = files[f][c]
    BY <1>1, <1>4, <1>6 DEF LoadTrue
  <2>2. ~disturbed[q]
    BY <1>1, <2>1, OwnHistory
  <2>3. c < pos => mem[from][c] = files[f][c]
    BY <1>1, <2>2 DEF ProcTrue, LoadTrue
  <2>4. c < pos \/ c = pos
    BY <1>2, <2>1 DEF Cells
  <2>. QED
    BY <1>2, <2>3, <2>4
<1>9. pushed' \in 0 .. MaxPushes /\ calls' \in 0 .. MaxCalls
  BY <1>1 DEF TypeOK
<1>20. PICK js, grown : /\ MemOK(mem') /\ Touches(js) /\ Disturb(q, js, grown)
                        /\ \A k \in grown : Grew(k)
  BY <1>1, <1>2
<1>. QED
  BY <1>1, <1>2, <1>4, <1>5, <1>6, <1>7, <1>8, <1>9, <1>20, WriterStep

-----------------------------------------------------------------------------
LEMMA QuietCallStep ==
  ASSUME IInv, NEW q \in Procs, NEW x \in PCs, NEW y \in Jobs,
         UNCHANGED <<mem, files, tape, pushed>>,
         pc' = [pc EXCEPT ![q] = x], job' = [job EXCEPT ![q] = y],
         calls' \in 0 .. MaxCalls,
         disturbed' \in [Procs -> BOOLEAN], spoiled' \in [Procs -> BOOLEAN],
         \A p \in Procs \ {q} : disturbed'[p] = disturbed[p] /\ spoiled'[p] = spoiled[p],
         JobFits(q)', ProcTrue(q)'
  PROVE  IInv'
<1>1. \A f \in DOMAIN files :
        /\ \E n \in 0 .. Last : files[f] = [c \in 1 .. n |-> files[f][c]]
        /\ \A c \in DOMAIN files[f] : files[f][c] \in CellValues(c)
  BY DEF IInv, TypeOK, Shape
<1>2. \A f \in DOMAIN files : FileTrue(f)'
  BY DEF IInv, FileTrue, RowQueue
<1>3. DOMAIN files \subseteq Files /\ DOMAIN tape = DOMAIN files
  BY DEF IInv, TypeOK, Shape
<1>4. files' = files /\ tape' = tape
  OBVIOUS
<1>. QED
  BY <1>1, <1>2, <1>3, <1>4, QuietStep

LEMMA ReturnStep ==
  ASSUME IInv, NEW q \in Procs, Return(q), UNCHANGED <<mem, files, counters, tape>>
  PROVE  IInv'
<1>. USE DEF IInv
<1>1. /\ pc' = [pc EXCEPT ![q] = "idle"] /\ job' = [job EXCEPT ![q] = NoJob]
      /\ disturbed' = [disturbed EXCEPT ![q] = FALSE] /\ spoiled' = [spoiled EXCEPT ![q] = FALSE]
  BY DEF Return, EndCall, Goto
<1>2. /\ pc'[q] = "idle" /\ "idle" \in PCs /\ disturbed'[q] = FALSE /\ spoiled'[q] = FALSE
      /\ disturbed' \in [Procs -> BOOLEAN] /\ spoiled' \in [Procs -> BOOLEAN]
      /\ \A p \in Procs \ {q} : disturbed'[p] = disturbed[p] /\ spoiled'[p] = spoiled[p]
  BY <1>1 DEF TypeOK, Shape, PCs
<1>3. JobFits(q)' /\ ProcTrue(q)'
  BY <1>2 DEF JobFits, ProcTrue, DumpTrue, LoadTrue, Copying
<1>4. calls' \in 0 .. MaxCalls /\ UNCHANGED pushed
  BY DEF TypeOK, counters
<1>. QED
  BY <1>1, <1>2, <1>3, <1>4, IdleJob, QuietCallStep

LEMMA BeginStep ==
  ASSUME IInv, NEW q \in Procs, DumpJunk(q) \/ LoadJunk(q)
  PROVE  IInv'
<1>. USE DEF IInv
<1>1. /\ pc[q] = "idle" /\ UNCHANGED <<mem, files, tape, pushed, disturbed, spoiled>>
      /\ calls' = calls + 1 /\ calls < MaxCalls
      /\ Calls[q] \cap {"dump", "load"} # {}
  BY DEF DumpJunk, LoadJunk, CountedCall, Call, history
<1>2. PICK n \in Names, f \in Files, j \in 0 .. NumJunks, x \in {"path", "take"} :
        /\ Begin(q, x, n, f, j)
        /\ x = "path" => j \in Junks
        /\ x = "take" => f \in DOMAIN files
  <2>1. CASE DumpJunk(q)
    <3>1. PICK n \in Names, j \in Junks : Begin(q, "path", n, [name |-> n, seq |-> 0], j)
      BY <2>1 DEF DumpJunk
    <3>2. [name |-> n, seq |-> 0] \in Files /\ j \in 0 .. NumJunks
      BY DumpLoadAssumption DEF Files, Junks
    <3>. QED
      BY <3>1, <3>2
  <2>2. CASE LoadJunk(q)
    <3>1. PICK n \in Names, f \in DOMAIN files : Begin(q, "take", n, f, 0)
      BY <2>2 DEF LoadJunk
    <3>2. f \in Files /\ 0 \in 0 .. NumJunks
      BY DumpLoadAssumption DEF TypeOK, Shape
    <3>. QED
      BY <3>1, <3>2
  <2>. QED
    BY <2>1, <2>2
<1> DEFINE y == [NoJob EXCEPT !.name = n, !.file = f, !.junk = j]
<1>3. y \in Jobs /\ y.name = n /\ y.file = f /\ y.junk = j
  <2>1. IsNewJob(y, n, f, j)
    BY DEF IsNewJob
  <2>2. n \in Names \cup {NoName} /\ f \in Files \cup {NoFile}
    OBVIOUS
  <2>. HIDE DEF y
  <2>. QED
    BY <2>1, <2>2, NewJob
<1>4. pc' = [pc EXCEPT ![q] = x] /\ job' = [job EXCEPT ![q] = y]
  BY <1>2 DEF Begin, Goto
<1>. HIDE DEF y
<1>5. pc'[q] = x /\ job'[q] = y /\ x \in PCs
  BY <1>4 DEF TypeOK, Shape, PCs
<1>6. JobFits(q)'
  BY <1>1, <1>2, <1>3, <1>5 DEF JobFits, Copying
<1>7. ProcTrue(q)'
  <2>2. ~disturbed[q] /\ ~spoiled[q]
    BY <1>1 DEF ProcTrue, Copying
  <2>. QED
    BY <1>1, <1>2, <1>5, <2>2 DEF ProcTrue, DumpTrue, LoadTrue, Copying
<1>8. /\ calls' \in 0 .. MaxCalls
      /\ disturbed' \in [Procs -> BOOLEAN] /\ spoiled' \in [Procs -> BOOLEAN]
      /\ \A p \in Procs \ {q} : disturbed'[p] = disturbed[p] /\ spoiled'[p] = spoiled[p]
  BY <1>1, DumpLoadAssumption DEF TypeOK, Shape
<1>. QED
  BY <1>1, <1>3, <1>4, <1>5, <1>6, <1>7, <1>8, QuietCallStep

LEMMA PathStep ==
  ASSUME IInv, NEW q \in Procs, NextPath(q) \/ PathFound(q)
  PROVE  IInv'
<1>. USE DEF IInv
<1>1. /\ pc[q] = "path" /\ job[q] \in Jobs /\ job[q].file \in Files /\ job[q].junk \in Junks
      /\ Calls[q] \cap {"dump", "load"} # {}
      /\ UNCHANGED <<mem, files, tape, pushed, calls, disturbed, spoiled>>
  BY DEF NextPath, PathFound, TypeOK, Shape, JobFits, counters, history
<1>2. PICK x \in {"path", "open"}, y \in Jobs :
        /\ pc' = [pc EXCEPT ![q] = x] /\ job' = [job EXCEPT ![q] = y]
        /\ y.file \in Files /\ y.junk = job[q].junk
  <2>1. CASE NextPath(q)
    <3> DEFINE y == [job[q] EXCEPT !.file.seq = @ + 1]
    <3>1. job[q].file.seq + 1 \in 0 .. MaxSeq
      BY <1>1, <2>1, DumpLoadAssumption DEF NextPath, Files
    <3>2. [job[q].file EXCEPT !.seq = job[q].file.seq + 1] \in Files
      BY <1>1, <3>1 DEF Files
    <3>3. y = [job[q] EXCEPT !.file = [job[q].file EXCEPT !.seq = job[q].file.seq + 1]]
      BY <1>1 DEF Jobs
    <3>4. y \in Jobs /\ y.file \in Files /\ y.junk = job[q].junk
      BY <1>1, <3>2, <3>3 DEF Jobs
    <3>5. pc' = [pc EXCEPT ![q] = "path"] /\ job' = [job EXCEPT ![q] = y]
      BY <1>1, <2>1 DEF NextPath, TypeOK, Shape
    <3>. HIDE DEF y
    <3>. QED
      BY <3>4, <3>5
  <2>2. CASE PathFound(q)
    <3>1. pc' = [pc EXCEPT ![q] = "open"] /\ job' = [job EXCEPT ![q] = job[q]]
      BY <2>2 DEF PathFound, Goto, TypeOK, Shape
    <3>. QED
      BY <1>1, <3>1
  <2>. QED
    BY <2>1, <2>2
<1>3. pc'[q] = x /\ job'[q] = y /\ x \in PCs
  BY <1>2 DEF TypeOK, Shape, PCs
<1>4. JobFits(q)'
  BY <1>1, <1>2, <1>3 DEF JobFits, Copying
<1>5. ProcTrue(q)'
  <2>1. ~disturbed[q] /\ ~spoiled[q]
    BY <1>1 DEF ProcTrue, Copying
  <2>. QED
    BY <1>1, <1>3, <2>1 DEF ProcTrue, DumpTrue, LoadTrue, Copying
<1>6. /\ calls' \in 0 .. MaxCalls
      /\ disturbed' \in [Procs -> BOOLEAN] /\ spoiled' \in [Procs -> BOOLEAN]
      /\ \A p \in Procs \ {q} : disturbed'[p] = disturbed[p] /\ spoiled'[p] = spoiled[p]
  BY <1>1 DEF TypeOK, Shape
<1>. QED
  BY <1>1, <1>2, <1>3, <1>4, <1>5, <1>6, QuietCallStep

LEMMA TakeHoldingStep ==
  ASSUME IInv, NEW q \in Procs, TakeHolding(q)
  PROVE  IInv'
<1>. USE DEF IInv
<1>1. PICK j \in Junks : Copy(q, "load", j)
  BY DEF TakeHolding
<1>2. /\ pc[q] = "take" /\ job[q].file \in DOMAIN files /\ job[q] \in Jobs
      /\ Calls[q] \cap {"dump", "load"} # {}
      /\ UNCHANGED <<mem, files, tape, pushed, calls, disturbed, spoiled>>
  BY DEF TakeHolding, TypeOK, Shape, JobFits, counters, history
<1> DEFINE y == [job[q] EXCEPT !.junk = j, !.from = Home(j), !.pos = 1]
<1>3. y \in Jobs /\ y.junk = j /\ y.from \in Junks /\ y.pos = 1 /\ y.file = job[q].file
  <2>1. Home(j) \in Junks
    BY Homes
  <2>2. IsCopyJob(y, job[q], j, Home(j))
    BY DEF IsCopyJob
  <2>. HIDE DEF y
  <2>. QED
    BY <1>2, <2>1, <2>2, CopyJob
<1>4. pc' = [pc EXCEPT ![q] = "load"] /\ job' = [job EXCEPT ![q] = y]
  BY <1>1 DEF Copy, Goto
<1>. HIDE DEF y
<1>5. pc'[q] = "load" /\ job'[q] = y /\ "load" \in PCs
  BY <1>4 DEF TypeOK, Shape, PCs
<1>6. JobFits(q)'
  BY <1>2, <1>3, <1>5 DEF JobFits, Copying
<1>7. ProcTrue(q)'
  <2>1. LoadTrue(q)'
    BY <1>3, <1>5 DEF LoadTrue, Cells
  <2>2. ~disturbed[q] /\ ~spoiled[q]
    BY <1>2 DEF ProcTrue, Copying
  <2>. QED
    BY <1>2, <1>5, <2>1, <2>2 DEF ProcTrue, DumpTrue, Copying
<1>8. /\ calls' \in 0 .. MaxCalls
      /\ disturbed' \in [Procs -> BOOLEAN] /\ spoiled' \in [Procs -> BOOLEAN]
      /\ \A p \in Procs \ {q} : disturbed'[p] = disturbed[p] /\ spoiled'[p] = spoiled[p]
  BY <1>2 DEF TypeOK, Shape
<1>. QED
  BY <1>2, <1>3, <1>4, <1>5, <1>6, <1>7, <1>8, QuietCallStep

LEMMA QueueAtHome ==
  ASSUME NEW j \in Junks, Home(j) = j
  PROVE  Queue(j) = RowQueue(mem[j])
  BY DEF Queue, RowQueue, Read, Count

(***************************************************************************)
(* What the file of a dump has of the queue when it is opened, and when a  *)
(* cell is copied.                                                         *)
(***************************************************************************)
LEMMA QueueSlots ==
  ASSUME TypeOK, NEW k \in Junks, NEW q, BeginsWith(q, RowQueue(mem[k]))
  PROVE  /\ mem[k][CountPos] \in Nat /\ DOMAIN q \subseteq 1 .. mem[k][CountPos]
         /\ \A i \in DOMAIN q : /\ Slot(mem[k][ReadPos] + i - 1) \in Slots
                                /\ mem[k][Slot(mem[k][ReadPos] + i - 1)] = q[i]
<1>1. mem[k][CountPos] \in 0 .. NumSlots /\ mem[k][ReadPos] \in 0 .. NumSlots - 1
  BY CellFacts DEF TypeOK
<1>2. mem[k][CountPos] \in Nat /\ mem[k][ReadPos] \in Int
  BY <1>1, DumpLoadAssumption
<1>3. DOMAIN q \subseteq 1 .. mem[k][CountPos]
  BY DEF BeginsWith, RowQueue
<1>4. ASSUME NEW i \in DOMAIN q PROVE Slot(mem[k][ReadPos] + i - 1) \in Slots
  BY <1>2, <1>3, SlotIsSlot
<1>5. ASSUME NEW i \in DOMAIN q PROVE mem[k][Slot(mem[k][ReadPos] + i - 1)] = q[i]
  BY <1>3 DEF BeginsWith, RowQueue
<1>. QED
  BY <1>2, <1>3, <1>4, <1>5

LEMMA StartsCopied ==
  ASSUME TypeOK, NEW k \in Junks, NEW q, q = RowQueue(mem[k]), NEW file
  PROVE  BeginsWith(q, RowQueue(mem[k])) /\ CopiedQueue(file, mem[k], q, 1)
<1>1. BeginsWith(q, RowQueue(mem[k]))
  BY DEF BeginsWith
<1>2. \A i \in DOMAIN q : ~(Slot(mem[k][ReadPos] + i - 1) < 1)
  <2>1. \A c \in Slots : ~(c < 1)
    BY DEF Slots
  <2>. QED
    BY <1>1, <2>1, QueueSlots
<1>. QED
  BY <1>1, <1>2 DEF CopiedQueue, ReadPos, CountPos

LEMMA CopiesOn ==
  ASSUME TypeOK, NEW k \in Junks, NEW q, BeginsWith(q, RowQueue(mem[k])),
         NEW pos \in Cells, NEW file, CopiedQueue(file, mem[k], q, pos), NEW row,
         row[pos] = mem[k][pos], \A c \in Cells : c < pos => row[c] = file[c]
  PROVE  CopiedQueue(row, mem[k], q, pos + 1)
<1>. USE DEF Cells
<1>1. pos + 1 > ReadPos => row[ReadPos] = mem[k][ReadPos]
  <2>1. pos + 1 > ReadPos => pos = ReadPos \/ (pos > ReadPos /\ ReadPos < pos)
    BY DEF ReadPos
  <2>. QED
    BY <2>1, CellFacts DEF CopiedQueue
<1>2. pos + 1 > CountPos => DOMAIN q \subseteq 1 .. row[CountPos]
  <2>1. pos + 1 > CountPos => pos = CountPos \/ (pos > CountPos /\ CountPos < pos)
    BY DEF CountPos
  <2>2. DOMAIN q \subseteq 1 .. mem[k][CountPos]
    BY QueueSlots
  <2>. QED
    BY <2>1, <2>2, CellFacts DEF CopiedQueue
<1>3. ASSUME NEW i \in DOMAIN q, Slot(mem[k][ReadPos] + i - 1) < pos + 1
      PROVE  row[Slot(mem[k][ReadPos] + i - 1)] = q[i]
  <2> DEFINE c == Slot(mem[k][ReadPos] + i - 1)
  <2>1. c \in Slots /\ mem[k][c] = q[i]
    BY QueueSlots
  <2>2. c < pos => file[c] = q[i]
    BY DEF CopiedQueue
  <2>3. c \in Cells
    BY <2>1, CellFacts
  <2>. HIDE DEF c
  <2>4. c = pos \/ c < pos
    BY <1>3, <2>3 DEF c
  <2>5. row[c] = q[i]
    BY <2>1, <2>2, <2>3, <2>4
  <2>. QED
    BY <2>5 DEF c
<1>. QED
  BY <1>1, <1>2, <1>3 DEF CopiedQueue

LEMMA OpenDumpStep ==
  ASSUME IInv, NEW q \in Procs, OpenDump(q)
  PROVE  IInv'
<1>. USE DEF IInv
<1> DEFINE j == job[q].junk
           f == job[q].file
           t == [of |-> IF Home(j) = j THEN j ELSE 0, label |-> mem[j][Label],
                 q |-> Queue(j), whole |-> FALSE]
           y == [job[q] EXCEPT !.junk = j, !.from = Home(j), !.pos = 1]
<1>1. /\ pc[q] = "open" /\ j \in Junks /\ f \in Files /\ job[q] \in Jobs
      /\ Calls[q] \cap {"dump", "load"} # {}
      /\ UNCHANGED <<mem, pushed, calls, disturbed, spoiled>>
      /\ files' = Put(files, f, <<>>) /\ tape' = Put(tape, f, t)
      /\ Copy(q, "dump", j)
  BY DEF OpenDump, TypeOK, Shape, JobFits, counters
<1>2. Home(j) \in Junks
  BY <1>1, Homes
<1>3. /\ pc' = [pc EXCEPT ![q] = "dump"] /\ job' = [job EXCEPT ![q] = y]
  BY <1>1 DEF Copy, Goto
<1>4. y \in Jobs /\ y.junk = j /\ y.from = Home(j) /\ y.pos = 1 /\ y.file = f
  <2>1. IsCopyJob(y, job[q], j, Home(j))
    BY DEF IsCopyJob
  <2>. HIDE DEF y
  <2>. QED
    BY <1>1, <1>2, <2>1, CopyJob
<1>5. /\ IsEntry(t) /\ t.whole = FALSE /\ t.label = mem[j][Label]
      /\ t.of # 0 => /\ t.of = j /\ Home(j) = j
                     /\ t.q = RowQueue(mem[j])
  BY <1>1, QueueAtHome DEF IsEntry
<1>. HIDE DEF y, t, j, f
<1>6. /\ DOMAIN files' = DOMAIN files \cup {f} /\ DOMAIN tape' = DOMAIN files'
      /\ files'[f] = <<>> /\ tape'[f] = t
      /\ \A g \in DOMAIN files \ {f} : files'[g] = files[g] /\ tape'[g] = tape[g]
  BY <1>1 DEF Put, TypeOK, Shape
<1>7. <<>> = [c \in 1 .. 0 |-> files'[f][c]]
  OBVIOUS
<1>8. ASSUME NEW g \in DOMAIN files'
      PROVE  /\ \E n \in 0 .. Last : files'[g] = [c \in 1 .. n |-> files'[g][c]]
             /\ \A c \in DOMAIN files'[g] : files'[g][c] \in CellValues(c)
             /\ FileTrue(g)'
  <2>1. CASE g = f
    <3>1. 0 \in 0 .. Last /\ files'[g] = [c \in 1 .. 0 |-> files'[g][c]]
      BY <1>6, <1>7, <2>1, CellFacts
    <3>2. DOMAIN files'[g] = {}
      BY <1>6, <2>1
    <3>3. FileTrue(g)'
      BY <1>5, <1>6, <2>1 DEF FileTrue
    <3>. QED
      BY <3>1, <3>2, <3>3
  <2>2. CASE g # f
    <3>1. g \in DOMAIN files /\ files'[g] = files[g] /\ tape'[g] = tape[g]
      BY <1>6, <2>2
    <3>2. /\ \E n \in 0 .. Last : files[g] = [c \in 1 .. n |-> files[g][c]]
          /\ \A c \in DOMAIN files[g] : files[g][c] \in CellValues(c)
          /\ FileTrue(g)
      BY <3>1 DEF TypeOK, Shape
    <3>3. FileTrue(g)'
      BY <3>1, <3>2 DEF FileTrue
    <3>. QED
      BY <3>1, <3>2, <3>3
  <2>. QED
    BY <2>1, <2>2
<1>9. pc'[q] = "dump" /\ job'[q] = y /\ "dump" \in PCs
  BY <1>3 DEF TypeOK, Shape, PCs
<1>10. JobFits(q)'
  BY <1>1, <1>2, <1>4, <1>6, <1>9 DEF JobFits, Copying
<1>11. ProcTrue(q)'
  <2>1. ~disturbed[q] /\ ~spoiled[q]
    BY <1>1 DEF ProcTrue, Copying
  <2>2. DumpTrue(q)'
    <3>1. files'[f] = [c \in 1 .. 1 - 1 |-> files'[f][c]]
      BY <1>6, <1>7
    <3>2. \A c \in Cells : ~(c < 1)
      BY DEF Cells
    <3>3. t.of # 0 => /\ t.of = Home(j) /\ t.label = mem[Home(j)][Label]
                      /\ mem[Home(j)][Label].home = Home(j) /\ t.q = RowQueue(mem[Home(j)])
      BY <1>5 DEF Home
    <3>5. t.of # 0 => /\ BeginsWith(t.q, RowQueue(mem[Home(j)]))
                      /\ CopiedQueue(files'[f], mem[Home(j)], t.q, 1)
      BY <1>2, <3>3, StartsCopied
    <3>4. /\ mem' = mem /\ disturbed'[q] = disturbed[q] /\ spoiled'[q] = FALSE
          /\ tape'[job'[q].file] = t /\ job'[q].file = f /\ job'[q].pos = 1
          /\ job'[q].from = Home(j)
      BY <1>1, <1>4, <1>6, <1>9, <2>1
    <3>. QED
      BY <1>5, <3>1, <3>2, <3>3, <3>4, <3>5 DEF DumpTrue
  <2>. QED
    BY <1>9, <2>2 DEF ProcTrue, LoadTrue, Copying
<1>12. /\ DOMAIN files \subseteq DOMAIN files' /\ DOMAIN files' \subseteq Files
       /\ DOMAIN tape' = DOMAIN files'
  BY <1>1, <1>6 DEF TypeOK, Shape
<1>13. /\ calls' \in 0 .. MaxCalls
       /\ disturbed' \in [Procs -> BOOLEAN] /\ spoiled' \in [Procs -> BOOLEAN]
       /\ \A p \in Procs \ {q} : disturbed'[p] = disturbed[p] /\ spoiled'[p] = spoiled[p]
  BY <1>1 DEF TypeOK, Shape
<1>. QED
  BY <1>1, <1>3, <1>4, <1>8, <1>9, <1>10, <1>11, <1>12, <1>13, QuietStep

LEMMA DumpCellStep ==
  ASSUME IInv, NEW q \in Procs, DumpCell(q)
  PROVE  IInv'
<1>. USE DEF IInv
<1> DEFINE from == job[q].from
           f == job[q].file
           pos == job[q].pos
           row == [c \in 1 .. pos |-> IF c = pos THEN mem[from][pos] ELSE files[f][c]]
           y == [job[q] EXCEPT !.pos = @ + 1]
<1>1. /\ pc[q] = "dump" /\ pos <= Last
      /\ UNCHANGED <<mem, tape, pc, pushed, calls, disturbed, spoiled>>
      /\ files' = [files EXCEPT ![f] = row]
      /\ job' = [job EXCEPT ![q].pos = @ + 1]
  BY DEF DumpCell, Advance, counters, history
<1>2. /\ f \in DOMAIN files /\ from \in Junks /\ job[q].junk \in Junks /\ pos \in Cells
      /\ job[q] \in Jobs /\ Calls[q] \cap {"dump", "load"} # {}
  <2>1. /\ f \in DOMAIN files /\ from \in Junks /\ job[q].junk \in Junks /\ pos # 0
        /\ job[q] \in Jobs /\ Calls[q] \cap {"dump", "load"} # {}
    BY <1>1 DEF TypeOK, Shape, JobFits, Copying
  <2>2. pos \in 0 .. Last + 1
    BY <2>1 DEF Jobs
  <2>. QED
    BY <1>1, <2>1, <2>2, CellFacts DEF Cells
<1>3. y \in Jobs /\ y.pos = pos + 1 /\ y.from = from /\ y.file = f /\ y.junk = job[q].junk
  BY <1>2, NextCell
<1>4. job' = [job EXCEPT ![q] = y]
  BY <1>1 DEF TypeOK, Shape
<1>. HIDE DEF y
<1>5. pc' = [pc EXCEPT ![q] = "dump"] /\ pc'[q] = "dump" /\ job'[q] = y /\ "dump" \in PCs
  BY <1>1, <1>4 DEF TypeOK, Shape, PCs
<1>6. DumpTrue(q)
  BY DEF ProcTrue
<1>7. /\ row = [c \in 1 .. pos |-> row[c]]
      /\ \A c \in 1 .. pos : row[c] = IF c = pos THEN mem[from][pos] ELSE files[f][c]
  OBVIOUS
<1>8. \A c \in 1 .. pos : row[c] \in CellValues(c)
  <2>1. mem[from][pos] \in CellValues(pos)
    BY <1>2 DEF TypeOK
  <2>2. DOMAIN files[f] = 1 .. pos - 1
    BY <1>1, <1>6 DEF DumpTrue
  <2>3. \A c \in 1 .. pos - 1 : files[f][c] \in CellValues(c)
    BY <1>2, <2>2 DEF TypeOK
  <2>. QED
    BY <1>2, <2>1, <2>3 DEF Cells
<1>. HIDE DEF row
<1>9. /\ DOMAIN files' = DOMAIN files /\ files'[f] = row
      /\ \A g \in DOMAIN files \ {f} : files'[g] = files[g]
  BY <1>1, <1>2
<1>10. ASSUME NEW g \in DOMAIN files'
       PROVE  /\ \E n \in 0 .. Last : files'[g] = [c \in 1 .. n |-> files'[g][c]]
              /\ \A c \in DOMAIN files'[g] : files'[g][c] \in CellValues(c)
              /\ FileTrue(g)'
  <2>1. CASE g = f
    <3>1. pos \in 0 .. Last
      BY <1>1, <1>2 DEF Cells
    <3>2. DOMAIN row = 1 .. pos
      BY <1>7
    <3>3. FileTrue(g)'
      BY <1>1, <1>6, <2>1 DEF FileTrue, DumpTrue
    <3>. QED
      BY <1>7, <1>8, <1>9, <2>1, <3>1, <3>2, <3>3
  <2>2. CASE g # f
    <3>1. g \in DOMAIN files /\ files'[g] = files[g] /\ tape'[g] = tape[g]
      BY <1>1, <1>9, <2>2
    <3>2. /\ \E n \in 0 .. Last : files[g] = [c \in 1 .. n |-> files[g][c]]
          /\ \A c \in DOMAIN files[g] : files[g][c] \in CellValues(c)
          /\ FileTrue(g)
      BY <3>1 DEF TypeOK, Shape
    <3>3. FileTrue(g)'
      BY <3>1, <3>2 DEF FileTrue
    <3>. QED
      BY <3>1, <3>2, <3>3
  <2>. QED
    BY <2>1, <2>2
<1>11. JobFits(q)'
  BY <1>2, <1>3, <1>5, <1>9 DEF JobFits, Copying, Cells
<1>12. ProcTrue(q)'
  <2>1. row = [c \in 1 .. (pos + 1) - 1 |-> row[c]]
    BY <1>2, <1>7 DEF Cells
  <2>2. /\ row[pos] = mem[from][pos]
        /\ \A c \in Cells : c < pos => row[c] = files[f][c]
    <3>1. pos \in Nat /\ pos \in 1 .. pos
      BY <1>2 DEF Cells
    <3>2. ASSUME NEW c \in Cells, c < pos PROVE c \in 1 .. pos /\ c # pos
      BY <3>1, <3>2 DEF Cells
    <3>. QED
      BY <1>7, <3>1, <3>2
  <2>3. /\ mem' = mem /\ disturbed'[q] = disturbed[q] /\ spoiled'[q] = spoiled[q] /\ tape' = tape
        /\ job'[q].file = f /\ job'[q].pos = pos + 1 /\ job'[q].from = from
    BY <1>1, <1>3, <1>5
  <2>4. DumpTrue(q)'
    <3>1. ~tape[f].whole
      BY <1>1, <1>6 DEF DumpTrue
    <3>2. ~disturbed[q] =>
            /\ \A c \in Cells : c < pos + 1 => row[c] = mem[from][c]
            /\ tape[f].of # 0 => /\ tape[f].of = from /\ tape[f].label = mem[from][Label]
                                /\ mem[from][Label].home = from
                                /\ tape[f].q = RowQueue(mem[from])
      <4>1. \A c \in Cells : c < pos + 1 => c = pos \/ c < pos
        BY <1>2 DEF Cells
      <4>. QED
        BY <1>1, <1>6, <2>2, <4>1 DEF DumpTrue
    <3>3. ~spoiled[q] /\ tape[f].of # 0 =>
            /\ BeginsWith(tape[f].q, RowQueue(mem[from]))
            /\ CopiedQueue(row, mem[from], tape[f].q, pos + 1)
      <4>1. ~spoiled[q] /\ tape[f].of # 0 =>
              /\ BeginsWith(tape[f].q, RowQueue(mem[from]))
              /\ CopiedQueue(files[f], mem[from], tape[f].q, pos)
        BY <1>1, <1>6 DEF DumpTrue
      <4>. QED
        BY <1>2, <2>2, <4>1, CopiesOn
    <3>. QED
      BY <1>9, <2>1, <2>3, <3>1, <3>2, <3>3 DEF DumpTrue
  <2>. QED
    BY <1>5, <2>4 DEF ProcTrue, LoadTrue, Copying
<1>13. /\ DOMAIN files \subseteq DOMAIN files' /\ DOMAIN files' \subseteq Files
       /\ DOMAIN tape' = DOMAIN files'
  BY <1>1, <1>9 DEF TypeOK, Shape
<1>14. /\ calls' \in 0 .. MaxCalls
       /\ disturbed' \in [Procs -> BOOLEAN] /\ spoiled' \in [Procs -> BOOLEAN]
       /\ \A p \in Procs \ {q} : disturbed'[p] = disturbed[p] /\ spoiled'[p] = spoiled[p]
  BY <1>1 DEF TypeOK, Shape
<1>. QED
  BY <1>1, <1>3, <1>4, <1>5, <1>10, <1>11, <1>12, <1>13, <1>14, QuietStep

LEMMA CloseDumpStep ==
  ASSUME IInv, NEW q \in Procs, CloseDump(q)
  PROVE  IInv'
<1>. USE DEF IInv
<1> DEFINE from == job[q].from
           f == job[q].file
<1>1. /\ pc[q] = "dump" /\ job[q].pos > Last
      /\ UNCHANGED <<mem, files, pushed, calls>>
      /\ tape' = [tape EXCEPT ![f].whole = ~disturbed[q]]
      /\ Return(q)
  BY DEF CloseDump, counters
<1>2. /\ f \in DOMAIN files /\ f \in DOMAIN tape /\ from \in Junks
      /\ job[q] \in Jobs /\ DOMAIN tape = DOMAIN files
  BY <1>1 DEF TypeOK, Shape, JobFits, Copying
<1>3. job[q].pos = Last + 1
  <2>1. job[q].pos \in 0 .. Last + 1
    BY <1>2 DEF Jobs
  <2>. QED
    BY <1>1, <2>1, CellFacts
<1>4. /\ pc' = [pc EXCEPT ![q] = "idle"] /\ job' = [job EXCEPT ![q] = NoJob]
      /\ disturbed' = [disturbed EXCEPT ![q] = FALSE] /\ spoiled' = [spoiled EXCEPT ![q] = FALSE]
  BY <1>1 DEF Return, EndCall, Goto
<1>5. /\ pc'[q] = "idle" /\ "idle" \in PCs /\ disturbed'[q] = FALSE /\ spoiled'[q] = FALSE
      /\ disturbed' \in [Procs -> BOOLEAN] /\ spoiled' \in [Procs -> BOOLEAN]
      /\ \A p \in Procs \ {q} : disturbed'[p] = disturbed[p] /\ spoiled'[p] = spoiled[p]
  BY <1>4 DEF TypeOK, Shape, PCs
<1>6. JobFits(q)' /\ ProcTrue(q)'
  BY <1>5 DEF JobFits, ProcTrue, DumpTrue, LoadTrue, Copying
<1>7. /\ DOMAIN tape' = DOMAIN tape /\ IsEntry(tape'[f])
      /\ tape'[f].of = tape[f].of /\ tape'[f].label = tape[f].label /\ tape'[f].q = tape[f].q
      /\ tape'[f].whole => ~disturbed[q]
      /\ \A g \in DOMAIN tape \ {f} : tape'[g] = tape[g]
  <2>1. /\ DOMAIN tape' = DOMAIN tape /\ tape'[f] = [tape[f] EXCEPT !.whole = ~disturbed[q]]
        /\ \A g \in DOMAIN tape \ {f} : tape'[g] = tape[g]
    BY <1>1, <1>2
  <2>2. IsEntry(tape[f])
    BY <1>2 DEF FileTrue
  <2>. QED
    BY <2>1, <2>2 DEF IsEntry
<1>8. ASSUME NEW g, g = f PROVE FileTrue(g)'
  <2>1. SUFFICES ASSUME tape'[f].whole, ~disturbed[q] PROVE FileTrue(g)'
    BY <1>7, <1>8 DEF FileTrue
  <2>2. DumpTrue(q)
    BY DEF ProcTrue
  <2>3. files[f] = [c \in Cells |-> files[f][c]]
    <3>1. files[f] = [c \in 1 .. job[q].pos - 1 |-> files[f][c]]
      BY <1>1, <2>2 DEF DumpTrue
    <3>2. 1 .. job[q].pos - 1 = Cells
      BY <1>3, CellFacts DEF Cells
    <3>. QED
      BY <3>1, <3>2
  <2>4. \A c \in Cells : files[f][c] = mem[from][c]
    BY <1>1, <1>3, <2>1, <2>2, CellFacts DEF DumpTrue, Cells
  <2>5. mem[from] = [c \in Cells |-> mem[from][c]]
    BY <1>2 DEF TypeOK, Shape
  <2>6. files[f] = mem[from]
    BY <2>3, <2>4, <2>5
  <2>7. tape[f].of # 0 => /\ tape[f].of = from /\ tape[f].label = mem[from][Label]
                          /\ mem[from][Label].home = from
                          /\ tape[f].q = RowQueue(mem[from])
    BY <1>1, <2>1, <2>2 DEF DumpTrue
  <2>8. files' = files
    BY <1>1
  <2>. QED
    BY <1>7, <1>8, <2>3, <2>6, <2>7, <2>8 DEF FileTrue
<1>9. ASSUME NEW g \in DOMAIN files'
      PROVE  /\ \E n \in 0 .. Last : files'[g] = [c \in 1 .. n |-> files'[g][c]]
             /\ \A c \in DOMAIN files'[g] : files'[g][c] \in CellValues(c)
             /\ FileTrue(g)'
  <2>1. g \in DOMAIN files /\ files' = files
    BY <1>1
  <2>2. /\ \E n \in 0 .. Last : files[g] = [c \in 1 .. n |-> files[g][c]]
        /\ \A c \in DOMAIN files[g] : files[g][c] \in CellValues(c)
        /\ FileTrue(g)
    BY <2>1 DEF TypeOK, Shape
  <2>3. g # f => FileTrue(g)'
    BY <1>2, <1>7, <2>1, <2>2 DEF FileTrue
  <2>4. FileTrue(g)'
    BY <1>8, <2>3
  <2>. QED
    BY <2>1, <2>2, <2>4
<1>10. /\ DOMAIN files \subseteq DOMAIN files' /\ DOMAIN files' \subseteq Files
       /\ DOMAIN tape' = DOMAIN files'
  BY <1>1, <1>2, <1>7 DEF TypeOK, Shape
<1>11. calls' \in 0 .. MaxCalls
  BY <1>1 DEF TypeOK
<1>. QED
  BY <1>1, <1>4, <1>5, <1>6, <1>9, <1>10, <1>11, IdleJob, QuietStep

-----------------------------------------------------------------------------
LEMMA StepKeeps ==
  ASSUME IInv, [Next]_vars
  PROVE  IInv'
<1>1. ASSUME NEW q \in Procs, AssignJunk(q) \/ UnassignJunk(q)
      PROVE  IInv'
  BY <1>1, LabelStep
<1>9. ASSUME NEW q \in Procs, NameJunk(q) \/ NameTaken(q)
      PROVE  IInv'
  BY <1>9, NameStep, NameTakenStep
<1>10. ASSUME NEW q \in Procs, NextPath(q) \/ PathFound(q)
       PROVE  IInv'
  BY <1>10, PathStep
<1>2. ASSUME NEW q \in Procs, ClearJunk(q) \/ PushElem(q) \/ PopElemData(q)
      PROVE  IInv'
  BY <1>2, UseStep
<1>3. ASSUME NEW q \in Procs, ClearAndReturn(q)
      PROVE  IInv'
  BY <1>3, ClearAndReturnStep
<1>4. ASSUME NEW q \in Procs, DumpJunk(q) \/ LoadJunk(q)
      PROVE  IInv'
  BY <1>4, BeginStep
<1>5. ASSUME NEW q \in Procs, OpenDump(q) \/ DumpCell(q) \/ CloseDump(q)
      PROVE  IInv'
  BY <1>5, OpenDumpStep, DumpCellStep, CloseDumpStep
<1>6. ASSUME NEW q \in Procs, TakeHolding(q) \/ TakeFree(q) \/ LoadCell(q)
      PROVE  IInv'
  BY <1>6, TakeHoldingStep, TakeFreeStep, LoadCellStep
<1>7. ASSUME NEW q \in Procs, TakeNone(q) \/ EndLoad(q) \/ Die(q)
      PROVE  IInv'
  BY <1>7, ReturnStep DEF TakeNone, EndLoad, Die
<1>8. CASE UNCHANGED vars
  <2>1. /\ mem' = mem /\ files' = files /\ pc' = pc /\ job' = job /\ tape' = tape
        /\ pushed' = pushed /\ calls' = calls /\ spoiled' = spoiled /\ disturbed' = disturbed
    BY <1>8 DEF vars, counters, history
  <2>2. TypeOK'
    BY <2>1 DEF IInv, TypeOK, Shape, JobFits, Copying
  <2>3. \A f \in DOMAIN files' : FileTrue(f)'
    BY <2>1 DEF IInv, FileTrue
  <2>4. \A p \in Procs : ProcTrue(p)'
    BY <2>1, ProcSame DEF IInv
  <2>. QED
    BY <2>2, <2>3, <2>4 DEF IInv
<1>. QED
  BY <1>1, <1>2, <1>3, <1>4, <1>5, <1>6, <1>7, <1>8, <1>9, <1>10 DEF Next

THEOREM Invariance == Spec => []IInv
  BY InitHolds, StepKeeps, PTL DEF Spec

(***************************************************************************)
(* Junks, files and jobs keep their types: whatever is loaded over a       *)
(* header, offsets and counts stay within the queue.                       *)
(***************************************************************************)
THEOREM TypeCorrect == Spec => []TypeOK
<1>1. IInv => TypeOK
  BY DEF IInv
<1>. QED
  BY <1>1, Invariance, PTL

(***************************************************************************)
(* What wv_shm_load_junk returns is what was dumped (RoundTrip).           *)
(***************************************************************************)
THEOREM LoadReturnsDump == Spec => RoundTrip
<1>1. ASSUME IInv, NEW p \in Procs, EndLoad(p), ComesHome(p)
      PROVE  /\ Queue(job[p].junk) = tape[job[p].file].q
             /\ mem[job[p].junk][Label] = tape[job[p].file].label
  <2>. USE <1>1 DEF IInv
  <2> DEFINE j == job[p].junk
             f == job[p].file
  <2>1. /\ pc[p] = "load" /\ job[p].pos \notin DOMAIN files[f]
        /\ tape[f].whole /\ ~disturbed[p] /\ tape[f].of = j /\ job[p].from = j
    BY DEF EndLoad, ComesHome
  <2>2. f \in DOMAIN files /\ j \in Junks /\ job[p].pos # 0 /\ job[p] \in Jobs
    BY <2>1 DEF TypeOK, Shape, JobFits, Copying
  <2>3. files[f] = [c \in Cells |-> files[f][c]] /\ FileTrue(f)
    BY <2>1, <2>2 DEF FileTrue
  <2>4. job[p].pos = Last + 1
    <3>1. job[p].pos \in 0 .. Last + 1 /\ job[p].pos \notin Cells
      BY <2>1, <2>2, <2>3 DEF Jobs
    <3>. QED
      BY <2>2, <3>1, CellFacts DEF Cells
  <2>5. \A c \in Cells : mem[j][c] = files[f][c]
    BY <2>1, <2>4, CellFacts DEF ProcTrue, LoadTrue, Cells
  <2>6. mem[j] = [c \in Cells |-> mem[j][c]]
    BY <2>2 DEF TypeOK, Shape
  <2>7. mem[j] = files[f]
    BY <2>3, <2>5, <2>6
  <2>8. /\ tape[f].label = mem[j][Label] /\ Home(j) = j
        /\ tape[f].q = RowQueue(mem[j])
    BY <2>1, <2>2, <2>3, <2>7 DEF FileTrue, Home, Junks
  <2>. QED
    BY <2>2, <2>8, QueueAtHome
<1>2. IInv /\ [Next]_vars =>
        [\A p \in Procs : EndLoad(p) /\ ComesHome(p) =>
           /\ Queue(job[p].junk) = tape[job[p].file].q
           /\ mem[job[p].junk][Label] = tape[job[p].file].label]_vars
  BY <1>1
<1>. QED
  BY <1>2, Invariance, PTL DEF Spec, RoundTrip

(***************************************************************************)
(* A dump has what was queued when it began, though others push            *)
(* (PushesHarmNoDump).                                                     *)
(***************************************************************************)
THEOREM DumpHasQueued == Spec => PushesHarmNoDump
<1>1. ASSUME IInv, NEW p \in Procs, CloseDump(p), ~spoiled[p], tape[job[p].file].of # 0
      PROVE  HasQueued(files[job[p].file], tape[job[p].file].q)
  <2>. USE <1>1 DEF IInv
  <2> DEFINE row == files[job[p].file]
             q == tape[job[p].file].q
             from == job[p].from
  <2>1. pc[p] = "dump" /\ job[p].pos > Last /\ DumpTrue(p)
    BY DEF CloseDump, ProcTrue
  <2>2. job[p].pos = Last + 1 /\ from \in Junks
    <3>1. job[p].pos \in 0 .. Last + 1 /\ from \in Junks
      BY <2>1 DEF TypeOK, Shape, Jobs, JobFits, Copying
    <3>. QED
      BY <2>1, <3>1, CellFacts
  <2>3. row = [c \in 1 .. job[p].pos - 1 |-> row[c]]
    BY <2>1 DEF DumpTrue
  <2>4. DOMAIN row = Cells
    <3>1. 1 .. job[p].pos - 1 = Cells
      BY <2>2, CellFacts DEF Cells
    <3>. QED
      BY <2>3, <3>1
  <2>5. /\ BeginsWith(q, RowQueue(mem[from]))
        /\ CopiedQueue(row, mem[from], q, Last + 1)
    BY <2>1, <2>2 DEF DumpTrue
  <2>. HIDE DEF row, q, from
  <2>6. row[ReadPos] = mem[from][ReadPos] /\ DOMAIN q \subseteq 1 .. row[CountPos]
    BY <2>5, CellFacts DEF CopiedQueue, ReadPos, CountPos
  <2>7. \A i \in DOMAIN q : row[Slot(mem[from][ReadPos] + i - 1)] = q[i]
    <3>1. \A c \in Slots : c < Last + 1
      BY CellFacts DEF Slots
    <3>. QED
      BY <2>2, <2>5, <3>1, QueueSlots DEF CopiedQueue
  <2>8. BeginsWith(q, RowQueue(row))
    BY <2>6, <2>7 DEF BeginsWith, RowQueue
  <2>. QED
    BY <2>4, <2>8 DEF HasQueued, row, q
<1>2. IInv /\ [Next]_vars =>
        [\A p \in Procs : CloseDump(p) /\ ~spoiled[p] /\ tape[job[p].file].of # 0 =>
           HasQueued(files[job[p].file], tape[job[p].file].q)]_vars
  BY <1>1
<1>. QED
  BY <1>2, Invariance, PTL DEF Spec, PushesHarmNoDump

=============================================================================
