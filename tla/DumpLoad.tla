------------------------------ MODULE DumpLoad ------------------------------
(***************************************************************************)
(* wv_shm_dump_junk and wv_shm_load_junk: junks written to files and read  *)
(* back, cell by cell and without a lock, while other processes assign,    *)
(* unassign, clear, push and pop, and while any of them may end.           *)
(*                                                                         *)
(* A junk is a row of cells: its header, then its queue.  The header       *)
(* holds offsets from the start of the segment; of startoffs and the       *)
(* bounds of the queue only the junk they lie in matters (home), so the    *)
(* queue a header speaks of is the queue behind header home.  Elements     *)
(* take one slot each here, and a push or pop, being done under the        *)
(* semaphore, is one step: JunkQueue and SharedJunk have the bytes.        *)
(* Looking for a name is one step as well: Registry has its reads, and the *)
(* bytes of the names, of which one write is a step here.                  *)
(*                                                                         *)
(* At most one process dumps and loads, so the header of a junk that is    *)
(* dumped is not loaded meanwhile, and no two dumps write one file.        *)
(*                                                                         *)
(* All junks had names before, so a process may hold a pointer to any one, *)
(* to push, pop or clear with, though the junk has another name by now.    *)
(***************************************************************************)
EXTENDS Integers

CONSTANTS
  Procs,     \* the processes
  Calls,     \* the calls each process makes
  Held,      \* the junks each process has pointers to
  Names,     \* the names of junks
  Matches,   \* <<asked, stored>>: strncmp finds asked at the start of stored
  NoName,    \* the empty name
  NumJunks,  \* _shmmeta->count
  Given,     \* the names junks have at the start
  Older,     \* the name junk 1 had before, under which it was dumped
  NumSlots,  \* how many elements a queue has room for
  MaxSeq,    \* mgcnt: where the sequence of file names ends
  MaxPushes, \* bound: how many elements are ever pushed
  MaxCalls   \* bound: how many calls of assign, unassign, dump and load are made

Ops == {"push", "pop", "clear", "assign", "unassign", "dump", "load"}

ASSUME DumpLoadAssumption ==
  /\ Calls \in [Procs -> SUBSET Ops]
  /\ \A p, q \in Procs :
       Calls[p] \cap {"dump", "load"} # {} /\ Calls[q] \cap {"dump", "load"} # {} => p = q
  /\ Held \in [Procs -> SUBSET (1 .. NumJunks)]
  /\ Matches \subseteq Names \X Names
  /\ NoName \notin Names
  /\ {NumJunks, NumSlots} \subseteq Nat \ {0}
  /\ Given \in [1 .. NumJunks -> Names]
  /\ \A i, j \in 1 .. NumJunks : Given[i] = Given[j] => i = j
  /\ Older \in Names
  /\ {MaxSeq, MaxCalls} \subseteq Nat /\ MaxPushes \in Nat \ {0}

Junks == 1 .. NumJunks
Elems == 0 .. MaxPushes    \* the bytes of an element; 0 are zeroed bytes
Files == [name : Names, seq : 0 .. MaxSeq]

(***************************************************************************)
(* The cells of a junk, in the order of wv_shm_junk_hdr_t.                 *)
(***************************************************************************)
Label == 1
ReadPos == 2
CountPos == 3
Slot(i) == 4 + (i % NumSlots)
Last == 3 + NumSlots
Slots == 4 .. Last
Cells == 1 .. Last

Labels == [name : Names \cup {NoName}, assigned : BOOLEAN, home : Junks]

CellValues(c) ==
  CASE c = Label    -> Labels
    [] c = ReadPos  -> 0 .. NumSlots - 1
    [] c = CountPos -> 0 .. NumSlots
    [] OTHER        -> Elems

NoFile == [name |-> NoName, seq |-> 0]

Jobs ==
  [name : Names \cup {NoName}, file : Files \cup {NoFile},
   junk : 0 .. NumJunks, from : 0 .. NumJunks, pos : 0 .. Last + 1]

NoJob == [name |-> NoName, file |-> NoFile, junk |-> 0, from |-> 0, pos |-> 0]

VARIABLES
  mem,        \* the cells of each junk
  files,      \* the cells in each file of the directory
  pc,         \* where each process is
  job,        \* in a call: the name asked for, the file opened, the junk
              \* found, the one the cells are copied from or to, the next cell
  pushed,     \* how many elements were pushed
  calls,      \* how many calls of assign, unassign, dump and load were made
  tape,       \* history: what each file was to be a dump of
  disturbed,  \* history: did others write what a dump or load works on
  spoiled     \* history: did they, by other writes than pushes to its queue

counters == <<pushed, calls>>
history == <<tape, disturbed, spoiled>>
vars == <<mem, files, pc, job, counters, history>>

PCs == {"idle", "name", "clear", "path", "open", "dump", "take", "label", "load"}

Fresh(j, n) ==
  [c \in Cells |-> IF c = Label THEN [name |-> n, assigned |-> TRUE, home |-> j] ELSE 0]

(***************************************************************************)
(* The junks are assigned and empty; the directory has a dump of junk 1,   *)
(* with one element, from the time it had another name.                    *)
(***************************************************************************)
OlderFile == [name |-> Older, seq |-> 0]

Init ==
  /\ mem = [j \in Junks |-> Fresh(j, Given[j])]
  /\ files = [f \in {OlderFile} |-> [Fresh(1, Older) EXCEPT ![CountPos] = 1, ![Slot(0)] = 1]]
  /\ tape = [f \in {OlderFile} |->
               [of |-> 1, label |-> Fresh(1, Older)[Label], q |-> <<1>>, whole |-> TRUE]]
  /\ pushed = 1
  /\ pc = [p \in Procs |-> "idle"]
  /\ job = [p \in Procs |-> NoJob]
  /\ calls = 0
  /\ disturbed = [p \in Procs |-> FALSE]
  /\ spoiled = [p \in Procs |-> FALSE]

Home(j) == mem[j][Label].home
Read(j) == mem[j][ReadPos]
Count(j) == mem[j][CountPos]
Queue(j) == [i \in 1 .. Count(j) |-> mem[Home(j)][Slot(Read(j) + i - 1)]]

(***************************************************************************)
(* The queue in a row of cells whose header is at home.                    *)
(***************************************************************************)
RowQueue(row) == [i \in 1 .. row[CountPos] |-> row[Slot(row[ReadPos] + i - 1)]]

(***************************************************************************)
(* Process p wrote cells of the junks js, and did no more to those in      *)
(* grown than to add an element to their queue: what that means for the    *)
(* dump or load of another.                                                *)
(***************************************************************************)
Copying(p) == pc[p] \in {"dump", "load"}

Disturb(p, js, grown) ==
  /\ disturbed' = [q \in Procs |->
       disturbed[q] \/ (q # p /\ Copying(q) /\ job[q].from \in js)]
  /\ spoiled' = [q \in Procs |->
       spoiled[q] \/ (q # p /\ pc[q] = "dump" /\ job[q].from \in js \ grown)]

Goto(p, label) == pc' = [pc EXCEPT ![p] = label]

Begin(p, label, n, f, junk) ==
  /\ Goto(p, label)
  /\ job' = [job EXCEPT ![p] = [NoJob EXCEPT !.name = n, !.file = f, !.junk = junk]]

Copy(p, label, junk) ==
  /\ Goto(p, label)
  /\ job' = [job EXCEPT ![p].junk = junk, ![p].from = Home(junk), ![p].pos = 1]

Advance(p) == job' = [job EXCEPT ![p].pos = @ + 1]

(***************************************************************************)
(* The call returns, or ends with its process.                             *)
(***************************************************************************)
EndCall(p) == Goto(p, "idle") /\ job' = [job EXCEPT ![p] = NoJob]

Return(p) ==
  /\ EndCall(p)
  /\ disturbed' = [disturbed EXCEPT ![p] = FALSE]
  /\ spoiled' = [spoiled EXCEPT ![p] = FALSE]

-----------------------------------------------------------------------------
(***************************************************************************)
(* Names: the first assigned junk whose name begins with the one asked     *)
(* for, the first unassigned junk.  The flag of a junk is written first,   *)
(* then its name: in between, and for good if the process ends there, an   *)
(* unassigned junk has a name, or an assigned one the name of before.      *)
(***************************************************************************)
Named(n) == {j \in Junks : mem[j][Label].assigned /\ <<n, mem[j][Label].name>> \in Matches}
Free == {j \in Junks : ~mem[j][Label].assigned}

IsFirst(j, js) == j \in js /\ \A k \in js : j <= k

SetFlag(j, flag) == mem' = [mem EXCEPT ![j][Label] = [@ EXCEPT !.assigned = flag]]
SetName(j, n) == mem' = [mem EXCEPT ![j][Label] = [@ EXCEPT !.name = n]]

Call(p, op) == pc[p] = "idle" /\ op \in Calls[p]

CountedCall(p, op) ==
  /\ Call(p, op)
  /\ calls < MaxCalls /\ calls' = calls + 1
  /\ UNCHANGED pushed

AssignJunk(p) ==
  /\ CountedCall(p, "assign")
  /\ \E n \in Names, j \in Junks :
       /\ Named(n) = {}
       /\ IsFirst(j, Free)
       /\ SetFlag(j, TRUE)
       /\ Begin(p, "name", n, NoFile, j)
       /\ Disturb(p, {j}, {})
  /\ UNCHANGED <<files, tape>>

UnassignJunk(p) ==
  /\ CountedCall(p, "unassign")
  /\ \E n \in Names, j \in Junks :
       /\ IsFirst(j, Named(n))
       /\ SetFlag(j, FALSE)
       /\ Begin(p, "name", NoName, NoFile, j)
       /\ Disturb(p, {j}, {})
  /\ UNCHANGED <<files, tape>>

NameJunk(p) ==
  /\ pc[p] = "name"
  /\ LET j == job[p].junk IN
       /\ SetName(j, job[p].name)
       /\ Disturb(p, {j}, {})
  /\ Goto(p, "clear")
  /\ UNCHANGED <<files, job, counters, tape>>

(***************************************************************************)
(* wv_shm_clear_junk zeroes the queue the header speaks of; assigning and  *)
(* unassigning end with it.                                                *)
(***************************************************************************)
Clear(p, j) ==
  /\ mem' = [k \in Junks |-> [c \in Cells |->
               IF (k = j /\ c \in {ReadPos, CountPos}) \/ (k = Home(j) /\ c \in Slots)
               THEN 0 ELSE mem[k][c]]]
  /\ UNCHANGED <<files, counters, tape>>

ClearJunk(p) ==
  /\ Call(p, "clear")
  /\ \E j \in Held[p] : Clear(p, j) /\ Disturb(p, {j, Home(j)}, {})
  /\ UNCHANGED <<pc, job>>

ClearAndReturn(p) ==
  /\ pc[p] = "clear"
  /\ LET j == job[p].junk IN
       /\ Clear(p, j)
       /\ Disturb(p, {j, Home(j)}, {})
  /\ EndCall(p)

PushWhenFull(p) ==
  /\ Call(p, "push")
  /\ pushed < MaxPushes
  /\ \E j \in Held[p] :
       /\ mem' = [mem EXCEPT ![Home(j)][Slot(Read(j) + Count(j))] = pushed + 1,
                             ![j][CountPos] = Count(j) + 1]
       /\ Disturb(p, {j, Home(j)}, {j} \cap {Home(j)})
  /\ pushed' = pushed + 1
  /\ UNCHANGED <<files, pc, job, calls, tape>>

PushElem(p) ==
  /\ Call(p, "push")
  /\ pushed < MaxPushes
  /\ \E j \in Held[p] :
       /\ Count(j) < NumSlots
       /\ mem' = [mem EXCEPT ![Home(j)][Slot(Read(j) + Count(j))] = pushed + 1,
                             ![j][CountPos] = Count(j) + 1]
       /\ Disturb(p, {j, Home(j)}, {j} \cap {Home(j)})
  /\ pushed' = pushed + 1
  /\ UNCHANGED <<files, pc, job, calls, tape>>

PopPastLastSlot(p) ==
  /\ Call(p, "pop")
  /\ \E j \in Held[p] :
       /\ Count(j) > 0
       /\ mem' = [mem EXCEPT ![j][ReadPos] = Read(j) + 1,
                             ![j][CountPos] = Count(j) - 1]
       /\ Disturb(p, {j}, {})
  /\ UNCHANGED <<files, pc, job, counters, tape>>

PopElemData(p) ==
  /\ Call(p, "pop")
  /\ \E j \in Held[p] :
       /\ Count(j) > 0
       /\ mem' = [mem EXCEPT ![j][ReadPos] = (Read(j) + 1) % NumSlots,
                             ![j][CountPos] = Count(j) - 1]
       /\ Disturb(p, {j}, {})
  /\ UNCHANGED <<files, pc, job, counters, tape>>

-----------------------------------------------------------------------------
(***************************************************************************)
(* wv_shm_dump_junk: the paths of the sequence are tried until one does    *)
(* not exist, but for the last; then the file is opened, which empties it, *)
(* and the cells behind startoffs are written to it.                       *)
(***************************************************************************)
DumpJunk(p) ==
  /\ CountedCall(p, "dump")
  /\ \E n \in Names, j \in Junks :
       /\ IsFirst(j, Named(n))
       /\ Begin(p, "path", n, [name |-> n, seq |-> 0], j)
  /\ UNCHANGED <<mem, files, history>>

NextPath(p) ==
  /\ pc[p] = "path"
  /\ job[p].file \in DOMAIN files /\ job[p].file.seq < MaxSeq
  /\ job' = [job EXCEPT ![p].file.seq = @ + 1]
  /\ UNCHANGED <<mem, files, pc, counters, history>>

PathFound(p) ==
  /\ pc[p] = "path"
  /\ job[p].file \notin DOMAIN files \/ job[p].file.seq = MaxSeq
  /\ Goto(p, "open")
  /\ UNCHANGED <<mem, files, job, counters, history>>

Put(dir, f, x) == [g \in DOMAIN dir \cup {f} |-> IF g = f THEN x ELSE dir[g]]

OpenDump(p) ==
  /\ pc[p] = "open"
  /\ LET j == job[p].junk
         f == job[p].file
     IN
       /\ files' = Put(files, f, <<>>)
       /\ tape' = Put(tape, f, [of |-> IF Home(j) = j THEN j ELSE 0, label |-> mem[j][Label],
                                q |-> Queue(j), whole |-> FALSE])
       /\ Copy(p, "dump", j)
  /\ UNCHANGED <<mem, counters, disturbed, spoiled>>

DumpCell(p) ==
  /\ pc[p] = "dump"
  /\ job[p].pos <= Last
  /\ LET pos == job[p].pos IN
       files' = [files EXCEPT ![job[p].file] =
                   [c \in 1 .. pos |-> IF c = pos THEN mem[job[p].from][pos] ELSE @[c]]]
  /\ Advance(p)
  /\ UNCHANGED <<mem, pc, counters, history>>

CloseDump(p) ==
  /\ pc[p] = "dump"
  /\ job[p].pos > Last
  /\ tape' = [tape EXCEPT ![job[p].file].whole = ~disturbed[p]]
  /\ Return(p)
  /\ UNCHANGED <<mem, files, counters>>

-----------------------------------------------------------------------------
(***************************************************************************)
(* wv_shm_load_junk opens any file whose name begins with the one asked    *)
(* for; it looks for a junk of the name, assigned or not, and takes an     *)
(* unassigned one if there is none.  The file goes to startoffs of that    *)
(* header.                                                                 *)
(***************************************************************************)
LoadJunk(p) ==
  /\ CountedCall(p, "load")
  /\ \E n \in Names, f \in DOMAIN files :
       /\ <<n, f.name>> \in Matches
       /\ Begin(p, "take", n, f, 0)
  /\ UNCHANGED <<mem, files, history>>

Holding(n) == {j \in Junks : <<n, mem[j][Label].name>> \in Matches}

TakeHolding(p) ==
  /\ pc[p] = "take"
  /\ \E j \in Junks : IsFirst(j, Holding(job[p].name)) /\ Copy(p, "load", j)
  /\ UNCHANGED <<mem, files, counters, history>>

TakeFree(p) ==
  /\ pc[p] = "take"
  /\ Holding(job[p].name) = {}
  /\ \E j \in Junks :
       /\ IsFirst(j, Free)
       /\ SetFlag(j, TRUE)
       /\ job' = [job EXCEPT ![p].junk = j]
       /\ Disturb(p, {j}, {})
  /\ Goto(p, "label")
  /\ UNCHANGED <<files, counters, tape>>

NameTaken(p) ==
  /\ pc[p] = "label"
  /\ LET j == job[p].junk IN
       /\ SetName(j, job[p].name)
       /\ Copy(p, "load", j)
       /\ Disturb(p, {j}, {})
  /\ UNCHANGED <<files, counters, tape>>

TakeNone(p) ==
  /\ pc[p] = "take"
  /\ Holding(job[p].name) = {} /\ Free = {}
  /\ Return(p)
  /\ UNCHANGED <<mem, files, counters, tape>>

LoadCellOfQueue(p) ==
  /\ pc[p] = "load"
  /\ job[p].pos \in DOMAIN files[job[p].file]
  /\ mem' = [mem EXCEPT ![job[p].from][job[p].pos] =
               IF job[p].pos \in Slots THEN files[job[p].file][job[p].pos] ELSE @]
  /\ Advance(p)
  /\ Disturb(p, {job[p].from}, {})
  /\ UNCHANGED <<files, pc, counters, tape>>

LoadCell(p) ==
  /\ pc[p] = "load"
  /\ job[p].pos \in DOMAIN files[job[p].file]
  /\ mem' = [mem EXCEPT ![job[p].from][job[p].pos] = files[job[p].file][job[p].pos]]
  /\ Advance(p)
  /\ Disturb(p, {job[p].from}, {})
  /\ UNCHANGED <<files, pc, counters, tape>>

EndLoad(p) ==
  /\ pc[p] = "load"
  /\ job[p].pos \notin DOMAIN files[job[p].file]
  /\ Return(p)
  /\ UNCHANGED <<mem, files, counters, tape>>

(***************************************************************************)
(* The process ends in the middle of a call.  (Ending between two calls    *)
(* changes nothing but its pointer.)                                       *)
(***************************************************************************)
Die(p) ==
  /\ pc[p] # "idle"
  /\ Return(p)
  /\ UNCHANGED <<mem, files, counters, tape>>

Next ==
  \E p \in Procs :
    \/ AssignJunk(p) \/ UnassignJunk(p) \/ NameJunk(p)
    \/ ClearJunk(p) \/ ClearAndReturn(p)
    \/ PushElem(p) \/ PopElemData(p)
    \/ DumpJunk(p) \/ NextPath(p) \/ PathFound(p)
    \/ OpenDump(p) \/ DumpCell(p) \/ CloseDump(p)
    \/ LoadJunk(p) \/ TakeHolding(p) \/ TakeFree(p) \/ NameTaken(p) \/ TakeNone(p)
    \/ LoadCell(p) \/ EndLoad(p)
    \/ Die(p)

Spec == Init /\ [][Next]_vars

-----------------------------------------------------------------------------
(***************************************************************************)
(* What is where: every junk and file is a row of cells, and every job has *)
(* what its place in the call needs.                                       *)
(***************************************************************************)
JobFits(p) ==
  /\ pc[p] \in {"name", "clear", "path", "open", "label"} => job[p].junk \in Junks
  /\ Copying(p) => /\ {job[p].junk, job[p].from} \subseteq Junks
                   /\ job[p].pos # 0
  /\ pc[p] \in {"path", "open"} => job[p].file \in Files
  /\ pc[p] \in {"dump", "take", "label", "load"} => job[p].file \in DOMAIN files
  /\ pc[p] \in {"path", "open", "dump", "take", "label", "load"} => Calls[p] \cap {"dump", "load"} # {}

Shape ==
  /\ mem = [j \in Junks |-> [c \in Cells |-> mem[j][c]]]
  /\ DOMAIN files \subseteq Files /\ DOMAIN tape = DOMAIN files
  /\ \A f \in DOMAIN files : \E n \in 0 .. Last : files[f] = [c \in 1 .. n |-> files[f][c]]
  /\ pc \in [Procs -> PCs]
  /\ job \in [Procs -> Jobs]
  /\ \A p \in Procs : JobFits(p)
  /\ disturbed \in [Procs -> BOOLEAN]
  /\ spoiled \in [Procs -> BOOLEAN]

(***************************************************************************)
(* Type invariant: Shape, and what the cells may hold.  Offsets stay in    *)
(* the queue and the count within its room, whatever is loaded.            *)
(***************************************************************************)
TypeOK ==
  /\ Shape
  /\ \A j \in Junks, c \in Cells : mem[j][c] \in CellValues(c)
  /\ \A f \in DOMAIN files : \A c \in DOMAIN files[f] : files[f][c] \in CellValues(c)
  /\ pushed \in 0 .. MaxPushes /\ calls \in 0 .. MaxCalls

(***************************************************************************)
(* What wv_shm_load_junk returns has the label and the queue of the junk   *)
(* at the time wv_shm_dump_junk began to write it, if nobody disturbs the  *)
(* dump and the load and the junk loaded is the one that was dumped;       *)
(* whatever happened to that junk, to others and to other files in         *)
(* between.                                                                *)
(***************************************************************************)
ComesHome(p) ==
  LET j == job[p].junk
      f == job[p].file
  IN tape[f].whole /\ ~disturbed[p] /\ tape[f].of = j /\ job[p].from = j

RoundTrip ==
  [][\A p \in Procs : EndLoad(p) /\ ComesHome(p) =>
       /\ Queue(job[p].junk) = tape[job[p].file].q
       /\ mem[job[p].junk][Label] = tape[job[p].file].label]_vars

(***************************************************************************)
(* A dump takes no lock.  What was queued when it began is in it, in its   *)
(* order, though others push to the junk all through it: the count is      *)
(* copied in front of the elements, and a push changes none of those it    *)
(* counts.  (A pop between the copies of the read position and of the      *)
(* count makes it miss an element that stays queued.)                      *)
(***************************************************************************)
BeginsWith(q, r) == DOMAIN q \subseteq DOMAIN r /\ \A i \in DOMAIN q : r[i] = q[i]

HasQueued(row, q) == DOMAIN row = Cells /\ BeginsWith(q, RowQueue(row))

PushesHarmNoDump ==
  [][\A p \in Procs : CloseDump(p) /\ ~spoiled[p] /\ tape[job[p].file].of # 0 =>
       HasQueued(files[job[p].file], tape[job[p].file].q)]_vars

(***************************************************************************)
(* "junk_hdr | junk_elem_hdr | data | ..." (wv_shm_mngt.h): the queue of a *)
(* junk is what follows its header, and no two junks share one.            *)
(***************************************************************************)
OwnArea == \A j \in Junks : Home(j) = j
=============================================================================
