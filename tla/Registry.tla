------------------------------- MODULE Registry -------------------------------
(***************************************************************************)
(* The junks by name: wv_shm_find_junk, wv_shm_assign_junk and             *)
(* wv_shm_unassign_junk, called by several processes at a time.  None of   *)
(* them takes a lock, so each read and each write of the flag and of each  *)
(* byte of the name of a junk header is a step, and a process may end      *)
(* between any two.                                                        *)
(* (Assigning and unassigning also clear the queue of the junk: ClearJunk  *)
(* of JunkQueue, ClearAndReturn of DumpLoad.)                              *)
(***************************************************************************)
EXTENDS Naturals

CONSTANTS
  Procs,     \* the processes
  Bytes,     \* what a name is written with
  Nul,       \* the terminator
  NameSz,    \* the bytes shm_name has room for
  Names,     \* the names processes ask for
  NumJunks   \* _shmmeta->count

Positions == 1 .. NameSz

(* The buffer of a junk that was never assigned, and no name at all. *)
NoName == [i \in Positions |-> Nul]

(***************************************************************************)
(* A name is a C string that fits, of one byte at least, with terminators  *)
(* up to the end of the buffer.  (One of more than 255 bytes is cut by     *)
(* snprintf; there is none here.)                                          *)
(***************************************************************************)
ASSUME RegistryAssumption ==
  /\ NumJunks \in Nat \ {0}
  /\ NameSz \in Nat \ {0}
  /\ Nul \in Bytes

ASSUME NameAssumption ==
  /\ Names \subseteq [Positions -> Bytes]
  /\ \A n \in Names :
       /\ n[1] # Nul /\ n[NameSz] = Nul
       /\ \A i, k \in Positions : i < k /\ n[i] = Nul => n[k] = Nul

Letters(n) == {i \in Positions : n[i] # Nul}

(* The bytes snprintf writes: the letters and one terminator. *)
LettersOnly(n) == Letters(n)
Written(n) == {i \in Positions : i = 1 \/ n[i - 1] # Nul}

(* strncmp(stored, n, strlen(n)) == 0 *)
Begins(n, stored) == \A i \in Letters(n) : stored[i] = n[i]

Junks == 1 .. NumJunks

VARIABLES
  is_assigned, shm_name,  \* the fields of each junk header
  pc,     \* where each process is
  op,     \* the call it makes, or made last
  name,   \* the name it calls it with
  idx,    \* the junk it looks at
  todo,   \* the bytes strncmp has still to compare, or snprintf to write
  ret,    \* the junk its last call returned, 0 for NULL
  owner,  \* history: the name each junk was assigned to and still is
  seen,   \* history: the junks that had such a name at some time of its call
  shaken, \* history: those whose flag was set with a name not complete then
  kept,   \* history: the junks that have had such a name since the call began
  raced   \* history: did two calls that write overlap

headers == <<is_assigned, shm_name, owner>>
history == <<seen, shaken, kept>>
vars == <<headers, pc, op, name, idx, todo, ret, history, raced>>

Ops == {"find", "assign", "unassign"}
PCs == {"idle", "flag", "name", "take", "set_flag", "set_name", "reset_flag",
        "reset_name", "clear"}

Init ==
  /\ is_assigned = [j \in Junks |-> FALSE]
  /\ shm_name = [j \in Junks |-> NoName]
  /\ owner = [j \in Junks |-> NoName]
  /\ pc = [p \in Procs |-> "idle"]
  /\ op = [p \in Procs |-> "find"]
  /\ name = [p \in Procs |-> NoName]
  /\ idx = [p \in Procs |-> 1]
  /\ todo = [p \in Procs |-> {}]
  /\ ret = [p \in Procs |-> 0]
  /\ seen = [p \in Procs |-> {}]
  /\ shaken = [p \in Procs |-> {}]
  /\ kept = [p \in Procs |-> {}]
  /\ raced = FALSE

Suits(n) == {j \in Junks : Begins(n, owner[j])}

(* The flag is set, the name is not, or not to its end. *)
Torn == {j \in Junks : is_assigned[j] /\ owner[j] = NoName}

Goto(p, label, i) ==
  /\ pc' = [pc EXCEPT ![p] = label]
  /\ idx' = [idx EXCEPT ![p] = i]

Return(p, junk) ==
  /\ Goto(p, "idle", 1)
  /\ todo' = [todo EXCEPT ![p] = {}]
  /\ ret' = [ret EXCEPT ![p] = junk]
  /\ seen' = [seen EXCEPT ![p] = {}]
  /\ shaken' = [shaken EXCEPT ![p] = {}]
  /\ kept' = [kept EXCEPT ![p] = {}]

(***************************************************************************)
(* owner[j] becomes n: the history of the calls under way.                 *)
(***************************************************************************)
Own(j, n) ==
  /\ owner' = [owner EXCEPT ![j] = n]
  /\ seen' = [p \in Procs |->
                IF pc[p] # "idle" /\ Begins(name[p], n)
                THEN seen[p] \cup {j} ELSE seen[p]]
  /\ kept' = [p \in Procs |->
                IF pc[p] # "idle" /\ ~Begins(name[p], n)
                THEN kept[p] \ {j} ELSE kept[p]]

-----------------------------------------------------------------------------
Writing(p) == pc[p] # "idle" /\ op[p] # "find"

Call(p, o, n) ==
  /\ pc[p] = "idle"
  /\ op' = [op EXCEPT ![p] = o]
  /\ name' = [name EXCEPT ![p] = n]
  /\ seen' = [seen EXCEPT ![p] = Suits(n)]
  /\ shaken' = [shaken EXCEPT ![p] = Torn]
  /\ kept' = [kept EXCEPT ![p] = Suits(n)]
  /\ raced' = (raced \/ (o # "find" /\ \E q \in Procs : Writing(q)))
  /\ Goto(p, "flag", 1)
  /\ ret' = [ret EXCEPT ![p] = 0]
  /\ UNCHANGED <<headers, todo>>

(***************************************************************************)
(* The loop all three calls begin with: look for an assigned junk of such  *)
(* a name, reading the flag and, only if it is set, the name.  strncmp     *)
(* reads the bytes it needs one after the other, in an order of its own.   *)
(***************************************************************************)
Compare(p, junk) ==
  /\ Goto(p, "name", junk)
  /\ todo' = [todo EXCEPT ![p] = Letters(name[p])]

ReadFlagStops(p) ==
  /\ pc[p] = "flag"
  /\ idx[p] \in Junks
  /\ IF is_assigned[idx[p]] THEN Compare(p, idx[p])
     ELSE Goto(p, "flag", NumJunks + 1) /\ UNCHANGED todo
  /\ UNCHANGED <<headers, op, name, ret, history, raced>>

ReadFlag(p) ==
  /\ pc[p] = "flag"
  /\ idx[p] \in Junks
  /\ IF is_assigned[idx[p]] THEN Compare(p, idx[p])
     ELSE Goto(p, "flag", idx[p] + 1) /\ UNCHANGED todo
  /\ UNCHANGED <<headers, op, name, ret, history, raced>>

SameByte(p) ==
  /\ pc[p] = "name"
  /\ \E i \in todo[p] :
       /\ shm_name[idx[p]][i] = name[p][i]
       /\ todo' = [todo EXCEPT ![p] = @ \ {i}]
  /\ UNCHANGED <<headers, pc, op, name, idx, ret, history, raced>>

OtherByte(p) ==
  /\ pc[p] = "name"
  /\ \E i \in todo[p] : shm_name[idx[p]][i] # name[p][i]
  /\ Goto(p, "flag", idx[p] + 1)
  /\ todo' = [todo EXCEPT ![p] = {}]
  /\ UNCHANGED <<headers, op, name, ret, history, raced>>

HitKeepsFlag(p) ==
  /\ pc[p] = "name"
  /\ todo[p] = {}
  /\ CASE op[p] = "find"     -> Return(p, idx[p])
       [] op[p] = "assign"   -> Return(p, 0)
       [] op[p] = "unassign" -> Goto(p, "reset_name", idx[p]) /\ UNCHANGED <<todo, ret, history>>
  /\ UNCHANGED <<headers, op, name, raced>>

Hit(p) ==
  /\ pc[p] = "name"
  /\ todo[p] = {}
  /\ CASE op[p] = "find"     -> Return(p, idx[p])
       [] op[p] = "assign"   -> Return(p, 0)
       [] op[p] = "unassign" -> Goto(p, "reset_flag", idx[p]) /\ UNCHANGED <<todo, ret, history>>
  /\ UNCHANGED <<headers, op, name, raced>>

NotFoundEarly(p) ==
  /\ pc[p] = "flag"
  /\ idx[p] >= NumJunks
  /\ IF op[p] = "assign" THEN Goto(p, "take", 1) /\ UNCHANGED <<todo, ret, history>>
     ELSE Return(p, 0)
  /\ UNCHANGED <<headers, op, name, raced>>

NotFound(p) ==
  /\ pc[p] = "flag"
  /\ idx[p] \notin Junks
  /\ IF op[p] = "assign" THEN Goto(p, "take", 1) /\ UNCHANGED <<todo, ret, history>>
     ELSE Return(p, 0)
  /\ UNCHANGED <<headers, op, name, raced>>

-----------------------------------------------------------------------------
(***************************************************************************)
(* wv_shm_assign_junk takes the first junk whose flag is 0: it tests the   *)
(* flag, sets it, and then writes the name over what the last one left.    *)
(***************************************************************************)
TestFree(p) ==
  /\ pc[p] = "take"
  /\ idx[p] \in Junks
  /\ IF is_assigned[idx[p]] THEN Goto(p, "take", idx[p] + 1) ELSE Goto(p, "set_flag", idx[p])
  /\ UNCHANGED <<headers, op, name, todo, ret, history, raced>>

NoneFreeReturnsIdx(p) ==
  /\ pc[p] = "take"
  /\ idx[p] \notin Junks
  /\ Return(p, idx[p])
  /\ UNCHANGED <<headers, op, name, raced>>

NoneFree(p) ==
  /\ pc[p] = "take"
  /\ idx[p] \notin Junks
  /\ Return(p, 0)
  /\ UNCHANGED <<headers, op, name, raced>>

SetFlag(p) ==
  /\ pc[p] = "set_flag"
  /\ is_assigned' = [is_assigned EXCEPT ![idx[p]] = TRUE]
  /\ shaken' = [q \in Procs |->
                  IF pc[q] # "idle" THEN shaken[q] \cup {idx[p]} ELSE shaken[q]]
  /\ Goto(p, "set_name", idx[p])
  /\ todo' = [todo EXCEPT ![p] = Written(name[p])]
  /\ UNCHANGED <<shm_name, owner, op, name, ret, seen, kept, raced>>

(***************************************************************************)
(* One byte of snprintf: the letters in an order of its own, then the      *)
(* terminator.  With the last byte the junk has its name, and the call     *)
(* goes on to clear its queue.                                             *)
(***************************************************************************)
SetName(p) ==
  /\ pc[p] = "set_name"
  /\ \E i \in todo[p] :
       /\ name[p][i] = Nul => todo[p] = {i}
       /\ shm_name' = [shm_name EXCEPT ![idx[p]][i] = name[p][i]]
       /\ todo' = [todo EXCEPT ![p] = @ \ {i}]
       /\ IF todo[p] = {i}
          THEN Own(idx[p], name[p]) /\ Goto(p, "clear", idx[p])
          ELSE UNCHANGED <<owner, seen, kept, pc, idx>>
  /\ UNCHANGED <<is_assigned, op, name, ret, shaken, raced>>

(***************************************************************************)
(* wv_shm_unassign_junk resets the flag, then the name: strcpy of the      *)
(* empty string writes the terminator over its first byte.                 *)
(***************************************************************************)
ResetFlag(p) ==
  /\ pc[p] = "reset_flag"
  /\ is_assigned' = [is_assigned EXCEPT ![idx[p]] = FALSE]
  /\ Own(idx[p], NoName)
  /\ Goto(p, "reset_name", idx[p])
  /\ UNCHANGED <<shm_name, op, name, todo, ret, shaken, raced>>

ResetName(p) ==
  /\ pc[p] = "reset_name"
  /\ shm_name' = [shm_name EXCEPT ![idx[p]][1] = Nul]
  /\ Goto(p, "clear", idx[p])
  /\ UNCHANGED <<is_assigned, owner, op, name, todo, ret, history, raced>>

(* Assigning and unassigning return the junk once its queue is clear. *)
Cleared(p) ==
  /\ pc[p] = "clear"
  /\ Return(p, idx[p])
  /\ UNCHANGED <<headers, op, name, raced>>

(***************************************************************************)
(* The process ends in its call, and another one takes its place.          *)
(***************************************************************************)
Die(p) ==
  /\ pc[p] # "idle"
  /\ Return(p, 0)
  /\ op' = [op EXCEPT ![p] = "find"]
  /\ name' = [name EXCEPT ![p] = NoName]
  /\ UNCHANGED <<headers, raced>>

Next ==
  \E p \in Procs :
    \/ \E o \in Ops, n \in Names : Call(p, o, n)
    \/ ReadFlag(p) \/ SameByte(p) \/ OtherByte(p) \/ Hit(p) \/ NotFound(p)
    \/ TestFree(p) \/ NoneFree(p) \/ SetFlag(p) \/ SetName(p)
    \/ ResetFlag(p) \/ ResetName(p) \/ Cleared(p)
    \/ Die(p)

Spec == Init /\ [][Next]_vars

-----------------------------------------------------------------------------
(***************************************************************************)
(* Type invariant of the junk headers and the calls.                       *)
(***************************************************************************)
TypeOK ==
  /\ is_assigned \in [Junks -> BOOLEAN]
  /\ shm_name \in [Junks -> [Positions -> Bytes]]
  /\ owner \in [Junks -> Names \cup {NoName}]
  /\ pc \in [Procs -> PCs]
  /\ op \in [Procs -> Ops]
  /\ name \in [Procs -> Names \cup {NoName}]
  /\ idx \in [Procs -> 1 .. NumJunks + 1]
  /\ todo \in [Procs -> SUBSET Positions]
  /\ ret \in [Procs -> 0 .. NumJunks]
  /\ seen \in [Procs -> SUBSET Junks]
  /\ shaken \in [Procs -> SUBSET Junks]
  /\ kept \in [Procs -> SUBSET Junks]
  /\ raced \in BOOLEAN

(* The call of p returns, rather than p ending in it. *)
Returns(p, ops) == op[p] \in ops /\ pc[p] # "idle" /\ pc'[p] = "idle" /\ name'[p] = name[p]

(***************************************************************************)
(* A junk that wv_shm_find_junk or wv_shm_unassign_junk returns had a name *)
(* that begins with the one asked for at some time during the call, or it  *)
(* was without a complete name then: being given one, or left by a process *)
(* that ended in the middle of it.  So it is whatever else is assigned,    *)
(* unassigned or cut short meanwhile, one call that writes at a time: the  *)
(* tail of an old name is not found in a junk that keeps its new one.      *)
(***************************************************************************)
FoundHadName ==
  [][~raced =>
       \A p \in Procs :
         Returns(p, {"find", "unassign"}) /\ ret'[p] # 0 =>
           ret'[p] \in seen[p] \cup shaken[p]]_vars

(***************************************************************************)
(* A junk that had such a name all through the call is not missed, with    *)
(* others assigned, unassigned, or left half written in front of it.       *)
(***************************************************************************)
NoneMissed ==
  [][~raced =>
       \A p \in Procs :
         Returns(p, {"find", "unassign"}) /\ ret'[p] = 0 => kept[p] = {}]_vars

(***************************************************************************)
(* "The junk having the same name was existing." (wv_shm_assign_junk): no  *)
(* two junks are assigned to one name.                                     *)
(***************************************************************************)
NameGivenOnce ==
  \A i, j \in Junks : owner[i] # NoName /\ owner[i] = owner[j] => i = j

(***************************************************************************)
(* They are not, as long as junks are assigned and unassigned one at a     *)
(* time, by processes that may end in any of their writes.                 *)
(***************************************************************************)
OneJunkPerName == ~raced => NameGivenOnce

-----------------------------------------------------------------------------
(***************************************************************************)
(* The inductive invariant.  Where a process can be in which call, and     *)
(* what is left of its comparison.                                         *)
(***************************************************************************)
InCall(p) ==
  /\ pc[p] # "idle" => name[p] \in Names
  /\ pc[p] \in {"take", "set_flag", "set_name"} => op[p] = "assign"
  /\ pc[p] \in {"reset_flag", "reset_name"} => op[p] = "unassign"
  /\ pc[p] = "clear" => op[p] # "find"
  /\ pc[p] \in {"name", "set_flag", "set_name", "reset_flag", "reset_name", "clear"} =>
       idx[p] \in Junks
  /\ pc[p] = "name" => todo[p] \subseteq Letters(name[p])

CallShape == \A p \in Procs : InCall(p)

(***************************************************************************)
(* Only one process is writing.                                            *)
(***************************************************************************)
OneWriter == ~raced => \A p, q \in Procs : Writing(p) /\ Writing(q) => p = q

(***************************************************************************)
(* A junk shows the name it has, up to the terminator; what follows may be *)
(* the tail of another one.  A junk that is being assigned shows what has  *)
(* been written of its name.                                               *)
(***************************************************************************)
Shows(j, n, S) == \A i \in S : shm_name[j][i] = n[i]

ShowsOwner(j) ==
  owner[j] # NoName => is_assigned[j] /\ Shows(j, owner[j], Written(owner[j]))

Writes(p) ==
  /\ pc[p] \in {"set_flag", "reset_name"} => ~is_assigned[idx[p]]
  /\ pc[p] = "set_name" =>
       /\ is_assigned[idx[p]] /\ owner[idx[p]] = NoName
       /\ Shows(idx[p], name[p], Written(name[p]) \ todo[p])

HeaderShape ==
  ~raced => /\ \A j \in Junks : ShowsOwner(j)
            /\ \A p \in Procs : Writes(p)

(***************************************************************************)
(* What a call knows of the junks it has passed, and of the one it looks   *)
(* at: if the junk never had such a name, a byte that tells it is left.    *)
(***************************************************************************)
Tells(p, i) == shm_name[idx[p]][i] # name[p][i]

Knows(p) ==
  /\ pc[p] # "idle" =>
       /\ Suits(name[p]) \subseteq seen[p]
       /\ kept[p] \subseteq Suits(name[p])
       /\ Torn \subseteq shaken[p]
  /\ pc[p] = "name" =>
       idx[p] \in seen[p] \cup shaken[p] \/ \E i \in todo[p] : Tells(p, i)
  /\ pc[p] \in {"flag", "name"} =>
       \A j \in Junks : j < idx[p] =>
         /\ j \notin kept[p]
         /\ op[p] = "assign" => ~Begins(name[p], owner[j])
  /\ pc[p] \in {"take", "set_flag", "set_name"} => Suits(name[p]) = {}
  /\ pc[p] \in {"reset_flag", "reset_name", "clear"} /\ op[p] = "unassign" =>
       idx[p] \in seen[p] \cup shaken[p]

Progress == ~raced => \A p \in Procs : Knows(p)

Inv ==
  /\ TypeOK
  /\ CallShape
  /\ OneWriter
  /\ HeaderShape
  /\ Progress
  /\ OneJunkPerName
=============================================================================
