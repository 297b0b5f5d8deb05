------------------------------- MODULE Segment -------------------------------
(***************************************************************************)
(* The shared memory segment and its meta data: processes that run         *)
(* wv_shm_init_shm at the same time, that remove the segment while others  *)
(* use it, and that end at any point of it.  Each system call is a step,   *)
(* and so is the write of a junk header or of a field of the meta data.    *)
(*                                                                         *)
(* A segment has the key SHM_KEY from its creation to its removal.  The    *)
(* kernel gives ids in ascending order, from 0; another program may have   *)
(* got id 0.  A removed segment stays until the last process detaches, and *)
(* can be attached as long by those that have its id.                      *)
(***************************************************************************)
EXTENDS Integers

CONSTANTS
  Procs,     \* the processes
  Removers,  \* those that call wv_shm_init with flags other than 0
  NumJunks,  \* SHM_MAX_COUNT
  MaxIds     \* bound: how many ids the kernel ever gives

ASSUME SegmentAssumption ==
  /\ Removers \subseteq Procs
  /\ NumJunks \in Nat \ {0}
  /\ MaxIds \in Nat

NoId == -1
Ids == 0 .. MaxIds - 1
Junks == 1 .. NumJunks

(***************************************************************************)
(* The fields of the meta data: the offsets of the junks, and as Head what *)
(* is in front of them, with the count.                                    *)
(***************************************************************************)
Head == 0
Fields == {Head} \cup Junks

VARIABLES
  key,      \* the segment shmget finds by SHM_KEY
  numIds,   \* how many ids the kernel has given
  removed,  \* the segments that were removed
  inited,   \* the junk headers wv_shm_junk_init wrote in each segment
  copied,   \* the fields of the meta data written to each segment
  endaddr,  \* whose address is in the shm_endaddr of each segment, if any
  pc,       \* where in wv_shm_init_shm each process is
  shmid,    \* the id the process works with
  exists,   \* shm_exists
  at,       \* the segment at _shm_startaddr
  meta,     \* what _shmmeta points to: memory of its own or the segment
  filled,   \* the count in the meta data of its own
  todo,     \* the fields wv_shm_sync_meta has still to copy
  torn      \* history: the segments whose initialisation was cut short

kernel == <<key, numIds, removed>>
segments == <<inited, copied, endaddr, torn>>
locals == <<shmid, exists, at, meta, filled, todo>>
vars == <<kernel, segments, pc, locals>>

Flags == {"SHM_INIT", "SEMA_INIT"}

PCs ==
  {"down", "probe", "rmid", "create", "again", "lookup", "attach", "load",
   "junks", "sync", "done"}

Init ==
  /\ key = NoId
  /\ numIds \in {0, 1} \cap 0 .. MaxIds
  /\ removed = {}
  /\ inited = [s \in Ids |-> {}]
  /\ copied = [s \in Ids |-> {}]
  /\ endaddr = [s \in Ids |-> {}]
  /\ torn = {}
  /\ pc = [p \in Procs |-> "down"]
  /\ shmid = [p \in Procs |-> NoId]
  /\ exists = [p \in Procs |-> FALSE]
  /\ at = [p \in Procs |-> NoId]
  /\ meta = [p \in Procs |-> "none"]
  /\ filled = [p \in Procs |-> 0]
  /\ todo = [p \in Procs |-> {}]

Goto(p, label) == pc' = [pc EXCEPT ![p] = label]

(***************************************************************************)
(* The process ends: by exit(errno), because its program is done with the  *)
(* library, or by a crash.  What it knew is gone, the segments stay.       *)
(***************************************************************************)
Initialising(p) == pc[p] \in {"again", "attach", "junks", "sync"} /\ ~exists[p]

Exit(p) ==
  /\ pc[p] # "down"
  /\ Goto(p, "down")
  /\ torn' = IF Initialising(p) THEN torn \cup {shmid[p]} ELSE torn
  /\ at' = [at EXCEPT ![p] = NoId]
  /\ shmid' = [shmid EXCEPT ![p] = NoId]
  /\ exists' = [exists EXCEPT ![p] = FALSE]
  /\ meta' = [meta EXCEPT ![p] = "none"]
  /\ filled' = [filled EXCEPT ![p] = 0]
  /\ todo' = [todo EXCEPT ![p] = {}]
  /\ UNCHANGED <<kernel, inited, copied, endaddr>>

-----------------------------------------------------------------------------
(***************************************************************************)
(* The call begins with meta data of its own, and with any flag set it     *)
(* looks for a segment to remove first.                                    *)
(***************************************************************************)
Start(p) ==
  /\ pc[p] = "down"
  /\ \E f \in SUBSET Flags :
       /\ f # {} => p \in Removers
       /\ Goto(p, IF f # {} THEN "probe" ELSE "create")
  /\ meta' = [meta EXCEPT ![p] = "private"]
  /\ UNCHANGED <<kernel, segments, shmid, exists, at, filled, todo>>

(***************************************************************************)
(* shmget of the segment to remove.  The id is tested for 0, not for -1:   *)
(* segment 0 makes the process exit (Exit), no segment makes it go on.     *)
(***************************************************************************)
Probe(p) ==
  /\ pc[p] = "probe"
  /\ key # 0
  /\ shmid' = [shmid EXCEPT ![p] = key]
  /\ Goto(p, "rmid")
  /\ UNCHANGED <<kernel, segments, exists, at, meta, filled, todo>>

Rmid(p) ==
  /\ pc[p] = "rmid"
  /\ IF shmid[p] = key /\ key # NoId
     THEN key' = NoId /\ removed' = removed \cup {key}
     ELSE UNCHANGED <<key, removed>>
  /\ Goto(p, "create")
  /\ UNCHANGED <<numIds, segments, locals>>

-----------------------------------------------------------------------------
(***************************************************************************)
(* shmget with IPC_CREAT and IPC_EXCL, and the shmget that follows it: to  *)
(* make the segment anew, or to find the one that was there.  Each finds   *)
(* what has the key by then.                                               *)
(***************************************************************************)
NewSegment ==
  /\ numIds < MaxIds
  /\ key' = numIds
  /\ numIds' = numIds + 1
  /\ UNCHANGED removed

CreateShared(p) ==
  /\ pc[p] = "create"
  /\ IF key = NoId THEN NewSegment ELSE UNCHANGED kernel
  /\ shmid' = [shmid EXCEPT ![p] = key']
  /\ exists' = [exists EXCEPT ![p] = FALSE]
  /\ Goto(p, "again")
  /\ UNCHANGED <<segments, at, meta, filled, todo>>

Create(p) ==
  /\ pc[p] = "create"
  /\ IF key = NoId
     THEN /\ NewSegment
          /\ shmid' = [shmid EXCEPT ![p] = key']
          /\ exists' = [exists EXCEPT ![p] = FALSE]
          /\ Goto(p, "again")
     ELSE /\ exists' = [exists EXCEPT ![p] = TRUE]
          /\ Goto(p, "lookup")
          /\ UNCHANGED <<kernel, shmid>>
  /\ UNCHANGED <<segments, at, meta, filled, todo>>

CreateAgain(p) ==
  /\ pc[p] = "again"
  /\ IF key = NoId THEN NewSegment ELSE UNCHANGED kernel
  /\ shmid' = [shmid EXCEPT ![p] = key']
  /\ Goto(p, "attach")
  /\ UNCHANGED <<segments, exists, at, meta, filled, todo>>

(***************************************************************************)
(* If the segment is gone by now the process exits (Exit).                 *)
(***************************************************************************)
Lookup(p) ==
  /\ pc[p] = "lookup"
  /\ key # NoId
  /\ shmid' = [shmid EXCEPT ![p] = key]
  /\ Goto(p, "attach")
  /\ UNCHANGED <<kernel, segments, exists, at, meta, filled, todo>>

(***************************************************************************)
(* shmat, which fails if the segment was removed and nobody is attached:   *)
(* the call returns -1, with meta data without junks.                      *)
(***************************************************************************)
Attachable(s) == s \notin removed \/ \E q \in Procs : at[q] = s

Attach(p) ==
  /\ pc[p] = "attach"
  /\ Attachable(shmid[p])
  /\ at' = [at EXCEPT ![p] = shmid[p]]
  /\ Goto(p, IF exists[p] THEN "load" ELSE "junks")
  /\ UNCHANGED <<kernel, segments, shmid, exists, meta, filled, todo>>

AttachFails(p) ==
  /\ pc[p] = "attach"
  /\ ~Attachable(shmid[p])
  /\ Goto(p, "done")
  /\ UNCHANGED <<kernel, segments, locals>>

-----------------------------------------------------------------------------
(***************************************************************************)
(* wv_shm_load_meta: from here on _shmmeta is the start of the segment,    *)
(* whatever it holds by now, and shm_endaddr in it is an address of this   *)
(* process.                                                                *)
(***************************************************************************)
LoadMetaCopies(p) ==
  /\ pc[p] = "load"
  /\ filled' = [filled EXCEPT ![p] = IF Head \in copied[at[p]] THEN NumJunks ELSE 0]
  /\ Goto(p, "done")
  /\ UNCHANGED <<kernel, segments, shmid, exists, at, meta, todo>>

LoadMeta(p) ==
  /\ pc[p] = "load"
  /\ meta' = [meta EXCEPT ![p] = "shared"]
  /\ endaddr' = [endaddr EXCEPT ![at[p]] = {p}]
  /\ Goto(p, "done")
  /\ UNCHANGED <<kernel, inited, copied, torn, shmid, exists, at, filled, todo>>

(***************************************************************************)
(* wv_shm_init_meta: one wv_shm_junk_init after the other, counted in the  *)
(* process's own meta data.  Nobody reads the header of a junk before its  *)
(* offset is copied: each is one step.  (The memset clears only the first  *)
(* 8 bytes of the segment, which hold none of the fields.)                 *)
(***************************************************************************)
JunkInitOneMore(p) ==
  /\ pc[p] = "junks"
  /\ filled[p] <= NumJunks
  /\ inited' = [inited EXCEPT ![at[p]] = @ \cup {filled[p] + 1}]
  /\ filled' = [filled EXCEPT ![p] = @ + 1]
  /\ UNCHANGED <<kernel, copied, endaddr, torn, pc, shmid, exists, at, meta, todo>>

JunkInit(p) ==
  /\ pc[p] = "junks"
  /\ filled[p] < NumJunks
  /\ inited' = [inited EXCEPT ![at[p]] = @ \cup {filled[p] + 1}]
  /\ filled' = [filled EXCEPT ![p] = @ + 1]
  /\ UNCHANGED <<kernel, copied, endaddr, torn, pc, shmid, exists, at, meta, todo>>

InitMetaDone(p) ==
  /\ pc[p] = "junks"
  /\ filled[p] = NumJunks
  /\ todo' = [todo EXCEPT ![p] = Fields]
  /\ Goto(p, "sync")
  /\ UNCHANGED <<kernel, segments, shmid, exists, at, meta, filled>>

(***************************************************************************)
(* wv_shm_sync_meta copies its own meta data to the start of the segment,  *)
(* where others may be reading them: memcpy writes one field after the     *)
(* other, in an order of its own.                                          *)
(***************************************************************************)
SyncMetaReturns(p, f) ==
  /\ pc[p] = "sync"
  /\ f \in todo[p]
  /\ copied' = [copied EXCEPT ![at[p]] = @ \cup {f}]
  /\ endaddr' = IF f = Head THEN [endaddr EXCEPT ![at[p]] = {p}] ELSE endaddr
  /\ todo' = [todo EXCEPT ![p] = @ \ {f}]
  /\ Goto(p, IF f = Head THEN "done" ELSE "sync")
  /\ UNCHANGED <<kernel, inited, torn, shmid, exists, at, meta, filled>>

SyncMeta(p, f) ==
  /\ pc[p] = "sync"
  /\ f \in todo[p]
  /\ copied' = [copied EXCEPT ![at[p]] = @ \cup {f}]
  /\ endaddr' = IF f = Head THEN [endaddr EXCEPT ![at[p]] = {p}] ELSE endaddr
  /\ todo' = [todo EXCEPT ![p] = @ \ {f}]
  /\ Goto(p, IF todo[p] = {f} THEN "done" ELSE "sync")
  /\ UNCHANGED <<kernel, inited, torn, shmid, exists, at, meta, filled>>

InitShm(p) ==
  \/ Probe(p) \/ Rmid(p) \/ Create(p) \/ CreateAgain(p) \/ Lookup(p)
  \/ Attach(p) \/ AttachFails(p)
  \/ LoadMeta(p) \/ JunkInit(p) \/ InitMetaDone(p)
  \/ \E f \in Fields : SyncMeta(p, f)

Next == \E p \in Procs : Start(p) \/ InitShm(p) \/ Exit(p)

(***************************************************************************)
(* A process that is in wv_shm_init_shm goes on with it, or ends.          *)
(***************************************************************************)
Fairness == \A p \in Procs : WF_vars(InitShm(p))

Spec == Init /\ [][Next]_vars

FairSpec == Spec /\ Fairness

-----------------------------------------------------------------------------
(***************************************************************************)
(* Type invariant of the segments and of the processes' variables.         *)
(***************************************************************************)
TypeOK ==
  /\ key \in Ids \cup {NoId}
  /\ numIds \in 0 .. MaxIds
  /\ removed \in SUBSET Ids
  /\ inited \in [Ids -> SUBSET Junks]
  /\ copied \in [Ids -> SUBSET Fields]
  /\ endaddr \in [Ids -> SUBSET Procs]
  /\ torn \in SUBSET Ids
  /\ pc \in [Procs -> PCs]
  /\ shmid \in [Procs -> Ids \cup {NoId}]
  /\ exists \in [Procs -> BOOLEAN]
  /\ at \in [Procs -> Ids \cup {NoId}]
  /\ meta \in [Procs -> {"none", "private", "shared"}]
  /\ filled \in [Procs -> 0 .. NumJunks]
  /\ todo \in [Procs -> SUBSET Fields]

(***************************************************************************)
(* _shmmeta->count as the process reads it, and the junks whose offset in  *)
(* _shmmeta->arr_junkhdr_offsets is not 0.                                 *)
(***************************************************************************)
Count(p) ==
  CASE meta[p] = "none"    -> 0
    [] meta[p] = "private" -> filled[p]
    [] meta[p] = "shared"  -> IF Head \in copied[at[p]] THEN NumJunks ELSE 0

Listed(p) ==
  CASE meta[p] = "none"    -> {}
    [] meta[p] = "private" -> 1 .. filled[p]
    [] meta[p] = "shared"  -> copied[at[p]] \ {Head}

(***************************************************************************)
(* A junk that a process can reach by its offset has its header, whoever   *)
(* initialises, loads, removes or dies meanwhile; and every junk below     *)
(* _shmmeta->count can be reached so, but while the meta data are being    *)
(* copied and where the copy was cut short: a process that loaded early    *)
(* reads both in place, and may find the count in front of the offsets.    *)
(***************************************************************************)
Copying(s) == \E q \in Procs : pc[q] = "sync" /\ at[q] = s

CountMeansJunks ==
  \A p \in Procs : at[p] # NoId =>
    /\ Listed(p) \subseteq inited[at[p]]
    /\ 1 .. Count(p) \subseteq Listed(p) \/ Copying(at[p]) \/ at[p] \in torn

(***************************************************************************)
(* "There is no the previous shared memory. So we shold make a new shared  *)
(* memory" (wv_shm_init_shm): a segment is initialised by one process only. *)
(***************************************************************************)
OneInitialiser ==
  \A p, q \in Procs :
    /\ at[p] # NoId /\ at[p] = at[q]
    /\ meta[p] = "private" /\ meta[q] = "private"
    /\ ~exists[p] /\ ~exists[q]
    => p = q

(***************************************************************************)
(* It is, as long as nobody removed a segment.                             *)
(***************************************************************************)
OneInitialiserUnlessRemoved == removed = {} => OneInitialiser

(***************************************************************************)
(* A junk header is not written again once any of the meta data by which   *)
(* wv_shm_find_junk finds it is written, as long as nobody removed a       *)
(* segment.                                                                *)
(***************************************************************************)
NoReinit ==
  [][\A p \in Procs : JunkInit(p) => removed # {} \/ copied[at[p]] = {}]_vars

(***************************************************************************)
(* A process that loaded the meta data before they were written sees the   *)
(* junks in the end, unless the initialising process died or the segment   *)
(* was removed.                                                            *)
(***************************************************************************)
CatchesUp ==
  \A p \in Procs :
    pc[p] = "done" /\ at[p] # NoId ~>
      \/ pc[p] # "done"
      \/ Count(p) = NumJunks /\ Listed(p) = Junks
      \/ at[p] \in torn \cup removed

-----------------------------------------------------------------------------
(***************************************************************************)
(* The inductive invariant of the proofs: what a process knows at which    *)
(* place of wv_shm_init_shm, what a segment holds by then, and that        *)
(* without removals only one process ever creates.                         *)
(***************************************************************************)
CallShape ==
  \A p \in Procs :
    /\ pc[p] \in {"again", "attach", "junks", "sync"} => shmid[p] # NoId
    /\ at[p] # NoId => at[p] = shmid[p] /\ pc[p] \in {"load", "junks", "sync", "done"}
    /\ pc[p] \in {"load", "junks", "sync"} => at[p] # NoId
    /\ pc[p] \in {"lookup", "load"} => exists[p]
    /\ pc[p] \in {"again", "junks", "sync"} => ~exists[p]
    /\ pc[p] # "done" => meta[p] # "shared"
    /\ pc[p] = "down" => filled[p] = 0 /\ meta[p] = "none"
    /\ meta[p] = "shared" => exists[p] /\ at[p] # NoId

Filling ==
  /\ \A p \in Procs :
       /\ pc[p] \notin {"junks", "sync", "done"} \/ exists[p] => filled[p] = 0
       /\ pc[p] = "sync" => filled[p] = NumJunks /\ todo[p] \cup copied[at[p]] = Fields
       /\ at[p] # NoId => 1 .. filled[p] \subseteq inited[at[p]]
  /\ \A s \in Ids :
       /\ copied[s] # {} => inited[s] = Junks
       /\ copied[s] \in {{}, Fields} \/ Copying(s) \/ s \in torn

Creator(p) == pc[p] \in {"again", "attach", "junks", "sync", "done"} /\ ~exists[p]

OneCreator ==
  removed = {} =>
    /\ \A p \in Procs : Creator(p) => key # NoId
    /\ \A p, q \in Procs : Creator(p) /\ Creator(q) => p = q
    /\ \A s \in Ids : copied[s] # {} =>
         key # NoId /\ \A p \in Procs : Creator(p) => pc[p] \in {"sync", "done"}

Inv == TypeOK /\ CallShape /\ Filling /\ OneCreator
=============================================================================
