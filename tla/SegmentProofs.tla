---------------------------- MODULE SegmentProofs ----------------------------
(***************************************************************************)
(* Proofs about the shared segment and its initialisation, for every set   *)
(* of processes and of removers, number of junks and number of segments.   *)
(***************************************************************************)
EXTENDS Segment, TLAPS

LEMMA InitHolds == Init => Inv
<1>. SUFFICES ASSUME Init PROVE Inv
  OBVIOUS
<1>. USE SegmentAssumption DEF Init
<1>1. TypeOK
  BY DEF TypeOK, Ids, NoId, PCs, Junks, Fields, Head
<1>2. CallShape
  BY DEF CallShape, NoId
<1>3. Filling
  BY DEF Filling, Ids, NoId
<1>4. OneCreator
  BY DEF OneCreator, Creator
<1>. QED
  BY <1>1, <1>2, <1>3, <1>4 DEF Inv

LEMMA StepKeepsTypeOK ==
  ASSUME TypeOK, CallShape, NEW p \in Procs, Start(p) \/ InitShm(p) \/ Exit(p)
  PROVE  TypeOK'
<1>. USE SegmentAssumption DEF TypeOK, Goto, PCs, Ids, NoId, Junks, Fields, Head, kernel, segments, locals
<1>1. CASE Start(p)
  BY <1>1 DEF Start
<1>2. CASE Probe(p)
  BY <1>2 DEF Probe
<1>3. CASE Rmid(p)
  <2>1. key' \in Ids \cup {NoId} /\ removed' \in SUBSET Ids
    BY <1>3 DEF Rmid
  <2>2. pc' \in [Procs -> PCs]
    BY <1>3 DEF Rmid
  <2>. QED
    BY <1>3, <2>1, <2>2 DEF Rmid
<1>4. CASE Create(p)
  <2>1. CASE key = NoId
    <3>1. key' \in Ids /\ numIds' \in 0 .. MaxIds /\ UNCHANGED removed
      BY <1>4, <2>1 DEF Create, NewSegment
    <3>2. shmid' \in [Procs -> Ids \cup {NoId}]
      BY <1>4, <2>1, <3>1 DEF Create
    <3>3. exists' \in [Procs -> BOOLEAN] /\ pc' \in [Procs -> PCs]
      BY <1>4, <2>1 DEF Create
    <3>. QED
      BY <1>4, <3>1, <3>2, <3>3 DEF Create
  <2>2. CASE key # NoId
    BY <1>4, <2>2 DEF Create
  <2>. QED
    BY <2>1, <2>2
<1>5. CASE CreateAgain(p)
  <2>1. key' \in Ids /\ numIds' \in 0 .. MaxIds /\ UNCHANGED removed
    BY <1>5 DEF CreateAgain, NewSegment
  <2>2. shmid' \in [Procs -> Ids \cup {NoId}] /\ pc' \in [Procs -> PCs]
    BY <1>5, <2>1 DEF CreateAgain
  <2>. QED
    BY <1>5, <2>1, <2>2 DEF CreateAgain
<1>6. CASE Lookup(p)
  BY <1>6 DEF Lookup
<1>7. CASE Attach(p)
  BY <1>7 DEF Attach
<1>8. CASE AttachFails(p)
  BY <1>8 DEF AttachFails
<1>9. CASE LoadMeta(p)
  <2>1. endaddr' \in [Ids -> SUBSET Procs]
    BY <1>9 DEF LoadMeta
  <2>2. meta' \in [Procs -> {"none", "private", "shared"}] /\ pc' \in [Procs -> PCs]
    BY <1>9 DEF LoadMeta
  <2>. QED
    BY <1>9, <2>1, <2>2 DEF LoadMeta
<1>10. CASE JunkInit(p)
  <2>1. filled[p] + 1 \in Junks
    BY <1>10 DEF JunkInit
  <2>2. inited' \in [Ids -> SUBSET Junks]
    BY <1>10, <2>1 DEF JunkInit
  <2>3. filled' \in [Procs -> 0 .. NumJunks]
    BY <1>10, <2>1 DEF JunkInit
  <2>. QED
    BY <1>10, <2>2, <2>3 DEF JunkInit
<1>11. CASE InitMetaDone(p)
  <2>1. todo' \in [Procs -> SUBSET Fields] /\ pc' \in [Procs -> PCs]
    BY <1>11 DEF InitMetaDone
  <2>. QED
    BY <1>11, <2>1 DEF InitMetaDone
<1>12. CASE \E f \in Fields : SyncMeta(p, f)
  <2>1. PICK f \in Fields : SyncMeta(p, f)
    BY <1>12
  <2>2. copied' \in [Ids -> SUBSET Fields]
    BY <2>1 DEF SyncMeta
  <2>3. todo' \in [Procs -> SUBSET Fields]
    BY <2>1 DEF SyncMeta
  <2>4. endaddr' \in [Ids -> SUBSET Procs] /\ pc' \in [Procs -> PCs]
    BY <2>1 DEF SyncMeta
  <2>. QED
    BY <2>1, <2>2, <2>3, <2>4 DEF SyncMeta
<1>13. CASE Exit(p)
  <2>1. torn' \in SUBSET Ids
    BY <1>13 DEF Exit, Initialising, CallShape
  <2>2. /\ at' \in [Procs -> Ids \cup {NoId}] /\ shmid' \in [Procs -> Ids \cup {NoId}]
        /\ filled' \in [Procs -> 0 .. NumJunks] /\ exists' \in [Procs -> BOOLEAN]
    BY <1>13 DEF Exit
  <2>3. /\ pc' \in [Procs -> PCs] /\ meta' \in [Procs -> {"none", "private", "shared"}]
        /\ todo' \in [Procs -> SUBSET Fields]
    BY <1>13 DEF Exit
  <2>. QED
    BY <1>13, <2>1, <2>2, <2>3 DEF Exit
<1>. QED
  BY <1>1, <1>2, <1>3, <1>4, <1>5, <1>6, <1>7, <1>8, <1>9, <1>10, <1>11, <1>12, <1>13 DEF InitShm

LEMMA StepKeepsCallShape ==
  ASSUME Inv, NEW p \in Procs, Start(p) \/ InitShm(p) \/ Exit(p)
  PROVE  CallShape'
<1>. USE SegmentAssumption DEF Inv, TypeOK, CallShape, Goto, Ids, NoId, Junks, kernel, segments, locals
<1>1. CASE Start(p)
  BY <1>1 DEF Start
<1>2. CASE Probe(p)
  BY <1>2 DEF Probe
<1>3. CASE Rmid(p)
  BY <1>3 DEF Rmid
<1>4. CASE Create(p)
  <2>1. CASE key = NoId
    <3>1. key' \in Ids
      BY <1>4, <2>1 DEF Create, NewSegment
    <3>. QED
      BY <1>4, <2>1, <3>1 DEF Create
  <2>2. CASE key # NoId
    <3>1. /\ pc[p] = "create" /\ pc' = [pc EXCEPT ![p] = "lookup"]
          /\ exists' = [exists EXCEPT ![p] = TRUE]
          /\ UNCHANGED <<shmid, at, meta, filled>>
      BY <1>4, <2>2 DEF Create
    <3>. QED
      BY <3>1
  <2>. QED
    BY <2>1, <2>2
<1>5. CASE CreateAgain(p)
  BY <1>5 DEF CreateAgain, NewSegment
<1>6. CASE Lookup(p)
  BY <1>6 DEF Lookup
<1>7. CASE Attach(p)
  BY <1>7 DEF Attach
<1>8. CASE AttachFails(p)
  BY <1>8 DEF AttachFails
<1>9. CASE LoadMeta(p)
  BY <1>9 DEF LoadMeta
<1>10. CASE JunkInit(p)
  BY <1>10 DEF JunkInit
<1>11. CASE InitMetaDone(p)
  BY <1>11 DEF InitMetaDone
<1>12. CASE \E f \in Fields : SyncMeta(p, f)
  BY <1>12 DEF SyncMeta
<1>13. CASE Exit(p)
  BY <1>13 DEF Exit, Initialising
<1>. QED
  BY <1>1, <1>2, <1>3, <1>4, <1>5, <1>6, <1>7, <1>8, <1>9, <1>10, <1>11, <1>12, <1>13 DEF InitShm

(***************************************************************************)
(* A step of one process leaves what the others know alone.                *)
(***************************************************************************)
LEMMA OthersKeep ==
  ASSUME TypeOK, NEW p \in Procs, Start(p) \/ InitShm(p) \/ Exit(p),
         NEW q \in Procs, q # p
  PROVE  /\ pc'[q] = pc[q] /\ exists'[q] = exists[q] /\ at'[q] = at[q]
         /\ filled'[q] = filled[q] /\ todo'[q] = todo[q]
<1>. USE DEF TypeOK, Goto, segments, locals
<1>1. CASE Start(p) \/ Probe(p) \/ Rmid(p) \/ CreateAgain(p) \/ Lookup(p)
  BY <1>1 DEF Start, Probe, Rmid, CreateAgain, Lookup
<1>2. CASE Create(p)
  BY <1>2 DEF Create
<1>3. CASE Attach(p) \/ AttachFails(p) \/ LoadMeta(p)
  BY <1>3 DEF Attach, AttachFails, LoadMeta
<1>4. CASE JunkInit(p) \/ InitMetaDone(p)
  BY <1>4 DEF JunkInit, InitMetaDone
<1>5. CASE \E f \in Fields : SyncMeta(p, f)
  BY <1>5 DEF SyncMeta
<1>6. CASE Exit(p)
  BY <1>6 DEF Exit
<1>. QED
  BY <1>1, <1>2, <1>3, <1>4, <1>5, <1>6 DEF InitShm

(***************************************************************************)
(* A step that writes nothing into a segment keeps Filling, if it keeps it *)
(* for its own process and does not leave a copy half done unnoticed.      *)
(***************************************************************************)
LEMMA QuietKeepsFilling ==
  ASSUME Inv, NEW p \in Procs, Start(p) \/ InitShm(p) \/ Exit(p),
         UNCHANGED <<inited, copied>>, torn \subseteq torn',
         pc'[p] \notin {"junks", "sync", "done"} \/ exists'[p] => filled'[p] = 0,
         pc'[p] = "sync" =>
           /\ filled'[p] = NumJunks /\ at'[p] # NoId
           /\ todo'[p] \cup copied[at'[p]] = Fields,
         at'[p] # NoId => 1 .. filled'[p] \subseteq inited[at'[p]],
         pc[p] = "sync" => at[p] \in torn'
  PROVE  Filling'
<1>1. ASSUME NEW q \in Procs
      PROVE  /\ pc'[q] \notin {"junks", "sync", "done"} \/ exists'[q] => filled'[q] = 0
             /\ pc'[q] = "sync" => filled'[q] = NumJunks /\ todo'[q] \cup copied'[at'[q]] = Fields
             /\ at'[q] # NoId => 1 .. filled'[q] \subseteq inited'[at'[q]]
  <2>1. CASE q = p
    BY <2>1
  <2>2. CASE q # p
    BY <2>2, OthersKeep DEF Inv, Filling
  <2>. QED
    BY <2>1, <2>2
<1>2. ASSUME NEW s \in Ids
      PROVE  /\ copied'[s] # {} => inited'[s] = Junks
             /\ copied'[s] \in {{}, Fields} \/ Copying(s)' \/ s \in torn'
  <2>1. copied[s] # {} => inited[s] = Junks
    BY DEF Inv, Filling
  <2>2. copied[s] \in {{}, Fields} \/ Copying(s) \/ s \in torn
    BY DEF Inv, Filling
  <2>3. CASE Copying(s)
    <3>1. PICK q \in Procs : pc[q] = "sync" /\ at[q] = s
      BY <2>3 DEF Copying
    <3>2. CASE q = p
      BY <2>1, <3>1, <3>2
    <3>3. CASE q # p
      <4>1. pc'[q] = "sync" /\ at'[q] = s
        BY <3>1, <3>3, OthersKeep DEF Inv
      <4>. QED
        BY <2>1, <4>1 DEF Copying
    <3>. QED
      BY <3>2, <3>3
  <2>. QED
    BY <2>1, <2>2, <2>3
<1>. QED
  BY <1>1, <1>2 DEF Filling

LEMMA StepKeepsFilling ==
  ASSUME Inv, NEW p \in Procs, Start(p) \/ InitShm(p) \/ Exit(p)
  PROVE  Filling'
<1>0. /\ TypeOK /\ CallShape
      /\ pc[p] \notin {"junks", "sync", "done"} \/ exists[p] => filled[p] = 0
      /\ pc[p] = "sync" => filled[p] = NumJunks /\ todo[p] \cup copied[at[p]] = Fields
      /\ at[p] # NoId => 1 .. filled[p] \subseteq inited[at[p]]
  BY DEF Inv, Filling
<1>. USE SegmentAssumption DEF TypeOK, CallShape, Goto, Ids, NoId, Junks, kernel, segments, locals
<1>1. CASE Start(p) \/ Probe(p) \/ Rmid(p) \/ CreateAgain(p) \/ Lookup(p)
  <2>1. /\ UNCHANGED <<inited, copied, torn, at, filled>>
        /\ pc[p] # "sync" /\ pc'[p] \notin {"sync", "junks", "done"} /\ filled[p] = 0
    BY <1>0, <1>1 DEF Start, Probe, Rmid, CreateAgain, Lookup
  <2>. QED
    BY <1>0, <2>1, QuietKeepsFilling
<1>2. CASE Create(p)
  <2>1. /\ UNCHANGED <<inited, copied, torn, at, filled>>
        /\ pc[p] # "sync" /\ pc'[p] \notin {"sync", "junks", "done"} /\ filled[p] = 0
    BY <1>0, <1>2 DEF Create
  <2>. QED
    BY <1>0, <2>1, QuietKeepsFilling
<1>3. CASE Attach(p) \/ AttachFails(p) \/ LoadMeta(p)
  <2>1. /\ UNCHANGED <<inited, copied, torn, filled>>
        /\ pc[p] # "sync" /\ pc'[p] # "sync" /\ filled[p] = 0
    BY <1>0, <1>3 DEF Attach, AttachFails, LoadMeta
  <2>. QED
    BY <1>0, <2>1, QuietKeepsFilling
<1>4. CASE InitMetaDone(p)
  <2>1. /\ UNCHANGED <<inited, copied, torn, at, exists, filled>>
        /\ pc[p] = "junks" /\ pc'[p] = "sync" /\ filled[p] = NumJunks /\ todo'[p] = Fields
        /\ at[p] \in Ids
    BY <1>0, <1>4 DEF InitMetaDone
  <2>2. copied[at[p]] \subseteq Fields
    BY <1>0, <2>1
  <2>. QED
    BY <1>0, <2>1, <2>2, QuietKeepsFilling
<1>5. CASE Exit(p)
  <2>1. /\ UNCHANGED <<inited, copied>> /\ torn \subseteq torn'
        /\ pc'[p] = "down" /\ filled'[p] = 0 /\ at'[p] = NoId
        /\ pc[p] = "sync" => at[p] \in torn'
    BY <1>0, <1>5 DEF Exit, Initialising
  <2>. QED
    BY <1>0, <2>1, QuietKeepsFilling
<1>6. CASE JunkInit(p)
  <2>1. filled[p] + 1 \in Junks /\ at[p] \in Ids /\ filled'[p] = filled[p] + 1
    BY <1>0, <1>6 DEF JunkInit
  <2>2. \A s \in Ids : inited[s] \subseteq inited'[s] /\ inited'[s] \subseteq Junks
    <3>1. inited' = [inited EXCEPT ![at[p]] = inited[at[p]] \cup {filled[p] + 1}]
      BY <1>6 DEF JunkInit
    <3>. QED
      BY <1>0, <2>1, <3>1
  <2>3. 1 .. filled'[p] \subseteq inited'[at[p]]
    BY <1>0, <1>6, <2>1 DEF JunkInit
  <2>4. UNCHANGED <<pc, exists, at, copied, todo, torn>> /\ pc[p] = "junks" /\ ~exists[p]
    BY <1>0, <1>6 DEF JunkInit
  <2>5. ASSUME NEW q \in Procs
        PROVE  /\ pc'[q] \notin {"junks", "sync", "done"} \/ exists'[q] => filled'[q] = 0
               /\ pc'[q] = "sync" => filled'[q] = NumJunks /\ todo'[q] \cup copied'[at'[q]] = Fields
               /\ at'[q] # NoId => 1 .. filled'[q] \subseteq inited'[at'[q]]
    <3>1. CASE q = p
      BY <2>3, <2>4, <3>1
    <3>2. CASE q # p
      <4>1. filled'[q] = filled[q] /\ at[q] \in Ids \cup {NoId}
        BY <1>0, <3>2, OthersKeep
      <4>. QED
        BY <2>2, <2>4, <4>1 DEF Inv, Filling
    <3>. QED
      BY <3>1, <3>2
  <2>6. ASSUME NEW s \in Ids
        PROVE  /\ copied'[s] # {} => inited'[s] = Junks
               /\ copied'[s] \in {{}, Fields} \/ Copying(s)' \/ s \in torn'
    BY <2>2, <2>4 DEF Inv, Filling, Copying
  <2>. QED
    BY <2>5, <2>6 DEF Filling
<1>7. CASE \E f \in Fields : SyncMeta(p, f)
  <2>1. PICK f \in Fields : SyncMeta(p, f)
    BY <1>7
  <2>2. /\ at[p] \in Ids /\ pc[p] = "sync" /\ ~exists[p] /\ filled[p] = NumJunks
        /\ UNCHANGED <<inited, torn, exists, at, filled>>
        /\ copied' = [copied EXCEPT ![at[p]] = copied[at[p]] \cup {f}]
        /\ todo'[p] = todo[p] \ {f}
        /\ f \in todo[p]
        /\ pc'[p] = IF todo[p] = {f} THEN "done" ELSE "sync"
    BY <1>0, <2>1 DEF SyncMeta
  <2>3. /\ \A s \in Ids : s # at[p] => copied'[s] = copied[s]
        /\ copied'[at[p]] = copied[at[p]] \cup {f}
    BY <1>0, <2>2
  <2>4. todo'[p] \cup copied'[at[p]] = Fields
    BY <1>0, <2>2, <2>3
  <2>5. inited[at[p]] = Junks
    BY <1>0, <2>2
  <2>6. ASSUME NEW q \in Procs
        PROVE  /\ pc'[q] \notin {"junks", "sync", "done"} \/ exists'[q] => filled'[q] = 0
               /\ pc'[q] = "sync" => filled'[q] = NumJunks /\ todo'[q] \cup copied'[at'[q]] = Fields
               /\ at'[q] # NoId => 1 .. filled'[q] \subseteq inited'[at'[q]]
    <3>1. CASE q = p
      <4>1. pc'[q] \in {"sync", "done"}
        BY <2>2, <3>1
      <4>. QED
        BY <1>0, <2>2, <2>4, <3>1, <4>1
    <3>2. CASE q # p
      <4>1. pc'[q] = pc[q] /\ todo'[q] = todo[q]
        BY <1>0, <3>2, OthersKeep
      <4>2. /\ pc[q] \notin {"junks", "sync", "done"} \/ exists[q] => filled[q] = 0
            /\ pc[q] = "sync" => filled[q] = NumJunks /\ todo[q] \cup copied[at[q]] = Fields
            /\ at[q] # NoId => 1 .. filled[q] \subseteq inited[at[q]]
        BY DEF Inv, Filling
      <4>3. ASSUME pc[q] = "sync" PROVE todo[q] \cup copied'[at[q]] = Fields
        <5>1. at[q] \in Ids /\ copied[at[q]] \subseteq Fields
          BY <1>0, <4>3
        <5>2. copied[at[q]] \subseteq copied'[at[q]] /\ copied'[at[q]] \subseteq copied[at[q]] \cup {f}
          BY <2>3, <5>1
        <5>. QED
          BY <4>2, <4>3, <5>2
      <4>. QED
        BY <2>2, <4>1, <4>2, <4>3
    <3>. QED
      BY <3>1, <3>2
  <2>7. ASSUME NEW s \in Ids
        PROVE  /\ copied'[s] # {} => inited'[s] = Junks
               /\ copied'[s] \in {{}, Fields} \/ Copying(s)' \/ s \in torn'
    <3>1. CASE s = at[p]
      <4>1. CASE todo[p] = {f}
        <5>1. copied'[s] = Fields
          BY <2>2, <2>4, <3>1, <4>1
        <5>. QED
          BY <2>2, <2>5, <3>1, <5>1
      <4>2. CASE todo[p] # {f}
        <5>1. pc'[p] = "sync" /\ at'[p] = s
          BY <2>2, <3>1, <4>2
        <5>. QED
          BY <2>2, <2>5, <3>1, <5>1 DEF Copying
      <4>. QED
        BY <4>1, <4>2
    <3>2. CASE s # at[p]
      <4>1. /\ copied[s] # {} => inited[s] = Junks
            /\ copied[s] \in {{}, Fields} \/ Copying(s) \/ s \in torn
        BY DEF Inv, Filling
      <4>2. copied'[s] = copied[s] /\ inited'[s] = inited[s] /\ torn' = torn
        BY <2>2, <2>3, <3>2
      <4>3. ASSUME NEW q \in Procs, pc[q] = "sync", at[q] = s PROVE pc'[q] = "sync" /\ at'[q] = s
        BY <1>0, <3>2, <4>3, OthersKeep
      <4>. QED
        BY <4>1, <4>2, <4>3 DEF Copying
    <3>. QED
      BY <3>1, <3>2
  <2>. QED
    BY <2>6, <2>7 DEF Filling
<1>. QED
  BY <1>1, <1>2, <1>3, <1>4, <1>5, <1>6, <1>7 DEF InitShm

LEMMA StepKeepsOneCreator ==
  ASSUME Inv, NEW p \in Procs, Start(p) \/ InitShm(p) \/ Exit(p)
  PROVE  OneCreator'
<1>. USE SegmentAssumption DEF Inv, TypeOK, OneCreator, Creator, CallShape, Goto, Ids, NoId, Junks, kernel, segments, locals
<1>1. CASE Start(p)
  BY <1>1 DEF Start
<1>2. CASE Probe(p)
  BY <1>2 DEF Probe
<1>3. CASE Rmid(p)
  BY <1>3 DEF Rmid
<1>4. CASE Create(p)
  <2>1. CASE key = NoId
    <3>1. key' # NoId /\ removed' = removed /\ copied' = copied
      BY <1>4, <2>1 DEF Create, NewSegment
    <3>2. \A q \in Procs \ {p} : pc'[q] = pc[q] /\ exists'[q] = exists[q]
      BY <1>4, <2>1 DEF Create
    <3>3. removed = {} =>
            (\A q \in Procs : ~Creator(q)) /\ (\A s \in Ids : copied[s] = {})
      BY <2>1
    <3>. HIDE DEF TypeOK, CallShape
    <3>. QED
      BY <3>1, <3>2, <3>3
  <2>2. CASE key # NoId
    <3>1. UNCHANGED <<key, removed, copied>>
      BY <1>4, <2>2 DEF Create
    <3>2. \A q \in Procs \ {p} : pc'[q] = pc[q] /\ exists'[q] = exists[q]
      BY <1>4, <2>2 DEF Create
    <3>3. pc'[p] = "lookup"
      BY <1>4, <2>2 DEF Create
    <3>. HIDE DEF TypeOK, CallShape
    <3>. QED
      BY <3>1, <3>2, <3>3
  <2>. QED
    BY <2>1, <2>2
<1>5. CASE CreateAgain(p)
  <2>1. CASE removed = {}
    <3>1. key # NoId
      BY <1>5, <2>1 DEF CreateAgain
    <3>2. UNCHANGED <<key, removed, copied, exists>> /\ pc' = [pc EXCEPT ![p] = "attach"]
      BY <1>5, <3>1 DEF CreateAgain
    <3>3. pc[p] = "again" /\ ~exists[p]
      BY <1>5 DEF CreateAgain
    <3>4. \A q \in Procs : Creator(q) => q = p
      BY <2>1, <3>3
    <3>5. \A s \in Ids : copied[s] = {}
      BY <2>1, <3>3
    <3>6. \A q \in Procs : q # p => pc'[q] = pc[q]
      BY <3>2
    <3>. HIDE DEF TypeOK, CallShape
    <3>. QED
      BY <3>1, <3>2, <3>4, <3>5, <3>6
  <2>2. CASE removed # {}
    <3>1. removed' = removed
      BY <1>5 DEF CreateAgain, NewSegment
    <3>. QED
      BY <2>2, <3>1
  <2>. QED
    BY <2>1, <2>2
<1>6. CASE Lookup(p)
  <2>1. UNCHANGED <<key, removed, copied, exists>> /\ pc' = [pc EXCEPT ![p] = "attach"]
    BY <1>6 DEF Lookup
  <2>2. exists[p]
    BY <1>6 DEF Lookup
  <2>3. \A q \in Procs : q # p => pc'[q] = pc[q]
    BY <2>1
  <2>4. \A q \in Procs : Creator(q)' => Creator(q) /\ q # p
    BY <2>1, <2>2, <2>3
  <2>. HIDE DEF TypeOK, CallShape
  <2>. QED
    BY <2>1, <2>3, <2>4
<1>7. CASE Attach(p)
  BY <1>7 DEF Attach
<1>8. CASE AttachFails(p)
  BY <1>8 DEF AttachFails
<1>9. CASE LoadMeta(p)
  BY <1>9 DEF LoadMeta
<1>10. CASE JunkInit(p)
  BY <1>10 DEF JunkInit
<1>11. CASE InitMetaDone(p)
  BY <1>11 DEF InitMetaDone
<1>12. CASE \E f \in Fields : SyncMeta(p, f)
  <2>1. PICK f \in Fields : SyncMeta(p, f)
    BY <1>12
  <2>2. /\ pc[p] = "sync" /\ pc'[p] \in {"sync", "done"} /\ ~exists[p]
        /\ UNCHANGED <<key, removed, exists>>
    BY <2>1 DEF SyncMeta
  <2>3. \A q \in Procs : Creator(q)' <=> Creator(q)
    BY <2>1, <2>2, OthersKeep
  <2>4. \A q \in Procs : q # p => pc'[q] = pc[q]
    BY <2>1 DEF SyncMeta
  <2>5. Creator(p)
    BY <2>2
  <2>. QED
    BY <2>2, <2>3, <2>4, <2>5
<1>13. CASE Exit(p)
  <2>1. UNCHANGED <<key, removed, copied>> /\ pc'[p] = "down"
    BY <1>13 DEF Exit
  <2>2. \A q \in Procs : q # p => pc'[q] = pc[q] /\ exists'[q] = exists[q]
    BY <1>13 DEF Exit
  <2>3. \A q \in Procs : Creator(q)' => Creator(q) /\ q # p
    BY <2>1, <2>2
  <2>. HIDE DEF TypeOK, CallShape
  <2>. QED
    BY <2>1, <2>2, <2>3
<1>. QED
  BY <1>1, <1>2, <1>3, <1>4, <1>5, <1>6, <1>7, <1>8, <1>9, <1>10, <1>11, <1>12, <1>13 DEF InitShm

(***************************************************************************)
(* The inductive invariant: what a process knows at each place of          *)
(* wv_shm_init_shm, what the segments hold by then, and that without       *)
(* removals one process at most ever creates.                              *)
(***************************************************************************)
THEOREM SegmentInvariance == Spec => []Inv
<1>1. Inv /\ [Next]_vars => Inv'
  <2>. SUFFICES ASSUME Inv, [Next]_vars PROVE Inv'
    OBVIOUS
  <2>1. CASE Next
    <3>1. PICK p \in Procs : Start(p) \/ InitShm(p) \/ Exit(p)
      BY <2>1 DEF Next
    <3>. QED
      BY <3>1, StepKeepsTypeOK, StepKeepsCallShape, StepKeepsFilling,
         StepKeepsOneCreator DEF Inv
  <2>2. CASE UNCHANGED vars
    BY <2>2 DEF vars, kernel, segments, locals, Inv, TypeOK, CallShape, Filling,
       Copying, OneCreator, Creator
  <2>. QED
    BY <2>1, <2>2
<1>. QED
  BY <1>1, InitHolds, PTL DEF Spec

(***************************************************************************)
(* The kernel's and the processes' variables keep their types.             *)
(***************************************************************************)
THEOREM TypeCorrect == Spec => []TypeOK
<1>1. Inv => TypeOK
  BY DEF Inv
<1>. QED
  BY <1>1, SegmentInvariance, PTL

(***************************************************************************)
(* A junk a process can reach by its offset has its header; and the        *)
(* offsets of all junks below _shmmeta->count are there, but while the     *)
(* meta data are being copied or where the copy was cut short.             *)
(***************************************************************************)
THEOREM CountIsSafe == Spec => []CountMeansJunks
<1>1. Inv => CountMeansJunks
  <2>. SUFFICES ASSUME Inv, NEW p \in Procs, at[p] # NoId
                PROVE  /\ Listed(p) \subseteq inited[at[p]]
                       /\ \/ 1 .. Count(p) \subseteq Listed(p)
                          \/ Copying(at[p])
                          \/ at[p] \in torn
    BY DEF CountMeansJunks
  <2>. USE SegmentAssumption DEF Ids, NoId, Junks
  <2>1. /\ at[p] \in Ids /\ meta[p] \in {"none", "private", "shared"}
        /\ filled[p] \in 0 .. NumJunks
        /\ copied[at[p]] \subseteq Fields
    BY DEF Inv, TypeOK
  <2>2. CASE meta[p] = "none"
    BY <2>2 DEF Count, Listed
  <2>3. CASE meta[p] = "private"
    BY <2>3 DEF Count, Listed, Inv, Filling
  <2>4. CASE meta[p] = "shared"
    <3>1. Listed(p) = copied[at[p]] \ {Head}
      BY <2>4 DEF Listed
    <3>2. Count(p) = IF Head \in copied[at[p]] THEN NumJunks ELSE 0
      BY <2>4 DEF Count
    <3>3. /\ copied[at[p]] # {} => inited[at[p]] = Junks
          /\ copied[at[p]] \in {{}, Fields} \/ Copying(at[p]) \/ at[p] \in torn
      BY <2>1 DEF Inv, Filling
    <3>4. Fields \ {Head} = Junks
      BY DEF Fields, Head
    <3>5. Listed(p) \subseteq inited[at[p]]
      BY <2>1, <3>1, <3>3, <3>4
    <3>6. CASE copied[at[p]] = {}
      BY <3>2, <3>5, <3>6
    <3>7. CASE copied[at[p]] = Fields
      BY <3>1, <3>2, <3>4, <3>5, <3>7
    <3>. QED
      BY <3>3, <3>5, <3>6, <3>7
  <2>. QED
    BY <2>1, <2>2, <2>3, <2>4
<1>. QED
  BY <1>1, SegmentInvariance, PTL

(***************************************************************************)
(* As long as no segment was removed, the junks of a segment are           *)
(* initialised by one process.                                             *)
(***************************************************************************)
THEOREM InitialisedByOne == Spec => []OneInitialiserUnlessRemoved
<1>1. Inv => OneInitialiserUnlessRemoved
  BY DEF Inv, CallShape, OneCreator, Creator, OneInitialiserUnlessRemoved, OneInitialiser
<1>. QED
  BY <1>1, SegmentInvariance, PTL

(***************************************************************************)
(* As long as no segment was removed, no junk header is written again      *)
(* after the meta data were.                                               *)
(***************************************************************************)
THEOREM NeverReinitialised == Spec => NoReinit
<1>1. Inv /\ [Next]_vars =>
        [\A p \in Procs : JunkInit(p) => removed # {} \/ copied[at[p]] = {}]_vars
  <2>. SUFFICES ASSUME Inv, NEW p \in Procs, JunkInit(p), removed = {}, copied[at[p]] # {}
                PROVE  FALSE
    OBVIOUS
  <2>1. pc[p] = "junks" /\ ~exists[p] /\ at[p] \in Ids
    BY DEF Inv, TypeOK, CallShape, JunkInit, NoId, Ids
  <2>. QED
    BY <2>1 DEF Inv, OneCreator, Creator
<1>. QED
  BY <1>1, SegmentInvariance, PTL DEF Spec, NoReinit

=============================================================================
