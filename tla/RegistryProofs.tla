---------------------------- MODULE RegistryProofs ----------------------------
(***************************************************************************)
(* The registry, for any number of processes and junks and any names, also *)
(* such that begin others, written and compared byte by byte, by processes *)
(* that may end in any step, until two calls that write overlap.           *)
(***************************************************************************)
EXTENDS Registry, FoldSums

-----------------------------------------------------------------------------
(***************************************************************************)
(* Names.                                                                  *)
(***************************************************************************)
(* No name begins the empty one; each begins itself. *)
LEMMA NameFacts ==
  /\ 1 \in Positions
  /\ NoName \in [Positions -> Bytes]
  /\ \A n \in Names : /\ n \in [Positions -> Bytes]
                      /\ n # NoName
                      /\ 1 \in Letters(n)
                      /\ Letters(n) \subseteq Positions
                      /\ Written(n) \subseteq Positions
                      /\ ~Begins(n, NoName)
                      /\ Begins(n, n)
<1>1. 1 \in Positions /\ NoName \in [Positions -> Bytes]
  BY RegistryAssumption DEF Positions, NoName
<1>2. \A i \in Positions : NoName[i] = Nul
  BY DEF NoName
<1>3. ASSUME NEW n \in Names
      PROVE  /\ n \in [Positions -> Bytes]
             /\ n # NoName
             /\ 1 \in Letters(n)
             /\ Letters(n) \subseteq Positions
             /\ Written(n) \subseteq Positions
             /\ ~Begins(n, NoName)
             /\ Begins(n, n)
  <2>1. n \in [Positions -> Bytes] /\ n[1] # Nul
    BY NameAssumption
  <2>2. 1 \in Letters(n)
    BY <1>1, <2>1 DEF Letters
  <2>3. n # NoName /\ ~Begins(n, NoName)
    BY <1>1, <1>2, <2>1, <2>2 DEF Begins
  <2>. QED
    BY <2>1, <2>2, <2>3 DEF Letters, Written, Begins
<1>. QED
  BY <1>1, <1>3

(* The bytes before a letter are letters. *)
LEMMA LettersBefore ==
  ASSUME NEW n \in Names, NEW i \in Letters(n), NEW k \in Positions, k < i
  PROVE  k \in Letters(n)
BY NameAssumption DEF Letters

(* A junk that shows a name shows what that name begins with. *)
LEMMA NoTellingByte ==
  ASSUME NEW n \in Names, NEW o \in Names, Begins(n, o), NEW s,
         \A i \in Written(o) : s[i] = o[i]
  PROVE  \A i \in Letters(n) : s[i] = n[i]
<1>. SUFFICES ASSUME NEW i \in Letters(n) PROVE s[i] = n[i]
  OBVIOUS
<1>1. o[i] = n[i] /\ i \in Positions /\ i \in Letters(o)
  BY DEF Begins, Letters
<1>2. i = 1 \/ (i - 1 \in Positions /\ i - 1 < i)
  BY <1>1, RegistryAssumption DEF Positions
<1>3. i = 1 \/ o[i - 1] # Nul
  BY <1>1, <1>2, LettersBefore DEF Letters
<1>. QED
  BY <1>1, <1>3 DEF Written

(***************************************************************************)
(* A junk that shows a name tells it from one that it does not begin with: *)
(* the first byte in which they differ is shown, and is not in the tail.   *)
(***************************************************************************)
LEMMA TellingByte ==
  ASSUME NEW n \in Names, NEW o \in Names, ~Begins(n, o), NEW s,
         \A i \in Written(o) : s[i] = o[i]
  PROVE  \E i \in Letters(n) : s[i] # n[i]
<1>. DEFINE T == {i \in Letters(n) : o[i] # n[i]}
<1>1. T # {} /\ T \subseteq Positions
  BY DEF Begins, Letters
<1>2. T \in SUBSET Nat
  BY <1>1, RegistryAssumption DEF Positions
<1>3. PICK i \in T : \A k \in T : ~(k < i)
  <2>. HIDE DEF T
  <2>. QED
    BY <1>1, <1>2, LeastNumber
<1>4. i \in Positions /\ i \in Letters(n) /\ o[i] # n[i]
  BY <1>1, <1>3
<1>5. i = 1 \/ (i - 1 \in Positions /\ i - 1 < i)
  BY <1>4, RegistryAssumption DEF Positions
<1>6. i = 1 \/ o[i - 1] # Nul
  <2>1. SUFFICES ASSUME i # 1 PROVE o[i - 1] # Nul
    OBVIOUS
  <2>2. i - 1 \in Letters(n)
    BY <1>4, <1>5, <2>1, LettersBefore
  <2>3. i - 1 \notin T
    BY <1>3, <1>5, <2>1
  <2>. QED
    BY <2>2, <2>3 DEF Letters
<1>7. s[i] = o[i]
  BY <1>4, <1>6 DEF Written
<1>. QED
  BY <1>4, <1>7

-----------------------------------------------------------------------------
(* Nothing is assigned, nothing is called. *)
LEMMA InitInv == Init => Inv
<1>. SUFFICES ASSUME Init PROVE Inv
  OBVIOUS
<1>. USE RegistryAssumption, NameFacts
<1>1. TypeOK
  <2>1. /\ is_assigned \in [Junks -> BOOLEAN]
        /\ shm_name \in [Junks -> [Positions -> Bytes]]
        /\ owner \in [Junks -> Names \cup {NoName}]
    BY DEF Init
  <2>2. /\ pc \in [Procs -> PCs]
        /\ op \in [Procs -> Ops]
        /\ name \in [Procs -> Names \cup {NoName}]
    BY DEF Init, PCs, Ops
  <2>3. 1 \in 1 .. NumJunks + 1 /\ 0 \in 0 .. NumJunks
    OBVIOUS
  <2>4. /\ idx \in [Procs -> 1 .. NumJunks + 1]
        /\ ret \in [Procs -> 0 .. NumJunks]
    BY <2>3 DEF Init
  <2>5. /\ todo \in [Procs -> SUBSET Positions]
        /\ seen \in [Procs -> SUBSET Junks]
        /\ shaken \in [Procs -> SUBSET Junks]
        /\ kept \in [Procs -> SUBSET Junks]
        /\ raced \in BOOLEAN
    BY DEF Init
  <2>. QED
    BY <2>1, <2>2, <2>4, <2>5 DEF TypeOK
<1>2. CallShape /\ OneWriter
  BY DEF Init, CallShape, InCall, OneWriter, Writing
<1>3. HeaderShape
  BY DEF Init, HeaderShape, ShowsOwner, Writes
<1>4. Progress
  BY DEF Init, Progress, Knows
<1>5. OneJunkPerName
  BY DEF Init, OneJunkPerName, NameGivenOnce
<1>. QED
  BY <1>1, <1>2, <1>3, <1>4, <1>5 DEF Inv

(***************************************************************************)
(* A step of p that changes no header: what is to be shown is about p.     *)
(***************************************************************************)
LEMMA QuietKeeps ==
  ASSUME Inv, NEW p \in Procs, TypeOK',
         UNCHANGED <<is_assigned, shm_name, owner, raced>>,
         \A q \in Procs : q # p =>
           /\ pc'[q] = pc[q] /\ op'[q] = op[q] /\ name'[q] = name[q] /\ idx'[q] = idx[q]
           /\ todo'[q] = todo[q] /\ ret'[q] = ret[q]
           /\ seen'[q] = seen[q] /\ shaken'[q] = shaken[q] /\ kept'[q] = kept[q],
         Writing(p)' => Writing(p),
         InCall(p)',
         ~raced => Writes(p)' /\ Knows(p)'
  PROVE  Inv'
<1>1. CallShape'
  BY DEF Inv, CallShape, InCall
<1>2. OneWriter'
  BY DEF Inv, OneWriter, Writing
<1>3. HeaderShape'
  <2>1. ~raced => \A j \in Junks : ShowsOwner(j)'
    BY DEF Inv, HeaderShape, ShowsOwner, Shows
  <2>2. ~raced => \A q \in Procs : q # p => Writes(q)'
    BY DEF Inv, HeaderShape, Writes, Shows
  <2>. QED
    BY <2>1, <2>2 DEF HeaderShape
<1>4. Progress'
  <2>1. ~raced => \A q \in Procs : q # p => Knows(q)'
    BY DEF Inv, Progress, Knows, Tells, Suits, Torn
  <2>. QED
    BY <2>1 DEF Progress
<1>5. OneJunkPerName'
  BY DEF Inv, OneJunkPerName, NameGivenOnce
<1>. QED
  BY <1>1, <1>2, <1>3, <1>4, <1>5 DEF Inv

(* A call starts with the junks that have the name now, or are without one. *)
LEMMA CallKeeps ==
  ASSUME Inv, NEW p \in Procs, NEW o \in Ops, NEW n \in Names, Call(p, o, n)
  PROVE  Inv'
<1>. USE RegistryAssumption DEF Inv, Call, Goto, headers, history
<1>0. raced \/ raced' \/ UNCHANGED raced
  BY DEF TypeOK
<1>1. TypeOK'
  BY DEF TypeOK, PCs, Suits, Torn
<1>2. CallShape'
  BY DEF CallShape, InCall, TypeOK
<1>3. OneWriter'
  <2>1. ~raced' => ~raced /\ (o # "find" => \A q \in Procs : ~Writing(q))
    OBVIOUS
  <2>2. \A q \in Procs : q # p => (Writing(q)' <=> Writing(q))
    BY DEF Writing, TypeOK
  <2>3. Writing(p)' => o # "find"
    BY DEF Writing, TypeOK
  <2>. QED
    BY <2>1, <2>2, <2>3 DEF OneWriter
<1>4. HeaderShape'
  <2>1. ~raced' => ~raced
    OBVIOUS
  <2>2. ~raced => \A j \in Junks : ShowsOwner(j)'
    BY DEF HeaderShape, ShowsOwner, Shows
  <2>3. ~raced => \A q \in Procs : Writes(q)'
    BY DEF HeaderShape, Writes, Shows, TypeOK
  <2>. QED
    BY <2>1, <2>2, <2>3 DEF HeaderShape
<1>5. Progress'
  <2>1. ~raced' => ~raced
    OBVIOUS
  <2>2. ~raced => \A q \in Procs : q # p => Knows(q)'
    BY DEF Progress, Knows, Tells, Suits, Torn, TypeOK
  <2>3. ~raced => Knows(p)'
    BY DEF Knows, Suits, Torn, TypeOK, Junks
  <2>. QED
    BY <2>1, <2>2, <2>3 DEF Progress
<1>6. OneJunkPerName'
  BY DEF OneJunkPerName, NameGivenOnce
<1>. QED
  BY <1>1, <1>2, <1>3, <1>4, <1>5, <1>6 DEF Inv

(***************************************************************************)
(* A junk whose flag is 0 has no owner.  One whose flag is 1 has the name  *)
(* it shows, or is without a complete one.                                 *)
(***************************************************************************)
LEMMA ReadFlagKeeps ==
  ASSUME Inv, NEW p \in Procs, ReadFlag(p)
  PROVE  Inv'
<1>. USE RegistryAssumption DEF Inv
<1>n. /\ name[p] \in Names /\ idx[p] \in Junks /\ pc[p] = "flag"
      /\ owner[idx[p]] \in Names \cup {NoName}
  BY DEF ReadFlag, CallShape, InCall, TypeOK
<1>1. CASE is_assigned[idx[p]]
  <2>0. /\ pc' = [pc EXCEPT ![p] = "name"]
        /\ idx' = [idx EXCEPT ![p] = idx[p]]
        /\ todo' = [todo EXCEPT ![p] = Letters(name[p])]
        /\ UNCHANGED <<is_assigned, shm_name, owner, op, name, ret, seen, shaken, kept, raced>>
    BY <1>1 DEF ReadFlag, Compare, Goto, headers, history
  <2>1. TypeOK'
    BY <2>0, <1>n, NameFacts DEF TypeOK, PCs
  <2>2. InCall(p)' /\ (Writing(p)' => Writing(p))
    BY <2>0, <1>n DEF CallShape, InCall, TypeOK, Writing
  <2>3. ~raced => Writes(p)'
    BY <2>0 DEF Writes, TypeOK
  <2>4. ~raced => Knows(p)'
    <3>. SUFFICES ASSUME ~raced PROVE Knows(p)'
      OBVIOUS
    <3>1. Knows(p)
      BY DEF Progress
    <3>2. /\ pc'[p] = "name" /\ idx'[p] = idx[p] /\ todo'[p] = Letters(name[p])
          /\ Suits(name[p])' = Suits(name[p]) /\ Torn' = Torn
      BY <2>0 DEF TypeOK, Suits, Torn
    <3>3. idx[p] \in seen[p] \cup shaken[p] \/
            \E i \in Letters(name[p]) : shm_name[idx[p]][i] # name[p][i]
      <4>1. CASE owner[idx[p]] = NoName
        BY <4>1, <3>1, <1>n, <1>1 DEF Knows, Torn
      <4>2. CASE Begins(name[p], owner[idx[p]])
        BY <4>2, <3>1, <1>n DEF Knows, Suits
      <4>3. CASE owner[idx[p]] \in Names /\ ~Begins(name[p], owner[idx[p]])
        <5>1. Shows(idx[p], owner[idx[p]], Written(owner[idx[p]]))
          BY <4>3, <1>n, NameFacts DEF HeaderShape, ShowsOwner
        <5>. QED
          BY <4>3, <5>1, <1>n, TellingByte DEF Shows
      <4>. QED
        BY <4>1, <4>2, <4>3, <1>n
    <3>. QED
      BY <2>0, <3>1, <3>2, <3>3, <1>n DEF Knows, Tells
  <2>. QED
    BY <2>0, <2>1, <2>2, <2>3, <2>4, QuietKeeps DEF TypeOK
<1>2. CASE ~is_assigned[idx[p]]
  <2>0. /\ pc' = [pc EXCEPT ![p] = "flag"]
        /\ idx' = [idx EXCEPT ![p] = idx[p] + 1]
        /\ UNCHANGED <<is_assigned, shm_name, owner, op, name, todo, ret, seen, shaken, kept,
                       raced>>
    BY <1>2 DEF ReadFlag, Goto, headers, history
  <2>1. TypeOK'
    BY <2>0, <1>n DEF TypeOK, Junks, PCs
  <2>2. InCall(p)' /\ (Writing(p)' => Writing(p))
    BY <2>0, <1>n DEF CallShape, InCall, TypeOK, Writing
  <2>3. ~raced => Writes(p)'
    BY <2>0 DEF Writes, TypeOK
  <2>4. ~raced => Knows(p)'
    <3>. SUFFICES ASSUME ~raced PROVE Knows(p)'
      OBVIOUS
    <3>1. Knows(p)
      BY DEF Progress
    <3>2. owner[idx[p]] = NoName /\ ~Begins(name[p], owner[idx[p]])
      BY <1>2, <1>n, NameFacts DEF HeaderShape, ShowsOwner
    <3>3. idx[p] \notin kept[p]
      BY <3>1, <3>2, <1>n DEF Knows, Suits
    <3>4. \A j \in Junks : j < idx[p] + 1 => j < idx[p] \/ j = idx[p]
      BY <1>n DEF Junks
    <3>5. /\ pc'[p] = "flag" /\ idx'[p] = idx[p] + 1
          /\ Suits(name[p])' = Suits(name[p]) /\ Torn' = Torn
      BY <2>0 DEF TypeOK, Suits, Torn
    <3>. QED
      BY <2>0, <3>1, <3>2, <3>3, <3>4, <3>5, <1>n DEF Knows
  <2>. QED
    BY <2>0, <2>1, <2>2, <2>3, <2>4, QuietKeeps DEF TypeOK
<1>. QED
  BY <1>1, <1>2

(* A byte that is the same is none that tells. *)
LEMMA SameByteKeeps ==
  ASSUME Inv, NEW p \in Procs, SameByte(p)
  PROVE  Inv'
<1>. USE RegistryAssumption DEF Inv
<1>0. PICK i \in todo[p] :
        /\ shm_name[idx[p]][i] = name[p][i]
        /\ todo' = [todo EXCEPT ![p] = @ \ {i}]
  BY DEF SameByte
<1>1. /\ pc[p] = "name"
      /\ UNCHANGED <<is_assigned, shm_name, owner, pc, op, name, idx, ret, seen, shaken, kept,
                     raced>>
  BY DEF SameByte, headers, history
<1>2. TypeOK'
  BY <1>0, <1>1 DEF TypeOK
<1>3. InCall(p)' /\ (Writing(p)' => Writing(p))
  BY <1>0, <1>1 DEF CallShape, InCall, TypeOK, Writing
<1>4. ~raced => Writes(p)' /\ Knows(p)'
  BY <1>0, <1>1 DEF Writes, Progress, Knows, Tells, Suits, Torn, TypeOK
<1>. QED
  BY <1>0, <1>1, <1>2, <1>3, <1>4, QuietKeeps DEF TypeOK

(* A junk that differs in a byte does not have such a name. *)
LEMMA OtherByteKeeps ==
  ASSUME Inv, NEW p \in Procs, OtherByte(p)
  PROVE  Inv'
<1>. USE RegistryAssumption DEF Inv
<1>0. /\ pc[p] = "name"
      /\ pc' = [pc EXCEPT ![p] = "flag"]
      /\ idx' = [idx EXCEPT ![p] = idx[p] + 1]
      /\ todo' = [todo EXCEPT ![p] = {}]
      /\ UNCHANGED <<is_assigned, shm_name, owner, op, name, ret, seen, shaken, kept, raced>>
  BY DEF OtherByte, Goto, headers, history
<1>n. /\ name[p] \in Names /\ idx[p] \in Junks /\ todo[p] \subseteq Letters(name[p])
      /\ owner[idx[p]] \in Names \cup {NoName}
  BY <1>0 DEF CallShape, InCall, TypeOK
<1>1. TypeOK'
  BY <1>0, <1>n DEF TypeOK, Junks, PCs
<1>2. InCall(p)' /\ (Writing(p)' => Writing(p))
  BY <1>0 DEF CallShape, InCall, TypeOK, Writing
<1>3. ~raced => Writes(p)'
  BY <1>0 DEF Writes, TypeOK
<1>4. ~raced => Knows(p)'
  <2>. SUFFICES ASSUME ~raced PROVE Knows(p)'
    OBVIOUS
  <2>1. Knows(p)
    BY DEF Progress
  <2>2. ~Begins(name[p], owner[idx[p]])
    <3>. SUFFICES ASSUME Begins(name[p], owner[idx[p]]) PROVE FALSE
      OBVIOUS
    <3>1. owner[idx[p]] \in Names
      BY <1>n, NameFacts
    <3>2. Shows(idx[p], owner[idx[p]], Written(owner[idx[p]]))
      BY <1>n, <3>1, NameFacts DEF HeaderShape, ShowsOwner
    <3>3. \A i \in Letters(name[p]) : shm_name[idx[p]][i] = name[p][i]
      BY <1>n, <3>1, <3>2, NoTellingByte DEF Shows
    <3>. QED
      BY <1>n, <3>3 DEF OtherByte
  <2>3. idx[p] \notin kept[p]
    BY <1>0, <2>1, <2>2, <1>n DEF Knows, Suits
  <2>4. \A j \in Junks : j < idx[p] + 1 => j < idx[p] \/ j = idx[p]
    BY <1>n DEF Junks
  <2>5. /\ pc'[p] = "flag" /\ idx'[p] = idx[p] + 1
        /\ Suits(name[p])' = Suits(name[p]) /\ Torn' = Torn
    BY <1>0 DEF TypeOK, Suits, Torn
  <2>. QED
    BY <1>0, <2>1, <2>2, <2>3, <2>4, <2>5, <1>n DEF Knows
<1>. QED
  BY <1>0, <1>1, <1>2, <1>3, <1>4, QuietKeeps DEF TypeOK

(* What a process knows when its call is over is nothing. *)
LEMMA ReturnKeeps ==
  ASSUME Inv, NEW p \in Procs, NEW r \in 0 .. NumJunks,
         pc' = [pc EXCEPT ![p] = "idle"],
         idx' = [idx EXCEPT ![p] = 1],
         todo' = [todo EXCEPT ![p] = {}],
         ret' = [ret EXCEPT ![p] = r],
         seen' = [seen EXCEPT ![p] = {}],
         shaken' = [shaken EXCEPT ![p] = {}],
         kept' = [kept EXCEPT ![p] = {}],
         UNCHANGED <<is_assigned, shm_name, owner, op, name, raced>>
  PROVE  Inv'
<1>1. TypeOK'
  BY RegistryAssumption DEF Inv, TypeOK, PCs
<1>2. pc'[p] = "idle"
  BY DEF Inv, TypeOK
<1>3. InCall(p)' /\ (Writing(p)' => Writing(p)) /\ Writes(p)' /\ Knows(p)'
  BY <1>2 DEF InCall, Writing, Writes, Knows
<1>. QED
  BY <1>1, <1>3, QuietKeeps DEF Inv, TypeOK

(* A junk without a byte that tells is one the call has seen, or shaken. *)
LEMMA HitKeeps ==
  ASSUME Inv, NEW p \in Procs, Hit(p)
  PROVE  Inv'
<1>. USE RegistryAssumption DEF Inv
<1>n. pc[p] = "name" /\ idx[p] \in Junks /\ todo[p] = {}
  BY DEF Hit, CallShape, InCall
<1>r. idx[p] \in 0 .. NumJunks /\ 0 \in 0 .. NumJunks
  BY <1>n DEF Junks
<1>1. CASE op[p] = "find"
  BY <1>1, <1>r, ReturnKeeps DEF Hit, Goto, Return, headers
<1>2. CASE op[p] = "assign"
  BY <1>2, <1>r, ReturnKeeps DEF Hit, Goto, Return, headers
<1>3. CASE op[p] = "unassign"
  <2>0. /\ pc' = [pc EXCEPT ![p] = "reset_flag"]
        /\ idx' = [idx EXCEPT ![p] = idx[p]]
        /\ UNCHANGED <<is_assigned, shm_name, owner, op, name, todo, ret, seen, shaken, kept,
                       raced>>
    BY <1>3 DEF Hit, Goto, Return, headers, history
  <2>1. TypeOK'
    BY <2>0 DEF TypeOK, PCs
  <2>2. InCall(p)' /\ (Writing(p)' => Writing(p))
    BY <2>0, <1>n, <1>3 DEF CallShape, InCall, TypeOK, Writing
  <2>3. ~raced => Writes(p)' /\ Knows(p)'
    BY <2>0, <1>n DEF Writes, Progress, Knows, Suits, Torn, TypeOK
  <2>. QED
    BY <2>0, <2>1, <2>2, <2>3, QuietKeeps DEF TypeOK
<1>. QED
  BY <1>1, <1>2, <1>3 DEF TypeOK, Ops

(* At the end of the loop no junk has been passed over. *)
LEMMA NotFoundKeeps ==
  ASSUME Inv, NEW p \in Procs, NotFound(p)
  PROVE  Inv'
<1>. USE RegistryAssumption DEF Inv
<1>1. CASE op[p] = "assign"
  <2>0. /\ pc[p] = "flag" /\ idx[p] \notin Junks
        /\ pc' = [pc EXCEPT ![p] = "take"]
        /\ idx' = [idx EXCEPT ![p] = 1]
        /\ UNCHANGED <<is_assigned, shm_name, owner, op, name, todo, ret, seen, shaken, kept,
                       raced>>
    BY <1>1 DEF NotFound, Goto, Return, headers, history
  <2>1. TypeOK'
    BY <2>0 DEF TypeOK, PCs
  <2>2. InCall(p)' /\ (Writing(p)' => Writing(p))
    BY <2>0, <1>1 DEF CallShape, InCall, TypeOK, Writing
  <2>3. ~raced => Writes(p)'
    BY <2>0 DEF Writes, TypeOK
  <2>4. ~raced => Knows(p)'
    <3>1. \A j \in Junks : j < idx[p]
      BY <2>0 DEF TypeOK, Junks
    <3>2. pc'[p] = "take" /\ Suits(name[p])' = Suits(name[p]) /\ Torn' = Torn
      BY <2>0 DEF TypeOK, Suits, Torn
    <3>3. ~raced => Suits(name[p]) = {}
      BY <1>1, <2>0, <3>1 DEF Progress, Knows, Suits
    <3>. QED
      BY <2>0, <3>2, <3>3 DEF Progress, Knows
  <2>. QED
    BY <2>0, <2>1, <2>2, <2>3, <2>4, QuietKeeps DEF TypeOK
<1>2. CASE op[p] # "assign"
  <2>1. 0 \in 0 .. NumJunks
    OBVIOUS
  <2>. QED
    BY <1>2, <2>1, ReturnKeeps DEF NotFound, Goto, Return, headers
<1>. QED
  BY <1>1, <1>2

(* The flag the one writer tests is the flag it will find when it sets it. *)
LEMMA TestFreeKeeps ==
  ASSUME Inv, NEW p \in Procs, TestFree(p)
  PROVE  Inv'
<1>. USE RegistryAssumption DEF Inv
<1>0. /\ pc[p] = "take" /\ idx[p] \in Junks
      /\ \/ /\ is_assigned[idx[p]]
            /\ pc' = [pc EXCEPT ![p] = "take"] /\ idx' = [idx EXCEPT ![p] = idx[p] + 1]
         \/ /\ ~is_assigned[idx[p]]
            /\ pc' = [pc EXCEPT ![p] = "set_flag"] /\ idx' = [idx EXCEPT ![p] = idx[p]]
      /\ UNCHANGED <<is_assigned, shm_name, owner, op, name, todo, ret, seen, shaken, kept, raced>>
  BY DEF TestFree, Goto, headers, history
<1>1. TypeOK'
  <2>1. idx[p] + 1 \in 1 .. NumJunks + 1
    BY <1>0 DEF Junks
  <2>2. CASE is_assigned[idx[p]]
    <3>1. pc' = [pc EXCEPT ![p] = "take"] /\ idx' = [idx EXCEPT ![p] = idx[p] + 1]
      BY <1>0, <2>2
    <3>. QED
      BY <1>0, <2>1, <3>1 DEF TypeOK, PCs
  <2>3. CASE ~is_assigned[idx[p]]
    BY <1>0, <2>3 DEF TypeOK, PCs
  <2>. QED
    BY <2>2, <2>3
<1>2. InCall(p)' /\ (Writing(p)' => Writing(p))
  BY <1>0 DEF CallShape, InCall, TypeOK, Writing
<1>3. ~raced => Writes(p)'
  BY <1>0 DEF Writes, TypeOK
<1>4. ~raced => Knows(p)'
  BY <1>0 DEF Progress, Knows, Suits, Torn, TypeOK
<1>. QED
  BY <1>0, <1>1, <1>2, <1>3, <1>4, QuietKeeps DEF TypeOK

(* All junks are assigned: the registry does not change. *)
LEMMA NoneFreeKeeps ==
  ASSUME Inv, NEW p \in Procs, NoneFree(p)
  PROVE  Inv'
<1>1. 0 \in 0 .. NumJunks
  BY RegistryAssumption
<1>. QED
  BY <1>1, ReturnKeeps DEF NoneFree, Goto, Return, headers

(* The queue is clear, the junk is returned. *)
LEMMA ClearedKeeps ==
  ASSUME Inv, NEW p \in Procs, Cleared(p)
  PROVE  Inv'
<1>1. idx[p] \in 0 .. NumJunks
  BY RegistryAssumption DEF Inv, Cleared, CallShape, InCall, Junks
<1>. QED
  BY <1>1, ReturnKeeps DEF Cleared, Goto, Return, headers

(* A process that ends leaves the headers as they are, complete or torn. *)
LEMMA DieKeeps ==
  ASSUME Inv, NEW p \in Procs, Die(p)
  PROVE  Inv'
<1>0. /\ pc' = [pc EXCEPT ![p] = "idle"]
      /\ UNCHANGED <<is_assigned, shm_name, owner, raced>>
  BY DEF Die, Goto, Return, headers
<1>1. TypeOK'
  BY RegistryAssumption DEF Die, Goto, Return, headers, Inv, TypeOK, PCs, Ops
<1>2. pc'[p] = "idle"
  BY <1>0 DEF Inv, TypeOK
<1>3. InCall(p)' /\ (Writing(p)' => Writing(p)) /\ Writes(p)' /\ Knows(p)'
  BY <1>2 DEF InCall, Writing, Writes, Knows
<1>. QED
  BY <1>0, <1>1, <1>3, QuietKeeps DEF Inv, TypeOK, Die, Goto, Return

-----------------------------------------------------------------------------
(***************************************************************************)
(* The steps that write.                                                   *)
(***************************************************************************)
(* While one call writes, the others only look for a junk. *)
LEMMA OthersFind ==
  ASSUME Inv, ~raced, NEW p \in Procs, Writing(p), NEW q \in Procs, q # p
  PROVE  /\ pc[q] \in {"idle", "flag", "name"}
         /\ pc[q] # "idle" => op[q] = "find"
<1>1. ~Writing(q)
  BY DEF Inv, OneWriter
<1>. QED
  BY <1>1 DEF Inv, Writing, CallShape, InCall, TypeOK, PCs, Ops

(* The junk taken has no owner; every call under way has seen it shaken. *)
LEMMA SetFlagKeeps ==
  ASSUME Inv, NEW p \in Procs, SetFlag(p)
  PROVE  Inv'
<1>. USE RegistryAssumption DEF Inv
<1>0. /\ pc[p] = "set_flag"
      /\ is_assigned' = [is_assigned EXCEPT ![idx[p]] = TRUE]
      /\ shaken' = [q \in Procs |->
                      IF pc[q] # "idle" THEN shaken[q] \cup {idx[p]} ELSE shaken[q]]
      /\ pc' = [pc EXCEPT ![p] = "set_name"]
      /\ idx' = [idx EXCEPT ![p] = idx[p]]
      /\ todo' = [todo EXCEPT ![p] = Written(name[p])]
      /\ UNCHANGED <<shm_name, owner, op, name, ret, seen, kept, raced>>
  BY DEF SetFlag, Goto
<1>n. /\ name[p] \in Names /\ idx[p] \in Junks /\ op[p] = "assign" /\ Writing(p)
  BY <1>0 DEF CallShape, InCall, Writing
<1>1. TypeOK'
  BY <1>0, <1>n, NameFacts DEF TypeOK, PCs
<1>2. CallShape'
  BY <1>0, <1>n DEF CallShape, InCall, TypeOK
<1>3. OneWriter'
  BY <1>0 DEF OneWriter, Writing, TypeOK
<1>4. HeaderShape'
  <2>. SUFFICES ASSUME ~raced PROVE HeaderShape'
    BY <1>0 DEF HeaderShape
  <2>1. ~is_assigned[idx[p]] /\ owner[idx[p]] = NoName
    BY <1>0, <1>n DEF HeaderShape, Writes, ShowsOwner
  <2>2. \A j \in Junks : ShowsOwner(j)'
    BY <1>0, <2>1 DEF HeaderShape, ShowsOwner, Shows, TypeOK
  <2>3. Writes(p)'
    BY <1>0, <1>n, <2>1 DEF Writes, Shows, TypeOK
  <2>4. ASSUME NEW q \in Procs, q # p PROVE Writes(q)'
    <3>1. pc'[q] = pc[q]
      BY <1>0, <2>4
    <3>. QED
      BY <1>n, <2>4, <3>1, OthersFind DEF Writes
  <2>. QED
    BY <2>2, <2>3, <2>4 DEF HeaderShape
<1>5. Progress'
  <2>. SUFFICES ASSUME ~raced, NEW q \in Procs PROVE Knows(q)'
    BY <1>0 DEF Progress
  <2>1. Knows(q)
    BY DEF Progress
  <2>2. Torn' \subseteq Torn \cup {idx[p]} /\ Suits(name[q])' = Suits(name[q])
    BY <1>0, <1>n DEF Torn, Suits, TypeOK
  <2>3. CASE q = p
    <3>1. pc'[p] = "set_name" /\ seen'[p] = seen[p] /\ kept'[p] = kept[p]
          /\ shaken'[p] = shaken[p] \cup {idx[p]} /\ name'[p] = name[p] /\ op'[p] = op[p]
      BY <1>0 DEF TypeOK
    <3>. QED
      BY <1>0, <2>1, <2>2, <2>3, <3>1 DEF Knows
  <2>4. CASE q # p
    <3>1. /\ pc'[q] = pc[q] /\ idx'[q] = idx[q] /\ todo'[q] = todo[q]
          /\ shaken[q] \subseteq shaken'[q] /\ (pc[q] # "idle" => idx[p] \in shaken'[q])
      BY <1>0, <2>4 DEF TypeOK
    <3>. QED
      BY <1>0, <2>1, <2>2, <3>1 DEF Knows, Tells
  <2>. QED
    BY <2>3, <2>4
<1>6. OneJunkPerName'
  BY <1>0 DEF OneJunkPerName, NameGivenOnce
<1>. QED
  BY <1>1, <1>2, <1>3, <1>4, <1>5, <1>6 DEF Inv

(* A byte of the name that is not the last: the junk stays without one. *)
LEMMA LetterKeeps ==
  ASSUME Inv, NEW p \in Procs, pc[p] = "set_name", NEW i \in todo[p],
         shm_name' = [shm_name EXCEPT ![idx[p]][i] = name[p][i]],
         todo' = [todo EXCEPT ![p] = @ \ {i}],
         UNCHANGED <<is_assigned, owner, pc, op, name, idx, ret, seen, shaken, kept, raced>>
  PROVE  Inv'
<1>. USE RegistryAssumption DEF Inv
<1>n. /\ name[p] \in Names /\ idx[p] \in Junks /\ op[p] = "assign" /\ Writing(p)
      /\ i \in Positions /\ name[p][i] \in Bytes
  <2>1. name[p] \in Names /\ idx[p] \in Junks /\ op[p] = "assign" /\ Writing(p)
    BY DEF CallShape, InCall, Writing
  <2>2. i \in Positions
    BY DEF TypeOK
  <2>. QED
    BY <2>1, <2>2, NameFacts
<1>h. /\ \A j \in Junks : j # idx[p] => shm_name'[j] = shm_name[j]
      /\ \A k \in Positions : k # i => shm_name'[idx[p]][k] = shm_name[idx[p]][k]
      /\ shm_name'[idx[p]][i] = name[p][i]
  BY <1>n DEF TypeOK
<1>1. TypeOK'
  <2>1. shm_name' \in [Junks -> [Positions -> Bytes]]
    BY <1>n DEF TypeOK
  <2>. QED
    BY <2>1 DEF TypeOK
<1>2. CallShape'
  <2>1. \A q \in Procs : q # p => todo'[q] = todo[q]
    BY DEF TypeOK
  <2>. QED
    BY <2>1 DEF CallShape, InCall
<1>3. OneWriter'
  BY DEF OneWriter, Writing
<1>4. HeaderShape'
  <2>. SUFFICES ASSUME ~raced PROVE HeaderShape'
    BY DEF HeaderShape
  <2>1. Writes(p)
    BY DEF HeaderShape
  <2>2. \A j \in Junks : ShowsOwner(j)'
    BY <1>h, <2>1 DEF HeaderShape, ShowsOwner, Shows, Writes
  <2>3. Writes(p)'
    <3>1. todo'[p] = todo[p] \ {i}
      BY DEF TypeOK
    <3>2. Written(name[p]) \subseteq Positions
      BY DEF Written
    <3>3. \A k \in Written(name[p]) \ todo'[p] : shm_name'[idx[p]][k] = name[p][k]
      BY <2>1, <1>h, <3>1, <3>2 DEF Writes, Shows
    <3>. QED
      BY <2>1, <3>3 DEF Writes, Shows
  <2>4. ASSUME NEW q \in Procs, q # p PROVE Writes(q)'
    BY <1>n, <2>4, OthersFind DEF Writes
  <2>. QED
    BY <2>2, <2>3, <2>4 DEF HeaderShape
<1>5. Progress'
  <2>. SUFFICES ASSUME ~raced, NEW q \in Procs PROVE Knows(q)'
    BY DEF Progress
  <2>1. Knows(q) /\ Writes(p)
    BY DEF Progress, HeaderShape
  <2>2. Torn' = Torn /\ Suits(name[q])' = Suits(name[q]) /\ idx[p] \in Torn
    BY <1>n, <2>1 DEF Torn, Suits, Writes
  <2>3. CASE q = p
    BY <2>1, <2>2, <2>3 DEF Knows
  <2>4. CASE q # p /\ idx[q] # idx[p]
    <3>1. todo'[q] = todo[q]
      BY <2>4 DEF TypeOK
    <3>2. pc[q] = "name" => shm_name'[idx[q]] = shm_name[idx[q]]
      BY <2>4, <1>h DEF CallShape, InCall
    <3>. QED
      BY <2>1, <2>2, <3>1, <3>2 DEF Knows, Tells
  <2>5. CASE q # p /\ idx[q] = idx[p]
    BY <2>1, <2>2, <2>5 DEF Knows
  <2>. QED
    BY <2>3, <2>4, <2>5
<1>6. OneJunkPerName'
  BY DEF OneJunkPerName, NameGivenOnce
<1>. QED
  BY <1>1, <1>2, <1>3, <1>4, <1>5, <1>6 DEF Inv

(* The last byte of the name: from now on the junk has it. *)
LEMMA LastByteKeeps ==
  ASSUME Inv, NEW p \in Procs, pc[p] = "set_name", NEW i, todo[p] = {i},
         shm_name' = [shm_name EXCEPT ![idx[p]][i] = name[p][i]],
         todo' = [todo EXCEPT ![p] = @ \ {i}],
         Own(idx[p], name[p]), Goto(p, "clear", idx[p]),
         UNCHANGED <<is_assigned, op, name, ret, shaken, raced>>
  PROVE  Inv'
<1>. USE RegistryAssumption DEF Inv
<1>n. /\ name[p] \in Names /\ idx[p] \in Junks /\ op[p] = "assign" /\ Writing(p)
      /\ i \in Positions /\ name[p][i] \in Bytes
  <2>1. name[p] \in Names /\ idx[p] \in Junks /\ op[p] = "assign" /\ Writing(p)
    BY DEF CallShape, InCall, Writing
  <2>2. i \in Positions
    BY DEF TypeOK
  <2>. QED
    BY <2>1, <2>2, NameFacts
<1>0. /\ pc' = [pc EXCEPT ![p] = "clear"]
      /\ idx' = [idx EXCEPT ![p] = idx[p]]
      /\ owner' = [owner EXCEPT ![idx[p]] = name[p]]
      /\ seen' = [q \in Procs |-> IF pc[q] # "idle" /\ Begins(name[q], name[p])
                                  THEN seen[q] \cup {idx[p]} ELSE seen[q]]
      /\ kept' = [q \in Procs |-> IF pc[q] # "idle" /\ ~Begins(name[q], name[p])
                                  THEN kept[q] \ {idx[p]} ELSE kept[q]]
  BY DEF Own, Goto
<1>h. /\ \A j \in Junks : j # idx[p] => shm_name'[j] = shm_name[j] /\ owner'[j] = owner[j]
      /\ \A k \in Positions : k # i => shm_name'[idx[p]][k] = shm_name[idx[p]][k]
      /\ shm_name'[idx[p]][i] = name[p][i]
      /\ owner'[idx[p]] = name[p]
  BY <1>n, <1>0 DEF TypeOK
<1>1. TypeOK'
  <2>1. shm_name' \in [Junks -> [Positions -> Bytes]]
    BY <1>n DEF TypeOK
  <2>2. todo' \in [Procs -> SUBSET Positions]
    BY DEF TypeOK
  <2>3. /\ pc' \in [Procs -> PCs] /\ idx' \in [Procs -> 1 .. NumJunks + 1]
        /\ owner' \in [Junks -> Names \cup {NoName}]
    BY <1>0, <1>n DEF TypeOK, PCs
  <2>4. seen' \in [Procs -> SUBSET Junks] /\ kept' \in [Procs -> SUBSET Junks]
    BY <1>0, <1>n DEF TypeOK
  <2>. QED
    BY <2>1, <2>2, <2>3, <2>4 DEF TypeOK
<1>2. CallShape'
  <2>1. \A q \in Procs : q # p => todo'[q] = todo[q] /\ pc'[q] = pc[q] /\ idx'[q] = idx[q]
    BY <1>0 DEF TypeOK
  <2>2. pc'[p] = "clear" /\ idx'[p] = idx[p]
    BY <1>0 DEF TypeOK
  <2>. QED
    BY <1>n, <2>1, <2>2 DEF CallShape, InCall
<1>3. OneWriter'
  BY <1>0 DEF OneWriter, Writing, TypeOK
<1>4. HeaderShape'
  <2>. SUFFICES ASSUME ~raced PROVE HeaderShape'
    BY DEF HeaderShape
  <2>1. Writes(p)
    BY DEF HeaderShape
  <2>2. ASSUME NEW j \in Junks, j = idx[p] PROVE ShowsOwner(j)'
    <3>1. Written(name[p]) \subseteq Positions
      BY DEF Written
    <3>2. \A k \in Written(name[p]) : shm_name'[idx[p]][k] = name[p][k]
      BY <2>1, <1>h, <3>1 DEF Writes, Shows
    <3>. QED
      BY <2>1, <2>2, <1>h, <1>n, <3>2 DEF ShowsOwner, Shows, Writes
  <2>3. ASSUME NEW j \in Junks, j # idx[p] PROVE ShowsOwner(j)'
    BY <1>h, <2>3 DEF HeaderShape, ShowsOwner, Shows
  <2>4. ASSUME NEW q \in Procs PROVE Writes(q)'
    <3>1. pc'[q] \in {"idle", "flag", "name", "clear"}
      BY <1>0, <1>n, OthersFind DEF TypeOK
    <3>. QED
      BY <3>1 DEF Writes
  <2>5. \A j \in Junks : ShowsOwner(j)'
    BY <2>2, <2>3
  <2>. QED
    BY <2>4, <2>5 DEF HeaderShape
<1>5. Progress'
  <2>. SUFFICES ASSUME ~raced, NEW q \in Procs PROVE Knows(q)'
    BY DEF Progress
  <2>1. Knows(q) /\ Writes(p)
    BY DEF Progress, HeaderShape
  <2>2. idx[p] \in Torn /\ Torn' \subseteq Torn
    BY <1>n, <1>h, <2>1 DEF Torn, Writes
  <2>3. CASE q = p
    <3>1. /\ pc'[p] = "clear" /\ op'[p] = "assign" /\ name'[p] = name[p]
          /\ shaken'[p] = shaken[p] /\ kept'[p] = kept[p] /\ seen'[p] = seen[p] \cup {idx[p]}
      BY <1>0, <1>n, NameFacts DEF TypeOK
    <3>2. Suits(name[p])' \subseteq Suits(name[p]) \cup {idx[p]}
      BY <1>h DEF Suits
    <3>3. Suits(name[p]) = {}
      BY <2>1, <2>3 DEF Knows
    <3>. QED
      BY <2>1, <2>2, <2>3, <3>1, <3>2, <3>3 DEF Knows
  <2>4. CASE q # p
    <3>1. /\ pc'[q] = pc[q] /\ idx'[q] = idx[q] /\ todo'[q] = todo[q] /\ name'[q] = name[q]
          /\ shaken'[q] = shaken[q] /\ op'[q] = op[q]
      BY <1>0, <2>4 DEF TypeOK
    <3>2. pc[q] \in {"idle", "flag", "name"} /\ (pc[q] # "idle" => op[q] = "find")
      BY <1>n, <2>4, OthersFind
    <3>3. seen[q] \subseteq seen'[q] /\ kept'[q] \subseteq kept[q]
      BY <1>0
    <3>4. pc[q] # "idle" => Suits(name[q])' \subseteq seen'[q]
      <4>. SUFFICES ASSUME pc[q] # "idle", NEW j \in Junks, Begins(name[q], owner'[j])
                    PROVE  j \in seen'[q]
        BY <3>1 DEF Suits
      <4>1. CASE j = idx[p]
        BY <1>0, <1>h, <4>1
      <4>2. CASE j # idx[p]
        BY <1>h, <2>1, <3>3, <4>2 DEF Knows, Suits
      <4>. QED
        BY <4>1, <4>2
    <3>5. pc[q] # "idle" => kept'[q] \subseteq Suits(name[q])'
      <4>. SUFFICES ASSUME pc[q] # "idle", NEW j \in kept'[q]
                    PROVE  j \in Junks /\ Begins(name[q], owner'[j])
        BY <3>1 DEF Suits
      <4>1. j \in Junks /\ Begins(name[q], owner[j])
        BY <2>1, <3>3 DEF Knows, Suits
      <4>2. CASE j = idx[p]
        BY <1>0, <1>h, <4>1, <4>2
      <4>3. CASE j # idx[p]
        BY <1>h, <4>1, <4>3
      <4>. QED
        BY <4>1, <4>2, <4>3
    <3>6. pc[q] = "name" =>
            idx[q] \in seen'[q] \cup shaken[q] \/ \E k \in todo[q] : shm_name'[idx[q]][k] # name[q][k]
      <4>1. CASE idx[q] = idx[p]
        BY <2>1, <2>2, <4>1 DEF Knows
      <4>2. CASE idx[q] # idx[p]
        BY <1>h, <2>1, <3>3, <4>2 DEF Knows, Tells, CallShape, InCall
      <4>. QED
        BY <4>1, <4>2
    <3>. QED
      BY <2>1, <2>2, <3>1, <3>2, <3>3, <3>4, <3>5, <3>6 DEF Knows, Tells
  <2>. QED
    BY <2>3, <2>4
<1>6. OneJunkPerName'
  <2>. SUFFICES ASSUME ~raced PROVE NameGivenOnce'
    BY DEF OneJunkPerName
  <2>1. Suits(name[p]) = {}
    BY DEF Progress, Knows
  <2>2. \A j \in Junks : owner[j] # name[p]
    BY <1>n, <2>1, NameFacts DEF Suits
  <2>. QED
    BY <1>h, <2>2 DEF OneJunkPerName, NameGivenOnce
<1>. QED
  BY <1>1, <1>2, <1>3, <1>4, <1>5, <1>6 DEF Inv

LEMMA SetNameKeeps ==
  ASSUME Inv, NEW p \in Procs, SetName(p)
  PROVE  Inv'
<1>1. PICK i \in todo[p] :
        /\ shm_name' = [shm_name EXCEPT ![idx[p]][i] = name[p][i]]
        /\ todo' = [todo EXCEPT ![p] = @ \ {i}]
        /\ IF todo[p] = {i}
           THEN Own(idx[p], name[p]) /\ Goto(p, "clear", idx[p])
           ELSE UNCHANGED <<owner, seen, kept, pc, idx>>
  BY DEF SetName
<1>2. pc[p] = "set_name" /\ UNCHANGED <<is_assigned, op, name, ret, shaken, raced>>
  BY DEF SetName
<1>3. CASE todo[p] = {i}
  BY <1>1, <1>2, <1>3, LastByteKeeps
<1>4. CASE todo[p] # {i}
  BY <1>1, <1>2, <1>4, LetterKeeps
<1>. QED
  BY <1>3, <1>4

(* The junk loses its owner with its flag; no call has it that had it not. *)
LEMMA ResetFlagKeeps ==
  ASSUME Inv, NEW p \in Procs, ResetFlag(p)
  PROVE  Inv'
<1>. USE RegistryAssumption DEF Inv
<1>0. /\ pc[p] = "reset_flag"
      /\ is_assigned' = [is_assigned EXCEPT ![idx[p]] = FALSE]
      /\ pc' = [pc EXCEPT ![p] = "reset_name"]
      /\ idx' = [idx EXCEPT ![p] = idx[p]]
      /\ owner' = [owner EXCEPT ![idx[p]] = NoName]
      /\ seen' = [q \in Procs |-> IF pc[q] # "idle" /\ Begins(name[q], NoName)
                                  THEN seen[q] \cup {idx[p]} ELSE seen[q]]
      /\ kept' = [q \in Procs |-> IF pc[q] # "idle" /\ ~Begins(name[q], NoName)
                                  THEN kept[q] \ {idx[p]} ELSE kept[q]]
      /\ UNCHANGED <<shm_name, op, name, todo, ret, shaken, raced>>
  BY DEF ResetFlag, Goto, Own
<1>n. /\ name[p] \in Names /\ idx[p] \in Junks /\ op[p] = "unassign" /\ Writing(p)
  BY <1>0 DEF CallShape, InCall, Writing
<1>h. /\ \A j \in Junks : j # idx[p] =>
           is_assigned'[j] = is_assigned[j] /\ owner'[j] = owner[j]
      /\ ~is_assigned'[idx[p]] /\ owner'[idx[p]] = NoName
      /\ pc'[p] = "reset_name" /\ idx'[p] = idx[p]
      /\ \A q \in Procs : q # p => pc'[q] = pc[q] /\ idx'[q] = idx[q]
  BY <1>n, <1>0 DEF TypeOK
<1>1. TypeOK'
  <2>1. /\ pc' \in [Procs -> PCs] /\ idx' \in [Procs -> 1 .. NumJunks + 1]
        /\ owner' \in [Junks -> Names \cup {NoName}] /\ is_assigned' \in [Junks -> BOOLEAN]
    BY <1>0, <1>n DEF TypeOK, PCs
  <2>2. seen' \in [Procs -> SUBSET Junks] /\ kept' \in [Procs -> SUBSET Junks]
    BY <1>0, <1>n DEF TypeOK
  <2>. QED
    BY <1>0, <2>1, <2>2 DEF TypeOK
<1>2. CallShape'
  BY <1>0, <1>n, <1>h DEF CallShape, InCall
<1>3. OneWriter'
  BY <1>0, <1>h DEF OneWriter, Writing
<1>4. HeaderShape'
  <2>. SUFFICES ASSUME ~raced PROVE HeaderShape'
    BY <1>0 DEF HeaderShape
  <2>1. \A j \in Junks : ShowsOwner(j)'
    BY <1>0, <1>h DEF HeaderShape, ShowsOwner, Shows
  <2>2. Writes(p)'
    BY <1>h DEF Writes
  <2>3. ASSUME NEW q \in Procs, q # p PROVE Writes(q)'
    BY <1>n, <1>h, <2>3, OthersFind DEF Writes
  <2>. QED
    BY <2>1, <2>2, <2>3 DEF HeaderShape
<1>5. Progress'
  <2>. SUFFICES ASSUME ~raced, NEW q \in Procs PROVE Knows(q)'
    BY <1>0 DEF Progress
  <2>1. Knows(q)
    BY DEF Progress
  <2>2. Torn' \subseteq Torn
    BY <1>h DEF Torn
  <2>3. pc[q] # "idle" => name[q] \in Names /\ ~Begins(name[q], NoName)
    BY NameFacts DEF CallShape, InCall
  <2>4. /\ seen'[q] = seen[q] /\ kept'[q] \subseteq kept[q]
        /\ pc[q] # "idle" => kept'[q] = kept[q] \ {idx[p]}
    BY <1>0, <2>3
  <2>5. pc[q] # "idle" => Suits(name[q])' = Suits(name[q]) \ {idx[p]}
    BY <1>0, <1>h, <2>3 DEF Suits
  <2>6. \A j \in Junks : pc[q] # "idle" /\ ~Begins(name[q], owner[j]) =>
          ~Begins(name[q], owner'[j])
    BY <1>h, <2>3
  <2>7. CASE q = p
    BY <1>0, <1>n, <1>h, <2>1, <2>2, <2>4, <2>5, <2>7 DEF Knows
  <2>8. CASE q # p
    <3>1. pc'[q] = pc[q] /\ idx'[q] = idx[q] /\ pc[q] \in {"idle", "flag", "name"}
      BY <1>h, <1>n, <2>8, OthersFind
    <3>. QED
      BY <1>0, <2>1, <2>2, <2>4, <2>5, <2>6, <3>1 DEF Knows, Tells
  <2>. QED
    BY <2>7, <2>8
<1>6. OneJunkPerName'
  BY <1>0, <1>h DEF OneJunkPerName, NameGivenOnce
<1>. QED
  BY <1>1, <1>2, <1>3, <1>4, <1>5, <1>6 DEF Inv

(* The first byte of a name that is asked for is never the terminator. *)
LEMMA ResetNameKeeps ==
  ASSUME Inv, NEW p \in Procs, ResetName(p)
  PROVE  Inv'
<1>. USE RegistryAssumption DEF Inv
<1>0. /\ pc[p] = "reset_name"
      /\ shm_name' = [shm_name EXCEPT ![idx[p]][1] = Nul]
      /\ pc' = [pc EXCEPT ![p] = "clear"]
      /\ idx' = [idx EXCEPT ![p] = idx[p]]
      /\ UNCHANGED <<is_assigned, owner, op, name, todo, ret, seen, shaken, kept, raced>>
  BY DEF ResetName, Goto, history
<1>n. /\ name[p] \in Names /\ idx[p] \in Junks /\ op[p] = "unassign" /\ Writing(p)
      /\ 1 \in Positions
  BY <1>0, NameFacts DEF CallShape, InCall, Writing
<1>h. /\ \A j \in Junks : j # idx[p] => shm_name'[j] = shm_name[j]
      /\ \A k \in Positions : k # 1 => shm_name'[idx[p]][k] = shm_name[idx[p]][k]
      /\ shm_name'[idx[p]][1] = Nul
      /\ pc'[p] = "clear" /\ idx'[p] = idx[p]
      /\ \A q \in Procs : q # p => pc'[q] = pc[q] /\ idx'[q] = idx[q]
  BY <1>n, <1>0 DEF TypeOK
<1>1. TypeOK'
  <2>1. shm_name' \in [Junks -> [Positions -> Bytes]]
    BY <1>0, <1>n DEF TypeOK
  <2>2. pc' \in [Procs -> PCs] /\ idx' \in [Procs -> 1 .. NumJunks + 1]
    BY <1>0 DEF TypeOK, PCs
  <2>. QED
    BY <1>0, <2>1, <2>2 DEF TypeOK
<1>2. CallShape'
  BY <1>0, <1>n, <1>h DEF CallShape, InCall
<1>3. OneWriter'
  BY <1>0, <1>h DEF OneWriter, Writing
<1>4. HeaderShape'
  <2>. SUFFICES ASSUME ~raced PROVE HeaderShape'
    BY <1>0 DEF HeaderShape
  <2>1. ~is_assigned[idx[p]]
    BY <1>0 DEF HeaderShape, Writes
  <2>2. \A j \in Junks : ShowsOwner(j)'
    BY <1>0, <1>h, <2>1 DEF HeaderShape, ShowsOwner, Shows
  <2>3. Writes(p)'
    BY <1>h DEF Writes
  <2>4. ASSUME NEW q \in Procs, q # p PROVE Writes(q)'
    BY <1>n, <1>h, <2>4, OthersFind DEF Writes
  <2>. QED
    BY <2>2, <2>3, <2>4 DEF HeaderShape
<1>5. Progress'
  <2>. SUFFICES ASSUME ~raced, NEW q \in Procs PROVE Knows(q)'
    BY <1>0 DEF Progress
  <2>1. Knows(q)
    BY DEF Progress
  <2>2. Torn' = Torn /\ Suits(name[q])' = Suits(name[q])
    BY <1>0 DEF Torn, Suits
  <2>3. CASE q = p
    BY <1>0, <1>n, <1>h, <2>1, <2>2, <2>3 DEF Knows
  <2>4. CASE q # p
    <3>1. pc'[q] = pc[q] /\ idx'[q] = idx[q]
      BY <1>h, <2>4
    <3>2. ASSUME pc[q] = "name", NEW k \in todo[q], shm_name[idx[q]][k] # name[q][k]
          PROVE  shm_name'[idx[q]][k] # name[q][k]
      <4>1. idx[q] \in Junks /\ k \in Positions /\ name[q][k] # Nul
        BY <3>2 DEF CallShape, InCall, Letters
      <4>2. CASE idx[q] # idx[p]
        BY <1>h, <3>2, <4>1, <4>2
      <4>3. CASE idx[q] = idx[p] /\ k # 1
        BY <1>h, <3>2, <4>1, <4>3
      <4>4. CASE idx[q] = idx[p] /\ k = 1
        BY <1>h, <4>1, <4>4
      <4>. QED
        BY <4>2, <4>3, <4>4
    <3>. QED
      BY <1>0, <2>1, <2>2, <3>1, <3>2 DEF Knows, Tells
  <2>. QED
    BY <2>3, <2>4
<1>6. OneJunkPerName'
  BY <1>0 DEF OneJunkPerName, NameGivenOnce
<1>. QED
  BY <1>1, <1>2, <1>3, <1>4, <1>5, <1>6 DEF Inv

-----------------------------------------------------------------------------
(* The invariant holds before and after each step. *)
LEMMA StepKeeps ==
  ASSUME Inv, [Next]_vars
  PROVE  Inv'
<1>1. CASE Next
  <2>. PICK p \in Procs :
         \/ \E o \in Ops, n \in Names : Call(p, o, n)
         \/ ReadFlag(p) \/ SameByte(p) \/ OtherByte(p) \/ Hit(p) \/ NotFound(p)
         \/ TestFree(p) \/ NoneFree(p) \/ SetFlag(p) \/ SetName(p)
         \/ ResetFlag(p) \/ ResetName(p) \/ Cleared(p)
         \/ Die(p)
    BY <1>1 DEF Next
  <2>. QED
    BY CallKeeps, ReadFlagKeeps, SameByteKeeps, OtherByteKeeps, HitKeeps, NotFoundKeeps,
       TestFreeKeeps, NoneFreeKeeps, SetFlagKeeps, SetNameKeeps, ResetFlagKeeps,
       ResetNameKeeps, ClearedKeeps, DieKeeps
<1>2. CASE UNCHANGED vars
  BY <1>2 DEF Inv, TypeOK, CallShape, InCall, HeaderShape, ShowsOwner, Shows, Writes, Progress,
              Knows, Tells, OneJunkPerName, NameGivenOnce, OneWriter, Writing, Suits, Torn,
              vars, headers, history
<1>. QED
  BY <1>1, <1>2

(***************************************************************************)
(* The invariant: what the flags and the bytes of the names say of the     *)
(* owners agrees with what the calls under way have seen, compared and     *)
(* written, also where a process ended in the middle of a name.            *)
(***************************************************************************)
THEOREM RegistryInvariance == Spec => []Inv
<1>1. Init => Inv
  BY InitInv
<1>2. Inv /\ [Next]_vars => Inv'
  BY StepKeeps
<1>. QED
  BY <1>1, <1>2, PTL DEF Spec

(***************************************************************************)
(* The headers and the calls keep their types, whatever overlaps or ends.  *)
(***************************************************************************)
THEOREM TypeCorrect == Spec => []TypeOK
<1>. Inv => TypeOK
  BY DEF Inv
<1>. QED
  BY RegistryInvariance, PTL

(***************************************************************************)
(* A call that returns: where it was, and what it has to say.              *)
(***************************************************************************)
LEMMA ReturnStep ==
  ASSUME Inv, Next, ~raced, NEW p \in Procs, Returns(p, {"find", "unassign"})
  PROVE  /\ ret'[p] # 0 => ret'[p] \in seen[p] \cup shaken[p]
         /\ ret'[p] = 0 => kept[p] = {}
<1>. USE RegistryAssumption DEF Inv, Returns
<1>1. PICK q \in Procs :
         \/ \E o \in Ops, n \in Names : Call(q, o, n)
         \/ ReadFlag(q) \/ SameByte(q) \/ OtherByte(q) \/ Hit(q) \/ NotFound(q)
         \/ TestFree(q) \/ NoneFree(q) \/ SetFlag(q) \/ SetName(q)
         \/ ResetFlag(q) \/ ResetName(q) \/ Cleared(q)
         \/ Die(q)
  BY DEF Next
<1>2. pc \in [Procs -> PCs] /\ name[p] \in Names /\ pc[p] # "idle" /\ pc'[p] = "idle"
  BY DEF TypeOK, CallShape, InCall
<1>3. Knows(p)
  BY DEF Progress
<1>4. CASE Hit(q)
  <2>1. /\ pc[q] = "name" /\ todo[q] = {} /\ q = p
    BY <1>2, <1>4 DEF Hit, Goto, Return, TypeOK, Ops
  <2>2. op[p] = "find" /\ ret'[p] = idx[p] /\ idx[p] \in Junks
    BY <1>2, <1>4, <2>1 DEF Hit, Goto, Return, TypeOK, CallShape, InCall
  <2>. QED
    BY <1>3, <2>1, <2>2 DEF Knows, Junks
<1>5. CASE NotFound(q)
  <2>1. pc[q] = "flag" /\ idx[q] \notin Junks /\ q = p
    BY <1>2, <1>5 DEF NotFound, Goto, Return
  <2>2. ret'[p] = 0
    BY <1>5, <2>1 DEF NotFound, Return, TypeOK
  <2>3. \A j \in Junks : j < idx[p]
    BY <2>1 DEF TypeOK, Junks
  <2>. QED
    BY <1>3, <2>1, <2>2, <2>3 DEF Knows, TypeOK
<1>6. CASE Cleared(q)
  <2>1. pc[q] = "clear" /\ q = p
    BY <1>2, <1>6 DEF Cleared, Goto, Return
  <2>2. ret'[p] = idx[p] /\ idx[p] \in Junks /\ op[p] = "unassign"
    BY <1>6, <2>1 DEF Cleared, Return, TypeOK, CallShape, InCall
  <2>. QED
    BY <1>3, <2>1, <2>2 DEF Knows, Junks
<1>7. CASE NoneFree(q)
  <2>1. q = p /\ op[p] = "assign"
    BY <1>2, <1>7 DEF NoneFree, Goto, Return, CallShape, InCall
  <2>. QED
    BY <2>1
<1>8. CASE Die(q)
  <2>1. q = p /\ name'[p] = NoName
    BY <1>2, <1>8 DEF Die, Goto, Return, TypeOK
  <2>. QED
    BY <1>2, <2>1, NameFacts
<1>9. CASE \/ \E o \in Ops, n \in Names : Call(q, o, n)
           \/ ReadFlag(q) \/ SameByte(q) \/ OtherByte(q) \/ TestFree(q) \/ SetFlag(q)
           \/ SetName(q) \/ ResetFlag(q) \/ ResetName(q)
  BY <1>2, <1>9 DEF Call, ReadFlag, Compare, SameByte, OtherByte, TestFree, SetFlag, SetName,
                    ResetFlag, ResetName, Goto
<1>. QED
  BY <1>1, <1>4, <1>5, <1>6, <1>7, <1>8, <1>9

(***************************************************************************)
(* What wv_shm_find_junk and wv_shm_unassign_junk return had such a name   *)
(* at some time of the call, or was without a complete one.                *)
(***************************************************************************)
THEOREM FindIsSound == Spec => FoundHadName
<1>1. Inv /\ [Next]_vars =>
        [~raced => \A p \in Procs :
           Returns(p, {"find", "unassign"}) /\ ret'[p] # 0 =>
             ret'[p] \in seen[p] \cup shaken[p]]_vars
  BY ReturnStep
<1>. QED
  BY <1>1, RegistryInvariance, PTL DEF Spec, FoundHadName

(***************************************************************************)
(* They never miss a junk that had such a name all through the call.       *)
(***************************************************************************)
THEOREM FindIsComplete == Spec => NoneMissed
<1>1. Inv /\ [Next]_vars =>
        [~raced => \A p \in Procs :
           Returns(p, {"find", "unassign"}) /\ ret'[p] = 0 => kept[p] = {}]_vars
  BY ReturnStep
<1>. QED
  BY <1>1, RegistryInvariance, PTL DEF Spec, NoneMissed

(***************************************************************************)
(* wv_shm_assign_junk never gives one name to two junks, if assignments    *)
(* and unassignments come one at a time.                                   *)
(***************************************************************************)
THEOREM NamesAreUnique == Spec => []OneJunkPerName
<1>. Inv => OneJunkPerName
  BY DEF Inv
<1>. QED
  BY RegistryInvariance, PTL

=============================================================================
