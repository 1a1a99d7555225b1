------------------------ MODULE ReplicaPrefixProofs ------------------------
(***************************************************************************)
(* Proofs about ReplicaPrefixRegistry, for every set of replica ids and    *)
(* callers and every size of the prefix space.                             *)
(***************************************************************************)
EXTENDS ReplicaPrefixRegistry, TLAPS

\* The conversion to uint16 loses nothing up to the limit.
LEMMA Uint16Exact ==
    ASSUME NEW n \in 0 .. MaxPrefix
    PROVE  Uint16(n) = n
BY PrefixAssumption DEF Uint16

LEMMA OutcomeType ==
    /\ None \in Outcome /\ Failed \in Outcome
    /\ Empty \in Outcome /\ Exhausted \in Outcome
    /\ \A p \in 0 .. MaxPrefix : Prefix(p) \in Outcome
    /\ \A s \in SUBSET (Ids \X (0 .. MaxPrefix)) : Listing(s) \in Outcome
BY DEF Outcome, None, Failed, Empty, Exhausted, Prefix, Listing

LEMMA PairsType ==
    ASSUME NEW t \in Assignments
    PROVE  Pairs(t) \subseteq Ids \X (0 .. MaxPrefix)
BY DEF Pairs, Assignments

LEMMA Kinds ==
    /\ None.kind # "prefix" /\ Failed.kind # "prefix"
    /\ Empty.kind # "prefix" /\ Exhausted.kind # "prefix"
    /\ \A s : Listing(s).kind # "prefix"
    /\ \A p : Prefix(p).kind = "prefix" /\ Prefix(p).prefix = p
BY DEF None, Failed, Empty, Exhausted, Prefix, Listing

LEMMA OtherKinds ==
    /\ Exhausted.kind = "exhausted" /\ Failed.kind = "store" /\ Empty.kind = "empty"
    /\ \A s : Listing(s).kind = "listing" /\ Listing(s).pairs = s
BY DEF Failed, Empty, Exhausted, Listing

-----------------------------------------------------------------------------
(* The inductive invariant.                                                *)

Critical == {"begin", "get", "count", "commit", "unlock", "listBegin", "listScan"}

\* The mutex is held exactly by the caller between Lock and Unlock.
MutexInv == \A c \in Callers : mu = c <=> pc[c] \in Critical

\* Because of the mutex the snapshot of the open transaction is what is on disk.
TxnInv ==
    \A c \in Callers :
        /\ pc[c] \in {"lock", "begin", "get", "count", "commit"} => id[c] \in Ids
        /\ pc[c] \in {"get", "count", "commit", "listScan"} =>
               view[c] = [assigned |-> assigned, counter |-> counter]
        /\ pc[c] \in {"count", "commit"} => assigned[id[c]] = NoPrefix
        /\ pc[c] = "commit" => next[c] = counter + 1 /\ next[c] <= MaxPrefix

\* A prefix about to be returned is the one on disk.
ResultInv ==
    \A c \in Callers :
        pc[c] \in {"unlock", "done"} /\ out[c].kind = "prefix" =>
            id[c] \in Ids /\ assigned[id[c]] = out[c].prefix /\ assigned[id[c]] # NoPrefix

IInv == TypeOK /\ MutexInv /\ TxnInv /\ Sequential /\ ResultInv /\ HandedIsDurable

\* The one step that changes the disk.
Record(c) ==
    /\ pc[c] = "commit" /\ mu = c
    /\ id[c] \in Ids /\ assigned[id[c]] = NoPrefix /\ counter + 1 <= MaxPrefix
    /\ assigned' = [assigned EXCEPT ![id[c]] = counter + 1]
    /\ counter' = counter + 1

LEMMA RecordStep ==
    ASSUME IInv, NEW c \in Callers, Goto(c, "commit", "unlock"), Apply(c)
    PROVE  Record(c)
BY DEF IInv, MutexInv, TxnInv, Goto, Apply, Record, Critical

LEMMA DiskStep ==
    ASSUME IInv, [Next]_vars
    PROVE  UNCHANGED disk \/ \E c \in Callers : Record(c) /\ pc' = [pc EXCEPT ![c] = "unlock"]
<1>1. ASSUME NEW c \in Callers, Commit(c) \/ CommitFails(c)
      PROVE  UNCHANGED disk \/ (Record(c) /\ pc' = [pc EXCEPT ![c] = "unlock"])
  <2>1. Goto(c, "commit", "unlock") /\ (Apply(c) \/ UNCHANGED disk)
    BY <1>1 DEF Commit, CommitFails
  <2>2. pc' = [pc EXCEPT ![c] = "unlock"]
    BY <2>1 DEF Goto
  <2>3. QED
    BY <2>1, <2>2, RecordStep
<1>2. ASSUME NEW c \in Callers, Start(c) \/ Lock(c) \/ Progress(c),
             ~Commit(c), ~CommitFails(c)
      PROVE  UNCHANGED disk
  BY <1>2 DEF Start, List, Call, Lock, Progress, Begin, GetExisting, GetMissing,
              Assign, Exhaust, StoreFails, ListScan, Unlock, Return, disk
<1>3. Restart \/ UNCHANGED vars => UNCHANGED disk
  BY DEF Restart, vars, disk
<1>4. QED
  BY <1>1, <1>2, <1>3 DEF Next

-----------------------------------------------------------------------------
(* Types.                                                                  *)

LEMMA TypeInit == Init => TypeOK
BY OutcomeType, PrefixAssumption DEF Init, Fresh, TypeOK, Assignments, PC

LEMMA TypeRecord ==
    ASSUME TypeOK, NEW c \in Callers, Record(c)
    PROVE  assigned' \in Assignments /\ counter' \in 0 .. MaxPrefix
BY PrefixAssumption DEF TypeOK, Record, Assignments

LEMMA TypeNext ==
    ASSUME IInv, [Next]_vars
    PROVE  TypeOK'
<1> USE DEF disk, Goto, Set
<1>0. TypeOK
  BY DEF IInv
<1>1. CASE Restart
  BY <1>0, <1>1, OutcomeType, PrefixAssumption DEF TypeOK, Restart, PC
<1>2. CASE UNCHANGED vars
  BY <1>0, <1>2 DEF TypeOK, vars
<1>3. assigned' \in Assignments /\ counter' \in 0 .. MaxPrefix
  BY <1>0, DiskStep, TypeRecord DEF TypeOK
<1>4. ASSUME NEW c \in Callers, Start(c) \/ Lock(c) \/ Progress(c)
      PROVE  TypeOK'
  <2>1. pc' \in [Callers -> PC]
    <3>1. PICK to \in PC : pc' = [pc EXCEPT ![c] = to]
      BY <1>4 DEF Start, List, Call, Lock, Progress, Begin, GetExisting, GetMissing,
                  Assign, Exhaust, Commit, CommitFails, StoreFails, ListScan, Unlock,
                  Return, PC
    <3>2. QED
      BY <1>0, <3>1 DEF TypeOK
  <2>2. id' \in [Callers -> Ids \cup {EmptyId}]
    <3>1. UNCHANGED id \/ \E i \in Ids \cup {EmptyId} : id' = [id EXCEPT ![c] = i]
      BY <1>4 DEF Start, List, Call, Lock, Progress, Begin, GetExisting, GetMissing,
                  Assign, Exhaust, Commit, CommitFails, StoreFails, ListScan, Unlock,
                  Return
    <3>2. QED
      BY <1>0, <3>1 DEF TypeOK
  <2>3. view' \in [Callers -> View \cup {NoView}]
    <3>1. [assigned |-> assigned, counter |-> counter] \in View
      BY <1>0 DEF TypeOK, View
    <3>2. UNCHANGED view \/ \E v \in View \cup {NoView} : view' = [view EXCEPT ![c] = v]
      BY <1>4, <3>1 DEF Start, List, Call, Lock, Progress, Begin, GetExisting, GetMissing,
                  Assign, Exhaust, Commit, CommitFails, StoreFails, ListScan, Unlock,
                  Return
    <3>3. QED
      BY <1>0, <3>2 DEF TypeOK
  <2>4. mu' \in Callers \cup {NoCaller}
    BY <1>0, <1>4 DEF TypeOK, Start, List, Call, Lock, Progress, Begin, GetExisting,
                  GetMissing, Assign, Exhaust, Commit, CommitFails, StoreFails, ListScan,
                  Unlock, Return
  <2>5. next' \in [Callers -> 0 .. MaxPrefix]
    <3>1. Assign(c) => view[c].counter + 1 \in 0 .. MaxPrefix
      BY <1>0, PrefixAssumption DEF Assign, IInv, TxnInv, TypeOK
    <3>2. UNCHANGED next \/ \E n \in 0 .. MaxPrefix : next' = [next EXCEPT ![c] = n]
      BY <1>4, <3>1, Uint16Exact, PrefixAssumption
         DEF Start, List, Call, Lock, Progress, Begin, GetExisting, GetMissing,
             Assign, Exhaust, Commit, CommitFails, StoreFails, ListScan, Unlock, Return
    <3>3. QED
      BY <1>0, <3>2 DEF TypeOK
  <2>6. out' \in [Callers -> Outcome]
    <3>1. GetExisting(c) => view[c].assigned[id[c]] \in 0 .. MaxPrefix
      BY <1>0 DEF GetExisting, IInv, TxnInv, TypeOK, Assignments
    <3>2. ListScan(c) => Pairs(view[c].assigned) \subseteq Ids \X (0 .. MaxPrefix)
      BY <1>0, PairsType DEF ListScan, IInv, TxnInv, TypeOK
    <3>3. Commit(c) => next[c] \in 0 .. MaxPrefix
      BY <1>0 DEF TypeOK
    <3>4. UNCHANGED out \/ \E o \in Outcome : out' = [out EXCEPT ![c] = o]
      BY <1>4, <3>1, <3>2, <3>3, OutcomeType
         DEF Start, List, Call, Lock, Progress, Begin, GetExisting, GetMissing,
             Assign, Exhaust, Commit, CommitFails, StoreFails, ListScan, Unlock, Return
    <3>5. QED
      BY <1>0, <3>4 DEF TypeOK
  <2>7. /\ handed' \subseteq Ids \X (0 .. MaxPrefix)
        /\ known' \in [Callers -> SUBSET (Ids \X (0 .. MaxPrefix))]
    <3>1. CASE Return(c)
      <4>1. pc[c] = "done" /\ out[c].kind = "prefix" =>
                id[c] \in Ids /\ out[c].prefix \in 0 .. MaxPrefix
        BY <1>0 DEF IInv, ResultInv, TypeOK, Assignments
      <4>2. QED
        BY <1>0, <3>1, <4>1 DEF Return, TypeOK
    <3>2. CASE List(c)
      BY <1>0, <3>2 DEF List, TypeOK
    <3>3. CASE ~Return(c) /\ ~List(c)
      BY <1>0, <1>4, <3>3
         DEF TypeOK, Start, Call, Lock, Progress, Begin, GetExisting, GetMissing,
             Assign, Exhaust, Commit, CommitFails, StoreFails, ListScan, Unlock
    <3>4. QED
      BY <3>1, <3>2, <3>3
  <2>8. QED
    BY <1>3, <2>1, <2>2, <2>3, <2>4, <2>5, <2>6, <2>7 DEF TypeOK
<1>5. QED
  BY <1>1, <1>2, <1>4 DEF Next

-----------------------------------------------------------------------------
(* Mutual exclusion.                                                       *)

\* A step by c: where it goes, and what becomes of the mutex.
LEMMA MutexStep ==
    ASSUME TypeOK, MutexInv, NEW c \in Callers, Start(c) \/ Lock(c) \/ Progress(c)
    PROVE  \E to \in PC :
             /\ pc' = [pc EXCEPT ![c] = to]
             /\ \/ pc[c] \notin Critical /\ to \notin Critical /\ mu' = mu
                \/ pc[c] \notin Critical /\ to \in Critical /\ mu = NoCaller /\ mu' = c
                \/ pc[c] \in Critical /\ to \in Critical /\ mu' = mu
                \/ pc[c] \in Critical /\ to \notin Critical /\ mu' = NoCaller
<1> USE DEF Goto, Set, PC, Critical, disk
<1>1. CASE Lock(c)
  BY <1>1 DEF Lock
<1>2. CASE Unlock(c)
  BY <1>2 DEF Unlock
<1>3. CASE Start(c) \/ Return(c)
  BY <1>3 DEF Start, List, Call, Return
<1>4. CASE Progress(c) /\ ~Unlock(c) /\ ~Return(c)
  BY <1>4 DEF Progress, Begin, GetExisting, GetMissing, Assign, Exhaust, Commit,
              CommitFails, StoreFails, ListScan
<1>5. QED
  BY <1>1, <1>2, <1>3, <1>4

LEMMA MutexNext ==
    ASSUME IInv, [Next]_vars
    PROVE  MutexInv'
<1>0. TypeOK /\ MutexInv
  BY DEF IInv
<1>1. CASE Restart
  BY <1>1, NoCallerAssumption DEF Restart, MutexInv, Critical
<1>2. CASE UNCHANGED vars
  BY <1>0, <1>2 DEF MutexInv, vars
<1>3. ASSUME NEW c \in Callers, Start(c) \/ Lock(c) \/ Progress(c)
      PROVE  MutexInv'
  <2>1. PICK to \in PC :
             /\ pc' = [pc EXCEPT ![c] = to]
             /\ \/ pc[c] \notin Critical /\ to \notin Critical /\ mu' = mu
                \/ pc[c] \notin Critical /\ to \in Critical /\ mu = NoCaller /\ mu' = c
                \/ pc[c] \in Critical /\ to \in Critical /\ mu' = mu
                \/ pc[c] \in Critical /\ to \notin Critical /\ mu' = NoCaller
    BY <1>0, <1>3, MutexStep
  <2>2. pc'[c] = to /\ \A d \in Callers : d # c => pc'[d] = pc[d]
    BY <1>0, <2>1 DEF TypeOK
  <2>3. QED
    BY <1>0, <2>1, <2>2, NoCallerAssumption DEF MutexInv
<1>4. QED
  BY <1>1, <1>2, <1>3 DEF Next

-----------------------------------------------------------------------------
(* The open transaction.                                                   *)

\* A step of another caller leaves c's transaction alone: if it changes the
\* disk it holds the mutex, and then c has no transaction open.
LEMMA TxnOther ==
    ASSUME IInv, NEW c \in Callers, NEW d \in Callers, d # c,
           Start(d) \/ Lock(d) \/ Progress(d)
    PROVE  /\ pc'[c] = pc[c] /\ id'[c] = id[c] /\ view'[c] = view[c]
           /\ next'[c] = next[c] /\ out'[c] = out[c]
           /\ pc[c] \in Critical => UNCHANGED disk
<1>1. /\ pc'[c] = pc[c] /\ id'[c] = id[c] /\ view'[c] = view[c]
      /\ next'[c] = next[c] /\ out'[c] = out[c]
  BY DEF IInv, TypeOK, Start, List, Call, Lock, Progress, Begin, GetExisting,
         GetMissing, Assign, Exhaust, Commit, CommitFails, StoreFails, ListScan, Unlock,
         Return, Goto, Set
<1>2. CASE Commit(d) \/ CommitFails(d)
  <2>1. pc[d] \in Critical
    BY <1>2 DEF Commit, CommitFails, Goto, Critical
  <2>2. pc[c] \notin Critical
    BY <2>1 DEF IInv, MutexInv
  <2>3. QED
    BY <1>1, <2>2
<1>3. CASE ~(Commit(d) \/ CommitFails(d))
  <2>1. UNCHANGED disk
    BY <1>3 DEF Start, List, Call, Lock, Progress, Begin, GetExisting, GetMissing,
         Assign, Exhaust, StoreFails, ListScan, Unlock, Return, disk
  <2>2. QED
    BY <1>1, <2>1
<1>4. QED
  BY <1>2, <1>3

LEMMA TxnOwn ==
    ASSUME IInv, NEW c \in Callers, Start(c) \/ Lock(c) \/ Progress(c)
    PROVE  /\ pc'[c] \in {"lock", "begin", "get", "count", "commit"} => id'[c] \in Ids
           /\ pc'[c] \in {"get", "count", "commit", "listScan"} =>
                  view'[c] = [assigned |-> assigned', counter |-> counter']
           /\ pc'[c] \in {"count", "commit"} => assigned'[id'[c]] = NoPrefix
           /\ pc'[c] = "commit" => next'[c] = counter' + 1 /\ next'[c] <= MaxPrefix
<1> USE DEF Goto, Set, disk
<1>0. TypeOK /\ TxnInv
  BY DEF IInv
<1>1. ASSUME NEW i \in Ids \cup {EmptyId}, Call(c, i)
      PROVE  (pc'[c] = "lock" /\ id'[c] \in Ids) \/ pc'[c] = "done"
  BY <1>0, <1>1 DEF Call, TypeOK
<1>2. CASE Lock(c)
  BY <1>0, <1>2 DEF Lock, TypeOK, TxnInv
<1>3. CASE Begin(c)
  BY <1>0, <1>3 DEF Begin, TypeOK, TxnInv
<1>4. CASE GetMissing(c)
  BY <1>0, <1>4 DEF GetMissing, TypeOK, TxnInv
<1>5. CASE Assign(c)
  <2>1. /\ pc[c] = "count" /\ view[c].counter = counter /\ counter + 1 <= MaxPrefix
        /\ id[c] \in Ids /\ assigned[id[c]] = NoPrefix
        /\ view[c] = [assigned |-> assigned, counter |-> counter]
    BY <1>0, <1>5 DEF Assign, TxnInv
  <2>2. Uint16(counter + 1) = counter + 1
    BY <1>0, <2>1, Uint16Exact, PrefixAssumption DEF TypeOK
  <2>3. next'[c] = counter + 1
    BY <1>0, <1>5, <2>1, <2>2 DEF Assign, TypeOK
  <2>4. UNCHANGED <<id, view, assigned, counter>>
    BY <1>5 DEF Assign
  <2>5. QED
    BY <2>1, <2>3, <2>4
<1>6. CASE \/ List(c) \/ GetExisting(c) \/ Exhaust(c) \/ Commit(c) \/ CommitFails(c)
           \/ StoreFails(c) \/ ListScan(c) \/ Unlock(c) \/ Return(c)
  <2>1. pc'[c] \in {"listLock", "unlock", "done", "idle"}
    BY <1>0, <1>6 DEF List, GetExisting, Exhaust, Commit, CommitFails, StoreFails,
                      ListScan, Unlock, Return, TypeOK
  <2>2. QED
    BY <2>1
<1>7. QED
  BY <1>1, <1>2, <1>3, <1>4, <1>5, <1>6 DEF Start, Progress

LEMMA TxnNext ==
    ASSUME IInv, [Next]_vars
    PROVE  TxnInv'
<1>1. CASE Restart
  BY <1>1 DEF Restart, TxnInv
<1>2. CASE UNCHANGED vars
  BY <1>2 DEF IInv, TxnInv, vars
<1>3. ASSUME NEW d \in Callers, Start(d) \/ Lock(d) \/ Progress(d), NEW c \in Callers
      PROVE  /\ pc'[c] \in {"lock", "begin", "get", "count", "commit"} => id'[c] \in Ids
             /\ pc'[c] \in {"get", "count", "commit", "listScan"} =>
                    view'[c] = [assigned |-> assigned', counter |-> counter']
             /\ pc'[c] \in {"count", "commit"} => assigned'[id'[c]] = NoPrefix
             /\ pc'[c] = "commit" => next'[c] = counter' + 1 /\ next'[c] <= MaxPrefix
  <2>1. CASE d = c
    BY <1>3, <2>1, TxnOwn
  <2>2. CASE d # c
    BY <1>3, <2>2, TxnOther DEF IInv, TxnInv, Critical, disk
  <2>3. QED
    BY <2>1, <2>2
<1>4. QED
  BY <1>1, <1>2, <1>3 DEF Next, TxnInv

-----------------------------------------------------------------------------
(* What is on disk, and what callers are told of it.                       *)

LEMMA SequentialNext ==
    ASSUME IInv, [Next]_vars
    PROVE  Sequential'
<1>0. TypeOK /\ Sequential
  BY DEF IInv
<1>1. CASE UNCHANGED disk
  BY <1>0, <1>1 DEF Sequential, disk
<1>2. ASSUME NEW c \in Callers, Record(c)
      PROVE  Sequential'
  <2> DEFINE i0 == id[c]
             p0 == counter + 1
  <2>1. /\ i0 \in Ids /\ assigned[i0] = NoPrefix /\ p0 \in 1 .. MaxPrefix
        /\ counter' = p0 /\ counter \in Nat
        /\ \A i \in Ids : assigned'[i] = IF i = i0 THEN p0 ELSE assigned[i]
    BY <1>0, <1>2, PrefixAssumption DEF TypeOK, Record, Assignments
  <2>2. \A i \in Ids : assigned[i] # p0
    BY <1>0, <2>1 DEF Sequential
  <2>3. \A i, j \in Ids : assigned'[i] = assigned'[j] /\ assigned'[i] # NoPrefix => i = j
    BY <1>0, <2>1, <2>2 DEF Sequential
  <2>4. ASSUME NEW p \in 0 .. MaxPrefix
        PROVE  (p \in 1 .. counter') <=> \E i \in Ids : assigned'[i] = p
    <3>1. CASE p = p0
      BY <2>1, <3>1
    <3>2. CASE p # p0
      <4>1. (p \in 1 .. counter') <=> (p \in 1 .. counter)
        BY <2>1, <3>2
      <4>2. (\E i \in Ids : assigned'[i] = p) <=> (\E i \in Ids : assigned[i] = p)
        BY <2>1, <3>2, PrefixAssumption
      <4>3. QED
        BY <1>0, <4>1, <4>2 DEF Sequential
    <3>3. QED
      BY <3>1, <3>2
  <2>5. QED
    BY <2>3, <2>4 DEF Sequential
<1>3. QED
  BY <1>1, <1>2, DiskStep

LEMMA StableStep ==
    ASSUME IInv, [Next]_vars
    PROVE  \A i \in Ids : assigned[i] # NoPrefix => assigned'[i] = assigned[i]
BY DiskStep DEF IInv, TypeOK, Record, Assignments, disk

LEMMA ResultNext ==
    ASSUME IInv, [Next]_vars
    PROVE  ResultInv'
<1> USE DEF Goto, Set, disk
<1>0. TypeOK /\ TxnInv /\ ResultInv
  BY DEF IInv
<1>1. CASE Restart
  BY <1>1 DEF Restart, ResultInv
<1>2. CASE UNCHANGED vars
  BY <1>0, <1>2 DEF ResultInv, vars
<1>3. ASSUME NEW d \in Callers, Start(d) \/ Lock(d) \/ Progress(d), NEW c \in Callers,
             pc'[c] \in {"unlock", "done"}, out'[c].kind = "prefix"
      PROVE  /\ id'[c] \in Ids /\ assigned'[id'[c]] = out'[c].prefix
             /\ assigned'[id'[c]] # NoPrefix
  <2>1. CASE /\ pc[c] \in {"unlock", "done"}
             /\ id'[c] = id[c] /\ out'[c] = out[c]
    BY <1>0, <1>3, <2>1, StableStep DEF ResultInv, Next
  <2>2. CASE d # c
    <3>1. pc'[c] = pc[c] /\ id'[c] = id[c] /\ out'[c] = out[c]
      BY <1>3, <2>2, TxnOther
    <3>2. QED
      BY <1>3, <2>1, <3>1
  <2>3. CASE d = c /\ Unlock(c)
    BY <2>1, <2>3 DEF Unlock
  <2>4. CASE d = c /\ GetExisting(c)
    <3>1. /\ pc[c] = "get" /\ view[c].assigned = assigned /\ id[c] \in Ids
          /\ assigned[id[c]] # NoPrefix
          /\ UNCHANGED <<id, assigned>>
      BY <1>0, <2>4 DEF GetExisting, TxnInv
    <3>2. out'[c] = Prefix(assigned[id[c]])
      BY <1>0, <2>4, <3>1 DEF GetExisting, TypeOK
    <3>3. QED
      BY <3>1, <3>2, Kinds
  <2>5. CASE d = c /\ Commit(c)
    <3>1. /\ pc[c] = "commit" /\ id[c] \in Ids /\ next[c] = counter + 1
          /\ UNCHANGED id /\ Apply(c)
      BY <1>0, <2>5 DEF Commit, TxnInv
    <3>2. out'[c] = Prefix(counter + 1)
      BY <1>0, <2>5, <3>1 DEF Commit, TypeOK
    <3>3. assigned'[id[c]] = counter + 1
      BY <1>0, <3>1 DEF Apply, TypeOK, Assignments
    <3>4. counter + 1 # NoPrefix
      BY <1>0, PrefixAssumption DEF TypeOK
    <3>5. QED
      BY <3>1, <3>2, <3>3, <3>4, Kinds
  <2>6. CASE /\ d = c
             /\ Exhaust(c) \/ CommitFails(c) \/ StoreFails(c) \/ ListScan(c)
    <3>1. out'[c] \in {Exhausted, Failed} \/ \E s : out'[c] = Listing(s)
      BY <1>0, <2>6 DEF Exhaust, CommitFails, StoreFails, ListScan, TypeOK
    <3>2. QED
      BY <1>3, <3>1, Kinds
  <2>7. CASE d = c /\ \E i \in Ids \cup {EmptyId} : Call(c, i)
    <3>1. out'[c] = Empty \/ pc'[c] = "lock"
      BY <1>0, <2>7 DEF Call, TypeOK
    <3>2. QED
      BY <1>3, <3>1, Kinds
  <2>8. CASE /\ d = c
             /\ \/ List(c) \/ Lock(c) \/ Begin(c) \/ GetMissing(c) \/ Assign(c) \/ Return(c)
    <3>1. pc'[c] \notin {"unlock", "done"}
      BY <1>0, <2>8 DEF List, Lock, Begin, GetMissing, Assign, Return, TypeOK
    <3>2. QED
      BY <1>3, <3>1
  <2>9. QED
    BY <1>3, <2>2, <2>3, <2>4, <2>5, <2>6, <2>7, <2>8 DEF Start, Progress
<1>4. QED
  BY <1>1, <1>2, <1>3 DEF Next, ResultInv

\* A step hands out nothing, or one prefix that is on disk.
LEMMA HandStep ==
    ASSUME IInv, [Next]_vars
    PROVE  \/ UNCHANGED handed
           \/ /\ UNCHANGED disk
              /\ \E i \in Ids : /\ assigned[i] # NoPrefix
                              /\ handed' = handed \cup {<<i, assigned[i]>>}
<1>1. ASSUME NEW c \in Callers, Return(c)
      PROVE  \/ UNCHANGED handed
             \/ /\ UNCHANGED disk
                /\ \E i \in Ids : /\ assigned[i] # NoPrefix
                                /\ handed' = handed \cup {<<i, assigned[i]>>}
  <2>1. CASE out[c].kind = "prefix"
    <3>1. /\ id[c] \in Ids /\ assigned[id[c]] = out[c].prefix
          /\ assigned[id[c]] # NoPrefix
      BY <1>1, <2>1 DEF IInv, ResultInv, Return, Goto
    <3>2. handed' = handed \cup {<<id[c], out[c].prefix>>} /\ UNCHANGED disk
      BY <1>1, <2>1 DEF Return
    <3>3. QED
      BY <3>1, <3>2
  <2>2. CASE out[c].kind # "prefix"
    BY <1>1, <2>2 DEF Return
  <2>3. QED
    BY <2>1, <2>2
<1>2. ASSUME NEW c \in Callers, Start(c) \/ Lock(c) \/ Progress(c), ~Return(c)
      PROVE  UNCHANGED handed
  BY <1>2 DEF Start, List, Call, Lock, Progress, Begin, GetExisting, GetMissing,
              Assign, Exhaust, Commit, CommitFails, StoreFails, ListScan, Unlock
<1>3. Restart \/ UNCHANGED vars => UNCHANGED handed
  BY DEF Restart, vars
<1>4. QED
  BY <1>1, <1>2, <1>3 DEF Next

LEMMA HandedNext ==
    ASSUME IInv, [Next]_vars
    PROVE  HandedIsDurable'
<1>1. Pairs(assigned) \subseteq Pairs(assigned')
  BY StableStep DEF Pairs
<1>2. handed \subseteq Pairs(assigned)
  BY DEF IInv, HandedIsDurable
<1>3. handed' \subseteq Pairs(assigned')
  <2>1. CASE UNCHANGED handed
    BY <1>1, <1>2, <2>1
  <2>2. ASSUME NEW i \in Ids, assigned[i] # NoPrefix,
               handed' = handed \cup {<<i, assigned[i]>>}
        PROVE  handed' \subseteq Pairs(assigned')
    <3>1. <<i, assigned[i]>> \in Pairs(assigned)
      BY <2>2 DEF Pairs
    <3>2. QED
      BY <1>1, <1>2, <2>2, <3>1
  <2>3. QED
    BY <2>1, <2>2, HandStep
<1>4. QED
  BY <1>3 DEF HandedIsDurable

-----------------------------------------------------------------------------
(* What callers are told of an exhausted prefix space, and in listings.    *)

FullInv ==
    \A c \in Callers :
        pc[c] = "unlock" /\ out[c] = Exhausted =>
            id[c] \in Ids /\ assigned[id[c]] = NoPrefix /\ counter = MaxPrefix

\* What was handed out when a listing began is still on disk when it is scanned,
\* and what was scanned is still there when it is returned.
ListingInv ==
    \A c \in Callers :
        /\ known[c] \subseteq Pairs(assigned)
        /\ pc[c] \in {"unlock", "done"} /\ out[c].kind = "listing" =>
               known[c] \subseteq out[c].pairs /\ out[c].pairs \subseteq Pairs(assigned)

LEMMA FullNext ==
    ASSUME IInv, FullInv, [Next]_vars
    PROVE  FullInv'
<1> USE DEF Goto, Set, disk
<1>0. TypeOK /\ TxnInv
  BY DEF IInv
<1>1. CASE Restart
  BY <1>1 DEF Restart, FullInv
<1>2. CASE UNCHANGED vars
  BY <1>2 DEF FullInv, vars
<1>3. ASSUME NEW d \in Callers, Start(d) \/ Lock(d) \/ Progress(d), NEW c \in Callers,
             pc'[c] = "unlock", out'[c] = Exhausted
      PROVE  id'[c] \in Ids /\ assigned'[id'[c]] = NoPrefix /\ counter' = MaxPrefix
  <2>1. CASE d # c
    BY <1>3, <2>1, TxnOther DEF FullInv, Critical
  <2>2. CASE d = c /\ Exhaust(c)
    <3>1. /\ pc[c] = "count" /\ view[c].counter = counter /\ counter + 1 > MaxPrefix
          /\ id[c] \in Ids /\ assigned[id[c]] = NoPrefix
          /\ UNCHANGED <<id, assigned, counter>>
      BY <1>0, <2>2 DEF Exhaust, TxnInv
    <3>2. counter = MaxPrefix
      BY <1>0, <3>1, PrefixAssumption DEF TypeOK
    <3>3. QED
      BY <3>1, <3>2
  <2>3. CASE /\ d = c
             /\ \/ GetExisting(c) \/ Commit(c) \/ CommitFails(c) \/ StoreFails(c)
                \/ ListScan(c)
    <3>1. out'[c] = Failed \/ (\E p : out'[c] = Prefix(p)) \/ \E s : out'[c] = Listing(s)
      BY <1>0, <2>3 DEF GetExisting, Commit, CommitFails, StoreFails, ListScan, TypeOK
    <3>2. QED
      BY <1>3, <3>1, Kinds, OtherKinds
  <2>4. CASE /\ d = c
             /\ \/ Start(c) \/ Lock(c) \/ Begin(c) \/ GetMissing(c) \/ Assign(c)
                \/ Unlock(c) \/ Return(c)
    <3>1. pc'[c] # "unlock"
      BY <1>0, <2>4 DEF Start, List, Call, Lock, Begin, GetMissing, Assign, Unlock,
                        Return, TypeOK
    <3>2. QED
      BY <1>3, <3>1
  <2>5. QED
    BY <1>3, <2>1, <2>2, <2>3, <2>4 DEF Progress
<1>4. QED
  BY <1>1, <1>2, <1>3 DEF Next, FullInv

LEMMA ListingNext ==
    ASSUME IInv, ListingInv, [Next]_vars
    PROVE  ListingInv'
<1> USE DEF Goto, Set
<1>0. TypeOK /\ TxnInv /\ HandedIsDurable
  BY DEF IInv
<1>1. Pairs(assigned) \subseteq Pairs(assigned')
  BY StableStep DEF Pairs
<1>2. CASE Restart
  BY <1>2 DEF Restart, ListingInv
<1>3. CASE UNCHANGED vars
  BY <1>3 DEF ListingInv, vars, Pairs, disk
<1>4. ASSUME NEW d \in Callers, Start(d) \/ Lock(d) \/ Progress(d), NEW c \in Callers
      PROVE  /\ known'[c] \subseteq Pairs(assigned')
             /\ pc'[c] \in {"unlock", "done"} /\ out'[c].kind = "listing" =>
                    /\ known'[c] \subseteq out'[c].pairs
                    /\ out'[c].pairs \subseteq Pairs(assigned')
  <2>1. known'[c] \in {known[c], handed, {}}
    BY <1>0, <1>4 DEF TypeOK, Start, List, Call, Lock, Progress, Begin, GetExisting,
                  GetMissing, Assign, Exhaust, Commit, CommitFails, StoreFails, ListScan,
                  Unlock, Return
  <2>2. known'[c] \subseteq Pairs(assigned')
    BY <1>0, <1>1, <2>1 DEF ListingInv, HandedIsDurable
  <2>3. CASE /\ pc[c] \in {"unlock", "done"}
             /\ out'[c] = out[c] /\ known'[c] = known[c]
    BY <1>1, <2>2, <2>3 DEF ListingInv
  <2>4. CASE d # c
    <3>1. pc'[c] = pc[c] /\ out'[c] = out[c]
      BY <1>4, <2>4, TxnOther
    <3>2. known'[c] = known[c]
      BY <1>0, <1>4, <2>4
         DEF TypeOK, Start, List, Call, Lock, Progress, Begin, GetExisting,
             GetMissing, Assign, Exhaust, Commit, CommitFails, StoreFails, ListScan,
             Unlock, Return
    <3>3. QED
      BY <2>2, <2>3, <3>1, <3>2
  <2>5. CASE d = c /\ ListScan(c)
    <3>1. /\ pc[c] = "listScan" /\ view[c].assigned = assigned
          /\ UNCHANGED <<assigned, known>>
      BY <1>0, <2>5 DEF ListScan, TxnInv, disk
    <3>2. out'[c] = Listing(Pairs(assigned))
      BY <1>0, <2>5, <3>1 DEF ListScan, TypeOK
    <3>3. out'[c].pairs = Pairs(assigned) /\ Pairs(assigned') = Pairs(assigned)
      BY <3>1, <3>2 DEF Listing, Pairs
    <3>4. QED
      BY <2>2, <3>1, <3>3 DEF ListingInv
  <2>6. CASE d = c /\ Unlock(c)
    <3>1. pc[c] = "unlock" /\ out' = out /\ known' = known
      BY <2>6 DEF Unlock
    <3>2. QED
      BY <2>3, <3>1
  <2>7. CASE /\ d = c
             /\ \/ GetExisting(c) \/ Commit(c) \/ Exhaust(c) \/ CommitFails(c)
                \/ StoreFails(c) \/ \E i \in Ids \cup {EmptyId} : Call(c, i)
    <3>1. \/ out'[c] \in {Failed, Exhausted, Empty} \/ \E p : out'[c] = Prefix(p)
          \/ pc'[c] = "lock"
      BY <1>0, <2>7 DEF GetExisting, Commit, Exhaust, CommitFails, StoreFails, Call,
                        TypeOK
    <3>2. QED
      BY <2>2, <3>1, Kinds, OtherKinds
  <2>8. CASE /\ d = c
             /\ \/ List(c) \/ Lock(c) \/ Begin(c) \/ GetMissing(c) \/ Assign(c)
                \/ Return(c)
    <3>1. pc'[c] \notin {"unlock", "done"}
      BY <1>0, <2>8 DEF List, Lock, Begin, GetMissing, Assign, Return, TypeOK
    <3>2. QED
      BY <2>2, <3>1
  <2>9. QED
    BY <1>4, <2>4, <2>5, <2>6, <2>7, <2>8 DEF Start, Progress
<1>5. QED
  BY <1>2, <1>3, <1>4 DEF Next, ListingInv

-----------------------------------------------------------------------------
(* The theorems.                                                           *)

LEMMA Inductive ==
    /\ Init => IInv
    /\ IInv /\ [Next]_vars => IInv'
<1>1. ASSUME Init PROVE IInv
  <2>1. MutexInv /\ TxnInv /\ ResultInv
    BY <1>1, NoCallerAssumption DEF Init, Fresh, MutexInv, TxnInv, ResultInv, Critical
  <2>2. Sequential
    BY <1>1, PrefixAssumption DEF Init, Sequential
  <2>3. HandedIsDurable
    BY <1>1 DEF Init, HandedIsDurable
  <2>4. QED
    BY <1>1, <2>1, <2>2, <2>3, TypeInit DEF IInv
<1>2. ASSUME IInv, [Next]_vars PROVE IInv'
  BY <1>2, TypeNext, MutexNext, TxnNext, SequentialNext, ResultNext, HandedNext DEF IInv
<1>3. QED
  BY <1>1, <1>2

LEMMA Invariant == Spec => []IInv
BY Inductive, PTL DEF Spec

\* Every variable keeps its type.
THEOREM TypeCorrect == Spec => []TypeOK
<1>1. IInv => TypeOK
  BY DEF IInv
<1>2. QED
  BY <1>1, Invariant, PTL

\* The prefixes on disk are 1 up to the counter, one for each replica that has
\* one, however many callers raced, whatever failed and wherever the process
\* stopped: the counter and the assignments never drift apart.
THEOREM PrefixesAreSequential == Spec => []Sequential
<1>1. IInv => Sequential
  BY DEF IInv
<1>2. QED
  BY <1>1, Invariant, PTL

\* A prefix that any caller was ever given is on disk under its id: it survives
\* a restart.
THEOREM HandedPrefixesAreDurable == Spec => []HandedIsDurable
<1>1. IInv => HandedIsDurable
  BY DEF IInv
<1>2. QED
  BY <1>1, Invariant, PTL

\* An assignment is never changed or removed.
THEOREM AssignmentsAreStable == Spec => AssignmentIsStable
<1>1. IInv /\ [Next]_vars =>
          [\A i \in Ids : assigned[i] # NoPrefix => assigned'[i] = assigned[i]]_vars
  BY StableStep
<1>2. QED
  BY <1>1, Invariant, PTL DEF Spec, AssignmentIsStable

\* Two callers that were given prefixes asked for the same id exactly when their
\* prefixes are the same.
THEOREM HandedPrefixesAreOneToOne == Spec => []HandedOneToOne
<1>1. IInv => HandedOneToOne
  BY DEF IInv, HandedIsDurable, Sequential, Pairs, HandedOneToOne, Promise!HandedOneToOne
<1>2. QED
  BY <1>1, Invariant, PTL

\* The registry implements PrefixAssignment: a commit is the assignment of a
\* prefix nobody has, a return hands out an assigned prefix, and every other
\* step, a restart included, is invisible there.
THEOREM RegistryKeepsPromise == Spec => KeepsPromise
<1>1. Init => Promise!Init
  BY DEF Init, Promise!Init
<1>2. ASSUME IInv, [Next]_vars
      PROVE  [Promise!Next]_<<assigned, handed>>
  <2>1. CASE UNCHANGED disk /\ UNCHANGED handed
    BY <2>1 DEF disk
  <2>2. ASSUME UNCHANGED disk, NEW i \in Ids, assigned[i] # NoPrefix,
               handed' = handed \cup {<<i, assigned[i]>>}
        PROVE  Promise!Next
    BY <2>2 DEF disk, Promise!Next, Promise!Hand
  <2>3. ASSUME NEW c \in Callers, Record(c), pc' = [pc EXCEPT ![c] = "unlock"]
        PROVE  Promise!Next
    <3>1. /\ id[c] \in Ids /\ assigned[id[c]] = NoPrefix
          /\ assigned' = [assigned EXCEPT ![id[c]] = counter + 1]
          /\ counter + 1 \in 1 .. MaxPrefix
      BY <1>2, <2>3, PrefixAssumption DEF Record, IInv, TypeOK
    <3>2. \A j \in Ids : assigned[j] # counter + 1
      BY <1>2, <3>1 DEF IInv, Sequential, TypeOK
    <3>3. UNCHANGED handed
      <4>1. counter' # counter
        BY <1>2, <2>3 DEF Record, IInv, TypeOK
      <4>2. QED
        BY <1>2, <4>1, HandStep DEF disk
    <3>4. Promise!Assign(id[c], counter + 1)
      BY <3>1, <3>2, <3>3 DEF Promise!Assign
    <3>5. QED
      BY <3>1, <3>4 DEF Promise!Next, Promise!Prefixes
  <2>4. QED
    BY <1>2, <2>1, <2>2, <2>3, DiskStep, HandStep
<1>3. QED
  BY <1>1, <1>2, Invariant, PTL DEF Spec, KeepsPromise, Promise!Spec
\* A caller is told that the prefix space is exhausted only when its id has no
\* prefix and the last one has been assigned.
THEOREM ExhaustedIsFull == Spec => []ExhaustedMeansFull
<1>1. Init => FullInv
  BY DEF Init, Fresh, FullInv
<1>2. FullInv => ExhaustedMeansFull
  BY DEF FullInv, ExhaustedMeansFull
<1>3. QED
  BY <1>1, <1>2, FullNext, Invariant, PTL DEF Spec

\* A listing holds all that was handed out before it was asked for, and nothing
\* that is not on disk, though it takes the mutex like any call that assigns.
THEOREM ListingsAreComplete == Spec => []ListingIsComplete
<1>1. Init => ListingInv
  BY DEF Init, Fresh, ListingInv, None
<1>2. ListingInv => ListingIsComplete
  BY DEF ListingInv, ListingIsComplete
<1>3. QED
  BY <1>1, <1>2, ListingNext, Invariant, PTL DEF Spec
=============================================================================
