---------------------------- MODULE CacheProofs ----------------------------
(***************************************************************************)
(* Proofs about Cache, for every set of keys, callers and errors and every *)
(* choice of ttls.                                                         *)
(***************************************************************************)
EXTENDS Cache, TLAPS

LEMMA AnyKeyIsKey == AnyKey \in Keys
BY KeysAssumption DEF AnyKey

\* An expiry computed from the clock is 0 or later than the clock.
LEMMA ExpiryType ==
    ASSUME clock \in Nat, NEW ttl \in Int
    PROVE  Expiry(ttl) \in Nat
BY DEF Expiry

LEMMA PositiveType ==
    ASSUME clock \in Nat, NEW k \in Keys, NEW by \in {"load", "set"},
           NEW nil \in Nils, NEW ttl \in Int
    PROVE  /\ [key |-> k, by |-> by, nil |-> nil] \in Value
           /\ Positive([key |-> k, by |-> by, nil |-> nil], ttl) \in Item
BY ExpiryType DEF Positive, Item, Value

LEMMA NegativeType ==
    ASSUME clock \in Nat, NEW e \in Errors
    PROVE  Negative(e) \in Item
BY ExpiryType, TTLAssumption DEF Negative, Item

Sweep == [at : {"idle", "range", "delete", "exited"}, now : Nat,
          todo : SUBSET Keys, keys : SUBSET Keys, item : Item \cup {NoItem}]

LEMMA MissType == Miss \in Result
BY DEF Miss, Result

LEMMA TypeInit == Init => TypeOK
<1> SUFFICES ASSUME Init PROVE TypeOK
  OBVIOUS
<1>1. clock \in Nat /\ closed \in BOOLEAN
  BY DEF Init
<1>2. /\ items \in [Keys -> Item \cup {NoItem}]
      /\ group \in [Flights -> Callers \cup {NoCaller}]
  BY DEF Init
<1>3. /\ pc \in [Callers -> PC]
      /\ op \in [Callers -> Op]
      /\ key \in [Callers -> Keys]
      /\ item \in [Callers -> Item \cup {NoItem}]
      /\ out \in [Callers -> Result]
  BY AnyKeyIsKey, MissType DEF Init, PC, Op
<1>4. sweep \in Sweep
  BY DEF Init, IdleSweep, Sweep
<1>5. QED
  BY <1>1, <1>2, <1>3, <1>4 DEF TypeOK, Sweep

LEMMA TypeStart ==
    ASSUME TypeOK, NEW c \in Callers, Start(c)
    PROVE  TypeOK'
<1>1. PICK k \in Keys :
        \/ Call(c, "Get", k)
        \/ Call(c, "GetOrLoad", k)
        \/ \E ttl \in SetTTLs \cup {TTL}, nil \in Nils : SetStart(c, k, ttl, nil)
  BY DEF Start
<1>2. ASSUME NEW m \in {"Get", "GetOrLoad"}, Call(c, m, k)
      PROVE  TypeOK'
  BY <1>2 DEF TypeOK, Call, Goto, PC, Op, shared, sweeper
<1>3. ASSUME NEW ttl \in SetTTLs \cup {TTL}, NEW nil \in Nils, SetStart(c, k, ttl, nil)
      PROVE  TypeOK'
  <2>1. Positive([key |-> k, by |-> "set", nil |-> nil], ttl) \in Item
    BY PositiveType, TTLAssumption DEF TypeOK
  <2>2. QED
    BY <1>3, <2>1 DEF TypeOK, SetStart, Goto, PC, Op, shared, sweeper
<1>4. QED
  BY <1>1, <1>2, <1>3

LEMMA TypeProgress ==
    ASSUME TypeOK, NEW c \in Callers, Progress(c)
    PROVE  TypeOK'
<1> USE DEF Goto, Drop, PC, Op, shared, sweeper
<1>a. \A it \in Item : Found(it) \in Result
  BY DEF Found, Item, Result
<1>1. CASE GetJudge(c)
  BY <1>1, <1>a, MissType DEF TypeOK, GetJudge, Live
<1>2. CASE GetOrLoadJudge(c)
  BY <1>2, <1>a DEF TypeOK, GetOrLoadJudge, Live
<1>3. CASE Do(c)
  BY <1>3 DEF TypeOK, Do, Flight
<1>4. CASE Reread(c)
  BY <1>4 DEF TypeOK, Reread
<1>5. CASE Rejudge(c)
  BY <1>5, <1>a DEF TypeOK, Rejudge, Live
<1>6. ASSUME NEW nil \in Nils, LoadValue(c, nil)
      PROVE  TypeOK'
  <2> DEFINE v == [key |-> key[c], by |-> "load", nil |-> nil]
  <2>1. v \in Value /\ Positive(v, TTL) \in Item
    BY PositiveType, TTLAssumption DEF TypeOK
  <2>2. [data |-> v, err |-> NoErr] \in Result
    BY <2>1 DEF Result
  <2> HIDE DEF v
  <2>3. /\ item' = [item EXCEPT ![c] = Positive(v, TTL)]
        /\ out' = [out EXCEPT ![c] = [data |-> v, err |-> NoErr]]
    BY <1>6 DEF LoadValue, v
  <2>4. QED
    BY <1>6, <2>1, <2>2, <2>3 DEF TypeOK, LoadValue
<1>7. ASSUME NEW e \in Errors, LoadError(c, e)
      PROVE  TypeOK'
  <2> DEFINE o == [data |-> [key |-> key[c], by |-> "load", nil |-> FALSE], err |-> e]
  <2>1. o \in Result
    BY PositiveType, TTLAssumption, NilsAssumption DEF TypeOK, Result
  <2>2. Negative(e) \in Item
    BY NegativeType DEF TypeOK
  <2> HIDE DEF o
  <2>3. out' = [out EXCEPT ![c] = o]
    BY <1>7 DEF LoadError, o
  <2>4. out' \in [Callers -> Result] /\ pc' \in [Callers -> PC]
    <3>1. out' \in [Callers -> Result]
      BY <2>1, <2>3 DEF TypeOK
    <3>2. pc' = [pc EXCEPT ![c] = "keep"] \/ pc' = [pc EXCEPT ![c] = "finish"]
      BY <1>7 DEF LoadError
    <3>3. QED
      BY <3>1, <3>2 DEF TypeOK
  <2>5. item' \in [Callers -> Item \cup {NoItem}]
    <3>1. item' = item \/ item' = [item EXCEPT ![c] = Negative(e)]
      BY <1>7 DEF LoadError
    <3>2. QED
      BY <2>2, <3>1 DEF TypeOK
  <2>6. UNCHANGED <<clock, items, group, op, key, closed, sweep>>
    BY <1>7 DEF LoadError
  <2>7. QED
    BY <2>4, <2>5, <2>6 DEF TypeOK
<1>8. CASE Keep(c)
  BY <1>8 DEF TypeOK, Keep
<1>9. CASE Finish(c)
  BY <1>9 DEF TypeOK, Finish, Flight
<1>10. CASE Unwrap(c)
  <2> DEFINE o == [out[c] EXCEPT !.data = Zero]
  <2>1. o \in Result
    BY DEF TypeOK, Result
  <2> HIDE DEF o
  <2>2. out' = [out EXCEPT ![c] = o] \/ UNCHANGED out
    BY <1>10 DEF Unwrap, o
  <2>3. out' \in [Callers -> Result]
    BY <2>1, <2>2 DEF TypeOK
  <2>4. pc' \in [Callers -> PC]
    BY <1>10 DEF TypeOK, Unwrap
  <2>5. UNCHANGED <<clock, items, group, op, key, item, closed, sweep>>
    BY <1>10 DEF Unwrap
  <2>6. QED
    BY <2>3, <2>4, <2>5 DEF TypeOK
<1>11. CASE SetStore(c)
  BY <1>11 DEF TypeOK, SetStore
<1>12. CASE Return(c)
  BY <1>12, MissType, AnyKeyIsKey DEF TypeOK, Return
<1>13. QED
  BY <1>1, <1>2, <1>3, <1>4, <1>5, <1>6, <1>7, <1>8, <1>9, <1>10, <1>11, <1>12
     DEF Progress

LEMMA TypeRest ==
    ASSUME TypeOK,
           \/ \E k \in Keys : Delete(k)
           \/ SweeperStep \/ SweepExit \/ Close \/ Tick \/ UNCHANGED vars
    PROVE  TypeOK'
<1> USE DEF shared, local, sweeper
<1>1. ASSUME NEW k \in Keys, Delete(k) PROVE TypeOK'
  BY <1>1 DEF TypeOK, Delete
<1>2. ASSUME NEW late \in SUBSET Keys, SweepTick(late) PROVE TypeOK'
  BY <1>2 DEF TypeOK, SweepTick
<1>3. ASSUME NEW k \in Keys, SweepVisit(k) PROVE TypeOK'
  <2>1. sweep \in Sweep /\ items[k] \in Item \cup {NoItem}
    BY DEF TypeOK, Sweep
  <2>2. \/ sweep' = [sweep EXCEPT !.todo = sweep.todo \ {k}]
        \/ sweep' = [sweep EXCEPT !.at = "delete", !.todo = sweep.todo \ {k},
                                  !.keys = {k}, !.item = items[k]]
    BY <1>3 DEF SweepVisit, Reach
  <2>3. sweep.todo \ {k} \in SUBSET Keys /\ {k} \in SUBSET Keys
    BY <2>1 DEF Sweep
  <2>4. sweep' \in Sweep
    <3>1. CASE sweep' = [sweep EXCEPT !.todo = sweep.todo \ {k}]
      BY <2>1, <2>3, <3>1 DEF Sweep
    <3>2. CASE sweep' = [sweep EXCEPT !.at = "delete", !.todo = sweep.todo \ {k},
                                     !.keys = {k}, !.item = items[k]]
      BY <2>1, <2>3, <3>2 DEF Sweep
    <3>3. QED
      BY <2>2, <3>1, <3>2
  <2>5. QED
    BY <1>3, <2>4 DEF TypeOK, SweepVisit, Reach, Sweep
<1>4. CASE SweepDelete
  BY <1>4 DEF TypeOK, SweepDelete
<1>5. CASE SweepDone
  BY <1>5 DEF TypeOK, SweepDone, IdleSweep
<1>6. CASE SweepExit
  BY <1>6 DEF TypeOK, SweepExit, IdleSweep
<1>7. CASE Close
  BY <1>7 DEF TypeOK, Close
<1>8. CASE Tick
  BY <1>8, TimeAssumption DEF TypeOK, Tick
<1>9. CASE UNCHANGED vars
  BY <1>9 DEF TypeOK, vars
<1>10. QED
  BY <1>1, <1>2, <1>3, <1>4, <1>5, <1>6, <1>7, <1>8, <1>9 DEF SweeperStep

LEMMA TypeNext == TypeOK /\ [Next]_vars => TypeOK'
BY TypeStart, TypeProgress, TypeRest DEF Next

\* Every variable keeps its type: an entry is absent or complete, a flight is
\* led by one caller or nobody, a result is a value or an error.
THEOREM TypeCorrect == Spec => []TypeOK
BY TypeInit, TypeNext, PTL DEF Spec

-----------------------------------------------------------------------------
(* One leader for each flight.                                             *)

FlightInv == FlightLedByOne /\ NoStrandedWaiter

\* A step of c that neither enters nor leaves a flight keeps the pairing of
\* flights and leaders.
LEMMA FlightKept ==
    ASSUME TypeOK, FlightInv, NEW c \in Callers, NEW where \in PC,
           pc' = [pc EXCEPT ![c] = where],
           pc[c] \in Leading <=> where \in Leading,
           where # "wait",
           UNCHANGED group,
           \A d \in Callers : pc[d] # "idle" /\ pc'[d] # "idle" => key'[d] = key[d]
    PROVE  FlightInv'
<1>1. \A d \in Callers : pc'[d] \in Leading \cup {"wait"} => Flight(d)' = Flight(d)
  BY DEF TypeOK, Leading, Flight
<1>2. \A d \in Callers : d # c => pc'[d] = pc[d]
  BY DEF TypeOK
<1>3. pc'[c] = where
  BY DEF TypeOK
<1>4. FlightLedByOne'
  BY <1>1, <1>2, <1>3 DEF FlightInv, FlightLedByOne, Leading
<1>5. NoStrandedWaiter'
  BY <1>1, <1>2, <1>3 DEF FlightInv, NoStrandedWaiter
<1>6. QED
  BY <1>4, <1>5 DEF FlightInv

LEMMA FlightStart ==
    ASSUME TypeOK, FlightInv, NEW c \in Callers, Start(c)
    PROVE  FlightInv'
<1>1. PICK where \in {"judge", "put"} : pc' = [pc EXCEPT ![c] = where]
  BY DEF Start, Call, SetStart, Goto
<1>2. /\ pc[c] = "idle" /\ UNCHANGED group
      /\ \A d \in Callers : d # c => key'[d] = key[d]
  BY DEF Start, Call, SetStart, shared, TypeOK
<1>3. QED
  BY <1>1, <1>2, FlightKept DEF PC, Leading

LEMMA FlightDo ==
    ASSUME TypeOK, FlightInv, NEW c \in Callers, Do(c)
    PROVE  FlightInv'
<1>0. /\ pc[c] = "do" /\ UNCHANGED key /\ Flight(c) \in Flights
      /\ \A d \in Callers : Flight(d)' = Flight(d)
  BY KeysAssumption DEF Do, TypeOK, Flight
<1>1. CASE group[Flight(c)] = NoCaller
  <2>1. /\ group' = [group EXCEPT ![Flight(c)] = c]
        /\ pc' = [pc EXCEPT ![c] = "reread"]
    BY <1>1 DEF Do, Goto
  <2>2. FlightLedByOne'
    BY <1>0, <1>1, <2>1, NoCallerAssumption
       DEF FlightInv, FlightLedByOne, Leading, TypeOK
  <2>3. NoStrandedWaiter'
    BY <1>0, <1>1, <2>1, NoCallerAssumption DEF FlightInv, NoStrandedWaiter, TypeOK
  <2>4. QED
    BY <2>2, <2>3 DEF FlightInv
<1>2. CASE group[Flight(c)] # NoCaller
  <2>1. UNCHANGED group /\ pc' = [pc EXCEPT ![c] = "wait"]
    BY <1>2 DEF Do, Goto
  <2>2. FlightLedByOne'
    BY <1>0, <2>1 DEF FlightInv, FlightLedByOne, Leading, TypeOK
  <2>3. NoStrandedWaiter'
    BY <1>0, <1>2, <2>1 DEF FlightInv, NoStrandedWaiter, TypeOK
  <2>4. QED
    BY <2>2, <2>3 DEF FlightInv
<1>3. QED
  BY <1>1, <1>2

LEMMA FlightFinish ==
    ASSUME TypeOK, FlightInv, NEW c \in Callers, Finish(c)
    PROVE  FlightInv'
<1>1. /\ pc[c] = "finish" /\ UNCHANGED key /\ Flight(c) \in Flights
      /\ \A d \in Callers : Flight(d)' = Flight(d)
  BY KeysAssumption DEF Finish, TypeOK, Flight
<1>2. /\ group[Flight(c)] = c
      /\ group' = [group EXCEPT ![Flight(c)] = NoCaller]
  BY <1>1 DEF Finish, FlightInv, FlightLedByOne, Leading
<1>3. \A d \in Callers :
        pc'[d] = IF d = c \/ (pc[d] = "wait" /\ Flight(d) = Flight(c))
                 THEN "unwrap" ELSE pc[d]
  BY DEF Finish, WaitersOf
<1>4. FlightLedByOne'
  BY <1>1, <1>2, <1>3, NoCallerAssumption DEF FlightInv, FlightLedByOne, Leading, TypeOK
<1>5. NoStrandedWaiter'
  BY <1>1, <1>2, <1>3 DEF FlightInv, NoStrandedWaiter, TypeOK
<1>6. QED
  BY <1>4, <1>5 DEF FlightInv

LEMMA FlightNext ==
    ASSUME TypeOK, FlightInv, [Next]_vars
    PROVE  FlightInv'
<1> USE DEF shared, local, sweeper
<1>1. ASSUME NEW c \in Callers, Progress(c), ~Do(c), ~Finish(c)
      PROVE  FlightInv'
  <2>1. PICK where \in PC :
          /\ pc' = [pc EXCEPT ![c] = where]
          /\ pc[c] \in Leading <=> where \in Leading
          /\ where # "wait"
    BY <1>1 DEF Progress, GetJudge, GetOrLoadJudge, Reread, Rejudge, LoadValue,
                LoadError, Keep, Unwrap, SetStore, Return, Goto, PC, Leading
  <2>2. UNCHANGED group
    BY <1>1 DEF Progress, GetJudge, GetOrLoadJudge, Reread, Rejudge, LoadValue,
                LoadError, Keep, Unwrap, SetStore, Return
  <2>3. UNCHANGED key \/ Return(c)
    BY <1>1 DEF Progress, GetJudge, GetOrLoadJudge, Reread, Rejudge, LoadValue,
                LoadError, Keep, Unwrap, SetStore
  <2>4. \A d \in Callers : pc[d] # "idle" /\ pc'[d] # "idle" => key'[d] = key[d]
    BY <2>3 DEF Return, Goto, TypeOK
  <2>5. QED
    BY <2>1, <2>2, <2>4, FlightKept
<1>2. CASE UNCHANGED <<pc, key, group>>
  BY <1>2 DEF FlightInv, FlightLedByOne, NoStrandedWaiter, Flight
<1>3. ASSUME NEW c \in Callers, Start(c) \/ Progress(c)
      PROVE  FlightInv'
  BY <1>1, <1>3, FlightStart, FlightDo, FlightFinish
<1>4. ASSUME \/ \E k \in Keys : Delete(k)
             \/ SweeperStep \/ SweepExit \/ Close \/ Tick \/ UNCHANGED vars
      PROVE  UNCHANGED <<pc, key, group>>
  BY <1>4 DEF Delete, SweeperStep, SweepTick, SweepVisit, Reach, SweepDelete,
              SweepDone, SweepExit, Close, Tick, vars
<1>5. QED
  BY <1>2, <1>3, <1>4 DEF Next

LEMMA FlightInit == Init => FlightInv
BY AnyKeyIsKey, NoCallerAssumption
   DEF Init, FlightInv, FlightLedByOne, NoStrandedWaiter, Leading

\* Calls are deduplicated: however many callers miss at once, the function of
\* group.Do runs for one of them at a time for each flight.
THEOREM OneLeader == Spec => []FlightLedByOne
<1>1. FlightInv => FlightLedByOne
  BY DEF FlightInv
<1>2. QED
  BY <1>1, FlightInit, FlightNext, TypeCorrect, PTL DEF Spec

\* No wakeup is lost: whoever waits, waits for a flight that has a leader.
THEOREM WaitersHaveLeader == Spec => []NoStrandedWaiter
<1>1. FlightInv => NoStrandedWaiter
  BY DEF FlightInv
<1>2. QED
  BY <1>1, FlightInit, FlightNext, TypeCorrect, PTL DEF Spec

-----------------------------------------------------------------------------
(* No redundant load.                                                      *)

\* What the second look inside a flight knows until the load returns: the only
\* stores that can come in between are those of Set, since whoever stores by
\* load for the key leads the same flight.
LoadInv ==
    \A c \in Callers :
        /\ pc[c] = "put" => ~StoredByLoad(item[c])
        /\ pc[c] = "rejudge" /\ StoredByLoad(items[key[c]]) =>
               items[key[c]] = item[c]
        /\ pc[c] = "load" /\ StoredByLoad(items[key[c]]) =>
               ExpiredAt(items[key[c]], clock)

LEMMA NoItemNotLoaded == ~StoredByLoad(NoItem)
BY DEF StoredByLoad

\* A step changes an entry to one that a load stored only as Keep.
LEMMA ItemsStep ==
    ASSUME TypeOK, LoadInv, [Next]_vars, NEW k \in Keys
    PROVE  \/ items'[k] = items[k]
           \/ ~StoredByLoad(items'[k])
           \/ \E d \in Callers : Keep(d) /\ pc[d] = "keep" /\ key[d] = k
<1> USE DEF shared, local, sweeper
<1>1. ASSUME NEW c \in Callers, Progress(c), ~Keep(c), ~SetStore(c)
      PROVE  UNCHANGED items
  BY <1>1 DEF Progress, GetJudge, GetOrLoadJudge, Do, Reread, Rejudge, LoadValue,
              LoadError, Finish, Unwrap, Return
<1>2. ASSUME NEW c \in Callers, Start(c) PROVE UNCHANGED items
  BY <1>2 DEF Start, Call, SetStart
<1>3. ASSUME NEW c \in Callers, SetStore(c)
      PROVE  items'[k] = items[k] \/ ~StoredByLoad(items'[k])
  BY <1>3 DEF SetStore, LoadInv, TypeOK
<1>4. ASSUME NEW c \in Callers, Keep(c), key[c] # k PROVE items'[k] = items[k]
  BY <1>4 DEF Keep, TypeOK
<1>5. ASSUME NEW c \in Callers, Keep(c) PROVE pc[c] = "keep"
  BY <1>5 DEF Keep
<1>6. ASSUME NEW j \in Keys, Delete(j)
      PROVE  items'[k] = items[k] \/ ~StoredByLoad(items'[k])
  BY <1>6, NoItemNotLoaded DEF Delete, TypeOK
<1>7. CASE SweepDelete
  BY <1>7, NoItemNotLoaded DEF SweepDelete, TypeOK
<1>8. CASE \/ \E late \in SUBSET Keys : SweepTick(late)
           \/ \E j \in Keys : SweepVisit(j)
           \/ SweepDone \/ SweepExit \/ Close \/ Tick \/ UNCHANGED vars
  BY <1>8 DEF SweepTick, SweepVisit, Reach, SweepDone, SweepExit, Close, Tick, vars
<1>9. QED
  BY <1>1, <1>2, <1>3, <1>4, <1>5, <1>6, <1>7, <1>8 DEF Next, SweeperStep

\* How a caller comes to be where LoadInv speaks of it, or stays there.
LEMMA CallerStep ==
    ASSUME TypeOK, [Next]_vars, NEW c \in Callers,
           pc'[c] \in {"put", "rejudge", "load"}
    PROVE  \/ pc'[c] = pc[c] /\ key'[c] = key[c] /\ item'[c] = item[c]
           \/ pc'[c] = "put" /\ ~StoredByLoad(item'[c])
           \/ pc'[c] = "rejudge" /\ Reread(c)
           \/ pc'[c] = "load" /\ Rejudge(c)
<1> USE DEF shared, local, sweeper
<1>1. ASSUME Start(c) PROVE pc'[c] = "put" /\ ~StoredByLoad(item'[c])
  <2>1. PICK k \in Keys, ttl \in SetTTLs \cup {TTL}, nil \in Nils : SetStart(c, k, ttl, nil)
    BY <1>1 DEF Start, Call, Goto, TypeOK
  <2>2. pc'[c] = "put"
    BY <2>1 DEF SetStart, Goto, TypeOK
  <2>3. item'[c] = Positive([key |-> k, by |-> "set", nil |-> nil], ttl)
    BY <2>1 DEF SetStart, TypeOK
  <2>4. QED
    BY <2>2, <2>3 DEF Positive, StoredByLoad
<1>2. ASSUME Progress(c) PROVE Reread(c) \/ Rejudge(c)
  BY <1>2 DEF Progress, GetJudge, GetOrLoadJudge, Do, Reread, Rejudge, LoadValue,
              LoadError, Keep, Finish, Unwrap, SetStore, Return, Goto, TypeOK
<1>3. Reread(c) => pc'[c] = "rejudge"
  BY DEF Reread, Goto, TypeOK
<1>4. Rejudge(c) => pc'[c] = "load"
  BY DEF Rejudge, Goto, TypeOK
<1>5. ASSUME NEW d \in Callers, d # c, Start(d) \/ Progress(d)
      PROVE  pc'[c] = pc[c] /\ key'[c] = key[c] /\ item'[c] = item[c]
  <2>1. ASSUME Finish(d)
        PROVE  pc'[c] = pc[c] /\ key'[c] = key[c] /\ item'[c] = item[c]
    BY <1>5, <2>1 DEF Finish, TypeOK
  <2>2. ASSUME ~Finish(d)
        PROVE  pc'[c] = pc[c] /\ key'[c] = key[c] /\ item'[c] = item[c]
    BY <1>5, <2>2 DEF Start, Call, SetStart, Progress, GetJudge, GetOrLoadJudge, Do,
              Reread, Rejudge, LoadValue, LoadError, Keep, Unwrap, SetStore,
              Return, Goto, Drop, TypeOK
  <2>3. QED
    BY <2>1, <2>2
<1>6. ASSUME \/ \E k \in Keys : Delete(k)
             \/ SweeperStep \/ SweepExit \/ Close \/ Tick \/ UNCHANGED vars
      PROVE  UNCHANGED <<pc, key, item>>
  BY <1>6 DEF Delete, SweeperStep, SweepTick, SweepVisit, Reach, SweepDelete,
              SweepDone, SweepExit, Close, Tick, vars
<1>7. QED
  BY <1>1, <1>2, <1>3, <1>4, <1>5, <1>6 DEF Next

LEMMA ClockStep ==
    ASSUME TypeOK, [Next]_vars
    PROVE  clock' \in Nat /\ clock' >= clock
<1> USE DEF shared, local, sweeper
<1>1. CASE Tick
  BY <1>1 DEF Tick, TypeOK
<1>2. ASSUME NEW c \in Callers, Start(c) \/ Progress(c) PROVE UNCHANGED clock
  BY <1>2 DEF Start, Call, SetStart, Progress, GetJudge, GetOrLoadJudge, Do, Reread,
              Rejudge, LoadValue, LoadError, Keep, Finish, Unwrap, SetStore, Return
<1>3. ASSUME \/ \E k \in Keys : Delete(k)
             \/ SweeperStep \/ SweepExit \/ Close \/ UNCHANGED vars
      PROVE  UNCHANGED clock
  BY <1>3 DEF Delete, SweeperStep, SweepTick, SweepVisit, Reach, SweepDelete,
              SweepDone, SweepExit, Close, vars
<1>4. CASE UNCHANGED clock
  BY <1>4 DEF TypeOK
<1>5. QED
  BY <1>1, <1>2, <1>3, <1>4 DEF Next

\* Time only makes an entry older.
LEMMA ExpiredStays ==
    ASSUME NEW it \in Item \cup {NoItem}, NEW now \in Nat, NEW later \in Nat,
           later >= now, ExpiredAt(it, now)
    PROVE  ExpiredAt(it, later)
BY SentinelAssumption DEF ExpiredAt, Item

LEMMA LoadNext ==
    ASSUME TypeOK, FlightInv, LoadInv, [Next]_vars
    PROVE  LoadInv'
<1> SUFFICES ASSUME NEW c \in Callers, pc'[c] \in {"put", "rejudge", "load"}
             PROVE  /\ pc'[c] = "put" => ~StoredByLoad(item'[c])
                    /\ pc'[c] = "rejudge" /\ StoredByLoad(items'[key'[c]]) =>
                           items'[key'[c]] = item'[c]
                    /\ pc'[c] = "load" /\ StoredByLoad(items'[key'[c]]) =>
                           ExpiredAt(items'[key'[c]], clock')
  BY DEF LoadInv
<1>1. CASE pc'[c] = "put" /\ ~StoredByLoad(item'[c])
  BY <1>1
<1>2. CASE pc'[c] = "rejudge" /\ Reread(c)
  BY <1>2 DEF Reread, TypeOK, shared
<1>3. CASE pc'[c] = "load" /\ Rejudge(c)
  <2>1. pc[c] = "rejudge" /\ ~Live(item[c]) /\ UNCHANGED <<clock, items, key>>
    BY <1>3 DEF Rejudge, Goto, TypeOK, shared
  <2>2. item[c] = NoItem \/ ExpiredAt(item[c], clock)
    BY <2>1 DEF Live
  <2>3. StoredByLoad(items[key[c]]) => ExpiredAt(items[key[c]], clock)
    BY <2>1, <2>2, NoItemNotLoaded DEF LoadInv
  <2>4. QED
    BY <1>3, <2>1, <2>3
<1>4. CASE pc'[c] = pc[c] /\ key'[c] = key[c] /\ item'[c] = item[c]
  <2> DEFINE k == key[c]
  <2>1. k \in Keys /\ items[k] \in Item \cup {NoItem} /\ clock \in Nat
    BY DEF TypeOK
  <2>2. ASSUME pc[c] # "put", NEW d \in Callers, pc[d] = "keep", key[d] = k
        PROVE  FALSE
    <3>1. pc[c] \in Leading /\ pc[d] \in Leading /\ Flight(c) = Flight(d)
      BY <1>4, <2>2 DEF Leading, Flight
    <3>2. Flight(c) \in Flights
      BY KeysAssumption DEF Flight, TypeOK
    <3>3. group[Flight(c)] = c /\ group[Flight(c)] = d
      BY <3>1, <3>2 DEF FlightInv, FlightLedByOne
    <3>4. QED
      BY <1>4, <2>2, <3>3
  <2>3. pc[c] = "put" \/ items'[k] = items[k] \/ ~StoredByLoad(items'[k])
    BY <2>1, <2>2, ItemsStep
  <2>4. clock' \in Nat /\ clock' >= clock
    BY ClockStep
  <2>5. ExpiredAt(items[k], clock) => ExpiredAt(items[k], clock')
    BY <2>1, <2>4, ExpiredStays
  <2>6. QED
    BY <1>4, <2>3, <2>5 DEF LoadInv
<1>5. QED
  BY <1>1, <1>2, <1>3, <1>4, CallerStep

LEMMA LoadInit == Init => LoadInv
BY DEF Init, LoadInv

\* The second look is enough: whatever other callers, setters and the sweeper
\* did meanwhile, a load never runs while an entry that a load stored is live.
THEOREM NoLoadIsRedundant == Spec => []NoRedundantLoad
<1>1. LoadInv => NoRedundantLoad
  BY DEF LoadInv, NoRedundantLoad, Live
<1>2. QED
  BY <1>1, LoadInit, LoadNext, FlightInit, FlightNext, TypeCorrect, PTL DEF Spec

-----------------------------------------------------------------------------
(* The sweeper takes expired entries.                                      *)

SweepInv ==
    /\ sweep.now <= clock
    /\ sweep.keys # {} => ExpiredAt(sweep.item, clock)

LEMMA SweepInit == Init => SweepInv
BY DEF Init, IdleSweep, SweepInv

LEMMA SweepNext ==
    ASSUME TypeOK, SweepInv, [Next]_vars
    PROVE  SweepInv'
<1> USE DEF shared, local, sweeper
<1>0. /\ clock \in Nat /\ clock' \in Nat /\ clock' >= clock /\ sweep.now \in Nat
      /\ sweep.item \in Item \cup {NoItem}
  BY ClockStep DEF TypeOK
<1>1. CASE UNCHANGED sweep
  <2>1. sweep'.now <= clock'
    BY <1>0, <1>1 DEF SweepInv
  <2>2. sweep'.keys # {} => ExpiredAt(sweep'.item, clock')
    BY <1>0, <1>1, ExpiredStays DEF SweepInv
  <2>3. QED
    BY <2>1, <2>2 DEF SweepInv
<1>2. ASSUME NEW late \in SUBSET Keys, SweepTick(late) PROVE SweepInv'
  BY <1>0, <1>2 DEF SweepTick, SweepInv, TypeOK
<1>3. ASSUME NEW k \in Keys, SweepVisit(k) PROVE SweepInv'
  <2>1. items[k] \in Item \cup {NoItem} /\ UNCHANGED clock
    BY <1>3 DEF TypeOK, SweepVisit, Reach
  <2>2. CASE ExpiredAt(items[k], sweep.now)
    <3>1. sweep' = [sweep EXCEPT !.at = "delete", !.todo = sweep.todo \ {k},
                                !.keys = {k}, !.item = items[k]]
      BY <1>3, <2>2 DEF SweepVisit, Reach
    <3>2. sweep'.now = sweep.now /\ sweep'.item = items[k]
      BY <3>1 DEF TypeOK
    <3>3. ExpiredAt(items[k], clock)
      BY <1>0, <2>1, <2>2, ExpiredStays DEF SweepInv
    <3>4. QED
      BY <2>1, <3>2, <3>3 DEF SweepInv
  <2>3. CASE ~ExpiredAt(items[k], sweep.now)
    <3>1. sweep' = [sweep EXCEPT !.todo = sweep.todo \ {k}]
      BY <1>3, <2>3 DEF SweepVisit, Reach
    <3>2. /\ sweep'.now = sweep.now /\ sweep'.item = sweep.item
          /\ sweep'.keys = sweep.keys
      BY <3>1 DEF TypeOK
    <3>3. QED
      BY <2>1, <3>2 DEF SweepInv
  <2>4. QED
    BY <2>2, <2>3
<1>4. CASE SweepDelete
  <2>1. sweep'.now = sweep.now /\ sweep'.keys = {} /\ UNCHANGED clock
    BY <1>4 DEF SweepDelete, TypeOK
  <2>2. QED
    BY <2>1 DEF SweepInv
<1>5. CASE SweepDone \/ SweepExit
  <2>1. sweep'.now = 0 /\ sweep'.keys = {}
    BY <1>5 DEF SweepDone, SweepExit, IdleSweep
  <2>2. QED
    BY <1>0, <2>1 DEF SweepInv
<1>6. ASSUME NEW c \in Callers, Start(c) \/ Progress(c) PROVE UNCHANGED sweep
  BY <1>6 DEF Start, Call, SetStart, Progress, GetJudge, GetOrLoadJudge, Do, Reread,
              Rejudge, LoadValue, LoadError, Keep, Finish, Unwrap, SetStore, Return
<1>7. ASSUME (\E k \in Keys : Delete(k)) \/ Close \/ Tick \/ UNCHANGED vars
      PROVE  UNCHANGED sweep
  BY <1>7 DEF Delete, Close, Tick, vars
<1>8. QED
  BY <1>1, <1>2, <1>3, <1>4, <1>5, <1>6, <1>7 DEF Next, SweeperStep

\* The sweeper removes an entry it looked at only after that entry expired:
\* what it can take wrongly is an entry stored since it looked, nothing else.
THEOREM SweptEntriesExpired == Spec => SweeperTakesExpired
<1>1. TypeOK /\ SweepInv =>
          \A k \in sweep.keys :
              items[k] = sweep.item /\ items'[k] = NoItem => ExpiredAt(items[k], clock)
  BY DEF SweepInv
<1>2. TypeOK /\ SweepInv /\ [Next]_vars =>
          [\A k \in sweep.keys :
              items[k] = sweep.item /\ items'[k] = NoItem
                  => ExpiredAt(items[k], clock)]_vars
  BY <1>1
<1>3. QED
  BY <1>2, SweepInit, SweepNext, TypeCorrect, PTL DEF Spec, SweeperTakesExpired

-----------------------------------------------------------------------------
(* Every call returns a result of its own key.                             *)

\* fmt.Sprint tells the keys apart.
SprintInjective == \A j, k \in Keys : Sprint[j] = Sprint[k] => j = k

\* An entry of the key k has a value made for k, or an error and no value.
EntryOf(k, it) ==
    it # NoItem =>
        IF it.err = NoErr THEN it.data # Zero /\ it.data.key = k ELSE it.data = Zero

LoadedFor(k, r) == r.err = NoErr => r.data # Zero /\ r.data.key = k

ReturnedFor(k, method, r) ==
    /\ r.data # Zero => r.data.key = k /\ r.err = NoErr
    /\ method = "GetOrLoad" /\ r.data = Zero => r.err # NoErr

\* What a caller has in hand, wherever it is.
InHand(p, method, k, it, r) ==
    /\ p \in {"judge", "rejudge", "keep", "put"} => EntryOf(k, it)
    /\ p \in {"keep", "finish", "unwrap"} => LoadedFor(k, r)
    /\ p \in {"idle", "judge", "do", "wait", "reread", "rejudge", "load", "put"} => r = Miss
    /\ p = "put" => method = "Set"
    /\ p = "done" => ReturnedFor(k, method, r)

OwnInv ==
    /\ \A k \in Keys : EntryOf(k, items[k])
    /\ \A c \in Callers : InHand(pc[c], op[c], key[c], item[c], out[c])

LEMMA OwnInit == Init => OwnInv
BY DEF Init, OwnInv, EntryOf, InHand

LEMMA NewEntry ==
    /\ \A k \in Keys : \A by, nil, ttl :
           [key |-> k, by |-> by, nil |-> nil] \in Value =>
               EntryOf(k, Positive([key |-> k, by |-> by, nil |-> nil], ttl))
    /\ \A k \in Keys, e \in Errors : EntryOf(k, Negative(e))
BY SentinelAssumption, ErrorsAssumption DEF EntryOf, Positive, Negative

\* A step of a caller's own, other than Finish, that leaves its hand in order.
LEMMA OwnKept ==
    ASSUME TypeOK, OwnInv, NEW c \in Callers,
           \A k \in Keys : EntryOf(k, items'[k]),
           InHand(pc'[c], op'[c], key'[c], item'[c], out'[c]),
           \A d \in Callers : d # c =>
               /\ pc'[d] = pc[d] /\ op'[d] = op[d] /\ key'[d] = key[d]
               /\ item'[d] = item[d] /\ out'[d] = out[d]
    PROVE  OwnInv'
BY DEF OwnInv

LEMMA OthersKeep ==
    ASSUME TypeOK, NEW c \in Callers, Start(c) \/ Progress(c), ~Finish(c),
           NEW d \in Callers, d # c
    PROVE  /\ pc'[d] = pc[d] /\ op'[d] = op[d] /\ key'[d] = key[d]
           /\ item'[d] = item[d] /\ out'[d] = out[d]
BY DEF Start, Call, SetStart, Progress, GetJudge, GetOrLoadJudge, Do, Reread, Rejudge,
       LoadValue, LoadError, Keep, Unwrap, SetStore, Return, Goto, Drop, TypeOK

LEMMA OwnStart ==
    ASSUME TypeOK, OwnInv, NEW c \in Callers, Start(c)
    PROVE  OwnInv'
<1>0. UNCHANGED items /\ ~Finish(c) /\ out'[c] = out[c] /\ pc[c] = "idle"
  BY DEF Start, Call, SetStart, Finish, shared
<1>1. out'[c] = Miss /\ \A k \in Keys : EntryOf(k, items'[k])
  BY <1>0 DEF OwnInv, InHand
<1>2. ASSUME NEW k \in Keys, Call(c, "Get", k) \/ Call(c, "GetOrLoad", k)
      PROVE  InHand(pc'[c], op'[c], key'[c], item'[c], out'[c])
  <2>1. pc'[c] = "judge" /\ key'[c] = k /\ item'[c] = items[k]
    BY <1>2 DEF Call, Goto, TypeOK
  <2>2. QED
    BY <1>1, <2>1 DEF OwnInv, InHand
<1>3. ASSUME NEW k \in Keys, NEW ttl \in SetTTLs \cup {TTL}, NEW nil \in Nils,
             SetStart(c, k, ttl, nil)
      PROVE  InHand(pc'[c], op'[c], key'[c], item'[c], out'[c])
  <2>1. /\ pc'[c] = "put" /\ key'[c] = k /\ op'[c] = "Set"
        /\ item'[c] = Positive([key |-> k, by |-> "set", nil |-> nil], ttl)
    BY <1>3 DEF SetStart, Goto, TypeOK
  <2>2. [key |-> k, by |-> "set", nil |-> nil] \in Value
    BY DEF Value
  <2>3. EntryOf(k, item'[c])
    BY <2>1, <2>2, NewEntry
  <2>4. QED
    BY <1>1, <2>1, <2>3 DEF InHand
<1>4. InHand(pc'[c], op'[c], key'[c], item'[c], out'[c])
  BY <1>2, <1>3 DEF Start
<1>5. QED
  BY <1>0, <1>1, <1>4, OwnKept, OthersKeep

LEMMA OwnProgress ==
    ASSUME TypeOK, OwnInv, NEW c \in Callers, Progress(c), ~Finish(c)
    PROVE  OwnInv'
<1> DEFINE Mine == InHand(pc'[c], op'[c], key'[c], item'[c], out'[c])
<1>0. InHand(pc[c], op[c], key[c], item[c], out[c]) /\ \A k \in Keys : EntryOf(k, items[k])
  BY DEF OwnInv
<1> USE DEF Goto, Drop, shared
<1>1. \A k \in Keys : EntryOf(k, items'[k])
  <2>1. CASE Keep(c) \/ SetStore(c)
    <3>1. EntryOf(key[c], item[c]) /\ items' = [items EXCEPT ![key[c]] = item[c]]
      BY <1>0, <2>1 DEF Keep, SetStore, InHand
    <3>2. QED
      BY <1>0, <3>1 DEF TypeOK
  <2>2. CASE UNCHANGED items
    BY <1>0, <2>2
  <2>3. QED
    BY <2>1, <2>2 DEF Progress, GetJudge, GetOrLoadJudge, Do, Reread, Rejudge, LoadValue,
                      LoadError, Finish, Unwrap, Return
<1>2. ASSUME GetJudge(c) PROVE Mine
  <2>1. /\ pc'[c] = "done" /\ op'[c] = "Get" /\ key'[c] = key[c]
        /\ \/ out'[c] = Miss
           \/ out'[c] = Found(item[c]) /\ item[c] # NoItem /\ item[c].err = NoErr
    BY <1>2 DEF GetJudge, Live, TypeOK
  <2>2. EntryOf(key[c], item[c])
    BY <1>0, <1>2 DEF GetJudge, InHand
  <2>3. ReturnedFor(key'[c], op'[c], out'[c])
    BY <2>1, <2>2 DEF ReturnedFor, EntryOf, Found, Miss
  <2>4. QED
    BY <2>1, <2>3 DEF InHand
<1>3. ASSUME GetOrLoadJudge(c) \/ Rejudge(c) PROVE Mine
  <2>1. /\ key'[c] = key[c] /\ EntryOf(key[c], item[c]) /\ out[c] = Miss
    BY <1>0, <1>3 DEF GetOrLoadJudge, Rejudge, InHand
  <2>2. CASE Live(item[c])
    <3>1. pc'[c] \in {"done", "finish"} /\ out'[c] = Found(item[c]) /\ item[c] # NoItem
      BY <1>3, <2>2 DEF GetOrLoadJudge, Rejudge, Live, TypeOK
    <3>2. /\ LoadedFor(key'[c], out'[c])
          /\ ReturnedFor(key'[c], op'[c], out'[c])
      BY <2>1, <3>1 DEF LoadedFor, ReturnedFor, EntryOf, Found
    <3>3. QED
      BY <3>1, <3>2 DEF InHand
  <2>3. CASE ~Live(item[c])
    <3>1. pc'[c] \in {"do", "load"} /\ out'[c] = Miss
      BY <1>3, <2>1, <2>3 DEF GetOrLoadJudge, Rejudge, TypeOK
    <3>2. QED
      BY <3>1 DEF InHand
  <2>4. QED
    BY <2>2, <2>3
<1>4. ASSUME Do(c) PROVE Mine
  <2>1. pc'[c] \in {"reread", "wait"} /\ out'[c] = Miss
    BY <1>0, <1>4 DEF Do, InHand, TypeOK
  <2>2. QED
    BY <2>1 DEF InHand
<1>5. ASSUME Reread(c) PROVE Mine
  <2>1. /\ pc'[c] = "rejudge" /\ out'[c] = Miss /\ key'[c] = key[c]
        /\ item'[c] = items[key[c]] /\ key[c] \in Keys
    BY <1>0, <1>5 DEF Reread, InHand, TypeOK
  <2>2. QED
    BY <1>0, <2>1 DEF InHand
<1>6. ASSUME NEW nil \in Nils, LoadValue(c, nil)
      PROVE  Mine
  <2> DEFINE v == [key |-> key[c], by |-> "load", nil |-> nil]
  <2>1. /\ pc'[c] = "keep" /\ key'[c] = key[c] /\ key[c] \in Keys
        /\ item'[c] = Positive(v, TTL) /\ out'[c] = [data |-> v, err |-> NoErr]
    BY <1>6 DEF LoadValue, TypeOK
  <2>2. v \in Value /\ v.key = key[c]
    BY <2>1 DEF Value
  <2>3. EntryOf(key[c], item'[c])
    BY <2>1, <2>2, NewEntry
  <2>4. LoadedFor(key[c], out'[c])
    BY <2>1, <2>2, SentinelAssumption DEF LoadedFor
  <2>5. QED
    BY <2>1, <2>3, <2>4 DEF InHand
<1>7. ASSUME NEW e \in Errors, LoadError(c, e)
      PROVE  Mine
  <2>1. /\ key'[c] = key[c] /\ key[c] \in Keys /\ out'[c].err = e
        /\ \/ pc'[c] = "keep" /\ item'[c] = Negative(e)
           \/ pc'[c] = "finish"
    BY <1>7 DEF LoadError, TypeOK
  <2>2. EntryOf(key[c], Negative(e)) /\ LoadedFor(key[c], out'[c])
    BY <2>1, NewEntry, ErrorsAssumption DEF LoadedFor
  <2>3. QED
    BY <2>1, <2>2 DEF InHand
<1>8. ASSUME Keep(c) PROVE Mine
  <2>1. pc'[c] = "finish" /\ out'[c] = out[c] /\ key'[c] = key[c] /\ pc[c] = "keep"
    BY <1>8 DEF Keep, TypeOK
  <2>2. QED
    BY <1>0, <2>1 DEF InHand
<1>9. ASSUME Unwrap(c) PROVE Mine
  <2>1. LoadedFor(key[c], out[c]) /\ key'[c] = key[c] /\ pc'[c] \in {"done", "panicked"}
    BY <1>0, <1>9 DEF Unwrap, InHand, TypeOK
  <2>2. \/ out[c].err # NoErr /\ out'[c].data = Zero /\ out'[c].err = out[c].err
        \/ out[c].err = NoErr /\ out'[c] = out[c]
    BY <1>9 DEF Unwrap, TypeOK, Result
  <2>3. ReturnedFor(key'[c], op'[c], out'[c])
    BY <2>1, <2>2 DEF LoadedFor, ReturnedFor
  <2>4. QED
    BY <2>1, <2>3 DEF InHand
<1>10. ASSUME SetStore(c) PROVE Mine
  <2>1. pc'[c] = "done" /\ out'[c] = Miss /\ op'[c] = "Set"
    BY <1>0, <1>10 DEF SetStore, InHand, TypeOK
  <2>2. QED
    BY <2>1 DEF InHand, ReturnedFor, Miss
<1>11. ASSUME Return(c) PROVE Mine
  <2>1. pc'[c] = "idle" /\ out'[c] = Miss
    BY <1>11 DEF Return, TypeOK
  <2>2. QED
    BY <2>1 DEF InHand
<1>12. Mine
  BY <1>2, <1>3, <1>4, <1>5, <1>6, <1>7, <1>8, <1>9, <1>10, <1>11 DEF Progress
<1>13. QED
  BY <1>1, <1>12, OwnKept, OthersKeep

\* Waiters take the result of their flight's leader, which is of their own key.
LEMMA OwnFinish ==
    ASSUME SprintInjective, TypeOK, OwnInv, NEW c \in Callers, Finish(c)
    PROVE  OwnInv'
<1>1. UNCHANGED <<items, op, key, item>> /\ LoadedFor(key[c], out[c]) /\ pc[c] = "finish"
  BY DEF Finish, OwnInv, InHand
<1>2. ASSUME NEW d \in Callers
      PROVE  InHand(pc'[d], op'[d], key'[d], item'[d], out'[d])
  <2>1. CASE d \in WaitersOf(Flight(c))
    <3>1. pc'[d] = "unwrap" /\ out'[d] = out[c]
      BY <2>1 DEF Finish
    <3>2. key[d] = key[c]
      BY <2>1 DEF WaitersOf, Flight, SprintInjective, TypeOK
    <3>3. QED
      BY <1>1, <3>1, <3>2 DEF InHand
  <2>2. CASE d = c /\ d \notin WaitersOf(Flight(c))
    <3>1. pc'[d] = "unwrap" /\ out'[d] = out[c]
      BY <2>2 DEF Finish
    <3>2. QED
      BY <1>1, <2>2, <3>1 DEF InHand
  <2>3. CASE d # c /\ d \notin WaitersOf(Flight(c))
    <3>1. pc'[d] = pc[d] /\ out'[d] = out[d]
      BY <2>3 DEF Finish
    <3>2. QED
      BY <1>1, <3>1 DEF OwnInv
  <2>4. QED
    BY <2>1, <2>2, <2>3
<1>3. QED
  BY <1>1, <1>2 DEF OwnInv

LEMMA OwnRest ==
    ASSUME TypeOK, OwnInv,
           \/ \E k \in Keys : Delete(k)
           \/ SweeperStep \/ SweepExit \/ Close \/ Tick \/ UNCHANGED vars
    PROVE  OwnInv'
<1> USE DEF shared, local, sweeper
<1>1. UNCHANGED <<pc, op, key, item, out>>
  BY DEF Delete, SweeperStep, SweepTick, SweepVisit, Reach, SweepDelete, SweepDone,
         SweepExit, Close, Tick, vars
<1>2. \A k \in Keys : items'[k] = items[k] \/ items'[k] = NoItem
  BY DEF Delete, SweeperStep, SweepTick, SweepVisit, Reach, SweepDelete, SweepDone,
         SweepExit, Close, Tick, vars, TypeOK
<1>3. \A k \in Keys : EntryOf(k, items'[k])
  BY <1>2 DEF OwnInv, EntryOf
<1>4. QED
  BY <1>1, <1>3 DEF OwnInv

LEMMA OwnNext ==
    ASSUME SprintInjective, TypeOK, OwnInv, [Next]_vars
    PROVE  OwnInv'
BY OwnStart, OwnProgress, OwnFinish, OwnRest DEF Next

\* Where fmt.Sprint tells the keys apart, a call returns what was made for its own
\* key, and GetOrLoad never nothing without an error, whichever flight it joined
\* and whatever was stored, deleted and swept meanwhile.
THEOREM OwnResultIsReturned == ASSUME SprintInjective PROVE Spec => []ReturnsOwnResult
<1>1. OwnInv => ReturnsOwnResult
  BY DEF OwnInv, InHand, ReturnedFor, ReturnsOwnResult
<1>2. TypeOK /\ OwnInv /\ [Next]_vars => OwnInv'
  BY OwnNext
<1>3. QED
  BY <1>1, <1>2, OwnInit, TypeCorrect, PTL DEF Spec

-----------------------------------------------------------------------------
(* A cache that lets nothing expire.                                       *)

NoTTL == TTL <= 0 /\ NegativeTTL <= 0 /\ \A ttl \in SetTTLs : ttl <= 0

Lasting(it) == it = NoItem \/ it.expires = 0

LastInv ==
    /\ \A k \in Keys : Lasting(items[k])
    /\ \A c \in Callers : Lasting(item[c])
    /\ sweep.keys = {} /\ sweep.at # "delete"

LEMMA NewEntryLasts ==
    ASSUME NoTTL
    PROVE  /\ \A ttl \in SetTTLs \cup {TTL} : \A v : Lasting(Positive(v, ttl))
           /\ \A e : Lasting(Negative(e))
BY TTLAssumption DEF NoTTL, Lasting, Positive, Negative, Expiry

\* A caller's step stores what it had in hand, and takes in hand what the map had
\* or an entry it makes.
LEMMA CallerLasts ==
    ASSUME NoTTL, TypeOK, LastInv, NEW c \in Callers, Start(c) \/ Progress(c)
    PROVE  LastInv'
<1> USE DEF shared, local, sweeper
<1>1. UNCHANGED sweep
  BY DEF Start, Call, SetStart, Progress, GetJudge, GetOrLoadJudge, Do, Reread,
         Rejudge, LoadValue, LoadError, Keep, Finish, Unwrap, SetStore, Return
<1>2. key[c] \in Keys
  BY DEF TypeOK
<1>3. \/ UNCHANGED items
      \/ items' = [items EXCEPT ![key[c]] = item[c]]
  BY DEF Start, Call, SetStart, Progress, GetJudge, GetOrLoadJudge, Do, Reread,
         Rejudge, LoadValue, LoadError, Keep, Finish, Unwrap, SetStore, Return
<1>4. \A k \in Keys : Lasting(items'[k])
  BY <1>2, <1>3 DEF LastInv, TypeOK
<1>5. ASSUME NEW it, Lasting(it), item' = [item EXCEPT ![c] = it]
      PROVE  \A d \in Callers : Lasting(item'[d])
  BY <1>5 DEF LastInv, TypeOK
<1>6. Lasting(NoItem) /\ \A k \in Keys : Lasting(items[k])
  BY DEF Lasting, LastInv
<1>7. \A d \in Callers : Lasting(item'[d])
  <2>1. CASE Start(c)
    <3>1. ASSUME NEW k \in Keys, Call(c, "Get", k) \/ Call(c, "GetOrLoad", k)
          PROVE  item' = [item EXCEPT ![c] = items[k]]
      BY <3>1 DEF Call
    <3>2. ASSUME NEW k \in Keys, NEW ttl \in SetTTLs \cup {TTL}, NEW nil \in Nils,
                 SetStart(c, k, ttl, nil)
          PROVE  \E v : item' = [item EXCEPT ![c] = Positive(v, ttl)]
      BY <3>2 DEF SetStart
    <3>3. QED
      BY <1>5, <1>6, <2>1, <3>1, <3>2, NewEntryLasts DEF Start
  <2>2. CASE GetJudge(c) \/ GetOrLoadJudge(c) \/ Rejudge(c) \/ Keep(c) \/ SetStore(c)
    <3>1. item' = [item EXCEPT ![c] = NoItem]
      BY <2>2 DEF GetJudge, GetOrLoadJudge, Rejudge, Keep, SetStore, Drop
    <3>2. QED
      BY <1>5, <1>6, <3>1
  <2>3. CASE Reread(c)
    <3>1. item' = [item EXCEPT ![c] = items[key[c]]]
      BY <2>3 DEF Reread
    <3>2. QED
      BY <1>2, <1>5, <1>6, <3>1
  <2>4. ASSUME NEW nil \in Nils, LoadValue(c, nil)
        PROVE  \A d \in Callers : Lasting(item'[d])
    <3>1. \E v : item' = [item EXCEPT ![c] = Positive(v, TTL)]
      BY <2>4 DEF LoadValue
    <3>2. QED
      BY <1>5, <3>1, NewEntryLasts
  <2>5. ASSUME NEW e \in Errors, LoadError(c, e)
        PROVE  \A d \in Callers : Lasting(item'[d])
    <3>1. item' = [item EXCEPT ![c] = Negative(e)] \/ UNCHANGED item
      BY <2>5 DEF LoadError
    <3>2. QED
      BY <1>5, <3>1, NewEntryLasts DEF LastInv
  <2>6. CASE Do(c) \/ Finish(c) \/ Unwrap(c) \/ Return(c)
    <3>1. UNCHANGED item
      BY <2>6 DEF Do, Finish, Unwrap, Return
    <3>2. QED
      BY <3>1 DEF LastInv
  <2>7. QED
    BY <2>1, <2>2, <2>3, <2>4, <2>5, <2>6 DEF Progress
<1>8. QED
  BY <1>1, <1>4, <1>7 DEF LastInv

\* The sweeper finds nothing to delete.
LEMMA SweeperIdles ==
    ASSUME TypeOK, LastInv,
           \/ \E k \in Keys : Delete(k)
           \/ SweeperStep \/ SweepExit \/ Close \/ Tick \/ UNCHANGED vars
    PROVE  /\ LastInv'
           /\ items' = items \/ \E k \in Keys : Delete(k)
<1> USE DEF shared, local, sweeper
<1>1. CASE \E k \in Keys : Delete(k)
  <2>1. UNCHANGED <<item, sweep>> /\ \A k \in Keys : items'[k] = items[k] \/ items'[k] = NoItem
    BY <1>1 DEF Delete, TypeOK
  <2>2. QED
    BY <1>1, <2>1 DEF LastInv, Lasting
<1>2. ASSUME NEW k \in Keys, SweepVisit(k)
      PROVE  UNCHANGED <<items, item>> /\ sweep'.keys = {} /\ sweep'.at # "delete"
  <2>1. ~ExpiredAt(items[k], sweep.now)
    BY DEF LastInv, Lasting, ExpiredAt
  <2>2. UNCHANGED <<items, item>> /\ sweep' = [sweep EXCEPT !.todo = sweep.todo \ {k}]
    BY <1>2, <2>1 DEF SweepVisit, Reach
  <2>3. QED
    BY <2>2 DEF LastInv, TypeOK
<1>3. ASSUME NEW late \in SUBSET Keys, SweepTick(late)
      PROVE  UNCHANGED <<items, item>> /\ sweep'.keys = {} /\ sweep'.at # "delete"
  BY <1>3 DEF SweepTick, LastInv, TypeOK
<1>4. CASE SweepDone \/ SweepExit
  BY <1>4 DEF SweepDone, SweepExit, IdleSweep, LastInv
<1>5. CASE Close \/ Tick \/ UNCHANGED vars
  BY <1>5 DEF Close, Tick, vars, LastInv
<1>6. ~SweepDelete
  BY DEF SweepDelete, LastInv
<1>7. QED
  BY <1>1, <1>2, <1>3, <1>4, <1>5, <1>6 DEF SweeperStep, LastInv

\* Who is about to store has an entry in hand.
HandInv == \A c \in Callers : pc[c] \in {"keep", "put"} => item[c] # NoItem

LEMMA HandNext ==
    ASSUME TypeOK, HandInv, [Next]_vars
    PROVE  HandInv'
<1> USE DEF shared, local, sweeper, Goto
<1>0. clock \in Nat /\ NoItem \notin Item
  BY SentinelAssumption DEF TypeOK
<1>1. ASSUME NEW c \in Callers, Start(c) \/ Progress(c), ~Finish(c)
      PROVE  HandInv'
  <2>1. \A d \in Callers : d # c => pc'[d] = pc[d] /\ item'[d] = item[d]
    BY <1>1, OthersKeep
  <2>2. CASE pc'[c] \notin {"keep", "put"}
    BY <2>1, <2>2 DEF HandInv
  <2>3. ASSUME NEW nil \in Nils, LoadValue(c, nil) PROVE item'[c] # NoItem
    <3>1. key[c] \in Keys /\ TTL \in Int
      BY TTLAssumption DEF TypeOK
    <3>2. Positive([key |-> key[c], by |-> "load", nil |-> nil], TTL) \in Item
      BY <1>0, <3>1, PositiveType
    <3>3. item'[c] = Positive([key |-> key[c], by |-> "load", nil |-> nil], TTL)
      BY <2>3 DEF LoadValue, TypeOK
    <3>4. QED
      BY <1>0, <3>2, <3>3
  <2>4. ASSUME NEW e \in Errors, LoadError(c, e), pc'[c] = "keep" PROVE item'[c] # NoItem
    <3>1. item'[c] = Negative(e)
      BY <2>4 DEF LoadError, TypeOK
    <3>2. QED
      BY <1>0, <3>1, NegativeType
  <2>5. ASSUME NEW k \in Keys, NEW ttl \in SetTTLs \cup {TTL}, NEW nil \in Nils,
               SetStart(c, k, ttl, nil)
        PROVE  item'[c] # NoItem
    <3>1. Positive([key |-> k, by |-> "set", nil |-> nil], ttl) \in Item
      BY <1>0, TTLAssumption, PositiveType
    <3>2. item'[c] = Positive([key |-> k, by |-> "set", nil |-> nil], ttl)
      BY <2>5 DEF SetStart, TypeOK
    <3>3. QED
      BY <1>0, <3>1, <3>2
  <2>6. \/ pc'[c] \notin {"keep", "put"}
        \/ \E nil \in Nils : LoadValue(c, nil)
        \/ \E e \in Errors : LoadError(c, e)
        \/ \E k \in Keys, ttl \in SetTTLs \cup {TTL}, nil \in Nils : SetStart(c, k, ttl, nil)
    <3>1. CASE Start(c)
      BY <3>1 DEF Start, Call, TypeOK
    <3>2. CASE Progress(c)
      BY <1>1, <3>2 DEF Progress, GetJudge, GetOrLoadJudge, Do, Reread, Rejudge, Keep,
                        Unwrap, SetStore, Return, TypeOK
    <3>3. QED
      BY <1>1, <3>1, <3>2
  <2>7. ASSUME NEW e \in Errors, LoadError(c, e), pc'[c] = "put" PROVE FALSE
    BY <2>7 DEF LoadError, TypeOK
  <2>8. pc'[c] \in {"keep", "put"} => item'[c] # NoItem
    BY <2>3, <2>4, <2>5, <2>6, <2>7
  <2>9. QED
    BY <2>1, <2>8 DEF HandInv
<1>2. ASSUME NEW c \in Callers, Finish(c) PROVE HandInv'
  BY <1>2 DEF Finish, HandInv, TypeOK
<1>3. CASE \/ \E k \in Keys : Delete(k)
           \/ SweeperStep \/ SweepExit \/ Close \/ Tick \/ UNCHANGED vars
  <2>1. UNCHANGED <<pc, item>>
    BY <1>3 DEF Delete, SweeperStep, SweepTick, SweepVisit, Reach, SweepDelete, SweepDone,
                SweepExit, Close, Tick, vars
  <2>2. QED
    BY <2>1 DEF HandInv
<1>4. QED
  BY <1>1, <1>2, <1>3 DEF Next

\* Where no ttl is positive, neither the cache's nor one that is passed, an entry
\* leaves the map through Delete or a later store only.
THEOREM NothingIsLost == ASSUME NoTTL PROVE Spec => StoredForever
<1>1. Init => LastInv /\ HandInv
  BY DEF Init, LastInv, HandInv, Lasting, IdleSweep
<1>2. TypeOK /\ LastInv /\ HandInv /\ [Next]_vars => LastInv' /\ HandInv'
  BY CallerLasts, SweeperIdles, HandNext DEF Next
<1>3. TypeOK /\ LastInv /\ HandInv /\ [Next]_vars =>
          [\A k \in Keys :
              items[k] # NoItem /\ items[k].expires = 0 /\ items'[k] = NoItem
                  => Delete(k)]_vars
  <2>1. SUFFICES ASSUME TypeOK, LastInv, HandInv, [Next]_vars,
                        NEW k \in Keys, items[k] # NoItem, items'[k] = NoItem
                 PROVE  Delete(k)
    OBVIOUS
  <2>2. ASSUME NEW c \in Callers, Start(c) \/ Progress(c) PROVE FALSE
    <3>1. \/ UNCHANGED items
          \/ pc[c] \in {"keep", "put"} /\ items' = [items EXCEPT ![key[c]] = item[c]]
      BY <2>2 DEF Start, Call, SetStart, Progress, GetJudge, GetOrLoadJudge, Do, Reread,
                  Rejudge, LoadValue, LoadError, Keep, Finish, Unwrap, SetStore, Return,
                  shared
    <3>2. QED
      BY <2>1, <3>1 DEF HandInv, TypeOK
  <2>3. items' = items \/ \E j \in Keys : Delete(j)
    BY <2>1, <2>2, SweeperIdles DEF Next
  <2>4. ASSUME NEW j \in Keys, Delete(j), j # k PROVE FALSE
    BY <2>1, <2>4 DEF Delete, TypeOK
  <2>5. QED
    BY <2>1, <2>3, <2>4
<1>4. QED
  BY <1>1, <1>2, <1>3, TypeCorrect, PTL DEF Spec, StoredForever
=============================================================================
