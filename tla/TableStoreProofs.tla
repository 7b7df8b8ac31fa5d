-------------------------- MODULE TableStoreProofs --------------------------
(***************************************************************************)
(* Proofs about TableStore: for any threads, pointers, spin limit and      *)
(* number of failed allocations.                                           *)
(***************************************************************************)
EXTENDS TableStore, TLAPS

\* A decided state is the last in the modification order: nothing is ever
\* stored over kTablesReady or kTablesFailed.
DecidedIsLast ==
  \A i \in 1 .. Len(tables_init_state) :
    tables_init_state[i].val \in {kTablesReady, kTablesFailed}
      => i = Len(tables_init_state)

\* How far the initialising thread has come.
InitProgress ==
  \A t \in Threads :
    /\ pc[t] = "inflate" => buffer[t] = "raw"
    /\ pc[t] = "convert" => /\ buffer[t] = "inflated"
                            /\ intact
                            /\ Payload \in view[t]
    /\ pc[t] = "publish" => /\ buffer[t] = "host"
                            /\ intact
                            /\ Payload \in view[t]
                            /\ \A l \in Pointers : ptr[l] = t => l \in view[t]

\* Buffers and pointers into them belong to the initialising thread or to the
\* published tables.
BufferOwned ==
  \A t \in Threads : buffer[t] # "none" =>
    \/ pc[t] \in {"inflate", "convert", "publish"}
    \/ Newest = kTablesReady /\ \A l \in Pointers : ptr[l] = t

PointerOwned ==
  \A t \in Threads, l \in Pointers :
    ptr[l] = t => pc[t] = "publish" \/ Newest = kTablesReady

\* What each final state says, and what acquiring it hands over.
Decided ==
  /\ Newest = kTablesReady =>
       /\ intact
       /\ tables_init_state[Len(tables_init_state)].view = Locations
       /\ \E owner \in Threads :
            /\ buffer[owner] = "host"
            /\ \A l \in Pointers : ptr[l] = owner
  /\ Newest = kTablesFailed => ~intact

\* A thread that was answered true can load nothing older than kTablesReady,
\* and never gets as far as the exchange again.
Answered ==
  \A t \in Threads : result[t] = "true" =>
    /\ Newest = kTablesReady
    /\ seen[t] = Len(tables_init_state)
    /\ view[t] = Locations
    /\ pc[t] \in {"idle", "load"}

IInv ==
  /\ TypeOK
  /\ DecidedIsLast
  /\ OneInitializer
  /\ InitProgress
  /\ BufferOwned
  /\ PointerOwned
  /\ Decided
  /\ Answered

-----------------------------------------------------------------------------
(* A store to the atomic keeps its history and becomes the newest store.   *)
LEMMA AppendStore ==
  ASSUME TypeOK, NEW e \in Stores,
         tables_init_state' = Append(tables_init_state, e)
  PROVE  /\ tables_init_state' \in Seq(Stores)
         /\ tables_init_state' # <<>>
         /\ Len(tables_init_state') = Len(tables_init_state) + 1
         /\ Len(tables_init_state) \in Nat \ {0}
         /\ Newest' = e.val
         /\ tables_init_state'[Len(tables_init_state) + 1] = e
         /\ \A i \in 1 .. Len(tables_init_state) :
              tables_init_state'[i] = tables_init_state[i]
  BY SMTT(60) DEF TypeOK, Newest

LEMMA StoreTypes ==
  ASSUME TypeOK
  PROVE  /\ Len(tables_init_state) \in Nat \ {0}
         /\ Newest \in State
         /\ \A i \in 1 .. Len(tables_init_state) :
              /\ tables_init_state[i] \in Stores
              /\ tables_init_state[i].val \in State
              /\ tables_init_state[i].view \in SUBSET Locations
  <1>1. Len(tables_init_state) \in Nat \ {0}
    BY DEF TypeOK
  <1>2. \A i \in 1 .. Len(tables_init_state) : tables_init_state[i] \in Stores
    BY DEF TypeOK
  <1>3. \A i \in 1 .. Len(tables_init_state) :
          /\ tables_init_state[i].val \in State
          /\ tables_init_state[i].view \in SUBSET Locations
    BY <1>2 DEF Stores
  <1> QED
    BY <1>1, <1>2, <1>3 DEF Newest

LEMMA ReleaseStores ==
  ASSUME TypeOK, NEW t \in Threads, NEW v \in State, Release(t, v)
  PROVE  /\ tables_init_state' \in Seq(Stores)
         /\ tables_init_state' # <<>>
         /\ seen' \in [Threads -> 1 .. Len(tables_init_state')]
         /\ Newest' = v
  <1> DEFINE e == [val |-> v, view |-> view[t]]
  <1>1. e \in Stores
    BY DEF TypeOK, Stores
  <1>2. tables_init_state' = Append(tables_init_state, e)
    BY DEF Release
  <1>3. /\ tables_init_state' \in Seq(Stores)
        /\ tables_init_state' # <<>>
        /\ Len(tables_init_state') = Len(tables_init_state) + 1
        /\ Len(tables_init_state) \in Nat \ {0}
        /\ Newest' = e.val
    BY <1>1, <1>2, AppendStore
  <1>4. seen' \in [Threads -> 1 .. Len(tables_init_state')]
    BY <1>3 DEF TypeOK, Release
  <1> QED
    BY <1>3, <1>4

LEMMA AcquireTypes ==
  ASSUME TypeOK, NEW t \in Threads, NEW m \in 1 .. Len(tables_init_state),
         Acquire(t, m)
  PROVE  /\ seen' \in [Threads -> 1 .. Len(tables_init_state)]
         /\ view' \in [Threads -> SUBSET Locations]
  BY StoreTypes DEF TypeOK, Acquire

-----------------------------------------------------------------------------
(* Type correctness.                                                       *)
LEMMA TypeInit == Init => TypeOK
  BY StoreAssumption
  DEF Init, TypeOK, Stores, State, Locations, PC, BufferState, Answer,
      kTablesUninit, kTablesFailed

LEMMA TypeNext == TypeOK /\ [Next]_vars => TypeOK'
  <1> SUFFICES ASSUME TypeOK, [Next]_vars
               PROVE  TypeOK'
    OBVIOUS
  <1> USE DEF PC, InitPC, BufferState, Answer, Goto, Return, ownVars
  <1> USE DEF State, kTablesUninit, kTablesInProgress, kTablesReady,
              kTablesFailed
  <1>1. ASSUME NEW t \in Threads, EnsureTables(t)
        PROVE  TypeOK'
    BY <1>1 DEF EnsureTables, TypeOK
  <1>2. ASSUME NEW t \in Threads, TablesAreReady(t)
        PROVE  TypeOK'
    BY <1>2, AcquireTypes, ZenonT(60) DEF TablesAreReady, TypeOK
  <1>3. ASSUME NEW t \in Threads, Load(t)
        PROVE  TypeOK'
    BY <1>3, AcquireTypes, ZenonT(60) DEF Load, TypeOK
  <1>4. ASSUME NEW t \in Threads, CasWin(t)
        PROVE  TypeOK'
    <2> DEFINE m == Len(tables_init_state)
               acquired == view[t] \cup tables_init_state[m].view
               e == [val |-> kTablesInProgress, view |-> acquired]
    <2>0. acquired \in SUBSET Locations
      <3>1. m \in 1 .. m
        BY StoreTypes
      <3>2. tables_init_state[m].view \in SUBSET Locations
        BY <3>1, StoreTypes
      <3> QED
        BY <3>2 DEF TypeOK
    <2>1. e \in Stores
      BY <2>0 DEF Stores
    <2>2. tables_init_state' = Append(tables_init_state, e)
      BY <1>4 DEF CasWin
    <2>3. /\ tables_init_state' \in Seq(Stores)
          /\ tables_init_state' # <<>>
          /\ Len(tables_init_state') = m + 1
          /\ m \in Nat \ {0}
      BY <2>1, <2>2, AppendStore
    <2> QED
      BY <1>4, <2>0, <2>3 DEF CasWin, TypeOK
  <1>5. ASSUME NEW t \in Threads, CasLose(t)
        PROVE  TypeOK'
    BY <1>5, AcquireTypes, StoreAssumption DEF CasLose, TypeOK
  <1>6. ASSUME NEW t \in Threads, AllocFail(t)
        PROVE  TypeOK'
    BY <1>6, ReleaseStores, StoreAssumption DEF AllocFail, GiveBackSlot, TypeOK
  <1>7. ASSUME NEW t \in Threads, Alloc(t)
        PROVE  TypeOK'
    BY <1>7 DEF Alloc, TypeOK
  <1>8. ASSUME NEW t \in Threads, RejectBlob(t)
        PROVE  TypeOK'
    BY <1>8, ReleaseStores DEF RejectBlob, DeleteBuffer, TypeOK
  <1>9. ASSUME NEW t \in Threads, Inflate(t)
        PROVE  TypeOK'
    BY <1>9 DEF Inflate, TypeOK, Locations
  <1>10. ASSUME NEW t \in Threads, Convert(t)
         PROVE  TypeOK'
    BY <1>10 DEF Convert, TypeOK
  <1>11. ASSUME NEW t \in Threads, NEW l \in Pointers, WritePointer(t, l)
         PROVE  TypeOK'
    BY <1>11 DEF WritePointer, TypeOK, Locations
  <1>12. ASSUME NEW t \in Threads, StoreReady(t)
         PROVE  TypeOK'
    BY <1>12, ReleaseStores DEF StoreReady, TypeOK
  <1>13. ASSUME NEW t \in Threads, Spin(t)
         PROVE  TypeOK'
    <2> PICK m \in 1 .. Len(tables_init_state) : Acquire(t, m)
      BY <1>13 DEF Spin
    <2>1. /\ seen' \in [Threads -> 1 .. Len(tables_init_state)]
          /\ view' \in [Threads -> SUBSET Locations]
      BY AcquireTypes
    <2>2. spins' \in [Threads -> 0 .. SpinLimit]
      <3>1. spins \in [Threads -> 0 .. SpinLimit] /\ SpinLimit \in Nat
        BY StoreAssumption DEF TypeOK
      <3>2. spins[t] + 1 \in 0 .. SpinLimit
        BY <1>13, <3>1 DEF Spin, MayWait
      <3>3. spins' = spins \/ spins' = [spins EXCEPT ![t] = spins[t] + 1]
        BY <1>13 DEF Spin
      <3> QED
        BY <3>1, <3>2, <3>3
    <2>3. pc' \in [Threads -> PC] /\ result' \in [Threads -> Answer]
      BY <1>13, ZenonT(60) DEF Spin, TypeOK
    <2> QED
      BY <1>13, <2>1, <2>2, <2>3 DEF Spin, TypeOK
  <1>14. ASSUME NEW t \in Threads, SpinTimeout(t)
         PROVE  TypeOK'
    BY <1>14 DEF SpinTimeout, TypeOK
  <1>15. CASE UNCHANGED vars
    BY <1>15 DEF vars, TypeOK
  <1> QED
    BY <1>1, <1>2, <1>3, <1>4, <1>5, <1>6, <1>7, <1>8, <1>9, <1>10, <1>11,
       <1>12, <1>13, <1>14, <1>15
    DEF Next, Call, Step

\* Types hold in every behaviour, whatever the number of threads, pointers,
\* iterations and failed allocations.
THEOREM TypeCorrect == Spec => []TypeOK
  <1> QED
    BY TypeInit, TypeNext, PTL DEF Spec

-----------------------------------------------------------------------------
(* The protocol.                                                           *)

\* Whoever loads kTablesReady has everything the initialising thread wrote.
LEMMA AcquireReady ==
  ASSUME TypeOK, DecidedIsLast, Decided,
         NEW t \in Threads, NEW m \in 1 .. Len(tables_init_state),
         Acquire(t, m), tables_init_state[m].val = kTablesReady
  PROVE  /\ Newest = kTablesReady
         /\ seen'[t] = Len(tables_init_state)
         /\ view'[t] = Locations
  <1>1. m = Len(tables_init_state)
    BY DEF DecidedIsLast
  <1>2. Newest = kTablesReady
    BY <1>1 DEF Newest
  <1>3. tables_init_state[m].view = Locations
    BY <1>1, <1>2 DEF Decided
  <1>4. view[t] \subseteq Locations
    BY DEF TypeOK
  <1> QED
    BY <1>1, <1>2, <1>3, <1>4 DEF Acquire, TypeOK

\* Whoever was answered true can only load kTablesReady.
LEMMA AcquireAnswered ==
  ASSUME TypeOK, Answered,
         NEW t \in Threads, NEW m \in 1 .. Len(tables_init_state),
         Acquire(t, m), result[t] = "true"
  PROVE  tables_init_state[m].val = kTablesReady
  <1>1. seen[t] = Len(tables_init_state) /\ Newest = kTablesReady
    BY DEF Answered
  <1>2. Len(tables_init_state) \in Nat
    BY DEF TypeOK
  <1>3. m = Len(tables_init_state)
    BY <1>1, <1>2 DEF Acquire
  <1> QED
    BY <1>1, <1>3 DEF Newest

\* A step outside the initialisation disturbs nothing, provided that it answers
\* true only to a thread that has acquired kTablesReady.
LEMMA OutsideInit ==
  ASSUME IInv, TypeOK', NEW t \in Threads,
         UNCHANGED <<tables_init_state, buffer, ptr, intact>>,
         pc[t] \notin InitPC, pc'[t] \notin InitPC,
         \A u \in Threads \ {t} :
           /\ pc'[u] = pc[u]
           /\ seen'[u] = seen[u]
           /\ view'[u] = view[u]
           /\ result'[u] = result[u],
         result'[t] = "true" =>
           /\ Newest = kTablesReady
           /\ seen'[t] = Len(tables_init_state)
           /\ view'[t] = Locations
           /\ pc'[t] \in {"idle", "load"}
  PROVE  IInv'
  <1>1. Newest' = Newest
    BY DEF Newest
  <1>2. DecidedIsLast' /\ Decided'
    BY <1>1 DEF IInv, DecidedIsLast, Decided
  <1>3. OneInitializer'
    BY <1>1 DEF IInv, OneInitializer
  <1>4. InitProgress'
    BY DEF IInv, InitProgress, InitPC
  <1>5. BufferOwned' /\ PointerOwned'
    BY <1>1 DEF IInv, BufferOwned, PointerOwned, InitPC
  <1>6. Answered'
    BY <1>1 DEF IInv, Answered
  <1> QED
    BY <1>2, <1>3, <1>4, <1>5, <1>6 DEF IInv

LEMMA EnsureTablesKeeps ==
  ASSUME IInv, TypeOK', NEW t \in Threads, EnsureTables(t)
  PROVE  IInv'
  <1>1. /\ UNCHANGED <<tables_init_state, buffer, ptr, intact>>
        /\ pc[t] \notin InitPC /\ pc'[t] = "load"
        /\ \A u \in Threads \ {t} : pc'[u] = pc[u]
        /\ UNCHANGED <<seen, view, result>>
    BY DEF EnsureTables, Goto, ownVars, InitPC, IInv, TypeOK
  <1>2. result[t] = "true" => /\ Newest = kTablesReady
                              /\ seen[t] = Len(tables_init_state)
                              /\ view[t] = Locations
    BY DEF IInv, Answered
  <1> QED
    BY <1>1, <1>2, OutsideInit DEF InitPC

LEMMA TablesAreReadyKeeps ==
  ASSUME IInv, TypeOK', NEW t \in Threads, TablesAreReady(t)
  PROVE  IInv'
  <1> PICK m \in 1 .. Len(tables_init_state) :
        /\ Acquire(t, m)
        /\ IF tables_init_state[m].val = kTablesReady
           THEN Return(t, "true")
           ELSE Goto(t, "load") /\ UNCHANGED result
    BY DEF TablesAreReady
  <1>1. /\ UNCHANGED <<tables_init_state, buffer, ptr, intact>>
        /\ pc[t] \notin InitPC
        /\ pc'[t] \in {"idle", "load"}
        /\ \A u \in Threads \ {t} : /\ pc'[u] = pc[u]
                                     /\ seen'[u] = seen[u]
                                     /\ view'[u] = view[u]
                                     /\ result'[u] = result[u]
    BY DEF TablesAreReady, Acquire, Return, Goto, ownVars, InitPC, IInv, TypeOK
  <1>2. ASSUME result'[t] = "true"
        PROVE  tables_init_state[m].val = kTablesReady
    BY <1>2, AcquireAnswered DEF IInv
  <1> QED
    BY <1>1, <1>2, AcquireReady, OutsideInit DEF IInv, InitPC

LEMMA LoadKeeps ==
  ASSUME IInv, TypeOK', NEW t \in Threads, Load(t)
  PROVE  IInv'
  <1> PICK m \in 1 .. Len(tables_init_state) :
        /\ Acquire(t, m)
        /\ \/ /\ tables_init_state[m].val = kTablesReady
              /\ Return(t, "true")
           \/ /\ tables_init_state[m].val = kTablesFailed
              /\ Return(t, "false")
           \/ /\ tables_init_state[m].val \in {kTablesUninit, kTablesInProgress}
              /\ Goto(t, "cas")
              /\ UNCHANGED result
    BY DEF Load
  <1>1. /\ UNCHANGED <<tables_init_state, buffer, ptr, intact>>
        /\ pc[t] \notin InitPC
        /\ pc'[t] \in {"idle", "cas"}
        /\ \A u \in Threads \ {t} : /\ pc'[u] = pc[u]
                                     /\ seen'[u] = seen[u]
                                     /\ view'[u] = view[u]
                                     /\ result'[u] = result[u]
    BY DEF Load, Acquire, Return, Goto, ownVars, InitPC, IInv, TypeOK
  <1>2. ASSUME result'[t] = "true"
        PROVE  tables_init_state[m].val = kTablesReady /\ pc'[t] = "idle"
    BY <1>2, AcquireAnswered, SMTT(60)
    DEF IInv, TypeOK, Return, Goto, kTablesReady, kTablesFailed,
        kTablesUninit, kTablesInProgress
  <1> QED
    BY <1>1, <1>2, AcquireReady, OutsideInit DEF IInv, InitPC

LEMMA CasLoseKeeps ==
  ASSUME IInv, TypeOK', NEW t \in Threads, CasLose(t)
  PROVE  IInv'
  <1>1. /\ UNCHANGED <<tables_init_state, buffer, ptr, intact, result>>
        /\ pc[t] = "cas"
        /\ pc'[t] = "spin"
        /\ \A u \in Threads \ {t} : /\ pc'[u] = pc[u]
                                     /\ seen'[u] = seen[u]
                                     /\ view'[u] = view[u]
    BY DEF CasLose, Acquire, Goto, ownVars, IInv, TypeOK
  <1>2. result[t] # "true"
    BY <1>1 DEF IInv, Answered
  <1> QED
    BY <1>1, <1>2, OutsideInit DEF InitPC

LEMMA SpinKeeps ==
  ASSUME IInv, TypeOK', NEW t \in Threads, Spin(t)
  PROVE  IInv'
  <1> PICK m \in 1 .. Len(tables_init_state) :
        /\ Acquire(t, m)
        /\ \/ /\ tables_init_state[m].val = kTablesReady
              /\ Return(t, "true")
           \/ /\ tables_init_state[m].val \in {kTablesUninit, kTablesFailed}
              /\ Return(t, "false")
           \/ UNCHANGED <<pc, result>>
    BY DEF Spin
  <1>1. /\ UNCHANGED <<tables_init_state, buffer, ptr, intact>>
        /\ pc[t] = "spin"
        /\ pc'[t] \in {"idle", "spin"}
        /\ \A u \in Threads \ {t} : /\ pc'[u] = pc[u]
                                     /\ seen'[u] = seen[u]
                                     /\ view'[u] = view[u]
                                     /\ result'[u] = result[u]
    BY DEF Spin, Acquire, Return, Goto, ownVars, IInv, TypeOK
  <1>2. result[t] # "true"
    BY <1>1 DEF IInv, Answered
  <1>3. ASSUME result'[t] = "true"
        PROVE  tables_init_state[m].val = kTablesReady /\ pc'[t] = "idle"
    BY <1>2, <1>3 DEF IInv, TypeOK, Return, Goto
  <1> QED
    BY <1>1, <1>3, AcquireReady, OutsideInit DEF IInv, InitPC

LEMMA SpinTimeoutKeeps ==
  ASSUME IInv, TypeOK', NEW t \in Threads, SpinTimeout(t)
  PROVE  IInv'
  <1>1. /\ UNCHANGED <<tables_init_state, buffer, ptr, intact, seen, view>>
        /\ pc[t] = "spin" /\ pc'[t] = "idle" /\ result'[t] = "false"
        /\ \A u \in Threads \ {t} : pc'[u] = pc[u] /\ result'[u] = result[u]
    BY DEF SpinTimeout, Return, Goto, ownVars, IInv, TypeOK
  <1> QED
    BY <1>1, OutsideInit DEF InitPC

-----------------------------------------------------------------------------
(* The initialising thread is alone: nobody else initialises, owns a       *)
(* buffer, has set a pointer or has been answered true.                    *)
LEMMA Alone ==
  ASSUME IInv, NEW t \in Threads, pc[t] \in InitPC
  PROVE  /\ Newest = kTablesInProgress
         /\ \A u \in Threads \ {t} : /\ pc[u] \notin InitPC
                                     /\ buffer[u] = "none"
                                     /\ \A l \in Pointers : ptr[l] # u
         /\ \A u \in Threads : result[u] # "true"
  <1>1. /\ Newest = kTablesInProgress
        /\ \A u \in Threads \ {t} : pc[u] \notin InitPC
    BY DEF IInv, OneInitializer
  <1>2. Newest # kTablesReady
    BY <1>1 DEF kTablesInProgress, kTablesReady
  <1>3. \A u \in Threads \ {t} : buffer[u] = "none"
    BY <1>1, <1>2 DEF IInv, BufferOwned, InitPC
  <1>4. \A u \in Threads \ {t} : \A l \in Pointers : ptr[l] # u
    BY <1>1, <1>2 DEF IInv, PointerOwned, InitPC
  <1>5. \A u \in Threads : result[u] # "true"
    BY <1>2 DEF IInv, Answered
  <1> QED
    BY <1>1, <1>3, <1>4, <1>5

\* A store made while the atomic is undecided leaves decided states last.
LEMMA DecideOnce ==
  ASSUME TypeOK, DecidedIsLast, Newest \in {kTablesUninit, kTablesInProgress},
         NEW e \in Stores,
         tables_init_state' = Append(tables_init_state, e)
  PROVE  DecidedIsLast'
  <1> DEFINE m == Len(tables_init_state)
  <1>1. /\ Len(tables_init_state') = m + 1
        /\ m \in Nat \ {0}
        /\ \A i \in 1 .. m : tables_init_state'[i] = tables_init_state[i]
    BY AppendStore
  <1>2. \A i \in 1 .. m :
          tables_init_state[i].val \notin {kTablesReady, kTablesFailed}
    <2> SUFFICES ASSUME NEW i \in 1 .. m,
                        tables_init_state[i].val \in {kTablesReady, kTablesFailed}
                 PROVE  FALSE
      OBVIOUS
    <2>1. i = m
      BY DEF DecidedIsLast
    <2> QED
      BY <2>1 DEF Newest, kTablesUninit, kTablesInProgress, kTablesReady,
                  kTablesFailed
  <1>3. \A i \in 1 .. m + 1 : i = m + 1 \/ i \in 1 .. m
    BY <1>1
  <1> QED
    BY <1>1, <1>2, <1>3 DEF DecidedIsLast

\* Progress of the initialising thread before its final store.
LEMMA InsideInit ==
  ASSUME IInv, TypeOK', NEW t \in Threads, pc[t] \in InitPC, pc'[t] \in InitPC,
         UNCHANGED <<tables_init_state, seen, intact, result>>,
         \A u \in Threads \ {t} :
           /\ pc'[u] = pc[u]
           /\ buffer'[u] = buffer[u]
           /\ \A l \in Pointers : ptr'[l] = u => ptr[l] = u,
         pc'[t] # "alloc",
         (\E l \in Pointers : ptr'[l] = t) => pc'[t] = "publish",
         InitProgress'
  PROVE  IInv'
  <1>1. Newest' = Newest /\ Newest = kTablesInProgress
    BY Alone DEF Newest
  <1>2. Newest # kTablesReady /\ Newest # kTablesFailed
    BY <1>1 DEF kTablesInProgress, kTablesReady, kTablesFailed
  <1>3. DecidedIsLast' /\ Decided'
    BY <1>1, <1>2 DEF IInv, DecidedIsLast, Decided
  <1>4. OneInitializer'
    BY <1>1, Alone DEF OneInitializer
  <1>5. BufferOwned'
    BY Alone DEF BufferOwned, InitPC
  <1>6. PointerOwned'
    BY Alone DEF PointerOwned
  <1>7. Answered'
    BY Alone DEF Answered
  <1> QED
    BY <1>3, <1>4, <1>5, <1>6, <1>7 DEF IInv

LEMMA AllocKeeps ==
  ASSUME IInv, TypeOK', NEW t \in Threads, Alloc(t)
  PROVE  IInv'
  <1>1. /\ pc[t] = "alloc" /\ pc'[t] = "inflate" /\ buffer'[t] = "raw"
        /\ UNCHANGED <<tables_init_state, seen, view, intact, ptr, result>>
        /\ \A u \in Threads \ {t} : pc'[u] = pc[u] /\ buffer'[u] = buffer[u]
    BY DEF Alloc, Goto, IInv, TypeOK
  <1>2. \A l \in Pointers : ptr[l] # t
    BY <1>1, Alone DEF IInv, PointerOwned, InitPC, kTablesInProgress, kTablesReady
  <1>3. InitProgress'
    BY <1>1 DEF IInv, InitProgress
  <1> QED
    BY <1>1, <1>2, <1>3, InsideInit DEF InitPC

LEMMA InflateKeeps ==
  ASSUME IInv, TypeOK', NEW t \in Threads, Inflate(t)
  PROVE  IInv'
  <1>1. /\ pc[t] = "inflate" /\ pc'[t] = "convert" /\ buffer'[t] = "inflated"
        /\ intact /\ view'[t] = view[t] \cup {Payload}
        /\ UNCHANGED <<tables_init_state, seen, intact, ptr, result>>
        /\ \A u \in Threads \ {t} : /\ pc'[u] = pc[u]
                                     /\ buffer'[u] = buffer[u]
                                     /\ view'[u] = view[u]
    BY DEF Inflate, Goto, IInv, TypeOK
  <1>2. \A l \in Pointers : ptr[l] # t
    BY <1>1, Alone DEF IInv, PointerOwned, InitPC, kTablesInProgress, kTablesReady
  <1>3. InitProgress'
    BY <1>1 DEF IInv, InitProgress
  <1> QED
    BY <1>1, <1>2, <1>3, InsideInit DEF InitPC

LEMMA ConvertKeeps ==
  ASSUME IInv, TypeOK', NEW t \in Threads, Convert(t)
  PROVE  IInv'
  <1>1. /\ pc[t] = "convert" /\ pc'[t] = "publish" /\ buffer'[t] = "host"
        /\ UNCHANGED <<tables_init_state, seen, view, intact, ptr, result>>
        /\ \A u \in Threads \ {t} : pc'[u] = pc[u] /\ buffer'[u] = buffer[u]
    BY DEF Convert, Goto, IInv, TypeOK
  <1>2. \A l \in Pointers : ptr[l] # t
    BY <1>1, Alone DEF IInv, PointerOwned, InitPC, kTablesInProgress, kTablesReady
  <1>3. InitProgress'
    BY <1>1, <1>2 DEF IInv, InitProgress
  <1> QED
    BY <1>1, <1>2, <1>3, InsideInit DEF InitPC

LEMMA WritePointerKeeps ==
  ASSUME IInv, TypeOK', NEW t \in Threads, NEW l \in Pointers, WritePointer(t, l)
  PROVE  IInv'
  <1>1. /\ pc[t] = "publish"
        /\ UNCHANGED <<tables_init_state, seen, pc, buffer, intact, result>>
        /\ ptr'[l] = t
        /\ \A k \in Pointers \ {l} : ptr'[k] = ptr[k]
        /\ view'[t] = view[t] \cup {l}
        /\ \A u \in Threads \ {t} : view'[u] = view[u]
    BY DEF WritePointer, IInv, TypeOK
  <1>2. \A u \in Threads \ {t} : \A k \in Pointers : ptr'[k] = u => ptr[k] = u
    BY <1>1
  <1>3. \A u \in Threads \ {t} : pc[u] \notin InitPC
    BY <1>1, Alone DEF InitPC
  <1>4. InitProgress'
    BY <1>1, <1>3 DEF IInv, InitProgress, InitPC
  <1> QED
    BY <1>1, <1>2, <1>4, InsideInit DEF InitPC

LEMMA CasWinKeeps ==
  ASSUME IInv, TypeOK', NEW t \in Threads, CasWin(t)
  PROVE  IInv'
  <1> DEFINE m == Len(tables_init_state)
             acquired == view[t] \cup tables_init_state[m].view
             e == [val |-> kTablesInProgress, view |-> acquired]
  <1>1. /\ Newest = kTablesUninit
        /\ pc[t] = "cas" /\ pc'[t] = "alloc"
        /\ \A u \in Threads \ {t} : pc'[u] = pc[u]
        /\ \A u \in Threads \ {t} : view'[u] = view[u]
        /\ UNCHANGED <<buffer, ptr, intact, result>>
        /\ tables_init_state' = Append(tables_init_state, e)
    BY DEF CasWin, SlotIsFree, Goto, ownVars, IInv, TypeOK
  <1>2. e \in Stores
    <2>1. acquired \in SUBSET Locations
      BY StoreTypes, SMTT(60) DEF IInv, TypeOK
    <2> QED
      BY <2>1 DEF Stores, State, kTablesUninit, kTablesInProgress, kTablesFailed
  <1>3. Newest' = kTablesInProgress
    BY <1>1, <1>2, AppendStore DEF IInv
  <1>4. \A u \in Threads : pc[u] \notin InitPC
    BY <1>1 DEF IInv, OneInitializer, kTablesUninit, kTablesInProgress
  <1>5. Newest # kTablesReady
    BY <1>1 DEF kTablesUninit, kTablesReady
  <1>6. \A u \in Threads : /\ buffer[u] = "none"
                           /\ \A l \in Pointers : ptr[l] # u
                           /\ result[u] # "true"
    BY <1>4, <1>5 DEF IInv, BufferOwned, PointerOwned, Answered, InitPC
  <1>7. DecidedIsLast'
    BY <1>1, <1>2, DecideOnce DEF IInv
  <1>8. OneInitializer'
    BY <1>1, <1>3, <1>4 DEF OneInitializer
  <1>9. InitProgress'
    BY <1>1, <1>4 DEF InitProgress, InitPC
  <1>10. BufferOwned' /\ PointerOwned' /\ Answered'
    BY <1>1, <1>6 DEF BufferOwned, PointerOwned, Answered
  <1>11. Decided'
    BY <1>3 DEF Decided, kTablesInProgress, kTablesReady, kTablesFailed
  <1> QED
    BY <1>7, <1>8, <1>9, <1>10, <1>11 DEF IInv

\* The initialising thread gives up: kTablesUninit or kTablesFailed, with no
\* buffer left behind.
LEMMA GivingUp ==
  ASSUME IInv, TypeOK', NEW t \in Threads,
         pc[t] \in {"alloc", "inflate"}, pc'[t] = "idle",
         NEW v \in {kTablesUninit, kTablesFailed},
         v = kTablesFailed => ~intact,
         Release(t, v),
         buffer'[t] = "none", result'[t] = "false",
         UNCHANGED <<view, ptr, intact>>,
         \A u \in Threads \ {t} : /\ pc'[u] = pc[u]
                                  /\ buffer'[u] = buffer[u]
                                  /\ result'[u] = result[u]
  PROVE  IInv'
  <1> DEFINE e == [val |-> v, view |-> view[t]]
  <1>1. /\ e \in Stores
        /\ tables_init_state' = Append(tables_init_state, e)
    BY DEF Release, Stores, State, IInv, TypeOK, kTablesUninit, kTablesFailed
  <1>2. Newest' = v
    BY <1>1, AppendStore DEF IInv
  <1>3. \A u \in Threads : pc'[u] \notin InitPC
    BY Alone DEF InitPC
  <1>4. \A u \in Threads : buffer'[u] = "none" /\ result'[u] # "true"
    BY Alone DEF InitPC
  <1>5. \A u \in Threads, l \in Pointers : ptr'[l] # u
    <2>1. \A l \in Pointers : ptr[l] # t
      BY Alone DEF IInv, PointerOwned, InitPC, kTablesInProgress, kTablesReady
    <2> QED
      BY <2>1, Alone DEF InitPC
  <1>6. DecidedIsLast'
    BY <1>1, Alone, DecideOnce DEF IInv, InitPC
  <1>7. OneInitializer' /\ InitProgress'
    BY <1>3 DEF OneInitializer, InitProgress, InitPC
  <1>8. BufferOwned' /\ PointerOwned' /\ Answered'
    BY <1>4, <1>5 DEF BufferOwned, PointerOwned, Answered
  <1>9. Decided'
    BY <1>2 DEF Decided, kTablesUninit, kTablesReady, kTablesFailed
  <1> QED
    BY <1>6, <1>7, <1>8, <1>9 DEF IInv

LEMMA AllocFailKeeps ==
  ASSUME IInv, TypeOK', NEW t \in Threads, AllocFail(t)
  PROVE  IInv'
  <1>1. /\ pc[t] = "alloc" /\ pc'[t] = "idle" /\ result'[t] = "false"
        /\ Release(t, kTablesUninit)
        /\ UNCHANGED <<view, ptr, intact, buffer>>
        /\ \A u \in Threads \ {t} : pc'[u] = pc[u] /\ result'[u] = result[u]
    BY DEF AllocFail, GiveBackSlot, Return, Goto, IInv, TypeOK
  <1>2. buffer[t] = "none"
    BY <1>1, Alone DEF IInv, BufferOwned, InitPC, kTablesInProgress, kTablesReady
  <1> QED
    BY <1>1, <1>2, GivingUp DEF kTablesUninit, kTablesFailed

LEMMA RejectBlobKeeps ==
  ASSUME IInv, TypeOK', NEW t \in Threads, RejectBlob(t)
  PROVE  IInv'
  <1>1. /\ pc[t] = "inflate" /\ pc'[t] = "idle" /\ result'[t] = "false"
        /\ Release(t, kTablesFailed) /\ ~intact /\ buffer'[t] = "none"
        /\ UNCHANGED <<view, ptr, intact>>
        /\ \A u \in Threads \ {t} : /\ pc'[u] = pc[u]
                                     /\ result'[u] = result[u]
                                     /\ buffer'[u] = buffer[u]
    BY DEF RejectBlob, DeleteBuffer, Return, Goto, IInv, TypeOK
  <1> QED
    BY <1>1, GivingUp

LEMMA StoreReadyKeeps ==
  ASSUME IInv, TypeOK', NEW t \in Threads, StoreReady(t)
  PROVE  IInv'
  <1> DEFINE m == Len(tables_init_state)
             e == [val |-> kTablesReady, view |-> view[t]]
  <1>1. /\ pc[t] = "publish" /\ pc'[t] = "idle"
        /\ \A l \in Pointers : ptr[l] = t
        /\ UNCHANGED <<view, buffer, ptr, intact>>
        /\ tables_init_state' = Append(tables_init_state, e)
        /\ seen'[t] = m + 1
        /\ \A u \in Threads \ {t} : pc'[u] = pc[u] /\ result'[u] = result[u]
    BY DEF StoreReady, Release, Return, Goto, ownVars, IInv, TypeOK
  <1>2. e \in Stores
    BY DEF Stores, State, IInv, TypeOK, kTablesUninit, kTablesReady, kTablesFailed
  <1>3. /\ Newest' = kTablesReady
        /\ Len(tables_init_state') = m + 1
        /\ tables_init_state'[m + 1] = e
    BY <1>1, <1>2, AppendStore DEF IInv
  <1>4. view[t] = Locations /\ buffer[t] = "host" /\ intact
    BY <1>1 DEF IInv, InitProgress, TypeOK, Locations
  <1>5. \A u \in Threads \ {t} : /\ pc[u] \notin InitPC
                                 /\ buffer[u] = "none"
                                 /\ result[u] # "true"
    BY <1>1, Alone DEF InitPC
  <1>6. DecidedIsLast'
    BY <1>1, <1>2, Alone, DecideOnce DEF IInv, InitPC
  <1>7. OneInitializer' /\ InitProgress'
    BY <1>1, <1>5 DEF OneInitializer, InitProgress, InitPC
  <1>8. BufferOwned' /\ PointerOwned'
    BY <1>1, <1>3, <1>5 DEF BufferOwned, PointerOwned
  <1>9. Decided'
    BY <1>1, <1>3, <1>4 DEF Decided, kTablesReady, kTablesFailed
  <1>10. Answered'
    BY <1>1, <1>3, <1>4, <1>5 DEF Answered
  <1> QED
    BY <1>6, <1>7, <1>8, <1>9, <1>10 DEF IInv

-----------------------------------------------------------------------------
(* The inductive invariant and what follows from it.                       *)
LEMMA IInvInit == Init => IInv
  <1> SUFFICES ASSUME Init PROVE IInv
    OBVIOUS
  <1>1. TypeOK
    BY TypeInit
  <1>2. Newest = kTablesUninit /\ Len(tables_init_state) = 1
    BY DEF Init, Newest
  <1>3. DecidedIsLast /\ Decided
    BY <1>2 DEF Init, DecidedIsLast, Decided, kTablesUninit, kTablesReady,
                kTablesFailed
  <1>4. OneInitializer /\ InitProgress /\ BufferOwned /\ Answered
    BY DEF Init, OneInitializer, InitProgress, BufferOwned, Answered, InitPC
  <1>5. PointerOwned
    BY StoreAssumption DEF Init, PointerOwned
  <1> QED
    BY <1>1, <1>3, <1>4, <1>5 DEF IInv

LEMMA IInvNext == IInv /\ [Next]_vars => IInv'
  <1> SUFFICES ASSUME IInv, [Next]_vars
               PROVE  IInv'
    OBVIOUS
  <1>1. TypeOK'
    BY TypeNext DEF IInv
  <1>2. CASE UNCHANGED vars
    BY <1>2 DEF vars, IInv, TypeOK, DecidedIsLast, OneInitializer, InitProgress,
                BufferOwned, PointerOwned, Decided, Answered, Newest
  <1>3. CASE Next
    <2> PICK t \in Threads : Call(t) \/ Step(t)
      BY <1>3 DEF Next
    <2> QED
      BY <1>1, EnsureTablesKeeps, TablesAreReadyKeeps, LoadKeeps, CasWinKeeps,
         CasLoseKeeps, AllocFailKeeps, AllocKeeps, RejectBlobKeeps,
         InflateKeeps, ConvertKeeps, WritePointerKeeps, StoreReadyKeeps,
         SpinKeeps, SpinTimeoutKeeps
      DEF Call, Step
  <1> QED
    BY <1>2, <1>3

LEMMA IInvAlways == Spec => []IInv
  BY IInvInit, IInvNext, PTL DEF Spec

\* At most one thread initialises, for any number of threads that load stale
\* states and any number of failed allocations.
THEOREM OneInitializerAlways == Spec => []OneInitializer
  <1>1. IInv => OneInitializer
    BY DEF IInv
  <1> QED
    BY <1>1, IInvAlways, PTL

\* A thread answered true reads the tables without a data race, and reads one
\* verified buffer in host byte order.
THEOREM SafeTablesAlways == Spec => []SafeTables
  <1>1. IInv => SafeTables
    BY DEF IInv, Answered, Decided, SafeTables
  <1> QED
    BY <1>1, IInvAlways, PTL

\* No buffer is lost and no second one is ever made beside it.
THEOREM NoLeakAlways == Spec => []NoLeak
  <1>1. IInv => NoLeak
    <2> SUFFICES ASSUME IInv PROVE NoLeak
      OBVIOUS
    <2>1. ASSUME NEW t \in Threads, NEW u \in Threads,
                 buffer[t] # "none", buffer[u] # "none"
          PROVE  t = u
      <3>1. CASE pc[t] \in InitPC \/ pc[u] \in InitPC
        BY <2>1, <3>1, Alone
      <3>2. CASE pc[t] \notin InitPC /\ pc[u] \notin InitPC
        BY <2>1, <3>2, StoreAssumption DEF IInv, BufferOwned, InitPC
      <3> QED
        BY <3>1, <3>2
    <2> QED
      BY <2>1 DEF IInv, BufferOwned, NoLeak
  <1> QED
    BY <1>1, IInvAlways, PTL

-----------------------------------------------------------------------------
(* The protocol implements its promise.                                    *)
LEMMA PhaseValues ==
  /\ Newest = kTablesReady => Phase = "ready"
  /\ Newest = kTablesFailed => Phase = "failed"
  /\ Newest \in {kTablesUninit, kTablesInProgress} => Phase = "undecided"
  BY DEF Phase, kTablesUninit, kTablesInProgress, kTablesReady, kTablesFailed

LEMMA PhaseValuesNext ==
  /\ Newest' = kTablesReady => Phase' = "ready"
  /\ Newest' = kTablesFailed => Phase' = "failed"
  /\ Newest' \in {kTablesUninit, kTablesInProgress} => Phase' = "undecided"
  BY DEF Phase, kTablesUninit, kTablesInProgress, kTablesReady, kTablesFailed

LEMMA PhaseKept ==
  UNCHANGED tables_init_state => UNCHANGED Phase
  BY DEF Phase, Newest

LEMMA PromiseInit == Init => Promise!Init
  <1> SUFFICES ASSUME Init PROVE Promise!Init
    OBVIOUS
  <1>1. Newest = kTablesUninit
    BY DEF Init, Newest
  <1> QED
    BY <1>1, PhaseValues DEF Init, Promise!Init

\* Answers that leave the atomic alone.
LEMMA AnswerKept ==
  ASSUME UNCHANGED <<tables_init_state, intact, result>>
  PROVE  UNCHANGED Promise!vars
  BY PhaseKept DEF Promise!vars

LEMMA AnswerTrue ==
  ASSUME IInv, NEW t \in Threads, NEW m \in 1 .. Len(tables_init_state),
         Acquire(t, m), tables_init_state[m].val = kTablesReady,
         Return(t, "true"), UNCHANGED <<tables_init_state, intact>>
  PROVE  Promise!Grant(t)
  <1>1. Newest = kTablesReady
    BY AcquireReady DEF IInv
  <1> QED
    BY <1>1, PhaseValues, PhaseKept DEF Promise!Grant, Return

LEMMA AnswerFalse ==
  ASSUME NEW t \in Threads, result[t] # "true",
         Return(t, "false"), UNCHANGED <<Phase, intact>>
  PROVE  Promise!Refuse(t)
  BY DEF Promise!Refuse, Return

LEMMA PromiseStep ==
  ASSUME IInv, NEW t \in Threads, Call(t) \/ Step(t)
  PROVE  \/ Promise!Decide(t) \/ Promise!Grant(t) \/ Promise!Refuse(t)
         \/ UNCHANGED Promise!vars
  <1>1. CASE EnsureTables(t)
    BY <1>1, AnswerKept DEF EnsureTables, ownVars
  <1>2. CASE TablesAreReady(t)
    BY <1>2, AnswerKept, AnswerTrue DEF TablesAreReady, ownVars
  <1>3. CASE Load(t)
    <2>1. PICK m \in 1 .. Len(tables_init_state) :
            /\ Acquire(t, m)
            /\ \/ /\ tables_init_state[m].val = kTablesReady
                  /\ Return(t, "true")
               \/ /\ tables_init_state[m].val = kTablesFailed
                  /\ Return(t, "false")
               \/ UNCHANGED result
      BY <1>3 DEF Load
    <2>2. UNCHANGED <<tables_init_state, intact>>
      BY <1>3 DEF Load, ownVars
    <2>3. CASE tables_init_state[m].val = kTablesReady /\ Return(t, "true")
      BY <2>1, <2>2, <2>3, AnswerTrue
    <2>4. CASE tables_init_state[m].val = kTablesFailed /\ Return(t, "false")
      <3>1. result[t] # "true"
        BY <2>1, <2>4, AcquireAnswered DEF IInv, kTablesReady, kTablesFailed
      <3> QED
        BY <2>2, <2>4, <3>1, PhaseKept, AnswerFalse
    <2>5. CASE UNCHANGED result
      BY <2>2, <2>5, AnswerKept
    <2> QED
      BY <2>1, <2>3, <2>4, <2>5
  <1>4. CASE CasWin(t)
    <2> DEFINE acquired ==
                 view[t] \cup tables_init_state[Len(tables_init_state)].view
               e == [val |-> kTablesInProgress, view |-> acquired]
    <2>1. e \in Stores
      <3>1. view[t] \in SUBSET Locations
        BY DEF IInv, TypeOK
      <3>2. tables_init_state[Len(tables_init_state)].view \in SUBSET Locations
        <4>1. Len(tables_init_state) \in 1 .. Len(tables_init_state)
          BY StoreTypes DEF IInv
        <4> QED
          BY <4>1, StoreTypes DEF IInv
      <3> QED
        BY <3>1, <3>2 DEF Stores, State, kTablesUninit, kTablesInProgress,
                    kTablesFailed
    <2>2. tables_init_state' = Append(tables_init_state, e)
      BY <1>4 DEF CasWin
    <2>3. Newest' = kTablesInProgress
      BY <2>1, <2>2, AppendStore DEF IInv
    <2>4. Phase = "undecided" /\ Phase' = "undecided"
      BY <1>4, <2>3, PhaseValues, PhaseValuesNext DEF CasWin, SlotIsFree
    <2> QED
      BY <1>4, <2>4 DEF CasWin, ownVars, Promise!vars
  <1>5. CASE CasLose(t)
    BY <1>5, AnswerKept DEF CasLose, ownVars
  <1>6. CASE AllocFail(t)
    <2>1. pc[t] \in InitPC /\ Return(t, "false") /\ UNCHANGED intact
      BY <1>6 DEF AllocFail, InitPC
    <2>2. Newest' = kTablesUninit
      BY <1>6, ReleaseStores
      DEF AllocFail, GiveBackSlot, IInv, State, kTablesUninit, kTablesFailed
    <2>3. UNCHANGED Phase /\ result[t] # "true"
      BY <2>1, <2>2, Alone, PhaseValues, PhaseValuesNext
    <2> QED
      BY <2>1, <2>3, AnswerFalse
  <1>7. CASE RejectBlob(t)
    <2>1. /\ pc[t] \in InitPC /\ Return(t, "false") /\ UNCHANGED intact
          /\ ~intact
      BY <1>7 DEF RejectBlob, InitPC
    <2>2. Newest' = kTablesFailed
      BY <1>7, ReleaseStores
      DEF RejectBlob, IInv, State, kTablesUninit, kTablesFailed
    <2>3. Phase = "undecided" /\ Phase' = "failed" /\ result[t] # "true"
      BY <2>1, <2>2, Alone, PhaseValues, PhaseValuesNext
    <2> QED
      BY <2>1, <2>3 DEF Promise!Decide, Return
  <1>8. CASE Alloc(t) \/ Inflate(t) \/ Convert(t)
    BY <1>8, AnswerKept DEF Alloc, Inflate, Convert
  <1>9. CASE \E l \in Pointers : WritePointer(t, l)
    BY <1>9, AnswerKept DEF WritePointer
  <1>10. CASE StoreReady(t)
    <2>1. /\ pc[t] = "publish" /\ Return(t, "true") /\ UNCHANGED intact
      BY <1>10 DEF StoreReady, ownVars
    <2>2. intact /\ pc[t] \in InitPC
      BY <2>1 DEF IInv, InitProgress, InitPC
    <2>3. Newest' = kTablesReady
      BY <1>10, ReleaseStores
      DEF StoreReady, IInv, State, kTablesUninit, kTablesReady, kTablesFailed
    <2>4. Phase = "undecided" /\ Phase' = "ready" /\ result[t] # "true"
      BY <2>2, <2>3, Alone, PhaseValues, PhaseValuesNext
    <2> QED
      BY <2>1, <2>2, <2>4 DEF Promise!Decide, Return
  <1>11. CASE Spin(t)
    <2>1. PICK m \in 1 .. Len(tables_init_state) :
            /\ Acquire(t, m)
            /\ \/ /\ tables_init_state[m].val = kTablesReady
                  /\ Return(t, "true")
               \/ Return(t, "false")
               \/ UNCHANGED result
      BY <1>11 DEF Spin
    <2>2. UNCHANGED <<tables_init_state, intact>> /\ pc[t] = "spin"
      BY <1>11 DEF Spin, ownVars
    <2>3. result[t] # "true"
      BY <2>2 DEF IInv, Answered
    <2> QED
      BY <2>1, <2>2, <2>3, AnswerTrue, AnswerFalse, AnswerKept, PhaseKept
  <1>12. CASE SpinTimeout(t)
    <2>1. /\ UNCHANGED <<tables_init_state, intact>> /\ pc[t] = "spin"
          /\ Return(t, "false")
      BY <1>12 DEF SpinTimeout, ownVars
    <2>2. result[t] # "true"
      BY <2>1 DEF IInv, Answered
    <2> QED
      BY <2>1, <2>2, AnswerFalse, PhaseKept
  <1> QED
    BY <1>1, <1>2, <1>3, <1>4, <1>5, <1>6, <1>7, <1>8, <1>9, <1>10, <1>11,
       <1>12
    DEF Call, Step

LEMMA PromiseNext == IInv /\ [Next]_vars => [Promise!Next]_(Promise!vars)
  <1> SUFFICES ASSUME IInv, [Next]_vars
               PROVE  Promise!Next \/ UNCHANGED Promise!vars
    OBVIOUS
  <1>1. CASE UNCHANGED vars
    BY <1>1, AnswerKept DEF vars
  <1>2. CASE Next
    BY <1>2, PromiseStep DEF Next, Promise!Next
  <1> QED
    BY <1>1, <1>2

\* The atomics, loads of stale states, retries and timeouts implement the
\* promise: decided once, for good, and only for the reason it names.
THEOREM Implements == Spec => ImplementsPromise
  BY PromiseInit, PromiseNext, IInvAlways, PTL
  DEF Spec, ImplementsPromise, Promise!Spec
=============================================================================
