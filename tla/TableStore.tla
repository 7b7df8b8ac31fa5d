----------------------------- MODULE TableStore -----------------------------
(***************************************************************************)
(* The one-time, mutex-free initialisation of the Unicode tables:          *)
(* ensure_tables() and tables_are_ready() of src/table_store.hpp, called   *)
(* by any number of threads at any time.                                   *)
(*                                                                         *)
(* The only atomic is tables_init_state.  The code uses acquire loads, an  *)
(* acq_rel compare-exchange and release stores on it, and publishes plain  *)
(* (non-atomic) table pointers through them, so what is at stake is        *)
(* visibility, not just interleaving.  The model therefore keeps the C++   *)
(* memory model's own objects:                                             *)
(*                                                                         *)
(*   - tables_init_state is the MODIFICATION ORDER of the atomic: the      *)
(*     sequence of all the stores made to it, each carrying the set of     *)
(*     plain locations that a thread acquiring it is guaranteed to see;    *)
(*   - seen[t] is the coherence floor of t: a load may return any store    *)
(*     from there on, not only the newest one;                             *)
(*   - view[t] is what t is guaranteed to see; reading a location outside  *)
(*     it is a data race.                                                  *)
(***************************************************************************)
EXTENDS Integers, Sequences

CONSTANTS
  Threads,           \* the threads that call into ada::idna
  Stuck,             \* those the scheduler may suspend for ever
  Pointers,          \* the plain global pointers (idna_stage1 ... joining_value)
  Payload,           \* the bytes of the inflated buffer, one more plain location
  Null,              \* nullptr
  SpinLimit,         \* kTablesSpinLimit
  MaxAllocFailures   \* bound: failed allocations in a behaviour

ASSUME StoreAssumption ==
  /\ Stuck \subseteq Threads
  /\ Pointers # {}
  /\ Payload \notin Pointers
  /\ Null \notin Threads
  /\ SpinLimit \in Nat \ {0}
  /\ MaxAllocFailures \in Nat

VARIABLES
  tables_init_state, \* the stores to the atomic, oldest first
  seen,              \* thread -> index of the oldest store it may still load
  view,              \* thread -> plain locations whose writes it must see
  pc,                \* thread -> where it is in ensure_tables()
  spins,             \* thread -> iterations of its wait loop
  buffer,            \* thread -> state of the buffer that thread allocated
  ptr,               \* pointer -> the thread into whose buffer it points
  intact,            \* does the blob inflate to its size and match its CRC?
  allocFailures,     \* failed allocations so far
  result             \* thread -> its latest answer

vars == <<tables_init_state, seen, view, pc, spins, buffer, ptr, intact,
          allocFailures, result>>

kTablesUninit     == 0
kTablesInProgress == 1
kTablesReady      == 2
kTablesFailed     == 3
State == kTablesUninit .. kTablesFailed

Locations   == Pointers \cup {Payload}
Stores      == [val : State, view : SUBSET Locations]
Newest      == tables_init_state[Len(tables_init_state)].val
BufferState == {"none", "raw", "inflated", "host"}
InitPC      == {"alloc", "inflate", "convert", "publish"}
PC          == {"idle", "load", "cas", "spin"} \cup InitPC
Answer      == {"none", "true", "false"}

Init ==
  /\ tables_init_state = <<[val |-> kTablesUninit, view |-> {}]>>
  /\ seen = [t \in Threads |-> 1]
  /\ view = [t \in Threads |-> {}]
  /\ pc = [t \in Threads |-> "idle"]
  /\ spins = [t \in Threads |-> 0]
  /\ buffer = [t \in Threads |-> "none"]
  /\ ptr = [l \in Pointers |-> Null]
  /\ intact \in BOOLEAN
  /\ allocFailures = 0
  /\ result = [t \in Threads |-> "none"]

-----------------------------------------------------------------------------
(* The atomic.  An acquire load returns the m-th store and takes over its  *)
(* view; a release store appends and hands over the storer's view.         *)

Acquire(t, m) ==
  /\ m \in seen[t] .. Len(tables_init_state)
  /\ seen' = [seen EXCEPT ![t] = m]
  /\ view' = [view EXCEPT ![t] = @ \cup tables_init_state[m].view]

\* Mutant: a release store weakened to memory_order_relaxed.
StoreRelaxed(t, v) ==
  /\ tables_init_state' =
       Append(tables_init_state, [val |-> v, view |-> {}])
  /\ seen' = [seen EXCEPT ![t] = Len(tables_init_state) + 1]

Release(t, v) ==
  /\ tables_init_state' =
       Append(tables_init_state, [val |-> v, view |-> view[t]])
  /\ seen' = [seen EXCEPT ![t] = Len(tables_init_state) + 1]

Goto(t, label) == pc' = [pc EXCEPT ![t] = label]

Return(t, answer) ==
  /\ Goto(t, "idle")
  /\ result' = [result EXCEPT ![t] = answer]

\* What the initialising thread has of its own: buffer, pointers, blob.
ownVars == <<buffer, ptr, intact, allocFailures>>

-----------------------------------------------------------------------------
(* The two entry points.  is_already_nfc() asks tables_are_ready() first   *)
(* and calls ensure_tables() when told no; every other caller goes         *)
(* straight to ensure_tables().                                            *)

EnsureTables(t) ==
  /\ pc[t] = "idle"
  /\ Goto(t, "load")
  /\ UNCHANGED <<tables_init_state, seen, view, spins, ownVars, result>>

TablesAreReady(t) ==
  /\ pc[t] = "idle"
  /\ \E m \in 1 .. Len(tables_init_state) :
       /\ Acquire(t, m)
       /\ IF tables_init_state[m].val = kTablesReady
          THEN Return(t, "true")
          ELSE Goto(t, "load") /\ UNCHANGED result
  /\ UNCHANGED <<tables_init_state, spins, ownVars>>

\* The first load: ready and failed are answered at once, anything else, even
\* an initialisation in progress, is taken to the compare-exchange.
Load(t) ==
  /\ pc[t] = "load"
  /\ \E m \in 1 .. Len(tables_init_state) :
       /\ Acquire(t, m)
       /\ \/ /\ tables_init_state[m].val = kTablesReady
             /\ Return(t, "true")
          \/ /\ tables_init_state[m].val = kTablesFailed
             /\ Return(t, "false")
          \/ /\ tables_init_state[m].val \in {kTablesUninit, kTablesInProgress}
             /\ Goto(t, "cas")
             /\ UNCHANGED result
  /\ UNCHANGED <<tables_init_state, spins, ownVars>>

\* Mutant: a load and a later store in place of the exchange.
SlotLooksFree(t) ==
  \E m \in seen[t] .. Len(tables_init_state) :
    tables_init_state[m].val = kTablesUninit

\* The exchange compares with the newest store, however stale t's loads are.
SlotIsFree(t) == Newest = kTablesUninit

\* compare_exchange_strong(kTablesUninit -> kTablesInProgress).  A winning
\* exchange reads the newest store; a losing one is an acquire load of any
\* store that is not kTablesUninit.
CasWin(t) ==
  /\ pc[t] = "cas"
  /\ SlotIsFree(t)
  /\ LET m        == Len(tables_init_state)
         acquired == view[t] \cup tables_init_state[m].view
     IN  /\ view' = [view EXCEPT ![t] = acquired]
         /\ tables_init_state' =
              Append(tables_init_state,
                     [val |-> kTablesInProgress, view |-> acquired])
         /\ seen' = [seen EXCEPT ![t] = m + 1]
  /\ Goto(t, "alloc")
  /\ UNCHANGED <<spins, ownVars, result>>

CasLose(t) ==
  /\ pc[t] = "cas"
  /\ \E m \in 1 .. Len(tables_init_state) :
       /\ tables_init_state[m].val # kTablesUninit
       /\ Acquire(t, m)
  /\ Goto(t, "spin")
  /\ spins' = [spins EXCEPT ![t] = 0]
  /\ UNCHANGED <<tables_init_state, ownVars, result>>

-----------------------------------------------------------------------------
(* The winner of the exchange.                                             *)

\* Mutant: the slot is not given back.
KeepSlot(t) == UNCHANGED <<tables_init_state, seen>>

\* Mutant: running out of memory is latched like a corrupt blob.
LatchFailure(t) == Release(t, kTablesFailed)

GiveBackSlot(t) == Release(t, kTablesUninit)

\* new (std::nothrow) fails: the slot is given back, the failure not latched.
AllocFail(t) ==
  /\ pc[t] = "alloc"
  /\ allocFailures < MaxAllocFailures
  /\ allocFailures' = allocFailures + 1
  /\ GiveBackSlot(t)
  /\ Return(t, "false")
  /\ UNCHANGED <<view, spins, buffer, ptr, intact>>

Alloc(t) ==
  /\ pc[t] = "alloc"
  /\ buffer' = [buffer EXCEPT ![t] = "raw"]
  /\ Goto(t, "inflate")
  /\ UNCHANGED <<tables_init_state, seen, view, spins, ptr, intact,
                 allocFailures, result>>

\* Mutant: the error path forgets delete[].
KeepBuffer(t) == UNCHANGED buffer

DeleteBuffer(t) == buffer' = [buffer EXCEPT ![t] = "none"]

\* The blob inflates to the wrong size or fails its CRC: permanent.
RejectBlob(t) ==
  /\ pc[t] = "inflate"
  /\ ~intact
  /\ DeleteBuffer(t)
  /\ Release(t, kTablesFailed)
  /\ Return(t, "false")
  /\ UNCHANGED <<view, spins, ptr, intact, allocFailures>>

Inflate(t) ==
  /\ pc[t] = "inflate"
  /\ intact
  /\ buffer' = [buffer EXCEPT ![t] = "inflated"]
  /\ view' = [view EXCEPT ![t] = @ \cup {Payload}]
  /\ Goto(t, "convert")
  /\ UNCHANGED <<tables_init_state, seen, spins, ptr, intact, allocFailures,
                 result>>

\* convert_table_blob_to_host_endian(): after it the sections are in host
\* byte order, whatever the host's is.
Convert(t) ==
  /\ pc[t] = "convert"
  /\ buffer' = [buffer EXCEPT ![t] = "host"]
  /\ Goto(t, "publish")
  /\ UNCHANGED <<tables_init_state, seen, view, spins, ptr, intact,
                 allocFailures, result>>

\* The pointer assignments are plain stores before one release store: the
\* compiler and the processor may make them in any order.
WritePointer(t, l) ==
  /\ pc[t] = "publish"
  /\ ptr[l] # t
  /\ ptr' = [ptr EXCEPT ![l] = t]
  /\ view' = [view EXCEPT ![t] = @ \cup {l}]
  /\ UNCHANGED <<tables_init_state, seen, pc, spins, buffer, intact,
                 allocFailures, result>>

StoreReady(t) ==
  /\ pc[t] = "publish"
  /\ \A l \in Pointers : ptr[l] = t
  /\ Release(t, kTablesReady)
  /\ Return(t, "true")
  /\ UNCHANGED <<view, spins, ownVars>>

-----------------------------------------------------------------------------
(* Everyone else waits, but not for ever.                                  *)

\* Mutant: one iteration too many.
MayStillWait(t) == spins[t] <= SpinLimit

MayWait(t) == spins[t] < SpinLimit

Spin(t) ==
  /\ pc[t] = "spin"
  /\ MayWait(t)
  /\ \E m \in 1 .. Len(tables_init_state) :
       /\ Acquire(t, m)
       /\ \/ /\ tables_init_state[m].val = kTablesReady
             /\ Return(t, "true")
             /\ UNCHANGED spins
          \/ /\ tables_init_state[m].val \in {kTablesUninit, kTablesFailed}
             /\ Return(t, "false")
             /\ UNCHANGED spins
          \/ /\ tables_init_state[m].val = kTablesInProgress
             /\ spins' = [spins EXCEPT ![t] = @ + 1]
             /\ UNCHANGED <<pc, result>>
  /\ UNCHANGED <<tables_init_state, ownVars>>

\* Mutant: a wait loop without a limit.
NeverTimeOut(t) == FALSE

SpinTimeout(t) ==
  /\ pc[t] = "spin"
  /\ ~MayWait(t)
  /\ Return(t, "false")
  /\ UNCHANGED <<tables_init_state, seen, view, spins, ownVars>>

-----------------------------------------------------------------------------
Call(t) == EnsureTables(t) \/ TablesAreReady(t)

Step(t) ==
  \/ Load(t) \/ CasWin(t) \/ CasLose(t)
  \/ AllocFail(t) \/ Alloc(t) \/ RejectBlob(t) \/ Inflate(t) \/ Convert(t)
  \/ \E l \in Pointers : WritePointer(t, l)
  \/ StoreReady(t)
  \/ Spin(t) \/ SpinTimeout(t)

Next == \E t \in Threads : Call(t) \/ Step(t)

Spec == Init /\ [][Next]_vars

\* A thread that is inside a call keeps running, unless it is one of those the
\* scheduler may suspend for ever.  Nobody has to make a call.
FairSpec == Spec /\ \A t \in Threads \ Stuck : WF_vars(Step(t))

-----------------------------------------------------------------------------
(* What the protocol is for.                                               *)

\* Types and bounds; in particular the wait loop never counts past its limit.
TypeOK ==
  /\ tables_init_state \in Seq(Stores)
  /\ tables_init_state # <<>>
  /\ seen \in [Threads -> 1 .. Len(tables_init_state)]
  /\ view \in [Threads -> SUBSET Locations]
  /\ pc \in [Threads -> PC]
  /\ spins \in [Threads -> 0 .. SpinLimit]
  /\ buffer \in [Threads -> BufferState]
  /\ ptr \in [Pointers -> Threads \cup {Null}]
  /\ intact \in BOOLEAN
  /\ allocFailures \in 0 .. MaxAllocFailures
  /\ result \in [Threads -> Answer]

\* At most one thread is ever between winning the exchange and its final
\* store (table_store.hpp:302-376), although threads act on stale loads and
\* the slot may be given back and taken again.
OneInitializer ==
  \A t \in Threads : pc[t] \in InitPC =>
    /\ Newest = kTablesInProgress
    /\ \A u \in Threads \ {t} : pc[u] \notin InitPC

\* "Returns true only when all table pointers are safe to use"
\* (table_store.hpp:291): a thread that was answered true sees every pointer
\* and the bytes behind it without a data race, all pointers lead into one
\* buffer, and that buffer holds a verified payload in host byte order.
SafeTables ==
  \A t \in Threads : result[t] = "true" =>
    /\ intact
    /\ view[t] = Locations
    /\ \E owner \in Threads :
         /\ buffer[owner] = "host"
         /\ \A l \in Pointers : ptr[l] = owner

\* The tables are a process-lifetime allocation, made at most once: a buffer
\* exists only while its thread initialises or once it is published, and at
\* most one exists (table_store.hpp:266, 319).
NoLeak ==
  /\ \A t \in Threads : buffer[t] # "none" =>
       \/ pc[t] \in {"inflate", "convert", "publish"}
       \/ Newest = kTablesReady /\ \A l \in Pointers : ptr[l] = t
  /\ \A t, u \in Threads : buffer[t] # "none" /\ buffer[u] # "none" => t = u

\* What the newest store says about the process: an initialisation that was
\* only begun, or given back, has decided nothing.
Phase ==
  CASE Newest = kTablesReady  -> "ready"
    [] Newest = kTablesFailed -> "failed"
    [] OTHER                  -> "undecided"

\* Every step is a step of the abstract promise or changes nothing in it:
\* decided once and for good, failed only on a corrupt blob and never for lack
\* of memory, and no thread that was told true is later told false.
Promise == INSTANCE TablesPromise WITH phase <- Phase, answer <- result

ImplementsPromise == Promise!Spec

\* "Cap spin-wait so a stuck peer cannot hang the process forever"
\* (table_store.hpp:270): a call of a thread that keeps running returns, even
\* if the initialising thread is suspended for ever.
CallReturns ==
  \A t \in Threads \ Stuck : pc[t] # "idle" ~> pc[t] = "idle"

\* If no thread is suspended for ever, an initialisation in progress ends: no
\* path out of it, the failed allocation included, leaves the slot taken.
SlotReleased ==
  (\A t \in Stuck : WF_vars(Step(t))) =>
    (Newest = kTablesInProgress ~> Newest # kTablesInProgress)
=============================================================================
