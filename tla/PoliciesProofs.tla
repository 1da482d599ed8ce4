--------------------------- MODULE PoliciesProofs ---------------------------
(***************************************************************************)
(* What the runs of TLC check of the Logger under each policy follows from *)
(* the theorems about Logger: each setup of MCLoggerPolicies is a Logger   *)
(* that meets LoggerAssumption.                                            *)
(***************************************************************************)
EXTENDS MCLoggerPolicies, FiniteSetTheorems, TLAPS

LEMMA FewClients == IsFiniteSet({c1, c2}) /\ IsFiniteSet({c1, c2, c3})
<1>1. IsFiniteSet({c1})
  BY FS_Singleton
<1>2. IsFiniteSet({c1} \cup {c2})
  BY <1>1, FS_AddElement
<1>3. IsFiniteSet(({c1} \cup {c2}) \cup {c3})
  BY <1>2, FS_AddElement
<1>4. {c1} \cup {c2} = {c1, c2} /\ ({c1} \cup {c2}) \cup {c3} = {c1, c2, c3}
  OBVIOUS
<1>5. QED
  BY <1>2, <1>3, <1>4

LEMMA BlockParameters == Block!LoggerAssumption
BY FewClients, ThreadsAssumption DEF Block!LoggerAssumption, Block!IsFiniteSet, IsFiniteSet

LEMMA DropOldestParameters == DropOldest!LoggerAssumption
BY FewClients, ThreadsAssumption DEF DropOldest!LoggerAssumption, DropOldest!IsFiniteSet, IsFiniteSet

LEMMA DropNewestParameters == DropNewest!LoggerAssumption
BY FewClients, ThreadsAssumption DEF DropNewest!LoggerAssumption, DropNewest!IsFiniteSet, IsFiniteSet

LEMMA OverlapParameters == Overlap!LoggerAssumption
BY FewClients, ThreadsAssumption DEF Overlap!LoggerAssumption, Overlap!IsFiniteSet, IsFiniteSet

LEMMA SyncParameters == Sync!LoggerAssumption
BY FewClients, ThreadsAssumption DEF Sync!LoggerAssumption, Sync!IsFiniteSet, IsFiniteSet

-----------------------------------------------------------------------------
(* A behaviour is all the time one of the same setup, and of its Logger.    *)
LEMMA BlockRuns == SafetySpec => []~(setup = "block") \/ Block!SafetySpec
<1>1. Init /\ setup = "block" => Block!Init
  BY DEF Init
<1>2. setup = "block" /\ [Next]_<<setup, vars>> => [Block!Next]_(Block!vars)
  BY DEF Next, vars, Block!vars, Block!qvars, Block!hist
<1>3. setup = "block" /\ [Next]_<<setup, vars>> => (setup = "block")'
  BY DEF Next
<1>4. ~(setup = "block") /\ [Next]_<<setup, vars>> => (~(setup = "block"))'
  BY DEF Next
<1>5. QED
  BY <1>1, <1>2, <1>3, <1>4, PTL DEF SafetySpec, Block!SafetySpec

LEMMA DropOldestRuns == SafetySpec => []~(setup = "drop oldest") \/ DropOldest!SafetySpec
<1>1. Init /\ setup = "drop oldest" => DropOldest!Init
  BY DEF Init
<1>2. setup = "drop oldest" /\ [Next]_<<setup, vars>> => [DropOldest!Next]_(DropOldest!vars)
  BY DEF Next, vars, DropOldest!vars, DropOldest!qvars, DropOldest!hist
<1>3. setup = "drop oldest" /\ [Next]_<<setup, vars>> => (setup = "drop oldest")'
  BY DEF Next
<1>4. ~(setup = "drop oldest") /\ [Next]_<<setup, vars>> => (~(setup = "drop oldest"))'
  BY DEF Next
<1>5. QED
  BY <1>1, <1>2, <1>3, <1>4, PTL DEF SafetySpec, DropOldest!SafetySpec

LEMMA DropNewestRuns == SafetySpec => []~(setup = "drop newest") \/ DropNewest!SafetySpec
<1>1. Init /\ setup = "drop newest" => DropNewest!Init
  BY DEF Init
<1>2. setup = "drop newest" /\ [Next]_<<setup, vars>> => [DropNewest!Next]_(DropNewest!vars)
  BY DEF Next, vars, DropNewest!vars, DropNewest!qvars, DropNewest!hist
<1>3. setup = "drop newest" /\ [Next]_<<setup, vars>> => (setup = "drop newest")'
  BY DEF Next
<1>4. ~(setup = "drop newest") /\ [Next]_<<setup, vars>> => (~(setup = "drop newest"))'
  BY DEF Next
<1>5. QED
  BY <1>1, <1>2, <1>3, <1>4, PTL DEF SafetySpec, DropNewest!SafetySpec

LEMMA OverlapRuns == SafetySpec => []~(setup = "overlap") \/ Overlap!SafetySpec
<1>1. Init /\ setup = "overlap" => Overlap!Init
  BY DEF Init
<1>2. setup = "overlap" /\ [Next]_<<setup, vars>> => [Overlap!Next]_(Overlap!vars)
  BY DEF Next, vars, Overlap!vars, Overlap!qvars, Overlap!hist
<1>3. setup = "overlap" /\ [Next]_<<setup, vars>> => (setup = "overlap")'
  BY DEF Next
<1>4. ~(setup = "overlap") /\ [Next]_<<setup, vars>> => (~(setup = "overlap"))'
  BY DEF Next
<1>5. QED
  BY <1>1, <1>2, <1>3, <1>4, PTL DEF SafetySpec, Overlap!SafetySpec

LEMMA SyncRuns == SafetySpec => []~(setup = "sync") \/ Sync!SafetySpec
<1>1. Init /\ setup = "sync" => Sync!Init
  BY DEF Init
<1>2. setup = "sync" /\ [Next]_<<setup, vars>> => [Sync!Next]_(Sync!vars)
  BY DEF Next, vars, Sync!vars, Sync!qvars, Sync!hist
<1>3. setup = "sync" /\ [Next]_<<setup, vars>> => (setup = "sync")'
  BY DEF Next
<1>4. ~(setup = "sync") /\ [Next]_<<setup, vars>> => (~(setup = "sync"))'
  BY DEF Next
<1>5. QED
  BY <1>1, <1>2, <1>3, <1>4, PTL DEF SafetySpec, Sync!SafetySpec

-----------------------------------------------------------------------------
(* Under each policy an entry is in exactly one place at a time.            *)
THEOREM OnePlaceInEachSetup == SafetySpec => []ExactlyOnePlace
<1>1. Block!SafetySpec => []Block!ExactlyOnePlace
  <2>1. 2 > 0
    OBVIOUS
  <2>2. QED
    BY <2>1, BlockParameters, Block!EntriesInOnePlace
<1>2. DropOldest!SafetySpec => []DropOldest!ExactlyOnePlace
  <2>1. 1 > 0
    OBVIOUS
  <2>2. QED
    BY <2>1, DropOldestParameters, DropOldest!EntriesInOnePlace
<1>3. DropNewest!SafetySpec => []DropNewest!ExactlyOnePlace
  <2>1. 1 > 0
    OBVIOUS
  <2>2. QED
    BY <2>1, DropNewestParameters, DropNewest!EntriesInOnePlace
<1>4. Overlap!SafetySpec => []Overlap!ExactlyOnePlace
  <2>1. 1 > 0
    OBVIOUS
  <2>2. QED
    BY <2>1, OverlapParameters, Overlap!EntriesInOnePlace
<1>5. Sync!SafetySpec => []Sync!ExactlyOnePlace
  <2>1. 2 > 0
    OBVIOUS
  <2>2. QED
    BY <2>1, SyncParameters, Sync!EntriesInOnePlace
<1>6. QED
  BY <1>1, <1>2, <1>3, <1>4, <1>5,
     BlockRuns, DropOldestRuns, DropNewestRuns, OverlapRuns, SyncRuns, PTL DEF ExactlyOnePlace

(* Under each policy pending_ counts what is on its way, no more, no less.  *)
THEOREM PendingInEachSetup == SafetySpec => []PendingAccounting
<1>1. Block!SafetySpec => []Block!PendingAccounting
  BY BlockParameters, Block!PendingIsExact
<1>2. DropOldest!SafetySpec => []DropOldest!PendingAccounting
  BY DropOldestParameters, DropOldest!PendingIsExact
<1>3. DropNewest!SafetySpec => []DropNewest!PendingAccounting
  BY DropNewestParameters, DropNewest!PendingIsExact
<1>4. Overlap!SafetySpec => []Overlap!PendingAccounting
  BY OverlapParameters, Overlap!PendingIsExact
<1>5. QED
  BY <1>1, <1>2, <1>3, <1>4,
     BlockRuns, DropOldestRuns, DropNewestRuns, OverlapRuns, PTL DEF PendingAccounting

(* Under each policy a zero is announced to every flusher but one that the  *)
(* notification missed, also a zero that a producer's give-back reaches.    *)
THEOREM FlusherInEachSetup == SafetySpec => []NoStrandedFlusher
<1>1. Block!SafetySpec => []Block!NoStrandedFlusher
  BY BlockParameters, Block!FlusherNotStranded
<1>2. DropOldest!SafetySpec => []DropOldest!NoStrandedFlusher
  BY DropOldestParameters, DropOldest!FlusherNotStranded
<1>3. DropNewest!SafetySpec => []DropNewest!NoStrandedFlusher
  BY DropNewestParameters, DropNewest!FlusherNotStranded
<1>4. Overlap!SafetySpec => []Overlap!NoStrandedFlusher
  BY OverlapParameters, Overlap!FlusherNotStranded
<1>5. QED
  BY <1>1, <1>2, <1>3, <1>4,
     BlockRuns, DropOldestRuns, DropNewestRuns, OverlapRuns, PTL DEF NoStrandedFlusher

(* Under each policy the sinks have a client's entries in program order.    *)
THEOREM OrderInEachSetup == SafetySpec => []ProgramOrder
<1>1. DropOldest!SafetySpec => []DropOldest!ProgramOrder
  BY DropOldestParameters, DropOldest!SinksInProgramOrder
<1>2. DropNewest!SafetySpec => []DropNewest!ProgramOrder
  BY DropNewestParameters, DropNewest!SinksInProgramOrder
<1>3. Overlap!SafetySpec => []Overlap!ProgramOrder
  BY OverlapParameters, Overlap!SinksInProgramOrder
<1>4. Sync!SafetySpec => []Sync!ProgramOrder
  BY SyncParameters, Sync!SinksInProgramOrder
<1>5. QED
  BY <1>1, <1>2, <1>3, <1>4,
     DropOldestRuns, DropNewestRuns, OverlapRuns, SyncRuns, PTL DEF ProgramOrder

(* Under each policy flush() covers what was logged before it.              *)
THEOREM BarrierInEachSetup == SafetySpec => []FlushIsBarrier
<1>1. Block!SafetySpec => []Block!FlushIsBarrier
  BY BlockParameters, Block!FlushCoversTheLogged
<1>2. DropOldest!SafetySpec => []DropOldest!FlushIsBarrier
  BY DropOldestParameters, DropOldest!FlushCoversTheLogged
<1>3. DropNewest!SafetySpec => []DropNewest!FlushIsBarrier
  BY DropNewestParameters, DropNewest!FlushCoversTheLogged
<1>4. Overlap!SafetySpec => []Overlap!FlushIsBarrier
  BY OverlapParameters, Overlap!FlushCoversTheLogged
<1>5. Sync!SafetySpec => []Sync!FlushIsBarrier
  BY SyncParameters, Sync!FlushCoversTheLogged
<1>6. QED
  BY <1>1, <1>2, <1>3, <1>4, <1>5,
     BlockRuns, DropOldestRuns, DropNewestRuns, OverlapRuns, SyncRuns, PTL DEF FlushIsBarrier

(* The destructor delivers in each setup whose owner waits for the callers. *)
THEOREM DeliveryInEachSetup == SafetySpec => []ShutdownDelivers
<1>1. Block!SafetySpec => []Block!ShutdownDelivers
  BY BlockParameters, Block!DestructorDelivers
<1>2. DropOldest!SafetySpec => []DropOldest!ShutdownDelivers
  BY DropOldestParameters, DropOldest!DestructorDelivers
<1>3. DropNewest!SafetySpec => []DropNewest!ShutdownDelivers
  BY DropNewestParameters, DropNewest!DestructorDelivers
<1>4. Sync!SafetySpec => []Sync!ShutdownDelivers
  BY SyncParameters, Sync!DestructorDelivers
<1>5. QED
  BY <1>1, <1>2, <1>3, <1>4,
     BlockRuns, DropOldestRuns, DropNewestRuns, SyncRuns, PTL DEF ShutdownDelivers

(* Under each policy the Logger is to its callers what LogService says.     *)
THEOREM PromiseInEachSetup == SafetySpec => KeepsPromise
<1>1. Block!SafetySpec => Block!Service!Spec
  BY BlockParameters, Block!LoggerKeepsPromise DEF Block!KeepsPromise
<1>2. DropOldest!SafetySpec => DropOldest!Service!Spec
  BY DropOldestParameters, DropOldest!LoggerKeepsPromise DEF DropOldest!KeepsPromise
<1>3. DropNewest!SafetySpec => DropNewest!Service!Spec
  BY DropNewestParameters, DropNewest!LoggerKeepsPromise DEF DropNewest!KeepsPromise
<1>4. Overlap!SafetySpec => Overlap!Service!Spec
  BY OverlapParameters, Overlap!LoggerKeepsPromise DEF Overlap!KeepsPromise
<1>5. Sync!SafetySpec => Sync!Service!Spec
  BY SyncParameters, Sync!LoggerKeepsPromise DEF Sync!KeepsPromise
<1>6. QED
  BY <1>1, <1>2, <1>3, <1>4, <1>5, BlockRuns, DropOldestRuns, DropNewestRuns, OverlapRuns, SyncRuns, PTL
  DEF KeepsPromise, Block!Service!Spec, DropOldest!Service!Spec, DropNewest!Service!Spec, Overlap!Service!Spec, Sync!Service!Spec

=============================================================================
