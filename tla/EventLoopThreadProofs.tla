------------------------ MODULE EventLoopThreadProofs ------------------------
(***************************************************************************)
(* Theorems about EventLoopThread, for both backends and every way the     *)
(* application may stop the loop.                                          *)
(***************************************************************************)
EXTENDS EventLoopThread, TLAPS

USE DEF IInv, OwnerPCs, LoopPCs, Starting, Gone, Terminated, AfterShutdown

\* A new EventLoopThread satisfies the invariant.
LEMMA InitIInv == Init => IInv
<1> SUFFICES ASSUME Init PROVE IInv
  OBVIOUS
<1> USE ThreadConstants DEF Init
<1>1. Flags
  BY DEF Flags
<1>0. Places
  BY DEF Places
<1>2. Handshake
  BY DEF Handshake
<1>3. Owned /\ StopHeard /\ ShutdownOnce
  BY DEF Owned, StopHeard, ShutdownOnce
<1> QED
  BY <1>0, <1>1, <1>2, <1>3 DEF TypeOK

\* Every step of start(), stop() and the loop thread keeps the invariant.
LEMMA NextIInv == IInv /\ [Next]_vars => IInv'
<1> SUFFICES ASSUME IInv, [Next]_vars PROVE IInv'
  OBVIOUS
<1> USE ThreadConstants DEF TypeOK
<1>1. ASSUME ~Terminated, StartCall PROVE IInv'
  <2>0. Flags'
    BY <1>1 DEF StartCall, Flags
  <2>1. Places'
    BY <1>1 DEF StartCall, Places, Owned
  <2>2. Handshake'
    BY <1>1 DEF StartCall, Handshake, Flags, Places
  <2>3. Owned'
    BY <1>1 DEF StartCall, Owned, Handshake, Flags, Places
  <2>4. StopHeard' /\ ShutdownOnce'
    BY <1>1 DEF StartCall, Owned, Handshake, StopHeard, ShutdownOnce, Flags, Places
  <2> QED
    BY <2>0, <2>1, <2>2, <2>3, <2>4
<1>2. ASSUME ~Terminated, StopCall PROVE IInv'
  <2>0. Flags'
    BY <1>2 DEF StopCall, Flags
  <2>1. Places'
    BY <1>2 DEF StopCall, Places, Owned
  <2>2. Handshake'
    BY <1>2 DEF StopCall, Handshake, Flags, Places
  <2>3. Owned'
    BY <1>2 DEF StopCall, Owned, Handshake, Flags, Places
  <2>4. StopHeard' /\ ShutdownOnce'
    BY <1>2 DEF StopCall, Owned, Handshake, StopHeard, ShutdownOnce, Flags, Places
  <2> QED
    BY <2>0, <2>1, <2>2, <2>3, <2>4
<1>3. ASSUME ~Terminated, LoopStop PROVE IInv'
  <2>0. Flags'
    BY <1>3 DEF LoopStop, Flags
  <2>1. Places'
    BY <1>3 DEF LoopStop, Places, Owned
  <2>2. Handshake'
    BY <1>3 DEF LoopStop, Handshake, Flags, Places
  <2>3. Owned'
    BY <1>3 DEF LoopStop, Owned, Handshake, Flags, Places
  <2>4. StopHeard' /\ ShutdownOnce'
    BY <1>3 DEF LoopStop, Owned, Handshake, StopHeard, ShutdownOnce, Flags, Places
  <2> QED
    BY <2>0, <2>1, <2>2, <2>3, <2>4
<1>4. ASSUME ~Terminated, Spawn PROVE IInv'
  <2>0. Flags'
    BY <1>4 DEF Spawn, Flags
  <2>1. Places'
    BY <1>4 DEF Spawn, Places, Owned
  <2>2. Handshake'
    BY <1>4 DEF Spawn, Handshake, Flags, Places
  <2>3. Owned'
    BY <1>4 DEF Spawn, Owned, Handshake, Flags, Places
  <2>4. StopHeard' /\ ShutdownOnce'
    BY <1>4 DEF Spawn, Owned, Handshake, StopHeard, ShutdownOnce, Flags, Places
  <2> QED
    BY <2>0, <2>1, <2>2, <2>3, <2>4
<1>5. ASSUME ~Terminated, Assign PROVE IInv'
  BY <1>5 DEF Assign, Handshake, Owned, StopHeard, ShutdownOnce, Flags, Places
<1>6. ASSUME ~Terminated, StartDone PROVE IInv'
  <2>0. Flags'
    BY <1>6 DEF StartDone, Flags
  <2>1. Places'
    BY <1>6 DEF StartDone, Places, Owned
  <2>2. Handshake'
    BY <1>6 DEF StartDone, Handshake, Flags, Places
  <2>3. Owned'
    BY <1>6 DEF StartDone, Owned, Handshake, Flags, Places
  <2>4. StopHeard' /\ ShutdownOnce'
    BY <1>6 DEF StartDone, Owned, Handshake, StopHeard, ShutdownOnce, Flags, Places
  <2> QED
    BY <2>0, <2>1, <2>2, <2>3, <2>4
<1>7. ASSUME ~Terminated, StartFailed PROVE IInv'
  BY <1>7 DEF StartFailed, Handshake, Owned, StopHeard, ShutdownOnce, Flags, Places
<1>8. ASSUME ~Terminated, StopJoin PROVE IInv'
  BY <1>8 DEF StopJoin, Handshake, Owned, StopHeard, ShutdownOnce, Flags, Places
<1>9. ASSUME ~Terminated, InitEnv PROVE IInv'
  BY <1>9 DEF InitEnv, Handshake, Owned, StopHeard, ShutdownOnce, Flags, Places
<1>10. ASSUME ~Terminated, FailNotify PROVE IInv'
  BY <1>10 DEF FailNotify, Handshake, Owned, StopHeard, ShutdownOnce, Flags, Places
<1>11. ASSUME ~Terminated, Build PROVE IInv'
  BY <1>11 DEF Build, Handshake, Owned, StopHeard, ShutdownOnce, Flags, Places
<1>12. ASSUME ~Terminated, Run PROVE IInv'
  BY <1>12 DEF Run, Handshake, Owned, StopHeard, ShutdownOnce, Flags, Places
<1>13. ASSUME ~Terminated, Check PROVE IInv'
  BY <1>13 DEF Check, Handshake, Owned, StopHeard, ShutdownOnce, Flags, Places
<1>14. ASSUME ~Terminated, StepStore PROVE IInv'
  BY <1>14 DEF StepStore, Handshake, Owned, StopHeard, ShutdownOnce, Flags, Places
<1>15. ASSUME ~Terminated, StepNotify PROVE IInv'
  BY <1>15 DEF StepNotify, Handshake, Owned, StopHeard, ShutdownOnce, Flags, Places
<1>16. ASSUME ~Terminated, StepHook PROVE IInv'
  <2>0. Flags'
    BY <1>16 DEF StepHook, Flags
  <2>1. Places'
    BY <1>16 DEF StepHook, Places, Owned
  <2>2. Handshake'
    BY <1>16 DEF StepHook, Handshake, Flags, Places
  <2>3. Owned'
    BY <1>16 DEF StepHook, Owned, Handshake, Flags, Places
  <2>4. StopHeard' /\ ShutdownOnce'
    BY <1>16 DEF StepHook, Owned, Handshake, StopHeard, ShutdownOnce, Flags, Places
  <2> QED
    BY <2>0, <2>1, <2>2, <2>3, <2>4
<1>17. ASSUME ~Terminated, ShutdownHook PROVE IInv'
  <2>0. Flags'
    BY <1>17 DEF ShutdownHook, Flags
  <2>1. Places'
    BY <1>17 DEF ShutdownHook, Places, Owned
  <2>2. Handshake'
    BY <1>17 DEF ShutdownHook, Handshake, Flags, Places
  <2>3. Owned'
    BY <1>17 DEF ShutdownHook, Owned, Handshake, Flags, Places
  <2>4. StopHeard' /\ ShutdownOnce'
    BY <1>17 DEF ShutdownHook, Owned, Handshake, StopHeard, ShutdownOnce, Flags, Places
  <2> QED
    BY <2>0, <2>1, <2>2, <2>3, <2>4
<1>18. ASSUME ~Terminated, ShutdownPool PROVE IInv'
  <2>0. Flags'
    BY <1>18 DEF ShutdownPool, Flags
  <2>1. Places'
    BY <1>18 DEF ShutdownPool, Places
  <2>2. Handshake'
    BY <1>18 DEF ShutdownPool, Handshake, Flags, Places
  <2>3. Owned'
    BY <1>18 DEF ShutdownPool, Owned, Flags, Places
  <2>4. StopHeard' /\ ShutdownOnce'
    BY <1>18 DEF ShutdownPool, Owned, Handshake, StopHeard, ShutdownOnce, Flags, Places
  <2> QED
    BY <2>0, <2>1, <2>2, <2>3, <2>4
<1>19. ASSUME ~Terminated, Unwind PROVE IInv'
  <2>0. Flags'
    BY <1>19 DEF Unwind, Flags
  <2>1. Places'
    BY <1>19 DEF Unwind, Places, Owned
  <2>2. Handshake'
    BY <1>19 DEF Unwind, Handshake, Flags, Places
  <2>3. Owned'
    BY <1>19 DEF Unwind, Owned, Handshake, Flags, Places
  <2>4. StopHeard' /\ ShutdownOnce'
    BY <1>19 DEF Unwind, Owned, Handshake, StopHeard, ShutdownOnce, Flags, Places
  <2> QED
    BY <2>0, <2>1, <2>2, <2>3, <2>4
<1>20. ASSUME ~Terminated, Exit PROVE IInv'
  <2>0. Flags'
    BY <1>20 DEF Exit, Flags
  <2>1. Places'
    BY <1>20 DEF Exit, Places, Owned
  <2>2. Handshake'
    BY <1>20 DEF Exit, Handshake, Flags, Places
  <2>3. Owned'
    BY <1>20 DEF Exit, Owned, Handshake, Flags, Places
  <2>4. StopHeard' /\ ShutdownOnce'
    BY <1>20 DEF Exit, Owned, Handshake, StopHeard, ShutdownOnce, Flags, Places
  <2> QED
    BY <2>0, <2>1, <2>2, <2>3, <2>4
<1>21. ASSUME UNCHANGED vars PROVE IInv'
  BY <1>21 DEF vars, Handshake, Owned, StopHeard, ShutdownOnce, Flags, Places
<1> QED
  BY <1>1, <1>2, <1>3, <1>4, <1>5, <1>6, <1>7, <1>8, <1>9, <1>10, <1>11, <1>12, <1>13, <1>14, <1>15, <1>16, <1>17, <1>18, <1>19, <1>20, <1>21 DEF Next, OwnerStep, LoopStep

-----------------------------------------------------------------------------

\* The invariant holds in every reachable state.
THEOREM ThreadInvariant == Spec => []IInv
BY InitIInv, NextIInv, PTL DEF Spec

\* init_state is in its frame whenever the loop thread is about to store into
\* it; only the notify_one() that follows the store can come too late.
THEOREM ThreadStoreAlive == Spec => []StoreAlive
<1>1. IInv => StoreAlive
  BY DEF Handshake, StoreAlive
<1> QED
  BY <1>1, ThreadInvariant, PTL

\* A stop() that waits has been heard by the loop it waits for.
THEOREM ThreadStopHeard == Spec => []StopHeard
<1>1. IInv => StopHeard
  OBVIOUS
<1> QED
  BY <1>1, ThreadInvariant, PTL

\* Hooks find the loop and the pool, and sessions do not outlive the pool.
THEOREM ThreadHookHasPool == Spec => []HookHasPool
<1>1. IInv => HookHasPool
  BY DEF Owned, HookHasPool
<1> QED
  BY <1>1, ThreadInvariant, PTL

\* The shutdown hook runs exactly once, after the last step.
THEOREM ThreadShutdownOnce == Spec => []ShutdownOnce
<1>1. IInv => ShutdownOnce
  OBVIOUS
<1> QED
  BY <1>1, ThreadInvariant, PTL

\* Both of these and the types: the order of the teardown that the run checks.
THEOREM ThreadTeardownOrder == Spec => []TeardownOrder
<1>1. IInv /\ HookHasPool => TeardownOrder
  BY DEF TeardownOrder
<1> QED
  BY <1>1, ThreadInvariant, ThreadHookHasPool, PTL

\* After stop() has returned there is no loop thread, no pool, and running_ is
\* false.
THEOREM ThreadQuiesced == Spec => []Quiesced
<1>1. IInv => Quiesced
  BY DEF Handshake, Owned, Quiesced
<1> QED
  BY <1>1, ThreadInvariant, PTL
==============================================================================
