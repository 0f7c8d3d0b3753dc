------------------------ MODULE LearnedCapacityProofs ------------------------
(***************************************************************************)
(* For every nominal capacity, every set of capacities the fuel gauge may  *)
(* learn and every bound: the type of LearnedCapacity, and that a start    *)
(* in which no read and no write of the fuel gauge fails brings the saved  *)
(* capacity back after a reset.                                            *)
(***************************************************************************)
EXTENDS LearnedCapacity, TLAPS

-----------------------------------------------------------------------------
(***************************************************************************)
(* Type correctness                                                        *)
(***************************************************************************)

\* TypeOK with the capacities one by one.
Typed ==
  /\ sram \in Capacity /\ file \in Capacity /\ lost \in Capacity
  /\ sw_cap \in Capacity /\ hw_cap \in Capacity /\ nom_cap \in Capacity
  /\ pc \in Control
  /\ crashes \in 0..MaxCrashes
  /\ failures \in 0..MaxFailures
  /\ learns \in 0..MaxLearns
  /\ failed \subseteq Faults

\* A read or write that fails keeps the bound on failures and their kinds.
LEMMA FailsTyped ==
  ASSUME Typed, NEW kind, Fails(kind)
  PROVE  failures' \in 0..MaxFailures /\ failed' \subseteq Faults
BY ConstantsAssumption DEF Typed, Fails

\* Every variable keeps its type through every step of the health service, the
\* fuel gauge and the crashes.
THEOREM TypeCorrect == Spec => []TypeOK
<1> USE ConstantsAssumption DEF Capacity, Control
<1>1. Init => Typed
  BY DEF Init, Typed
<1>2. Typed /\ [Next]_vars => Typed'
  <2> SUFFICES ASSUME Typed, [Next]_vars PROVE Typed'
    OBVIOUS
  <2>1. CASE ReadFromStorage
    BY <2>1, FailsTyped DEF Typed, ReadFromStorage
  <2>2. CASE ReadNominalCapacity
    BY <2>2, FailsTyped DEF Typed, ReadNominalCapacity
  <2>3. CASE ReadFromSRAM
    BY <2>3, FailsTyped DEF Typed, ReadFromSRAM
  <2>4. CASE Restore
    BY <2>4 DEF Typed, Restore, bounds
  <2>5. CASE SaveToSRAM
    BY <2>5, FailsTyped DEF Typed, SaveToSRAM
  <2>6. CASE TruncateStorage
    BY <2>6, FailsTyped DEF Typed, TruncateStorage
  <2>7. CASE WriteStorage
    BY <2>7, FailsTyped DEF Typed, WriteStorage
  <2>8. CASE BatteryUpdate
    BY <2>8 DEF Typed, BatteryUpdate, bounds
  <2>9. CASE Learn
    BY <2>9 DEF Typed, Learn
  <2>10. CASE Crash
    BY <2>10 DEF Typed, Crash
  <2>11. CASE UNCHANGED vars
    BY <2>11 DEF Typed, vars, bounds
  <2> QED
    BY <2>1, <2>2, <2>3, <2>4, <2>5, <2>6, <2>7, <2>8, <2>9, <2>10, <2>11
    DEF Next, Service
<1>3. Typed => TypeOK
  BY DEF Typed, TypeOK
<1> QED
  BY <1>1, <1>2, <1>3, PTL DEF Spec

-----------------------------------------------------------------------------
(***************************************************************************)
(* The capacity comes back after a reset                                   *)
(***************************************************************************)
StartSucceeds == failed \subseteq {"storageWrite"}

\* How far the service is with bringing `lost' back.  The file keeps it, since
\* nothing else is ever written: what the service holds is `lost' as soon as it
\* has read the file.  Several starts may be cut short; the fuel gauge has the
\* nominal capacity until one of them reaches SaveToSRAM.
Recovery ==
  /\ file = lost
  /\ sram \in {Nominal, lost}
  /\ pc \notin {"truncate", "write"}
  /\ pc # "boot" => sw_cap = lost
  /\ pc \in {"readSram0", "restore"} => nom_cap = Nominal
  /\ pc = "restore" => hw_cap = sram
  /\ pc = "saveSram" => hw_cap = lost
  /\ pc \in {"idle", "readSram"} => sram = lost

RecoveryInv == StartSucceeds /\ lost # 0 => Recovery

\* A failure of another kind than a write of the file is remembered as such.
LEMMA OnlyFileWritesFail ==
  ASSUME NEW kind, Fails(kind), StartSucceeds'
  PROVE  kind = "storageWrite" /\ StartSucceeds
BY DEF Fails, StartSucceeds

\* Recovery is under way or complete whenever a saved capacity was lost by the
\* fuel gauge and neither a read nor the write of the fuel gauge has failed since.
THEOREM RecoveryInvariant == Spec => []RecoveryInv
<1> USE ConstantsAssumption
<1>1. Init => RecoveryInv
  BY DEF Init, RecoveryInv
<1>2. RecoveryInv /\ [Next]_vars => RecoveryInv'
  <2> SUFFICES ASSUME RecoveryInv, [Next]_vars, StartSucceeds', lost' # 0
               PROVE  Recovery'
    BY DEF RecoveryInv
  <2>1. CASE ReadFromStorage
    <3>1. CASE UNCHANGED <<failures, failed>>
      BY <2>1, <3>1 DEF ReadFromStorage, Fails, RecoveryInv, Recovery, StartSucceeds
    <3>2. CASE Fails("storageRead")
      BY <3>2, OnlyFileWritesFail
    <3> QED
      BY <2>1, <3>1, <3>2 DEF ReadFromStorage
  <2>2. CASE ReadNominalCapacity
    <3>1. CASE UNCHANGED <<failures, failed>>
      BY <2>2, <3>1 DEF ReadNominalCapacity, Fails, RecoveryInv, Recovery, StartSucceeds
    <3>2. CASE Fails("nominalRead")
      BY <3>2, OnlyFileWritesFail
    <3> QED
      BY <2>2, <3>1, <3>2 DEF ReadNominalCapacity
  <2>3. CASE ReadFromSRAM
    <3>1. CASE UNCHANGED <<failures, failed>>
      BY <2>3, <3>1 DEF ReadFromSRAM, Fails, RecoveryInv, Recovery, StartSucceeds
    <3>2. CASE Fails("sramRead")
      BY <3>2, OnlyFileWritesFail
    <3> QED
      BY <2>3, <3>1, <3>2 DEF ReadFromSRAM
  <2>4. CASE Restore
    BY <2>4 DEF Restore, bounds, RecoveryInv, Recovery, StartSucceeds
  <2>5. CASE SaveToSRAM
    <3>1. CASE UNCHANGED <<failures, failed>>
      BY <2>5, <3>1 DEF SaveToSRAM, Fails, RecoveryInv, Recovery, StartSucceeds
    <3>2. CASE Fails("sramWrite")
      BY <3>2, OnlyFileWritesFail
    <3> QED
      BY <2>5, <3>1, <3>2 DEF SaveToSRAM
  <2>6. CASE TruncateStorage
    <3>1. CASE UNCHANGED <<failures, failed>>
      BY <2>6, <3>1 DEF TruncateStorage, Fails, RecoveryInv, Recovery, StartSucceeds
    <3>2. CASE Fails("storageWrite")
      BY <2>6, <3>2, OnlyFileWritesFail DEF TruncateStorage, RecoveryInv, Recovery
    <3> QED
      BY <2>6, <3>1, <3>2 DEF TruncateStorage
  <2>7. CASE WriteStorage
    <3>1. CASE UNCHANGED <<failures, failed>>
      BY <2>7, <3>1 DEF WriteStorage, Fails, RecoveryInv, Recovery, StartSucceeds
    <3>2. CASE Fails("storageWrite")
      BY <2>7, <3>2, OnlyFileWritesFail DEF WriteStorage, RecoveryInv, Recovery
    <3> QED
      BY <2>7, <3>1, <3>2 DEF WriteStorage
  <2>8. CASE BatteryUpdate
    BY <2>8 DEF BatteryUpdate, bounds, RecoveryInv, Recovery, StartSucceeds
  <2>9. CASE Learn
    BY <2>9 DEF Learn
  <2>10. CASE Crash
    BY <2>10 DEF Crash, RecoveryInv, Recovery, StartSucceeds
  <2>11. CASE UNCHANGED vars
    BY <2>11 DEF vars, bounds, RecoveryInv, Recovery, StartSucceeds
  <2> QED
    BY <2>1, <2>2, <2>3, <2>4, <2>5, <2>6, <2>7, <2>8, <2>9, <2>10, <2>11
    DEF Next, Service
<1> QED
  BY <1>1, <1>2, PTL DEF Spec

\* "Restore backup value when capacity is reset to nominal": the fuel gauge has
\* the capacity of the file again when a start has ended, after any number of
\* crashes and failed writes of the file, unless a read or the write of the fuel
\* gauge has failed since it fell back.
THEOREM RestoredUnlessStartFailsHolds == Spec => []RestoredUnlessStartFails
<1>1. RecoveryInv => RestoredUnlessStartFails
  BY DEF RecoveryInv, Recovery, StartSucceeds, RestoredUnlessStartFails,
         RestoredAfterReset
<1> QED
  BY <1>1, RecoveryInvariant, PTL
=============================================================================
