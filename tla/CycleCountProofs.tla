-------------------------- MODULE CycleCountProofs --------------------------
(***************************************************************************)
(* Proofs about CycleCount, for every number of buckets, every trigger and *)
(* every pattern of crashes, power losses and failing reads and writes: no *)
(* one of them loses a cycle count that was saved, or makes the service    *)
(* write less than was saved.                                              *)
(***************************************************************************)
EXTENDS CycleCount, TLAPS

(***************************************************************************)
(* The inductive invariant.  With nothing gone wrong both copies have what *)
(* was saved, the file but for the time it is truncated.  With one strike  *)
(* the counts are in one of two places, and the service is about to        *)
(* overwrite one of them only with counts that are as high, or when the    *)
(* other has them all.                                                     *)
(***************************************************************************)

\* A fresh process has read nothing, then the file at most; in between two
\* updates its copies agree.
CopiesAgree ==
  /\ pc = "boot" => sw_bins = Zero /\ hw_bins = Zero
  /\ pc = "readSram" => hw_bins = sw_bins \/ (hw_bins = Zero /\ sw_bins = file)
  /\ pc \in {"saveSram", "truncate", "write", "idle"} => hw_bins = sw_bins

\* Nothing has gone wrong: both copies are intact, and what the service has
\* read of the fuel gauge is in it, or on its way there.
BothIntact ==
  strikes = 0 =>
    /\ SramIntact
    /\ pc # "write" => FileIntact
    /\ pc = "update" => \A i \in Buckets : best[i] <= hw_bins[i] /\ hw_bins[i] <= sram[i]
    /\ pc = "saveSram" => \A i \in Buckets : restore \/ hw_bins[i] <= sram[i]
    /\ pc \in {"truncate", "write"} => \A i \in Buckets : sw_bins[i] <= sram[i]

\* After the file has been read, what was saved is in the service's copy of it
\* or in the fuel gauge.
ReadOrInSram ==
  strikes <= 1 /\ pc # "boot" =>
    \A i \in Buckets : best[i] <= sw_bins[i] \/ best[i] <= sram[i]

\* Copies that disagree are complete together, and the fuel gauge has what was
\* read from it.
Complete ==
  strikes <= 1 /\ pc = "update" =>
    \/ sw_bins = hw_bins
    \/ \A i \in Buckets : /\ best[i] <= sw_bins[i] \/ best[i] <= hw_bins[i]
                          /\ hw_bins[i] <= sram[i]

\* The fuel gauge is overwritten with complete counts, and the file only when
\* the fuel gauge has them or is about to.
SafeToSave ==
  strikes <= 1 /\ pc = "saveSram" =>
    \/ ~restore /\ ~backup
    \/ \A i \in Buckets : /\ best[i] <= hw_bins[i]
                          /\ restore \/ best[i] <= sram[i]

\* While the file is written the fuel gauge has every count.
SafeToTruncate ==
  strikes <= 1 /\ pc \in {"truncate", "write"} =>
    \A i \in Buckets : best[i] <= sw_bins[i] /\ best[i] <= sram[i]

\* The file is empty between truncation and write.
Truncated == pc = "write" => file = Zero

CountsInv == /\ TypeOK
             /\ SavedCountsSurvive
             /\ CopiesAgree
             /\ BothIntact
             /\ ReadOrInSram
             /\ Complete
             /\ SafeToSave
             /\ SafeToTruncate
             /\ Truncated

-----------------------------------------------------------------------------
USE DEF disk, soc

\* A bucket's count is a natural number.
LEMMA BinsType ==
  ASSUME NEW b \in Bins, NEW i \in Buckets
  PROVE  b[i] \in Nat /\ b[i] <= MaxCount
BY ConstantsAssumption DEF Bins

\* Empty counters are counters.
LEMMA ZeroType == Zero \in Bins /\ \A i \in Buckets : Zero[i] = 0
BY ConstantsAssumption DEF Zero, Bins

\* What strikes says after a step: nothing has gone wrong, or no more than
\* before and now, unless the service came to rest with both copies intact.
LEMMA StruckLaw ==
  ASSUME TypeOK, NEW harm \in 0..2, Struck(harm)
  PROVE  /\ strikes' \in 0..2
         /\ strikes' = 0 => \/ strikes = 0 /\ harm = 0
                            \/ FileIntact' /\ SramIntact' /\ pc' \in {"boot", "idle"}
         /\ strikes' <= 1 => \/ strikes + harm <= 1
                             \/ FileIntact' /\ SramIntact' /\ pc' \in {"boot", "idle"}
BY DEF Struck, TypeOK

\* A crash is a strike when it tears the file, a power loss always, or two.
LEMMA CrashHarm ==
  /\ Crash => IF pc = "write" THEN Struck(1) ELSE Struck(0)
  /\ PowerLoss => IF pc = "write" THEN Struck(2) ELSE Struck(1)
<1>1. CASE pc = "write"
  BY <1>1 DEF Crash, PowerLoss
<1>2. CASE pc # "write"
  BY <1>2 DEF Crash, PowerLoss
<1> QED
  BY <1>1, <1>2

\* Every step preserves the types.
LEMMA TypeStep ==
  ASSUME TypeOK, Next
  PROVE  TypeOK'
<1>0. strikes' \in 0..2
  <2>1. \E harm \in 0..2 : Struck(harm)
    <3>1. Struck(0) \/ Struck(1) \/ Struck(2)
      BY CrashHarm DEF Next, Service, ReadFromStorage, ReadFromSRAM, Update, SaveToSRAM,
         TruncateStorage, WriteStorage, BatteryUpdate, CountCycle
    <3> QED
      BY <3>1
  <2> QED
    BY <2>1, StruckLaw
<1> USE <1>0, ConstantsAssumption, ZeroType DEF TypeOK, Control
<1>1. CASE ReadFromStorage
  BY <1>1 DEF ReadFromStorage
<1>2. CASE ReadFromSRAM
  BY <1>2 DEF ReadFromSRAM
<1>3. CASE Update
  <2>1. hw_bins' \in Bins /\ sw_bins' \in Bins
    BY <1>3 DEF Update, Bins
  <2>2. restore' \in BOOLEAN /\ backup' \in BOOLEAN
    BY <1>3 DEF Update
  <2> QED
    BY <1>3, <2>1, <2>2 DEF Update
<1>4. CASE SaveToSRAM
  BY <1>4 DEF SaveToSRAM
<1>5. CASE TruncateStorage
  BY <1>5 DEF TruncateStorage
<1>6. CASE WriteStorage
  <2>1. best' \in Bins
    BY <1>6 DEF WriteStorage, Bins
  <2> QED
    BY <1>6, <2>1 DEF WriteStorage
<1>7. ASSUME NEW level \in Levels, BatteryUpdate(level)
      PROVE  TypeOK'
  <2>1. soc_inc' \in 0..(kBackupTrigger - 1)
    BY <1>7 DEF BatteryUpdate
  <2> QED
    BY <1>7, <2>1 DEF BatteryUpdate
<1>8. ASSUME NEW i \in Buckets, CountCycle(i)
      PROVE  TypeOK'
  <2>1. sram' \in Bins
    BY <1>8, BinsType DEF CountCycle, Bins
  <2> QED
    BY <1>8, <2>1 DEF CountCycle
<1>9. CASE Crash
  <2>1. PICK k \in 0..kBucketCount : file' = Torn(k)
    BY <1>9 DEF Crash
  <2>2. file' \in Bins
    BY <2>1, BinsType DEF Torn, Bins
  <2>3. 0 \in 0..(kBackupTrigger - 1)
    OBVIOUS
  <2> QED
    BY <1>9, <2>2, <2>3 DEF Crash, FreshProcess
<1>10. CASE PowerLoss
  <2>1. PICK k \in 0..kBucketCount : file' = Torn(k)
    BY <1>10 DEF PowerLoss
  <2>2. file' \in Bins
    BY <2>1, BinsType DEF Torn, Bins
  <2>3. 0 \in 0..(kBackupTrigger - 1)
    OBVIOUS
  <2> QED
    BY <1>10, <2>2, <2>3 DEF PowerLoss, FreshProcess
<1> QED
  BY <1>1, <1>2, <1>3, <1>4, <1>5, <1>6, <1>7, <1>8, <1>9, <1>10 DEF Next, Service

\* Every step preserves the invariant.
LEMMA CountsStep ==
  ASSUME CountsInv, Next
  PROVE  CountsInv'
<1>0. TypeOK /\ TypeOK'
  BY TypeStep DEF CountsInv
<1>1. \A i \in Buckets :
         /\ sram[i] \in Nat /\ file[i] \in Nat /\ best[i] \in Nat
         /\ sw_bins[i] \in Nat /\ hw_bins[i] \in Nat
  BY <1>0, BinsType DEF TypeOK
<1> DEFINE I == /\ SavedCountsSurvive
                /\ CopiesAgree
                /\ BothIntact
                /\ ReadOrInSram
                /\ Complete
                /\ SafeToSave
                /\ SafeToTruncate
                /\ Truncated
<1>2. I
  BY DEF CountsInv
<1> SUFFICES I'
  BY <1>0 DEF CountsInv
<1> DEFINE Rest == FileIntact' /\ SramIntact' /\ pc' \in {"boot", "idle"}
<1>h. ASSUME NEW harm \in 0..2, Struck(harm)
      PROVE  /\ strikes \in 0..2 /\ strikes' \in 0..2
             /\ strikes' = 0 => (strikes = 0 /\ harm = 0) \/ Rest
             /\ strikes' <= 1 => strikes + harm <= 1 \/ Rest
  BY <1>0, <1>h, StruckLaw DEF TypeOK
<1> USE <1>0, <1>1, <1>2, ZeroType
    DEF SavedCountsSurvive, CopiesAgree, BothIntact, ReadOrInSram, Complete, SafeToSave,
        SafeToTruncate, Truncated, FileIntact, SramIntact
<1>3. CASE ReadFromStorage
  BY <1>3, <1>h DEF ReadFromStorage
<1>4. CASE ReadFromSRAM
  BY <1>4, <1>h DEF ReadFromSRAM
<1>5. CASE Update
  BY <1>5, <1>h DEF Update
<1>6. CASE SaveToSRAM
  BY <1>6, <1>h DEF SaveToSRAM
<1>7. CASE TruncateStorage
  BY <1>7, <1>h DEF TruncateStorage
<1>8. CASE WriteStorage
  BY <1>8, <1>h DEF WriteStorage
<1>9. ASSUME NEW level \in Levels, BatteryUpdate(level)
      PROVE  I'
  BY <1>9, <1>h DEF BatteryUpdate
<1>10. ASSUME NEW j \in Buckets, CountCycle(j)
       PROVE  I'
  BY <1>10, <1>h DEF CountCycle, TypeOK, Bins
<1>11. CASE Crash
  <2>1. CASE pc = "write"
    BY <1>11, <2>1, <1>h, CrashHarm DEF Crash, FreshProcess, Torn
  <2>2. CASE pc # "write"
    BY <1>11, <2>2, <1>h, CrashHarm DEF Crash, FreshProcess, Torn
  <2> QED
    BY <2>1, <2>2
<1>12. CASE PowerLoss
  <2>1. CASE pc = "write"
    BY <1>12, <2>1, <1>h, CrashHarm DEF PowerLoss, FreshProcess, Torn
  <2>2. CASE pc # "write"
    BY <1>12, <2>2, <1>h, CrashHarm DEF PowerLoss, FreshProcess, Torn
  <2> QED
    BY <2>1, <2>2
<1> QED
  BY <1>3, <1>4, <1>5, <1>6, <1>7, <1>8, <1>9, <1>10, <1>11, <1>12 DEF Next, Service

\* The invariant holds in every reachable state.
THEOREM CountsInvariant == Spec => []CountsInv
<1>1. Init => CountsInv
  <2>1. ASSUME Init PROVE TypeOK
    <3>1. 0 \in 0..(kBackupTrigger - 1)
      BY ConstantsAssumption
    <3> QED
      BY <2>1, <3>1, ZeroType, 0 \in 0..2 DEF Init, TypeOK, Control
  <2>2. ASSUME Init PROVE FileIntact /\ SramIntact
    <3>1. ASSUME NEW i \in Buckets PROVE best[i] <= file[i] /\ best[i] <= sram[i]
      <4>1. best[i] = 0 /\ file[i] = 0 /\ sram[i] = 0
        BY <2>2, ZeroType DEF Init
      <4> QED
        BY <4>1
    <3> QED
      BY <3>1 DEF FileIntact, SramIntact
  <2>3. ASSUME Init PROVE SavedCountsSurvive
    BY <2>2, <2>3 DEF SavedCountsSurvive, FileIntact
  <2>4. ASSUME Init PROVE BothIntact
    BY <2>2, <2>4 DEF Init, BothIntact
  <2> QED
    BY <2>1, <2>3, <2>4 DEF Init, CountsInv, CopiesAgree, ReadOrInSram, Complete, SafeToSave,
       SafeToTruncate, Truncated
<1>2. CountsInv /\ [Next]_vars => CountsInv'
  <2>1. ASSUME CountsInv, UNCHANGED vars PROVE CountsInv'
    BY <2>1 DEF vars, CountsInv, TypeOK, SavedCountsSurvive, CopiesAgree, BothIntact,
       FileIntact, SramIntact, ReadOrInSram, Complete, SafeToSave, SafeToTruncate, Truncated
  <2> QED
    BY <2>1, CountsStep
<1> QED
  BY <1>1, <1>2, PTL DEF Spec

\* Every variable keeps its type; soc_inc stays below kBackupTrigger.
THEOREM TypeCorrect == Spec => []TypeOK
<1>1. CountsInv => TypeOK
  BY DEF CountsInv
<1> QED
  BY <1>1, CountsInvariant, PTL

\* No saved cycle count is lost by a single failure: for any number of buckets, a
\* crash between any two steps, a torn file, a forgetful fuel gauge or a read or a
\* write that fails leaves one copy that has it.
THEOREM SavedCountsSurviveHolds == Spec => []SavedCountsSurvive
<1>1. CountsInv => SavedCountsSurvive
  BY DEF CountsInv
<1> QED
  BY <1>1, CountsInvariant, PTL

\* Neither copy is overwritten with counts below what was saved, unless a second
\* thing went wrong before both were complete again.
THEOREM NeverRegressHolds == Spec => NeverRegress
<1> DEFINE A == strikes <= 1 =>
                  /\ pc = "saveSram" /\ pc' \in {"truncate", "idle"} /\ sram' # sram =>
                       \A i \in Buckets : best[i] <= sram'[i]
                  /\ pc = "write" /\ pc' = "idle" /\ file' # Zero =>
                       \A i \in Buckets : best[i] <= file'[i]
<1>1. CountsInv /\ [Next]_vars => [A]_vars
  <2> SUFFICES ASSUME CountsInv, Next, strikes <= 1
               PROVE  /\ pc = "saveSram" /\ pc' \in {"truncate", "idle"} /\ sram' # sram =>
                           \A i \in Buckets : best[i] <= sram'[i]
                      /\ pc = "write" /\ pc' = "idle" /\ file' # Zero =>
                           \A i \in Buckets : best[i] <= file'[i]
    OBVIOUS
  <2>1. ASSUME pc = "saveSram", pc' \in {"truncate", "idle"}, sram' # sram
        PROVE  \A i \in Buckets : best[i] <= sram'[i]
    <3>1. SaveToSRAM
      BY <2>1 DEF Next, Service, ReadFromStorage, ReadFromSRAM, Update, TruncateStorage,
         WriteStorage, BatteryUpdate, CountCycle, Crash, PowerLoss, FreshProcess
    <3> QED
      BY <2>1, <3>1 DEF SaveToSRAM, CountsInv, SafeToSave
  <2>2. ASSUME pc = "write", pc' = "idle", file' # Zero
        PROVE  \A i \in Buckets : best[i] <= file'[i]
    <3>1. WriteStorage
      BY <2>2 DEF Next, Service, ReadFromStorage, ReadFromSRAM, Update, SaveToSRAM,
         TruncateStorage, BatteryUpdate, CountCycle, Crash, PowerLoss, FreshProcess
    <3> QED
      BY <2>2, <3>1 DEF WriteStorage, CountsInv, SafeToTruncate, Truncated
  <2> QED
    BY <2>1, <2>2
<1> QED
  BY <1>1, CountsInvariant, PTL DEF Spec, NeverRegress
=============================================================================
