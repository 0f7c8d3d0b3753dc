----------------------------- MODULE CycleCount -----------------------------
(***************************************************************************)
(* The battery cycle counters of health/CycleCountBackupRestore.cpp and    *)
(* cycle_count_backup in health/HealthService.cpp.  The fuel gauge counts  *)
(* charge cycles, per bucket, in SRAM that is lost with the battery; the   *)
(* health service keeps a copy in a file on /persist and brings the two    *)
(* together when it starts and after every kBackupTrigger percent charged. *)
(*                                                                         *)
(* A file is what it parses to: sscanf on a torn or missing file sets the  *)
(* buckets it has read, and the others keep the 0 of a fresh process.      *)
(***************************************************************************)
EXTENDS Integers

CONSTANTS
  kBucketCount,    \* number of buckets
  kBackupTrigger,  \* percent charged between two backups
  Levels,          \* the battery levels reported
  MaxCount,        \* bound on a counter
  Faults           \* a subset of FaultKind

FaultKind == { "sramRead",       \* the fuel gauge cannot be read
               "sramWrite",      \* the fuel gauge cannot be written
               "storageRead",    \* the file cannot be read
               "storageWrite" }  \* the file cannot be opened or written

ASSUME ConstantsAssumption ==
  /\ kBucketCount \in Nat \ {0}
  /\ kBackupTrigger \in Nat \ {0}
  /\ Levels \subseteq Nat
  /\ MaxCount \in Nat
  /\ Faults \subseteq FaultKind

Buckets == 1..kBucketCount
Bins    == [Buckets -> 0..MaxCount]
Zero    == [i \in Buckets |-> 0]

VARIABLES
  sram,                          \* the fuel gauge's counters
  file,                          \* the counters on /persist
  sw_bins, hw_bins,              \* the service's copies
  is_first, saved_soc, soc_inc,  \* the statics of cycle_count_backup
  restore, backup,               \* the locals of UpdateAndSave
  pc,                            \* the service's control
  best,                          \* history: the highest counts ever saved
  strikes                        \* history: what went wrong, see Struck

disk == <<sram, file, best>>
soc  == <<is_first, saved_soc, soc_inc>>
vars == <<disk, sw_bins, hw_bins, soc, restore, backup, pc, strikes>>

Control == {"boot", "readSram", "update", "saveSram", "truncate", "write", "idle"}

\* The copies that hold every count that was saved.
FileIntact == \A i \in Buckets : best[i] <= file[i]
SramIntact == \A i \in Buckets : best[i] <= sram[i]

\* strikes counts, up to 2, the failed reads and writes, torn writes and power
\* losses since the service was last at rest with both copies intact.
Struck(harm) ==
  strikes' = IF FileIntact' /\ SramIntact' /\ pc' \in {"boot", "idle"} THEN 0
             ELSE IF strikes + harm > 2 THEN 2 ELSE strikes + harm

-----------------------------------------------------------------------------
\* Restore starts with the file; unread, it counts as 0.
ReadFromStorage ==
  /\ pc = "boot"
  /\ pc' = "readSram"
  /\ UNCHANGED <<disk, hw_bins, soc, restore, backup>>
  /\ \/ sw_bins' = file /\ Struck(0)
     \/ "storageRead" \in Faults /\ UNCHANGED sw_bins /\ Struck(1)

\* When the read fails the old values stand.
ReadFromSRAM ==
  /\ pc = "readSram"
  /\ pc' = "update"
  /\ UNCHANGED <<disk, sw_bins, soc, restore, backup>>
  /\ \/ hw_bins' = sram /\ Struck(0)
     \/ "sramRead" \in Faults /\ UNCHANGED hw_bins /\ Struck(1)

\* Mutant: the file's copy takes the fuel gauge's count, lower or higher.
UpdateFromSram ==
  /\ pc = "update"
  /\ restore' = (\E i \in Buckets : hw_bins[i] < sw_bins[i])
  /\ backup' = (\E i \in Buckets : hw_bins[i] > sw_bins[i])
  /\ hw_bins' = [i \in Buckets |-> IF hw_bins[i] < sw_bins[i] THEN sw_bins[i] ELSE hw_bins[i]]
  /\ sw_bins' = hw_bins
  /\ pc' = "saveSram"
  /\ UNCHANGED <<disk, soc>>
  /\ Struck(0)

\* Every bucket takes the larger count, on both sides.
Update ==
  LET larger == [i \in Buckets |-> IF hw_bins[i] < sw_bins[i] THEN sw_bins[i] ELSE hw_bins[i]]
  IN  /\ pc = "update"
      /\ restore' = (\E i \in Buckets : hw_bins[i] < sw_bins[i])
      /\ backup' = (\E i \in Buckets : hw_bins[i] > sw_bins[i])
      /\ hw_bins' = larger
      /\ sw_bins' = larger
      /\ pc' = "saveSram"
      /\ UNCHANGED <<disk, soc>>
      /\ Struck(0)

\* Mutant: the fuel gauge is restored only when there is nothing to back up.
SaveToSRAMElse ==
  /\ pc = "saveSram"
  /\ pc' = IF backup THEN "truncate" ELSE "idle"
  /\ UNCHANGED <<file, best, sw_bins, hw_bins, soc, restore, backup>>
  /\ sram' = IF restore /\ ~backup THEN hw_bins ELSE sram
  /\ Struck(0)

\* The counters in the fuel gauge are restored first; a write that fails is
\* only logged, and the file is rewritten all the same.
SaveToSRAM ==
  /\ pc = "saveSram"
  /\ pc' = IF backup THEN "truncate" ELSE "idle"
  /\ UNCHANGED <<file, best, sw_bins, hw_bins, soc, restore, backup>>
  /\ \/ ~restore /\ UNCHANGED sram /\ Struck(0)
     \/ restore /\ sram' = hw_bins /\ Struck(0)
     \/ restore /\ "sramWrite" \in Faults /\ UNCHANGED sram /\ Struck(1)

\* WriteStringToFile opens the file with O_TRUNC ...
TruncateStorage ==
  /\ pc = "truncate"
  /\ UNCHANGED <<sram, best, sw_bins, hw_bins, soc, restore, backup>>
  /\ \/ file' = Zero /\ pc' = "write" /\ Struck(0)
     \/ "storageWrite" \in Faults /\ UNCHANGED file /\ pc' = "idle" /\ Struck(1)

\* ... and writes it; it removes the file when the write fails.
WriteStorage ==
  /\ pc = "write"
  /\ pc' = "idle"
  /\ UNCHANGED <<sram, sw_bins, hw_bins, soc, restore, backup>>
  /\ \/ /\ file' = sw_bins
        /\ best' = [i \in Buckets |-> IF best[i] < sw_bins[i] THEN sw_bins[i] ELSE best[i]]
        /\ Struck(0)
     \/ /\ "storageWrite" \in Faults
        /\ UNCHANGED <<file, best>>
        /\ Struck(1)

\* Mutant: soc_inc is not reset by a backup.
BatteryUpdateNoReset(level) ==
  LET inc == IF level > saved_soc THEN soc_inc + (level - saved_soc) ELSE soc_inc
  IN  /\ pc = "idle"
      /\ saved_soc' = level
      /\ is_first' = FALSE
      /\ \/ is_first /\ UNCHANGED <<soc_inc, pc>>
         \/ ~is_first /\ soc_inc' = inc
                      /\ pc' = IF inc >= kBackupTrigger THEN "readSram" ELSE pc
      /\ UNCHANGED <<disk, sw_bins, hw_bins, restore, backup>>
      /\ Struck(0)

\* cycle_count_backup: rises of the battery level add up to the next Backup.
BatteryUpdate(level) ==
  LET inc == IF level > saved_soc THEN soc_inc + (level - saved_soc) ELSE soc_inc
  IN  /\ pc = "idle"
      /\ saved_soc' = level
      /\ is_first' = FALSE
      /\ \/ is_first /\ UNCHANGED <<soc_inc, pc>>
         \/ ~is_first /\ inc < kBackupTrigger /\ soc_inc' = inc /\ UNCHANGED pc
         \/ ~is_first /\ inc >= kBackupTrigger /\ soc_inc' = 0 /\ pc' = "readSram"
      /\ UNCHANGED <<disk, sw_bins, hw_bins, restore, backup>>
      /\ Struck(0)

-----------------------------------------------------------------------------
\* The fuel gauge counts, at any time.
CountCycle(i) ==
  /\ sram[i] < MaxCount
  /\ sram' = [sram EXCEPT ![i] = @ + 1]
  /\ UNCHANGED <<file, best, sw_bins, hw_bins, soc, restore, backup, pc>>
  /\ Struck(0)

\* What a crash leaves of the file: a prefix of what was being written.
Torn(k) == IF pc = "write" THEN [i \in Buckets |-> IF i <= k THEN sw_bins[i] ELSE 0]
                           ELSE file

FreshProcess ==
  /\ sw_bins' = Zero /\ hw_bins' = Zero
  /\ is_first' = TRUE /\ saved_soc' = 0 /\ soc_inc' = 0
  /\ restore' = FALSE /\ backup' = FALSE
  /\ pc' = "boot"

\* The service or the system goes down, at any step.
Crash ==
  /\ \E k \in 0..kBucketCount : file' = Torn(k)
  /\ FreshProcess
  /\ UNCHANGED <<sram, best>>
  /\ Struck(IF pc = "write" THEN 1 ELSE 0)

\* The battery is lost too, at any step.  Between truncation and write that
\* takes both copies at once, and counts twice.
PowerLoss ==
  /\ \E k \in 0..kBucketCount : file' = Torn(k)
  /\ sram' = Zero
  /\ FreshProcess
  /\ UNCHANGED best
  /\ Struck(IF pc = "write" THEN 2 ELSE 1)

Service == \/ ReadFromStorage \/ ReadFromSRAM \/ Update \/ SaveToSRAM
           \/ TruncateStorage \/ WriteStorage

Init ==
  /\ sram = Zero /\ file = Zero /\ best = Zero
  /\ sw_bins = Zero /\ hw_bins = Zero
  /\ is_first = TRUE /\ saved_soc = 0 /\ soc_inc = 0
  /\ restore = FALSE /\ backup = FALSE
  /\ pc = "boot"
  /\ strikes = 0

Next == \/ Service
        \/ \E level \in Levels : BatteryUpdate(level)
        \/ \E i \in Buckets : CountCycle(i)
        \/ Crash \/ PowerLoss

Spec == Init /\ [][Next]_vars

-----------------------------------------------------------------------------
\* Type correctness of every variable.
TypeOK ==
  /\ sram \in Bins /\ file \in Bins /\ best \in Bins
  /\ sw_bins \in Bins /\ hw_bins \in Bins
  /\ is_first \in BOOLEAN /\ restore \in BOOLEAN /\ backup \in BOOLEAN
  /\ saved_soc \in Levels \cup {0}
  /\ soc_inc \in 0..(kBackupTrigger - 1)
  /\ pc \in Control
  /\ strikes \in 0..2

\* A cycle count that was once saved survives whatever goes wrong once: a crash
\* at any step, a torn file, the loss of the fuel gauge's memory or a read or a
\* write that fails leaves one of the two copies with it.  It takes SaveToSRAM
\* before SaveToStorage, which truncates the file.  A second strike before both
\* copies are complete again can lose it, and so can the loss of the battery
\* between truncation and write, which counts for two.
SavedCountsSurvive ==
  strikes <= 1 => \A i \in Buckets : best[i] <= file[i] \/ best[i] <= sram[i]

\* What the service writes never falls behind what was saved while at most one
\* thing has gone wrong: not in the fuel gauge, which is restored from the file,
\* and not in the file, which is rewritten from the fuel gauge after a torn write.
NeverRegress ==
  [][strikes <= 1 =>
       /\ pc = "saveSram" /\ pc' \in {"truncate", "idle"} /\ sram' # sram =>
            \A i \in Buckets : best[i] <= sram'[i]
       /\ pc = "write" /\ pc' = "idle" /\ file' # Zero =>
            \A i \in Buckets : best[i] <= file'[i]]_vars
=============================================================================
