-------------------------- MODULE LearnedCapacity --------------------------
(***************************************************************************)
(* The learned battery capacity of health/LearnedCapacityBackupRestore.cpp.*)
(* The fuel gauge learns the capacity in memory that falls back to the     *)
(* nominal value when the battery is lost; the health service copies it to *)
(* a file on /persist at every battery update and back when it starts.     *)
(* 0 is the value of a file that is missing or empty.                      *)
(***************************************************************************)
EXTENDS Integers

CONSTANTS
  Nominal,     \* the design capacity
  Learned,     \* the capacities the fuel gauge may learn
  MaxCrashes,  \* bound on crashes, MaxFailures on failed reads and writes,
  MaxFailures, \* MaxLearns on what the fuel gauge learns, so that a behaviour
  MaxLearns,   \* settles in the end
  Faults       \* a subset of FaultKind

FaultKind == { "sramRead",       \* charge_full cannot be read
               "sramWrite",      \* charge_full cannot be written
               "nominalRead",    \* charge_full_design cannot be read
               "storageRead",    \* the file cannot be read
               "storageWrite" }  \* the file cannot be opened or written

ASSUME ConstantsAssumption ==
  /\ Nominal \in Nat \ {0}
  /\ Learned \subseteq Nat \ {0, Nominal}
  /\ MaxCrashes \in Nat /\ MaxFailures \in Nat /\ MaxLearns \in Nat
  /\ Faults \subseteq FaultKind

VARIABLES
  sram,                     \* charge_full
  file,                     \* the capacity on /persist
  sw_cap, hw_cap, nom_cap,  \* the service's copies
  pc,                       \* the service's control
  crashes, failures, learns,
  failed,                   \* history: the kinds of failure since the fuel gauge
                            \* last fell back; of the file's, since the last start
  lost                      \* history: what the file held when the fuel gauge
                            \* last fell back to nominal, 0 once it has learned

bounds == <<crashes, failures, failed, learns>>
vars   == <<sram, file, sw_cap, hw_cap, nom_cap, pc, bounds, lost>>

Capacity == Learned \cup {0, Nominal}

Control == {"boot", "nominal", "readSram0", "restore", "saveSram", "truncate",
            "write", "idle", "readSram"}

\* A read or write that fails, as often as the bound allows.
Fails(kind) == /\ kind \in Faults
               /\ failures < MaxFailures
               /\ failures' = failures + 1
               /\ failed' = failed \cup {kind}

-----------------------------------------------------------------------------
(***************************************************************************)
(* Restore                                                                 *)
(***************************************************************************)

\* An empty or unreadable file leaves the 0 of the constructor.
ReadFromStorage ==
  /\ pc = "boot"
  /\ \/ sw_cap' = file /\ UNCHANGED <<failures, failed>>
     \/ Fails("storageRead") /\ UNCHANGED sw_cap
  /\ pc' = "nominal"
  /\ UNCHANGED <<sram, file, hw_cap, nom_cap, crashes, learns, lost>>

\* nom_cap_ of the static object is 0 until it has been read.
ReadNominalCapacity ==
  /\ pc = "nominal"
  /\ \/ nom_cap' = Nominal /\ UNCHANGED <<failures, failed>>
     \/ Fails("nominalRead") /\ UNCHANGED nom_cap
  /\ pc' = "readSram0"
  /\ UNCHANGED <<sram, file, sw_cap, hw_cap, crashes, learns, lost>>

\* Mutant: only a larger capacity is backed up.
ReadFromSRAMOnlyLarger ==
  /\ pc \in {"readSram0", "readSram"}
  /\ hw_cap' = sram
  /\ \/ pc = "readSram0" /\ pc' = "restore" /\ UNCHANGED sw_cap
     \/ /\ pc = "readSram"
        /\ sw_cap' = IF sw_cap < sram THEN sram ELSE sw_cap
        /\ pc' = IF sw_cap < sram THEN "truncate" ELSE "idle"
  /\ UNCHANGED <<sram, file, nom_cap, bounds, lost>>

\* For Restore and for Backup; when it fails the old value stands.
ReadFromSRAM ==
  /\ pc \in {"readSram0", "readSram"}
  /\ \/ hw_cap' = sram /\ UNCHANGED <<failures, failed>>
     \/ Fails("sramRead") /\ UNCHANGED hw_cap
  /\ \/ pc = "readSram0" /\ pc' = "restore" /\ UNCHANGED sw_cap
     \/ /\ pc = "readSram"
        /\ sw_cap' = hw_cap'
        /\ pc' = IF sw_cap # hw_cap' THEN "truncate" ELSE "idle"
  /\ UNCHANGED <<sram, file, nom_cap, crashes, learns, lost>>

\* Mutant: the restored capacity is not written to the fuel gauge.
RestoreNoSave ==
  /\ pc = "restore"
  /\ sw_cap' = IF sw_cap = 0 THEN hw_cap ELSE sw_cap
  /\ pc' = IF sw_cap = 0 THEN "truncate" ELSE "idle"
  /\ UNCHANGED <<sram, file, hw_cap, nom_cap, bounds, lost>>

Restore ==
  /\ pc = "restore"
  /\ \/ /\ sw_cap = 0
        /\ sw_cap' = hw_cap
        /\ pc' = "truncate"
        /\ UNCHANGED hw_cap
     \/ /\ sw_cap # 0 /\ hw_cap = nom_cap
        /\ hw_cap' = sw_cap
        /\ pc' = "saveSram"
        /\ UNCHANGED sw_cap
     \/ /\ sw_cap # 0 /\ hw_cap # nom_cap
        /\ pc' = "idle"
        /\ UNCHANGED <<sw_cap, hw_cap>>
  /\ UNCHANGED <<sram, file, nom_cap, bounds, lost>>

\* A write that fails is only logged.
SaveToSRAM ==
  /\ pc = "saveSram"
  /\ \/ sram' = hw_cap /\ UNCHANGED <<failures, failed>>
     \/ Fails("sramWrite") /\ UNCHANGED sram
  /\ pc' = "idle"
  /\ UNCHANGED <<file, sw_cap, hw_cap, nom_cap, crashes, learns, lost>>

(***************************************************************************)
(* SaveToStorage: WriteStringToFile opens with O_TRUNC, writes, and        *)
(* removes the file when the write fails.                                  *)
(***************************************************************************)
TruncateStorage ==
  /\ pc = "truncate"
  /\ \/ file' = 0 /\ pc' = "write" /\ UNCHANGED <<failures, failed>>
     \/ Fails("storageWrite") /\ pc' = "idle" /\ UNCHANGED file
  /\ UNCHANGED <<sram, sw_cap, hw_cap, nom_cap, crashes, learns, lost>>

WriteStorage ==
  /\ pc = "write"
  /\ \/ file' = sw_cap /\ UNCHANGED <<failures, failed>>
     \/ Fails("storageWrite") /\ UNCHANGED file
  /\ pc' = "idle"
  /\ UNCHANGED <<sram, sw_cap, hw_cap, nom_cap, crashes, learns, lost>>

\* healthd_board_battery_update calls Backup.
BatteryUpdate ==
  /\ pc = "idle"
  /\ pc' = "readSram"
  /\ UNCHANGED <<sram, file, sw_cap, hw_cap, nom_cap, bounds, lost>>

-----------------------------------------------------------------------------
\* The fuel gauge learns a capacity.
Learn ==
  /\ learns < MaxLearns
  /\ learns' = learns + 1
  /\ sram' \in Learned \ {sram}
  /\ lost' = 0
  /\ UNCHANGED <<file, sw_cap, hw_cap, nom_cap, pc, crashes, failures, failed>>

\* The service goes down, at any step; without the battery the fuel gauge falls
\* back to nominal.
Crash ==
  /\ crashes < MaxCrashes
  /\ crashes' = crashes + 1
  /\ \/ /\ failed' = failed \ {"storageWrite"}
        /\ UNCHANGED <<sram, lost>>
     \/ /\ sram' = Nominal
        /\ lost' = file
        /\ failed' = {}
  /\ sw_cap' = 0 /\ hw_cap' = 0 /\ nom_cap' = 0
  /\ pc' = "boot"
  /\ UNCHANGED <<file, failures, learns>>

Service == \/ ReadFromStorage \/ ReadNominalCapacity \/ ReadFromSRAM \/ Restore
           \/ SaveToSRAM \/ TruncateStorage \/ WriteStorage \/ BatteryUpdate

Init ==
  /\ sram \in Learned \cup {Nominal}
  /\ file = 0
  /\ sw_cap = 0 /\ hw_cap = 0 /\ nom_cap = 0
  /\ pc = "boot"
  /\ crashes = 0 /\ failures = 0 /\ learns = 0
  /\ failed = {}
  /\ lost = 0

Next == Service \/ Learn \/ Crash

Spec == Init /\ [][Next]_vars

\* The service runs, and the battery is reported again and again.
FairSpec == Spec /\ WF_vars(Service)

-----------------------------------------------------------------------------
\* Type correctness of every variable.
TypeOK ==
  /\ {sram, file, sw_cap, hw_cap, nom_cap, lost} \subseteq Capacity
  /\ pc \in Control
  /\ crashes \in 0..MaxCrashes
  /\ failures \in 0..MaxFailures
  /\ learns \in 0..MaxLearns
  /\ failed \subseteq Faults

\* "Restore backup value when capacity is reset to nominal": when the service
\* has started after the fuel gauge fell back to nominal, with a capacity in the
\* file, the fuel gauge has that capacity again, until it learns another.
RestoredAfterReset ==
  pc \in {"idle", "readSram"} /\ lost # 0 => sram = lost

\* The same, whatever crashes and failed writes of the file there were, unless a
\* read or the write of the fuel gauge has failed since it fell back: then the
\* nominal capacity stays, and the next backup overwrites the saved one with it.
RestoredUnlessStartFails ==
  failed \subseteq {"storageWrite"} => RestoredAfterReset

\* "Always backup the new FG computed learned capacity": once the fuel gauge
\* stops learning, the file has its capacity for good, whatever crashes and other
\* failures there were, unless a write of the file has failed since the service
\* started.
BackedUpInTheEnd == <>[]("storageWrite" \in failed \/ file = sram)
=============================================================================
