# A TLA+ model of the wahoo device services

The repository holds the device-specific part of Android for the Pixel 2 phones:
two USB HALs, the health, lights, power statistics and dumpstate services, a
daemon for the folio switch, boot scripts, and configuration. This directory
models the services that carry state and run concurrently or have to survive
crashes, checks them with TLC on small instances and proves every safety property
with TLAPS for every instance.

## 1. Inventory

| Component | State | Operations | Interacts with | What is hard | Correct when |
|---|---|---|---|---|---|
| USB gadget HAL, `usb/UsbGadget.cpp` | request lock, `mLock` and its condition variable, current functions and their applied flag, endpoint list, inotify/event/epoll descriptors, the global `gadgetPullup`; in the kernel: links, ids, OS descriptors, UDC | `setCurrentUsbFunctions`, `getCurrentUsbFunctions`, `reset`, the monitor thread `monitorFfs` | framework (binder callbacks), functionfs daemons (files and inotify), configfs, `vendor.usb.config` | a lock-free writer of UDC, a thread stopped and joined by the next request, a timed wait, failure in the middle of teardown or setup, daemons that die | the host sees a disconnect between configurations; one truthful reply per request; what is visible is what was requested; no request hangs; the gadget comes back |
| Gadget configuration, `usb/UsbGadget.cpp` | two system properties | `getVendorFunctions`, `validateAndSetVidPid`, the links of `setupFunctions` | the above | two tables written by hand that must agree | accepted requests are linked completely; ids identify functions |
| USB port HAL, `usb/Usb.cpp` | the callback, three mutexes, `mPartnerUp` and its condition variable, `destroyThread`, the worker thread; in the kernel: `port_type`, roles, partner | `setCallback`, `switchRole`, the worker `work`/`uevent_event`, a signal handler | framework (binder), kernel uevents, sysfs | signals lost or stale, a worker that undoes what a binder thread does, a timeout racing the answer, a thread ended by a signal | no signal is lost; a switch is not undone; success is a partner that came; failure and disconnect leave dual role; calls return |
| Port status, `usb/Usb.cpp` | the registered callback, of version 1.0 or 1.1 | `queryPortStatus`, the worker's notification, the `get...Helper` functions | sysfs, framework | five files per port read while partners come and go; a callback cast before the lock and used under it | what a callback was told last is true and in its form; no port is half connected |
| Cycle counts, `health/CycleCountBackupRestore.cpp` | two arrays; a file; fuel gauge memory | `Restore`, `Backup` | `HealthService.cpp`, sysfs, `/persist` | crash between truncation and write, failing reads | a saved count is never lost or lowered |
| Learned capacity, `health/LearnedCapacityBackupRestore.cpp` | three integers; a file; fuel gauge memory | `Restore`, `Backup` | as above | failures that look like values | capacity restored after a reset, backed up in the end |
| Storage statistics, `health/HealthService.cpp` | none | `get_storage_info`, `get_disk_stats` | sysfs | malformed input | parsing |
| Lights, `liblight/lights.c` | notification and attention state, the last backlight mode, the LED ratio; LED, LCD and persistence files | `open_lights`, `set_light_*` | framework, sysfs | nine writes per LED refresh from several threads, failing writes, globals lost in a restart | the LED shows one notification; a backlight call that returned 0 was carried out |
| Folio daemon, `folio_daemon/main.cpp` | sensor queue, uinput device | event loop | sensor HAL, input | switch state after restarts | lid events match the sensor |
| Power statistics, `powerstats/` | residency tables | `getResults` | sysfs | partial reads | totals consistent |
| Dumpstate, `dumpstate/DumpstateDevice.cpp` | the copied modem logs | `dumpstateBoard`, `dumpModem`, `dumpDiagLogs` | init (property triggers), `diag_mdlog`, files, commands | a logger stopped and restarted through asynchronous triggers, a bounded wait, a client that kills the service | logging comes back; the newest logs are in the report |
| Boot scripts, `init.*.sh`, `init.hardware.*.rc` | properties | run once | init | order of services | services find what they need |
| Host tools `lisa/`, policy, overlays, makefiles | - | - | - | - | not behaviour of the device services |

`PROJECT.json` lists the hazards found in this code with their lines and the
property that would catch each.

## 2. Modules

| Module | Models |
|---|---|
| `GadgetConfig` | vendor configuration, id tables and link order of `UsbGadget.cpp`, as operators |
| `GadgetRequests`, `MCGadgetConfig` | every request under every vendor configuration, one after the other; constants for TLC |
| `GadgetConfigProofs` | theorems about `GadgetRequests` and the operators of `GadgetConfig` |
| `UsbGadget` | the gadget HAL: binder threads, monitor thread, kernel gadget, daemons |
| `MCUsbGadget` | constants for TLC |
| `GadgetContract` | what the gadget HAL promises the host; `UsbGadget` implements it (`HostContract`) |
| `UsbGadgetProofs` | theorems about `UsbGadget` |
| `Usb`, `UsbProofs` | the port HAL: binder threads, worker thread, Type-C port and uevents; theorems |
| `PortStatus`, `MCPortStatus`, `PortStatusProofs` | what the callbacks are told about the ports; constants for TLC; theorems |
| `Lights`, `MCLights`, `LightsProofs` | the lights HAL and its files; constants for TLC; theorems |
| `ModemLog`, `MCModemLog`, `ModemLogProofs` | the modem logs of a bug report, init and the logger; constants for TLC; theorems |
| `CycleCount`, `CycleCountProofs` | cycle counters, file and fuel gauge, crashes; theorems |
| `LearnedCapacity`, `LearnedCapacityProofs` | learned capacity, file and fuel gauge, crashes and failing I/O; theorems |

### How the gadget model corresponds to the code

`pc[t]` is where a binder thread stands in `setCurrentUsbFunctions`; an action
ends where another thread can observe or change something: at a lock, at each
kernel write of the teardown, at each unlinked function, at stop and join of the
monitor, at the disconnect wait, at validation, at setup (atomic, as it holds
`mLock` and nobody else touches links then), at the pull-up, at the condition
variable. `mon` is the monitor: position in the endpoint list, events read and
not yet handled, `writeUdc`. Its write to UDC and its update of the flags under
`mLock` are two steps, as in the code. The endpoint files of one functionfs
instance appear and disappear together, so `mEndpointList` has one entry per
instance. The kernel's part (`CanBind`, `PullUp`, `Notify`, and that unlinking or
a daemon's death unbinds) is modelled from how the code uses it and marked
external in the map. A function set is a TLA+ set of names, a vendor
configuration the sequence of its tokens.

The variables `replies` and `pulled` are history and read by properties only.

### The gadget contract

`GadgetContract` says what the host may observe, with none of the HAL's threads,
locks or errors: requests one at a time, each dismantling the old configuration
(the gadget may be connected until a function goes), passing a point where
nothing is linked and the gadget is down, and building the new configuration
from there in one go. `UsbGadget` implements it with `bound`, `links` and the
request lock as they are and the phase of a request computed from the control of
the thread that holds the lock (`Phase`). A monitor that pulled the gadget up
behind a request's back, a function left from the old configuration, or a second
request let in would be a step the contract does not have.

### How the port model corresponds to the code

`pc[t]` is where a binder thread stands in `setCallback` or `switchRole`;
`worker` is where the worker stands in `work` and `uevent_event`. The three
mutexes name their holder. A condition variable is the flag `signalled`: set by a
signal while a thread waits. `SIGUSR1` is sent (`sigPending`) and delivered in
two steps, and interrupts the worker only while it blocks in `epoll_wait`.
Uevents are a queue bounded by `MaxUevents`; they reach the worker only while its
socket is open. One port; callbacks are registered or not; power and data role
are one role. The framework does not overlap calls of `setCallback` (constant
`Setter`). `port_type` may refuse to be opened or to take a write wherever the
code writes it: in `switchMode` (`WriteMode`, `WriteModeFails`) and in
`switchToDrp` (`WriteDual`), which only logs it. The worker may fail to open its
socket (`OpenSocket`), and `epoll_wait` may return an error that ends its loop
while the callback stays registered (`EpollFails`). A uevent of an added USB
device (autosuspend) is one of the uevents called "other".

History: `returned` (a partner came since the switch wrote `port_type`), `stale`
(an `add` from before was still on its way then), `skipped` (the port was left in
one mode: a disconnect went by without an attempt to restore dual role, or
`port_type` did not take the write of it).

### How the port status model corresponds to the code

`rd` is `getPortStatusHelper` under way, on behalf of the holder of `mLock`: the
ports and partners as listed at the beginning, the ports left, and the result so
far. Each file it reads is an action, so that a partner may come, go or swap
between any two. A missing accessory file is the error return; a missing power
delivery file means that roles cannot be changed. `queryPortStatus` casts the
callback before it takes the lock, the worker under it; `setCallback` may replace
the callback at any time the lock is free, by one of the other version too. The
fields of the 1.0 and the 1.1 structures are one record: `mode` and `supported`
are the fields of the version that is filled in. The worker is the one of `Usb`
without its signals and faults, and opening `/sys/class/typec` is taken to
succeed.

### How the lights model corresponds to the code

A thread takes `g_lock` with its first step and releases it with its last; every
write of a file that can fail is a step, of which the failing one is allowed for
the kinds of files in `Faults`. `shown` is what the last `rgb_start` put on the
LED from `led` and `onOff`. A restart keeps files and display and resets the
globals. Colours are bytes, and brightness and dimming are computed as in the
code. `set_light_battery` is compiled out, so `g_battery` stays off.

### How the modem log model corresponds to the code

`pc` is where the service stands in `dumpModem`; it has one thread and exits after
each dump. Properties are set at once and acted upon by init later, in order
(`events`). The logger's process (`mdlog`) starts, shows its status, stops, clears
its status and ends in steps of its own. A client that loses patience kills the
service (`Kill`) anywhere. A file's name is its rank in the alphabet; `Foreign`
are files with other names. `excused` collects what can lose the logging: a kill
before the restart, polls that ran out, a logger found starting or stopping, a
process that outlives its status, and the user's switch in the middle of it.

### How the health models correspond to the code

One action per function of the classes; `SaveToStorage` is two, because
`WriteStringToFile` truncates the file before it writes and a crash may come in
between. A crash resets the service's variables (static storage starts as zero)
and keeps the file and the fuel gauge; a power loss also resets the fuel gauge.
A torn file is a prefix of the values. Crashes and power losses come at any step,
and every read and every write of the file and of the fuel gauge may fail: the
file when it is opened or when it is written. The code logs such a failure and
goes on, and so do the models; `SaveToSRAM` that fails is followed by the
truncation of the file all the same.

In `CycleCount` two copies guard against one thing that goes wrong, not against
two. The history `strikes` counts what went wrong (a failed read or write, a torn
file, a power loss) since the service was last at rest with both copies complete;
no action is restricted by it, and the properties speak of `strikes <= 1`. A power
loss between the truncation of the file and its write takes both copies at once:
it is one event, it counts for two, and the saved counts are gone.
In `LearnedCapacity` the history `failed` has the kinds of failure since the fuel
gauge last fell back (of the file's writes: since the service last started).

## 3. Runs

| Run | Shows | Bounds |
|---|---|---|
| `gadget_tables` | `AcceptedIsLinked`, `IdsIdentifyFunctions`, `VendorConfigReflects` | all 127 function sets, 6 vendor configurations in each of the two properties, all builds and boot modes |
| `gadget_faults` | `DisconnectWindow`, `MonitorJoined`, `OneReply`, `SuccessIsPulledUp`, `IdsMatchLinks`, `VisibleIsFixed`, `NoCircularWait`, and `HostContract`, the refinement of `GadgetContract` | 2 threads, NONE / one functionfs / no functionfs, 2 events, every fault but a property change |
| `gadget_config` | `BoundConfiguration` | 2 threads, two functionfs functions, a rejected set, usbradio mode; failing pull-up and pull-down, reset, dying daemons |
| `gadget_liveness` | `NoMissedEndpoints`, `RequestsFinish`, `DoesNotStayDown` | 1 thread, 2 events, failing pull-down, ids and links, property changes |
| `gadget_restart` | *violated:* `DoesNotStayDown` when daemons die | 1 thread |
| `gadget_applied` | *violated:* `AppliedIsPulledUp` | 1 thread |
| `usb` | `PartnerSignalNotLost`, `SwitchNotUndone`, `SuccessIsReturn`, `DisconnectedIsDual`, `WorkerRunning`, `NoCircularWait`, `SwitchReturns`, `ForcedPortRecovers`, `ClearCallbackReturns` | 2 threads, one mode and one role, 2 uevents, every fault |
| `ports` | `SettledStatus`, `QuietReadIsExact`, `NeverHalfConnected` | 2 ports, two partners that swap and an audio adapter, a callback of each version, 1 uevent |
| `lights` | `LedShowsNotification`, `BacklightAsAsked` | 2 threads, 2 backlights, 2 notifications, 1 attention, failing writes of all kinds but the rhythm |
| `modem_log` | `LoggingRestored`, `NewestCopied`, `QuietCopy`, `LoggingComesBack` | 4 files, one of them foreign; limits -1, 0, 2; 2 polls; 2 property events |
| `health_cycles` | `SavedCountsSurvive`, `NeverRegress` | 2 buckets, counts to 3, trigger 2; crashes, power losses and every failure, in any number |
| `health_capacity` | `RestoredUnlessStartFails`, `BackedUpInTheEnd` | every kind of failure; 3 crashes, 2 failures, 3 capacities learned |

`gadget_faults`, `lights` and `health_cycles` also check `TypeOK`, which says there
that the monitor's count of events, the brightness and the trigger's counter stay in
their range. `TypeCorrect` proves it for
these and for the other four modules of a HAL or a backup (section 4).

`BoundConfiguration` is checked without failures of the teardown and of the
setup, and without property changes: after a request that has failed half way the
gadget may still show the earlier configuration, and the framework has been told
of the failure. What still holds then is `IdsMatchLinks`, in the run with every
fault: the links that are left, all or some, belong to the one request whose ids
are written, so that a monitor that pulls them up again never shows the host a
mixture of two requests; and `VisibleIsFixed`: nothing changes under a connected
host.

`NoCircularWait` and `NoMissedEndpoints` are the safety halves of the liveness
properties. The first follows who waits for whom through the locks and the joins:
every chain ends, after three links at most, at a thread that can run, and what a
joined thread needs to end (the stop flag, the signal) is there. In `Usb` it does
not exclude a `SIGUSR1` that arrives just before `epoll_wait` blocks: the flag is
set then and the worker sleeps, which is `LostWakeup` below. The second says
that the monitor is never asleep with nothing queued while all its endpoints are
there and the gadget is down.

Why the bounds are enough: the gadget service has a binder pool of two threads
(`service.cpp`), so two threads are the real number. Two queued inotify events
are the smallest queue in which an event is handled after the state it reported
has changed again; the monitor reads only the current state, so more equal
events add nothing. Two uevents let an old one be received behind a new change;
in `ports` one suffices for that, since a uevent there carries no content and the
one being handled is no longer in the queue. Two ports are the smallest number
with one read before and one after a change. Two threads are enough to mix two
refreshes of the LED. Two polls are a wait that can succeed late and one that can
run out; four files with one foreign let a limit of two cut off the oldest.
Two buckets allow one copy to be ahead in each direction at once, which is when
`UpdateAndSave` writes both.

The violated properties are disagreements between a comment and the code;
`PROJECT.json` quotes each with its line:

1. a functionfs daemon that restarts quickly leaves the gadget down;
2. the previous request's monitor may mark a new, rejected request as applied.

Other properties hold except in a case they name, and the exception is what the
code does not handle. TLC violates each of them when the exception is taken out:

| Property | Exception | What happens then |
|---|---|---|
| `SuccessIsReturn` | `stale` | an `add` uevent sent before the switch counts as the partner's return |
| `DisconnectedIsDual`, `ForcedPortRecovers` | `skipped` | a disconnect while `mRoleSwitchLock` is taken, or that nobody listened to, does not restore dual role; a write of `dual` that is refused is not tried again |
| `WorkerRunning` | worker `failed` | a worker that cannot open its socket, or whose `epoll_wait` fails, leaves a callback without a worker |
| `ClearCallbackReturns` | `LostWakeup` for ever | a `SIGUSR1` between the test of `destroyThread` and `epoll_wait` leaves `setCallback(NULL)` waiting for the next uevent of any kind |
| `SettledStatus` | `missed`, `crossed` | changes before the socket is open are not told; a query that crosses the replacement of the callback tells it in the other version's form |
| `BacklightAsAsked` | `unsynced` | after a failed write of the persistence file, or a restart, the display stays in or out of low persistence until the next transition |
| `LedShowsNotification` | `ledFailed` | after a failed write the LED shows a mixture until the next refresh |
| `LoggingRestored`, `QuietCopy`, `LoggingComesBack` | `excused` | see above: modem logging stays off, or goes on during the copy |
| `NewestCopied` | `leftover`, `cpFailed`, `excused` | the copies of a killed dump are sent with the next |
| `SavedCountsSurvive`, `NeverRegress` | a second strike | a power loss between truncation and write loses the counts; so can, after a power loss, a restore of the fuel gauge that fails, since the file is truncated next; a file that cannot be read after a power loss is overwritten with lower counts |
| `RestoredUnlessStartFails` | a failed read, or a failed write of the fuel gauge | the learned capacity is not restored, and the next backup overwrites it with the nominal one |
| `BackedUpInTheEnd` | a failed write of the file | the learned capacity is not saved until it changes again |

### Fairness

`UsbGadget`: a thread that can run runs (weak fairness per binder thread and for
the monitor); the timed wait ends; `epoll_wait` reports the event descriptor
next to the inotify descriptor on every call, so the stop is not passed over for
ever (strong fairness of `MonStop`). Nothing is assumed of callers or daemons.
`Usb`: threads run and mutexes that keep becoming free are granted (strong
fairness), signals are delivered, and the timed wait ends. Nothing is assumed of
callers, partners or further uevents, so `ClearCallbackReturns` has to name the
lost wakeup as its exception; `EpollFails` is not part of what is fair.
`LearnedCapacity`: the service runs and
the battery is reported again and again; crashes, failures and learning are
bounded so that there is an end in which to settle. `ModemLog`: the dumpstate
service, init and the logger keep running (weak fairness each); nothing is
assumed of the user, of new dumps or of the client that kills the service.

## 4. Theorems

Every safety invariant, every action property and the refinement that a run
checks is also a theorem, for every value of the constants: any number of
threads, ports, partners, callbacks, files, buckets and queued events. The proofs
rest on the named assumptions of the modules and on nothing else:

* `ConstantsAssumption` in each module: sets are of the right kind, bounds are
  natural numbers, and placeholders such as `None` are not among the values;
  `NoThreadAssumption` and `MonitorAssumption` say so of `UsbGadget`.
* `VendorAssumption` (`GadgetRequests`): no vendor configuration has a token
  twice. With `diag,diag` the kernel would refuse the second link.
* `BoundConfigurationHolds` has the hypothesis that the constant `Faults` has
  none of `attribute`, `unlink`, `ids`, `link`, `setprop`: the same that the run
  `gadget_config` leaves out, for the reason given in section 3.
* `NoMissedEndpointsHolds` has the hypothesis that `Faults` has none of
  `attribute`, `unlink`, `pullup`, `daemonDeath`, `reset`: each takes the gadget
  down behind the monitor's back or refuses its pull-up, and `gadget_restart`
  shows what comes of it. The run `gadget_liveness` has all other faults.

Each result is `Spec => []Property` from an inductive invariant; why the property
alone is not inductive is what the table says.

| Theorem | Inductive invariant and argument |
|---|---|
| **`UsbGadgetProofs`** `TypeCorrect` | itself; lemmas give the types of the configuration operators |
| `DisconnectWindowHolds`, `MonitorJoinedHolds` | `GadgetInv`. The monitor writes UDC with no lock. What keeps it from pulling the gadget up in the window is a chain: the request lock is held (`LockHeld`), the links are gone before the monitor is stopped (`StoppedUnlinked`), a gadget without links is not bound (`BoundHasLinks`), a monitor that runs is known and therefore joined (`MonitorKnown`), and in the window no monitor runs |
| `OneReplyHolds` | itself with the types: only four steps return |
| `HostContractHolds` | `RefinementInv`: `GadgetInv`, the owner of the request lock is inside its request (`OwnerActive`), nothing is linked before `setupFunctions` (`Unlinked`). Each action of `UsbGadget` is then a step of `GadgetContract` under the mapping of section 2, or leaves it alone |
| `SuccessIsPulledUpHolds` | `SuccessInv`: the links under construction are those of the request, and the flag the waiting thread reads is set only after a pull-up with them |
| `BoundConfigurationHolds` | `ConfigurationInv`: what is linked, written as ids and announced by descriptors at each step of a request, and that the second reading of the vendor property agrees with the first |
| `IdsMatchLinksHolds` | `OneRequestInv`: `RefinementInv`, and a thread about to link has written the ids of its request (`OwnIds`). Ids are written only while nothing is linked; `AnyIdsAll` and `AnyLinksAll` say that a change of the vendor property in between stays within what one request may have |
| `VisibleIsFixedHolds` | an action property from `GadgetInv`: ids and new links are written only in the window, where the gadget is down, and removing a link takes it down |
| `NoCircularWaitHolds` | `WaitInv`: where the owner of `mLock` can be (`MLockHeld`), that a monitor that is joined exists (`MonitorExists`, `JoinedExists`) and has the stop flag or has read it (`StopSeen`) |
| `NoMissedEndpointsHolds` | `WatchInv`: what is linked, listed and watched agree from `setupFunctions` to the next teardown (`Wired`, by `EndpointsLinked`), and at each place of its loop the monitor knows (`Knows`) that the endpoints it has passed are there, that `writeUdc` is set while the gadget is down, and, asleep with an empty queue, that one is missing. An endpoint that appears leaves an event because its directory is watched before the first look |
| **`GadgetConfigProofs`** `AcceptedIsLinkedHolds`, `IdsIdentifyFunctionsHolds`, `VendorConfigReflectsHolds` | `TablesInv`: ids and links of an accepted configuration belong to one vendor configuration, though `getVendorFunctions` is called twice and writes the property in between. The rest is lemmas: what `LinkOrder` links and that it links nothing twice (`LinkOrderNames`), no table has MTP next to PTP, no product id stands twice (`ProductsDiffer`), ids determine functions and debug links (`IdsDetermine`) |
| **`UsbProofs`** `TypeCorrect` | itself; the queue lemmas |
| `PartnerSignalNotLostHolds`, `SwitchNotUndoneHolds` | `SwitchInv`: a switching thread holds `mRoleSwitchLock`, from its write to its wait `mPartnerLock` too, and the worker restores dual role only with the former |
| `WorkerRunningHolds` | `WorkerLife`: the worker is told to end only after its callback is gone, and the signal does not outlive it |
| `SuccessIsReturnHolds` | `ReturnInv`: while a switch waits, an `add` in the queue, in the worker's hands or already reported is a partner that came since the write, or the stale one |
| `DualInvariant`, `DisconnectedIsDualHolds` | `DualOrPending`: a port without a partner that is not in dual role, and that was not `skipped`, has an event on its way to a worker that listens, or a switch that will restore it. It is the safety half of `ForcedPortRecovers` |
| `NoCircularWaitHolds` | `WaitInv`: where the owner of each of the three mutexes can be, and that a joined worker has the signal coming or the flag set. It needs `WorkerLife`: a new worker does not inherit a lock from the last one |
| **`PortStatusProofs`** `TypeCorrect` | `Typed`: the reader is the holder of `mLock`, at a port it has taken off its list |
| `NeverHalfConnectedHolds` | `WholeInv`: ports left behind are whole, and the roles of the port being read are filled in one after the other |
| `QuietReadIsExactHolds` | `ExactInv`: the same with the values of the files, as long as no port has changed |
| `SettledStatusHolds` | `SettledInv` on top of `ExactInv`: a read is in the form its callback will get (`FormInv`), a change it may have missed is still to be handled (`ChangeInv`), and so is whatever the last status does not show (`ToldInv`) |
| **`LightsProofs`** `TypeCorrect` | `BasicInv`: the types and the lock |
| `LedShowsNotificationHolds` | `LedInv`: what the files written so far in a refresh hold, and that outside a refresh what is shown is what the files hold |
| `BacklightAsAskedHolds` | `BacklightInv`: the persistence file follows the remembered mode unless `unsynced`, and the last successful call is still in force |
| **`ModemLogProofs`** `TypeCorrect` | `Typed`: what was copied and what is left are together no more than the files |
| `LoggingRestoredHolds`, `QuietCopyHolds` | `LoggerInv`: what is queued for init and what the logger does at each step of a dump that stops it |
| `NewestCopiedHolds` | `CopyInv`: the files seen are later than those to come, the newest of them are copied, and `copiedFiles` is their number up to the limit; with the theorems about cardinality |
| **`CycleCountProofs`** `TypeCorrect`, `SavedCountsSurviveHolds`, `NeverRegressHolds` | `CountsInv`: while at most one thing has gone wrong, for every step of the service where the saved counts are and why the copy about to be overwritten is not the only one: with nothing gone wrong both copies are complete (`BothIntact`, which is what the first strike is spent on), copies that disagree are complete together (`Complete`), the fuel gauge receives complete counts (`SafeToSave`), and the file is truncated only when the fuel gauge has them all (`SafeToTruncate`) |
| **`LearnedCapacityProofs`** `TypeCorrect` | itself |
| `RestoredUnlessStartFailsHolds` | `RecoveryInv`: as long as no read and no write of the fuel gauge fails, the file keeps the lost capacity because nothing is written to it before the fuel gauge has it back, however many starts are cut short; the service holds it from the moment it has read the file |

TLC checked the inductive invariants of `PortStatus`, `ModemLog`,
`LearnedCapacity` and `WatchInv` of `UsbGadget` on the instances of the runs before they were proved. The
proofs corrected the model in three places that the instances did not show:
`SUBSET S \ {x}` means the subsets of `S \ {x}`, so that `Dismantle` of
`GadgetContract` allowed a step that takes nothing away, and the request of
`GadgetRequests` could be the empty one, which the code handles before
validation; and `PortStatus` has to assume that the names of the two holders of
`mLock` differ from `None`.

Only model-checked: liveness, which needs fairness and `ENABLED` and is out of
the prover's reach (`RequestsFinish`, `DoesNotStayDown`, `SwitchReturns`,
`ForcedPortRecovers`, `ClearCallbackReturns`, `LoggingComesBack`, `BackedUpInTheEnd`), and the two
violated properties, which a theorem cannot state. Of the first five the safety
half is proved, as `NoCircularWait`, `NoMissedEndpoints` and `DualInvariant`; what TLC adds is that
the threads that can run then do what they are able to.

Long type invariants are proved in parts (`FlagTypes`, `ThreadTypes`,
`OtherTypes` of `UsbGadget`, for example), so that each leaf stays well inside the
provers' time limits.

## 5. Plan

Done: the two USB HALs with the status they report, the gadget contract, the two
battery backups, the lights and the modem logs; a theorem for each of their
safety properties and for the refinement, and for the safety halves of the USB
HALs' liveness.

What is left is the hazard without a property, which needs a wider environment
than the one the code is used in: callers of `setCallback` that overlap, and share
`mPoll`.

## 6. Not modelled

* Autosuspend (`checkUsbDeviceAutoSuspend`): a stateless lookup and one write.
* Storage statistics: scanning of text, without state.
* The folio daemon: one thread that copies sensor values to an input switch and
  exits on any error. A model would restate the loop; what can go wrong is in the
  sensor and input services, which are elsewhere.
* Power statistics: one counter or the other is incremented under one lock;
  the rest is tables handed to a library.
* The other sections of a bug report: files and command output, no state.
* Boot scripts other than the triggers of the modem logger: straight-line scripts
  run once.
* Host tools, policy, overlays and makefiles: no behaviour of their own.
