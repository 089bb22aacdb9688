# Formal models of the ROG Phone 5 boot and update chain

The phone has no keyboard, no serial console that a user would open and one
bootable slot for Linux. A wrong step in the boot chain, in an installer or in
an unattended update leaves a phone that starts the wrong system, the same
broken system again, or nothing. The code that prevents this is spread over a C
helper, several init scripts, systemd services and an updater, and it is built
from small durable records that survive power loss. These models are about that
code: which records exist, who writes them in which order, and what every
interleaving, failing command, kill and power loss leaves behind. To it belong
the programs on the host that hand bundles and kernels to the phone, and, of the
device policies, the one whose steps race with suspend.

Paths below are relative to the repository. `PROJECT.json` lists the exact lines
behind every definition (`map`), the places that are hard to test (`hazards`)
and the disagreements between code and comments that the models exhibit
(`findings`).

## 1. The system and its parts

| Part | State | Operations | Interacts with |
|---|---|---|---|
| Try-once record helper (`tools/persistent_trial_state`) | `wifi-trial-state` on p23, its temporary, locks | decide, healthy, state, rollback, reject | loader, commit services, rollback timer, installer |
| Slot B loader (`initramfs/persistent-slotb-loader-init`) | block-device locks, mounts, RAM copies, kexec image | select, copy, verify, decide, execute, fall back | helper, recovery init, installer's selector |
| Commit services and rollback timer (`initramfs/native-wifi-persistent`, `initramfs/production-trial-commit`) | receipt, health publication, timer | commit, reject, roll back, reboot | helper, loader of the next boot |
| Kernel installer (`scripts/device/install-default-kernel-on-target.sh`) | p24 selector and bundles, archived record on p23, write window | stage, exchange, archive, EXIT trap, relock guard | loader, helper |
| Package updater (`initramfs/rog5-update`) | pending, attempt, journal, results, snapshots, pacman's lock | run, commit, rollback, resume | persistent root init, the user's pacman |
| Persistent root init (`initramfs/persistent-root-init`) | overlay root, restore journal, boot watchdog | restore, undo, refuse, mount, attest | updater, loader |
| Recovery control responder (`tools/recovery_control/rog5-recovery-control.c`) | session records and replay ledger in RAM, kexec image, watchdog lease | query, PREPARE, COMMIT_EXEC, execute, reconcile | host on the ACM line, fetcher, verifier, recovery init |
| Bundle supply (`scripts/host/prepare-recovery-runtime-bundle.py`, `tools/recovery_control/host_bundle_server.py`, `rog5-bundle-fetch.c`) | the host's bundle root, one TCP connection, the phone's staged and published bundle | package, serve once, fetch, publish, clean up | responder, verifier |
| Host half of the installer (`scripts/host/install-default-kernel.py`) | one-shot marker, report, payload in the phone's `/run` | inspect, transfer, stage, read back | kernel installer over SSH |
| USB reconnect and its suspend interlock (`scripts/device/rog5-usb-reconnect`, `rog5-usb-sleep`, units, udev rules) | a lock, three marker files, counters and timers in `/run`; the controller's binding | wait, kick DisplayPort, re-initialise, retry, replay; admit, pre, post | udev, systemd, suspend |
| Other device policies (`scripts/device`: desktop mode, sleep, charge, shell and session carry, audio route, Wi-Fi) | session, inhibitor and threshold state | event handlers and retries | systemd, kernel events |
| Other host tooling (`scripts/host`), recovery and network-root inits | registry, build outputs; bring-up state | build, register, trial; bring-up, watchdog | phone over USB |
| Drivers (`tools/rog5-fts3658u` and others) | interrupt, work and suspend state | probe, IRQ, suspend, resume | kernel |

The behaviours that are hard to test in these parts:

* power loss between a rename and the fsync that makes it durable, or between
  two unlinks of one `rm`;
* two helpers, or a helper and an installer, on the same record;
* one of a dozen commands failing after earlier ones opened a block device or
  mounted a file system;
* a process killed by its service manager between two records;
* timers (rollback, relock guard, watchdog) that fire while the thing they
  guard is just finishing;
* sequences of boots: a record written by one boot is judged by another;
* a peer that dies, resets or changes its files in the middle of a transfer;
* events that arrive while their handler runs, is skipped or is being stopped.

## 2. The modules

| Module | What it is | Source |
|---|---|---|
| `TryOnce` | abstract specification: one durable cell and what it allows | what the helper promises |
| `TrialState` | the helper, one system call at a time | `tools/persistent_trial_state/rog5-persistent-trial-state.c` |
| `SlotBLoader` | one run of the loader | `initramfs/persistent-slotb-loader-init` |
| `BootTrial` | composition: loader, commit services and timer over boots, around the cell | `initramfs/native-wifi-persistent/*`, `initramfs/production-trial-commit`, units |
| `KernelInstall` | composition: installer, its trap, its relock guard and a helper; the loader as `NextBoot` | `scripts/device/install-default-kernel-on-target.sh` |
| `PackageUpdate` | composition: updater, the user's pacman and the init of the next boot | `initramfs/rog5-update`, `initramfs/persistent-root-init` |
| `OneShot` | abstract specification: what one recovery session promises | what the responder promises |
| `RecoveryControl` | composition: responder, its children, the ACM line, the watchdog of the recovery init | `tools/recovery_control/rog5-recovery-control.c`, `rog5-bundle-fetch.c`, `initramfs/recovery-init` |
| `HostInstall` | composition: the host program around `KernelInstall`, joined by an SSH session | `scripts/host/install-default-kernel.py` |
| `Handover` | abstract specification: what fetching a bundle promises its caller | what packager, server and fetcher promise together |
| `BundleSupply` | composition: packager, one-shot server, TCP connection, fetcher and its worker | `scripts/host/prepare-recovery-runtime-bundle.py`, `tools/recovery_control/host_bundle_server.py`, `rog5-bundle-fetch.c` |
| `UsbSuspend` | composition: reconnect runs, udev, timers and the suspend hooks around one lock | `scripts/device/rog5-usb-reconnect`, `rog5-usb-sleep`, their units and udev rules |
| `TrialStateProofs`, `SlotBLoaderProofs`, `BootTrialProofs`, `HostInstallProofs`, `PackageUpdateProofs`, `RecoveryControlProofs`, `BundleSupplyProofs`, `UsbSuspendProofs` | the theorems | |
| `MC*` | instances for TLC | |

`TrialState` implements `TryOnce` (`RefinesTryOnce`), and `BootTrial` uses the
cell's actions where the code calls the helper and is itself shown to implement
the cell (`ImplementsCell`); both are checked and proved. So the promise "no trial is booted twice
without an acknowledgment" is stated once, for the cell, and carried down to
system calls and up to whole boots. In the same way `RecoveryControl` implements
`OneShot` (`ImplementsOneShot`): a session prepares one bundle, claims it once
and calls `kexec -e` at most once, with that bundle loaded. `BundleSupply`
implements `Handover` (`ImplementsHandover`): the phone holds nothing or one
build, the one that was asked for, out of those the host published.

### Power loss

All modules about persistent storage treat it the same way. What processes see is one value; what
power loss may leave is a *set* of values, extended by every directory
operation and collapsed by a sync. This is the behaviour of a journaling file
system: directory operations reach the disk in order, at an unknown moment;
bytes of a file that was not synced may be missing although its name is there.
A rename over an existing file is assumed not to lose the new content once
visible on disk (ext4's `auto_da_alloc`); a rename to a new name may
(`LateData`).

### `TrialState`

`dir` is the directory with the record and the temporary, `crashDirs` the
directories power loss may leave, `data` the contents of inodes. A helper takes
the directory's flock (`Start`), removes a leftover temporary (`Recover`,
`RecoverSync`), opens, flocks and reads the record (`Open`, `Read`), decides
(`Act` and the branch in `Read`), and a writer goes through `Create`, `Write`,
`Fsync`, `Check`, `Publish` (rename), `DirSync`, `Reopen`, `Reread`, `Report`.
Every step may instead fail, the process may be `Killed`, and `PowerLoss` picks
a directory of `crashDirs`. Identities are model values: `Trials` are full
identities (`decide` compares all fields), `Runs` what a running system knows
(id and primary), related by `RunOf`. Record text is abstracted to whole, torn
or foreign.

### `SlotBLoader`

`pc` follows the script; each command is an action with a success and a failure
outcome. `locked` and `mounted` are the kernel's state, `trialMounted` what the
script believes, `good` the bundles that would verify. The three attempts at
the write window are the loop of `select_trial_bundle`, `Cleanup` its cleanup
with every part allowed to fail. `Watchdog` is the background process of the
standalone wrapper, which is killed (`KillWatchdog`) as the last step before
`kexec -e` (`Execute`). The recovery init's two requests (fallback of one selector,
embedded RAM bundle) are the initial values of `request`.

### `BootTrial`

`system` is what runs. The loader half arms and decides on the cell; the commit
service reads the state, publishes its receipt, commits, publishes health or
rejects; systemd stops it (TERM, also in its own trap), kills and restarts it;
a receipt that does not read back as written fails the service after it was
published; the rollback timer tries
`healthy` first, then rejects and reboots. The helper is two actions, the
visible rename and the sync with the report, with its lock (`flock`) between
them. Health checks are a nondeterministic answer. `image` selects the
production or the Wi-Fi bundle, whose services differ.

### `KernelInstall`

One `--stage` run: the precondition checks, the guard, the open window, bundle
and fallback copies, staged selector, sync, read-only proof, `RENAME_EXCHANGE`,
rollback name, sync, seal, lock, archive of the record on p23, and the EXIT
trap, which looks at what is there, may finish the archive, and says what the
next boot does (`claim`); each of its claims needs the verification of the
bundle it is about (`PrimaryVerified`, `FallbackVerified`). `disk24` and `disk23` are the states power loss may
leave on the two partitions. The helper of the running system may be between
its check and its rename.

### `PackageUpdate`

`fs`/`disk` hold the overlay partition: the upper tree, snapshots with their
seal and failed root, the pending, attempt and journal records, the snapshot
lock and pacman's `db.lck`. A tree is the update that made it, whether a
transaction is unfinished in it, and which user-data paths are in it. The
updater's `run`, `commit`, `rollback` and `resume` and the init's
`apply_update_rollback` are sequences of single records, renames and unlinks.

### `RecoveryControl`

`records` are the files `prepared`, `claim`, `execution-started`, `failure` and
`last-error`, `ledger` the directory `requests`; both are in RAM, survive the
responder and are lost at a reboot, which is why this module knows kills and
reboots but no torn files. `state` is what the responder holds in memory
(`struct control_state`), rebuilt by `Load`. `pc` follows `handle_request`, the
PREPARE pipeline and `execute_claim`, one record, child or frame at a time. A
request is its verb, identity and body; equality is equality of fingerprints, and
a bundle stands for its name and manifest hash. The fetcher is its verdict and
what it left in `bundleRoot`; the verifier, the kexec loader and the Haven
watchdog answer nondeterministically, and a killed or rejected loader may have
loaded. `line` tells whether the frames on the connection can still be parsed.
The host is not modelled: any of `Requests` may arrive at any time, again and in
any order, and answers may be lost. `told` (the first answer the host received
under each identity), `drained`, `verified` and `ran` are history for the
properties. `FailClosed` is the poll of the watchdog lease,
`Unchecked` the steps without one.

### `HostInstall`

Extends `KernelInstall`, whose script it starts. `host` is the next step of
`main`: inspection, transfer of the payload, preflight, the marker that forbids
a retry (`entered`), the session (`link`), the report and the removal of the
payload (`source`). The session may break or be given up at its timeout while
the script goes on; the host program may end at any step. The script's checks and
copies need the payload in full (`OnPhone`), and its answer is only heard while
the session is up (`Answered`).

### `BundleSupply`

A part is the build whose bytes it holds, or "torn", "other" or "resized". The
packager writes part by part into a staging directory, syncs and renames; `names`
and `unsynced` are what power loss of the host may leave. The server verifies
and opens the parts (`held`), accepts a peer, refuses others up to its limit,
reads the request, sends, shuts down and confirms with two calls
(`ConfirmError`, `ConfirmInfo`). A connection has a wire, an inbox and a reset flag. The fetcher
takes the root's lock, removes stale staging, connects, forks its worker, waits
under a deadline, validates, normalizes, publishes, syncs and cleans up; workers
are indexed by fetch, because one may outlive its killed parent. Somebody may
change published files on the host by hand while the server has them open.

### `UsbSuspend`

`pc` follows one run of `rog5-usb-reconnect`, which systemd starts as a oneshot:
a start while it is active is merged (`StartRun`). Markers in `/run` are
`pending` (written by udev before its start), `skipped` and `suspending`; `lock`
is the flock both scripts take. `after` is the place that
`suspend_in_progress` returns to (`Check`, `Stale`, `Skip`). `Trap` and `Replay`
are the EXIT trap, `Terminated` the TERM of systemd (timeout or owner), `StopRun`
that of the pre hook; either cuts a running trap short. A run whose `stopped` is set
was already sent the one TERM that systemd sends. `hook` follows a suspend through admit, pre,
sleep and post, or, run by hand, past the admission (`byHand`). Waits have no
seconds: they end with what they waited for or without. `stamp` stands for the
30 s limit, which may or may not have passed; `timers` are transient units that
will start a run. `unseen`, `lost`, `cycles` and `bindFailed` are history:
`lost` is set at the step that drops an event nobody has looked at and nobody
will, and names the gap: `busy`, `limit`, `failure`, `merged` or `late`.

## 3. What the runs check

| Run | Instance | Result |
|---|---|---|
| `trial_state` | two helpers, three inodes, two identities of one run | records are whole, promises survive power loss, rejected trials stay rejected, leftovers block nobody, the helper implements the cell (so a durable record never disappears and no primary is booted twice unacknowledged) |
| `slotb_loader` | all modes, requests, selectors and broken bundles | what is executed was decided and verified; storage is sealed; no node is reopened after the helper was asked; a standalone loader ends |
| `boot_trial` | two trials, both images | no second unacknowledged boot, rollback leaves the trial failed, the composition implements the cell, Wi-Fi trial boots are judged |
| `kernel_install` | one install from the host to the phone, with and without new fallback and old record (318 thousand states) | every crash leaves complete bundles, a bootable selection and the old selector; the printed claims and the host's marker and report are true; the window closes |
| `package_update` | one update, two paths; user, kills, I/O errors, damage, one power loss (1.4 million states) | an unfinished upgrade has a way back, or would have it without a torn journal; user data is in one root, snapshots are whole, the lock of a running user transaction is kept |
| `package_update_twice` | two updates, two paths, two power losses | a pending update boots once, failed roots are kept, restores end |
| `recovery_control` | seven requests under three identities, two bundles, a ledger of four | the session implements `OneShot`; replays agree with what the host was told and nothing follows a cut frame; after a refused acquisition or a prepared bundle nothing is acquired again; a prepared session can be committed; every kill leaves records that load; `kexec -e` only after the response drained, with marker, Haven off and the claimed image; a dead watchdog ends the responder |
| `bundle_supply` | two builds, one of them packaged, three parts, two serves, two fetches, one fault (865 thousand states) | a published bundle is complete and the requested one; the host's root is whole after power loss; a failing fetch leaves staging only for a named reason; the whole implements `Handover`; every fetch ends |
| `usb_suspend` | one further event, one suspend, one of each retry, replay, kick and timer, two passes (6.4 million states) | no run is past its check in an admitted suspend; the controller ends bound or the failure is logged; counted re-initialisations are bounded; at rest every event was looked at, or one of the five gaps dropped it |

Several properties are conjunctions of what one piece of code promises:
`EveryCrashBoots` (bootable, complete, old selector kept), `RepliesAgree`
(replays and clean frames), `NothingLost` (`WayBack` and `UserDataKept`). `TypeOK` is proved for
`TrialState`, `KernelInstall` and `PackageUpdate`; in the other modules it
documents the range of each variable.
`DecidesOnlyVerifiedTrials`, `ProductionRamReadsOnly`, `NoStrayImage`,
`VerifiesOnce` and `PassUnlessLateReset` are proved for all instances (section 4) and not repeated in a run.

Three runs exhibit a disagreement between the code and its comments; each is a
finding in `PROJECT.json`:

* `kernel_install_trial`: the record is archived without the helper's lock; a
  helper before its rename puts the old record back after PASS.
* `package_update_restore`: the init does not restore when its comments say so
  (`RestoresWhenDue`). A new record is renamed before its content is synced, so
  power loss may leave a restore journal without content; the init then stops
  this boot and every later one, although root, snapshot and pending restore are
  all there. This is the trace that TLC finds first. With `LateData = FALSE` it
  finds the other half: an `attempt` that an interrupted `rm` of a commit left
  behind makes the init restore the next update without having booted it.
* `usb_suspend_replay`: an event after a run has looked for `pending`, and before
  systemd has noted its end, is merged into that run and never looked at
  (`merged`). The property also excludes the other gap that the comments deny, a
  run that saw the suspend and writes `skipped` after post has looked for it
  (`late`). The run has no kills (`Kills = FALSE`): nothing has to fail.

### Bounds and why they are enough

* `TrialState`: the directory lock serialises helpers, so two show every
  exclusion; three inodes are the record, the temporary and a just unlinked
  one that is still open. Two identities with one run are the smallest case in
  which `healthy` and `decide` compare different fields. Symmetry is over
  helpers and inodes only; trials are told apart by the cell.
* `SlotBLoader`: `MaxAttempts = 3` is the script's own number.
* `BootTrial`: a selected trial and another one whose record may be found.
* `KernelInstall`, `HostInstall`: one install, no constants.
* `RecoveryControl`: the requests hold the same bundle under two identities,
  two bundles under one, a commit of each, a commit of the wrong bundle and one
  that reuses a PREPARE's identity, so that every decision of `handle_request`
  occurs. With a ledger of four the reserve of three begins after one decision,
  and both sides of the boundary are reached.
* `PackageUpdate`: `MaxUpdates` caps ids, `MaxCrashes` power losses. One update
  with one power loss and all disturbances, and two updates with two power
  losses and none, were chosen because the failures that need a second update
  come from records that the first left behind, not from disturbances.
* `BundleSupply`: three parts are the manifest, its signature and one part that
  the manifest fixes. Two fetches let a worker outlive its fetcher beside the
  next one, two serves let a refused or failed one be followed by another, and
  of two builds one is asked for that was never packaged. `MaxFaults = 1` is one
  kill, power loss or change by hand, at any step.
* `UsbSuspend`: the script's numbers (three passes, three replays, three
  retries, two kicks) are lowered to one or two, which keeps both sides of each
  limit; the initial event and one more cover an event before, during and after
  a run and a suspend. Timers beyond `MaxTimers` merge into one, as their starts
  do. With `Kills` runs and hooks may be stopped or killed, and a marker of an
  earlier killed admission may be found.

For `TrialState`, `SlotBLoader`, `BootTrial`, `RecoveryControl`, `BundleSupply`
and `UsbSuspend` the theorems of section 4 remove the bounds for the safety
properties.

`CHECK_DEADLOCK FALSE` is set where the modelled programs end: the loader, the
installer, the bundle supply and the USB runs, whose bounds on events, serves
and fetches also end the model.

### Fairness

* `SlotBLoader`: only the watchdog, a process that sleeps and reboots, its kill
  and the final `kexec -e`. Everything else may hang.
* `BootTrial`: the timer fires, a helper that renamed returns, and the rollback
  gets the lock it waits for (strong fairness: the commit service can be
  restarted in between, and flock waiters are served). No fairness for the
  commit service.
* `KernelInstall`, `HostInstall`: only the relock guard, a systemd timer.
* `RecoveryControl`: the responder takes its next step, because each of its
  waits has a deadline or polls the lease. Nothing about the host, a restart or
  a reboot.
* `PackageUpdate`: the phone is switched on again and the init proceeds.
  Nothing about the updater.
* `BundleSupply`: the fetcher takes its next step, because each of its waits is
  bounded by the deadline and it kills its worker. Nothing about the worker, the
  server, the network or the packager.
* `UsbSuspend`: none; its properties are invariants.

## 4. What is proved

Eight modules hold theorems that TLAPS checks for every value of the constants.

**`TrialStateProofs`**: for any sets of helpers, inodes, trials and runs,
`Spec => []X` for `TypeOK`, `RecordIntact`, `PromiseKept`, `FenceHolds` and
`LeftoversNeverBlock`. The only assumptions are `ConstantsAssumption` in
`TrialState`: `RunOf` maps trials to runs, there is a trial, and the two
"nothing" values are not inodes or helpers. None of the four is inductive alone.
`IInv` adds:

* `Exclusive`: the one helper that is not idle holds the directory lock, so at
  a step of `p` all others are idle and hold nothing;
* `OpenRecord`, `SeenIsCurrent`: what a helper remembers of the record is what
  the record still says, which makes check-then-replace safe;
* `LegalWrite`: the only transitions a writer attempts, which excludes
  failed to healthy (`FenceHolds`);
* `TemporaryOwned`: the temporary is not a record in any directory that power
  loss may leave, and holds the new record in full, synced before the rename
  (`RecordIntact`);
* `Published`: after the directory's fsync every directory that power loss may
  leave holds the new record (`PromiseKept`).

There is one lemma per action. Shared steps are lemmas: `Alone` (all others are
idle), `ExitInv` and `FailInv` (ending a helper), `StepInv` and `QuietInv`
(steps that leave the file system alone), `TemporaryStep` (steps on the
temporary only), `SyncSettles` (a directory sync collapses `crashDirs`).

It also proves the refinement `HelperIsCell`, `Spec => RefinesTryOnce`: from
`IInv`, each step of a helper maps to a step of the cell or a stutter (the
rename to the change of the record, the directory's fsync to `Settle`, the
report to `Grant`). `HelperBootsOnce` is the cell's promise for the helpers:
a granted and unacknowledged trial is pending or failed in every directory that
power loss may leave (`GrantInv`), so no helper grants it again.

**`BootTrialProofs`**: the loader, the services and the timer implement the cell
(`ChainIsCell`), never boot a trial twice unacknowledged, a rollback fences, and
a production image in RAM only reads, for any trials (`AbsentAssumption`,
`SelectedAssumption`). `CellSafety` is the same promise for the abstract cell
alone, by the invariant that a granted and unacknowledged trial is pending or
failed in every survivor (`CellInv`). `IInv`: the helper that renamed holds the lock and the
record is the one it wrote (`LockInv`); a failed record that nobody is writing is
durable, unless an error or a kill hit this boot (`FenceInv`); service and timer
of a production bundle stay out of a RAM boot (`RamInv`).

**`SlotBLoaderProofs`**: what is executed was decided and verified, storage is
sealed, only verified trials are decided and nothing is retried after it, for
any number of attempts (`AttemptsAssumption`: at least one). `IInv`: nothing is
verified that is not in RAM and good (`Sources`); what is mounted and locked at
each step (`Storage`); the helper is asked once and only cleanup and execution
follow (`Decided`); what is loaded was verified and all is closed (`Closed`).

**`HostInstallProofs`**: `EveryCrashBoots`, `ClaimsHold` and `EvidenceIsTrue`,
for the script alone (`Spec`) and started by the host program (`HostSpec`). The
models have no constants, so TLC has seen every state; the proof adds the reason.
`IInv`: every p24 that power loss may leave has a selector with all that it
selects, and only one such state is left once p24 is durable (`DiskInv`); what
was written and synced before each step, above all that nothing which the
exchange activates is still on its way to the disk (`WrittenInv`); the flags at
each step (`FlagInv`); an open node has a guard that will lock it (`WindowInv`);
the running trial's record leaves its name only after the new selector is
durable, and only the helper brings it back (`RecordInv`); what the trap has read
is still so when it reports (`SeenInv`). `WindowIsGuarded` is the safety half of
`WindowCloses`. `HostInv` adds the host: no session before the marker, nothing on
the phone without a session, and a read-back only behind PASS.

**`PackageUpdateProofs`**: `NothingLost`, `PendingBootsOnce`,
`SnapshotsAreWhole` and the action properties `UserLockKept` and
`FailedRootKept`, for any number of updates and power losses
(`BoundsAssumption`: both are natural numbers), any user paths, every subset of
the disturbances and either kind of file system. `NothingLost` allows for a torn
journal; `RestoresUnlessLateData` is the unconditional promise
(`InterruptionRestores`) on a file system that writes data before the rename, by
`TornJournals`: there no journal is ever torn. So late data is the only cause of
what `package_update_restore` shows. `IInv` has four parts. `DiskInv`
says of the root and of *every* state that power loss may leave that it would be
a sound start for the next boot: unused updates have no snapshot, copies are
whole, every path of the user is in exactly one root, an armed update can be
reverted (unless the disk was damaged) and one that was booted has its attempt
recorded. `PhaseInv` ties the phase to the
program counter, `InitInv` says what holds at each step of the init's restore
(it has its journal, and is refused only after damage), `UpInv` at each step of
the updater (armed before the upgrade, disarmed before its snapshot may go). The
crash step follows from `DiskInv` alone, which is why it speaks about all
survivors.

**`RecoveryControlProofs`**: `RepliesAgree`, `AcquiresOnce`, `VerifiesOnce` (one
run of the verifier in a session), `CommitHasRoom`,
`StateLoads`, `NoStrayImage`, `ExecutesProven` and the refinement
`SessionIsOneShot`, for any requests, identities and bundles and any ledger of
at least three (`ConstantsAssumption`, `NoneAssumption`). `IInv`: memory is what
the records would load, at each step of the pipeline (`SessionInv`); the
published bundle, the image and Haven (`ImageInv`); what the host was told is
what the records answer (`ReplyInv`); two slots are free until the claim, three
while a decision is on its way (`RoomInv`); the frames (`LineInv`) and the
executor (`RanInv`).

**`BundleSupplyProofs`**: `FinalIsRequested`, `HostRootWhole`,
`FailureLeavesClean` and the refinement `HandsOver`, and that the server passes
only on an acknowledgment or a reset between its two reads
(`PassNeedsAckOrLateReset`), for any builds, more than two parts and any number of runs and faults
(`PartsAssumption`, `SourcesAssumption`, `BuildsAssumption`,
`FetchesAssumption`). `IInv` has three parts, each preserved with the help of the
ones before it: the host's disk, the server with its connections, the phone.
What ties them together is where bytes come from: a build found anywhere behind
the packager was published by it.

**`UsbSuspendProofs`**: `SuspendsQuiet`, `EndsBound`, `ReinitsBounded` and
`NoEventForgotten` (`EventsAreSeen`), for any limits and any number of events, suspends and timers
(`BoundsAssumption`: they are natural numbers, with room for one timer). `IInv`:
who holds the lock where (`LockInv`); from the admission on the marker stands
and nobody judged it stale (`QuietInv`); an unbound controller is in the hands
of a run that will bind it or, once stopped, of its trap, or of pre (`BoundInv`); re-initialisations are what the
retry counter and the give-up record say (`CountInv`); an unseen event has
somebody who will still look, or was dropped in one of the five gaps
(`EventInv`). One lemma per part, one step per
group of actions.

Only model-checked: the liveness properties (`StandaloneEnds`,
`TrialBootIsJudged`, `WindowCloses`, `RestoreEnds`, `WatchdogDeathEnds`,
`FetchEnds`), since fairness and `ENABLED` are out of the prover's reach. Every
invariant, action property and refinement that a passing run checks is proved.

## 5. Observations and limits

* `healthy` on a record that is already healthy, and `rollback` or `reject` on
  one that is already failed, report without a further fsync. A report can then
  rest on a rename whose own helper died before its fsync; `PromiseKept`
  therefore covers decisions that a helper published itself.
* `rog5-wifi-rollback.service` has `TimeoutStartSec=10s`. Killed at its timeout
  the rollback neither fences nor reboots; `TrialBootIsJudged` names this case.
* A Wi-Fi service whose finalization failed rejects its trial; the rollback
  timer may meanwhile have found it healthy and kept the boot. The record is
  then failed and the next boot is the fallback.
* `production-trial-commit` commits before it publishes: a failing publication
  leaves a healthy record, although a comment there says that any failure
  leaves it pending.
* `KernelInstall`: if the guard remounts read-only between the script's two
  remounts, the mount can end read-write on a node that is locked. The guard is
  assumed not to fire before the node is opened (180 s).
* `PackageUpdate`: a torn `snapshot-lock` makes every later `run` fail when it
  recovers; a torn failure counter reads as paused; a torn result or target list
  is treated like an absent one, as the code does.
* `BootTrial`: the Wi-Fi commit service does not look at the boot origin, so a
  RAM boot of the installed Wi-Fi trial commits its record;
  `ProductionRamReadsOnly` is therefore about the production image.
* `RecoveryControl`: the fetcher refuses every bundle that is already
  published, so after a rejected verification or a kill behind the fetch a
  second PREPARE is refused, as a conflict or as a failed fetch, and can never
  load in that session: `VerifiesOnce` is proved. `AcquiresOnce` is what code and
  `docs/history/recovery-control-plane.md` agree on, that nothing is acquired
  after a final refusal or a preparation. That document also says (lines 267 and
  325-327) that a rejected verification may be retried under a new identity and
  that a request may load again after a crash, and
  `docs/history/archive/recovery-fetch-contract.md` that an existing bundle is
  reused; the code does none of the three.
* `BundleSupply`: `confirm_tcp_delivery` says that it waits "until Linux reports
  that the response FIN was acknowledged", but reads the socket's error and its
  state by two calls. A reset between them shows a closed socket without an
  error, and the server passes. `PassUnlessLateReset` names this case, and its
  proof shows that there is no other.
* `SlotBLoader`: a third attempt that mounted userdata and failed the identity
  check is cleaned up twice, because the loop leaves `trial_mounted` set. The
  second unmount fails, and the loader stops with `trial_state` instead of taking
  the fallback as after every other failed preparation.
* `RecoveryControl`: the ledger never holds more than `LedgerMax - 1` decisions,
  so the code's test for a completely full ledger is never the one that refuses.
* `RecoveryControl`: loader and executor are not killed with the responder. The
  recovery init reboots when the responder ends; `Restart`, which the code
  supports, is modelled as happening after those children have ended.
* `HostInstall`: at its timeout the host removes the payload although the script
  on the phone may still run; a script that misses its files fails and its trap
  tidies up. A transfer that fails leaves what was sent in the phone's `/run`.
  A second install with a new evidence directory is not modelled.
* `BundleSupply`: `AwaitWorker` is one step: the fetcher's poll loop is left
  out, and it learns of its worker's end or of the deadline at any later moment.
* `BundleSupply`: a deadline or a failing fsync after the rename reports a
  failure although the bundle is published; a later fetch then refuses it as
  already there. A worker whose parent was killed may write into the staging
  directory that the next fetcher is removing, and staging can then remain. A
  staging directory that a killed packager left on the host stops every later
  packaging until it is removed by hand. A connection that was queued and is
  already dead uses up the server's only serve.
* `SlotBLoader`: the commands that the script runs without a test under `set -e`
  (`mkdir`, `sync`, `cp` in RAM) are taken to succeed. PID 1 would end with them,
  and what the kernel does then is outside the model.
* `UsbSuspend`, the five gaps. `busy`: a run that finds the lock busy outside a
  suspend ("this event is dropped, as before"). `limit`: replays in a row.
  `failure`: a run or hook that was stopped or killed, got no lock or no timer,
  or a marker met outside of a suspend. `merged` and `late` are those of
  `usb_suspend_replay`.
* `UsbSuspend`: a suspend by hand can lose its marker to a run that judged an
  older one stale, which is why `SuspendsQuiet` is about admitted suspends. A
  TERM during the EXIT trap skips the rest of the trap; pre binds the controller
  then. After a bind that failed for good no later run binds it, because its
  `unbind` fails first. The give-up record holds the display state that was read
  before the kick and the re-initialisation. systemd sends a run one TERM; the
  SIGKILL of one that hangs after it is not modelled.
* Health checks, `verify-root`, signature verification and the identity checks
  of block devices are nondeterministic answers. Record syntax, USB reporting,
  logging and file modes are left out.

## 6. Not modelled

`PROJECT.json` lists every part with its status; these are left out, for these
reasons.

* **The rest of `persistent-root-init`, the recovery and network-root inits,
  services and shutdown**: one process on one path, every failed check of which
  ends in the bootloader. What survives a boot (the restore) and what races (the
  recovery watchdog and the end of the responder) is in `PackageUpdate` and
  `RecoveryControl`. A model of the rest would repeat the script line by line and
  state no property that takes two actors or two boots to violate.
* **Bundle verifier**: a pure function of its input; the models use its verdict.
  What it accepts is a grammar and a signature, which are data here.
* **Desktop mode, shell selector, session carry, sleep and charge policies, GPU
  watchdog**: they poll answers of compositor, GDM, logind, kernel and battery
  controller and compare them with times and thresholds. The other half of each
  interaction is not in this repository, so a model of it would be invented
  rather than translated. The suspend that the sleep policy asks for is modelled
  from its admission on.
* **Audio route, Wi-Fi bring-up, USB storage, memory tuning**: sequences of
  writes to the kernel or to daemons; the outcome of the Wi-Fi bring-up enters
  `BootTrial` as the answer of the health check.
* **Other host tooling, staging of the first root file system, builds**:
  sequential programs run by one operator, started again from the beginning
  when they fail; their results are checked by hash where the phone uses them.
* **Touch, haptics, sensor and LED drivers, kernel and package patches**: their
  concurrency is defined by kernel interfaces and by trees that are not in this
  repository.
* **Diagnostic tools**: they read and print.

The unit tests of the repository are not modelled; they were read for what they
expect of the code.
