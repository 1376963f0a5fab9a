# TLA+ models of the Bundle Manager Service

This directory holds TLA+ specifications of `appexecfwk_lite`, the application
framework of small OpenHarmony devices: TLC configurations that check them on
small instances, and TLAPS proofs of the theorems that hold for every instance.
`PROJECT.json` lists the runs, the line each definition was translated from, the
hazards of the code, and a mutant of the code for every property checked.

## 1. The system

| component | state it keeps | operations | talks to |
|---|---|---|---|
| BundleKit client (`frameworks/bundle_lite`) | one installer callback per process, a map of state callbacks | `Install`, `Uninstall`, queries, `RegisterCallback` | features of the service, over IPC |
| features and host (`bundle_ms_feature`, `bundle_inner_feature`, `bundle_ms_host`) | the identity of the service, a queue of 20 messages | unmarshal a request, answer queries at once, queue installs and uninstalls | `ManagerService` through the queue |
| `ManagerService` (BMS) | the bundle map, three uid maps, the callback services | the message loop, the scan at start-up, uid allocation, broadcasts | installer, daemon, ability manager |
| `BundleInstaller` (BMS) | the operation in progress, install paths | install, update, uninstall, rollback | daemon, uid allocation, bundle map |
| bundle daemon channel (`bundle_daemon_client`, `bundle_daemon`) | a mutex, a semaphore, the result of the last call | one call at a time, callback registration, death of the daemon | the daemon process |
| bundle daemon (`bundle_daemon_handler`, `bundle_file_utils`) | the file system | extract, rename, write, remove | disk |
| bundle map (`bundle_map`, `utils_list`) | a list of `BundleInfo` under a mutex | add, update, get, erase | service task, query task |
| small-system service (`gt_*`, `slite`) | its own list, counters, install state | the same operations in one process, without a daemon | disk |
| profile parser, resources (`bundle_parser`, `bundle_info_creator`, `bundle_res_transform`) | none that lasts | `config.json` to `BundleInfo`, at an install and at a scan | installer, scan |
| conversion (`convert_utils`, `*_info_utils`) | none that lasts | `BundleInfo` to JSON and back, copies | features, BundleKit |
| zip, signature | none that lasts | read a hap | installer |
| bm tool | none | command line of the client | BundleKit |

Two services share the sources: BMS (Linux and LiteOS-A, with the daemon as a
process of its own) and the small-system service, a single task (`gt_*`).  The
latter has branches under `__LITEOS_M__`; the model is of the build without them,
which writes the install records and the lists with the functions cited in the map.

### What is hard

* **Crashes.**  An install is eleven changes of disk and memory, none atomic:
  the staging directory, the module directory, the data directory, the install
  record, the uid list, the list of vendor bundles.  `RenameFile` removes its
  target first, so every replacement has a moment with neither version.  The
  scan at start-up decides from what is left.
* **Failures half-way.**  Three macros (`CHECK_PRO_RESULT`,
  `CHECK_PRO_PART_ROLLBACK`, `CHECK_PRO_ROLLBACK`) and `CLEAR_INSTALL_ENV` undo
  different parts, also when the operation was an update of a working bundle.
* **Uids.**  They live in memory, in the uid list, in the record and as the owner
  of the data directory, and the first gap is reused at once.
* **Removed vendor bundles** are pre-installed still; one list keeps them away.
* **A counter kept by hand** limits third-party bundles on small systems; installs,
  updates, uninstalls and the scan each change it, and each restart resets it.
* **Two-stage start-up.**  The small-system scan puts off the haps that are new or
  updated until `RegisterInstallerCallback`; requests may come in between.
* **Two processes.**  The service waits on a semaphore for a daemon that may
  die; a client waits for a callback it shares with its other requests.
* **One queue for everybody.**  Requests, registrations and their memory pass through
  20 slots; subscribers are told one after the other, and may be dead.
* **Queries beside the service task.**  The map's mutex protects its list, not the
  infos that `Get` hands out.
* **Short memory.**  Copies of an info look at no allocation's result, and what they
  leave is filtered, written as JSON and copied again.

`PROJECT.json` lists these as `hazards`, each at its line, with the properties
that cover it or the reason none does yet.

## 2. The modules

| module | models | extends / uses |
|---|---|---|
| `UidMap` | uid allocation: `GenerateInnerUid`, `RecycleUid`, `RestoreUidAndGidMap` | |
| `BundleInstaller` | installer, scan and the daemon's file operations, with every fault | `UidMap`, `AppStore` |
| `AppStore` | the abstract specification: bundles appear, are updated, disappear | |
| `DaemonChannel` | the synchronous call of the daemon: mutex, semaphore, callback, deaths | |
| `BundleRequests` | requests of clients, the queue of the service, answers and broadcasts | |
| `BundleProfile` | which profiles the parser accepts, and the info made of one | |
| `BundleTransfer` | copies of an info and its JSON, with failing allocations | `BundleProfile` |
| `BundleQueries` | the bundle map, its changes, and queries from the call to the answer | `BundleTransfer`, `BundleCatalog` |
| `BundleCatalog` | the abstract specification of queries | `BundleTransfer` |
| `GtBundleManager` | the small-system service: installer, scan, counter, pre-installation | |
| `MCBundleInstaller`, `MCDaemonChannel`, `MCBundleRequests`, `MCBundleQueries`, `MCGtBundleManager` | instances for TLC | |
| `BundleInstallerProofs` (with `UidMap`), `BundleRebootProofs`, `DaemonChannelProofs`, `BundleRequestsProofs`, `BundleQueriesProofs`, `BundleCatalogProofs`, `GtBundleManagerProofs` | theorems and proofs | the above, `ListLemmas`, TLAPS |
| `ListLemmas` | lemmas on the sequence and set operators that several proofs use | TLAPS |

### BundleInstaller

The variables are what the service keeps in memory (`bundleMap`, `uidMap`), what
lies on disk (`codeDir`, `code`, `junk`, `data`, `record`, `uidFile`,
`thirdSystem`, `uninstalled`, `image`) and the operation in progress (`pc`, `hap`,
`staged`, `uid`, `tmpRecord`, `tmpUidFile`).  A step lies between two points where
the process, the daemon or the device may stop; an operation of the daemon that
is not atomic has a `...Begin` and an `...End` step, and only a power loss comes
between them, because the daemon finishes what it began when only the service
dies.  `acked`, `undone` and `gone` are history: `acked` is the last ERR_OK an install
of the bundle was answered with and is never taken back; `undone` is why the code no
longer keeps it: the bundle's own uninstall has begun to remove directories
(`uninstall`), its own update failed after the extraction (`rollback`, `clear`: the
macros remove the earlier version too), or power was lost while `RenameFile` replaced
its module directory or record (`cut`).  The next ERR_OK makes it `no` again.

Data is abstracted to what the properties distinguish.  A code directory holds a
version, or files without a profile (`Partial`), or nothing; `junk` are staging
directories `moduleName + randStr` that an interrupted operation left beside it,
which the scan takes for modules.  A hap is a bundle name, a version, an appId and
the partition it comes from.  `BadHap` stands for every reason the parser, the
signature check or the file checks refuse a hap before anything changed;
pre-installed haps are good.  The external install location and the content of
permissions are left out.

Undefined behaviour is a choice over what the build can do: the name given to
`RecycleUid` after an error lies in freed memory (`RecycleUidOfFreedName`), the
`keepData` the daemon reads is uninitialised (`DataKeptOrNot`), and
`CLEAR_INSTALL_ENV` frees an entry that is still in the map (`ClearDone`).

The scan (`ScanPackages`) goes through `phase` = SYSTEM, THIRD_SYSTEM, THIRD and
then `ready`, in any order within a directory; the branch of the code for the
first boot, without a record directory, installs exactly what the scan would.

### AppStore

What users of the service rely on: a bundle appears with a uid no other has, an
update keeps the uid and never lowers the version, bundles of the system partition
are not removed, one bundle changes at a time, a restart changes nothing.
`ImplementsStore` maps it to the install records: an operation takes effect when
the record is replaced or removed.

### DaemonChannel

`BundleInstaller` takes a call of the daemon for one step; this module is what
makes it one.  It is the build without `__LINUX__`, in which `Invoke` returns when
the request is sent and the answer comes back as a callback.  The variables are
those of `BundleDaemonClient` (`mutex`, `sem`, `result`, `initialized`, `watching`),
the place of every thread (`pc`), the daemon (`alive`, `registered`) and the
messages under way (`requests`, `ran`, `replies`, `notices`).

Four kinds of threads share the client: callers (`CallClientInvoke`), the thread of
`Initialize`, the IPC thread of `BundleDaemonCallback`, and one thread per death of
the daemon.  `WaitResultSync` is three steps (`SemWait`, `ReadResult`, and the reset
in `Return` or `RegisterReset`), and the test and the post of the semaphore are two
(`Check`, `Post`), because the callbacks run without the mutex.  `DeathCallback` may
fail to create its thread, and `AddDeathRecipient` fails when the daemon is dead
again.  Requests carry the number of their call, which the code does not have: it
lets a property say whose result a caller was given.  `executed` and `given` are
history.

### BundleRequests

What an operation does is `BundleInstaller`; this module is how it is asked for and
answered, with any outcome.  Each client has a thread that calls BundleKit (`pc`,
`current`) and an IPC thread that results are delivered on (`inbox`); it keeps one
callback for requests (`callback`) and its state callbacks (`listener`, `watch`).
The service has its queue, the message its task handles (`task`), the subscribers in
the order they came, and the memory that each message owns (`blocks`: the
`SvcIdentityInfo`, the path or name, the copy of the identity).  Messages are numbers;
`sent` says what each was.

A call is two steps, because the callback is replaced (`Request`) before the feature
puts the message into the queue (`Accept`, `Refuse`), and a registration is three:
the identity, the message, and only then the callback (`Registered`).  `Refuse` is the
full queue and every failed allocation; `AcceptWithoutName` is the name that
`UninstallInnerBundle` does not check.  The service task takes a message (`Execute`,
`DropNameless`, `ChangeCallback`) and sends results (`Answer`): to the client that
asked, and with `Reached` to the subscribers up to the first that is dead.
`answers`, `log`, `audience` and `heard` are history.

Left out: what BundleKit refuses before it changes anything, the three debug requests,
the count of the identity's handle, and races of two threads of one client on its
callback map, which has no mutex.  After `ParseBundleParam` succeeded,
`InstallThirdBundle` never frees the name it got; the model counts the blocks of the
message alone.  The request `BUNDLE_SERVICE_INITED` is `ScanPackages` in `BundleInstaller`.

### BundleProfile, BundleTransfer

Two modules of operators, without state.  A profile is a record that says which members
a JSON object `has`, which are `wrong` (of another type) or `long`, and what its
references to resources are (`ref`); the text of a member is its name, so that a text in
another's place is seen.  `Installable` and `Reloadable` are the two versions of
`ParseHapProfile`; `InstalledInfo` and `ReloadedInfo` the infos the installer and the
scan make.  There is one module in an info (`SetModuleInfos`), so that the index
`ConvertJsonToModuleInfos` does not advance (`FromJson`) does no harm.

`BundleTransfer` has `CopyBundleInfo` (`Copied`), the copies that one failed allocation
leaves (`Thinned`), whether an info can be written as JSON, cannot, or crashes the
service (`Serialized`: the array of abilities is not checked for null), and the way back
(`JsonAccepted`, `FromJson`).  Only builds with `__LINUX__` bound the length of an answer
(`TooLong`, `AbilityTooLong`).

### BundleQueries

The variables are the list of the map (`list`, each info with a mark when its memory was
freed), what the scan finds after a restart (`code`, `record`), the operation of the
service task (`installing`, `toLoad`), whether the service `crashed`, and the call of each
client.  Installs are reduced to how they touch the list: `Publish`, then `Commit` or
`ClearInstallEnv`, or `RollBack`; `BundleInstaller` has the rest of them.

Queries run beside the service task, because `BmsServerProxy` exports them as functions;
that samgr lets another task call them is an assumption about code that is not here.
`LookUp` and `Read` are apart, since `Get` gives its pointer out of the mutex; `Snapshot`
is one step, since `GetBundleInfos` copies below it and what follows uses the copy.
Reading freed memory gives the old value, something else, or a crash.  At most one
allocation fails in a call.  The kinds of questions are `QueryAbilityInfo`,
`GetBundleInfo`, `GetBundleSize`, `GetBundleInfos`, `QueryKeepAliveBundleInfos`,
`GetBundleInfosByMetaData` and `GetBundleNameForUid`.

Left out: directories with several modules, the JSON strings that are never freed, the
questions about system capabilities, which are samgr's.

### BundleCatalog

What a client may rely on: one catalog, changed by one bundle at a time, and each answer
true of one moment between question and answer.  Exceptions are named: an error or a
missing text when memory was short (`starved`), an answer about a bundle that changed while
it was read (`stale`), and `wild`, from a `CLEAR_INSTALL_ENV` to the next start, when
nothing is promised.  `ImplementsCatalog` maps `BundleQueries` to it.

### GtBundleManager

One task handles one message at a time (`ServiceMessageHandle`), so nothing
interleaves but the points at which the device may stop.  Memory is `bundleMap`,
the counter `count` (`installedThirdBundleNum_`) and the haps put off (`pending`,
`updated`); disk is `code`, `data`, `record`, the two lists of third-system bundles
and the haps of the `image`.

Start-up goes through `phase`: `system` scans the haps of the partitions, and
reloads a bundle or puts it off (`PostponeSystemApp`) when it is new or older than the
image; `third` scans the code directories; `ready` serves requests; at
`RegisterInstallerCallback` the phase `preinstall` installs what was put off, and
`ready` follows.  A device without record directory takes a branch of its own in the
code that installs every pre-installed hap; the model reaches the same through the
scan, which finds no valid record.

Staging directories and temporary records that an interruption leaves behind are not
state: no record is valid for them, so no scan takes them.  `BadHap` is every refusal
before the disk changed; during `preinstall` it is a fault, because haps of the image
are good.  A list is removed and written again (`StoreJsonContentToFile`), so an
interruption leaves it old, missing or `Torn`.  As in BMS, `CLEAR_INSTALL_ENV` frees
an entry that stays in the map: later look-ups find it or do not (`RemoveDirsEnd`).

`acked`, `undone` and `gone` are history as in `BundleInstaller`: `undone` holds the
bundles whose answered version the code itself took, by their own uninstall, by their own
failed update, or by a power loss in it (`LostByPower`).  `calm` counts, up to two, the boots
since the last fault: a code directory that lost its profile is removed by one boot
and installed by the next, so `SystemAppsBack` needs two.  Faults are `power`, `io`,
older versions (`reject`), requests before registration (`early`) and installs of a
removed vendor bundle (`reinstall`).

Left out: the static buffer that carries the arguments of a request and the polling
of `GetInstallState`; a second `RegisterInstallerCallback`, which reads freed memory;
`RemoveDir` reporting success when only the outermost `rmdir` failed; the conversion
of js files.

In every module, the definitions marked `\* a bug` are mutated forms of the code that
the named properties must detect; no specification uses them.

## 3. The runs

| run | faults | checks | shows |
|---|---|---|---|
| `reboots` | reboots, image updates | `UidReserved`, `DataOwner`, `DiskAgrees`, `StaysUninstalled`, `ImplementsStore` | without failures, memory and disk agree and the service is an `AppStore` |
| `everything` | all | `TypeOK`, `SystemAppsPresent`, `AckedSurvives`, `ThirdStaysUninstalled` | no interruption costs the device a system bundle; what was answered ERR_OK stays true until the bundle's own uninstall, failed update or cut `RenameFile` |
| `daemon` | failing daemon operations, refused updates | `AckedVersion`, `Answered` | every request is answered; the failure of one bundle's operation leaves the others at their answered version, and a rollback takes the bundle away as a whole |
| `channel` | the daemon dies, at any moment; two callers | `TypeOK`, `OneInCall`, `AnswerIsOwn`, `CallsReturn`, `SuccessGivenOnce`, `DeathWakesCaller` | until the first death every call returns, with the result of its own function; after it calls exclude each other, no success is told twice, and a death wakes the call that waits |
| `requests` | full queue, failing allocations, a client that dies | `TypeOK`, `BlocksOwned`, `OwnAnswer`, `NotMissed`, `HeardInOrder`, `AcceptedAnswered` | accepted requests are answered once, to their own callback; subscribers miss nothing and hear it in order; nothing leaks |
| `queries` | failing installs, restarts, failing allocations, bad profiles | `TypeOK`, `ListedOnce`, `CrashExplained`, `InstalledAnswerable`, `ListMatchesDisk`, `ImplementsCatalog` | answers are true of one moment; an installed info can always be sent; the scan finds what the install made |
| `gt_reboots` | reboots, image updates, refused updates | `LimitKept`, `AckedSurvives`, `StaysRemoved`, `DataKept`, `Answered` | without failures the limit, installs, removals and data survive reboots and updates |
| `gt_faults` | all | `TypeOK`, `SystemAppsBack`, `AckedOnDisk`, `ThirdStaysRemoved` | system bundles recover, acknowledged installs stay on disk unless the bundle's own operation takes them, removals are final |
| `same_uid` | refused updates | `UidUnique` violated | finding 1 below |
| `keep_data` | none | `KeepDataHonoured` violated | finding 2 below |
| `registers_again` | the daemon dies once | `RegistersAgain` violated | finding 3 below |
| `gt_limit` | none | `RefusedOnlyWhenFull` violated | finding 4 below |

**Bounds.**  Two versions make an upgrade, a downgrade and a reinstall; two third-party
bundles are needed for one to take the uid of the other, one bundle of each
partition for the three phases of the scan.  Two or three requests and two faults
(restarts and failures, `MaxFaults`) let an operation be interrupted, the recovery from
it be interrupted too, and a later request meet the result; requests, restarts and
failures have bounds of their own as well, all in the guards.  The uid ranges are those
of the code.  In `DaemonChannel` two callers are needed for the mutex to matter; one
death meets every state of three calls and of the registration (the proofs are for any
number); `MaxCalls` and `MaxDeaths` bound behaviours.  In `BundleRequests` two clients
share a queue of two: a registration and a request wait in it together, in either order,
and a third message meets a full queue; four messages let a client register twice, or a
registration, a request and an unregistration of different clients cross each other.  In `BundleQueries` two bundles make a list in which one bundle's fault can
reach the answer about the other, one of them listed with and one without abilities; one
client is enough because queries do not change what they share; two changes replace what a
pointer points to and list it again.  Arrays have room for two items, one profile has
three, and `IpcLimit` lies between the weights of one bundle and two.  Each bad
profile of `MCBundleQueries` differs in one thing from a good one, so that only the check
it is made for keeps it out.  In `GtBundleManager` the limit is one instead of the
code's, so that two third-party bundles reach it; five requests install, update and
remove both of them.  `CountModulus` is ten instead of 2^32: more than the requests of a
behaviour can count upwards, as `GtAssumption` demands, while the wrap below zero
does occur.  Three restarts let two quiet boots follow a fault.
`MaxFailures` bounds failing file operations and early requests together: in `gt_faults`
there is one of either beside the power losses; the theorems are for any number.

**Deadlock** is checked in `queries`, where clients go on asking.  Elsewhere it is not: the service rests when its requests are used up, and a
call after a death may wait for ever (finding 3).  `Answered` and `CallsReturn` say
where it must not stop.

**Fairness.**  `FairSpec` has weak fairness of `Install \/ Uninstall \/ ScanPackages`:
one task runs the message loop, its handlers have no loop that waits for another
request, and each call of the daemon returns or fails.  Requests and faults are not
fair.  In `DaemonChannel`, `Fairness` has weak fairness of every thread, of the
daemon's single task and of init, which starts the daemon again; calls and deaths
are not fair.  The calls of a behaviour are bounded, so weak fairness is enough for
the mutex to be obtained.  In `BundleRequests` the service task, the IPC thread of each
client and a call that has begun are weakly fair: the task is `SINGLE_TASK` and waits for
nobody, since results are sent with `TF_OP_ASYNC`; nobody has to call.  In `GtBundleManager`, `Work` is weakly fair because one
task runs every handler to its end, and `RegisterInstallerCallback` because the
launcher calls it at start-up.

**What the answer ERR_OK is not worth.**  The code destroys a version it has answered for
in three cases, all named by `undone`, and the properties about answers (`AckedSurvives`,
`AckedVersion`, `AckedOnDisk`) except the bundle concerned, and it alone.  An update that
fails after the extraction removes the earlier version (`CHECK_PRO_ROLLBACK`,
`CLEAR_INSTALL_ENV`); after a rollback `AckedVersion` still asks that the bundle is out of
the list, after `CLEAR_INSTALL_ENV`, which leaves a freed entry in it, nothing.  A power
loss between the removal and the rename of `RenameFile` or `RenameDir` leaves neither
version; system bundles come back from the image (`SystemAppsPresent`, `SystemAppsBack`),
others are lost.  An uninstall that fails half way has removed what it had come to.  No
such case may touch another bundle.

**What does not hold** either, and is therefore not among the properties of a run: under
crashes and power losses `UidReserved`, `DataOwner`, `DiskAgrees` and, for vendor
bundles, `StaysUninstalled` are lost (the hazards at `bundle_manager_service.cpp:529`
and `bundle_installer.cpp:161` tell how); under daemon failures so are `UidUnique`
and `SystemAppsPresent`, because the rollback of an update removes the old version:
`SystemAppsPresent` is for behaviours in which no operation of the daemon failed.
After a death of the daemon `AnswerIsOwn` is lost: if no call waited, the post of `RegisterDeathCallback`
is consumed by its own registration, and every later call returns the result of the
one before it.  A call may then also wait for ever.  `OwnAnswer` needs clients that wait
for an answer before the next request, since there is one callback for all.  `NotMissed`
is lost when a subscriber dies: nothing removes it, `InnerTransact` gives up at it, and
those who registered later hear nothing any more.  An uninstall whose name could not be
copied is accepted and never answered.  A query reads a `BundleInfo` that an uninstall or
an update frees, and every query reads the one that `CLEAR_INSTALL_ENV` freed; when an
array could not be copied, `QueryKeepAliveBundleInfos` and `GetBundleInfosByMetaData` may
crash the service.  A bundle that was installed when no uid was left is not listed after a
restart.  On small systems
`AckedSurvives`, `StaysRemoved`, `DataKept` and `LimitKept` are lost under power
losses, failing files or early requests, and `AckedSurvives` when a removed vendor
bundle is installed again, because it stays in the list of removed bundles and counts
as third-party at the next scan.  `SystemAppsBack` promises the bundle, not its
version: the record decides whether an image update is applied, and a power loss may
leave it older or newer than the code.

**Findings.**
1. `same_uid`: a refused update gives away the uid of the running bundle.
2. `keep_data`: `keepData` is never sent to the daemon.
3. `registers_again`: the thread of a death posts the semaphore before it takes the
   mutex.  The next call may take it first; the new daemon, with no callback
   registered, drops the request, and the call and the thread wait for each other.
4. `gt_limit`: on small systems an update counts as another third-party bundle, so
   after an update and an uninstall an install is refused with nothing installed.

## 4. The proofs

The uid allocator, in `BundleInstallerProofs`: from `UidRangesAssumption` alone, `NewIndexIsLeastFree` (the index
taken is the least free one or one past the largest), `GeneratedUidIsFresh` (it was
reserved by no bundle, and no other reservation changes) and `RecycleKeepsOthers`;
lemmas type the three operations and the restore.  `EnoughUids` says that the system
range and the vendor range could each hold every bundle.  Then, as long as no bundle
has two uids, the next index stays in its range (`NewIndexSuffices`, a counting
argument), and `RestoreReadsBack`: the restore yields the maps the list was written from.

The installer, in `BundleInstallerProofs`: from both assumptions, for all bundles, versions, faults
and bounds:

* `TypeCorrect`: `TypeOK` is inductive as it stands.  One step per action; the
  lemmas before it type what several actions share (`EndType`, `DirsType`,
  `LeaveStagedType`, `StartType`).
* `ThirdRemovedStays`: a third-party bundle whose uninstall was confirmed stays
  away.  The property is not inductive, because a record left on disk would bring
  the bundle back at the next scan.  `RemovedInv` adds that a removed bundle has no
  record and that no operation but an uninstall is about it
  (`RemovedLeavesNoTrace`), that the first two phases scan only their own partition
  (`ScansOwnPartition`), and what an uninstall has done by each step
  (`UninstallProgress`).
* `AnsweredSurvives`, for all faults, of every bundle that is not `undone` (see "What the
  answer ERR_OK is not worth").  `AckedSurvives` speaks of the moments between operations; `AckedKept` says at each step of an update, a scan or an interruption
  what still holds the bundle: the record or the temporary one, a profile in the module
  directory or in a staging directory, the map or a scan that has yet to come.  It needs
  to know what each step of an install may rely on (`InstallProgress`).  A bundle for
  which no uid was left was answered ERR_OK too and is dropped by the next scan: the
  property is not about it.
* `AnsweredVersionStays`, from `Faults` without restarts: `VersionKept` adds which of
  memory, record and code directory an operation has already replaced, and that a bundle
  whose update was rolled back or whose uninstall failed half way has left the map.
  `FirstScan` says that, without restarts, the scan installs what has no record yet and
  that every record is of a bundle in the map.
* `SystemAppsAreBack`, for all faults: `SystemKept` says of each system bundle that it
  is in the map, or still to be scanned, or being installed by the scan.  Its hypothesis
  `[]UidsLeft` (`GenerateUid` has a uid whenever a new bundle asks for one) cannot be
  derived for all faults, since every install that fails leaves its uid taken until the
  next start; it is derived from `EnoughUids` when nothing fails (`UidsAreLeft`).

`BundleRebootProofs`, from `OnlyReboots`: no daemon operation fails, restarts fall between
requests (with new system images), clients ask for no older version or other signer, and
the ranges suffice (`EnoughUids`).  These are the faults of the run `reboots`; the section
on what does not hold tells why no more can be allowed.  One inductive invariant,
`RebootInv`, carries all five theorems, since its parts need each other:

* `Steady`: for each bundle, memory, record, code and data directory agree except for the
  bundle in operation, of which `OperationInStep` says step by step how far they have
  moved (an install first replaces the code, then takes the uid, the map, the uid list and
  the record; an uninstall the other way round).
* `UidsHeld`: a uid is reserved at one index of one map, for the bundle whose record or
  running install has it; `UidsListed`: the uid list, or the file about to replace it,
  has one entry per bundle with that uid.  A restart replaces the maps by the list, so the
  first needs the second.
* `VendorsKept`: a vendor bundle that is in neither list was never installed and is still
  ahead of the scan, one that was removed is in both; what is installed over a
  pre-installed hap has its signer, or the scan's update would be refused and the uid of
  the running bundle given away (finding 1).
* `SystemKept`, from `BundleInstallerProofs`.

The theorems are `UidStaysReserved`, `DataBelongsToOwner`, `DiskTellsTheSame`,
`RemovedStayUninstalled` and `StoreImplemented`.  For the last, `RecordReplaced` and
`RecordDropped` are the two steps that map to a step of `AppStore`, and `StoredChanges`
says that every other step is a stutter; that the uid of a new bundle differs from all
others is `OwnUidsDiffer`, from `UidsHeld`.

`DaemonChannelProofs`, from `ChannelAssumption`, for any number of threads and calls:

* `ChannelTypeCorrect`.
* `CallsExclude`, for any number of deaths.  `OneInCall` needs to know who holds the
  mutex: whoever is in a call holds it, except that the thread of `Initialize` is in
  its call without it, and while it is nobody else is (`MutexInv`).
* `AnswersAreOwn`: until the first death, whatever is bound to come.  `TokenInv` follows the one token that a
  call is: at any moment it is exactly one of a request, a result not yet sent, a
  reply, a value in `result` with the IPC thread at its check, or a post.
* `SuccessesToldOnce`, for any number of deaths.  There is no token any more, for a
  left-over post lets a call return what is in `result_` before its own work is done.
  `NumbersInv` follows the number of each call instead: it is with the caller that has
  not sent it yet (`NewNumbers`), or in one of the three queues and once (`OneQueue`), or
  in `result_`, or it was told; told and in `result_` at once it is only until the one
  who reads resets it (`ToldOnce`), and `OneInCall` says that nobody reads meanwhile.

`BundleRequestsProofs`, from `RequestsAssumption` (a finite set of clients, and
messages that name their sender), for any clients, messages, queue size and deaths:

* `RequestsTypeCorrect` and `MessagesFreed` come from one invariant, `PlacesInv`.
  `TypeOK` is not inductive, because a call in progress must be about a message that
  was sent (`CallsSend`).  `BlocksOwned` is not either: that the memory of a message is
  freed once needs that the message is in one place only.  `QueueSound` says that it is
  in the queue at most once and never both queued and handled, and `ResultsSound` that
  a result on its way is of a request that is in neither.
* `CallbacksHearTheirOwn`, from `AnswersInv`.  The service knows no request when it
  answers: whatever callback is stored gets the result.  `CallbackSound` says whose it
  is: while a client that never overlapped two requests is alive, the stored callback
  is that of its only open request.  `Unsent` keeps new messages without answers.
* `SubscribersTold` and `StatusInOrder` come from `HeardInv`.  A registration is on its
  way through the same queue as the requests, so who subscribes is counted at each place
  of the queue (`SubscribedAfter`): whoever watches is subscribed at its end
  (`WatchersSubscribe`), and whoever watched when a request was accepted is subscribed
  at its place (`AudienceSubscribes`).  Subscribers differ and have registered
  (`SubscribersSound`), so that, while none died, the broadcast reaches all of them and
  the audience has been told or has it in the inbox (`AudienceTold`).  For the order,
  what a client heard and what is in its inbox are runs of the log, in its order
  (`NewsInOrder`), and the log has no request that is still queued (`LogSound`).

`BundleQueriesProofs`, from `QueriesAssumption` (members have a text, the arrays of a
profile are sequences, a question is of one of the seven kinds, what is installed when the
service first starts has the profile of its bundle), for any bundles, profiles, uids, clients and number of changes.  The
first three theorems follow from `QueriesInv`, the others from `ShapeInv`:

* `EveryInfoAnswerable`: the list holds only infos made of a profile the parser let
  through (`Infos`, part of `StateInv`), and of those `InfosAnswerable` shows that
  `ConvertUtils` finds all it needs.
* `NoBundleTwice` and `ListIsOnDisk`.  A loop over the list finds one entry of a bundle
  only if the list is sound (`Sound`), and an update keeps the place of the old info, so
  list and disk are related for every bundle (`Matches`): also for the one that is
  being installed, which is listed and on disk but has no record yet.  A bundle the
  scan has not come to is on disk with a record and not listed (`StateInv`).  The
  proofs speak of the list as the set of infos of a bundle (`Listed`), of which
  `UpdatedSound` and `ErasedSound` say what the two operations do to it.
* `CrashesExplained`.  `InfosCounted` says that the counters of an info made from a
  profile agree with its arrays, and that a metadata item that is compared has a name, so
  no conversion of an intact info reads through null.  What is left is
  a copy in which an allocation failed and an info that was freed while it was read, and
  the call that took one stays in its phase while the service is down (`CallInv`).
* `QueriesTyped`, which needs besides that each listed uid is one of its bundle
  (`UidInv`), across updates and restarts.

Filters are written with `Only`, a recursive function: the prover has no definition of
`SelectSeq`.

`BundleCatalogProofs`, from the same assumption: `CatalogImplemented`, that `BundleQueries`
implements `BundleCatalog`.  The list is the catalog, and a call is `stale` when its pointer
dangles or the list it looked at had infos freed by `CLEAR_INSTALL_ENV`.

* What is answered.  Copy, JSON and copy again give back the info (`IntactCopy`), so
  without a failed allocation the reply is right of the moment (`Fitting`): the lemmas
  `Right...` say so for each kind of question.  With one, what arrives is made of
  infos that lack a text, an array or an item (`LostInfo`), hence `Honest`; the service
  may lose something and the client something more, which `Decent` allows.
* When.  `RightCall` says for each phase of a call what its moment, pointer and reply are:
  whoever has looked holds an info of that moment about the bundle of the question, and
  whoever has read holds a reply that fits it, or is stale.  It needs `QueriesInv` and
  `ShapeInv`: that a lookup finds *the* info of a bundle needs the list to be sound.
* Each step then maps (`Maps`).  Infos freed by an uninstall or an update make exactly those
  calls stale that hold one of the bundle (`DanglingMaps`).  A scan adds a bundle while
  queries run, but it is one that is not listed, so no call that has looked asked about it
  (`ReloadMaps`).

`GtBundleManagerProofs`, from `GtAssumption`, for all bundles, versions and bounds:

* `GtTypeCorrect`, in particular that the counter keeps its width.
* `GtThirdRemovedStays`, for all faults.  As for BMS, a removed bundle must have no
  record; besides, what the scan puts off must be pre-installed
  (`PutOffIsPreInstalled`), or it would be installed at registration.
* `GtLimitKept`, if no power is lost, no file operation fails and no request comes
  before registration (`Undisturbed`); reboots, refusals and reinstalls are included.
  The counter is not the number of bundles (finding 4), so the limit does not follow
  from the guard alone.  `CountCovers` says that the counter never falls below the
  third-party bundles that are published and counted, `LimitCovers` that these never exceed
  the limit while one is on its way.  An uninstall keeps this only if the bundle was
  counted, so `VendorsListed` says that a vendor bundle, which is not counted, is on
  the list of third-system bundles once it can be removed; `Orderly` says which
  phases an operation may run in; `CountBounded` that the counter does not wrap.
* `GtAckedOnDisk`, for all faults, of every bundle that is not `undone`, from `AckedHeld`:
  an operation that takes the record or the code of a bundle away has made it `undone`, or
  goes on to put the same or a later version in its place.
* `GtSystemAppsBack`, for all faults, from `BootInv`.  One boot is not enough: a directory
  that was cut off has no profile, so the scan removes it and the bundle is missing, and
  only the next boot finds nothing and installs it.  The first boot without a fault ends
  with no directory cut off (`CodeWhole`); in the second each bundle of the system is in
  the map, as one, or still to be scanned or installed (`SystemThere`).
* `GtAckedSurvives`, `GtStaysRemoved` and `GtDataKept`, from `OnlyReboots`, the faults of
  the run `gt_reboots`.  `RebootInv` joins the parts above and says of each bundle that
  disk and memory agree on it (`DiskWhole`), that a record means loaded or about to be
  (`Loaded`), that a scan never takes a third-party bundle for one of a partition
  (`StylesMatch`), and that a removed vendor bundle is on the list of those the scan
  skips (`VendorsGone`).  The scan counts from zero and skips what exceeds the limit, so
  an answered bundle could be lost at a boot; `RoomLeft` says that the third-party
  bundles on disk are never more than the limit, which is `LimitKept` carried over the
  reboot.

Only model-checked: the liveness properties `Answered`, `AcceptedAnswered`, `CallsReturn`
and `DeathWakesCaller`, which are out of the prover's reach.  Every safety property and both
refinements are theorems.

## 5. The plan

1. `SliteRequests`: the shared request buffer of small-system clients, and the
   progress that `GetInstallState` reads while the task writes it.
2. `GtProfile`: the parser of small systems, beside `BundleProfile`.

## 6. Not modelled

Zip extraction, signature verification and the bm tool have no state that outlives a
call; the installer sees their result, which is a choice in the model.  The parser of
small systems is a choice too (`BadHap`), as is the text of permissions.  Also left out:
the debug, signature and external-install modes, which only change what is refused and
where; shared libraries, which are mounted once at start-up; the questions about system
capabilities, answered by samgr.  `components` in `PROJECT.json` lists every part.
