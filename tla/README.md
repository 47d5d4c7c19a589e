# A TLA+ model of drm_hwcomposer

drm_hwcomposer implements Android's hardware composer on top of the Linux
DRM/KMS interface. A client (SurfaceFlinger, through the HWC3 service) hands it
the layers of every display; for each frame it decides which layers the client's
GPU has to draw and which ones hardware planes can scan out, turns the result
into an atomic commit, and keeps buffers alive until the screen no longer shows
them. Monitors come and go while it runs.

The modules here describe the parts of that program in which order matters, TLC
checks them on small instances, and TLAPS proves their safety properties for all
instances, some under assumptions that section 4 states. Paths are relative to the root of the repository.

## 1. Inventory

### Threads and locks

One mutex, the *main lock* of `drm/ResourceManager`, is taken by every HWC2 hook,
by the hotplug handler, by the vsync callback and by the present tracker. Beside
it there are only the mutexes of the workers. The threads are

| thread | runs | locks |
|---|---|---|
| client threads | HWC2 hooks | main lock for a whole call; released during hotplug callbacks, during the 0.2 s sleep of `FinalizeDisplayBinding` and while displays are destroyed |
| uevent thread | `UEventListener::Routine` | main lock in the hotplug handler, released as above |
| one present tracker per pipeline | `PresentTrackerThreadFn` | main lock twice per frame; none while it waits for a fence |
| one vsync worker per display | `VSyncWorker::Routine` | worker mutex briefly; main lock in the callback; none while it waits for a vertical blank |
| HWC3 call thread | `ComposerClient`, `ComposerCommandEngine`, `HalImpl` | the handle cache's own lock briefly; every HWC2 hook takes the main lock for itself only; `Composer` has a mutex for the life of its client |
| binder threads of the hwc service | HDCP requests | none |

### Components

| component | state | operations | talks to | what makes it correct |
|---|---|---|---|---|
| `DrmAtomicStateManager` | active and staged frame state, present fence, frame counters, HDR flags | `ExecuteAtomicCommit`, `CommitFrame`, `CleanupPriorFrameResources`, tracker thread | KMS (commit, out fence), connector | a frame is promoted once, after its flip; framebuffers on screen stay referenced; its idea of power state, mode, planes and HDR metadata is KMS's |
| `DrmFbImporter` | cache from GEM handle to framebuffer | `GetOrCreateFbId`, creation and destruction of `DrmFbIdHandle` | kernel handle table | a layer gets the framebuffer of its buffer; handles are neither leaked nor closed twice |
| `Backend`, `DrmKmsPlan` | types of the layers | `ValidateDisplay` and the range searches | `HwcDisplay` (test commit) | the proposal covers what needs the GPU, fits the planes, is cheap |
| `HwcDisplay` | layers, staged mode, flattening and vsync flags, present fence | hooks of the frame cycle, power, configuration; `SetPipeline` | all of the above | calls agree with each other; release fences for scanned-out buffers; vsync events arrive |
| `HwcLayer` | buffer, types, swap-chain cache | setters, `ImportFb` | `DrmFbImporter` | cached framebuffers belong to the buffers they are found by |
| `Worker`, `VSyncWorker` | enabled, callback, pipeline, exit | `Init`, `VSyncControl`, `Routine`, `Exit` | `HwcDisplay` callback | no enabling is lost, no deadlock on destruction |
| `DrmHwcTwo` | displays, handles, deferred events, removal list | `BindDisplay`, `UnbindDisplay`, `FinalizeDisplayBinding`, `RegisterCallback` | client callbacks | displays and pipelines are paired, a primary display exists, the client knows the truth |
| `ResourceManager`, `UEventListener` | devices, attached pipelines, handler | `Init`, `DeInit`, `UpdateFrontendDisplays` | `DrmHwcTwo` | no hotplug is lost, nothing is attached after `DeInit` |
| `DrmDisplayPipeline`, `DrmDevice`, `DrmPlane`, `DrmKmsPlan` | ownership of connector, encoder, CRTC, planes; the stored plan | `CreatePipeline`, `GetUsablePlanes`, `CreateDrmKmsPlan` | KMS objects, frame states | every object has one owner and is given back; a validated frame can be presented |
| `HwcDisplayConfigs`, `DrmMode`, `DrmConnector::UpdateModes` | configurations and groups, staged and active mode | `Update`, `FillHeadless`, `SetActiveConfig`, the mode part of a commit | connector, client | sound groups, a preferred configuration, numbers that keep their meaning, a reported mode that is the one shown |
| colours, HDR, power | EDID data, metadata, settings files, CRTC properties | `ParseCTAFromExtensionBlock`, `PrepareHdrMetadata`, `SetColorTransformMatrix`, `SetColorCorrection`, `SetPowerMode` | connector and CRTC | the monitor's HDR block is found, tables are in range, off is off |
| HWC3 service: `Composer`, `ComposerClient`, command engine | client, must-validate flags, commands | `createClient`, `registerCallback`, commands, `onHotplug` | `HalImpl` | one client at a time; a new client starts clean; buffers handed to the device live |
| `HalImpl`, handle cache | event callback, device functions, handles per display and layer | hooks, two-call queries, forwarded calls | HWC2 hooks | hooks never meet a reset callback; answers fit their arrays |
| HDCP sessions, hwc service | protection state per pipeline, cached property values | enable and disable, for one display or all | `DrmHwcTwo`, kernel | the last request is what the connector is told |
| backend selection, buffer information, blitter | - | - | vendor interfaces | (see "Not modelled") |

### What is hard

Frames are finished by two threads that race for them; a commit reads state that
its own wait replaces; fences time out; the lock is given up in the middle of a
hotplug; GEM handle numbers are reused; unsigned arithmetic on planes and layers;
a thread sleeps that another has just enabled; planes and CRTCs pass from one
display to another between two calls of a client; the HWC3 service asks for a
count and then for the data; its client dies in the middle of a call. `PROJECT.json` lists each such
hazard at its line, with the properties that cover it.

## 2. Modules

| module | models | uses |
|---|---|---|
| `AtomicStateManager` | commits, present tracker, KMS flips, HDR bookkeeping | `Presentation` |
| `Presentation` | abstract specification of showing frames | - |
| `AtomicStateManagerProofs` | theorems, the refinement among them | `AtomicStateManager` |
| `FbImporter` | framebuffer cache, swap chains, kernel handle table | - |
| `FbImporterProofs` | its theorems | `FbImporter` |
| `ClientRange` | the range searches of the backend, as operators | - |
| `FrameCycle` | validate, accept, present, release fences of one display | `ClientRange` |
| `VSync` | worker, vsync worker, flattening, destruction of a display, phase arithmetic | - |
| `HwcDisplayProofs` | theorems about the three above | `FrameCycle`, `VSync` |
| `DisplayBinding` | hotplug, binding, registration | - |
| `DisplayBindingProofs` | its theorems | `DisplayBinding` |
| `DrmPipelines` | ownership of KMS objects, plans, abilities of planes | - |
| `DrmPipelinesProofs` | its theorems | `DrmPipelines` |
| `DisplayConfigs` | modes, configurations, staged and active mode | - |
| `DisplayConfigsProofs` | its theorems | `DisplayConfigs` |
| `DisplayOutput` | EDID and HDR, colour settings, power | - |
| `HalTable` | the function table of the HWC2 device and its answers, as operators | - |
| `ComposerService` | the HWC3 service, its client, its handle cache | `HalTable` |
| `ComposerServiceProofs` | its theorems | `ComposerService` |
| `Hdcp` | HDCP requests from the client library to the kernel | - |
| `OutputProofs` | theorems about `Hdcp` and `DisplayOutput` | both |
| `MC...` | constants for TLC | the module it is named after |

Operators marked *Faulty* are plausible mistakes in the definition they precede.
No specification uses them; each is put in the place of that definition to see
that the property named in `PROJECT.json` notices.

### AtomicStateManager

`CommitFrame` runs under the main lock but blocks in it, so it is cut where the
driver or the tracker can move: *build* (`ExecuteAtomicCommit`, with the early
returns `NoInputs`, `BuildFails`, `DisableFails` and `BuildTest`), the wait for
the prior frame (`WaitPriorFrame`), the ioctl (`StageFrame` for a nonblocking
commit, `SwitchFrame` for a blocking one, `CommitFails`) and the clean-up commit
after a failure (`CleanupCommit`). `mpc` is where the call is and `job` holds its
locals; the lock is held while `mpc # "idle"`. The tracker is the actions
`TrackerSleep`, `TrackerPick`, `TrackerSync`, `TrackerCleanup`, `TrackerSkip` and
`TrackerExit`. KMS is a configuration on screen, at most one queued behind it and
the number of its fence; `Flip` moves it on. A fence is named by the number of
the frame that staged it. A request (`AtomicCommitArgs`) is the mode, the power
state, the composition (planes to framebuffers), whether it has an HDR layer and
whether it is a test.

Constants say what may go wrong: `SyncMayTimeOut` (the 500 ms waits), `DupFaults`
(where `dup` fails), `Failures` (what the driver refuses). `Requests` is what
callers ask: `CallerRequests` are those of `HwcDisplay` (frames have layers;
`Deinit` asks for inactive with an empty composition), `ApiRequests` everything
the interface admits.

`Presentation` says what this is for, in a page: frames are submitted one behind
the other, flipped, and released once replaced. `AtomicStateManager` instantiates
it with what is on screen, what is queued, and the framebuffers that the two frame
states reference; `ImplementsPresentation` is the refinement, checked by TLC and
proved.

### FbImporter

A `DrmFbIdHandle` is an element of `fbs`; references are the cache, the swap-chain
caches of the layers and the `Holders` (layers, frame states). `Collect` is the
destructor of whatever lost its last reference. The kernel gives one handle per
memory object and file and reuses the lowest free number (`HandleFor`, external).
`ImportPlanes` asks for the planes of a buffer one after the other, so it is a recursive
function of how many it has reached.
A layer learns the order in which its buffers come back and then finds their
framebuffers by position; reallocation clears what it learnt. Every operation runs
under the main lock and is one step, with the failures of the import and of the
framebuffer as actions of their own; a later plane that cannot be imported is only
logged and leads to a refused framebuffer, which closes what was imported
(`CreateFails`).

`CleanupEmptyCacheElements` erases every element of a cache that is too large, also
those in use. A framebuffer the cache has forgotten lives on with its holders, and a new
import of its buffer makes a second one with the same handles. The history variable
`doubled` records that this has happened; the properties speak of the time before it.

### ClientRange and FrameCycle

`ClientRange` translates `GetExtraClientRange`, `GetExtraClientRange2` and
`GetClientLayers`; `size_t` wraps at `SizeMod`. `FrameCycle` is the client's
protocol on one display: `ValidateFlattened`, `ValidateProposal` and
`ValidateUnsupported`, the outcome of the test commit, `AcceptDisplayChanges`,
the three outcomes of `PresentDisplay` (the commit succeeds, it fails, or
`CreateComposition` returns before it, `PresentUncommitted`) and the changes of the
client between frames. Layers are numbered by their z-order, which clients make
different for each: of two with the same one `CreateComposition` shows the first only.
A layer's *kind* says whether it needs the GPU for a reason other than
its type, whether it is a video layer, and its size. Whether the driver accepts a
composition that has enough planes is left open (`TestPasses`, `TestFails`).

`VideoStaysOnPlanes` is about video layers that follow each other. The attempt to prove
it for all showed that it fails when other layers lie between them: `GetClientLayers`
counts the whole span from the first to the last video layer as video. With six layers,
five planes, video layers 0 and 5 and layer 1 for the GPU, drawing layers 1 to 4 would
do, but the code lets a video layer be drawn; likewise with seven layers, six planes,
video layers 0 and 2 and no layer that needs the GPU. Neither appears with the four
layers of the run.

### VSync

The flags of `HwcDisplay`, the fields of `VSyncWorker` and `Worker`, and three
kinds of threads. The worker's routine is cut at its waits: loop top, check of
`enabled_`, wait on the condition variable, vertical blank, the check before the
callback, the callback under the main lock. Attaching and detaching a pipeline
call `VSyncWorker::Init`, which writes `callback_` without the mutex; a worker
caught in it runs the old callback or none (`CallbackLost`). Destroying a display
is `Unlink`, `UnlockMain`, `Exit`, `Join`. The steps carry no time;
`GetPhasedVSync`, which computes the next synthetic vertical blank, is an operator
of its own: `PhasedVSyncAhead` checks it for small times, a theorem is about all.

### DisplayBinding

`b` is the bookkeeping of `DrmHwcTwo` and the set of attached connectors; an
update works on it statement by statement (`UpdateConnectors`, one pass per
connector in their order, then `Reattached`), and is one step since it runs
under the lock. `FinalizeDisplayBinding` then sends its events one by one, sleeps
and disposes. `Windows` says during which of these sleeps the other thread may
begin a call of its own; no setting lets it begin one while events are being sent,
since the code then iterates over a map the other thread clears (listed as a
hazard). A thread that wakes up from its sleep may dispose at any time.

### DrmPipelines

Ownership is a shared reference in the code (`BindingOwner`), so the state is where
the references are: the pipeline (encoder, CRTC, primary plane), the stored plan of
the display, the active and the staged frame state. The hotplug handler visits the
connectors one by one (`UpdateNext`) and holds the lock meanwhile. `CreatePipeline`
keeps the order in which encoders and CRTCs are tried, and the CRTC a connector once
used stays reserved for it (`reserved`). A plane is a record of what the kernel says
of it; `IsValidForLayer` and `AtomicSetState` decide what it takes. The devices are
those whose planes can all be created: `DrmDevice::Init` does not check for the
others. Atomicity: a plan is made and stored in one call, frames are promoted by the
tracker between calls.

### DisplayConfigs

A mode is a record of what the rules compare: resolution, rate in tenths of a
hertz, scan type, preference. `UpdateModes` filters the kernel's list by the system
properties, `Update` groups it, disables neighbouring rates and the wrong scan type,
and numbers the result from a counter that never goes back. `SetActiveConfig` stages
a configuration at once or with a change time; `Frame` is the part of
`CreateComposition` that turns a staged mode into the active one, in tests and in
failing commits too. An update, by a hotplug or a retrained link, may find no modes.
Of the change time only whether it has come is kept.

### DisplayOutput

One display, one layer. The EDID is a sequence of any number of extension blocks, each a
sequence of bytes walked as the code walks it. The colour settings are texts of four
files, read into one buffer, so a shorter text can be followed by the end of a longer
one; `atoi` takes the digits up to the first other character. The files of the run end
their text with a newline.
The colour matrix is abstracted to hue and saturation, the gamma table is computed in
exact rational arithmetic with `LutSize` entries, and cut to 16 bits as in the code.
The kernel refuses a blob of no data, and to switch on a CRTC without a mode, so that a
display which never showed a frame cannot be lit by `Deinit`. DPMS "on" acts on a
connector that has a CRTC.
HDR and colour adjustment share no state, so the instances have one or the other.

### HalTable and ComposerService

`HalTable` is the interface between the service and the device, as tables: the
functions `HookDevGetFunction` provides, those `HalImpl` demands, what each call
answers for a missing, headless, SDR or HDR display. `ComposerService` has three
threads. The call thread serves one call at a time, cut between the handle cache and
the device and between the two calls of a query; the uevent thread plugs and unplugs
displays and calls `onHotplug` with the main lock released; the vsync thread sends
events under the lock. A client that goes away is destroyed step by step
(`unregisterEventCallback`, its resources, then `mClientAlive`), while hotplugs are
still under way. `ResourceManager::DeInit` is two steps, since it sleeps with the main
lock released (`UnregisterHotplug`, `RegisterCallback`). A uevent is read in one step
(`ReadUevent`) and handled in a later one, and nobody cancels a handler that waits for
the lock in between: in the sleep it attaches the displays again (`AttachLate`), after
it it makes a headless primary that nobody is told of (`MakeNullDisplayLate`), or it runs
for the next client. A fault (a null pipeline, a handle given back, a reset callback)
ends the process and `Restart` starts it again. Abstractions: the displays announced
by registration are announced in one step; the order of the fields of a command is
left open, since `executeCommands` holds no lock between them; what is written into
the reply is left out, since an error changes nothing else; sideband streams,
virtual displays and readback buffers, which the device never offers, do not occur.

### Hdcp

A request is checked by the client library, carried to `HwcService`, and walked over
the displays by index, without the main lock. `SetHDCPState` is cut where a hotplug
or another request can come between. A walk that meets a headless display or a handle
not in use crashes; `Reload` is the restart, and also a change of the composer's
client. The kernel moves from desired to enabled and back by itself.

## 3. What the runs check

Passing runs:

| run | question | bounds |
|---|---|---|
| `asm_frames` | do the two threads that finish frames, failing commits and destruction keep asserts and references right; is `Presentation` implemented? | 2 planes, 2 framebuffers, 1 mode, 3 staged frames |
| `asm_api` | does the power state survive any request and timeouts, is every staged frame promoted, does the tracker end? | 1 plane, 1 framebuffer, 1 mode, 3 frames, HDR |
| `fb_cache` | right framebuffer, no leaked or prematurely closed handle, though the cache is emptied under framebuffers in use | 3 buffers, one with two planes, 1 layer, 2 frame states, a cache emptied above 1 element |
| `cycle` | is a proposal sufficient, feasible and cheapest; does video stay on planes when it can; does what leaves a plane get a release fence? | 4 layers (3 that change), 5 planes, 5 kinds of layers |
| `vsync` | delivery, countdown, sleep, destruction, for primary and other displays; is the synthetic blank the next in phase? | countdown of 2, times up to 12 |
| `binding` | displays, pipelines and the client's knowledge agree; no hotplug is lost; disposal follows notice | 3 connectors, 7 handles |
| `pipelines` | has every KMS object one owner; can a validated frame be planned again? | 2 connectors, encoders and CRTCs, 5 planes, frames of 2 layers |
| `configs` | are groups sound, numbers stable, the reported mode the one shown? | 2 displays, 3 monitors, 3 settings, 8 configuration numbers |
| `service` | do cache and device agree, is a handover clean though hotplugs are handled during and after `DeInit`, are the displays known, are the hooks safe, are clients served again? | 2 displays, 1 layer, 2 buffer handles, 1 hotplug |
| `hdcp` | does the connector hold what the last request asked for? | 2 connectors, 1 of them protectable, 1 caller, 3 handles |
| `output` | is the HDR block found, is the gamma table sound, are the settings taken? | 14 EDIDs, 6 sets of files, tables of 5 entries |

Why the bounds are enough. Three staged frames are one on screen, one queued and
one being built; a fourth repeats the pattern, and the theorems remove the bound.
Two planes and two framebuffers let consecutive frames differ in either. In the
cache a buffer of two memory objects shares its clean-up with single ones, and three
buffers make a swap chain that can be reordered. The cache is emptied above one element
instead of 128, so that the third buffer empties it while the layer and both frame
states hold framebuffers; states in which a buffer was imported twice are not explored
further, since the properties say nothing of them. `FbCacheLayers.cfg`, run by hand, has
two layers, and a buffer without an identity for the swap chain. Four layers have a client layer with
room on both sides, or a video layer with layers below and above. Three connectors
allow the primary to be replaced while another secondary stays. Two pipelines and two
overlays both can use are enough for one to take what the other planned with; the
theorem removes the bound for ownership. Eight numbers are an update
with three modes and one with two, or more of shorter and empty lists; the theorems remove
the bound. One layer, two handles and one hotplug let a layer be set, its
display go, and a second handle meet the leftovers; these bounds are per behaviour,
clients and restarts are not counted. The EDIDs put an HDR block first, last, twice, in
a second block, too short, and inside another block's payload. A counter at its bound
(`MaxFrames`, `MaxHandle`, `MaxConfigId`) only disables further calls.

Violation run: `output_power_off` shows that `SetPowerMode(Off)` leaves the CRTC on,
against the header of the interface; the finding in `PROJECT.json` quotes it.

More configurations state what a comment or a message promises and TLC refutes; they
document limits of the code that the hazards mention, and are run by hand
(`tlc -config <file> <module>`):

| configuration | module | in short |
|---|---|---|
| `AsmStalePlane.cfg` | `MCAtomicStateManager` | a plane of the staged frame is not switched off by a frame built before the promotion |
| `AsmHdrReset.cfg` | `MCAtomicStateManager` | test commits consume the resets of the HDR metadata |
| `FbCacheOverflow.cfg` | `MCFbImporter` | emptying the full cache leads to a wrong framebuffer (`FbAlwaysShowsWanted`, clean-up size 1 instead of 128) |
| `CycleVideoPlanes.cfg` | `MCFrameCycle` | wrap-around when there are fewer planes than video layers |
| `PipelinesReserved.cfg` | `MCDrmPipelines` | a CRTC reserved for an unplugged connector serves no other |
| `ConfigsFailedUpdate.cfg` | `MCDisplayConfigs` | when the modes cannot be read the active configuration does not exist |
| `ServiceDangling.cfg` | `ComposerService` | a display announced again drops handles its layers still use |
| `ServiceDetached.cfg` | `ComposerService` | a handler that waited runs in the sleep of `DeInit` and attaches displays whose device then goes |
| `ServicePrimaryLost.cfg` | `ComposerService` | a headless primary made after `DeInit` is not announced to the next client |
| `ServiceHeadless.cfg` | `ComposerService` | `SetPowerMode(On)` and metadata on a headless display |
| `ServiceLists.cfg` | `ComposerService` | three queries ignore the capacity they are given |
| `HdcpDisable.cfg` | `Hdcp` | after a restart in the protected state disabling writes the protected value |
| `HdcpRace.cfg` | `Hdcp` | two requests that meet in `SetHDCPState` |
| `OutputLutReset.cfg` | `MCDisplayOutput` | contrast and brightness 0 keep the old gamma table |
| `OutputStaleMonitor.cfg` | `MCDisplayOutput` | the EDID of the first monitor is used for later ones |

Where a passing run depends on something the code does not guarantee, its
configuration or its property says so, and the hazard in `PROJECT.json` says what
happens without it:

* `SyncMayTimeOut = FALSE` in `asm_frames`: after a timeout the references to
  framebuffers on screen are dropped too early, and `Presentation` is not implemented.
* `"commit" \notin DupFaults`: a failed `dup` of the out fence leaves a staged
  frame without a fence, and the next clean-up fails its first assert.
* `Revalidate = FALSE` in `cycle`: a second validation before a present overwrites
  the record of what the prior frame scanned out. `ReleaseFenceForScannedOut` also
  leaves out what follows a present that returned before its commit.
* `~doubled` in the properties of `fb_cache`: once a buffer is imported beside a
  framebuffer that the emptied cache forgot, two objects own one handle.
* `Windows` without `"handler"` and `"deinit"` in `binding`: a hotplug handler that
  waits for the lock while `DeInit` runs attaches displays again during or after it.
  The `service` run has such handlers, and its properties hold with them.
  `DisposedAfterNotice` allows for the one disposal that comes early, by an `Init`
  that wakes up while a hotplug is about to announce.
* One caller in `hdcp`, and connectors unprotected when they were made.
* Planes with IN_FENCE_FD in `pipelines`: without it a frame passes its test commit,
  which carries no fence, and fails when presented.

Deadlock is checked in all passing runs but `asm_frames`, `asm_api`, `vsync` (a
destroyed manager or display does nothing any more) and `configs` (everything stops
once the configuration numbers of the bound are used up).

### Fairness

* `AtomicStateManager`: the driver flips what is queued; a call that was started
  returns; `sync_wait` returns after a flip; the tracker gets the main lock, which
  clients release after every call (strong fairness, since they may take it again
  and again). No client is obliged to call.
* `VSync`: the worker runs; vertical blanks arrive although single waits may be
  interrupted (strong fairness of `VBlank`); the hotplug thread finishes what it
  began; displays are not detached for ever (`<>[][~Deinit]_vsyncVars`), because a
  worker that meets the empty callback at every vertical blank delivers nothing.
* `DisplayBinding`: both threads finish, uevents are read, and the handler gets
  the lock that the client thread releases after every registration (strong
  fairness of `HandleUevent`).
* `ComposerService`: a call that was accepted ends; a new client is created when the
  last is gone (SurfaceFlinger is restarted by init, and asks again when
  `createClient` timed out), registers, and is destroyed once it is dropped; a dead
  process is started again. All weak. No client is obliged to leave, and no monitor
  to be plugged.

## 4. What is proved

All proofs are checked by TLAPS with no step left out. Every invariant and every action
property of the runs, but the one of the violation run, is the subject of a theorem
(`PhasedVSyncAhead` of one about the operator it checks).

`AtomicStateManagerProofs`, for all sets of planes, framebuffers, modes and
requests and any number of frames, from `FrameAssumption` and the assumption that
`dup` of the out fence succeeds (`"commit" \notin DupFaults`, which
TLC shows to be needed):

* `StagingInvariant`. The asserts are not inductive: they speak of moments when
  someone is about to clean up, and nothing in them connects the tracker's copies
  with the counters. `StagingInv` does: `frames_staged` is ahead of
  `frames_tracked` by one exactly while the fence is set, the fence is that of
  the staged frame, and the tracker's copy of fence and number belong together.
  With `TypeOK` it is inductive.
* `CleanupAssertsNeverFail` and `ManagerUntouchedAfterStop` follow from it;
  timeouts are allowed.
* `PromotionWaitsForFlip` adds that whoever is past its wait holds a fence that
  has signalled; it needs that no wait times out.
* `CrtcStateAgrees` rests on `CrtcInv`: only an active CRTC gets nonblocking
  commits, so a staged frame never changes the power state and the copy made
  before the wait is not stale in that respect.
* `DisplayedFramebuffersHeld` rests on `HeldInv`: what is queued is the staged
  frame, what is on screen the one before. It needs that every request has a
  composition and that no wait times out.
* `RefinesPresentation`: `Init` implies the abstract `Init`, and every step under
  these invariants is an abstract step or a stutter. `MovedInv` is added: a staged
  state whose fence is gone was moved from and references nothing, so that a
  promotion releases only what left the screen. Same assumptions.

* `NothingShownIsGivenUp`: in `Presentation` whatever is shown or pending is held;
  with the refinement that is the promise for the manager.

`HwcDisplayProofs` about the frame cycle, for any number of layers and planes and all sizes and kinds of
layers, from `CycleAssumption` (`MaxPlanes < SizeMod`: the number of planes is a
`size_t`):

* `CandidatesAreSound`, `ExtraRangeSound`, `ExtraRangeCheapest`: the ranges
  `GetExtraClientRange` compares are sound, there is one, and the one it returns is a
  cheapest. `DivisionCovers` and `DivisionLeavesVideo` say the same of
  `GetClientLayers`. The loops are recursive functions; that such a function exists
  and what it returns is shown at the least number of passes for which it would not be
  so (`LeastNatural`, from the well-foundedness of the natural numbers in the library),
  which gives induction without an induction theorem.
* `ProposalsSound`, `ProposalsCheapest`, `VideosStay` carry these to the states of the
  frame cycle. `CycleInv` adds what connects them: the range of an open proposal is the
  one computed from the layers, and a layer is proposed as a client layer exactly inside
  it.
* `ReleaseFences`, an action property: with `~Revalidate`, what was shown is what the
  prior present recorded, from the call that validated it to the one that presents the
  next frame.

`HwcDisplayProofs` about `VSync` proves `WorkerStaysOn`. `PhasedVSyncInPhase` is about `GetPhasedVSync` for
every period and all times: the result lies ahead, in phase with the last vertical
blank and at most a period away (two if the last timestamp lies ahead). Its quotient
truncates as in C++; integers are unbounded, which nanoseconds in 64 bits justify.

`DisplayBindingProofs`, for any number of connectors in any order, from
`BindingAssumption`. `BindingInv` has three parts. `ThreadsInv` says which calls of the
two threads can be under way together. `BookInv` says that the record of `DrmHwcTwo` is
well formed, linked and has a serving primary display whenever no update is halfway;
and, unless a hotplug handler comes in while `DeInit` sleeps (`Exclusive`), that
displays and pipelines are paired. `NoticeInv` says what the client will know once the
events under way are sent. An update is proved pass by pass: each of bind, unbind and
relabel keeps `Good`, which relates the record to the one the update began with, so that
every display it touches has an event.

* `PrimaryAlwaysServes` needs no assumption on `Windows`.
* `BindingStaysConsistent` and the action property `DisposalAfterNotice` assume
  `Exclusive`; `ClientIsTold` assumes that nothing else begins while the handler sleeps
  (`"handler" \notin Windows`). Without these the races of section 3 refute them.

`DrmPipelinesProofs`, for every device and any number of connectors, planes and layers,
from `DeviceAssumption`:

* `PipelinesOwnExclusively`. `ExclusiveOwnership` with
  the type invariant is inductive because it counts every reference, the plan and both
  frame states included: a lemma says that what `CreatePipeline` returns was free, one
  that a plan takes only planes the pipeline may bind, and each action then only gives
  up references or takes free ones.
* `ValidatedFits`. That a frame was planned once does not say that it will be again:
  other displays may have given planes back or taken some, and then the walk of
  `CreateDrmKmsPlan` meets other planes on its way. `PlansInv` says that the stored plan
  still holds planes in ascending order, one valid for each layer; since nobody else may
  bind them, they are among the usable ones. `WalkSucceeds` then shows that taking the
  first valid plane each time never gets further than that choice does, so the walk
  does not run out of planes.

`DisplayConfigsProofs`, for any displays, mode lists and settings, from the assumptions
of the module; `KernelOrder` says that the kernel lists preferred modes first.
`UpdateSound` is about the loops of `Update` (groups, disabled rates, scan types) for
every list; `NumbersMeanOneMode` follows from a counter that never goes back,
`ActiveListed` and `ReportedShown` from `ConfigsInv`, which says for each display what
its staged and active numbers refer to.

`ComposerServiceProofs`, for any number of displays, layers, handles and hotplugs:
`LayersShowCached`, `HandoverClean`, `HooksSafe`, `DisplaysKnown`. `ServiceInv` connects
the phases of the client's life with the callbacks that are set (`LifeInv`), and says of a
call between its two halves what the cache has done already and the device not yet. After
`DeInit` the displays are gone or there is the headless primary of a late handler, and then
the uevent thread has nothing to tell; so a handover is clean whatever waited through it.
`DisplaysKnown` rests on `KnownInv`: a display number is not used twice (`NumbersInv`), only
the first event of a handler can announce a display and the others are about numbers that
never get a monitor again (`TodoInv`), and a display with a monitor is in the cache or is
the one being told (`ToldInv`).
`NoneAssumption` tells the absent value from the others.

`OutputProofs`: about `Hdcp`, `ProtectionFollows`, for any number of displays, connectors
and targets, when there is one caller at a time (`\A t, u \in Callers : t = u`; `HdcpRace.cfg` shows
why). `ProtectionInv` follows a request through `SetHDCPState` and says that whatever it
has not written yet is still to be written. About `DisplayOutput`, for all EDIDs, files,
metadata and sizes of the table, from `OutputAssumption`:

* `TablesSound`. `LutSound` compares any two entries of the gamma table; that each step
  of the computation keeps their order is shown step by step, division and cut to 16 bits
  included, with lemmas about quotients of integers (`Quotient`, `QuotientMonotone`,
  `QuotientBound`).
* `SettingsFollowFiles`, an action property: the colours change only to what each file says by
  itself, although the four files share a buffer. It assumes that a file is missing, empty, or
  has a line that ends within the bytes that are read (`TextsTerminated`), as the shell's
  `echo` writes it. That is needed: after a saturation of "100" a hue of "40" without its
  newline is read as 400, which TLC finds once such texts are among the `Presets`.
* `HdrBlocksFound`: no HDR metadata block is missed, wherever it lies and whatever
  surrounds it; when no other bytes look like one the metadata is that of the last. The
  walk over the data blocks and the digits of `atoi` are recursive functions of a
  position; what they return is shown with `LeastNatural`, as above.

`FbImporterProofs`, for any number of buffers, planes of a buffer, layers and frame
states, from `ImporterAssumption` (numbers of handles and framebuffers do not run out)
and `DistinctMemory` (the allocator gives no memory to two buffers):

* `WantedBuffersShown`, `LiveHandlesOpen`, `HandlesClosed`: the three properties, with the
  cache emptied at any size, for as long as no buffer has been imported beside a
  framebuffer of it that the cache forgot. From then on two framebuffers own the same
  handles and the first to go closes those of the other: `FbCacheOverflow.cfg` is such a
  behaviour.
* `NeverDoubled`: a device that is given at most `CleanupSize + 1` buffers in its life (129
  in the code; a buffer its client has freed counts, since the cache keeps its
  framebuffer) never comes to that: when a buffer is not in the cache there are at most
  `CleanupSize` others, so the cache is never emptied and finds every live framebuffer
  (`CachedInv`). The code does not guarantee that bound; the theorem says from where on
  the three above stop protecting it.

None of the three properties is inductive. `Inv` says who owns what: a live framebuffer
has the handles of its buffer's memory, all open (`OwnInv`), no buffer has two
framebuffers (`OneEach`), an open handle belongs to one (`Owned`), and the cache, the
holders and the swap chains refer to live framebuffers, the cache by the handle of the
first plane, a swap chain in the place of the buffer (`CacheInv`, `HolderInv`,
`ChainInv`). Inside an import handles are open that no framebuffer owns yet, so these
parts are stated of a record `s` and of the memory objects `X` of the import under way
(`Sound(s, X)`); `X` is empty between the steps. `ImportPlanes` is shown plane by plane
with `LeastNatural`.

The inductive invariants were model-checked on the instances of the runs before they
were proved.

Only model-checked:

* all liveness (`StagedFramePromoted`, `TrackerEnds`, `VsyncDelivered`,
  `CountdownAdvances`, `WorkerSleeps`, `DestroyEnds`, `HotplugHandled`, `ServedAgain`):
  fairness and `ENABLED` are outside the reach of the prover;
* the safety properties where an assumption of their theorem does not hold; the
  configurations of section 3 show what happens there.

## 5. Not modelled

* *Backend selection*: a registry read once; `BackendClient` is a special case of what
  `FrameCycle` allows.
* *Buffer information*: stateless reads of buffer metadata through vendor libraries.
* *Intel blitter* and the shadow buffers of virtio-gpu that go with it: GPU command
  batches.
* The expected present time: `PresentDisplay` (HwcDisplay.cpp:632) reads `staged_mode_`
  for the period when a time is set, although a committed mode change has reset it; the
  length of its sleep is then undefined.
* The choice of the device node and the late loading of an ivshmem device; virtual
  displays, readback buffers and sideband streams (refused or never offered); dumps,
  statistics, logging; the diagnostic and option calls of the hwc service, which do
  nothing.
* Positions and crops of layers, formats of replies, connector names: data no property
  tells apart. HDR primaries are modelled with the values the code computes (the blue
  ones are taken from green, DrmConnector.cpp:583).
* Data races on containers: iteration over `deferred_hotplug_events_` while the other
  thread clears it (DrmHwcTwo.cpp:53), `displays_.erase` without the lock
  (DrmHwcTwo.cpp:198). The models keep the other thread out there.
* Arguments no client sends: metadata with empty entries, which `HalImpl` leaves out of
  its arrays but counts (HalImpl.cpp:1013).
* A refresh that arrives between `validateDisplay` and the clearing of the must-validate
  flag is forgotten (ComposerCommandEngine.cpp:148). The model has that step; no property
  is about it, since nothing in the repository promises more.

## 6. Plan

What is left, in this order:

1. The expected present time, together with the mode part of `DisplayConfigs`.
2. Late loading of a device node, composed with `DisplayBinding`.
3. Shadow buffers in `FbImporter`, with the blitter as an external step.
