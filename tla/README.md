# A TLA+ model of xemu-perf-tests

xemu-perf-tests is a suite of NV2A, CPU and audio workloads that runs on an Xbox
(or in xemu), measures itself, checks the image or the memory it produced, and
leaves the evidence on the hard disk: `results.txt`, the history of earlier runs
and, for a plan composed on a host, `resolved-plan-result.json`. On the host a
suite runner starts xemu, watches the guest, judges its records and counters, and
teaches the hashes to a ledger; other tools make oracles of the reports. What the
modules here are about is whether that evidence can be believed: that a run says
PASS, PASSED or COMPLETE only over what happened, that files survive boots, power
cuts, kills and concurrent runs, that a plan runs what it selected, that an oracle
blames the renderer and not itself, and that the viewer shows what was recorded.

Paths below are relative to the repository. `PROJECT.json` holds, for every
definition, the lines it models.

## 1. Inventory

### Components

| Component | State it keeps | Operations | Module |
|---|---|---|---|
| Run lifecycle: `src/main.cpp`, `src/test_host.cpp`, `src/logger.cpp`, `src/debug_output.cpp`, `ArchiveCurrentResults` of `src/result_store.cpp` | files on E:, the log, counters and the set of emitted ids in TestHost, `g_failure_reported` | archive, open, record, soft failure, finish group, close, validate plan, write plan result, verdict | `RunLifecycle`, `EvidenceStore` |
| Menu and driver: `src/test_driver.cpp`, `src/menu_item.cpp` | chain of active menus, cursors, countdown, run mode, frame counter, handles of initialised suites | buttons, autorun, Run All, route, run from the list, leave | `MenuDriver` |
| Game-load composite suite: `src/tests/game_load_composite_tests.cpp` | loader thread, two events, two buffers, one job, texture memory, surface | stages, streaming, readback, correctness image, teardown | `GameLoadComposite` |
| Configuration and plan: `src/runtime_config.cpp`, `LoadConfig` and `RegisterSuites` of `src/main.cpp` | one `RuntimeConfig`, filled while a file is parsed | load E: then D:, narrow by sections, admit a plan, apply to the suites | `PlanAdmission` |
| Result store and viewer: `src/result_store.cpp`, `src/result_statistics.cpp`, results pages of `src/menu_item.cpp` | list of records, one record's samples, stride | scan a file, scan again for samples, compare, back | `ResultViewer` |
| Report-query suite: `src/tests/report_query_tests.cpp` | two report targets, semaphore word, RAMIN descriptor | eight scenarios, teardown | `ReportQuery` |
| Suite base and profiler: `src/tests/test_suite.cpp` | none that lasts; samples of one call | Initialize, Run, Profile, Deinitialize | steps of `RunLifecycle` and `MenuDriver` |
| Host suite runner: `run-suite-pr76.py` (under `docs/evidence/pr76-.../tooling/`; its pr70 copy differs in `--gpu-uuid` only) | command line, environment, one xemu process, marker file, event log, failure file, status | admit, prepare, launch, watch, capture, sample, kill, judge, summarise | `SuiteRunner` (threads and failures), `RunGates` with `HostGates` and `HostProfiles` (gates) |
| Host oracle tools: `utils/oracle_validation.py`, `utils/revalidate_oracles.py` | sealed reports, oracles, the determinism ledger and its lock | normalise, seal, agree, judge, revalidate, learn | `OracleReports`, `Revalidation`, `OracleLedger`, `DeterminismLedger` |
| MCPX voice suite: `src/tests/mcpx_voice_tests.cpp` | APU registers, DMA memory | own, arm, poll, stop, free | see section 7 |
| Other suites under `src/tests/` | register programming inside Profile | one or more leaves each | see section 7 |
| Other host tools under `utils/` and `.github/scripts/` | files | generate catalog, plans and packages; compare results; capture | see section 7 |

### How they interact

`main` loads the configuration, registers and filters the suites (`PlanAdmission`),
archives the last results and opens the log, then hands over to `TestDriver::Run`.
The driver polls every queued controller event, draws the active menu, and so runs
tests (`MenuDriver`). A test calls `TestSuite::Run`, its body calls `Profile`, draws
its correctness image and calls `TestHost::FinishDraw` or `FinishGroup`, which write
records (`RunLifecycle`). When the loop ends `main` closes the log, compares the
emitted ids with the plan, writes the plan result and shows the verdict. The saved
results menu reads the files of earlier boots (`ResultViewer`); it runs on the same
thread as everything that writes.

On the host, `main` of the runner decides on the command line, cleans the
environment and launches xemu under a machine-wide lock (`RunGates`, `OracleLedger`).
While xemu runs, a watcher tails the marker file that the guest writes, two threads
photograph the window and one samples stacks (`SuiteRunner`). Afterwards `main` holds
records and counters against the request (`RunGates`), makes a functional report of
them, teaches it to the ledger and judges it by an oracle (`OracleReports`,
`OracleLedger`). Reports of several runs become oracles, also much later and offline
(`Revalidation`).

On the console almost everything is one thread. The exceptions are where the hard behaviour is:

- the GPU executes the push buffer behind the CPU (surface readback, report records);
- a host renderer publishes reports when it likes (`ReportQuery`);
- the loader thread of the composite suite decodes while the test thread draws;
- the power may fail between any two file operations;
- the user presses buttons in any order, several between two frames;
- on the host, five threads share one xemu process and one growing file, several
  runners share a lock and a ledger, and reports change while they are revalidated.

The hazards, each at its line and with the properties that watch it, are in
`PROJECT.json`; those that no property covers say why.

### What makes each component correct

- *Run lifecycle*: COMPLETE is backed by a file with exactly the selected leaves;
  PASS is shown over nothing that failed; no file of an earlier run is lost or
  changed; an unattended run ends.
- *Menu*: a suite holds handles exactly while one of its tests is open; every
  Initialize gets its Deinitialize (the code does not keep this, section 6); results
  are saved in single-run mode only; the countdown fires once.
- *Composite suite*: no half-decoded buffer is sampled; a wait gets its own job; a
  readback sees the clear it is compared with; teardown gets its thread back.
- *Plan*: the first readable file decides and is read exactly; an admitted plan
  enables its leaves and no other.
- *Viewer*: exactly the whole records are recovered; thinning keeps every stride-th
  sample; the distribution is that of one whole record.
- *Report query*: a conforming renderer is not blamed; a leaf passes on its own
  reports, in their places; memory is freed when nothing will write to it.
- *Host runner*: PASSED is earned by xemu, captures, markers and records together; a
  failure is on the disk before the guest is killed, and stays the first one; the
  gates do not contradict each other, and what passes them did the work and took the
  path that was asked for; every run ends.
- *Ledger*: an accepted observation is whole, and stays; one xemu at a time.
- *Oracles*: what is sealed is valid; witnesses satisfy their oracle; a published
  revalidation is about the files it names.

## 2. Modules

| Module | Role |
|---|---|
| `EvidenceStore` | abstract: a set of result files that only grow, one per boot |
| `RunLifecycle` | boots, files, counters, verdict; implements `EvidenceStore` |
| `MCRunLifecycle` | a small catalog for it |
| `RunLifecycleProofs` | its theorems |
| `MenuDriver` | event loop over the menu tree |
| `GameLoadComposite` | test thread, loader thread, GPU |
| `MenuAndGameLoadProofs` | the theorems of both: the menu, and the suite whose teardown can stop it |
| `PlanAdmission`, `MCPlanAdmission`, `PlanAdmissionProofs` | configuration files to enabled routes |
| `ResultViewer`, `MCResultViewer`, `ResultViewerProofs` | line readers, samples, pages |
| `ReportQuery`, `ReportQueryProofs` | scenarios as scripts against a renderer |
| `SuiteRunner`, `MCSuiteRunner`, `SuiteRunnerProofs` | threads, marker file and status of one host run |
| `HostProfiles` | tables: profiles, pinned counters, frames and work |
| `HostGates` | pure operators: the gates over records and counters |
| `RunGates`, `MCRunGates` | `main` as a sequence of gates around one guest run |
| `DeterminismLedger` | abstract: a ledger that learns whole observations |
| `OracleLedger`, `MCOracleLedger` | several runners, their locks and the ledger file; implements `DeterminismLedger` |
| `OracleLedgerAndGatesProofs` | the theorems of the ledger, and of the environment in the gates |
| `OracleReports` | pure operators: normaliser, validator, oracles, judgement |
| `Revalidation`, `MCRevalidation`, `RevalidationProofs` | offline revalidation over files that change |

How state and actions correspond to the code:

**RunLifecycle.** `current`, `history` and `planResult` are the disk; everything
else is memory and is lost by `PowerOff`, which may come between any two steps and
may tear the line being written. `phase` is where `main` is. `pending` are the ids
the running body has yet to record, `failed` is `g_failure_reported`, `emitted`,
`unexpected`, `oracleFailed` and `softFailed` are the members of TestHost that
`ValidateResolvedPlan` and the verdict read. `RecordResult` is `FinishDraw` with
everything it calls; `RecordFails` is a write that throws; `BeginTest` and `EndTest`
are `TestSuite::Run`. A file is its records and how its text ends.

**EvidenceStore** forgets names, places and memory: the union of the current file
and the archived ones. Archiving is therefore a stutter, and the refinement says that
no boot, failure or rerun ever removes or rewrites a file or reopens a closed one.

**MenuDriver.** `level` and `item` are the chain of `active_submenu` pointers;
cursors are not variables, because the user can put one anywhere between two
activations. `ready` are the suites that hold the handles of an Initialize, `lost` those
whose Initialize ran over handles that were still held: one of their lives is never
torn down (for the composite suite a thread, its ring and two events). `frames` is
`frame_count`, from which `OnEnter` concludes whether to tear down first. `fresh`,
`burst` and `undercut` are observations for the properties: an event was handled since
the last draw, an open test got a second event before its draw, X was released on an
open test. `inLoop` and `running` are apart because the events already queued are
handled, and one frame drawn, after `running_` is reset.

**GameLoadComposite.** `StartLoader` and `WaitForLoader` are the two ends of the
event pair; the loader thread takes four steps per job (wake, begin, decode, signal)
and a buffer is `Torn` between two of them. A seed stands for the bytes and the
checksum it determines. `queued` is the last clear that the GPU has not executed.
`lives` counts calls of Initialize: `loader_stop_` survives them.

**PlanAdmission.** One action per section of `LoadConfigBuffer`, in its order, each
storing what the section stores before the next can reject the file. `ApplyConfig`
ends with the enabled routes.

**ResultViewer.** One action reads one line. `RunLines` is the file of a run that ended,
`Left` what a power cut may leave of it: all lines, a prefix, or a prefix with a torn
last line; `Histories` are such files. `jobs` are the scans a screen waits for, each with
its reader, path and id. `Kept` is the compaction loop, `Statistics` the order statistics
over `Sorted` values, `Compare` and `OpenPair` the comparison page.

**ReportQuery.** `Script(leaf)` is the straight-line code of a scenario as a sequence
of steps; each kind of step is an action. `fifo` is what PFIFO has not executed,
`pending` what the renderer has consumed and not published; publication takes two
strokes. A renderer is immediate or deferred (both conforming), or has one defect:
it resolves the target too late, ignores the DMA limit, or loses reports. `zpass` is the
0 or 1 that `SetZpassEnabled` pushes; a draw adds it to the counter. Reports
carry the number of the attempt that asked for them, for the properties only.

**SuiteRunner.** `pc` is where `main` is between the xemu lock and its exit; `exc` is
the exception on its way, so that the `finally` blocks and the except clauses are
steps that look at it. `w`, `held`, `timed` and `gdb` are the other threads. `file` is
the marker file as texts and line feeds that arrive separately; `offset`, `identity`,
`partial` and `queue` are the members of the watcher, `events`, `terminal`,
`failure` what it made of them, `failureFile` what is on the disk. `Poll` consumes a
chunk, `Interpret` one line of it; a failure goes through `WriteFailure` and then
`KillFailedGuest`. What the judging phase computes is left open here: each check
holds or raises one of its exceptions. `unseen` and `killer` are observations for the
properties.

**HostProfiles, HostGates, RunGates.** One action per gate of `main`, in its order: a
gate before the launch rejects the command line, a gate after it gives the status its
exception leads to. After the launch these are markers (with sampler and lab log),
normalisation (with the output contract), the functional report, the record contract,
the profile, the ledger and the oracle, the composite work, the counters. `Earlier` are
the records that honest runs of the same job leave; they teach the ledger (`Taught`) and
seal the oracle. The watcher of the guest and the captures, which `main` looks at
first, are in `SuiteRunner`; what a record says of itself (checksums, KATs, its own
oracle) is in `OracleReports`.
`env` is the whole environment: what was set before (`world.shell`), less what the filter
`Diagnostic` takes out, with `Variables`, less the list `Popped`. `HostProfiles` holds the tables with the values of the source.
`HostGates` judges a sequence of records and a telemetry file as the code does,
windows, counters and byte totals included. The guest and xemu are external: they do
what the configuration says, or differ in one way (`world.fault`): other work, an old
image that states less, the other path, a lost window, a record twice or without a
frame, missing files or markers, a stale environment and so on. The checks of
modules that are not in the repository (record contract, composite work and composite
counters) hold or raise. `spread` picks one end of the ranges in which
an honest xemu's counters may lie.

**OracleLedger** has one program counter per runner. The lock of xemu and the process
list come before the launch, the checks after it (an outcome is chosen), then the
ledger: lock, read and stage, write the temporary file, replace, unlock. `Killed`
may come between any two; locks then open, xemu lives on. **DeterminismLedger** has
one action, the learning of a whole observation that agrees.

**OracleReports.** A guest record is normalised by `Normalized` if `Normalizable`;
`BuildReport` seals, `ReportShape` is the validator, `CanAgree` and `Consensus` (and
their retail counterparts) make oracles, `Accepts` judges. A SHA-256 is the content it
is taken over. **Revalidation** reads files argument by argument, three times (digest,
load, digest), judges in one step because that touches memory only, and publishes in
two writes; `CaptureReport` and `EditReport` change files in between.

## 3. Runs

| Run | Question | Bounds and why they are enough |
|---|---|---|
| `run_lifecycle` | May the verdict or the plan result be wrong after reruns, toggles, skipped stages, soft failures and failing writes? Does an unattended run end? | one boot, two tests from the menu on top of the automatic run, two routes, three leaves, one group: a plan can mask one stage, a rerun can duplicate a leaf, a failure can fall between two records |
| `run_lifecycle_boots` | Do the files survive boots? Is `EvidenceStore` implemented? | three boots, one leaf, one clock value: two archives collide and need a suffix, a plan result is two boots old (503 083 states) |
| `menu_driver` | Suites, their handles and the countdown under any button sequence | seven events, two suites of two tests: into a test, out, and into another |
| `game_load` | Threads, GPU and buffers at any relative speed | two lives, four jobs: both buffers are decoded twice |
| `game_load_twice` | violation, see section 6 | two lives, two jobs |
| `plan_admission` | Which files are accepted, and what runs then | every pair of some eighty files on E: and D:; a catalog with every kind of leaf |
| `result_viewer` | What the two readers make of any cut of a file | four candidate runs cut at every line and inside every line beside a baseline in the old format; a budget of three samples compacts twice |
| `report_query` | What the oracles accept and whom they blame | all pairs of leaves (two samples of one, or two leaves), five renderers, two rewrite attempts: one early and one in time; a timed-out sample followed by another |
| `suite_runner` | What do PASSED, the failure evidence and the ledger entry mean under any interleaving? Does every run end? | thirteen pairs of command line and guest that between them use every thread and end in every way; one fault anywhere (a failing write, a denied poll, an interrupt, a late join, a recreated marker file) |
| `run_gates` | Do the gates contradict each other, what does passing them prove, and whose environment does xemu see? | 6826 initial pairs (114 030 states): every profile on both backends with and without telemetry, the default command line with any two options changed (ledger and oracle among them), the profiles with most gates with every role and level, each against the faults that matter to it; three names that are no business of the runner and five that are |
| `oracle_ledger` | Is an observation lost, is xemu run twice? | three runners, so that two can race behind a third; one killed anywhere, one process list that fails |
| `revalidation` | Is a published revalidation true, and do the report functions fit together? | two revalidations over three files, one change and one failing write; guest records with every eligibility, spelling and verdict (180 163 states) |

Bounds in guards: `MaxBoots`, `MaxTests`, `MaxEvents`, `MaxJobs`, `MaxLives`,
`MaxBodies`, `Attempts` (two of fourteen delays), `MaxFaults`, `MaxKills`, `MaxMisses`,
`MaxChanges`.
All runs say `CHECK_DEADLOCK FALSE`: the console halts on an assertion, is switched off,
exits to the dashboard, or the suite is torn down for good; a host process exits.

What the properties say is stated above each of them. Those that took the
longest to get right:

- `CompleteIsBacked` relates a file of one boot to a file of the same or an earlier
  one, across reruns and archiving.
- `PassMeansNoSoftFailure` has to survive that `BeginTest` clears the flag.
- `SurfaceShowsLastClear` compares what the GPU has done with what the CPU
  remembers of an earlier iteration, in bodies whose stages may or may not clear.
- `PlanIsWhatRuns` relates the accepted plan to two independent mechanisms that
  can narrow it (masks and suite filters).
- `KeepsEveryStride` is a statement about the whole history of a compaction loop.
- `OracleIsSound` and `PassIsItsOwn` are the two halves of an oracle: it blames
  only a defect or a timeout, and accepts only its own evidence.
- `PassedIsEarned` and `LedgerIsClean` speak of the bytes in the marker file, which
  only the guest and the watcher's arithmetic of offsets and partial lines relate to
  the event log. They excuse what the code cannot see (`Watched`).
- `HonestGuestPasses` quantifies over every admitted command line; its list of
  exceptions, `Contradictory`, is itself a result (section 6).
- `PassedDidTheWork` fails for any gate that compares a filled-in field with the
  request it was filled in from, so it found out which gates really pin work.

## 4. Fairness

- `RunLifecycle!FairSpec`: weak fairness of `Program`, the program's own steps.
  The program is one thread that never waits for input in an unattended run;
  power loss, failures and the user are not fair. `UnattendedRunEnds` allows the
  halt on an assertion and the loss of power.
- `GameLoadComposite!FairSpec`: weak fairness of the loader thread (the kernel
  schedules it), of the GPU, and of the three points where the test thread waits.
  The choice of the next body is not fair: a test may be the last.
- `SuiteRunner!FairSpec`: weak fairness of each thread (`Watcher`, `Held`, `Timed`,
  `Sampler`, `MainThread`), which the operating system schedules, and of
  `XemuTestTimesOut`, because xemu-test kills xemu after `--timeout-seconds`. The
  guest is not fair: it may hang. The joins of `main` are bounded, which the model has
  as faults, so `RunEnds` does not depend on them.
- The other specifications have no liveness. In `ReportQuery` every wait has a
  timeout, and a runner of `OracleLedger` that finds a lock taken may give up.

## 5. Proofs

Checked by TLAPS for every value of the constants allowed by the named
assumptions (`CatalogAssumption`, `MenuAssumption`, `GameLoadAssumption`,
`AdmissionAssumption`, `ViewerAssumption`, `RunnerAssumption`, `LedgerAssumption`,
`ReportAssumption` of `OracleReports`, `RevalidationAssumption`, `RunnerOwnsItsNames` of
`RunGates`, and `ReportAssumption` of `ReportQuery`).
Some theorems are about definitions that no run lists, because a refinement or an
inductive invariant implies them: type correctness, `EvidenceKept` (theorem
`EvidenceIsKept`), `FirstObservationStands` (`HashesNeverChange`), `ModeDecidesSaving`.

**RunLifecycleProofs.** `IInv` is a conjunction of seven parts. `TypeOK`; `FilesInv`
(files have distinct boots, none later than this one; archive names are distinct);
`LogInv` (the log is open exactly in the phases in which records are written, and
is this boot's file); `AccountInv` (`emitted` and `unexpected` say which leaf ids
the open file contains and whether one is there twice); `PlanInv` (what a plan
result that says COMPLETE is about, and when it can exist); `FailureInv` (a failing
record, or a soft failure once seen, is counted or still flagged by the running
test); `VerdictInv` (a PASS on the screen was computed from these). None of the properties is inductive alone:
`CompleteIsBacked` needs the account to match the file at the moment of closing, and
`PassIsClean` that a counter remembers what a flag forgets. From it follow
`CompleteIsAlwaysBacked`, `PassIsAlwaysClean`, `PassNeverHidesASoftFailure` and
`OneFilePerRunHolds`; `EvidenceIsKept` is the action property by cases on the steps
that touch a file; `RunImplementsEvidenceStore` is the refinement, step by step.

**MenuAndGameLoadProofs.** `MenuInv` says of the menu that the open item belongs to a suite
(`ItemInv`), that an open test that was handled no event since its entry was drawn has
been drawn (`DrawnInv`: a counted frame is what `OnEnter` goes by), and the
properties themselves. `HandlesAreOfTheOpenTest` and `LivesAreLostInHaste` follow: only
a second event before the first draw, or X, loses a life. Of the composite suite, `LoaderInv` says where a posted job is: unseen, held or
answered, with the events in the one combination that fits. `TornInv` says that a
torn buffer is the one being decoded, while the test thread waits for it. `SurfaceInv` says when
surface, queue and remembered seed agree. The three safety theorems follow.

**PlanAdmissionProofs.** Either the first file was rejected (and nothing is claimed)
or the object in force is what the sections read so far say (`InStep`) and the plan is
admitted as far as it was checked (`Admitted`). `AdmittedPlanRuns` is its consequence
at `ApplyConfig`. `ReadsFirstFileExactly` goes on from the same invariant: the walk
stores what the part of the file already read says, and each early return contradicts
one clause of the file's validity; so whoever gets through has a valid file and
holds its meaning, and whoever does not had none. It needs `StoredOverNothing`: settings
stored over an empty map are the settings.

**ResultViewerProofs.** `SamplesKeepEveryStride`: the kept values are the numbers read
at multiples of the stride. The work is in the lemmas about halving
(`CompactedFacts`) and the arithmetic of multiples, which are stated once.

`ListsWholeRecords` and `LoadsOneWholeRecord` are about any run and any cut. `LineOfRecord`
gives the lines of one record by number; `LayoutExists` says of every file that
may be left that its lines up to the cut are those of whole records, with the commas
between, and a part of one more (`Place` counts the records done and the lines read of
the next), after which a torn line may follow that no reader takes for the end of a
record or of the file. It is proved by induction over the length of the run. On it
rest two step lemmas: after n lines the list reader holds the records done and
`Partial` of the next (`ReadsOn`, `ReadThrough`), and the sample reader holds nothing
or the first samples of the first record with the id (`SamplesOn`). Because the id it
looks for came from the list, that record is whole, and the reader never comes to the
torn end (`StillAhead`): that is why no torn number can be shown. `Settled` then says
of each screen what it waits for and which of its files have been read so (`Stage`).

`FillsInOrderStatistics` is about any sequence of values: `Sorted` exists and is a
permutation, so counts of values are counts of positions; the rank of the p95 is the
least with 95 of 100 at or below it, and the middle (or the mean of the two middles)
has half of the values on each side.

**SuiteRunnerProofs.** `EvidenceInv` follows a failure from the event log over
memory to the disk: where the watcher stands says how far it has come. `VerdictInv`
says that `main` reaches a status about the output only after the watcher has ended,
and without a failure: that is what makes the late look at the watcher in the except
clause sufficient. `EarnedInv` says what `main` has seen at each of its later points:
xemu started and left, photographs, samples, accepted markers. `KillsAfterEvidence`,
`KeepsFirstFailure`, `ReportsFailureOnDisk`, `PassedRestsOnEvidence` and
`LedgerRestsOnEvidence` follow, for every number of faults, every guest and every
command line. `ReadInv` follows the bytes: until the file is truncated under it, the
watcher's offset lies in the file, `partial` is what stands after the last line feed
before the offset, and every failing line before the offset has become a failure or
waits in `queue`; after the last poll, if it was not denied, the offset is the length of
the file. That a chunk appended to `partial` splits into the lines of the whole file is
an induction over its length (`CompleteLinesKeepFailures`, `UnfinishedOfRest`). From
this and the evidence follow `EarnsPassed` and `KeepsLedgerClean`.

**OracleLedgerAndGatesProofs.** `LedgerInv` says that whoever is between reading and unlocking
holds the lock, and that its staged copy is the merge with the file as it still is;
`XemuInv` that a runner about to launch holds the other lock and has seen no xemu.
Neither is implied by the lock alone: a killed runner opens it. `AcceptedIsKept`,
`XemuIsExclusive`, `HashesNeverChange` and the refinement `LedgerRefines` follow, for
any number of runners, reports and kills.

`RunInv` is about the environment at each gate of one run: what is not from before is
among `Variables` from the launch to the exit, and nothing otherwise; past the filter
of the build gate nothing from before steers xemu; and a name that is none of the
runner's business stays. It rests on three facts about the lists: the filter takes out
just what steers xemu, every name that the runner or an admitted option sets is such a
name (`VariablesSteer`, which needs that `--xemu-env` was admitted), and the list of the
exit covers all of them (`VariablesArePopped`). `Variables` depends on the command line and
on the telemetry level, which no gate after the launch changes. `EnvironmentOfThisRun`
follows, for any names set before, any command lines, worlds and images. That the
runner's own five names begin with `XEMU_` is an assumption TLC evaluates
(`RunnerOwnsItsNames`), because the provers do not look into strings.

**RevalidationProofs.** `NormalizedIsShaped` takes the validator conjunct by conjunct
for a record that the normaliser let through; with it `BuiltReportIsShaped`, and with
an invariant that says which runs a file can come from, `SealedReportsPass`.
`OneWitnessPerReport` counts the witnesses of a retail oracle through their owners;
`OraclesAcceptTheirWitnesses` needs no invariant, because it holds of any reports.

`IInv` has `Sound` for every revalidator: how far each list has come (`Reading`); that
what was loaded is genuine (`Known`); how many changes it took if a digest is of an
edited file (`Counted`); that a path whose report was replaced between digest and
load no longer holds the first one, because an observation id is never used twice
(`Gone`), so the second digest notices (`Rechecked`); and that the verdict was reached by
`Consensus` and `Accepts` over what was loaded (`Agreed`). `Published` ties the output
directory to the one revalidator that made it. `AuditsAreTrue` is stated in two parts,
see section 6. For `VerdictsMeanSameFrames`, `AgreementMeansSameFrames` goes from the
compared views back to the guest's own records.

Besides the typing of the constants the assumptions say: the ids of `Runs` are
distinct and none is "none" (`RevalidationAssumption`; ids are drawn at random); a backend
belongs to one kind of machine; canonical spellings are fixed points and no KAT has
the name of another hash (`ReportAssumption`); values and budget of the viewer are
natural numbers, and a file is what a run can leave (`ViewerAssumption`).

**ReportQueryProofs.** A leaf is straight-line code, so the methods it queues are known
before it runs: `Line(leaf)`. Three cursors move along them. The test thread is at step
`Pos` of the script and has queued `Given` methods, PFIFO has executed `Done` of them,
and the publisher is through with `Out` of the reports they ask for. Nothing orders the
cursors but the waits: past a semaphore, `Done` is at least `Synced`; past an await,
`Out` is at least `Met`. `IInv` says what follows for each pair of them: the FIFO holds
the methods between `Done` and `Given` (`InFifo`), the registers are what the methods
before `Done` make of them (`InEngine`), the queue of reports holds those between `Out`
and `Done`, with the record each is due in (`InPending`); a record is whole only if its
report is behind the publisher, and what a check has found whole is out of reach of
what is still owed (`InMemory`); and on a renderer without a defect every report stands
where it is due, with the amount due, once the publisher is past it (`InOrder`).
None of the three properties is inductive without all of this: that a sample is judged by
its own reports needs that the next body begins with nothing on its way, which needs
that the last step of every script finds both queues empty (`Idle`), hence that every
report of every script is waited for (`QuietTable`). An awaited record is not enough by
itself to know how far the publisher is, because a late renderer may have put another
report there: `Soonest` is the least number of finished reports with which a record may
be whole, and `Waits` says that at each await it is large enough.

What a script contributes is said by tables (`PushTable` to `SoonTable`, `BoundTable` to
`CountsTable`), each proved leaf by leaf from `Script`, so that the proofs about actions
never look into a script. `IInv` is given up once a wait has run out or A1 was seen
half-written (`excused`), as the properties are: after a timeout a body goes on with
reports still owed. `ConformingNeverFails`, `PassOnOwnReports` and
`FreedMemoryIsLeftAlone` follow, for any leaves, any of the five renderers, any number of
samples and any number of rewrite attempts (the run has two of each). The type invariant
(`TypesHold`) is proved only: TLC cannot compare the arguments of different methods.

Facts about recursive functions (the lines of a run, the lines of a chunk) are proved
by taking the least counterexample (`WFMin` of `WellFoundedInduction`, with the order of
the naturals), since the induction rules with an operator parameter cannot be used.

Model-checked only: liveness, which is out of the provers' reach; and three properties of
`RunGates` (`HonestGuestPasses`, `PassedDidTheWork`, `PassedTookItsPath`), which are about
the values in the tables of `HostProfiles`: these are built with `:>` and `@@`, which the
provers cannot expand, and a proof for other tables would say nothing of these.

## 6. Disagreements found

1. `game_load_twice`. `loader_stop_` is never reset, so the second life of the
   composite suite stops at its first job and the test thread waits for ever.

Six more definitions are kept in their modules although the code violates them; to
see the behaviour, add the name to the INVARIANTS of the run (the first is an action
property and goes to its PROPERTIES):

2. `SoftFailureFailsItsLeaf` (`RunLifecycle.cfg`). README.md:109 promises that a leaf
   with a soft failure stays FAIL. `ResultOutcome` looks at the flag when the record
   is written; an assertion after it leaves a PASS record. (The run's verdict is
   still FAIL.)
3. `EveryLifeIsTornDown` (`MenuDriver.cfg`). `OnEnter` (`menu_item.cpp:1173`) tears down
   first only if a frame was counted. All buttons released during one long draw are
   handled in the next pass, so A, A is enough: the suite is initialised twice and torn
   down once. For the composite suite a thread, its ring and two events are lost; that
   a lost thread which has not yet read its event may answer a job of the next life
   is not modelled.
4. `RejectedFileLeavesNoTrace` (`PlanAdmission.cfg`). A rejected E: file leaves its
   first half in the object that D: is loaded into, or that is used as "default
   values".
5. `ShowsTheOpenedRecord` (`ResultViewer.cfg`). The list shows the later record of a
   repeated leaf, the samples are those of the first.
6. `TeardownNeverAsserts` (`MenuDriver.cfg`). X on an open test
   (`menu_item.cpp:1214`) initialises its suite over the open life, runs it, tears it
   down, and then leaves the test, which tears it down again; of a suite with a thread
   the second teardown waits on a null handle, and its assertion
   (`game_load_composite_tests.cpp:1407`) fails. `EveryLifeIsTornDown` does not
   need this: A, A and B are enough for it.
7. `IneligibleTimingIsLabelled` (`RunGates.cfg`). The help of `--host-gdb-samples` (line
   3994) says that such a run must not be used for timing; `write_summary` (line 3712)
   gives it the ordinary warning and the class `benchmark-instrumented`. The other three
   reasons (dirty build, waived markers, lab counters) do replace the warning.

Gates of the host runner that no guest can satisfy (`Contradictory` in `RunGates`;
without a conjunct of it `HonestGuestPasses` is violated):

- `--full-suite` with a catalog and without `--enable-xemu-only-tests` never matches
  its contract: the runner leaves out two suites (line 4276), the guest
  does not register five (`src/main.cpp:245`).
- Profile `cpu-tb` selects a suite of three tests and pins the frames of two
  (`cpu_translation_block_tests.cpp:92`).
- A profile or test of a suite that needs xemu is admitted without the switch that
  registers it.
- The children of a scene are derived from `stage_mask` alone, while the guest narrows
  the mask by the stage names (`src/runtime_config.cpp:252`); a mask of the long scene
  that leaves nothing is admitted and refused by the guest.
- `official-smoke` with telemetry is admitted, but `measurement_seen` is required.
- `--expected-record-count` without a catalog is believed before anything has run.
- A record without a frame has a class in `write_summary` (`benchmark-triage`, line
  3667), but the functional report (line 4540) refuses it, so no run that passes has it.
- An oracle of another scale is admitted, its records are compared, and the frames of
  most tests differ from scale to scale.

Seen while modelling the host, without a property:

- `--test-id` skips the hashes and record contracts that the profile of the same test
  pins. With the selective watch, `surface-cpu-read-clean` pins zeros, which
  any amount of work satisfies.
- A run with waived markers is classified `benchmark-instrumented`, and the warning
  names only the first of several reasons. A build without SOURCE_STATE is clean.
- `12-RepeatedDisplay-Idle` is a shape of the display gate (line 2553), but the guest
  registers that workload as `12-RepeatedDisplay` (`game_load_composite_tests.cpp:1290`),
  which the gate does not look at.
- The ledger learns before the oracle and telemetry gates: a run that ends
  FAILED may have taught it its hashes.
- `xemu.log` missing from a validation run skips the validation (line 4690), though
  the function it guards calls that an error (line 1898).
- The last poll of the watcher is not retried after an OSError, and a watcher that
  cannot append to its event log ends in silence: a FAIL in the file goes unnoticed.
- A retail consensus may be made of reports that FAIL, and its oracle then refuses its
  witnesses; a consensus ignores the surface scale and its id depends on the order of
  the baseline. A file that holds an edited report when it is first digested, a
  genuine one when it is loaded, and the edited one again at its second digest is not
  noticed: the audit then gives the digest of a report nobody judged. It takes three
  changes of one file (`Counted` in `RevalidationProofs`); `AuditsAreTrue` therefore
  proves `AuditIsTrue` for `MaxChanges <= 2`, and for any number of changes that the
  digest of a genuine report is of the report judged. A directory left by a write that
  failed refuses the next attempt.
- `os.replace` of the ledger is not preceded by a sync; on Windows the lock
  gives up after some ten seconds.

Seen while modelling the console, without a property:

- The KAT of the composite's correctness image compares a checksum taken at
  Initialize; the image is drawn from the buffer, which the loader may have
  overwritten since (`game_load_composite_tests.cpp:3342`). The variable `image` shows it.
- In the descriptor rewrite a report redirected by a *late* renderer looks like an
  early attempt, is retried, and the leaf may pass if a later attempt is quick
  enough. `pending_cross` is claimed although the report may have been
  published between the read of A1 and the rewrite. A conforming renderer whose A1
  is read between its two strokes fails the leaf (`OracleIsSound` excuses it).
- Deinitialize of the report-query suite ignores whether its semaphore came: after
  a timeout a late report may land in freed memory (`NothingStrays` excuses it).
- Suites ShaderLifecycle and TextureCubemapFallback are missing from the
  xemu-only check of plans (`runtime_config.cpp:527`): such a plan is admitted and
  can never be COMPLETE.
- Y leaves the countdown running (README.md:76 says any input cancels it); in
  continuous mode the countdown then starts a full run that saves nothing. The
  documents say three seconds, the constant is ten.
- A plan result of an earlier boot survives a run without a plan.
- A results.txt whose close failed is still called COMPLETE.
- Black exits without Deinitialize. A button released on the failure screen is
  swallowed.
- Archive names are sorted as text, "-10" before "-2". The viewer calls a record
  without outcome and oracle PASS. Samples may be thinned once more than needed, because
  compaction precedes the check whether the next value is kept.

## 7. Not modelled

- Register programming, vertex generation, shaders and pixel contents: their outcome
  is an image hash compared outside the program.
- CPU workloads (`cpu_*`, `x87_*`): the subject is the emulated processor.
- `Profile` (`test_suite.cpp:283`): straight-line timing around a callback; what is
  measured is fixed by the place of one wait. Its sums are 32 bits wide and its guard
  covers the product of the iterations only.
- The MCPX voice suite: its stop sequence relies on how an APU frame and a register
  write exclude each other, which one comment says and nothing else; a model would
  check its own assumption.
- The S3TC ring of the composite suite, its audio, and reuse of contiguous memory by
  other suites: the consumer is the emulated GPU or AC97, whose timing the code does
  not observe there.
- Layout, fonts, graphs, paging, key repeat, hot plug of controllers.
- Of the host runner: the modules it imports that are not in the repository
  (`record_contract`, `perf_lab_config`, the validators of composite work and counters:
  their verdicts are chosen, except where a caller shows what they compute); preparation of the run directory and hard disk image, pixels of
  the captured windows, the GDB protocol, the layout of its reports, and `write_summary`
  beyond what labels a run.
- Generators (`test_catalog.py`, `create_test_suite.py`, `package_runner_suite.py`,
  `audio_torture_cases.py`), comparison tables (`hash_compare.py`,
  `summarize_test_suites.py`): single passes over files without state or order.
- The capture scripts in PowerShell: calls of external programs.
- Device information; build system; generated catalog and release data; evidence;
  third-party code. pbkit, nxdk, the GPU, the renderer, xemu, xemu-test, the file systems
  and operating systems appear as far as the code relies on them and are marked
  external.

## 8. Plan

Done, in this order: run lifecycle with its abstract store; menu; composite suite;
plan admission; result viewer; report query; host runner; ledger with its abstract
specification; oracle reports and revalidation; gates of the host runner.

Left, as far as it would add something: a refinement of the judging phase of
`SuiteRunner` by `RunGates`, which share the order of the gates and differ in what they
leave open. Every safety property of a passing run is proved, save the three of
`RunGates` about tables (section 5).
