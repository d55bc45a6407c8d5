----------------------------- MODULE RunGates -----------------------------
(***************************************************************************)
(* main() of the host suite runner (run-suite-pr76.py) as a sequence of    *)
(* gates: the command line is refused or admitted, the environment of xemu *)
(* is prepared, a guest runs once, and its records and counters are held   *)
(* against what was asked for, against earlier runs and against an oracle. *)
(* Threads, the watcher of the guest and the captures are in SuiteRunner;  *)
(* here the guest and xemu always end, but the files, the image, the build *)
(* and the counters may not be what the command line says.                 *)
(***************************************************************************)
EXTENDS HostGates, FiniteSets, SequencesExt

CONSTANTS
    Runs,       \* <<req, world>>: a command line, with the files it names,
                \* and how files, build and image behave: [fault, spread,
                \* multiplier, silent (of an image that does other work),
                \* shell (the names set in the environment before)]
    Image,      \* the tests of the guest image, in the order they run
    FrameOf     \* [<<record, scale, backend>> |-> its frame]

VARIABLES
    req, world,
    gate,         \* the gate that is next, or "rejected", or "exited"
    level,      \* args.host_telemetry
    tests,      \* test_filter: the tests selected in the guest's config
    expected,   \* << >>, or the record contract: <<set of names>>
    env,        \* the environment xemu inherits: [name |-> who set it]
    result,     \* of test.run(): what xemu-test says
    records, status,
    summary     \* of summary.json: how the run may be used

gateVars == <<req, world, gate, level, tests, expected, env, result, records,
              status, summary>>

GatesInit ==
    /\ \E run \in Runs : req = run[1] /\ world = run[2]
    /\ gate = "parse" /\ level = "unset" /\ tests = {} /\ expected = << >>
    /\ env = [n \in world.shell |-> "before"]
    /\ result = "none" /\ records = << >> /\ status = "none"
    /\ summary = [classification |-> "none", warning |-> "none"]

Perf == req.mode = "perf"
Full == req.select = "full"
TestId == IF req.select = "test" THEN req.test ELSE None
Profiled == Perf /\ req.select = "profile"
SelectedProfile == CASE Full -> "full-suite"
                     [] req.select = "test" -> req.test
                     [] OTHER -> req.profile

\* One gate: it lets the run pass on or ends it before anything was launched.
Admit(from, to, accepted) ==
    /\ gate = from /\ gate' = IF accepted THEN to ELSE "rejected"
    /\ UNCHANGED <<req, world, env, result, records, status, summary>>

-----------------------------------------------------------------------------
(* Before the launch                                                       *)
\* parser.error
ArgumentsAccepted ==
    /\ req.select = "test" \/ req.config # << >> \/ req.hold \/ req.capture
       \/ req.gdb \/ req.expected # 0 \/ req.manifest # << >> => Perf
    /\ req.reference \/ req.capture => req.hold
    /\ req.validation \/ req.lab => req.backend = "vulkan"
    /\ req.xemuOnly => /\ Perf
                       /\ \/ req.select \in {"full", "test"}
                          \/ req.profile = "pfifo-packet-boundary"
    /\ req.trace => /\ Perf /\ req.backend = "vulkan" /\ ~Full
                    /\ req.profile = "pfifo-packet-boundary" /\ req.xemuOnly

\* validate_held_frame_request: these workloads announce PASS to the capture.
HeldFrameSupported ==
    req.hold => SelectedProfile \in HELD_FRAME_SUPPORTED_SELECTIONS

ParseArgs ==
    /\ Admit("parse", "scene", ArgumentsAccepted /\ HeldFrameSupported)
    /\ UNCHANGED <<level, tests, expected>>

\* load_game_load_config, for a scene of two stages.  Absent is {0}.
Absent == {0}
SceneTest ==
    "long_unlocked_scene" :> "GameLoadComposite::08-LongUnlockedScene" @@
    "cross_title_hotpath" :> "GameLoadComposite::09-CrossTitleHotpath" @@
    "s3tc_sync_factor" :> "GameLoadComposite::10-S3tcSyncFactor"

SceneAccepted(c) ==
    CASE c.scene = "cross_title_hotpath" -> c.mask \notin {Absent, {}}
                                            /\ c.stages = c.mask
      [] c.scene = "s3tc_sync_factor" ->
            /\ c.mask \notin {Absent, {}}
            /\ c.stages # Absent => c.mask \cap c.stages # {}
      [] OTHER -> TRUE

LoadGameLoadConfig ==
    /\ Admit("scene", "telemetry",
            \A i \in DOMAIN req.config :
               /\ SceneAccepted(req.config[i])
               /\ Full \/ TestId = SceneTest[req.config[i].scene])
    /\ UNCHANGED <<level, tests, expected>>

\* --xemu-env: variables of xemu, and none the runner owns.
EnvironmentAccepted ==
    \A n \in req.environment :
       /\ IsPrefix("XEMU_", n)
       /\ ~IsPrefix("XEMU_PERF_", n) /\ ~IsPrefix("XEMU_LAB_", n)

\* The option, or the role of the experiment, or "off".
ResolveTelemetry ==
    LET first == SelectSeq(<<req.telemetry, req.roleTelemetry, "off">>,
                           LAMBDA v : v # "unset")[1] IN
    /\ Admit("telemetry", "evidence", EnvironmentAccepted)
    /\ level' = IF req.gdb /\ first = "off" THEN "counters" ELSE first
    /\ UNCHANGED <<tests, expected>>

\* validate_output_only_request and load_output_only_contract.
ContractMatches(c) ==
    /\ c.test = TestId /\ c.backend = req.backend /\ c.scale = req.scale
    /\ c.workload.multiplier = req.multiplier
    /\ c.workload.warmup = req.warmup /\ c.workload.completion = req.completion
    /\ c.workload.leastMeasured >= 15000000
    /\ c.workload.leastWarmup >= 5000000
    /\ c.records # << >>

OutputOnlyAccepted ==
    IF ~req.outputOnly THEN req.contract = << >>
    ELSE /\ Perf /\ req.contract # << >> /\ level = "off" /\ ~req.gdb
         /\ ~req.hold /\ ~req.reference /\ ~req.capture /\ ~req.waiver
         /\ ContractMatches(req.contract[1])

\* validate_missing_live_marker_compatibility_request
WaiverAccepted == req.waiver => Perf /\ level = "off" /\ ~req.gdb

CheckEvidence ==
    /\ Admit("evidence", "profile", OutputOnlyAccepted /\ WaiverAccepted)
    /\ UNCHANGED <<level, tests, expected>>

\* validate_profile_telemetry and PROFILE_REQUIRED_SCALES
ProfileAccepted ==
    Profiled =>
       /\ req.profile = BOOSTED =>
             /\ req.backend = "vulkan" /\ level \in {"counters", "timed"}
             /\ req.completion = "per_iteration"
       /\ Lookup(PROFILE_REQUIRED_SCALES, req.profile, req.scale) = req.scale

CheckProfile ==
    /\ Admit("profile", "files", ProfileAccepted)
    /\ UNCHANGED <<level, tests, expected>>

\* xemu, its firmware and the image are there; a pinned image has its bytes.
CheckFiles ==
    /\ Admit("files", "build",
             world.fault # "noXemu" /\ (Perf => world.fault # "otherImage"))
    /\ UNCHANGED <<level, tests, expected>>

\* validate_build_cleanliness: a build without SOURCE_STATE counts as clean.
DirtyBuild == world.fault = "dirty"
BuildAccepted ==
    /\ req.validation => world.fault # "noSdk"
    /\ DirtyBuild => req.allowDirty
    /\ Perf /\ req.select # "test" /\ req.profile = BOOSTED =>
          /\ req.role \in {"baseline", "candidate"}
          /\ world.fault # "otherBuild"

\* (Bug: the variables of the Vulkan loader are forgotten.)
OfXemuOnly(n) == IsPrefix("XEMU_", n)

Diagnostic(n) ==
    \/ IsPrefix("XEMU_", n)
    \/ n \in {"VK_INSTANCE_LAYERS", "VK_LAYER_PATH", "VK_LOADER_LAYERS_ENABLE",
              "VK_LOADER_LAYERS_DISABLE"}

\* clear_diagnostic_environment
ClearEnvironment ==
    env' = [n \in {n \in DOMAIN env : ~Diagnostic(n)} |-> env[n]]

CheckBuild ==
    /\ gate = "build"
    /\ gate' = IF BuildAccepted THEN "select" ELSE "rejected"
    /\ ClearEnvironment
    /\ UNCHANGED <<req, world, level, tests, expected, result, records, status,
                   summary>>

-----------------------------------------------------------------------------
(* The selection, and the records it must produce                          *)
Filter == CASE Full -> {}
            [] req.select = "test" -> {req.test}
            [] OTHER -> Profiles[req.profile]

Covers(filter, test) == test.name \in filter \/ test.suite \o "::*" \in filter
Chosen(test) == Full \/ Covers(Filter, test)

\* The children of a staged scene, and the record of the group.
RecordNames(test, stages) ==
    {test.name \o "-" \o ToString(s) : s \in stages} \cup {test.name}

ChildMask(test) ==
    LET masks == {req.config[i].mask : i \in {j \in DOMAIN req.config :
                     SceneTest[req.config[j].scene] = test.name}} \ {Absent}
    IN  IF masks = {} THEN test.stages ELSE CHOOSE m \in masks : TRUE

\* The suites a full run without --enable-xemu-only-tests is not asked for.
GatedHere == {"PFIFOPacketBoundary", "TextureCubemapFallback"}

ContractNames ==
    UNION {RecordNames(t, ChildMask(t)) : t \in
              {t \in Range(Image) :
                 /\ Chosen(t)
                 /\ Full /\ ~req.xemuOnly => t.suite \notin GatedHere}}

\* exact_test_filter and derive_record_contract.  PROFILE_HELD_FRAME_SHA256S
\* is empty: no profile requires a held frame.
SelectionAccepted ==
    /\ req.select = "test" => req.catalog
    /\ req.expected # 0 /\ req.catalog => req.expected = Cardinality(ContractNames)

ChooseRecords ==
    /\ gate = "select"
    /\ gate' = IF ~Perf \/ SelectionAccepted THEN "launch" ELSE "rejected"
    /\ tests' = Filter
    /\ expected' = IF Perf /\ req.catalog THEN <<ContractNames>> ELSE << >>
    /\ UNCHANGED <<req, world, level, env, result, records, status, summary>>

-----------------------------------------------------------------------------
(* The launch                                                              *)
INFRASTRUCTURE_FAILED == "INFRASTRUCTURE_FAILED"

RunnerVariables ==
    (IF req.lab THEN {"XEMU_LAB_PERFLOG"} ELSE {}) \cup
    (IF req.validation THEN {"VK_LAYER_PATH", "VK_INSTANCE_LAYERS"} ELSE {}) \cup
    (IF Perf /\ ~req.outputOnly
     THEN {"XEMU_PERF_GUEST_MARKERS", "XEMU_PERF_LIVE_MARKER_PATH"} ELSE {}) \cup
    (IF level # "off"
     THEN {"XEMU_PERF_TELEMETRY_PATH", "XEMU_PERF_TELEMETRY_LEVEL"} ELSE {})

Variables == [n \in req.environment \cup RunnerVariables |->
                 IF n \in RunnerVariables THEN "runner" ELSE "option"]

\* Without --host-gdb there is nothing to launch; the environment is set.
Prepare ==
    LET ready == req.gdb => world.fault # "noGdb" IN
    /\ gate = "launch" /\ gate' = IF ready THEN "guest" ELSE "cleanup"
    /\ status' = IF ready THEN status ELSE INFRASTRUCTURE_FAILED
    /\ env' = [n \in DOMAIN Variables \cup DOMAIN env |->
                  IF n \in DOMAIN Variables THEN Variables[n] ELSE env[n]]
    /\ UNCHANGED <<req, world, level, tests, expected, result, records, summary>>

-----------------------------------------------------------------------------
(* The guest and xemu (external).  It honours the config it is given, the  *)
(* image may be an old one that does other work or states less.            *)
Honest == world.fault \in {"none", "stale", "older", "frameless"}
WorkDone(w) == IF w.fault = "otherWork" THEN w.multiplier ELSE req.multiplier
Used == WorkDone(world)
States(w) == w.fault # "older" /\ ~(w.fault = "otherWork" /\ w.silent)
Takes(feature) == (feature \in req.features) # (world.fault = "otherPath")

\* runtime_config.cpp: the names of a scene narrow its mask, and a
\* configuration that leaves no stage is refused.
Narrowed(c, all) == (IF c.mask = Absent THEN all ELSE c.mask) \cap
                    (IF c.stages = Absent THEN all ELSE c.stages)
ConfigRefused == \E i \in DOMAIN req.config :
                    Narrowed(req.config[i], {1, 2}) = {}

GuestStages(test) ==
    LET own == {i \in DOMAIN req.config :
                   SceneTest[req.config[i].scene] = test.name}
    IN  IF own = {} THEN test.stages
        ELSE Narrowed(req.config[CHOOSE i \in own : TRUE], test.stages)

XemuOnlySuites == {"McpxVoice", "PFIFOPacketBoundary", "Pvideo",
                   "ShaderLifecycle", "TextureCubemapFallback"}

RunsTest(t) == /\ Full \/ Covers(tests, t)
               /\ t.suite \in XemuOnlySuites => req.xemuOnly

\* Of an image, in a world w, at a scale on a backend.
Record(w, scale, backend, t, name) ==
    [name |-> name, iterations |-> t.iterations * WorkDone(w), raw |-> t.iterations,
     samples |-> IF States(w) THEN t.iterations ELSE 0,
     multiplier |-> IF States(w) THEN WorkDone(w) ELSE 0,
     warmup |-> IF States(w) THEN req.warmup ELSE -1,
     completion |-> IF States(w) THEN req.completion ELSE None,
     total |-> IF w.fault = "short" THEN 900000 ELSE 20000000 * WorkDone(w),
     frame |-> CASE w.fault = "otherFrame" -> "0000000000000000"
                 [] w.fault = "frameless" -> None
                 [] OTHER -> FrameOf[<<name, scale, backend>>],
     metadata |-> name, preset |-> t.preset]

\* In the order of the image; a group after its children.
Records(w, scale, backend, t) ==
    LET stages == SetToSortSeq(GuestStages(t), <) IN
    Append([i \in DOMAIN stages |->
               Record(w, scale, backend, t, t.name \o "-" \o ToString(stages[i]))],
           Record(w, scale, backend, t, t.name))

Output(w, scale, backend) ==
    FoldLeft(LAMBDA out, t : out \o Records(w, scale, backend, t), << >>,
             SelectSeq(Image, RunsTest))

Delivered(all) ==
    CASE world.fault = "missing" /\ all # << >> -> Tail(all)
      [] world.fault = "twice" /\ all # << >> -> Append(all, Last(all))
      [] OTHER -> all

RunGuest ==
    /\ gate = "guest" /\ gate' = "markers"
    /\ records' = IF Perf THEN Delivered(Output(world, req.scale, req.backend))
                  ELSE << >>
    /\ result' = IF (Perf /\ records' = << >>) \/ ConfigRefused
                    \/ world.fault = "failed"
                 THEN "FAILED" ELSE "PASSED"
    /\ UNCHANGED <<req, world, level, tests, expected, env, status, summary>>

-----------------------------------------------------------------------------
(* nv2a-perf.json (external): what xemu counts for the work that was done  *)
Extreme(low, high) == IF world.spread = "low" THEN low ELSE high

SnapshotCounters(m) ==
    "FINISH_VERTEX_BUFFER_DIRTY" :> 0 @@
    "VERTEX_RAM_SNAPSHOT_DRAW" :> 10240 * m @@
    "VERTEX_RAM_SNAPSHOT_ATTRIBUTE" :> 20480 * m @@
    "VERTEX_RAM_UPDATE_DEFERRED" :> Extreme(5000, 10240) * m @@
    "VERTEX_RAM_SNAPSHOT_BYTES" :> 4096 @@
    "VERTEX_RAM_DEFERRED_COPY_BYTES" :> 4096

VertexCounters(m, f2) ==
    LET dirty == (IF f2 THEN Extreme(1500, 10240) ELSE Extreme(8000, 10240)) * m
        done == Extreme(8, 10) * m
        submits == IF ~f2 THEN 10 * m
                   ELSE IF Takes("vertex_ram_snapshots")
                   THEN Extreme(done, 128 * m) ELSE dirty + Extreme(0, 64 * m)
    IN  "QUEUE_SUBMIT" :> submits @@ "PIPELINE_RENDERPASSES" :> submits @@
        "QUEUE_SUBMIT_5" :> 1 @@ "FINISH_PERF_COMPLETE" :> done @@
        "VERTEX_RAM_SNAPSHOT_RETIRE_PERF_COMPLETE" :>
           (IF Takes("vertex_ram_snapshots") THEN 8 * m ELSE 0) @@
        (IF f2 THEN "FINISH_FLUSH" :> 0 ELSE << >>) @@
        (IF Takes("vertex_ram_snapshots") THEN SnapshotCounters(m)
         ELSE "FINISH_VERTEX_BUFFER_DIRTY" :> dirty)

DisplayCounters(m) ==
    LET n == 8 * m
        hits == IF req.role = "baseline" THEN 0 ELSE n IN
    "FINISH_PERF_COMPLETE" :> n @@ "FINISH_FLUSH" :> 0 @@
    "DISPLAY_COMPOSE_REQUESTS" :> hits + 2 @@ "DISPLAY_COMPOSE_HITS" :> hits @@
    "DISPLAY_COMPOSE_MISSES" :> 2 @@ "DISPLAY_COMPOSES" :> 2 @@
    "QUEUE_SUBMIT_5" :> 1 @@ "QUEUE_SUBMIT_AUX" :> 1 + Extreme(7, 10) * n @@
    "QUEUE_SUBMIT" :> Extreme(2, 4) * n @@ "SURF_DOWNLOAD" :> 7 * n @@
    "SURF_TO_TEX" :> 2 * n @@ "TEX_UPLOAD" :> n @@
    "INLINE_ELEMENTS" :> 100 * n @@ "GEOM_BUFFER_UPDATE_2" :> Extreme(80, 88) * n @@
    "FINISH_VERTEX_BUFFER_DIRTY" :> 0

Workload == IF {p \in DOMAIN HOST_TELEMETRY_ASSERTIONS : Profiles[p] = tests} = {}
            THEN None
            ELSE CHOOSE p \in DOMAIN HOST_TELEMETRY_ASSERTIONS :
                    Profiles[p] = tests

CountersOf(m) ==
    LET shared == tests = {SharedPage} IN
    CASE Workload \in {"surface-cpu-read-clean", "surface-cpu-read-after-gpu-write"}
            /\ Takes("selective_surface_read_watch") ->
               IF Workload = "surface-cpu-read-clean" THEN CpuAccess(0, 0)
               ELSE "SURF_DOWNLOAD" :> 20 * m @@ CpuAccess(20 * m, 20 * m)
      [] shared /\ req.backend = "opengl" ->
            "BEGIN_ENDS" :> 10240 * m @@ "DRAW_ARRAYS" :> 10240 * m @@
            "ATTR_BIND" :> 20480 * m @@
            "GEOM_BUFFER_UPDATE_1" :> Extreme(9000, 10240) * m
      [] shared /\ req.backend # "opengl" -> VertexCounters(m, FALSE) @@
                   ScaledBy(m, HOST_TELEMETRY_ASSERTIONS["vertex-ram-reuse"])
      [] tests = {BoostedDisplay} -> DisplayCounters(m)
      [] OTHER -> "QUEUE_SUBMIT" :> 1 @@
                  ScaledBy(m, Lookup(HOST_TELEMETRY_ASSERTIONS, Workload, << >>))

BytesOf(m) ==
    (IF Workload \in DOMAIN SurfaceBytes /\ req.backend = "vulkan"
     THEN LET b == m * SurfaceBytes[Workload] IN "SURF_DOWNLOAD" :> <<b, b>>
     ELSE << >>) @@
    LET b == Extreme(9000 * 4096, 10240 * 8192) * m
    IN  "GEOM_BUFFER_UPDATE_1" :> <<b, b>>

Window(i, counters) == [index |-> i, start |-> 2 * i, end |-> 2 * i + 1,
                        counters |-> counters]

Telemetry ==
    LET windows == IF tests = Profiles[BOOSTED]
                   THEN <<Window(0, DisplayCounters(Used)),
                          Window(1, VertexCounters(Used, TRUE))>>
                   ELSE <<Window(0, CountersOf(Used))>>
        n == Len(windows) - (IF world.fault = "lostWindow" THEN 1 ELSE 0)
    IN  [schema |-> 2, status |-> "ok", overflowed |-> FALSE, dropped |-> 0,
         active |-> world.fault = "openWindow", errors |-> 0,
         completed |-> n, count |-> n, capacity |-> 8,
         windows |-> SubSeq(windows, 1, n), counters |-> CountersOf(Used),
         bytes |-> BytesOf(Used), seen |-> Perf /\ world.fault # "noMarkers",
         timing |-> (level = "timed") # (world.fault = "otherTiming"),
         gpu |-> IF level = "timed" /\ world.fault # "noTimestamps" THEN 1 ELSE 0]

-----------------------------------------------------------------------------
(* After the run                                                           *)
\* The next gate, or the status the except branches give what was raised.
Judge(from, to, ok, otherwise) ==
    /\ gate = from
    /\ gate' = IF ok THEN to ELSE "validation"
    /\ status' = IF ok THEN status ELSE otherwise
    /\ UNCHANGED <<req, world, level, tests, expected, env, result, summary>>

\* assess_live_marker_evidence, the end of the sampler, and
\* validate_vulkan_lab_counter_log.
CheckMarkers ==
    /\ Judge("markers", "normalize",
             /\ Perf /\ ~req.outputOnly /\ world.fault = "noMarkers" => req.waiver
             /\ req.gdb => world.fault # "gdbError"
             /\ req.lab => world.fault # "noLabLog",
             INFRASTRUCTURE_FAILED)
    /\ UNCHANGED records

\* normalize_perf_records and the output-only contract.
Normalize(rs) == [i \in DOMAIN rs |->
                     Normalized(rs[i], req.multiplier, req.warmup, req.completion)]

NormalizeRecords ==
    /\ Judge("normalize", "report",
             req.outputOnly =>
                /\ result = "PASSED"
                /\ OutputOnlyGate(Normalize(records), req.contract[1]),
             INFRASTRUCTURE_FAILED)
    /\ records' = Normalize(records)

\* build_report: every record has a frame and says how its work was counted.
\* What a record says of itself (checksums, KATs, its oracle) is OracleReports'.
\* (A run with a record without a frame never gets past this gate, though
\* Classification below has a class for it.)
WorkOf(r) == <<r.iterations, r.samples, r.multiplier, r.warmup, r.completion>>
HasReport(rs) ==
    /\ \A i \in DOMAIN rs : None \notin {rs[i].completion, rs[i].frame}
    /\ \A i, j \in DOMAIN rs :
          rs[i].name = rs[j].name /\ WorkOf(rs[i]) = WorkOf(rs[j]) => i = j

CheckReport ==
    /\ Judge("report", "count", Perf => HasReport(records), "FUNCTIONAL_MISMATCH")
    /\ UNCHANGED records

\* validate_record_contract, or --expected-record-count alone.
CheckRecordCount ==
    /\ Judge("count", "profileWork",
             IF expected # << >>
             THEN /\ {records[i].name : i \in DOMAIN records} = expected[1]
                  /\ Len(records) = Cardinality(expected[1])
             ELSE Perf /\ req.expected # 0 => Len(records) = req.expected,
             "FAILED")
    /\ UNCHANGED records

\* validate_profile_correctness
CheckProfileWork ==
    LET verdict == IF Perf THEN ProfileVerdict(records, SelectedProfile,
                                               req.multiplier, req.backend)
                   ELSE "ok" IN
    /\ Judge("profileWork", "oracles", verdict = "ok",
             IF verdict = "frame" THEN "FUNCTIONAL_MISMATCH"
             ELSE INFRASTRUCTURE_FAILED)
    /\ UNCHANGED records

\* What earlier runs of this job on this image left, or were sealed as: an
\* honest guest's records at any scale on any backend.  An image that does
\* other work or states less is another image.
GuestImage == IF world.fault \in {"older", "otherWork"} THEN "another" ELSE "this"
Earlier(scale, backend) ==
    Normalize(Output([world EXCEPT !.fault = "none"], scale, backend))

\* update_determinism_ledger: a key that is known keeps its frame.
EntryKey(image, scale, backend, r) ==
    <<backend, scale, image, r.name, WorkOf(r)>>
Taught == UNION {{<<EntryKey("this", scale, backend, r), r.frame>> :
                     r \in Range(Earlier(scale, backend))} :
                 scale \in 1..4, backend \in {"vulkan", "opengl"}}

LedgerAgrees ==
    /\ req.ledger # "none" => records # << >>
    /\ req.ledger = "taught" =>
          \A i \in DOMAIN records, e \in Taught :
             e[1] = EntryKey(GuestImage, req.scale, req.backend, records[i])
             => e[2] = records[i].frame

\* validate_against_oracle, for a consensus: backend, image, job (of which
\* the multiplier stands for the rest) and records; the scale is not asked.
Compared(rs) == {<<rs[i].name, WorkOf(rs[i]), rs[i].frame>> : i \in DOMAIN rs}
OracleAgrees ==
    \A i \in DOMAIN req.manifest :
       LET oracle == req.manifest[i] IN
       /\ records # << >> /\ oracle.backend = req.backend /\ GuestImage = "this"
       /\ oracle.multiplier = req.multiplier
       /\ Compared(records) = Compared(Earlier(oracle.scale, oracle.backend))

CheckOracles ==
    /\ Judge("oracles", "composite", Perf => LedgerAgrees /\ OracleAgrees,
             "FUNCTIONAL_MISMATCH")
    /\ UNCHANGED records

\* validate_work and interaction_analysis of the preset workloads (external).
CompositeWork == Perf /\ \E i \in DOMAIN records : records[i].preset

CheckCompositeWork ==
    /\ Judge("composite", "counters",
             CompositeWork => world.fault # "compositeWork", INFRASTRUCTURE_FAILED)
    /\ UNCHANGED records

\* final_measurement_is_composite
FinalIsComposite == IsPrefix("GameLoadComposite::", Last(records).name)

CheckHostTelemetry ==
    /\ Judge("counters", "verdict",
             level # "off" =>
                /\ world.fault # "noFile"
                /\ HostTelemetryGate(Telemetry, level, SelectedProfile,
                      req.backend, req.features, req.multiplier, req.role)
                /\ CompositeWork /\ FinalIsComposite =>
                      world.fault # "compositeCounters",
             INFRASTRUCTURE_FAILED)
    /\ UNCHANGED records

GiveStatus ==
    /\ gate = "verdict" /\ gate' = "validation"
    /\ status' = result
    /\ UNCHANGED <<req, world, level, tests, expected, env, result, records,
                   summary>>

\* write_summary
Waived == Perf /\ ~req.outputOnly /\ req.waiver /\ world.fault = "noMarkers"

Classification ==
    IF DirtyBuild THEN "diagnostic-dirty-build"
    ELSE IF req.lab THEN "diagnostic-instrumented"
    ELSE IF ~Perf THEN "smoke"
    ELSE IF records # << >> /\ \A i \in DOMAIN records :
               None \notin {records[i].completion, records[i].frame}
         THEN "benchmark-instrumented" ELSE "benchmark-triage"

MeasurementWarning ==
    IF DirtyBuild THEN "dirty build" ELSE IF Waived THEN "no live markers"
    ELSE IF req.lab THEN "lab counters" ELSE IF Perf THEN "triage" ELSE "none"

\* collect_vulkan_validation, in the finally clause, if there is a log.
CollectValidation ==
    /\ gate = "validation" /\ gate' = "cleanup"
    /\ status' = IF req.validation /\ world.fault = "noLayer"
                 THEN INFRASTRUCTURE_FAILED ELSE status
    /\ UNCHANGED <<req, world, level, tests, expected, env, result, records,
                   summary>>

\* The names the finally clause takes out of the environment.
Popped == {"XEMU_PERF_TELEMETRY_PATH", "XEMU_PERF_TELEMETRY_LEVEL",
           "XEMU_PERF_GUEST_MARKERS", "XEMU_PERF_LIVE_MARKER_PATH",
           "VK_LAYER_PATH", "VK_INSTANCE_LAYERS", "XEMU_LAB_PERFLOG"}
          \cup req.environment

Finish ==
    /\ gate = "cleanup" /\ gate' = "exited"
    /\ env' = [n \in DOMAIN env \ Popped |-> env[n]]
    /\ summary' = [classification |-> Classification,
                   warning |-> MeasurementWarning]
    /\ UNCHANGED <<req, world, level, tests, expected, result, records, status>>

GatesNext ==
    \/ ParseArgs \/ LoadGameLoadConfig \/ ResolveTelemetry \/ CheckEvidence
    \/ CheckProfile \/ CheckFiles \/ CheckBuild \/ ChooseRecords \/ Prepare
    \/ RunGuest \/ CheckMarkers \/ NormalizeRecords \/ CheckReport
    \/ CheckRecordCount \/ CheckProfileWork \/ CheckOracles
    \/ CheckCompositeWork \/ CheckHostTelemetry \/ GiveStatus
    \/ CollectValidation \/ Finish

GatesSpec == GatesInit /\ [][GatesNext]_gateVars

-----------------------------------------------------------------------------
(* What the command line asks for that no guest can satisfy: the list of   *)
(* gated suites is shorter than the guest's, the pinned frames of cpu-tb   *)
(* are two of its three tests, a gated profile may be run without the      *)
(* switch that registers it, the names of a scene narrow its mask in the   *)
(* guest only, the official smoke test has no measurement markers, a       *)
(* record count may be given that no catalog contradicts, a record may     *)
(* have no frame, and an oracle may be another job's, image's or scale's.  *)
Contradictory ==
    \/ Full /\ ~req.xemuOnly /\ req.catalog
    \/ Profiled /\ req.profile = "cpu-tb"
    \/ ~Full /\ ~req.xemuOnly /\ \E t \in Range(Image) :
          Covers(tests, t) /\ t.suite \in XemuOnlySuites
    \/ ConfigRefused
    \/ \E t \in Range(Image) : Chosen(t) /\ ChildMask(t) # GuestStages(t)
    \/ ~Perf /\ level # "off"
    \/ req.expected # 0 /\ ~req.catalog /\ req.expected # Len(records)
    \/ \E i \in DOMAIN records : records[i].frame = None
    \/ req.manifest \notin
          {<< >>, << [backend |-> req.backend, scale |-> req.scale,
                      multiplier |-> req.multiplier] >>}
    \/ req.manifest # << >> /\ GuestImage # "this"

(* No two gates contradict each other: a guest and a build that do what    *)
(* the command line says pass every gate main() puts before PASSED for one *)
(* run by itself, from the parser to the last look at the counters, and so *)
(* do the ledger and the oracle that honest runs of the same job left, on  *)
(* every admitted command line save the contradictions above (lines 4137   *)
(* to 4667; the watcher and the captures, 4415 to 4515, are SuiteRunner's).*)
HonestGuestPasses ==
    gate = "exited" /\ Honest /\ ~Contradictory => status = "PASSED"

(* Where the runner pins the amount of work, by a record contract, by      *)
(* counters of xemu or by an output contract, a PASSED run did that amount *)
(* with the requested multiplier, also when an old image leaves out the    *)
(* fields that normalize_perf_records fills in from the request.           *)
WorkIsPinned ==
    \/ Profiled /\ req.profile \in DOMAIN PROFILE_RECORD_CONTRACTS
                                  \cup DOMAIN PROFILE_MULTI_RECORD_CONTRACTS
    \/ Profiled /\ level # "off" /\
          LET c == ExpectedCounters(req.profile, req.backend, req.features, 1)
          IN  \E n \in DOMAIN c : c[n] > 0
    \/ req.outputOnly

PassedDidTheWork ==
    status = "PASSED" /\ WorkIsPinned => Used = req.multiplier

(* A PASSED run of a profile that measures one of two paths of xemu took   *)
(* the path its experiment role enables (lines 2658 to 3252): a baseline   *)
(* build is never taken for a candidate, nor the other way round.          *)
MeasuresAPath ==
    /\ Profiled /\ level # "off"
    /\ \/ req.profile \in {"surface-cpu-read-clean",
                            "surface-cpu-read-after-gpu-write"}
       \/ req.profile \in {"vertex-ram-reuse", BOOSTED} /\ req.backend = "vulkan"

PassedTookItsPath ==
    status = "PASSED" /\ MeasuresAPath => world.fault # "otherPath"

(* Whatever the shell or an earlier run left behind, xemu inherits no      *)
(* variable from before that steers it or the layers of its Vulkan loader; *)
(* none of this run's outlives it, whether it passed, failed or never      *)
(* launched; and what is none of its business is left alone (the filter of *)
(* line 1851, what lines 4380 to 4393 set and the list of 4697 to 4705).   *)
SteersXemu(n) ==
    IsPrefix("XEMU_", n) \/ n \in {"VK_INSTANCE_LAYERS", "VK_LAYER_PATH",
                                   "VK_LOADER_LAYERS_ENABLE",
                                   "VK_LOADER_LAYERS_DISABLE"}

ChildSeesOnlyThisRun ==
    /\ gate = "guest" => \A n \in DOMAIN env : env[n] = "before" => ~SteersXemu(n)
    /\ gate \in {"rejected", "exited"} => \A n \in DOMAIN env : env[n] = "before"
    /\ \A n \in world.shell : ~SteersXemu(n) => n \in DOMAIN env /\ env[n] = "before"

(* Timing that may not be claimed is never published as a benchmark under  *)
(* the ordinary warning: not of a dirty build, with lab counters, without  *)
(* live markers, or, as the help of --host-gdb-samples has it ("pauses xemu*)
(* and must not be used for timing", line 3994), with stack samples.  The  *)
(* code (write_summary, lines 3712 to 3729) does not label the last.       *)
IneligibleTimingIsLabelled ==
    status = "PASSED" /\ gate = "exited"
    /\ (DirtyBuild \/ req.lab \/ Waived \/ req.gdb) =>
       summary.warning \notin {"triage", "none"}

-----------------------------------------------------------------------------
(* What ChildSeesOnlyThisRun rests on.  Until the environment is cleared   *)
(* all of it is from before; then nothing from before steers xemu; what is *)
(* not from before is what this command line asked for, with names of its  *)
(* own or names the runner owns; and a stranger's name stays throughout.   *)
ASSUME RunnerOwnsItsNames ==
    \A n \in {"XEMU_PERF_TELEMETRY_PATH", "XEMU_PERF_TELEMETRY_LEVEL",
              "XEMU_PERF_GUEST_MARKERS", "XEMU_PERF_LIVE_MARKER_PATH",
              "XEMU_LAB_PERFLOG"} : IsPrefix("XEMU_", n)

Arguments == {"parse", "scene", "telemetry"}
Uncleared == Arguments \cup {"evidence", "profile", "files", "build"}
Cleared == {"select", "launch"}
Launched == {"guest", "markers", "normalize", "report", "count", "profileWork",
             "oracles", "composite", "counters", "verdict", "validation",
             "cleanup"}
Stopped == {"rejected", "exited"}

SetByThisRun == {n \in DOMAIN env : env[n] # "before"}

EnvironmentIsOwn ==
    /\ gate \in Uncleared \cup Cleared \cup Launched \cup Stopped
    /\ gate \notin Launched => SetByThisRun = {}
    /\ gate \in Launched => SetByThisRun \subseteq DOMAIN Variables
    /\ gate \in Cleared \cup Launched =>
          \A n \in DOMAIN env : env[n] = "before" => ~SteersXemu(n)
    /\ gate \notin Arguments \cup {"rejected"} => EnvironmentAccepted

StrangersStay ==
    \A n \in world.shell : ~SteersXemu(n) => n \in DOMAIN env /\ env[n] = "before"

RunInv == EnvironmentIsOwn /\ StrangersStay
=============================================================================
