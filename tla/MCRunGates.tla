---------------------------- MODULE MCRunGates ----------------------------
(***************************************************************************)
(* Command lines: every profile with either backend, with and without      *)
(* telemetry; the default command line with any two options changed; the   *)
(* profiles with the most gates with every role and measured level.  An    *)
(* image with the tests the profiles name, a staged scene, one test of     *)
(* every suite that needs xemu, and one preset workload.                   *)
(***************************************************************************)
EXTENDS RunGates

Test(suite, name) ==
    [suite |-> suite, name |-> suite \o "::" \o name, stages |-> {},
     preset |-> FALSE,
     iterations |-> IF name = "12-RepeatedDisplay-Boosted" THEN 8
                    ELSE IF name = "PgraphPatternPolling" THEN 1
                    ELSE IF name \in {"XemuPgr2VertexTwoRangesOneDirtyPage",
                                      "13-Pgr2RapidScanoutTransition",
                                      "14-MorrowindMovingPvideoCutscene",
                                      "15-MorrowindMovingTexturedCutscene"}
                    THEN 120 ELSE 10]
Scene(name) == [Test("GameLoadComposite", name) EXCEPT !.stages = {1, 2}]
Preset == [Test("GameLoadComposite", "DoaxMenuStress-03-GPUOnly") EXCEPT
              !.preset = TRUE]
Tests(suite, names) == [i \in DOMAIN names |-> Test(suite, names[i])]

Surfaces == Tests("SurfaceRendering",
    <<"SurfaceRendering", "XemuCpuReadAfterGpuWrite", "XemuCpuReadCleanSurface",
      "XemuFramebufferWorkingSet002", "XemuFramebufferWorkingSet008",
      "XemuFramebufferWorkingSet032", "XemuFramebufferWorkingSet064",
      "XemuFullClearElisionGuard", "XemuOverlappingSurfaceChurnRepresentative",
      "XemuOverlappingSurfaceChurnStress", "XemuPartialChannelClearGuard",
      "XemuSurfaceDownloadPath", "XemuSurfaceListLookup002",
      "XemuSurfaceListLookup008", "XemuSurfaceListLookup032",
      "XemuSurfaceListLookup128">>)

MCImage ==
    Tests("BusyPfifo", <<"PFIFOSaturation", "PgraphPatternPolling">>) \o
    Tests("CpuFloatingPoint", <<"SSEScalar", "X87Scalar">>) \o
    Tests("CpuTranslationBlocks",
          <<"DirectLoop", "IndirectDispatch", "IndirectDispatchStress">>) \o
    Tests("FillRate", <<"FillRate">>) \o
    <<Scene("08-LongUnlockedScene"), Scene("09-CrossTitleHotpath"),
      Scene("10-S3tcSyncFactor")>> \o
    Tests("GameLoadComposite",
          <<"12-RepeatedDisplay-Boosted", "13-Pgr2RapidScanoutTransition",
            "14-MorrowindMovingPvideoCutscene",
            "15-MorrowindMovingTexturedCutscene">>) \o <<Preset>> \o
    Tests("High vertex count",
          <<"HighVtxCount-arrays", "HighVtxCount-inlinebuffers">>) \o
    Tests("PFIFOArrayElements",
          <<"pfifo.array-element-pgr2", "pfifo.array-element16",
            "pfifo.array-element32">>) \o
    Tests("McpxVoice", <<"MonoAligned">>) \o
    Tests("PFIFOPacketBoundary",
          <<"pfifo.boundary-array-element16", "pfifo.boundary-array-element32",
            "pfifo.boundary-inline-array", "pfifo.incrementing-inline-fallback">>) \o
    Tests("Pvideo", <<"SteadyUpload">>) \o
    Tests("ShaderLifecycle", <<"readiness.train-visible">>) \o
    Tests("TextureCubemapFallback", <<"UnborderedSubblockDxt1">>) \o
    Tests("PrimitiveType", <<"PrimitiveType">>) \o Surfaces \o
    Tests("TinyDraw", <<"TinyDraw-arrays-vsh", "TinyDraw-inlinearrays-vsh">>) \o
    Tests("UniformThrash", <<"UniformThrash">>) \o
    Tests("Vertex buffer allocation",
          <<"MixedVtxAlloc-inlinearrays", "XemuPgr2VertexTwoRangesOneDirtyPage",
            "XemuVertexRamDisjointSamePage">>)

\* The frames of an image: those the single profiles of a scale pin; the
\* others differ from scale to scale and from backend to backend.
Pinning(scale) ==
    {p \in DOMAIN Profiles : /\ Cardinality(Profiles[p]) = 1
                             /\ Lookup(PROFILE_REQUIRED_SCALES, p, 1) = scale}
FrameTable ==
    [k \in {1, 4} \X {"vulkan", "opengl"} |->
        LET pins == UNION {LET f == PinnedFrames(p, k[2])
                           IN  {<<n, f[n]>> : n \in DOMAIN f} : p \in Pinning(k[1])}
        IN  [n \in {x[1] : x \in pins} |-> (CHOOSE x \in pins : x[1] = n)[2]]]
MCFrameOf ==
    [k \in (UNION {RecordNames(t, t.stages) : t \in Range(MCImage)})
           \X (1..4) \X {"vulkan", "opengl"} |->
        IF k[1] = "Vertex buffer allocation::MixedVtxAlloc-inlinearrays"
        THEN "c4675a9e2c6a72f5"
        ELSE Lookup(FrameTable[<<IF k[2] = 4 THEN 4 ELSE 1, k[3]>>], k[1],
                    k[3] \o ToString(k[2]))]

Default ==
    [mode |-> "perf", select |-> "profile", profile |-> "surface-download",
     test |-> None, backend |-> "vulkan", scale |-> 1, multiplier |-> 1,
     completion |-> "per_iteration", warmup |-> 5, telemetry |-> "unset",
     role |-> "single", features |-> {}, roleTelemetry |-> "unset",
     gdb |-> FALSE, outputOnly |-> FALSE, contract |-> << >>, waiver |-> FALSE,
     hold |-> FALSE, reference |-> FALSE, capture |-> FALSE, lab |-> FALSE,
     validation |-> FALSE, allowDirty |-> FALSE, xemuOnly |-> FALSE,
     trace |-> FALSE, expected |-> 0, catalog |-> TRUE, config |-> << >>,
     environment |-> {}, ledger |-> "empty", manifest |-> << >>]

Profile(p) == [Default EXCEPT !.profile = p,
                              !.scale = Lookup(PROFILE_REQUIRED_SCALES, p, 1)]
Single(test) == [Default EXCEPT !.select = "test", !.test = test]

Contract(m, scale) ==
    << [test |-> "CpuFloatingPoint::X87Scalar", backend |-> "vulkan",
        scale |-> scale,
        workload |-> [multiplier |-> m, warmup |-> 5, completion |-> "per_iteration",
                      leastMeasured |-> 15000000, leastWarmup |-> 5000000],
        records |-> << [name |-> "CpuFloatingPoint::X87Scalar",
                        iterations |-> 10 * m, samples |-> 10,
                        frame |-> "6962077c244da325",
                        metadata |-> "CpuFloatingPoint::X87Scalar"] >>] >>

Oracle(backend, scale, m) ==
    << [backend |-> backend, scale |-> scale, multiplier |-> m] >>

Alternatives ==
    [mode |-> {"official-smoke"}, backend |-> {"opengl"}, scale |-> {2},
     multiplier |-> {2}, completion |-> {"enqueue"},
     telemetry |-> {"counters", "timed"}, roleTelemetry |-> {"counters"},
     gdb |-> {TRUE}, outputOnly |-> {TRUE}, contract |-> {Contract(1, 1)},
     waiver |-> {TRUE}, hold |-> {TRUE}, reference |-> {TRUE},
     capture |-> {TRUE}, lab |-> {TRUE}, validation |-> {TRUE},
     allowDirty |-> {TRUE}, xemuOnly |-> {TRUE}, trace |-> {TRUE},
     expected |-> {1, 2}, catalog |-> {FALSE},
     environment |-> {{"XEMU_EXPERIMENT"}, {"XEMU_PERF_TELEMETRY_LEVEL"},
                      {"LD_PRELOAD"}},
     ledger |-> {"none", "taught"},
     manifest |-> {Oracle("vulkan", 1, 1), Oracle("vulkan", 1, 2),
                   Oracle("vulkan", 2, 1), Oracle("opengl", 1, 1)}]
Options == UNION {{[r \in {f} |-> v] : v \in Alternatives[f]} : f \in DOMAIN Alternatives}

TwoOptions(r) == {o @@ q @@ r : o, q \in Options}
OneOption(r) == {o @@ r : o \in Options}

Held == [Profile("morrowind-textured-cutscene") EXCEPT !.hold = TRUE]
OutputOnly == {[Single("CpuFloatingPoint::X87Scalar") EXCEPT
                   !.outputOnly = TRUE, !.multiplier = m, !.contract = Contract(m, 1)]
               : m \in {1, 2}}
Boundary == [Profile("pfifo-packet-boundary") EXCEPT !.xemuOnly = TRUE]
FullSuite == [Default EXCEPT !.select = "full"]

Masks == {Absent, {}, {1}, {1, 2}}
Scenes == {[(IF full THEN FullSuite ELSE Single(SceneTest[s]))
               EXCEPT !.config = <<[scene |-> s, mask |-> k, stages |-> n]>>,
                      !.xemuOnly = full] :
           s \in DOMAIN SceneTest, k \in Masks, n \in Masks, full \in BOOLEAN}

\* The gated paths: every role, feature, level, backend and amount of work.
Measured ==
    {[Profile(p) EXCEPT !.role = r, !.features = f, !.telemetry = t,
                        !.backend = b, !.multiplier = m] :
     p \in {"vertex-ram-reuse", BOOSTED, "surface-cpu-read-clean",
            "surface-cpu-read-after-gpu-write"},
     r \in {"baseline", "candidate"}, t \in {"counters", "timed"},
     f \in SUBSET {"vertex_ram_snapshots", "selective_surface_read_watch"},
     b \in {"vulkan", "opengl"}, m \in {1, 2}}

Lines ==
    {[Profile(p) EXCEPT !.backend = b, !.telemetry = t, !.multiplier = m] :
        p \in DOMAIN Profiles, b \in {"vulkan", "opengl"},
        t \in {"off", "timed"}, m \in {1, 2}}
    \cup {Single(t) : t \in {BoostedDisplay, SharedPage, "Pvideo::SteadyUpload"}}
    \cup OneOption(Single(Preset.name))
    \cup TwoOptions(Default) \cup Scenes \cup Measured
    \cup OneOption(Held) \cup UNION {OneOption(r) : r \in OutputOnly}
    \cup OneOption(Boundary) \cup OneOption(FullSuite)
    \cup OneOption([Profile(BOOSTED) EXCEPT !.role = "candidate",
                       !.telemetry = "counters", !.features = {"vertex_ram_snapshots"}])

Faulty ==
    {r \in Measured : r.telemetry = "timed" /\ r.multiplier = 1} \cup OutputOnly \cup {Held} \cup OneOption(Default)
    \cup {[Profile(p) EXCEPT !.telemetry = "counters"] :
             p \in DOMAIN HOST_TELEMETRY_ASSERTIONS}
    \cup {Profile(p) : p \in DOMAIN PROFILE_RECORD_CONTRACTS}
    \cup {Profile("vertex-ram-after-inlinearrays"),
          [Default EXCEPT !.waiver = TRUE, !.lab = TRUE],
          [Default EXCEPT !.ledger = "taught", !.telemetry = "timed",
                          !.manifest = Oracle("vulkan", 1, 1)],
          [Single(Preset.name) EXCEPT !.telemetry = "counters"],
          [Default EXCEPT !.allowDirty = TRUE, !.lab = TRUE]}

\* Names that are no business of the runner, and what it may find set: by
\* runs that were killed, by hand, or for another tool.
Strangers == {"PATH", "VK_ADD_LAYER_PATH", "VULKAN_SDK"}
Stale == {"XEMU_LAB_PERFLOG", "XEMU_PERF_TELEMETRY_LEVEL", "XEMU_EXPERIMENT",
          "VK_LAYER_PATH", "VK_LOADER_LAYERS_ENABLE"}

World(fault) == [fault |-> fault, spread |-> "low", multiplier |-> 2,
                 silent |-> FALSE,
                 shell |-> Strangers \cup (IF fault = "stale" THEN Stale ELSE {})]
OtherWork(r) == [World("otherWork") EXCEPT !.multiplier = 3 - r.multiplier]
Faults == {"older", "stale", "dirty", "otherBuild", "otherPath", "short",
           "otherFrame", "missing", "failed", "lostWindow", "openWindow",
           "noMarkers", "otherTiming", "noTimestamps", "noFile", "noLabLog",
           "noLayer", "noXemu", "otherImage", "noSdk", "noGdb", "gdbError",
           "frameless", "twice", "compositeWork", "compositeCounters"}

MCRuns ==
    {<<r, [World("none") EXCEPT !.spread = s]>> : r \in Lines, s \in {"low", "high"}}
    \cup {<<r, World(f)>> : r \in Faulty, f \in Faults}
    \cup {<<r, [OtherWork(r) EXCEPT !.silent = s]>> : r \in Faulty, s \in BOOLEAN}
    \cup {<<r, [World("otherPath") EXCEPT !.spread = "high"]>> : r \in Measured \cap Faulty}
=============================================================================
