--------------------------- MODULE HostProfiles ---------------------------
(***************************************************************************)
(* The tables of the host suite runner (run-suite-pr76.py): the tests each *)
(* profile selects, and what the runner pins about a profile: the counters *)
(* of xemu, the frames, the work.  "Suite::*" selects a whole suite.       *)
(***************************************************************************)
EXTENDS Naturals, Sequences, TLC

None == "none"
BOOSTED == "boosted-vertex-stack"
SharedPage == "Vertex buffer allocation::XemuVertexRamDisjointSamePage"
BoostedDisplay == "GameLoadComposite::12-RepeatedDisplay-Boosted"
Lookup(table, key, default) ==
    IF key \in DOMAIN table THEN table[key] ELSE default

QueueAndCpuProfiles ==
    "busy-pfifo" :> {"BusyPfifo::PFIFOSaturation"} @@
    "pfifo-packet-boundary" :>
       {"PFIFOPacketBoundary::pfifo.boundary-array-element16",
        "PFIFOPacketBoundary::pfifo.boundary-array-element32",
        "PFIFOPacketBoundary::pfifo.boundary-inline-array",
        "PFIFOPacketBoundary::pfifo.incrementing-inline-fallback"} @@
    "pfifo-array-elements" :>
       {"PFIFOArrayElements::pfifo.array-element16",
        "PFIFOArrayElements::pfifo.array-element32",
        "PFIFOArrayElements::pfifo.array-element-pgr2"} @@
    "pfifo-array-elements-long" :>
       {"PFIFOArrayElements::pfifo.array-element16",
        "PFIFOArrayElements::pfifo.array-element32"} @@
    "pgraph-pattern-poll" :> {"BusyPfifo::PgraphPatternPolling"} @@
    "cpu-fp-x87" :> {"CpuFloatingPoint::X87Scalar"} @@
    "cpu-fp-sse" :> {"CpuFloatingPoint::SSEScalar"} @@
    "cpu-tb" :> {"CpuTranslationBlocks::*"} @@
    "cpu-tb-direct" :> {"CpuTranslationBlocks::DirectLoop"} @@
    "cpu-tb-indirect" :> {"CpuTranslationBlocks::IndirectDispatch"} @@
    "cpu-tb-indirect-stress" :> {"CpuTranslationBlocks::IndirectDispatchStress"}

DrawAndSurfaceProfiles ==
    "fill-rate" :> {"FillRate::*"} @@
    "high-vertex" :> {"High vertex count::*"} @@
    "high-vertex-arrays" :> {"High vertex count::HighVtxCount-arrays"} @@
    "high-vertex-inlinebuffers" :>
       {"High vertex count::HighVtxCount-inlinebuffers"} @@
    "primitive-type" :> {"PrimitiveType::*"} @@
    "surface-to-texture" :> {"SurfaceRendering::SurfaceRendering"} @@
    "surface-download" :> {"SurfaceRendering::XemuSurfaceDownloadPath"} @@
    "surface-cpu-read-clean" :> {"SurfaceRendering::XemuCpuReadCleanSurface"} @@
    "surface-cpu-read-after-gpu-write" :>
       {"SurfaceRendering::XemuCpuReadAfterGpuWrite"} @@
    "surface-overlap-representative" :>
       {"SurfaceRendering::XemuOverlappingSurfaceChurnRepresentative"} @@
    "surface-overlap-stress" :>
       {"SurfaceRendering::XemuOverlappingSurfaceChurnStress"} @@
    "surface-full-clear-guard" :>
       {"SurfaceRendering::XemuFullClearElisionGuard"} @@
    "surface-partial-channel-guard" :>
       {"SurfaceRendering::XemuPartialChannelClearGuard"} @@
    "surface-list-002" :> {"SurfaceRendering::XemuSurfaceListLookup002"} @@
    "surface-list-008" :> {"SurfaceRendering::XemuSurfaceListLookup008"} @@
    "surface-list-032" :> {"SurfaceRendering::XemuSurfaceListLookup032"} @@
    "surface-list-128" :> {"SurfaceRendering::XemuSurfaceListLookup128"} @@
    "framebuffer-working-set-002" :>
       {"SurfaceRendering::XemuFramebufferWorkingSet002"} @@
    "framebuffer-working-set-008" :>
       {"SurfaceRendering::XemuFramebufferWorkingSet008"} @@
    "framebuffer-working-set-032" :>
       {"SurfaceRendering::XemuFramebufferWorkingSet032"} @@
    "framebuffer-working-set-064" :>
       {"SurfaceRendering::XemuFramebufferWorkingSet064"} @@
    "uniform-thrash" :> {"UniformThrash::UniformThrash"} @@
    "tiny-draw" :> {"TinyDraw::*"} @@
    "tiny-draw-arrays-vsh" :> {"TinyDraw::TinyDraw-arrays-vsh"} @@
    "tiny-draw-inlinearrays-vsh" :> {"TinyDraw::TinyDraw-inlinearrays-vsh"}

VertexAndGameProfiles ==
    "vertex-buffer-allocation" :> {"Vertex buffer allocation::*"} @@
    "vertex-ram-reuse" :> {SharedPage} @@
    "pgr2-vertex-two-ranges-one-page" :>
       {"Vertex buffer allocation::XemuPgr2VertexTwoRangesOneDirtyPage"} @@
    "pgr2-rapid-scanout-transition" :>
       {"GameLoadComposite::13-Pgr2RapidScanoutTransition"} @@
    "pgr2-rapid-scanout-transition-4x" :>
       {"GameLoadComposite::13-Pgr2RapidScanoutTransition"} @@
    "morrowind-pvideo-cutscene" :>
       {"GameLoadComposite::14-MorrowindMovingPvideoCutscene"} @@
    "morrowind-pvideo-cutscene-4x" :>
       {"GameLoadComposite::14-MorrowindMovingPvideoCutscene"} @@
    "morrowind-textured-cutscene" :>
       {"GameLoadComposite::15-MorrowindMovingTexturedCutscene"} @@
    "morrowind-textured-cutscene-4x" :>
       {"GameLoadComposite::15-MorrowindMovingTexturedCutscene"} @@
    BOOSTED :> {BoostedDisplay, SharedPage} @@
    "vertex-ram-after-inlinearrays" :>
       {"Vertex buffer allocation::MixedVtxAlloc-inlinearrays", SharedPage} @@
    "p0" :> {"BusyPfifo::PFIFOSaturation",
             "SurfaceRendering::XemuSurfaceDownloadPath",
             "TinyDraw::*", "UniformThrash::UniformThrash"} @@
    "baseline" :>
       {s \o "::*" : s \in
          {"BusyPfifo", "CpuFloatingPoint", "CpuTranslationBlocks", "FillRate",
           "GameLoadComposite", "High vertex count", "PrimitiveType",
           "SurfaceRendering", "TinyDraw", "UniformThrash",
           "Vertex buffer allocation"}}

Profiles == QueueAndCpuProfiles @@ DrawAndSurfaceProfiles @@
            VertexAndGameProfiles

-----------------------------------------------------------------------------
(* HOST_TELEMETRY_ASSERTIONS, for a multiplier of one                      *)
CpuAccess(reads, dirty) ==
    "SURF_CPU_ACCESS_CALLBACK" :> reads @@ "SURF_CPU_ACCESS_READ" :> reads @@
    "SURF_CPU_ACCESS_WRITE" :> 0 @@ "SURF_CPU_ACCESS_SURFACE_CHECK" :> reads @@
    "SURF_CPU_ACCESS_SURFACE_MATCH" :> reads @@ "SURF_CPU_ACCESS_DIRTY" :> dirty

Churn(k) ==
    "CLEAR" :> 400 * k @@ "SURF_DOWNLOAD_INCOMPATIBLE_REPLACEMENT" :> 200 * k @@
    "SURF_DOWNLOAD_OVERLAP_EVICTION" :> 200 * k @@
    "SURF_EVICT_FULL_CLEAR" :> 100 * k @@ "SURF_UPLOAD_FULL_CLEAR" :> 400 * k

ClearGuard ==
    "CLEAR" :> 200 @@ "SURF_DOWNLOAD" :> 200 @@
    "SURF_DOWNLOAD_INCOMPATIBLE_REPLACEMENT" :> 200 @@
    "SURF_EVICT_COVERED" :> 100 @@ "SURF_EVICT_FULL_CLEAR" :> 0 @@
    "SURF_EVICT_PARTIAL" :> 100 @@ "SURF_UPLOAD_FULL_CLEAR" :> 100

SurfaceCounters ==
    "surface-cpu-read-clean" :> CpuAccess(409600, 0) @@
    "surface-cpu-read-after-gpu-write" :>
       ("SURF_DOWNLOAD" :> 20 @@ CpuAccess(20480, 20)) @@
    "surface-download" :> ("SURF_DOWNLOAD" :> 800) @@
    "surface-overlap-representative" :> Churn(1) @@
    "surface-overlap-stress" :> Churn(2) @@
    "surface-full-clear-guard" :> ClearGuard @@
    "surface-partial-channel-guard" :> ClearGuard

\* Logical bytes of SURF_DOWNLOAD; as many are transferred.
SurfaceBytes == "surface-cpu-read-after-gpu-write" :> 81920 @@
                "surface-download" :> 52428800

Passes == "CLEAR" :> 1280 @@ "PIPELINE_BIND" :> 1280 @@
          "PIPELINE_RENDERPASSES" :> 1280 @@ "FRAMEBUFFER_REQUEST" :> 1280
Lookups(entries) == Passes @@ "SURF_LOOKUP_EXACT" :> 1280 @@
                    "SURF_LOOKUP_EXACT_ENTRIES" :> entries

ListAndVertexCounters ==
    "surface-list-002" :> Lookups(1920) @@ "surface-list-008" :> Lookups(5760) @@
    "surface-list-032" :> Lookups(21120) @@
    "surface-list-128" :> Lookups(82560) @@
    "framebuffer-working-set-002" :> Passes @@
    "framebuffer-working-set-008" :> Passes @@
    "framebuffer-working-set-032" :> Passes @@
    "framebuffer-working-set-064" :> Passes @@
    "vertex-ram-reuse" :>
       ("DRAW_ARRAYS" :> 10240 @@ "VERTEX_RAM_SYNC_REQUEST" :> 20480 @@
        "FINISH_NEED_BUFFER_SPACE" :> 0 @@ "FINISH_FLUSH" :> 10)

HOST_TELEMETRY_ASSERTIONS == SurfaceCounters @@ ListAndVertexCounters

-----------------------------------------------------------------------------
(* The frames a profile pins: all records it may emit, with their hash     *)
One(profile, hash) == (CHOOSE t \in Profiles[profile] : TRUE) :> hash
Pin(profile, hash) == profile :> One(profile, hash)

PROFILE_CORRECTNESS_HASHES ==
    Pin("pgraph-pattern-poll", "386d0f085e98c325") @@
    Pin("cpu-fp-x87", "6962077c244da325") @@
    Pin("cpu-fp-sse", "6962077c244da325") @@
    "cpu-tb" :> ("CpuTranslationBlocks::DirectLoop" :> "bd1fc9bf0c318325" @@
                 "CpuTranslationBlocks::IndirectDispatch" :>
                    "c0426cf669a02325") @@
    Pin("cpu-tb-direct", "bd1fc9bf0c318325") @@
    Pin("cpu-tb-indirect", "c0426cf669a02325") @@
    Pin("cpu-tb-indirect-stress", "fbd507cb0c622325") @@
    Pin("busy-pfifo", "1508607624bb8506") @@
    Pin("high-vertex-inlinebuffers", "a27c67890c2d9083") @@
    Pin("surface-to-texture", "42459952797c47fa") @@
    Pin("surface-download", "64a30332bf7ebd84") @@
    Pin("uniform-thrash", "09eb5907ef624c25") @@
    Pin("tiny-draw-arrays-vsh", "acf025546cf667b5") @@
    Pin("tiny-draw-inlinearrays-vsh", "acf025546cf667b5") @@
    Pin("surface-cpu-read-clean", "fb905938a70d2325") @@
    Pin("surface-cpu-read-after-gpu-write", "7f41f02dc2a96325") @@
    Pin("surface-overlap-representative", "6f4b1c962fd7a325") @@
    Pin("surface-overlap-stress", "6f4b1c962fd7a325") @@
    Pin("surface-full-clear-guard", "0fb44e8c33a6e325") @@
    Pin("surface-partial-channel-guard", "40666238279fc325") @@
    Pin("surface-list-002", "fa475bc695046525") @@
    Pin("surface-list-008", "477aabc5cec335a5") @@
    Pin("surface-list-032", "fad9c32ebfd34125") @@
    Pin("surface-list-128", "fad9c32ebfd34125") @@
    Pin("framebuffer-working-set-002", "fa475bc695046525") @@
    Pin("framebuffer-working-set-008", "784f1cfba4b12d25") @@
    Pin("framebuffer-working-set-032", "a47268657a2de925") @@
    Pin("framebuffer-working-set-064", "a47268657a2de925") @@
    Pin("vertex-ram-reuse", "fdcd25a37910bb25") @@
    Pin("pgr2-vertex-two-ranges-one-page", "542cb51ab5730485") @@
    Pin("pgr2-rapid-scanout-transition", "77d4e0482a1aa325") @@
    Pin("pgr2-rapid-scanout-transition-4x", "853df802e501a325") @@
    Pin("morrowind-pvideo-cutscene", "a05a4cbd63350325") @@
    Pin("morrowind-pvideo-cutscene-4x", "a05a4cbd63350325") @@
    Pin("morrowind-textured-cutscene", "058fdf8e96a905e9")

PROFILE_BACKEND_CORRECTNESS_HASHES ==
    <<"morrowind-textured-cutscene-4x", "vulkan">> :>
       One("morrowind-textured-cutscene-4x", "bda631c633302166") @@
    <<"morrowind-textured-cutscene-4x", "opengl">> :>
       One("morrowind-textured-cutscene-4x", "895f94315ce5bdd4")

HELD_FRAME_SUPPORTED_SELECTIONS ==
    {"GameLoadComposite::09-CrossTitleHotpath",
     "GameLoadComposite::13-Pgr2RapidScanoutTransition",
     "GameLoadComposite::14-MorrowindMovingPvideoCutscene",
     "GameLoadComposite::15-MorrowindMovingTexturedCutscene",
     "pgr2-rapid-scanout-transition", "pgr2-rapid-scanout-transition-4x",
     "morrowind-pvideo-cutscene", "morrowind-pvideo-cutscene-4x",
     "morrowind-textured-cutscene", "morrowind-textured-cutscene-4x"}

-----------------------------------------------------------------------------
(* Fixed work: iterations and as many samples, and the least total in us   *)
Work(n, least) == [iterations |-> n, samples |-> n, minimum |-> least]

PROFILE_RECORD_CONTRACTS ==
    [p \in {"cpu-fp-x87", "cpu-fp-sse", "cpu-tb-indirect-stress"} |->
        Work(10, 15000000)] @@
    [p \in {"cpu-tb-direct", "cpu-tb-indirect", "uniform-thrash",
            "tiny-draw-arrays-vsh", "tiny-draw-inlinearrays-vsh",
            "vertex-ram-reuse"} |-> Work(10, 0)] @@
    [p \in {"pgr2-vertex-two-ranges-one-page", "morrowind-pvideo-cutscene",
            "morrowind-pvideo-cutscene-4x", "morrowind-textured-cutscene",
            "morrowind-textured-cutscene-4x"} |-> Work(120, 1000000)] @@
    [p \in {"pgr2-rapid-scanout-transition",
            "pgr2-rapid-scanout-transition-4x"} |-> Work(120, 3000000)] @@
    "pgraph-pattern-poll" :> Work(1, 15000000)

PROFILE_REQUIRED_SCALES ==
    [p \in {"pgr2-rapid-scanout-transition", "morrowind-pvideo-cutscene",
            "morrowind-textured-cutscene"} |-> 1] @@
    [p \in {"pgr2-rapid-scanout-transition-4x", "morrowind-pvideo-cutscene-4x",
            "morrowind-textured-cutscene-4x"} |-> 4]

\* An ordered pair of records; None: any hash will do.
PROFILE_MULTI_RECORD_CONTRACTS ==
    "vertex-ram-after-inlinearrays" :>
       << [name |-> "Vertex buffer allocation::MixedVtxAlloc-inlinearrays",
           iterations |-> 10, frame |-> "c4675a9e2c6a72f5"],
          [name |-> SharedPage, iterations |-> 10,
           frame |-> "fdcd25a37910bb25"] >> @@
    BOOSTED :>
       << [name |-> BoostedDisplay, iterations |-> 8, frame |-> None],
          [name |-> SharedPage, iterations |-> 10,
           frame |-> "fdcd25a37910bb25"] >>
=============================================================================
