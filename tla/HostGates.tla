----------------------------- MODULE HostGates -----------------------------
(***************************************************************************)
(* The validators the host suite runner (run-suite-pr76.py) puts between a *)
(* guest's output and the word PASSED: the counters xemu wrote, the work   *)
(* and the frames of the records.  A validator that raises is FALSE, or    *)
(* names the class of what it raises.                                      *)
(*                                                                         *)
(* Counters are functions from names to numbers; an absent name, and a     *)
(* value that is not a count, both read as -1.                             *)
(***************************************************************************)
EXTENDS HostProfiles, Integers, SequencesExt

Count(c, name) == Lookup(c, name, -1)
AreCounts(c, names) == \A n \in names : Count(c, n) >= 0
Within(x, low, high) == low <= x /\ x <= high

-----------------------------------------------------------------------------
(* Repeated display: of the profiles with its prefix two have a shape.     *)
REPEATED_DISPLAY_PROFILE_PREFIX == "GameLoadComposite::12-RepeatedDisplay-"
DISPLAY_SHAPES ==
    [p \in {REPEATED_DISPLAY_PROFILE_PREFIX \o s : s \in {"Boosted", "Idle"}} |->
        IF p = BoostedDisplay THEN "Boosted" ELSE "Idle"]

DisplayGate(c, shape, role) ==
    /\ AreCounts(c, {"DISPLAY_COMPOSE_REQUESTS", "DISPLAY_COMPOSE_HITS",
                     "DISPLAY_COMPOSE_MISSES", "DISPLAY_COMPOSES",
                     "QUEUE_SUBMIT_5"})
    /\ c["DISPLAY_COMPOSE_REQUESTS"] =
          c["DISPLAY_COMPOSE_HITS"] + c["DISPLAY_COMPOSE_MISSES"]
    /\ c["DISPLAY_COMPOSES"] = c["DISPLAY_COMPOSE_MISSES"]
    /\ c["DISPLAY_COMPOSE_MISSES"] >= 2
    /\ c["QUEUE_SUBMIT_5"] > 0
    /\ shape = "Boosted" /\ role # "baseline" => c["DISPLAY_COMPOSE_HITS"] >= 1

-----------------------------------------------------------------------------
(* The two ways xemu keeps vertex RAM coherent.  F2: the window counts the *)
(* completions of the markers instead of one submission per iteration.     *)
VERTEX_SNAPSHOT_COUNTERS ==
    {"VERTEX_RAM_UPDATE_DEFERRED", "VERTEX_RAM_SNAPSHOT_DRAW",
     "VERTEX_RAM_SNAPSHOT_ATTRIBUTE", "VERTEX_RAM_SNAPSHOT_BYTES",
     "VERTEX_RAM_DEFERRED_COPY_BYTES",
     "VERTEX_RAM_SNAPSHOT_RETIRE_PERF_COMPLETE"}

MarkerCompletion(c, snapshots, m) ==
    /\ Within(Count(c, "FINISH_PERF_COMPLETE"),
              IF snapshots THEN 8 * m ELSE 0, 10 * m)
    /\ Count(c, "FINISH_FLUSH") = 0

SnapshotMarkers(c, m) ==
    LET f2 == Count(c, "FINISH_PERF_COMPLETE")
        submits == Count(c, "QUEUE_SUBMIT") IN
    /\ Within(Count(c, "VERTEX_RAM_SNAPSHOT_RETIRE_PERF_COMPLETE"), 8 * m, f2)
    /\ Within(submits, f2, 128 * m)
    /\ Count(c, "QUEUE_SUBMIT_5") > 0
    /\ Count(c, "PIPELINE_RENDERPASSES") = submits
    /\ Count(c, "VERTEX_RAM_SNAPSHOT_BYTES") > 0
    /\ Count(c, "VERTEX_RAM_DEFERRED_COPY_BYTES") > 0

SnapshotPath(c, m, f2) ==
    LET draws == Count(c, "VERTEX_RAM_SNAPSHOT_DRAW") IN
    /\ Count(c, "FINISH_VERTEX_BUFFER_DIRTY") = 0
    /\ draws >= 10000 * m
    /\ Count(c, "VERTEX_RAM_SNAPSHOT_ATTRIBUTE") = 2 * draws
    /\ Count(c, "VERTEX_RAM_UPDATE_DEFERRED") >= 5000 * m
    /\ IF f2 THEN SnapshotMarkers(c, m)
       ELSE /\ Count(c, "QUEUE_SUBMIT") = 10 * m
            /\ Count(c, "PIPELINE_RENDERPASSES") = 10 * m

DirtyPath(c, m, f2) ==
    LET dirty == Count(c, "FINISH_VERTEX_BUFFER_DIRTY")
        submits == Count(c, "QUEUE_SUBMIT") IN
    /\ dirty >= (IF f2 THEN 1500 ELSE 8000) * m
    /\ \A n \in VERTEX_SNAPSHOT_COUNTERS : Lookup(c, n, 0) = 0
    /\ AreCounts(c, {"QUEUE_SUBMIT", "PIPELINE_RENDERPASSES"})
    /\ f2 => /\ Within(submits, dirty, dirty + 64 * m)
             /\ Count(c, "PIPELINE_RENDERPASSES") = submits
             /\ Count(c, "QUEUE_SUBMIT_5") >= 0

VertexGate(c, snapshots, m, f2) ==
    /\ f2 => MarkerCompletion(c, snapshots, m)
    /\ IF snapshots THEN SnapshotPath(c, m, f2) ELSE DirtyPath(c, m, f2)

-----------------------------------------------------------------------------
(* The boosted stack: a window of stage 12 and a window of the vertex test *)
Stage12Gate(c, n) ==
    LET PerIteration(name, low, high) ==    \* in tenths
            Within(10 * Count(c, name), low * n, high * n) IN
    /\ AreCounts(c, {"SURF_DOWNLOAD", "SURF_TO_TEX", "TEX_UPLOAD",
                     "GEOM_BUFFER_UPDATE_2", "INLINE_ELEMENTS",
                     "FINISH_VERTEX_BUFFER_DIRTY", "QUEUE_SUBMIT",
                     "QUEUE_SUBMIT_5", "QUEUE_SUBMIT_AUX"})
    /\ PerIteration("SURF_DOWNLOAD", 68, 72)
    /\ PerIteration("SURF_TO_TEX", 20, 20)
    /\ PerIteration("TEX_UPLOAD", 10, 10)
    /\ PerIteration("QUEUE_SUBMIT", 20, 40)
    /\ c["INLINE_ELEMENTS"] > 0
    /\ Within(100 * c["GEOM_BUFFER_UPDATE_2"],
              80 * c["INLINE_ELEMENTS"], 88 * c["INLINE_ELEMENTS"])
    /\ c["FINISH_VERTEX_BUFFER_DIRTY"] = 0
    /\ Within(c["QUEUE_SUBMIT_AUX"] - c["QUEUE_SUBMIT_5"], 7 * n, 10 * n)

WindowsInOrder(windows) ==
    \A i \in DOMAIN windows :
       /\ windows[i].index = i - 1 /\ windows[i].start < windows[i].end
       /\ i > 1 => windows[i].start >= windows[i - 1].end

BoostedGate(t, backend, snapshots, m, role) ==
    /\ backend = "vulkan" /\ t.schema = 2
    /\ Len(t.windows) = 2 /\ t.completed = 2 /\ t.count = 2 /\ t.capacity >= 2
    /\ WindowsInOrder(t.windows)
    /\ LET display == t.windows[1].counters IN
       /\ Count(display, "FINISH_PERF_COMPLETE") = 8 * m
       /\ Count(display, "FINISH_FLUSH") = 0
       /\ Stage12Gate(display, 8 * m)
       /\ DisplayGate(display, "Boosted", role)
    /\ VertexGate(t.windows[2].counters, snapshots, m, TRUE)

-----------------------------------------------------------------------------
(* nv2a-perf.json                                                          *)
WindowsClosed(t) ==
    t.schema = 2 => /\ t.status = "ok" /\ ~t.overflowed /\ t.dropped = 0
                    /\ ~t.active /\ t.completed > 0 /\ t.errors = 0

ScaledBy(m, table) == [n \in DOMAIN table |-> m * table[n]]

ExpectedCounters(profile, backend, features, m) ==
    IF "selective_surface_read_watch" \in features
       /\ profile \in {"surface-cpu-read-clean", "surface-cpu-read-after-gpu-write"}
    THEN IF profile = "surface-cpu-read-clean" THEN CpuAccess(0, 0)
         ELSE "SURF_DOWNLOAD" :> 20 * m @@ CpuAccess(20 * m, 20 * m)
    ELSE IF backend = "opengl" /\ profile = "vertex-ram-reuse"
    THEN ScaledBy(m, "BEGIN_ENDS" :> 10240 @@ "DRAW_ARRAYS" :> 10240 @@
                     "ATTR_BIND" :> 20480)
    ELSE ScaledBy(m, Lookup(HOST_TELEMETRY_ASSERTIONS, profile, << >>))

\* (Bug: the bytes are expected of OpenGL, too.)
BytesOfBoth(profile, backend, m) == m * Lookup(SurfaceBytes, profile, 0)

\* Bytes of SURF_DOWNLOAD; 0 when nothing is expected of them.
ExpectedBytes(profile, backend, m) ==
    IF backend = "opengl" THEN 0 ELSE m * Lookup(SurfaceBytes, profile, 0)

CountersMatch(t, profile, backend, features, m) ==
    LET counters == ExpectedCounters(profile, backend, features, m)
        bytes == ExpectedBytes(profile, backend, m) IN
    /\ \A n \in DOMAIN counters : Count(t.counters, n) = counters[n]
    /\ bytes > 0 => Lookup(t.bytes, "SURF_DOWNLOAD", << >>) = <<bytes, bytes>>

\* The vertex uploads of OpenGL, of one or two pages each.
UploadGate(t, m) ==
    LET uploads == Lookup(t.counters, "GEOM_BUFFER_UPDATE_1", 0)
        bytes == Lookup(t.bytes, "GEOM_BUFFER_UPDATE_1", <<0, 0>>) IN
    /\ Within(uploads, 9000 * m, 10240 * m)
    /\ bytes[1] = bytes[2]
    /\ Within(bytes[2], uploads * 4096, uploads * 8192)

\* Timed Vulkan work has a duration on the GPU.
TimestampGate(t) ==
    (\E n \in {"DRAW_ARRAYS", "BEGIN_ENDS", "CLEAR", "QUEUE_SUBMIT"} :
        Lookup(t.counters, n, 0) # 0) => t.gpu > 0

\* (Bug: the features of the role do not reach the vertex gate.)
AnyPath(features) == FALSE

\* effective_features.get("vertex_ram_snapshots") is True
Snapshots(features) == "vertex_ram_snapshots" \in features

HostTelemetryGate(t, level, profile, backend, features, m, role) ==
    /\ t.schema \in {1, 2} /\ WindowsClosed(t)
    /\ t.timing = (level = "timed") /\ t.seen
    /\ backend = "vulkan" /\ IsPrefix(REPEATED_DISPLAY_PROFILE_PREFIX, profile) =>
          /\ profile \in DOMAIN DISPLAY_SHAPES
          /\ DisplayGate(t.counters, DISPLAY_SHAPES[profile], role)
    /\ CountersMatch(t, profile, backend, features, m)
    /\ backend = "opengl" /\ profile = "vertex-ram-reuse" => UploadGate(t, m)
    /\ backend = "vulkan" /\ profile = "vertex-ram-reuse" =>
          VertexGate(t.counters, Snapshots(features), m, FALSE)
    /\ backend = "vulkan" /\ profile = BOOSTED =>
          BoostedGate(t, backend, Snapshots(features), m, role)
    /\ backend = "vulkan" /\ level = "timed" => TimestampGate(t)

-----------------------------------------------------------------------------
(* Records: what an older guest omits is 0, -1 or None                     *)
Normalized(r, m, warmup, completion) ==
    [r EXCEPT !.samples = IF @ = 0 THEN r.raw ELSE @,
              !.multiplier = IF @ = 0 THEN m ELSE @,
              !.warmup = IF @ = -1 THEN warmup ELSE @,
              !.completion = IF @ = None THEN completion ELSE @]

\* (Bug: the multiplier the record states is believed.)
StatedFields(r, name, iterations, samples, m) ==
    /\ r.name = name /\ r.samples = samples
    /\ r.multiplier = m /\ r.raw = samples

WorkFields(r, name, iterations, samples, m) ==
    /\ r.name = name /\ r.iterations = iterations * m /\ r.samples = samples
    /\ r.multiplier = m /\ r.raw = samples

FixedWork(rs, profile, m) ==
    profile \in DOMAIN PROFILE_RECORD_CONTRACTS =>
       LET work == PROFILE_RECORD_CONTRACTS[profile] IN
       /\ Len(rs) = 1
       /\ Profiles[profile] = {rs[1].name}
       /\ WorkFields(rs[1], rs[1].name, work.iterations, work.samples, m)
       /\ rs[1].total >= work.minimum

\* The first record that is not as it should be decides.
MultiRecord(r, expected, m) ==
    IF ~WorkFields(r, expected.name, expected.iterations,
                   expected.iterations, m) \/ r.frame = None THEN "work"
    ELSE IF expected.frame \notin {None, r.frame} THEN "frame" ELSE "ok"

MultiWork(rs, profile, m) ==
    IF profile \notin DOMAIN PROFILE_MULTI_RECORD_CONTRACTS THEN "ok"
    ELSE LET contract == PROFILE_MULTI_RECORD_CONTRACTS[profile]
             wrong == {i \in DOMAIN contract :
                          MultiRecord(rs[i], contract[i], m) # "ok"} IN
         IF [i \in DOMAIN rs |-> rs[i].name] #
            [i \in DOMAIN contract |-> contract[i].name] THEN "work"
         ELSE IF wrong = {} THEN "ok"
         ELSE LET i == CHOOSE i \in wrong : \A j \in wrong : i <= j
              IN  MultiRecord(rs[i], contract[i], m)

PinnedFrames(profile, backend) ==
    Lookup(PROFILE_BACKEND_CORRECTNESS_HASHES, <<profile, backend>>,
           Lookup(PROFILE_CORRECTNESS_HASHES, profile, << >>))

FramesOf(rs) == [n \in {rs[i].name : i \in DOMAIN rs} |->
                    LET last == CHOOSE i \in DOMAIN rs :
                                   /\ rs[i].name = n
                                   /\ \A j \in DOMAIN rs : rs[j].name = n => j <= i
                    IN  rs[last].frame]

ProfileVerdict(rs, profile, m, backend) ==
    LET pinned == PinnedFrames(profile, backend) IN
    IF ~FixedWork(rs, profile, m) THEN "work"
    ELSE IF MultiWork(rs, profile, m) # "ok" THEN MultiWork(rs, profile, m)
    ELSE IF pinned # << >> /\ FramesOf(rs) # pinned THEN "frame" ELSE "ok"

-----------------------------------------------------------------------------
(* Output-only evidence: the records against a manifest pinned beforehand  *)
OutputRecord(r, expected, workload) ==
    /\ r.name = expected.name /\ r.iterations = expected.iterations
    /\ r.samples = expected.samples /\ r.frame = expected.frame
    /\ r.metadata = expected.metadata
    /\ r.multiplier = workload.multiplier /\ r.warmup = workload.warmup
    /\ r.completion = workload.completion
    /\ r.total > 0 /\ r.total >= workload.leastMeasured
    /\ r.total * workload.warmup >= workload.leastWarmup * r.iterations

OutputOnlyGate(rs, contract) ==
    /\ Len(rs) = Len(contract.records)
    /\ \A i \in DOMAIN rs : OutputRecord(rs[i], contract.records[i],
                                         contract.workload)
=============================================================================
