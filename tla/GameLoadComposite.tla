------------------------- MODULE GameLoadComposite -------------------------
(***************************************************************************)
(* The GameLoadComposite suite: the test thread, the loader thread that    *)
(* decodes into the streaming buffer the GPU is not using, and the GPU     *)
(* that clears surfaces behind them.                                       *)
(*                                                                         *)
(* The two threads share loader_job_, streaming_buffers_ and loader_stop_  *)
(* and synchronize with two auto-reset events.  Every job has a seed of    *)
(* its own (its number here), so a buffer's content and a checksum both    *)
(* are the seed of the job that produced them; 0 stands for what           *)
(* Initialize generates and Torn for a buffer in the middle of a decode.   *)
(* CPU, PFIFO and draw work that touches none of this is left out, and so  *)
(* is audio.                                                               *)
(***************************************************************************)
EXTENDS Integers

CONSTANTS
    MaxJobs,     \* bound: loader jobs
    MaxLives     \* bound: calls of Initialize

ASSUME GameLoadAssumption == MaxJobs \in Nat /\ MaxLives \in Nat

Torn == -1
Source == 0
Seeds == 1 .. MaxJobs
Buffers == {0, 1}
Content == Seeds \cup {Source, Torn}

\* RunTest, RunLongUnlockedScene and RunCrossTitleHotpath; "last" is the
\* summary image at the end of the latter.
Bodies == {"phase", "scene", "cross", "last"}

(* What one iteration of a body does: "cpu" and "stream" use the loader,   *)
(* "stream" copies the decoded buffer to texture memory, "clear" reuses    *)
(* the surface, "draw" samples the texture.                                *)
Workloads == {{}, {"draw"}, {"cpu"}, {"cpu", "draw"}, {"stream", "draw"},
              {"stream", "clear", "draw"}, {"cpu", "stream", "clear", "draw"}}

\* RunTest clears whenever it streams; a scene's CPU stage works without the
\* loader; a cross-title stage leaves the CPU to the loader thread.
WorkOf(b) ==
    CASE b = "phase" -> {w \in Workloads : "stream" \in w => "clear" \in w}
      [] b = "scene" -> {w \in Workloads : "stream" \in w => "clear" \in w} \ {{"cpu"}, {"cpu", "draw"}}
      [] OTHER -> {w \in Workloads : "cpu" \notin w}

UsesLoader(w) == w \cap {"cpu", "stream"} # {}

VARIABLES
    main,        \* the test thread
    body, work,  \* the running body and its present workload
    result,      \* what DrawCorrectnessResult is told the body did
    loader,      \* the loader thread
    startEvent, doneEvent,
    stop,        \* loader_stop_
    job,         \* loader_job_.seed and .destination
    checksum,    \* loader_job_.checksum
    decoding,    \* the job the loader thread is working on
    buffers,     \* streaming_buffers_
    current,     \* current_streaming_buffer_
    component,   \* last_loader_component_
    lastSeed,    \* last_streaming_seed_
    texture,     \* texture memory of stage 0
    queued,      \* the last surface clear the GPU has yet to execute, or 0
    surface,     \* the seed of the clear the surface shows
    (* Observation only. *)
    image,       \* texture of the last correctness image, Source if none
    readback,    \* what ValidateStreamingSurface last read and expected
    lives

threads == <<loader, startEvent, doneEvent, stop, job, checksum, decoding>>
gpu == <<queued, surface>>
vars == <<main, body, work, result, threads, buffers, current, component,
          lastSeed, texture, gpu, image, readback, lives>>

Job == [seed : 0 .. MaxJobs, destination : Buffers]

TypeOK ==
    /\ main \in {"down", "ready", "body", "loading", "loaded", "looped", "draining",
                 "drawn", "joining"}
    /\ body \in Bodies /\ work \in Workloads
    /\ result \in {{}, {"draw"}, {"draw", "clear"}}
    /\ loader \in {"none", "parked", "awake", "decoding", "signal", "exited"}
    /\ startEvent \in BOOLEAN /\ doneEvent \in BOOLEAN /\ stop \in BOOLEAN
    /\ job \in Job /\ decoding \in Job
    /\ checksum \in 0 .. MaxJobs /\ component \in 0 .. MaxJobs
    /\ lastSeed \in 0 .. MaxJobs
    /\ buffers \in [Buffers -> Content]
    /\ current \in Buffers
    /\ texture \in Content /\ image \in Content
    /\ queued \in 0 .. MaxJobs /\ surface \in 0 .. MaxJobs
    /\ readback \in [seen : 0 .. MaxJobs, expected : 0 .. MaxJobs]
    /\ lives \in 0 .. MaxLives

NoJob == [seed |-> 0, destination |-> 0]

Init ==
    /\ main = "down" /\ body = "phase" /\ work = {"cpu"} /\ result = {}
    /\ loader = "none" /\ startEvent = FALSE /\ doneEvent = FALSE
    /\ stop = FALSE /\ job = NoJob /\ decoding = NoJob /\ checksum = 0
    /\ buffers = [b \in Buffers |-> Source] /\ current = 0
    /\ component = 0 /\ lastSeed = 0
    /\ texture = Source /\ queued = 0 /\ surface = 0
    /\ image = Source /\ readback = [seen |-> 0, expected |-> 0]
    /\ lives = 0

-----------------------------------------------------------------------------
(* The test thread. *)

\* Generates both buffers and starts a new thread on new events; loader_stop_
\* keeps its value.
Initialize ==
    /\ main = "down" /\ lives < MaxLives
    /\ lives' = lives + 1
    /\ buffers' = [b \in Buffers |-> Source]
    /\ startEvent' = FALSE /\ doneEvent' = FALSE
    /\ loader' = "parked"
    /\ main' = "ready"
    /\ UNCHANGED <<body, work, result, stop, job, checksum, decoding, current, component,
                   lastSeed, texture, gpu, image, readback>>

\* Every body starts from buffer 0.
BeginBody ==
    /\ main = "ready"
    /\ body' \in {"phase", "scene", "cross"}
    /\ work' \in WorkOf(body')
    /\ result' = {}
    /\ current' = 0
    /\ texture' = buffers[0]
    /\ main' = "body"
    /\ UNCHANGED <<threads, buffers, component, lastSeed, gpu, image, readback, lives>>

\* One iteration: the decode goes to the buffer that is not current, and the
\* CPU, PFIFO and draw work of the iteration overlaps it.
StartLoader ==
    /\ main \in {"body", "looped"}
    /\ UsesLoader(work)
    /\ job.seed < MaxJobs
    /\ job' = [seed |-> job.seed + 1, destination |-> 1 - current]
    /\ checksum' = 0
    /\ startEvent' = TRUE
    /\ main' = "loading"
    /\ UNCHANGED <<body, work, result, loader, doneEvent, stop, decoding, buffers,
                   current, component, lastSeed, texture, gpu, image, readback, lives>>

\* (Bug: the result is taken without waiting for it.)
TakeWithoutWaiting ==
    /\ main = "loading"
    /\ component' = checksum
    /\ main' = "loaded"
    /\ UNCHANGED <<body, work, result, threads, buffers, current, lastSeed, texture, gpu,
                   image, readback, lives>>

\* (Bug: a manual-reset event: the done event stays set.)
WaitWithoutReset ==
    /\ main = "loading"
    /\ doneEvent
    /\ component' = checksum
    /\ main' = "loaded"
    /\ UNCHANGED <<body, work, result, threads, buffers, current, lastSeed, texture, gpu,
                   image, readback, lives>>

WaitForLoader ==
    /\ main = "loading"
    /\ doneEvent
    /\ doneEvent' = FALSE
    /\ component' = checksum
    /\ main' = "loaded"
    /\ UNCHANGED <<body, work, result, loader, startEvent, stop, job, checksum, decoding,
                   buffers, current, lastSeed, texture, gpu, image, readback, lives>>

\* The end of an iteration that used the loader: RunStreamingWork, if any.
RunStreamingWork ==
    /\ main = "loaded"
    /\ IF "stream" \in work
       THEN /\ texture' = buffers[job.destination]
            /\ lastSeed' = job.seed
            /\ current' = job.destination
            /\ queued' = IF "clear" \in work THEN job.seed ELSE queued
       ELSE UNCHANGED <<texture, lastSeed, current, queued>>
    /\ main' = "looped"
    /\ UNCHANGED <<body, work, result, threads, buffers, component, surface, image,
                   readback, lives>>

\* The last warmup of RunTest: measured iterations start from buffer 0 again.
EndWarmup ==
    /\ main = "looped" /\ body = "phase"
    /\ current' = 0
    /\ main' = "body"
    /\ UNCHANGED <<body, work, result, threads, buffers, component, lastSeed, texture,
                   gpu, image, readback, lives>>

\* A workload runs at least once.
WorkIsDone == main = "looped" \/ (main = "body" /\ ~UsesLoader(work))

\* Whether a correctness image is textured, and whether the surface is read.
ResultOf(w) == w \cap {"draw", "clear"}

\* RunLongUnlockedScene goes from stage to stage and draws one image for all.
NextSceneStage ==
    /\ WorkIsDone /\ body = "scene"
    /\ result' = result \cup IF "clear" \in work THEN {"draw", "clear"} ELSE {}
    /\ work' \in WorkOf(body)
    /\ main' = "body"
    /\ UNCHANGED <<body, threads, buffers, current, component, lastSeed, texture, gpu,
                   image, readback, lives>>

\* DrawCorrectnessResult begins by waiting for the GPU.
EndBody ==
    /\ WorkIsDone
    /\ result' = IF body = "scene"
                 THEN result \cup IF "clear" \in work THEN {"draw", "clear"} ELSE {}
                 ELSE ResultOf(work)
    /\ main' = "draining"
    /\ UNCHANGED <<body, work, threads, buffers, current, component, lastSeed, texture, gpu,
                   image, readback, lives>>

\* (Bug: the image is drawn while the workload is still on the GPU.)
DrawWithoutDraining ==
    /\ main = "draining"
    /\ readback' = IF "clear" \in result THEN [seen |-> surface, expected |-> lastSeed]
                   ELSE readback
    /\ IF "draw" \in result
       THEN texture' = buffers[0] /\ image' = buffers[0]
       ELSE UNCHANGED <<texture, image>>
    /\ main' = "drawn"
    /\ UNCHANGED <<body, work, result, threads, buffers, current, component, lastSeed, gpu,
                   lives>>

\* The rest of it: ValidateStreamingSurface reads the surface back, and the
\* image is drawn from buffer 0.
DrawCorrectnessResult ==
    /\ main = "draining"
    /\ queued = 0
    /\ readback' = IF "clear" \in result THEN [seen |-> surface, expected |-> lastSeed]
                   ELSE readback
    /\ IF "draw" \in result
       THEN texture' = buffers[0] /\ image' = buffers[0]
       ELSE UNCHANGED <<texture, image>>
    /\ main' = "drawn"
    /\ UNCHANGED <<body, work, result, threads, buffers, current, component, lastSeed, gpu,
                   lives>>

\* A cross-title stage restores the work state; after the last one the image
\* of the last stage is drawn again for the group.
NextCrossTitleStage ==
    /\ main = "drawn" /\ body = "cross"
    /\ texture' = buffers[current]
    /\ \/ main' = "body" /\ work' \in WorkOf(body) /\ UNCHANGED body
       \/ main' = "draining" /\ body' = "last" /\ UNCHANGED work
    /\ UNCHANGED <<result, threads, buffers, current, component, lastSeed, gpu, image,
                   readback, lives>>

EndTest ==
    /\ main = "drawn" /\ body # "cross"
    /\ main' = "ready"
    /\ UNCHANGED <<body, work, result, threads, buffers, current, component, lastSeed,
                   texture, gpu, image, readback, lives>>

\* (Bug: the loader is told to stop and not woken.)
DeinitializeQuietly ==
    /\ main = "ready"
    /\ stop' = TRUE
    /\ main' = "joining"
    /\ UNCHANGED <<body, work, result, loader, startEvent, doneEvent, job, checksum,
                   decoding, buffers, current, component, lastSeed, texture, gpu, image,
                   readback, lives>>

Deinitialize ==
    /\ main = "ready"
    /\ stop' = TRUE
    /\ startEvent' = TRUE
    /\ main' = "joining"
    /\ UNCHANGED <<body, work, result, loader, doneEvent, job, checksum, decoding, buffers,
                   current, component, lastSeed, texture, gpu, image, readback, lives>>

JoinLoader ==
    /\ main = "joining"
    /\ loader = "exited"
    /\ loader' = "none"
    /\ main' = "down"
    /\ UNCHANGED <<body, work, result, startEvent, doneEvent, stop, job, checksum, decoding,
                   buffers, current, component, lastSeed, texture, gpu, image, readback, lives>>

-----------------------------------------------------------------------------
(* The loader thread. *)

LoaderWakes ==
    /\ loader = "parked"
    /\ startEvent
    /\ startEvent' = FALSE
    /\ loader' = "awake"
    /\ UNCHANGED <<main, body, work, result, doneEvent, stop, job, checksum, decoding,
                   buffers, current, component, lastSeed, texture, gpu, image, readback, lives>>

LoaderStops ==
    /\ loader = "awake"
    /\ stop
    /\ loader' = "exited"
    /\ UNCHANGED <<main, body, work, result, startEvent, doneEvent, stop, job, checksum,
                   decoding, buffers, current, component, lastSeed, texture, gpu, image,
                   readback, lives>>

LoaderBegins ==
    /\ loader = "awake"
    /\ ~stop
    /\ decoding' = job
    /\ buffers' = [buffers EXCEPT ![job.destination] = Torn]
    /\ loader' = "decoding"
    /\ UNCHANGED <<main, body, work, result, startEvent, doneEvent, stop, job, checksum,
                   current, component, lastSeed, texture, gpu, image, readback, lives>>

LoaderDecodes ==
    /\ loader = "decoding"
    /\ buffers' = [buffers EXCEPT ![decoding.destination] = decoding.seed]
    /\ checksum' = decoding.seed
    /\ loader' = "signal"
    /\ UNCHANGED <<main, body, work, result, startEvent, doneEvent, stop, job, decoding,
                   current, component, lastSeed, texture, gpu, image, readback, lives>>

\* (Bug: the loader goes back to sleep without a word.)
LoaderParksQuietly ==
    /\ loader = "signal"
    /\ loader' = "parked"
    /\ UNCHANGED <<main, body, work, result, startEvent, doneEvent, stop, job, checksum,
                   decoding, buffers, current, component, lastSeed, texture, gpu, image,
                   readback, lives>>

LoaderSignals ==
    /\ loader = "signal"
    /\ doneEvent' = TRUE
    /\ loader' = "parked"
    /\ UNCHANGED <<main, body, work, result, startEvent, stop, job, checksum, decoding,
                   buffers, current, component, lastSeed, texture, gpu, image, readback, lives>>

LoaderThread == LoaderWakes \/ LoaderStops \/ LoaderBegins \/ LoaderDecodes \/ LoaderSignals

-----------------------------------------------------------------------------
\* The GPU executes the queued clears; the last one is what is left to see.
GpuClears ==
    /\ queued # 0
    /\ surface' = queued
    /\ queued' = 0
    /\ UNCHANGED <<main, body, work, result, threads, buffers, current, component, lastSeed,
                   texture, image, readback, lives>>

TestThread ==
    \/ Initialize \/ BeginBody \/ StartLoader \/ WaitForLoader \/ RunStreamingWork
    \/ EndWarmup \/ NextSceneStage \/ EndBody \/ DrawCorrectnessResult
    \/ NextCrossTitleStage \/ EndTest \/ Deinitialize \/ JoinLoader

Next == TestThread \/ LoaderThread \/ GpuClears

Spec == Init /\ [][Next]_vars

\* The kernel schedules both threads and wakes a thread whose event is set;
\* the GPU makes progress.  How long a body runs is up to its parameters.
FairSpec ==
    /\ Spec
    /\ WF_vars(LoaderThread) /\ WF_vars(GpuClears)
    /\ WF_vars(WaitForLoader) /\ WF_vars(DrawCorrectnessResult) /\ WF_vars(JoinLoader)

-----------------------------------------------------------------------------
(***************************************************************************)
(* A half-decoded buffer never reaches texture memory or a correctness     *)
(* image: the test thread reads a streaming buffer only while the loader   *)
(* thread is not writing it, which only the two events ensure.             *)
(***************************************************************************)
NoTornTexture == texture # Torn /\ image # Torn

(***************************************************************************)
(* WaitForLoader returns the checksum of the job StartLoader posted last,  *)
(* and the decoded bytes are in place by then.                             *)
(***************************************************************************)
LoaderAnswersThisJob ==
    main = "loaded" => component = job.seed /\ buffers[job.destination] = job.seed

(***************************************************************************)
(* ValidateStreamingSurface reads the last clear of the last streaming     *)
(* iteration, however far the GPU lags behind the test thread and however  *)
(* stages of different kinds follow each other.                            *)
(***************************************************************************)
SurfaceShowsLastClear == readback.seen = readback.expected

(***************************************************************************)
(* game_load_composite_tests.cpp:1474,                                     *)
(* ASSERT(WaitForSingleObject(loader_done_event_, INFINITE) ==             *)
(* WAIT_OBJECT_0): every job posted by StartLoader is answered.            *)
(***************************************************************************)
EveryLoadIsAnswered == main = "loading" ~> main # "loading"

(***************************************************************************)
(* The unattended run, which tears the suite down once, never hangs on a   *)
(* job: between Initialize and the first Deinitialize every job posted is  *)
(* answered, though the two events are all that passes between the threads.*)
(***************************************************************************)
FirstLifeIsAnswered == (main = "loading" /\ lives = 1) ~> main # "loading"

(***************************************************************************)
(* Deinitialize always gets its thread back.                               *)
(***************************************************************************)
TeardownEnds == main = "joining" ~> main = "down"

-----------------------------------------------------------------------------
(* The inductive invariant behind the first three.                         *)

\* Where a posted job is: not yet seen, being worked on, or answered.
Posted == loader = "parked" /\ startEvent /\ ~doneEvent
Held == loader \in {"awake", "exited"} /\ ~startEvent /\ ~doneEvent
Decoding == loader = "decoding" /\ ~startEvent /\ ~doneEvent /\ decoding = job
Decoded ==
    /\ loader = "signal" /\ ~startEvent /\ ~doneEvent
    /\ checksum = job.seed /\ buffers[job.destination] = job.seed
Answered ==
    /\ loader = "parked" /\ ~startEvent /\ doneEvent
    /\ checksum = job.seed /\ buffers[job.destination] = job.seed
Idle == loader = "parked" /\ ~startEvent /\ ~doneEvent

LoaderInv ==
    /\ main = "down" => loader = "none"
    /\ main = "loading" => Posted \/ Held \/ Decoding \/ Decoded \/ Answered
    /\ main = "joining" => stop /\ (Posted \/ Held)
    /\ main \notin {"down", "loading", "joining"} => Idle

TornInv ==
    \A b \in Buffers : buffers[b] = Torn => Decoding /\ main = "loading" /\ b = job.destination

\* The surface shows, or is about to show, the last streaming seed.
Synced == IF queued # 0 THEN queued = lastSeed ELSE surface = lastSeed

SurfaceInv ==
    /\ main \in {"loading", "loaded"} => job.seed # 0
    /\ main \in {"body", "loading", "loaded", "looped"} => work \in WorkOf(body)
    /\ main = "looped" /\ "clear" \in work => Synced
    /\ (main \in {"draining", "drawn"} \/ body = "scene") /\ "clear" \in result => Synced

IInv ==
    /\ TypeOK /\ LoaderInv /\ TornInv /\ SurfaceInv
    /\ NoTornTexture /\ LoaderAnswersThisJob /\ SurfaceShowsLastClear
=============================================================================
