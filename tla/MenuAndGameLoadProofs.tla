----------------------- MODULE MenuAndGameLoadProofs -----------------------
(***************************************************************************)
(* Proofs about the guest's interactive side: the event loop over the menu *)
(* (MenuDriver), for any suites, tests and events, and the one suite whose *)
(* teardown can stop it (GameLoadComposite, the Threaded suite of          *)
(* MenuDriver), for any number of loader jobs and of lives of the suite.   *)
(* The two share no variable and no constant.                              *)
(***************************************************************************)
EXTENDS MenuDriver, GameLoadComposite, TLAPS

-----------------------------------------------------------------------------
(* The menu and its event loop                                             *)

(***************************************************************************)
(* The inductive invariant: an open suite menu or test names a registered  *)
(* suite, which ties the handles to the menu; and an open test has been    *)
(* drawn unless an event came since the last draw, which is what makes     *)
(* frame_count a sound test for handles.                                   *)
(***************************************************************************)
ItemInv == level \in {"suite", "test"} => item.suite \in Suites
DrawnInv == level = "test" /\ ~fresh => frames > 0

MenuInv ==
    /\ MenuTypeOK /\ ItemInv /\ DrawnInv
    /\ ModeDecidesSaving /\ HandlesFollowMenu /\ OnlyHasteLosesALife /\ AutorunOnce

LEMMA Modulo == \A n \in Nat, x \in Nat : x % (n + 1) \in 0 .. n
  OBVIOUS

LEMMA MenuInitHolds == MenuInit => MenuInv
<1> SUFFICES ASSUME MenuInit PROVE MenuInv
  OBVIOUS
<1> USE MenuAssumption DEF MenuAssumption, MenuInit
<1>1. MenuTypeOK
  <2>1. /\ running \in BOOLEAN /\ inLoop \in BOOLEAN /\ cancelled \in BOOLEAN
        /\ save \in BOOLEAN /\ halted \in BOOLEAN
        /\ autorun \in BOOLEAN /\ exits \in BOOLEAN
        /\ fresh \in BOOLEAN /\ burst \in BOOLEAN /\ undercut \in BOOLEAN
    BY Zenon
  <2> QED
    BY <2>1 DEF MenuTypeOK, Levels, Nobody, Tests
<1>2. ItemInv /\ DrawnInv /\ ModeDecidesSaving
  BY DEF ItemInv, DrawnInv, ModeDecidesSaving
<1>3. HandlesFollowMenu /\ OnlyHasteLosesALife /\ AutorunOnce
  BY DEF HandlesFollowMenu, OnlyHasteLosesALife, AutorunOnce
<1> QED
  BY <1>1, <1>2, <1>3 DEF MenuInv

LEMMA MenuStepHolds == MenuInv /\ [MenuNext]_menuVars => MenuInv'
<1> SUFFICES ASSUME MenuInv, [MenuNext]_menuVars PROVE MenuInv'
  OBVIOUS
<1> USE MenuAssumption
     DEF MenuAssumption, MenuInv, MenuTypeOK, ItemInv, DrawnInv, ModeDecidesSaving,
         HandlesFollowMenu, OnlyHasteLosesALife, AutorunOnce, Levels, Nobody, Tests, Handled, handles
<1>1. CASE SelectMenu
  BY <1>1 DEF SelectMenu
<1>2. CASE SelectRunAll
  BY <1>2 DEF SelectRunAll, RunWhole
<1>3. CASE SelectRoutes
  BY <1>3 DEF SelectRoutes, RunWhole
<1>4. CASE SelectSetting
  <2>1. save' \in BOOLEAN /\ cancelled' \in BOOLEAN
    BY <1>4, Zenon DEF SelectSetting
  <2> QED
    BY <1>4, <2>1 DEF SelectSetting
<1>5. CASE SelectTest
  BY <1>5 DEF SelectTest, Enter
<1>6. CASE Reenter
  BY <1>6 DEF Reenter, Enter, Halts
<1>7. CASE Leave
  BY <1>7 DEF Leave, Halts
<1>8. CASE Exit
  <2>1. cancelled' \in BOOLEAN /\ running' \in BOOLEAN
    BY <1>8, Zenon DEF Exit
  <2> QED
    BY <1>8, <2>1 DEF Exit
<1>9. CASE RunSuite
  BY <1>9 DEF RunSuite, RunWhole, Halts
<1>10. CASE RunHighlighted
  BY <1>10 DEF RunHighlighted, RunWhole
<1>11. CASE ToggleMode
  <2>1. save' = (mode' = "single")
    BY <1>11 DEF ToggleMode
  <2>2. save' \in BOOLEAN
    BY <2>1, Zenon
  <2>3. ModeDecidesSaving'
    BY <2>1, Zenon
  <2> QED
    BY <1>11, <2>2, <2>3 DEF ToggleMode
<1>12. CASE StepTest
  BY <1>12, Modulo DEF StepTest, Enter, Halts
<1>13. CASE MoveCursor
  BY <1>13 DEF MoveCursor
<1>14. CASE CountdownFires
  <2>1. /\ inLoop' \in BOOLEAN /\ running' \in BOOLEAN
        /\ fresh' \in BOOLEAN /\ ~fresh'
    BY <1>14, Zenon DEF CountdownFires, RunWhole
  <2> QED
    BY <1>14, <2>1 DEF CountdownFires, RunWhole
<1>15. CASE DrawTest
  <2>1. /\ inLoop' \in BOOLEAN /\ running' \in BOOLEAN
        /\ fresh' \in BOOLEAN /\ ~fresh'
    BY <1>15, Zenon DEF DrawTest, Drawn
  <2> QED
    BY <1>15, <2>1 DEF DrawTest, Drawn, TestIsDue
<1>16. CASE DrawMenu
  <2>1. /\ inLoop' \in BOOLEAN /\ running' \in BOOLEAN
        /\ fresh' \in BOOLEAN /\ ~fresh'
    BY <1>16, Zenon DEF DrawMenu, Drawn
  <2> QED
    BY <1>16, <2>1 DEF DrawMenu, Drawn, TestIsDue
<1>17. CASE UNCHANGED menuVars
  BY <1>17 DEF menuVars
<1> QED
  BY <1>1, <1>2, <1>3, <1>4, <1>5, <1>6, <1>7, <1>8, <1>9, <1>10, <1>11, <1>12,
     <1>13, <1>14, <1>15, <1>16, <1>17 DEF MenuNext, Input

(***************************************************************************)
(* Every reachable state of the event loop satisfies MenuInv.                 *)
(***************************************************************************)
THEOREM MenuInductive == MenuSpec => []MenuInv
<1>1. MenuInit => MenuInv
  BY MenuInitHolds
<1>2. MenuInv /\ [MenuNext]_menuVars => MenuInv'
  BY MenuStepHolds
<1> QED
  BY <1>1, <1>2, PTL DEF MenuSpec

(***************************************************************************)
(* A suite holds handles exactly while one of its tests is the active menu *)
(* item, and only X on an open test can fail the teardown's assertion      *)
(* (TestDriver and MenuItem between them).                                 *)
(***************************************************************************)
THEOREM HandlesAreOfTheOpenTest == MenuSpec => []HandlesFollowMenu
<1>1. MenuInv => HandlesFollowMenu
  BY DEF MenuInv
<1> QED
  BY <1>1, MenuInductive, PTL

(***************************************************************************)
(* A life of a suite is lost only to an event that an open test got before *)
(* the event handled last was drawn, or to X on an open test.              *)
(***************************************************************************)
THEOREM LivesAreLostInHaste == MenuSpec => []OnlyHasteLosesALife
<1>1. MenuInv => OnlyHasteLosesALife
  BY DEF MenuInv
<1> QED
  BY <1>1, MenuInductive, PTL

(***************************************************************************)
(* The countdown of MenuItemRoot::Draw starts at most one run, and never   *)
(* underneath an open test.                                                *)
(***************************************************************************)
THEOREM CountdownIsOneShot == MenuSpec => []AutorunOnce
<1>1. MenuInv => AutorunOnce
  BY DEF MenuInv
<1> QED
  BY <1>1, MenuInductive, PTL

-----------------------------------------------------------------------------
(* The game-load composite suite: test thread, loader thread and GPU       *)

LEMMA InitHolds == Init => IInv
<1> SUFFICES ASSUME Init PROVE IInv
  OBVIOUS
<1> USE GameLoadAssumption
    DEF GameLoadAssumption, Init, NoJob, Job, Buffers, Content, Seeds, Torn, Source
<1>1. TypeOK
  <2>1. startEvent \in BOOLEAN /\ doneEvent \in BOOLEAN /\ stop \in BOOLEAN
    BY Zenon
  <2>2. work \in Workloads /\ body \in Bodies /\ result \in {{}, {"draw"}, {"draw", "clear"}}
    BY DEF Workloads, Bodies
  <2> QED
    BY <2>1, <2>2 DEF TypeOK
<1>2. LoaderInv /\ TornInv
  BY DEF LoaderInv, TornInv
<1>3. SurfaceInv
  BY DEF SurfaceInv
<1>4. NoTornTexture /\ LoaderAnswersThisJob /\ SurfaceShowsLastClear
  BY DEF NoTornTexture, LoaderAnswersThisJob, SurfaceShowsLastClear
<1> QED
  BY <1>1, <1>2, <1>3, <1>4 DEF IInv

\* Types.
LEMMA TypeStep == IInv /\ [Next]_vars => TypeOK'
<1> SUFFICES ASSUME IInv, [Next]_vars PROVE TypeOK'
  OBVIOUS
<1> USE GameLoadAssumption DEF GameLoadAssumption, IInv, threads, gpu, TypeOK, Job, Buffers, Content, Seeds, Torn, Source, Workloads, Bodies, WorkOf, NoJob
<1>1. CASE Initialize
  <2>1. startEvent' \in BOOLEAN /\ doneEvent' \in BOOLEAN
    BY <1>1, Zenon DEF Initialize
  <2> QED
    BY <1>1, <2>1 DEF Initialize
<1>2. CASE BeginBody
  BY <1>2 DEF BeginBody
<1>3. CASE StartLoader
  BY <1>3 DEF StartLoader
<1>4. CASE WaitForLoader
  <2>1. doneEvent' \in BOOLEAN
    BY <1>4, Zenon DEF WaitForLoader
  <2> QED
    BY <1>4, <2>1 DEF WaitForLoader
<1>5. CASE RunStreamingWork
  BY <1>5 DEF RunStreamingWork
<1>6. CASE EndWarmup
  BY <1>6 DEF EndWarmup
<1>7. CASE NextSceneStage
  BY <1>7 DEF NextSceneStage, WorkIsDone, Workloads
<1>8. CASE EndBody
  BY <1>8 DEF EndBody, WorkIsDone, ResultOf
<1>9. CASE DrawCorrectnessResult
  BY <1>9 DEF DrawCorrectnessResult
<1>10. CASE NextCrossTitleStage
  BY <1>10 DEF NextCrossTitleStage
<1>11. CASE EndTest
  BY <1>11 DEF EndTest
<1>12. CASE Deinitialize
  BY <1>12 DEF Deinitialize
<1>13. CASE JoinLoader
  BY <1>13 DEF JoinLoader
<1>14. CASE LoaderWakes
  <2>1. startEvent' \in BOOLEAN
    BY <1>14, Zenon DEF LoaderWakes
  <2> QED
    BY <1>14, <2>1 DEF LoaderWakes
<1>15. CASE LoaderStops
  BY <1>15 DEF LoaderStops
<1>16. CASE LoaderBegins
  BY <1>16 DEF LoaderBegins
<1>17. CASE LoaderDecodes
  BY <1>17 DEF LoaderDecodes
<1>18. CASE LoaderSignals
  BY <1>18 DEF LoaderSignals
<1>19. CASE GpuClears
  BY <1>19 DEF GpuClears
<1>20. CASE UNCHANGED vars
  BY <1>20 DEF vars, threads, gpu
<1> QED
  BY <1>1, <1>2, <1>3, <1>4, <1>5, <1>6, <1>7, <1>8, <1>9, <1>10, <1>11, <1>12, <1>13, <1>14, <1>15, <1>16, <1>17, <1>18, <1>19, <1>20
  DEF Next, TestThread, LoaderThread

\* Which thread has the job: one of the two, never both.
LEMMA LoaderStep == IInv /\ [Next]_vars => LoaderInv' /\ LoaderAnswersThisJob'
<1> SUFFICES ASSUME IInv, [Next]_vars PROVE LoaderInv' /\ LoaderAnswersThisJob'
  OBVIOUS
<1> USE GameLoadAssumption DEF GameLoadAssumption, IInv, threads, gpu, TypeOK, Job, Buffers, Content, Seeds, Torn, Source, LoaderInv,
     Posted, Held, Decoding, Decoded, Answered, Idle, LoaderAnswersThisJob
<1>1. CASE Initialize
  BY <1>1 DEF Initialize
<1>2. CASE BeginBody
  BY <1>2 DEF BeginBody
<1>3. CASE StartLoader
  BY <1>3 DEF StartLoader
<1>4. CASE WaitForLoader
  BY <1>4 DEF WaitForLoader
<1>5. CASE RunStreamingWork
  BY <1>5 DEF RunStreamingWork
<1>6. CASE EndWarmup
  BY <1>6 DEF EndWarmup
<1>7. CASE NextSceneStage
  BY <1>7 DEF NextSceneStage, WorkIsDone, Workloads
<1>8. CASE EndBody
  BY <1>8 DEF EndBody, WorkIsDone, ResultOf
<1>9. CASE DrawCorrectnessResult
  BY <1>9 DEF DrawCorrectnessResult
<1>10. CASE NextCrossTitleStage
  BY <1>10 DEF NextCrossTitleStage
<1>11. CASE EndTest
  BY <1>11 DEF EndTest
<1>12. CASE Deinitialize
  BY <1>12 DEF Deinitialize
<1>13. CASE JoinLoader
  BY <1>13 DEF JoinLoader
<1>14. CASE LoaderWakes
  BY <1>14 DEF LoaderWakes
<1>15. CASE LoaderStops
  BY <1>15 DEF LoaderStops
<1>16. CASE LoaderBegins
  BY <1>16 DEF LoaderBegins
<1>17. CASE LoaderDecodes
  BY <1>17 DEF LoaderDecodes
<1>18. CASE LoaderSignals
  BY <1>18 DEF LoaderSignals
<1>19. CASE GpuClears
  BY <1>19 DEF GpuClears
<1>20. CASE UNCHANGED vars
  BY <1>20 DEF vars, threads, gpu
<1> QED
  BY <1>1, <1>2, <1>3, <1>4, <1>5, <1>6, <1>7, <1>8, <1>9, <1>10, <1>11, <1>12, <1>13, <1>14, <1>15, <1>16, <1>17, <1>18, <1>19, <1>20
  DEF Next, TestThread, LoaderThread

\* A torn buffer is the one being decoded.
LEMMA TornStep == IInv /\ [Next]_vars => TornInv' /\ NoTornTexture'
<1> SUFFICES ASSUME IInv, [Next]_vars PROVE TornInv' /\ NoTornTexture'
  OBVIOUS
<1> USE GameLoadAssumption DEF GameLoadAssumption, IInv, threads, gpu, TypeOK, Job, Buffers, Content, Seeds, Torn, Source, LoaderInv,
     Posted, Held, Decoding, Decoded, Answered, Idle, TornInv, NoTornTexture,
     LoaderAnswersThisJob
<1>1. CASE Initialize
  BY <1>1 DEF Initialize
<1>2. CASE BeginBody
  BY <1>2 DEF BeginBody
<1>3. CASE StartLoader
  BY <1>3 DEF StartLoader
<1>4. CASE WaitForLoader
  BY <1>4 DEF WaitForLoader
<1>5. CASE RunStreamingWork
  BY <1>5 DEF RunStreamingWork
<1>6. CASE EndWarmup
  BY <1>6 DEF EndWarmup
<1>7. CASE NextSceneStage
  BY <1>7 DEF NextSceneStage, WorkIsDone, Workloads
<1>8. CASE EndBody
  BY <1>8 DEF EndBody, WorkIsDone, ResultOf
<1>9. CASE DrawCorrectnessResult
  BY <1>9 DEF DrawCorrectnessResult
<1>10. CASE NextCrossTitleStage
  BY <1>10 DEF NextCrossTitleStage
<1>11. CASE EndTest
  BY <1>11 DEF EndTest
<1>12. CASE Deinitialize
  BY <1>12 DEF Deinitialize
<1>13. CASE JoinLoader
  BY <1>13 DEF JoinLoader
<1>14. CASE LoaderWakes
  BY <1>14 DEF LoaderWakes
<1>15. CASE LoaderStops
  BY <1>15 DEF LoaderStops
<1>16. CASE LoaderBegins
  BY <1>16 DEF LoaderBegins
<1>17. CASE LoaderDecodes
  BY <1>17 DEF LoaderDecodes
<1>18. CASE LoaderSignals
  BY <1>18 DEF LoaderSignals
<1>19. CASE GpuClears
  BY <1>19 DEF GpuClears
<1>20. CASE UNCHANGED vars
  BY <1>20 DEF vars, threads, gpu
<1> QED
  BY <1>1, <1>2, <1>3, <1>4, <1>5, <1>6, <1>7, <1>8, <1>9, <1>10, <1>11, <1>12, <1>13, <1>14, <1>15, <1>16, <1>17, <1>18, <1>19, <1>20
  DEF Next, TestThread, LoaderThread

\* The surface and the seed it is compared with.
LEMMA SurfaceStep == IInv /\ [Next]_vars => SurfaceInv' /\ SurfaceShowsLastClear'
<1> SUFFICES ASSUME IInv, [Next]_vars PROVE SurfaceInv' /\ SurfaceShowsLastClear'
  OBVIOUS
<1> USE GameLoadAssumption DEF GameLoadAssumption, IInv, threads, gpu, TypeOK, Job, Buffers, Content, Seeds, Torn, Source, SurfaceInv,
     Synced, SurfaceShowsLastClear, UsesLoader
<1>1. CASE Initialize
  BY <1>1 DEF Initialize
<1>2. CASE BeginBody
  BY <1>2 DEF BeginBody
<1>3. CASE StartLoader
  BY <1>3 DEF StartLoader
<1>4. CASE WaitForLoader
  BY <1>4 DEF WaitForLoader
<1>5. CASE RunStreamingWork
  <2>1. job.seed # 0 /\ job.seed \in Nat /\ work \in WorkOf(body)
    BY <1>5 DEF RunStreamingWork
  <2>2. work' \in WorkOf(body')
    BY <1>5, <2>1 DEF RunStreamingWork
  <2>3. body = "scene" /\ "stream" \in work => "clear" \in work
    BY <2>1 DEF WorkOf
  <2>4. "clear" \in work => "stream" \in work
    BY DEF Workloads
  <2> QED
    BY <1>5, <2>1, <2>2, <2>3, <2>4 DEF RunStreamingWork
<1>6. CASE EndWarmup
  BY <1>6 DEF EndWarmup
<1>7. CASE NextSceneStage
  <2>1. "clear" \in work => main = "looped"
    BY <1>7 DEF NextSceneStage, WorkIsDone, Workloads
  <2>2. "clear" \in result' => "clear" \in result \/ "clear" \in work
    BY <1>7 DEF NextSceneStage
  <2>3. Synced' <=> Synced
    BY <1>7 DEF NextSceneStage
  <2> QED
    BY <1>7, <2>1, <2>2, <2>3 DEF NextSceneStage
<1>8. CASE EndBody
  <2>1. "clear" \in work => main = "looped"
    BY <1>8 DEF EndBody, WorkIsDone, Workloads
  <2>2. "clear" \in result' => (body = "scene" /\ "clear" \in result) \/ "clear" \in work
    BY <1>8 DEF EndBody, ResultOf
  <2>3. Synced' <=> Synced
    BY <1>8 DEF EndBody
  <2> QED
    BY <1>8, <2>1, <2>2, <2>3 DEF EndBody
<1>9. CASE DrawCorrectnessResult
  BY <1>9 DEF DrawCorrectnessResult
<1>10. CASE NextCrossTitleStage
  BY <1>10 DEF NextCrossTitleStage
<1>11. CASE EndTest
  BY <1>11 DEF EndTest
<1>12. CASE Deinitialize
  BY <1>12 DEF Deinitialize
<1>13. CASE JoinLoader
  BY <1>13 DEF JoinLoader
<1>14. CASE LoaderWakes
  BY <1>14 DEF LoaderWakes
<1>15. CASE LoaderStops
  BY <1>15 DEF LoaderStops
<1>16. CASE LoaderBegins
  BY <1>16 DEF LoaderBegins
<1>17. CASE LoaderDecodes
  BY <1>17 DEF LoaderDecodes
<1>18. CASE LoaderSignals
  BY <1>18 DEF LoaderSignals
<1>19. CASE GpuClears
  BY <1>19 DEF GpuClears
<1>20. CASE UNCHANGED vars
  BY <1>20 DEF vars, threads, gpu
<1> QED
  BY <1>1, <1>2, <1>3, <1>4, <1>5, <1>6, <1>7, <1>8, <1>9, <1>10, <1>11, <1>12, <1>13, <1>14, <1>15, <1>16, <1>17, <1>18, <1>19, <1>20
  DEF Next, TestThread, LoaderThread

(***************************************************************************)
(* Every reachable state of the suite satisfies IInv.                      *)
(***************************************************************************)
THEOREM GameLoadInductive == Spec => []IInv
<1>1. Init => IInv
  BY InitHolds
<1>2. IInv /\ [Next]_vars => IInv'
  BY TypeStep, LoaderStep, TornStep, SurfaceStep DEF IInv
<1> QED
  BY <1>1, <1>2, PTL DEF Spec

(***************************************************************************)
(* The two events keep the loader's half-decoded buffer out of texture     *)
(* memory and out of every correctness image.                              *)
(***************************************************************************)
THEOREM TextureIsNeverTorn == Spec => []NoTornTexture
<1>1. IInv => NoTornTexture
  BY DEF IInv
<1> QED
  BY <1>1, GameLoadInductive, PTL

(***************************************************************************)
(* WaitForLoader returns the checksum of the job StartLoader posted.       *)
(***************************************************************************)
THEOREM LoaderAnswersItsJob == Spec => []LoaderAnswersThisJob
<1>1. IInv => LoaderAnswersThisJob
  BY DEF IInv
<1> QED
  BY <1>1, GameLoadInductive, PTL

(***************************************************************************)
(* ValidateStreamingSurface reads what the last streaming iteration        *)
(* cleared.                                                                *)
(***************************************************************************)
THEOREM SurfaceIsTheLastClear == Spec => []SurfaceShowsLastClear
<1>1. IInv => SurfaceShowsLastClear
  BY DEF IInv
<1> QED
  BY <1>1, GameLoadInductive, PTL
=============================================================================
