---------------------------- MODULE MenuDriver ----------------------------
(***************************************************************************)
(* The controller-driven menu: TestDriver's event loop over the menu tree  *)
(* of menu_item.cpp, and what it does to the suites' Initialize and        *)
(* Deinitialize.                                                           *)
(*                                                                         *)
(* One pass of TestDriver::Run polls every queued event, then draws.  Any  *)
(* number of events may be handled before the next draw.  Cursors are not  *)
(* variables: between two activations the user can put a cursor anywhere,  *)
(* so an activation picks any item of the menu.  The submenus that cannot  *)
(* run a test of their own (Results, System Information, About) are left   *)
(* out; Plans and Individual Tests are the callables they contain.         *)
(***************************************************************************)
EXTENDS Integers, FiniteSets

CONSTANTS
    Suites,      \* registered suites
    Threaded,    \* suites whose Deinitialize asserts that its thread ends
    LastTest,    \* tests of each suite are 0 .. LastTest
    MaxEvents    \* bound: events the user sends

ASSUME MenuAssumption ==
    /\ Threaded \subseteq Suites
    /\ IsFiniteSet(Suites)
    /\ LastTest \in Nat
    /\ MaxEvents \in Nat

Tests == 0 .. LastTest
Nobody == [suite |-> "none", test |-> 0]

\* The chain of active_submenu pointers, from the root.
Levels == {"root", "suites", "suite", "test", "settings"}

VARIABLES
    running,     \* TestDriver::running_
    inLoop,      \* is TestDriver::Run still executing?
    autorun,     \* ~disable_autorun_
    exits,       \* exit_after_run_
    level,       \* the deepest active menu
    item,        \* its suite, and test when level = "test"
    cancelled,   \* MenuItemRoot::timer_cancelled
    mode,        \* MenuItemTest::run_mode_
    save,        \* TestHost::save_results_
    frames,      \* frame_count of the active test; 2 stands for more
    ready,       \* suites that hold the handles of their last Initialize
    lost,        \* suites that were initialized again while they held handles:
                 \* one life of theirs can no longer be torn down
    halted,      \* an ASSERT has stopped the guest
    (* Observation only. *)
    fresh,       \* has an event been handled since the last draw?
    burst,       \* did an open test ever get an event before the event
                 \* handled last was drawn?
    undercut,    \* was X ever released on an open test?
    events,      \* events handled
    autoruns     \* times the countdown has fired

handles == <<ready, lost, halted, undercut>>
menuVars == <<running, inLoop, autorun, exits, level, item, cancelled, mode, save, frames,
              handles, fresh, burst, events, autoruns>>

MenuTypeOK ==
    /\ running \in BOOLEAN /\ inLoop \in BOOLEAN
    /\ autorun \in BOOLEAN /\ exits \in BOOLEAN
    /\ level \in Levels
    /\ item \in [suite : Suites \cup {"none"}, test : Tests]
    /\ cancelled \in BOOLEAN
    /\ mode \in {"single", "continuous"} /\ save \in BOOLEAN
    /\ frames \in 0 .. 2
    /\ ready \in SUBSET Suites /\ lost \in SUBSET Suites
    /\ halted \in BOOLEAN
    /\ fresh \in BOOLEAN /\ burst \in BOOLEAN /\ undercut \in BOOLEAN
    /\ events \in 0 .. MaxEvents /\ autoruns \in Nat

MenuInit ==
    /\ running = TRUE /\ inLoop = TRUE
    /\ autorun \in BOOLEAN /\ exits \in BOOLEAN
    /\ level = "root" /\ item = Nobody
    /\ cancelled = FALSE
    /\ mode = "single" /\ save = TRUE
    /\ frames = 0 /\ ready = {} /\ lost = {} /\ halted = FALSE
    /\ fresh = FALSE /\ burst = FALSE /\ undercut = FALSE
    /\ events = 0 /\ autoruns = 0

-----------------------------------------------------------------------------
(* Suites.  A call sequence is a sequence of "init" and "deinit" of one    *)
(* suite; the bodies it runs in between do not matter here.                *)

\* Deinitialize of a suite that is not ready frees nothing, except that a
\* threaded suite waits on a null handle and fails its assertion.
Halts(s, isReady) == s \in Threaded /\ ~isReady

\* OnEnter: Initialize, over what the calls before it have left (held), and
\* the test waits for its first draw.
Enter(s, t, held) ==
    /\ ready' = held \cup {s}
    /\ lost' = lost \cup (held \cap {s})
    /\ item' = [suite |-> s, test |-> t]
    /\ level' = "test"
    /\ frames' = 0

\* A whole run of some suites: each is initialized, run and torn down.  One
\* that holds handles already loses them to the Initialize.
RunWhole(ss) ==
    /\ ready' = ready \ ss
    /\ lost' = lost \cup (ready \cap ss)

-----------------------------------------------------------------------------
(* Input.  Handled is common to every event.  Events that are already      *)
(* queued are still handled after running_ was reset, and one more draw    *)
(* follows them.                                                           *)

Handled ==
    /\ inLoop /\ ~halted /\ events < MaxEvents
    /\ events' = events + 1
    /\ fresh' = TRUE
    /\ burst' = (burst \/ (fresh /\ level = "test"))
    /\ UNCHANGED <<inLoop, autorun, exits>>

\* Start or A released: MenuItemRoot::Activate and down the chain.
SelectMenu ==
    /\ Handled
    /\ cancelled' = TRUE
    /\ \/ level = "root" /\ level' \in {"suites", "settings"} /\ item' = item
       \/ level = "suites" /\ level' = "suite"
            /\ \E s \in Suites : item' = [suite |-> s, test |-> 0]
    /\ UNCHANGED <<running, mode, save, frames, handles, autoruns>>

\* "Run full selection" and "Active selection: run all".
SelectRunAll ==
    /\ Handled
    /\ cancelled' = TRUE
    /\ level \in {"root", "suites"}
    /\ RunWhole(Suites)
    /\ running' = (running /\ ~exits)
    /\ UNCHANGED <<level, item, mode, save, frames, halted, undercut, autoruns>>

\* The on-disc plans and the entries of Individual Tests: routes run one by
\* one, each between an Initialize and a Deinitialize of its suite.
SelectRoutes ==
    /\ Handled
    /\ cancelled' = TRUE
    /\ level \in {"root", "suites"}
    /\ \E ss \in SUBSET Suites : RunWhole(ss)
    /\ UNCHANGED <<running, level, item, mode, save, frames, halted, undercut, autoruns>>

SelectSetting ==
    /\ Handled
    /\ cancelled' = TRUE
    /\ level = "settings"
    /\ \/ mode' = "single" /\ save' = TRUE
       \/ mode' = "continuous" /\ save' = FALSE
    /\ UNCHANGED <<running, level, item, frames, handles, autoruns>>

SelectTest ==
    /\ Handled
    /\ cancelled' = TRUE
    /\ level = "suite"
    /\ \E t \in Tests : Enter(item.suite, t, ready)
    /\ UNCHANGED <<running, mode, save, halted, undercut, autoruns>>

\* Again on the active test: MenuItemTest::Activate is OnEnter, which tears
\* the suite down first only if the test has been drawn.
Reenter ==
    /\ Handled
    /\ cancelled' = TRUE
    /\ level = "test"
    /\ Enter(item.suite, item.test, IF frames > 0 THEN ready \ {item.suite} ELSE ready)
    /\ halted' = (frames > 0 /\ Halts(item.suite, item.suite \in ready))
    /\ UNCHANGED <<running, mode, save, undercut, autoruns>>

\* (Bug: the test is left without MenuItemTest::Deactivate.)
LeaveMenuOnly ==
    /\ Handled
    /\ cancelled' = TRUE
    /\ level # "root"
    /\ level' = CASE level = "test" -> "suite" [] level = "suite" -> "suites" [] OTHER -> "root"
    /\ item' = IF level = "test" THEN item ELSE Nobody
    /\ UNCHANGED <<running, mode, save, frames, handles, autoruns>>

\* Back or B released: MenuItem::Deactivate pops the deepest menu; a test
\* tears its suite down.
Leave ==
    /\ Handled
    /\ cancelled' = TRUE
    /\ level # "root"
    /\ level' = CASE level = "test" -> "suite" [] level = "suite" -> "suites" [] OTHER -> "root"
    /\ IF level = "test"
       THEN /\ ready' = ready \ {item.suite}
            /\ halted' = Halts(item.suite, item.suite \in ready)
            /\ item' = [item EXCEPT !.test = 0]
            /\ frames' = 0
       ELSE /\ item' = Nobody
            /\ UNCHANGED <<ready, halted, frames>>
    /\ UNCHANGED <<running, mode, save, lost, undercut, autoruns>>

\* B at the root, or the black button anywhere.
Exit ==
    /\ Handled
    /\ \/ level = "root" /\ cancelled' = TRUE
       \/ UNCHANGED cancelled
    /\ running' = FALSE
    /\ UNCHANGED <<level, item, mode, save, frames, handles, autoruns>>

\* X: MenuItemSuite::ActivateCurrentSuite never looks at its own submenu.
\* With a test active, the suite is initialized again, run, torn down, and
\* MenuItem::Deactivate tears it down once more as it leaves the test.
RunSuite ==
    /\ Handled
    /\ cancelled' = TRUE
    /\ level \in {"suite", "test"}
    /\ RunWhole({item.suite})
    /\ halted' = (level = "test" /\ Halts(item.suite, FALSE))
    /\ level' = "suite" /\ item' = [item EXCEPT !.test = 0]
    /\ frames' = IF level = "test" THEN 0 ELSE frames
    /\ undercut' = (undercut \/ level = "test")
    /\ UNCHANGED <<running, mode, save, autoruns>>

\* X in the menus above: the suite under the cursor, or nothing.
RunHighlighted ==
    /\ Handled
    /\ cancelled' = TRUE
    /\ level \in {"root", "suites", "settings"}
    /\ \/ level # "settings" /\ \E s \in Suites : RunWhole({s})
       \/ UNCHANGED <<ready, lost>>
    /\ UNCHANGED <<running, level, item, mode, save, frames, halted, undercut, autoruns>>

\* Y: TestDriver::OnY does not go through the root menu.
ToggleMode ==
    /\ Handled
    /\ mode' = IF mode = "single" THEN "continuous" ELSE "single"
    /\ save' = (mode' = "single")
    /\ UNCHANGED <<running, level, item, cancelled, frames, handles, autoruns>>

\* Up or Down released on an active test: CursorUpAndActivate tears the suite
\* down and enters the neighbour.
StepTest ==
    /\ Handled
    /\ cancelled' = TRUE
    /\ level = "test"
    /\ \E d \in {1, LastTest} :
        Enter(item.suite, (item.test + d) % (LastTest + 1), ready \ {item.suite})
    /\ halted' = Halts(item.suite, item.suite \in ready)
    /\ UNCHANGED <<running, mode, save, undercut, autoruns>>

\* A cursor move in a menu, a repeated direction, Left and Right on a test.
MoveCursor ==
    /\ Handled
    /\ cancelled' = TRUE
    /\ UNCHANGED <<running, level, item, mode, save, frames, handles, autoruns>>

-----------------------------------------------------------------------------
(* Drawing: the end of every pass, and of the loop once running_ is reset. *)

Drawn ==
    /\ inLoop /\ ~halted
    /\ inLoop' = running
    /\ fresh' = FALSE
    /\ UNCHANGED <<autorun, exits, burst, events>>

\* (Bug: the countdown is not disarmed before the run.)
CountdownKeepsFiring ==
    /\ Drawn /\ autoruns < 3
    /\ autorun /\ ~cancelled
    /\ autoruns' = autoruns + 1
    /\ RunWhole(Suites)
    /\ UNCHANGED <<running, level, item, cancelled, mode, save, frames, halted, undercut>>

\* MenuItemRoot::Draw: the countdown is over (or autorun_immediately_).
CountdownFires ==
    /\ inLoop /\ ~halted
    /\ autorun /\ ~cancelled
    /\ cancelled' = TRUE
    /\ autoruns' = autoruns + 1
    /\ RunWhole(Suites)
    /\ running' = (running /\ ~exits)
    /\ inLoop' = running'
    /\ fresh' = FALSE
    /\ UNCHANGED <<autorun, exits, level, item, mode, save, frames, halted, undercut, burst,
                   events>>

\* MenuItemTest::Draw: once per entry, or every pass in continuous mode.
TestIsDue == level = "test" /\ (mode = "continuous" \/ frames = 0)

\* (Bug: the frame is drawn and not counted.)
DrawUncounted ==
    /\ Drawn
    /\ TestIsDue
    /\ UNCHANGED <<running, level, item, cancelled, mode, save, frames, handles, autoruns>>

DrawTest ==
    /\ Drawn
    /\ TestIsDue
    /\ frames' = IF frames = 0 THEN 1 ELSE 2
    /\ UNCHANGED <<running, level, item, cancelled, mode, save, handles, autoruns>>

\* Anything else leaves the state alone; it matters only as the last pass.
DrawMenu ==
    /\ Drawn
    /\ ~TestIsDue
    /\ UNCHANGED <<running, level, item, cancelled, mode, save, frames, handles, autoruns>>

Input ==
    \/ SelectMenu \/ SelectRunAll \/ SelectRoutes \/ SelectSetting \/ SelectTest
    \/ Reenter \/ Leave \/ Exit \/ RunSuite \/ RunHighlighted \/ ToggleMode
    \/ StepTest \/ MoveCursor

MenuNext == Input \/ CountdownFires \/ DrawTest \/ DrawMenu

MenuSpec == MenuInit /\ [][MenuNext]_menuVars

-----------------------------------------------------------------------------
(***************************************************************************)
(* Results are saved in single-run mode and only there, whichever of the   *)
(* three ways of changing the mode was used (OnY and the two settings).    *)
(***************************************************************************)
ModeDecidesSaving == save <=> mode = "single"

(***************************************************************************)
(* Handles follow the menu: a suite holds the handles of an Initialize     *)
(* exactly while one of its tests is the active item, so a draw never acts *)
(* on a suite that was torn down and no suite is torn down twice.  Only X  *)
(* on an open test tears down twice and can stop the guest, however A, B,  *)
(* Up and Down are mixed with it.                                          *)
(***************************************************************************)
HandlesFollowMenu ==
    /\ ~halted => ready = IF level = "test" THEN {item.suite} ELSE {}
    /\ halted => undercut

(***************************************************************************)
(* Every Initialize gets its Deinitialize as long as what is handled is    *)
(* drawn before an open test gets its next event, and X is not released on *)
(* an open test: frame_count (menu_item.cpp:1173) then tells OnEnter that  *)
(* the suite is initialized.  It does not after A, A in one pass, where    *)
(* OnEnter initializes an undrawn suite again.                             *)
(***************************************************************************)
OnlyHasteLosesALife == lost # {} => burst \/ undercut

(***************************************************************************)
(* test_suite.h:57-61 pairs Initialize and Deinitialize.  The code does    *)
(* not keep the pairs: a second A or an X while a test waits for its first *)
(* draw, or X on any open test, leaves one life that is never torn down.   *)
(***************************************************************************)
EveryLifeIsTornDown == lost = {}

(***************************************************************************)
(* menu_item.cpp:1426: "Autorun is a one-shot boot action."  It fires at   *)
(* most once, and only from the root menu, so it can never run the suites  *)
(* underneath a test that the user has opened.                             *)
(***************************************************************************)
AutorunOnce ==
    /\ autoruns <= 1
    /\ autoruns = 1 => cancelled
    /\ ~cancelled => level = "root" /\ ready = {}

(***************************************************************************)
(* game_load_composite_tests.cpp:1407:                                     *)
(* ASSERT(WaitForSingleObject(loader_thread_, INFINITE) == WAIT_OBJECT_0)  *)
(* never fails, whatever the user presses.  The code violates this: X on   *)
(* an open test of the suite tears it down twice (menu_item.cpp:1214), and *)
(* the second teardown waits on the null handle the first one left.        *)
(***************************************************************************)
TeardownNeverAsserts == ~halted
=============================================================================
