--------------------------- MODULE PlanAdmission ---------------------------
(***************************************************************************)
(* From the configuration files to the routes that run: main.cpp's         *)
(* LoadConfig reads E: and, if that fails, D: into the same RuntimeConfig; *)
(* RegisterSuites and ApplyConfig then choose the suites and tests.        *)
(*                                                                         *)
(* RuntimeConfig::LoadConfigBuffer walks the file once and stores as it    *)
(* goes, so a file rejected half way has already changed the object.  Each *)
(* action below is one section of that walk.                               *)
(*                                                                         *)
(* A stage mask is the set of leaves its bits select.  Settings are one    *)
(* stored before enable_xemu_only_tests (skip_tests_by_default), that one, *)
(* and those stored after it together.  Autorun, delays, multipliers and   *)
(* per-stage numbers select no test and are left out.                      *)
(***************************************************************************)
EXTENDS Integers, Sequences, FiniteSets

CONSTANTS
    Leaves,      \* catalog leaves
    OtherIds,    \* group ids and ids the catalog does not have
    Suites, Tests,
    RouteOf,     \* legacy_suite and execution_test of each leaf
    Masks,       \* number of stage masks; their sections are read in order
    MaskOf,      \* the mask whose bit selects a leaf, or 0
    Pressure,    \* the checkpoint sets that must be planned whole
    XemuOnly,    \* suites registered only with enable_xemu_only_tests
    Checked,     \* those of them whose plans are refused without it
    Files        \* configuration files that may lie on a drive

Ids == Leaves \cup OtherIds
Route == Suites \X Tests
MaskIndex == 1 .. Masks
Masked(m) == {l \in Leaves : MaskOf[l] = m}

\* An optional value is the empty set or a singleton.
AtMostOne(S) == \A x, y \in S : x = y
Maybe(S) == {{}} \cup {{x} : x \in S}

\* A section of game_load_composite: stage_mask, then the stages object.
Section == [present : BOOLEAN, bits : Maybe(SUBSET Leaves), stages : Maybe(SUBSET Leaves)]

\* resolved_plan.  A bad schema is found before plan_id is stored, a bad
\* catalog after it.
Plan == [head : {"ok", "bad_schema", "bad_catalog"}, ids : Seq(Ids), count : Nat]

\* test_suites; fault says whether the walk ends in an error.
Filter == [suites : UNION {[S -> BOOLEAN] : S \in SUBSET Suites},
           cases : UNION {[S -> UNION {[T -> BOOLEAN] : T \in SUBSET Tests \ {{}}}] : S \in SUBSET Suites},
           fault : BOOLEAN]

\* settings is the member of that name; without it a plan reads the same
\* members from the root.  fault is the first ill-typed setting.
File == [kind : {"missing", "garbled", "json"},
         sections : [MaskIndex -> Section],
         plan : SUBSET Plan,
         settings : {"object", "absent", "bad"},
         skip : Maybe(BOOLEAN), xemu : Maybe(BOOLEAN),
         fault : {"none", "early", "late"},
         filter : SUBSET Filter]

ASSUME AdmissionAssumption ==
    /\ Leaves \cap OtherIds = {}
    /\ RouteOf \in [Leaves -> Route]
    /\ Masks \in Nat
    /\ MaskOf \in [Leaves -> 0 .. Masks]
    /\ \A l, k \in Leaves : MaskOf[l] # 0 => (MaskOf[k] = MaskOf[l] <=> RouteOf[k] = RouteOf[l])
    /\ \A P \in Pressure : P \subseteq Leaves /\ \A l \in P : MaskOf[l] = 0
    /\ \A l, k \in Leaves : l # k /\ RouteOf[l] = RouteOf[k] /\ MaskOf[l] = 0 =>
        \E P \in Pressure : l \in P /\ k \in P
    /\ Checked \subseteq XemuOnly /\ XemuOnly \subseteq Suites
    /\ \A f \in Files :
        /\ f \in File /\ AtMostOne(f.plan) /\ AtMostOne(f.filter)
        /\ \A m \in MaskIndex : UNION f.sections[m].bits \subseteq Masked(m)

VARIABLES
    files,       \* what lies on E: and D:
    drive,       \* the drive being read
    phase, at,   \* position in the walk
    loaded,      \* what LoadConfig returned
    (* RuntimeConfig *)
    masks,       \* test_suite_config_.game_load_composite_*_stage_mask
    planId,      \* the drive plan_id_ came from
    hasPlan, selected,
    skip, xemu, rest,
    suiteSkip, caseSkip,
    enabled      \* routes left after ApplyConfig

config == <<masks, planId, hasPlan, selected, skip, xemu, rest, suiteSkip, caseSkip>>
vars == <<files, drive, phase, at, loaded, config, enabled>>

Drives == {"E", "D"}
From == {"default"} \cup Drives
Phases == {"open", "sections", "plan", "ids", "settings", "filter", "register", "running"}
Skips == UNION {[S -> BOOLEAN] : S \in SUBSET Suites}

TypeOK ==
    /\ files \in [Drives -> Files] /\ drive \in Drives
    /\ phase \in Phases /\ at \in Nat /\ loaded \in BOOLEAN
    /\ masks \in [MaskIndex -> SUBSET Leaves]
    /\ planId \in From /\ hasPlan \in BOOLEAN /\ selected \in SUBSET Leaves
    /\ skip \in BOOLEAN /\ xemu \in BOOLEAN /\ rest \in From
    /\ suiteSkip \in Skips
    /\ DOMAIN caseSkip \subseteq Suites
    /\ \A s \in DOMAIN caseSkip : DOMAIN caseSkip[s] \subseteq Tests
    /\ enabled \in SUBSET Route

Default ==
    [masks |-> [m \in MaskIndex |-> Masked(m)], planId |-> "default", hasPlan |-> FALSE,
     selected |-> {}, skip |-> FALSE, xemu |-> FALSE, rest |-> "default",
     suiteSkip |-> <<>>, caseSkip |-> <<>>]

Init ==
    /\ files \in [Drives -> Files]
    /\ drive = "E" /\ phase = "open" /\ at = 1 /\ loaded = FALSE
    /\ masks = Default.masks /\ planId = Default.planId
    /\ hasPlan = Default.hasPlan /\ selected = Default.selected
    /\ skip = Default.skip /\ xemu = Default.xemu /\ rest = Default.rest
    /\ suiteSkip = Default.suiteSkip /\ caseSkip = Default.caseSkip
    /\ enabled = {}

file == files[drive]

-----------------------------------------------------------------------------
(* main.cpp's LoadConfig. *)

\* A false return: D: is next, or the run starts with what there is.
Reject ==
    /\ IF drive = "E" THEN drive' = "D" /\ phase' = "open"
                      ELSE drive' = drive /\ phase' = "register"
    /\ at' = 1
    /\ UNCHANGED <<files, loaded, enabled>>

Accept ==
    /\ phase' = "register" /\ loaded' = TRUE
    /\ at' = 1
    /\ UNCHANGED <<files, drive, enabled>>

Proceed(next) ==
    /\ phase' = next /\ at' = 1
    /\ UNCHANGED <<files, drive, loaded, enabled>>

\* Missing, too large, or not JSON.
OpenFile ==
    /\ phase = "open"
    /\ IF file.kind = "json" THEN Proceed("sections") ELSE Reject
    /\ UNCHANGED config

-----------------------------------------------------------------------------
(* RuntimeConfig::LoadConfigBuffer. *)

\* The stages of a section, given the mask so far.
Narrowed(s, old) ==
    LET bits == IF s.bits = {} THEN old ELSE UNION s.bits
    IN IF s.stages = {} THEN bits ELSE bits \cap UNION s.stages

ParseSection ==
    /\ phase = "sections" /\ at <= Masks
    /\ LET s == file.sections[at] IN
        /\ masks' = IF s.present THEN [masks EXCEPT ![at] = Narrowed(s, @)] ELSE masks
        /\ IF s.present /\ masks'[at] = {}
           THEN Reject
           ELSE /\ at' = at + 1
                /\ UNCHANGED <<files, drive, phase, loaded, enabled>>
    /\ UNCHANGED <<planId, hasPlan, selected, skip, xemu, rest, suiteSkip, caseSkip>>

SectionsDone ==
    /\ phase = "sections" /\ at > Masks
    /\ Proceed("plan")
    /\ UNCHANGED config

\* The head of a plan takes the masks over.
ParsePlan ==
    /\ phase = "plan"
    /\ \/ /\ file.plan = {}
          /\ Proceed("settings")
          /\ UNCHANGED <<planId, masks>>
       \/ \E p \in file.plan :
            /\ planId' = IF p.head = "bad_schema" THEN planId ELSE drive
            /\ IF p.head = "ok"
               THEN Proceed("ids") /\ masks' = [m \in MaskIndex |-> {}]
               ELSE Reject /\ UNCHANGED masks
    /\ UNCHANGED <<hasPlan, selected, skip, xemu, rest, suiteSkip, caseSkip>>

\* (Bug: an id that occurs again is passed over.)
AdmitAgain ==
    /\ phase = "ids"
    /\ \E p \in file.plan :
        /\ at <= Len(p.ids)
        /\ LET id == p.ids[at] IN
            IF id \in Leaves
            THEN /\ selected' = selected \cup {id}
                 /\ masks' = [m \in MaskIndex |-> IF MaskOf[id] = m THEN masks[m] \cup {id} ELSE masks[m]]
                 /\ at' = at + 1
                 /\ UNCHANGED <<files, drive, phase, loaded, enabled>>
            ELSE Reject /\ UNCHANGED <<selected, masks>>
    /\ UNCHANGED <<planId, hasPlan, skip, xemu, rest, suiteSkip, caseSkip>>

AdmitId ==
    /\ phase = "ids"
    /\ \E p \in file.plan :
        /\ at <= Len(p.ids)
        /\ LET id == p.ids[at] IN
            IF id \in Leaves \ selected
            THEN /\ selected' = selected \cup {id}
                 /\ masks' = [m \in MaskIndex |-> IF MaskOf[id] = m THEN masks[m] \cup {id} ELSE masks[m]]
                 /\ at' = at + 1
                 /\ UNCHANGED <<files, drive, phase, loaded, enabled>>
            ELSE Reject /\ UNCHANGED <<selected, masks>>
    /\ UNCHANGED <<planId, hasPlan, skip, xemu, rest, suiteSkip, caseSkip>>

\* Whole, as far as the ids just read go; ids of an earlier file do not count.
PressureIsWhole(ids) ==
    \A P \in Pressure : {i \in DOMAIN ids : ids[i] \in P} # {} => P \subseteq {ids[i] : i \in DOMAIN ids}

\* (Bug: a pressure route may be planned in part.)
AdmitPartOfAPlan ==
    /\ phase = "ids"
    /\ \E p \in file.plan :
        /\ at > Len(p.ids)
        /\ IF selected # {} /\ Cardinality(selected) = p.count
           THEN Proceed("settings") /\ hasPlan' = TRUE
           ELSE Reject /\ UNCHANGED hasPlan
    /\ UNCHANGED <<masks, planId, selected, skip, xemu, rest, suiteSkip, caseSkip>>

AdmitPlan ==
    /\ phase = "ids"
    /\ \E p \in file.plan :
        /\ at > Len(p.ids)
        /\ IF selected # {} /\ Cardinality(selected) = p.count /\ PressureIsWhole(p.ids)
           THEN Proceed("settings") /\ hasPlan' = TRUE
           ELSE Reject /\ UNCHANGED hasPlan
    /\ UNCHANGED <<masks, planId, selected, skip, xemu, rest, suiteSkip, caseSkip>>

Stored(option, old) == IF option = {} THEN old ELSE CHOOSE v \in option : TRUE

NeedsXemu == \E l \in selected : RouteOf[l][1] \in Checked

ParseSettings ==
    /\ phase = "settings"
    /\ IF file.settings = "bad" \/ (file.settings = "absent" /\ ~hasPlan) \/ file.fault = "early"
       THEN Reject /\ UNCHANGED <<skip, xemu, rest>>
       ELSE /\ skip' = Stored(file.skip, skip)
            /\ xemu' = Stored(file.xemu, xemu)
            /\ IF (hasPlan /\ ~xemu' /\ NeedsXemu) \/ file.fault = "late"
               THEN Reject /\ UNCHANGED rest
               ELSE Proceed("filter") /\ rest' = drive
    /\ UNCHANGED <<masks, planId, hasPlan, selected, suiteSkip, caseSkip>>

\* What was stored before, with what is stored now over it.
StoredOver(new, old) ==
    [k \in DOMAIN new \cup DOMAIN old |-> IF k \in DOMAIN new THEN new[k] ELSE old[k]]

\* ParseTestSuites: what it read before an error stays.
ParseTestSuites ==
    /\ phase = "filter"
    /\ \/ file.filter = {} /\ Accept /\ UNCHANGED <<suiteSkip, caseSkip>>
       \/ file.filter # {} /\ hasPlan /\ Reject /\ UNCHANGED <<suiteSkip, caseSkip>>
       \/ \E f \in file.filter :
            /\ ~hasPlan
            /\ suiteSkip' = StoredOver(f.suites, suiteSkip)
            /\ caseSkip' = StoredOver(f.cases, caseSkip)
            /\ IF f.fault THEN Reject ELSE Accept
    /\ UNCHANGED <<masks, planId, hasPlan, selected, skip, xemu, rest>>

-----------------------------------------------------------------------------
(* RegisterSuites and ApplyConfig. *)

Registered == {r \in {RouteOf[l] : l \in Leaves} : r[1] \in XemuOnly => xemu}

\* The nearest setting wins: test, suite, default.
Skipped(r) ==
    IF r[1] \in DOMAIN caseSkip /\ r[2] \in DOMAIN caseSkip[r[1]] THEN caseSkip[r[1]][r[2]]
    ELSE IF r[1] \in DOMAIN suiteSkip THEN suiteSkip[r[1]] ELSE skip

ApplyConfig ==
    /\ phase = "register"
    /\ enabled' = IF hasPlan THEN Registered \cap {RouteOf[l] : l \in selected}
                  ELSE {r \in Registered : ~Skipped(r)}
    /\ phase' = "running"
    /\ UNCHANGED <<files, drive, at, loaded, config>>

\* The leaves the enabled routes record.
Running == {l \in Leaves : RouteOf[l] \in enabled /\ (MaskOf[l] # 0 => l \in masks[MaskOf[l]])}

Next ==
    \/ OpenFile \/ ParseSection \/ SectionsDone \/ ParsePlan \/ AdmitId \/ AdmitPlan
    \/ ParseSettings \/ ParseTestSuites \/ ApplyConfig

Spec == Init /\ [][Next]_vars

-----------------------------------------------------------------------------
(* What one file means, without the walk. *)

SectionMask(f, m) == Narrowed(f.sections[m], Masked(m))

ValidPlan(p, canXemu) ==
    /\ p.head = "ok"
    /\ p.ids # <<>>
    /\ \A i, j \in DOMAIN p.ids : p.ids[i] \in Leaves /\ (p.ids[i] = p.ids[j] => i = j)
    /\ p.count = Len(p.ids)
    /\ PressureIsWhole(p.ids)
    /\ (\E i \in DOMAIN p.ids : RouteOf[p.ids[i]][1] \in Checked) => canXemu

Valid(f) ==
    /\ f.kind = "json"
    /\ \A m \in MaskIndex : f.sections[m].present => SectionMask(f, m) # {}
    /\ \A p \in f.plan : ValidPlan(p, TRUE \in f.xemu)
    /\ f.settings # "bad" /\ (f.settings = "absent" => f.plan # {})
    /\ f.fault = "none"
    /\ f.filter # {} => f.plan = {} /\ \A g \in f.filter : ~g.fault

Planned(f) == UNION {{p.ids[i] : i \in DOMAIN p.ids} : p \in f.plan}

Meaning(f, d) ==
    [masks |-> [m \in MaskIndex |->
                    IF f.plan # {} THEN Planned(f) \cap Masked(m)
                    ELSE IF f.sections[m].present THEN SectionMask(f, m) ELSE Masked(m)],
     planId |-> IF f.plan # {} THEN d ELSE "default",
     hasPlan |-> f.plan # {}, selected |-> Planned(f),
     skip |-> (TRUE \in f.skip), xemu |-> (TRUE \in f.xemu), rest |-> d,
     suiteSkip |-> IF f.filter = {} THEN <<>> ELSE (CHOOSE g \in f.filter : TRUE).suites,
     caseSkip |-> IF f.filter = {} THEN <<>> ELSE (CHOOSE g \in f.filter : TRUE).cases]

Config == [masks |-> masks, planId |-> planId, hasPlan |-> hasPlan, selected |-> selected,
           skip |-> skip, xemu |-> xemu, rest |-> rest,
           suiteSkip |-> suiteSkip, caseSkip |-> caseSkip]

\* Has a readable E: file been given up for D:?
FellBack == drive = "D" /\ files["E"].kind = "json"

(***************************************************************************)
(* The first file that can be read is accepted exactly if it is valid, and *)
(* then the object holds what the file says: the walk's order, its early   *)
(* returns and its stores on the way make no difference.                   *)
(***************************************************************************)
FirstFileIsReadExactly ==
    /\ phase \in {"register", "running"} /\ loaded /\ ~FellBack =>
        Valid(file) /\ Config = Meaning(file, drive)
    /\ FellBack => ~Valid(files["E"])
    /\ phase \in {"register", "running"} /\ ~loaded /\ ~FellBack => ~Valid(files["D"])

(***************************************************************************)
(* What an admitted plan runs is what it selected: every selected leaf is  *)
(* on an enabled route with its stage bit set, and the enabled routes      *)
(* record no other leaf.  This is what ValidateResolvedPlan relies on to   *)
(* call the run COMPLETE.  (For plans accepted from the first readable     *)
(* file, with suites that exist in the build.)                             *)
(***************************************************************************)
PlanIsWhatRuns ==
    phase = "running" /\ loaded /\ hasPlan /\ ~FellBack
        /\ (\A l \in selected : RouteOf[l][1] \in XemuOnly \ Checked => xemu)
    => Running = selected

(***************************************************************************)
(* main.cpp:99: "Failed to load config, using default values."  The object *)
(* in force is that of the file that was accepted, or the default: a file  *)
(* that was rejected leaves no trace.                                      *)
(***************************************************************************)
RejectedFileLeavesNoTrace ==
    phase = "running" => Config = IF loaded THEN Meaning(file, drive) ELSE Default
=============================================================================
