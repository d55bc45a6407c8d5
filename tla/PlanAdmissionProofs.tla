------------------------ MODULE PlanAdmissionProofs ------------------------
(***************************************************************************)
(* For every catalog and every set of configuration files: an admitted     *)
(* plan runs exactly the leaves it selected, and the first file that can   *)
(* be read is read exactly.  The argument for the second follows the walk: *)
(* what has been stored so far is what the part of the file already read   *)
(* says, and every early return contradicts the validity of the file.      *)
(***************************************************************************)
EXTENDS PlanAdmission, FiniteSetTheorems, TLAPS

Whole(S) == \A P \in Pressure : P \cap S # {} => P \subseteq S

\* The walk is past the drive that was chosen for reading.
Opened == drive = "E" /\ phase \notin {"open", "register", "running"} => files["E"].kind = "json"

\* No plan has been read yet.
Fresh == phase \in {"open", "sections", "plan"} => hasPlan = FALSE /\ selected = {}

\* Position at in the ids of the plan being read.
Reading ==
    phase = "ids" => hasPlan = FALSE /\
        \A p \in file.plan : selected = {p.ids[i] : i \in {j \in DOMAIN p.ids : j < at}}

\* The masks hold what has been selected.
InStep == phase = "ids" \/ hasPlan => \A m \in MaskIndex : masks[m] = selected \cap Masked(m)

\* What admission established, and the routes that follow from it.
Admitted ==
    hasPlan /\ (loaded \/ phase \in {"settings", "filter"}) =>
        /\ Whole(selected)
        /\ phase # "settings" => (NeedsXemu => xemu)
        /\ phase = "running" => enabled = Registered \cap {RouteOf[l] : l \in selected}

Typing == selected \subseteq Leaves /\ masks \in [MaskIndex -> SUBSET Leaves]
          /\ at \in Nat \ {0} /\ drive \in Drives /\ files \in [Drives -> Files]

Unloaded == phase \notin {"register", "running"} => loaded = FALSE

IInv == Typing /\ Unloaded /\ Opened /\ (FellBack \/ (Fresh /\ Reading /\ InStep /\ Admitted))

-----------------------------------------------------------------------------

LEMMA InitIInv == Init => IInv
  BY AdmissionAssumption DEF Init, IInv, Typing, Unloaded, Opened, Fresh, Reading, InStep, Admitted,
     FellBack, Default, Masked, Drives

\* A rejection on E: gives the readable file up; one on D: ends unloaded.
LEMMA Rejection ==
  ASSUME IInv, Reject, phase \notin {"register", "running"}, Typing',
         hasPlan' => hasPlan /\ UNCHANGED <<masks, selected>>,
         phase = "open" => UNCHANGED <<masks, selected, hasPlan>> /\ file.kind # "json"
  PROVE  IInv'
<1>1. Unloaded' /\ Opened'
  BY DEF IInv, Unloaded, Opened, Reject
<1>2. CASE FellBack
  <2>1. FellBack'
    BY <1>2 DEF FellBack, Reject
  <2>. QED BY <1>1, <2>1 DEF IInv
<1>3. CASE ~FellBack /\ drive = "E" /\ phase # "open"
  <2>1. FellBack'
    BY <1>3 DEF FellBack, Reject, IInv, Opened
  <2>. QED BY <1>1, <2>1 DEF IInv
<1>4. CASE ~FellBack /\ drive = "E" /\ phase = "open"
  <2>1. phase' = "open" /\ loaded' = FALSE /\ hasPlan' = FALSE /\ selected' = {}
    BY <1>4 DEF Reject, IInv, Fresh, Unloaded
  <2>2. Fresh' /\ Reading' /\ InStep' /\ Admitted'
    BY <2>1 DEF Fresh, Reading, InStep, Admitted
  <2>. QED BY <1>1, <2>2 DEF IInv
<1>5. CASE ~FellBack /\ drive = "D"
  <2>1. phase' = "register" /\ loaded' = FALSE
    BY <1>5 DEF Reject, IInv, Unloaded
  <2>2. Fresh' /\ Reading' /\ Admitted'
    BY <2>1 DEF Fresh, Reading, Admitted
  <2>3. InStep'
    BY <1>5, <2>1 DEF InStep, IInv
  <2>. QED BY <1>1, <2>2, <2>3 DEF IInv
<1>. QED BY <1>2, <1>3, <1>4, <1>5 DEF IInv, Typing, Drives

\* A step that goes on with the same file.
LEMMA Proceeding ==
  ASSUME IInv, Typing', UNCHANGED <<files, drive>>, Unloaded', Opened',
         ~FellBack => Fresh' /\ Reading' /\ InStep' /\ Admitted'
  PROVE  IInv'
  BY DEF IInv, FellBack

LEMMA OpenFileIInv == IInv /\ OpenFile => IInv'
<1> SUFFICES ASSUME IInv, OpenFile PROVE IInv'
  OBVIOUS
<1>0. Typing'
  BY DEF IInv, Typing, OpenFile, Proceed, Reject, config, Drives
<1>1. CASE file.kind # "json"
  BY <1>0, <1>1, Rejection DEF OpenFile, config
<1>2. CASE file.kind = "json"
  <2>1. Unloaded' /\ Opened' /\ UNCHANGED <<files, drive>>
    BY <1>2 DEF OpenFile, Proceed, config, IInv, Unloaded, Opened, file
  <2>2. ~FellBack => Fresh' /\ Reading' /\ InStep' /\ Admitted'
    BY <1>2 DEF OpenFile, Proceed, config, IInv, InStep, Admitted, Fresh, Reading
  <2>. QED BY <1>0, <2>1, <2>2, Proceeding
<1>. QED BY <1>1, <1>2

LEMMA NarrowedType ==
  ASSUME NEW m \in MaskIndex, NEW old \in SUBSET Leaves, NEW f \in Files
  PROVE  Narrowed(f.sections[m], old) \in SUBSET Leaves
<1>1. UNION f.sections[m].bits \subseteq Leaves
  BY AdmissionAssumption DEF AdmissionAssumption, Masked
<1>. QED BY <1>1 DEF Narrowed

LEMMA ParseSectionIInv == IInv /\ ParseSection => IInv'
<1> SUFFICES ASSUME IInv, ParseSection PROVE IInv'
  OBVIOUS
<1> DEFINE s == file.sections[at]
<1>1. at \in MaskIndex /\ file \in Files
  BY DEF ParseSection, IInv, Typing, MaskIndex, file
<1>0. Typing'
  <2>1. Narrowed(s, masks[at]) \in SUBSET Leaves
    BY <1>1, NarrowedType DEF IInv, Typing
  <2>2. masks' \in [MaskIndex -> SUBSET Leaves]
    BY <1>1, <2>1 DEF ParseSection, IInv, Typing
  <2>. QED BY <2>2 DEF IInv, Typing, ParseSection, Reject, Drives
<1>2. CASE s.present /\ masks'[at] = {}
  <2>1. Reject /\ UNCHANGED <<selected, hasPlan>> /\ phase = "sections"
    BY <1>2 DEF ParseSection
  <2>2. CASE ~hasPlan
    BY <1>0, <2>1, <2>2, Rejection
  <2>3. CASE hasPlan
    <3>1. FellBack /\ FellBack'
      BY <2>1, <2>3 DEF IInv, Fresh, FellBack, Reject
    <3>2. Unloaded' /\ Opened'
      BY <2>1 DEF Reject, IInv, Unloaded, Opened
    <3>. QED BY <1>0, <3>1, <3>2 DEF IInv
  <2>. QED BY <2>2, <2>3
<1>3. CASE ~(s.present /\ masks'[at] = {})
  <2>1. UNCHANGED <<files, drive, phase, loaded, enabled, hasPlan, selected>> /\ phase = "sections"
    BY <1>3 DEF ParseSection
  <2>2. Unloaded' /\ Opened'
    BY <2>1 DEF IInv, Unloaded, Opened
  <2>3. ~FellBack => Fresh' /\ Reading' /\ InStep' /\ Admitted'
    BY <2>1 DEF IInv, Fresh, Reading, InStep, Admitted
  <2>. QED BY <1>0, <2>1, <2>2, <2>3, Proceeding
<1>. QED BY <1>2, <1>3

LEMMA SectionsDoneIInv == IInv /\ SectionsDone => IInv'
<1> SUFFICES ASSUME IInv, SectionsDone PROVE IInv'
  OBVIOUS
<1>1. Typing' /\ Unloaded' /\ Opened' /\ UNCHANGED <<files, drive>>
  BY DEF SectionsDone, Proceed, config, IInv, Typing, Unloaded, Opened
<1>2. ~FellBack => Fresh' /\ Reading' /\ InStep' /\ Admitted'
  BY DEF SectionsDone, Proceed, config, IInv, Fresh, Reading, InStep, Admitted
<1>. QED BY <1>1, <1>2, Proceeding

LEMMA ParsePlanIInv == IInv /\ ParsePlan => IInv'
<1> SUFFICES ASSUME IInv, ParsePlan PROVE IInv'
  OBVIOUS
<1>0. Typing'
  BY DEF IInv, Typing, ParsePlan, Proceed, Reject, Drives
<1>1. phase = "plan" /\ UNCHANGED <<hasPlan, selected, files, loaded>>
  BY DEF ParsePlan, Proceed, Reject
<1>2. CASE Reject
  <2>1. CASE ~hasPlan
    BY <1>0, <1>1, <1>2, <2>1, Rejection
  <2>2. CASE hasPlan
    <3>1. FellBack /\ FellBack'
      BY <1>1, <1>2, <2>2 DEF IInv, Fresh, FellBack, Reject
    <3>2. Unloaded' /\ Opened'
      BY <1>1, <1>2 DEF Reject, IInv, Unloaded, Opened
    <3>. QED BY <1>0, <3>1, <3>2 DEF IInv
  <2>. QED BY <2>1, <2>2
<1>3. CASE Proceed("settings") /\ file.plan = {} /\ UNCHANGED masks
  <2>1. Unloaded' /\ Opened' /\ UNCHANGED <<files, drive>>
    BY <1>1, <1>3 DEF Proceed, IInv, Unloaded, Opened
  <2>2. ~FellBack => Fresh' /\ Reading' /\ InStep' /\ Admitted'
    BY <1>1, <1>3 DEF Proceed, IInv, Fresh, Reading, InStep, Admitted
  <2>. QED BY <1>0, <2>1, <2>2, Proceeding
<1>4. CASE Proceed("ids") /\ masks' = [m \in MaskIndex |-> {}]
  <2>1. Unloaded' /\ Opened' /\ UNCHANGED <<files, drive>> /\ phase' = "ids" /\ at' = 1
    BY <1>1, <1>4 DEF Proceed, IInv, Unloaded, Opened
  <2>2. ASSUME ~FellBack PROVE Fresh' /\ Reading' /\ InStep' /\ Admitted'
    <3>1. hasPlan' = FALSE /\ selected' = {}
      BY <1>1, <2>2 DEF IInv, Fresh
    <3>2. Fresh' /\ Admitted'
      BY <2>1, <3>1 DEF Fresh, Admitted
    <3>3. Reading'
      <4>1. ASSUME NEW p \in file'.plan
            PROVE  selected' = {p.ids[i] : i \in {j \in DOMAIN p.ids : j < at'}}
        <5>1. p \in Plan
          BY <2>1, AdmissionAssumption DEF AdmissionAssumption, IInv, Typing, file, File
        <5>2. \A j \in DOMAIN p.ids : ~(j < at')
          BY <5>1, <2>1 DEF Plan
        <5>. QED BY <5>2, <3>1
      <4>. QED BY <4>1, <3>1 DEF Reading
    <3>4. InStep'
      BY <1>4, <3>1 DEF InStep
    <3>. QED BY <3>2, <3>3, <3>4
  <2>. QED BY <1>0, <2>1, <2>2, Proceeding
<1>. QED BY <1>2, <1>3, <1>4 DEF ParsePlan

LEMMA FilePlan ==
  ASSUME IInv, NEW p \in file.plan
  PROVE  p \in Plan /\ (\A q \in file.plan : q = p)
  BY AdmissionAssumption DEF AdmissionAssumption, IInv, Typing, file, File, AtMostOne

LEMMA AdmitIdIInv == IInv /\ AdmitId => IInv'
<1> SUFFICES ASSUME IInv, AdmitId PROVE IInv'
  OBVIOUS
<1>p. PICK p \in file.plan :
        /\ at <= Len(p.ids)
        /\ LET id == p.ids[at] IN
            IF id \in Leaves \ selected
            THEN /\ selected' = selected \cup {id}
                 /\ masks' = [m \in MaskIndex |-> IF MaskOf[id] = m THEN masks[m] \cup {id} ELSE masks[m]]
                 /\ at' = at + 1
                 /\ UNCHANGED <<files, drive, phase, loaded, enabled>>
            ELSE Reject /\ UNCHANGED <<selected, masks>>
  BY DEF AdmitId
<1>1. phase = "ids" /\ UNCHANGED <<files, loaded, enabled, hasPlan, xemu>>
  BY <1>p DEF AdmitId, Reject
<1>2. at \in DOMAIN p.ids /\ p \in Plan /\ \A q \in file.plan : q = p
  BY <1>p, FilePlan DEF Plan, IInv, Typing
<1>3. CASE p.ids[at] \notin Leaves \ selected
  <2>1. Typing'
    BY <1>p, <1>3 DEF IInv, Typing, Reject, Drives
  <2>. QED BY <1>p, <1>1, <1>3, <2>1, Rejection
<1>4. CASE p.ids[at] \in Leaves \ selected
  <2> DEFINE id == p.ids[at]
  <2>1. /\ selected' = selected \cup {id}
        /\ masks' = [m \in MaskIndex |-> IF MaskOf[id] = m THEN masks[m] \cup {id} ELSE masks[m]]
        /\ at' = at + 1
        /\ UNCHANGED <<files, drive, phase, loaded, enabled>>
    BY <1>p, <1>4
  <2>2. Typing'
    BY <2>1, <1>4 DEF IInv, Typing
  <2>3. Unloaded' /\ Opened' /\ UNCHANGED <<files, drive>>
    BY <2>1 DEF IInv, Unloaded, Opened
  <2>4. ASSUME ~FellBack PROVE Fresh' /\ Reading' /\ InStep' /\ Admitted'
    <3>1. phase' = "ids" /\ hasPlan' = FALSE
      BY <1>1, <2>1, <2>4 DEF IInv, Reading
    <3>2. Fresh' /\ Admitted'
      BY <3>1 DEF Fresh, Admitted
    <3>3. Reading'
      <4>1. selected = {p.ids[i] : i \in {j \in DOMAIN p.ids : j < at}}
        BY <1>1, <2>4 DEF IInv, Reading
      <4>2. {j \in DOMAIN p.ids : j < at'} = {j \in DOMAIN p.ids : j < at} \cup {at}
        BY <1>2, <2>1 DEF Plan, IInv, Typing
      <4>3. selected' = {p.ids[i] : i \in {j \in DOMAIN p.ids : j < at'}}
        BY <4>1, <4>2, <2>1
      <4>4. file' = file
        BY <2>1 DEF file
      <4>. QED BY <4>3, <4>4, <1>2, <3>1 DEF Reading
    <3>4. InStep'
      <4>1. ASSUME NEW m \in MaskIndex PROVE masks'[m] = selected' \cap Masked(m)
        <5>1. masks[m] = selected \cap Masked(m)
          BY <1>1, <2>4 DEF IInv, InStep
        <5>2. {id} \cap Masked(m) = IF MaskOf[id] = m THEN {id} ELSE {}
          BY <1>4 DEF Masked
        <5>. QED BY <5>1, <5>2, <2>1
      <4>. QED BY <4>1 DEF InStep
    <3>. QED BY <3>2, <3>3, <3>4
  <2>. QED BY <2>2, <2>3, <2>4, Proceeding
<1>. QED BY <1>3, <1>4

LEMMA AdmitPlanIInv == IInv /\ AdmitPlan => IInv'
<1> SUFFICES ASSUME IInv, AdmitPlan PROVE IInv'
  OBVIOUS
<1>p. PICK p \in file.plan :
        /\ at > Len(p.ids)
        /\ IF selected # {} /\ Cardinality(selected) = p.count /\ PressureIsWhole(p.ids)
           THEN Proceed("settings") /\ hasPlan' = TRUE
           ELSE Reject /\ UNCHANGED hasPlan
  BY DEF AdmitPlan
<1>1. phase = "ids" /\ UNCHANGED <<files, loaded, enabled, masks, selected, xemu>>
  BY <1>p DEF AdmitPlan, Reject, Proceed
<1>0. Typing'
  BY <1>p, <1>1 DEF IInv, Typing, Reject, Proceed, Drives
<1>2. CASE Reject /\ UNCHANGED hasPlan
  BY <1>0, <1>1, <1>2, Rejection
<1>3. CASE PressureIsWhole(p.ids) /\ Proceed("settings") /\ hasPlan' = TRUE
  <2>1. Unloaded' /\ Opened' /\ UNCHANGED <<files, drive>> /\ phase' = "settings"
    BY <1>1, <1>3 DEF Proceed, IInv, Unloaded, Opened
  <2>2. ASSUME ~FellBack PROVE Fresh' /\ Reading' /\ InStep' /\ Admitted'
    <3>1. Fresh' /\ Reading' /\ InStep'
      BY <1>1, <2>1, <2>2 DEF IInv, Fresh, Reading, InStep
    <3>2. selected = {p.ids[i] : i \in DOMAIN p.ids}
      <4>1. {j \in DOMAIN p.ids : j < at} = DOMAIN p.ids
        BY <1>p, FilePlan DEF Plan, IInv, Typing
      <4>. QED BY <4>1, <1>1, <2>2 DEF IInv, Reading
    <3>3. Whole(selected)
      BY <3>2, <1>3 DEF PressureIsWhole, Whole
    <3>4. Admitted'
      BY <3>3, <1>1, <2>1 DEF Admitted, Whole
    <3>. QED BY <3>1, <3>4
  <2>. QED BY <1>0, <2>1, <2>2, Proceeding
<1>. QED BY <1>p, <1>2, <1>3

LEMMA ParseSettingsIInv == IInv /\ ParseSettings => IInv'
<1> SUFFICES ASSUME IInv, ParseSettings PROVE IInv'
  OBVIOUS
<1>1. phase = "settings" /\ UNCHANGED <<files, masks, hasPlan, selected, loaded, enabled>>
  BY DEF ParseSettings, Reject, Proceed
<1>0. Typing'
  BY <1>1 DEF ParseSettings, IInv, Typing, Reject, Proceed, Drives
<1>2. CASE Reject
  BY <1>0, <1>1, <1>2, Rejection
<1>3. CASE Proceed("filter") /\ ~(hasPlan /\ ~xemu' /\ NeedsXemu)
  <2>1. Unloaded' /\ Opened' /\ UNCHANGED <<files, drive>> /\ phase' = "filter"
    BY <1>1, <1>3 DEF Proceed, IInv, Unloaded, Opened
  <2>2. ASSUME ~FellBack PROVE Fresh' /\ Reading' /\ InStep' /\ Admitted'
    <3>1. Fresh' /\ Reading' /\ InStep'
      BY <1>1, <2>1, <2>2 DEF IInv, Fresh, Reading, InStep
    <3>2. NeedsXemu' <=> NeedsXemu
      BY <1>1 DEF NeedsXemu
    <3>3. Admitted'
      BY <3>2, <1>1, <1>3, <2>1, <2>2 DEF IInv, Admitted, Whole
    <3>. QED BY <3>1, <3>3
  <2>. QED BY <1>0, <2>1, <2>2, Proceeding
<1>. QED BY <1>2, <1>3 DEF ParseSettings

LEMMA ParseTestSuitesIInv == IInv /\ ParseTestSuites => IInv'
<1> SUFFICES ASSUME IInv, ParseTestSuites PROVE IInv'
  OBVIOUS
<1>1. phase = "filter" /\ UNCHANGED <<files, masks, hasPlan, selected, xemu, enabled>>
  BY DEF ParseTestSuites, Reject, Accept
<1>0. Typing'
  BY <1>1 DEF ParseTestSuites, IInv, Typing, Reject, Accept, Drives
<1>2. CASE Reject
  BY <1>0, <1>1, <1>2, Rejection
<1>3. CASE Accept
  <2>1. Unloaded' /\ Opened' /\ UNCHANGED <<files, drive>> /\ phase' = "register"
    BY <1>1, <1>3 DEF Accept, IInv, Unloaded, Opened
  <2>2. ASSUME ~FellBack PROVE Fresh' /\ Reading' /\ InStep' /\ Admitted'
    <3>1. Fresh' /\ Reading' /\ InStep'
      BY <1>1, <2>1, <2>2 DEF IInv, Fresh, Reading, InStep
    <3>2. NeedsXemu' <=> NeedsXemu
      BY <1>1 DEF NeedsXemu
    <3>3. Admitted'
      BY <3>2, <1>1, <2>1, <2>2 DEF IInv, Admitted, Whole
    <3>. QED BY <3>1, <3>3
  <2>. QED BY <1>0, <2>1, <2>2, Proceeding
<1>. QED BY <1>2, <1>3 DEF ParseTestSuites

LEMMA ApplyConfigIInv == IInv /\ ApplyConfig => IInv'
<1> SUFFICES ASSUME IInv, ApplyConfig PROVE IInv'
  OBVIOUS
<1>1. /\ phase = "register" /\ phase' = "running"
      /\ UNCHANGED <<files, drive, at, loaded, masks, hasPlan, selected, xemu>>
  BY DEF ApplyConfig, config
<1>0. Typing' /\ Unloaded' /\ Opened'
  BY <1>1 DEF IInv, Typing, Unloaded, Opened
<1>2. ASSUME ~FellBack PROVE Fresh' /\ Reading' /\ InStep' /\ Admitted'
  <2>1. Fresh' /\ Reading' /\ InStep'
    BY <1>1, <1>2 DEF IInv, Fresh, Reading, InStep
  <2>2. (NeedsXemu' <=> NeedsXemu) /\ Registered' = Registered
    BY <1>1 DEF NeedsXemu, Registered
  <2>3. hasPlan => enabled' = Registered \cap {RouteOf[l] : l \in selected}
    BY DEF ApplyConfig
  <2>4. Admitted'
    BY <2>2, <2>3, <1>1, <1>2 DEF IInv, Admitted, Whole
  <2>. QED BY <2>1, <2>4
<1>. QED BY <1>0, <1>1, <1>2, Proceeding

LEMMA StutterIInv == IInv /\ UNCHANGED vars => IInv'
<1> SUFFICES ASSUME IInv, UNCHANGED vars PROVE IInv'
  OBVIOUS
<1>1. Typing' /\ Unloaded' /\ Opened' /\ UNCHANGED <<files, drive>>
  BY DEF vars, config, IInv, Typing, Unloaded, Opened
<1>2. (NeedsXemu' <=> NeedsXemu) /\ Registered' = Registered /\ file' = file
  BY DEF vars, config, NeedsXemu, Registered, file
<1>3. ~FellBack => Fresh' /\ Reading' /\ InStep' /\ Admitted'
  BY <1>2 DEF vars, config, IInv, Fresh, Reading, InStep, Admitted, Whole
<1>. QED BY <1>1, <1>3, Proceeding

\* The invariant decides what runs: a leaf on an enabled route without a mask
\* bit of its own is selected because a pressure route is planned whole.
LEMMA IInvPlanIsWhatRuns == IInv => PlanIsWhatRuns
<1> SUFFICES ASSUME IInv, phase = "running", loaded, hasPlan, ~FellBack,
                    \A l \in selected : RouteOf[l][1] \in XemuOnly \ Checked => xemu
             PROVE  Running = selected
  BY DEF PlanIsWhatRuns
<1>1. Whole(selected) /\ (NeedsXemu => xemu) /\ enabled = Registered \cap {RouteOf[l] : l \in selected}
  BY DEF IInv, Admitted
<1>2. \A m \in MaskIndex : masks[m] = selected \cap Masked(m)
  BY DEF IInv, InStep
<1>3. selected \subseteq Leaves
  BY DEF IInv, Typing
<1>4. ASSUME NEW l \in Leaves, MaskOf[l] # 0
      PROVE  l \in masks[MaskOf[l]] <=> l \in selected
  <2>1. MaskOf[l] \in MaskIndex
    BY <1>4, AdmissionAssumption DEF AdmissionAssumption, MaskIndex
  <2>. QED BY <2>1, <1>2 DEF Masked
<1>5. ASSUME NEW l \in selected PROVE l \in Running
  <2>1. RouteOf[l] \in Registered
    BY <1>1, <1>3 DEF Registered, NeedsXemu
  <2>. QED BY <2>1, <1>1, <1>3, <1>4 DEF Running
<1>6. ASSUME NEW l \in Running PROVE l \in selected
  <2>1. l \in Leaves /\ RouteOf[l] \in enabled /\ (MaskOf[l] # 0 => l \in masks[MaskOf[l]])
    BY DEF Running
  <2>2. CASE MaskOf[l] # 0
    BY <2>1, <2>2, <1>4
  <2>3. CASE MaskOf[l] = 0
    <3>1. PICK k \in selected : RouteOf[k] = RouteOf[l]
      BY <2>1, <1>1
    <3>2. MaskOf[k] = 0
      BY <3>1, <2>1, <2>3, <1>3, AdmissionAssumption DEF AdmissionAssumption
    <3>3. CASE k = l
      BY <3>3
    <3>4. CASE k # l
      <4>1. PICK P \in Pressure : l \in P /\ k \in P
        BY <3>1, <3>2, <3>4, <2>1, <2>3, <1>3, AdmissionAssumption DEF AdmissionAssumption
      <4>. QED BY <4>1, <1>1 DEF Whole
    <3>. QED BY <3>3, <3>4
  <2>. QED BY <2>2, <2>3
<1>. QED BY <1>5, <1>6

(***************************************************************************)
(* PlanIsWhatRuns for every catalog, pressure route, mask layout and set   *)
(* of files the assumption admits.                                         *)
(***************************************************************************)
THEOREM AdmittedPlanRuns == Spec => []PlanIsWhatRuns
<1>1. IInv /\ [Next]_vars => IInv'
  BY OpenFileIInv, ParseSectionIInv, SectionsDoneIInv, ParsePlanIInv, AdmitIdIInv, AdmitPlanIInv,
     ParseSettingsIInv, ParseTestSuitesIInv, ApplyConfigIInv, StutterIInv DEF Next
<1>. QED BY InitIInv, <1>1, IInvPlanIsWhatRuns, PTL DEF Spec

-----------------------------------------------------------------------------
(* The walk through the first readable file.                               *)

\* The sections before the n-th have been read, and none left its mask empty.
SectionsRead(n) ==
    \A m \in MaskIndex : m < n /\ file.sections[m].present => SectionMask(file, m) # {}

MasksRead(n) ==
    \A m \in MaskIndex :
        masks[m] = IF m < n /\ file.sections[m].present THEN SectionMask(file, m) ELSE Masked(m)

NoPlan == planId = "default" /\ hasPlan = FALSE /\ selected = {}
NoSettings == skip = FALSE /\ xemu = FALSE /\ rest = "default"
NoFilter == suiteSkip = <<>> /\ caseSkip = <<>>

\* The first n ids of p are leaves, all different.
Distinct(p, n) ==
    \A i, j \in DOMAIN p.ids : i <= n /\ j <= n => p.ids[i] \in Leaves /\ (p.ids[i] = p.ids[j] => i = j)

PlanIsSound(p) ==
    /\ p.head = "ok" /\ p.ids # <<>> /\ Distinct(p, Len(p.ids))
    /\ p.count = Len(p.ids) /\ PressureIsWhole(p.ids)

PlanRead ==
    /\ SectionsRead(Masks + 1)
    /\ IF file.plan = {} THEN NoPlan /\ MasksRead(Masks + 1)
       ELSE /\ planId = drive /\ hasPlan = TRUE
            /\ \A p \in file.plan : PlanIsSound(p) /\ selected = {p.ids[i] : i \in DOMAIN p.ids}

SettingsRead ==
    /\ file.settings # "bad" /\ (file.settings = "absent" => file.plan # {})
    /\ file.fault = "none"
    /\ (skip <=> TRUE \in file.skip) /\ (xemu <=> TRUE \in file.xemu) /\ rest = drive
    /\ hasPlan /\ NeedsXemu => xemu

Walk ==
    /\ phase = "open" => NoPlan /\ NoSettings /\ NoFilter /\ MasksRead(1)
    /\ phase \notin {"open", "register", "running"} => file.kind = "json" /\ NoFilter
    /\ phase \in {"sections", "plan", "ids", "settings"} => NoSettings
    /\ phase = "sections" => NoPlan /\ SectionsRead(at) /\ MasksRead(at)
    /\ phase = "plan" => NoPlan /\ SectionsRead(Masks + 1) /\ MasksRead(Masks + 1)
    /\ phase = "ids" =>
        /\ SectionsRead(Masks + 1) /\ planId = drive
        /\ IsFiniteSet(selected) /\ Cardinality(selected) = at - 1
        /\ \A p \in file.plan : p.head = "ok" /\ Distinct(p, at - 1) /\ at <= Len(p.ids) + 1
        /\ file.plan # {}
    /\ phase \in {"settings", "filter"} => PlanRead
    /\ phase = "filter" => SettingsRead
    /\ phase \in {"register", "running"} =>
        IF loaded THEN Valid(file) /\ Config = Meaning(file, drive) ELSE ~Valid(files["D"])

Stores ==
    /\ skip \in BOOLEAN /\ xemu \in BOOLEAN

Walked == Stores /\ (IF FellBack THEN ~Valid(files["E"]) ELSE Walk)

LEMMA FileTyping ==
  ASSUME IInv
  PROVE  /\ file \in File /\ AtMostOne(file.plan) /\ AtMostOne(file.filter)
         /\ file.plan \subseteq Plan /\ file.filter \subseteq Filter
         /\ file.skip \in Maybe(BOOLEAN) /\ file.xemu \in Maybe(BOOLEAN)
<1>1. file \in Files
  BY DEF IInv, Typing, file
<1>2. file \in File /\ AtMostOne(file.plan) /\ AtMostOne(file.filter)
  BY <1>1, AdmissionAssumption DEF AdmissionAssumption
<1>. QED BY <1>2 DEF File

\* A rejection of the first readable file is right; what was not readable has
\* left nothing behind.
LEMMA RejectionWalked ==
  ASSUME IInv, Walked, Reject, phase \notin {"register", "running"}, Stores',
         ~FellBack => ~Valid(file),
         phase = "open" => UNCHANGED config /\ file.kind # "json"
  PROVE  Walked'
<1>1. UNCHANGED <<files, loaded>> /\ loaded = FALSE
  BY DEF Reject, IInv, Unloaded
<1>2. CASE FellBack
  <2>1. FellBack' /\ files' = files
    BY <1>2 DEF FellBack, Reject
  <2>. QED BY <1>2, <2>1 DEF Walked
<1>3. CASE ~FellBack /\ drive = "E" /\ phase # "open"
  <2>1. FellBack' /\ file = files["E"]
    BY <1>3 DEF FellBack, Reject, IInv, Opened, file
  <2>. QED BY <1>1, <1>3, <2>1 DEF Walked
<1>4. CASE ~FellBack /\ drive = "E" /\ phase = "open"
  <2>1. drive' = "D" /\ phase' = "open" /\ file.kind # "json" /\ file = files["E"] /\ UNCHANGED config
    BY <1>4 DEF Reject, file
  <2>2. ~FellBack'
    BY <1>1, <2>1 DEF FellBack
  <2>3. NoPlan' /\ NoSettings' /\ NoFilter'
    BY <1>4, <2>1 DEF Walked, Walk, config, NoPlan, NoSettings, NoFilter
  <2>4. MasksRead(1)'
    <3>1. \A m \in MaskIndex : ~(m < 1)
      BY DEF MaskIndex
    <3>2. \A m \in MaskIndex : masks[m] = Masked(m)
      BY <1>4, <3>1 DEF Walked, Walk, MasksRead
    <3>. QED BY <2>1, <3>1, <3>2 DEF MasksRead, config
  <2>5. Walk'
    BY <2>1, <2>3, <2>4 DEF Walk
  <2>. QED BY <2>2, <2>5 DEF Walked
<1>5. CASE ~FellBack /\ drive = "D"
  <2>1. ~FellBack' /\ phase' = "register" /\ loaded' = FALSE /\ file = files["D"] /\ files' = files
    BY <1>1, <1>5 DEF Reject, FellBack, file
  <2>2. ~Valid(files'["D"])
    BY <1>5, <2>1
  <2>3. Walk'
    BY <2>1, <2>2 DEF Walk
  <2>. QED BY <2>1, <2>3 DEF Walked
<1>. QED BY <1>2, <1>3, <1>4, <1>5 DEF IInv, Typing, Drives

LEMMA ProceedingWalked ==
  ASSUME Walked, UNCHANGED <<files, drive>>, Stores', ~FellBack => Walk'
  PROVE  Walked'
  BY DEF Walked, FellBack

LEMMA OpenFileWalked == IInv /\ Walked /\ OpenFile => Walked'
<1> SUFFICES ASSUME IInv, Walked, OpenFile PROVE Walked'
  OBVIOUS
<1>0. Stores' /\ phase = "open" /\ UNCHANGED config
  BY DEF OpenFile, config, Walked, Stores
<1>1. CASE file.kind # "json"
  <2>1. Reject /\ ~Valid(file)
    BY <1>1 DEF OpenFile, Valid
  <2>. QED BY <1>0, <1>1, <2>1, RejectionWalked
<1>2. CASE file.kind = "json"
  <2>1. phase' = "sections" /\ at' = 1 /\ UNCHANGED <<files, drive>>
    BY <1>2 DEF OpenFile, Proceed
  <2>2. ASSUME ~FellBack PROVE Walk'
    <3>1. NoPlan' /\ NoSettings' /\ NoFilter'
      BY <1>0, <2>2 DEF Walked, Walk, config, NoPlan, NoSettings, NoFilter
    <3>2. MasksRead(at)' /\ SectionsRead(at)'
      <4>1. \A m \in MaskIndex : ~(m < 1)
        BY DEF MaskIndex
      <4>2. \A m \in MaskIndex : masks[m] = Masked(m)
        BY <1>0, <2>2, <4>1 DEF Walked, Walk, MasksRead
      <4>. QED BY <1>0, <2>1, <4>1, <4>2 DEF MasksRead, SectionsRead, config
    <3>3. file'.kind = "json"
      BY <1>2, <2>1 DEF file
    <3>. QED BY <2>1, <3>1, <3>2, <3>3 DEF Walk
  <2>. QED BY <1>0, <2>1, <2>2, ProceedingWalked
<1>. QED BY <1>1, <1>2

LEMMA ParseSectionWalked == IInv /\ Walked /\ ParseSection => Walked'
<1> SUFFICES ASSUME IInv, Walked, ParseSection PROVE Walked'
  OBVIOUS
<1> DEFINE s == file.sections[at]
<1>0. /\ Stores' /\ phase = "sections" /\ at \in MaskIndex
      /\ UNCHANGED <<planId, hasPlan, selected, skip, xemu, rest, suiteSkip, caseSkip>>
  BY DEF ParseSection, Walked, Stores, IInv, Typing, MaskIndex
<1>1. masks' = IF s.present THEN [masks EXCEPT ![at] = Narrowed(s, masks[at])] ELSE masks
  BY DEF ParseSection
<1>2. ASSUME ~FellBack, s.present PROVE masks'[at] = SectionMask(file, at)
  <2>1. masks[at] = Masked(at)
    BY <1>0, <1>2 DEF Walked, Walk, MasksRead, MaskIndex
  <2>. QED BY <1>0, <1>1, <1>2, <2>1 DEF IInv, Typing, SectionMask
<1>3. CASE s.present /\ masks'[at] = {}
  <2>1. Reject
    BY <1>3 DEF ParseSection
  <2>2. ~FellBack => ~Valid(file)
    BY <1>0, <1>2, <1>3 DEF Valid
  <2>. QED BY <1>0, <2>1, <2>2, RejectionWalked
<1>4. CASE ~(s.present /\ masks'[at] = {})
  <2>1. at' = at + 1 /\ UNCHANGED <<files, drive, phase, loaded, enabled>>
    BY <1>4 DEF ParseSection
  <2>2. ASSUME ~FellBack PROVE Walk'
    <3>1. NoPlan' /\ NoSettings' /\ NoFilter' /\ file'.kind = "json" /\ file' = file
      BY <1>0, <2>1, <2>2 DEF Walked, Walk, NoPlan, NoSettings, NoFilter, file
    <3>2. SectionsRead(at) /\ MasksRead(at)
      BY <1>0, <2>2 DEF Walked, Walk
    <3>3. \A m \in MaskIndex : m < at + 1 <=> m < at \/ m = at
      BY <1>0 DEF MaskIndex
    <3>4. SectionsRead(at)'
      BY <1>2, <1>4, <2>1, <2>2, <3>1, <3>2, <3>3 DEF SectionsRead
    <3>5. MasksRead(at)'
      <4> SUFFICES ASSUME NEW m \in MaskIndex
                   PROVE  masks'[m] = IF m < at + 1 /\ file.sections[m].present
                                      THEN SectionMask(file, m) ELSE Masked(m)
        BY <2>1, <3>1 DEF MasksRead
      <4>1. CASE m = at
        <5>1. ~s.present => masks'[at] = Masked(at)
          BY <1>0, <1>1, <3>2 DEF MasksRead, MaskIndex
        <5>. QED BY <1>2, <2>2, <3>3, <4>1, <5>1
      <4>2. CASE m # at
        <5>1. masks'[m] = masks[m]
          BY <1>1, <4>2 DEF IInv, Typing
        <5>. QED BY <3>2, <3>3, <4>2, <5>1 DEF MasksRead
      <4>. QED BY <4>1, <4>2
    <3>. QED BY <1>0, <2>1, <3>1, <3>4, <3>5 DEF Walk
  <2>. QED BY <1>0, <2>1, <2>2, ProceedingWalked
<1>. QED BY <1>3, <1>4

LEMMA SectionsDoneWalked == IInv /\ Walked /\ SectionsDone => Walked'
<1> SUFFICES ASSUME IInv, Walked, SectionsDone PROVE Walked'
  OBVIOUS
<1>1. /\ phase = "sections" /\ at > Masks /\ phase' = "plan"
      /\ UNCHANGED <<files, drive>> /\ UNCHANGED config /\ Stores'
  BY DEF SectionsDone, Proceed, config, Walked, Stores
<1>2. ASSUME ~FellBack PROVE Walk'
  <2>1. NoPlan' /\ NoSettings' /\ NoFilter' /\ file'.kind = "json" /\ file' = file
    BY <1>1, <1>2 DEF Walked, Walk, NoPlan, NoSettings, NoFilter, file, config
  <2>2. \A m \in MaskIndex : m < at /\ m < Masks + 1
    BY <1>1, AdmissionAssumption DEF AdmissionAssumption, MaskIndex, IInv, Typing
  <2>3. SectionsRead(Masks + 1)' /\ MasksRead(Masks + 1)'
    BY <1>1, <1>2, <2>1, <2>2 DEF Walked, Walk, SectionsRead, MasksRead, config
  <2>. QED BY <1>1, <2>1, <2>3 DEF Walk
<1>. QED BY <1>1, <1>2, ProceedingWalked

LEMMA ParsePlanWalked == IInv /\ Walked /\ ParsePlan => Walked'
<1> SUFFICES ASSUME IInv, Walked, ParsePlan PROVE Walked'
  OBVIOUS
<1>0. /\ phase = "plan" /\ Stores'
      /\ UNCHANGED <<files, hasPlan, selected, skip, xemu, rest, suiteSkip, caseSkip>>
  BY DEF ParsePlan, Proceed, Reject, Walked, Stores
<1>1. CASE Reject /\ \E p \in file.plan : p.head # "ok"
  <2>1. ~Valid(file)
    BY <1>1 DEF Valid, ValidPlan
  <2>. QED BY <1>0, <1>1, <2>1, RejectionWalked
<1>2. CASE file.plan = {} /\ Proceed("settings") /\ UNCHANGED <<planId, masks>>
  <2>1. phase' = "settings" /\ UNCHANGED <<files, drive>>
    BY <1>2 DEF Proceed
  <2>2. ASSUME ~FellBack PROVE Walk'
    <3>1. NoPlan' /\ NoSettings' /\ NoFilter' /\ file'.kind = "json" /\ file' = file
      BY <1>0, <1>2, <2>1, <2>2 DEF Walked, Walk, NoPlan, NoSettings, NoFilter, file
    <3>2. SectionsRead(Masks + 1)' /\ MasksRead(Masks + 1)'
      BY <1>0, <1>2, <2>2, <3>1 DEF Walked, Walk, SectionsRead, MasksRead
    <3>3. PlanRead'
      BY <1>2, <3>1, <3>2 DEF PlanRead
    <3>. QED BY <2>1, <3>1, <3>3 DEF Walk
  <2>. QED BY <1>0, <2>1, <2>2, ProceedingWalked
<1>3. CASE Proceed("ids") /\ \E p \in file.plan : p.head = "ok" /\ planId' = drive
  <2>1. phase' = "ids" /\ at' = 1 /\ UNCHANGED <<files, drive>>
    BY <1>3 DEF Proceed
  <2>2. ASSUME ~FellBack PROVE Walk'
    <3>1. /\ NoSettings' /\ NoFilter' /\ file'.kind = "json" /\ file' = file
          /\ planId' = drive' /\ selected' = {}
      BY <1>0, <1>3, <2>1, <2>2 DEF Walked, Walk, NoSettings, NoFilter, NoPlan, file
    <3>2. SectionsRead(Masks + 1)'
      BY <1>0, <2>2, <3>1 DEF Walked, Walk, SectionsRead
    <3>3. IsFiniteSet(selected') /\ Cardinality(selected') = at' - 1
      BY <2>1, <3>1, FS_EmptySet
    <3>4. \A p \in file.plan : p.head = "ok" /\ Distinct(p, 0) /\ 1 <= Len(p.ids) + 1
      <4> SUFFICES ASSUME NEW p \in file.plan
                   PROVE  p.head = "ok" /\ Distinct(p, 0) /\ 1 <= Len(p.ids) + 1
        OBVIOUS
      <4>1. p.head = "ok" /\ p \in Plan
        BY <1>3, FilePlan
      <4>2. \A i \in DOMAIN p.ids : ~(i <= 0)
        BY <4>1 DEF Plan
      <4>. QED BY <4>1, <4>2 DEF Distinct, Plan
    <3>. QED BY <1>3, <2>1, <3>1, <3>2, <3>3, <3>4 DEF Walk, Distinct
  <2>. QED BY <1>0, <2>1, <2>2, ProceedingWalked
<1>. QED BY <1>1, <1>2, <1>3 DEF ParsePlan

LEMMA AdmitIdWalked == IInv /\ Walked /\ AdmitId => Walked'
<1> SUFFICES ASSUME IInv, Walked, AdmitId PROVE Walked'
  OBVIOUS
<1>p. PICK p \in file.plan :
        /\ at <= Len(p.ids)
        /\ IF p.ids[at] \in Leaves \ selected
           THEN /\ selected' = selected \cup {p.ids[at]}
                /\ at' = at + 1
                /\ UNCHANGED <<files, drive, phase, loaded, enabled>>
           ELSE Reject /\ UNCHANGED <<selected, masks>>
  BY DEF AdmitId
<1>0. /\ phase = "ids" /\ Stores'
      /\ UNCHANGED <<planId, hasPlan, skip, xemu, rest, suiteSkip, caseSkip>>
  BY DEF AdmitId, Walked, Stores
<1>1. at \in DOMAIN p.ids /\ p \in Plan /\ (\A q \in file.plan : q = p) /\ at \in Nat \ {0}
  BY <1>p, FilePlan DEF Plan, IInv, Typing
<1>2. ~FellBack => selected = {p.ids[i] : i \in {j \in DOMAIN p.ids : j < at}}
  BY <1>0 DEF IInv, Reading
<1>3. CASE p.ids[at] \notin Leaves \ selected
  <2>1. ASSUME ~FellBack PROVE ~Valid(file)
    <3>1. CASE p.ids[at] \notin Leaves
      BY <1>1, <3>1 DEF Valid, ValidPlan
    <3>2. CASE p.ids[at] \in selected
      <4>1. PICK j \in DOMAIN p.ids : j < at /\ p.ids[j] = p.ids[at]
        BY <1>2, <2>1, <3>2
      <4>2. j # at
        BY <1>1, <4>1
      <4>. QED BY <1>1, <4>1, <4>2 DEF Valid, ValidPlan
    <3>. QED BY <1>3, <3>1, <3>2
  <2>. QED BY <1>p, <1>0, <1>3, <2>1, RejectionWalked
<1>4. CASE p.ids[at] \in Leaves \ selected
  <2>1. /\ selected' = selected \cup {p.ids[at]} /\ at' = at + 1
        /\ UNCHANGED <<files, drive, phase, loaded, enabled>>
    BY <1>p, <1>4
  <2>2. ASSUME ~FellBack PROVE Walk'
    <3>1. NoSettings' /\ NoFilter' /\ file'.kind = "json" /\ file' = file /\ planId' = drive'
      BY <1>0, <2>1, <2>2 DEF Walked, Walk, NoSettings, NoFilter, file
    <3>2. SectionsRead(Masks + 1)'
      BY <1>0, <2>2, <3>1 DEF Walked, Walk, SectionsRead
    <3>3. IsFiniteSet(selected') /\ Cardinality(selected') = at' - 1
      <4>1. IsFiniteSet(selected) /\ Cardinality(selected) = at - 1
        BY <1>0, <2>2 DEF Walked, Walk
      <4>2. p.ids[at] \notin selected
        BY <1>4
      <4>3. /\ IsFiniteSet(selected \cup {p.ids[at]})
            /\ Cardinality(selected \cup {p.ids[at]}) = Cardinality(selected) + 1
        BY <4>1, <4>2, FS_AddElement
      <4>. QED BY <1>1, <2>1, <4>1, <4>3
    <3>4. p.head = "ok" /\ Distinct(p, at - 1)
      BY <1>0, <2>2 DEF Walked, Walk
    <3>5. Distinct(p, at)
      <4> SUFFICES ASSUME NEW i \in DOMAIN p.ids, NEW j \in DOMAIN p.ids, i <= at, j <= at
                   PROVE  p.ids[i] \in Leaves /\ (p.ids[i] = p.ids[j] => i = j)
        BY DEF Distinct
      <4>1. /\ i = at \/ (i < at /\ i <= at - 1)
            /\ j = at \/ (j < at /\ j <= at - 1)
        BY <1>1 DEF Plan
      <4>2. i < at => p.ids[i] \in selected
        BY <1>2, <2>2
      <4>3. j < at => p.ids[j] \in selected
        BY <1>2, <2>2
      <4>. QED BY <1>4, <3>4, <4>1, <4>2, <4>3 DEF Distinct
    <3>6. at' - 1 = at /\ at' <= Len(p.ids) + 1
      BY <1>p, <1>1, <2>1 DEF Plan
    <3>7. \A q \in file'.plan : q.head = "ok" /\ Distinct(q, at' - 1) /\ at' <= Len(q.ids) + 1
      BY <1>1, <3>1, <3>4, <3>5, <3>6
    <3>. QED BY <1>p, <1>0, <2>1, <3>1, <3>2, <3>3, <3>7 DEF Walk, Distinct
  <2>. QED BY <1>0, <2>1, <2>2, ProceedingWalked
<1>. QED BY <1>3, <1>4

LEMMA AdmitPlanWalked == IInv /\ Walked /\ AdmitPlan => Walked'
<1> SUFFICES ASSUME IInv, Walked, AdmitPlan PROVE Walked'
  OBVIOUS
<1>p. PICK p \in file.plan :
        /\ at > Len(p.ids)
        /\ IF selected # {} /\ Cardinality(selected) = p.count /\ PressureIsWhole(p.ids)
           THEN Proceed("settings") /\ hasPlan' = TRUE
           ELSE Reject /\ UNCHANGED hasPlan
  BY DEF AdmitPlan
<1>0. /\ phase = "ids" /\ Stores'
      /\ UNCHANGED <<masks, planId, selected, skip, xemu, rest, suiteSkip, caseSkip>>
  BY DEF AdmitPlan, Walked, Stores
<1>1. p \in Plan /\ (\A q \in file.plan : q = p) /\ at \in Nat \ {0}
  BY FilePlan DEF IInv, Typing
<1>2. ASSUME ~FellBack
      PROVE  /\ p.head = "ok" /\ Distinct(p, Len(p.ids)) /\ Cardinality(selected) = Len(p.ids)
             /\ selected = {p.ids[i] : i \in DOMAIN p.ids}
  <2>1. /\ p.head = "ok" /\ Distinct(p, at - 1) /\ at <= Len(p.ids) + 1
        /\ Cardinality(selected) = at - 1
    BY <1>0, <1>2 DEF Walked, Walk
  <2>2. at - 1 = Len(p.ids)
    BY <1>p, <1>1, <2>1 DEF Plan
  <2>3. {j \in DOMAIN p.ids : j < at} = DOMAIN p.ids
    BY <1>p, <1>1 DEF Plan
  <2>4. selected = {p.ids[i] : i \in {j \in DOMAIN p.ids : j < at}}
    BY <1>0, <1>2 DEF IInv, Reading
  <2>. QED BY <2>1, <2>2, <2>3, <2>4
<1>3. CASE ~(selected # {} /\ Cardinality(selected) = p.count /\ PressureIsWhole(p.ids))
  <2>1. ASSUME ~FellBack, Valid(file) PROVE FALSE
    <3>1. p.ids # <<>> /\ p.count = Len(p.ids) /\ PressureIsWhole(p.ids)
      BY <2>1 DEF Valid, ValidPlan
    <3>2. 1 \in DOMAIN p.ids
      BY <1>1, <3>1 DEF Plan
    <3>3. selected # {}
      BY <1>2, <2>1, <3>2
    <3>. QED BY <1>2, <1>3, <2>1, <3>1, <3>3
  <2>2. Reject
    BY <1>p, <1>3
  <2>. QED BY <1>0, <2>1, <2>2, RejectionWalked
<1>4. CASE selected # {} /\ Cardinality(selected) = p.count /\ PressureIsWhole(p.ids)
  <2>1. phase' = "settings" /\ hasPlan' = TRUE /\ UNCHANGED <<files, drive>>
    BY <1>p, <1>4 DEF Proceed
  <2>2. ASSUME ~FellBack PROVE Walk'
    <3>1. /\ NoSettings' /\ NoFilter' /\ file'.kind = "json" /\ file' = file
          /\ planId' = drive'
      BY <1>0, <2>1, <2>2 DEF Walked, Walk, NoSettings, NoFilter, file
    <3>2. SectionsRead(Masks + 1)'
      BY <1>0, <2>2, <3>1 DEF Walked, Walk, SectionsRead
    <3>3. p.ids # <<>>
      <4>1. p.ids = <<>> => DOMAIN p.ids = {}
        BY <1>1 DEF Plan
      <4>. QED BY <1>2, <1>4, <2>2, <4>1
    <3>4. PlanIsSound(p)
      BY <1>2, <1>4, <2>2, <3>3 DEF PlanIsSound
    <3>5. \A q \in file.plan : PlanIsSound(q) /\ selected = {q.ids[i] : i \in DOMAIN q.ids}
      BY <1>1, <1>2, <2>2, <3>4
    <3>6. PlanRead'
      BY <1>p, <1>0, <2>1, <3>1, <3>2, <3>5 DEF PlanRead, PlanIsSound, Distinct
    <3>. QED BY <2>1, <3>1, <3>6 DEF Walk
  <2>. QED BY <1>0, <2>1, <2>2, ProceedingWalked
<1>. QED BY <1>3, <1>4

\* An optional setting over its default.
LEMMA StoredOverFalse ==
  ASSUME NEW option \in Maybe(BOOLEAN)
  PROVE  Stored(option, FALSE) \in BOOLEAN /\ (Stored(option, FALSE) <=> TRUE \in option)
<1>1. option = {} \/ option = {TRUE} \/ option = {FALSE}
  BY DEF Maybe
<1>2. CASE option = {}
  BY <1>2 DEF Stored
<1>3. CASE option = {TRUE}
  <2>1. (CHOOSE v \in {TRUE} : TRUE) = TRUE
    OBVIOUS
  <2>. QED BY <1>3, <2>1 DEF Stored
<1>4. CASE option = {FALSE}
  <2>1. (CHOOSE v \in {FALSE} : TRUE) = FALSE
    OBVIOUS
  <2>. QED BY <1>4, <2>1 DEF Stored
<1>. QED BY <1>1, <1>2, <1>3, <1>4

LEMMA ParseSettingsWalked == IInv /\ Walked /\ ParseSettings => Walked'
<1> SUFFICES ASSUME IInv, Walked, ParseSettings PROVE Walked'
  OBVIOUS
<1>0. phase = "settings" /\ UNCHANGED <<masks, planId, hasPlan, selected, suiteSkip, caseSkip>>
  BY DEF ParseSettings
<1> DEFINE badNow == file.settings = "bad" \/ (file.settings = "absent" /\ ~hasPlan) \/ file.fault = "early"
           badThen == (hasPlan /\ ~xemu' /\ NeedsXemu) \/ file.fault = "late"
<1>1. \/ badNow /\ Reject /\ UNCHANGED <<skip, xemu, rest>>
      \/ /\ ~badNow
         /\ skip' = Stored(file.skip, skip) /\ xemu' = Stored(file.xemu, xemu)
         /\ \/ badThen /\ Reject
            \/ ~badThen /\ Proceed("filter") /\ rest' = drive
  BY DEF ParseSettings
<1>2. Stores'
  <2>1. \A option \in Maybe(BOOLEAN), old \in BOOLEAN : Stored(option, old) \in BOOLEAN
    BY DEF Maybe, Stored
  <2>2. skip \in BOOLEAN /\ xemu \in BOOLEAN
    BY DEF Walked, Stores
  <2> HIDE DEF badNow, badThen
  <2>. QED BY <1>1, <2>1, <2>2, FileTyping DEF Stores
<1>3. ASSUME ~FellBack PROVE PlanRead /\ NoSettings /\ NoFilter /\ file.kind = "json"
  BY <1>0, <1>3 DEF Walked, Walk
<1>4. ASSUME ~FellBack PROVE hasPlan <=> file.plan # {}
  BY <1>3, <1>4 DEF PlanRead, NoPlan
<1>5. ASSUME ~FellBack, ~badNow
      PROVE  (skip' <=> TRUE \in file.skip) /\ (xemu' <=> TRUE \in file.xemu)
  <2>1. skip = FALSE /\ xemu = FALSE
    BY <1>3, <1>5 DEF NoSettings
  <2>. QED BY <1>1, <1>5, <2>1, FileTyping, StoredOverFalse
<1>6. ASSUME ~FellBack, ~badNow, badThen PROVE ~Valid(file)
  <2>1. CASE file.fault = "late"
    BY <2>1 DEF Valid
  <2>2. CASE hasPlan /\ ~xemu' /\ NeedsXemu
    <3>1. PICK p \in file.plan : selected = {p.ids[i] : i \in DOMAIN p.ids}
      BY <1>3, <1>4, <1>6, <2>2 DEF PlanRead
    <3>2. PICK i \in DOMAIN p.ids : RouteOf[p.ids[i]][1] \in Checked
      BY <2>2, <3>1 DEF NeedsXemu
    <3>3. TRUE \notin file.xemu
      BY <1>5, <1>6, <2>2
    <3>. QED BY <3>1, <3>2, <3>3 DEF Valid, ValidPlan
  <2>. QED BY <1>6, <2>1, <2>2
<1>7. CASE badNow
  <2>1. ~FellBack => ~Valid(file)
    BY <1>4, <1>7 DEF Valid
  <2>2. Reject
    BY <1>1, <1>7
  <2>. QED BY <1>0, <1>2, <2>1, <2>2, RejectionWalked
<1>8. CASE ~badNow /\ badThen
  <2>1. Reject
    BY <1>1, <1>8
  <2>. QED BY <1>0, <1>2, <1>6, <1>8, <2>1, RejectionWalked
<1>9. CASE ~badNow /\ ~badThen
  <2>1. phase' = "filter" /\ rest' = drive /\ UNCHANGED <<files, drive>>
    BY <1>1, <1>9 DEF Proceed
  <2>2. ASSUME ~FellBack PROVE Walk'
    <3>1. NoFilter' /\ file'.kind = "json" /\ file' = file
      BY <1>0, <1>3, <2>1, <2>2 DEF NoFilter, file
    <3>2. PlanRead'
      BY <1>0, <1>3, <2>1, <2>2, <3>1
         DEF PlanRead, SectionsRead, MasksRead, NoPlan, PlanIsSound, Distinct
    <3>3. NeedsXemu' <=> NeedsXemu
      BY <1>0 DEF NeedsXemu
    <3>4. file.settings # "bad" /\ (file.settings = "absent" => file.plan # {})
      BY <1>4, <1>9, <2>2
    <3>5. file.fault = "none"
      BY <1>9, FileTyping DEF File
    <3>6. SettingsRead'
      BY <1>0, <1>5, <1>9, <2>1, <2>2, <3>1, <3>3, <3>4, <3>5 DEF SettingsRead
    <3>. QED BY <2>1, <3>1, <3>2, <3>6 DEF Walk
  <2>. QED BY <1>2, <2>1, <2>2, ProceedingWalked
<1>. QED BY <1>7, <1>8, <1>9

\* What is stored over nothing is what is stored.
LEMMA StoredOverNothing ==
  ASSUME NEW S, NEW T, NEW f \in [S -> T]
  PROVE  StoredOver(f, <<>>) = f
<1>1. DOMAIN f = S /\ DOMAIN <<>> = {}
  OBVIOUS
<1>2. DOMAIN f \cup DOMAIN <<>> = S
  BY <1>1
<1>3. StoredOver(f, <<>>) = [k \in S |-> f[k]]
  BY <1>1, <1>2 DEF StoredOver
<1>. QED BY <1>3

\* The whole of a file that was accepted.
LEMMA AcceptedIsValid ==
  ASSUME IInv, Walk, ~FellBack, phase = "filter",
         file.filter # {} => ~hasPlan /\ \A g \in file.filter : ~g.fault
  PROVE  Valid(file)
<1>1. PlanRead /\ SettingsRead /\ file.kind = "json"
  BY DEF Walk
<1>2. hasPlan <=> file.plan # {}
  BY <1>1 DEF PlanRead, NoPlan
<1>3. \A m \in MaskIndex : file.sections[m].present => SectionMask(file, m) # {}
  <2>1. \A m \in MaskIndex : m < Masks + 1
    BY AdmissionAssumption DEF AdmissionAssumption, MaskIndex
  <2>. QED BY <1>1, <2>1 DEF PlanRead, SectionsRead
<1>4. ASSUME NEW p \in file.plan PROVE ValidPlan(p, TRUE \in file.xemu)
  <2>1. PlanIsSound(p) /\ selected = {p.ids[i] : i \in DOMAIN p.ids} /\ hasPlan
    BY <1>1, <1>4 DEF PlanRead
  <2>2. p \in Plan
    BY <1>4, FilePlan
  <2>3. \A i, j \in DOMAIN p.ids : p.ids[i] \in Leaves /\ (p.ids[i] = p.ids[j] => i = j)
    <3>1. \A i \in DOMAIN p.ids : i <= Len(p.ids)
      BY <2>2 DEF Plan
    <3>. QED BY <2>1, <3>1 DEF PlanIsSound, Distinct
  <2>4. (\E i \in DOMAIN p.ids : RouteOf[p.ids[i]][1] \in Checked) => TRUE \in file.xemu
    <3>1. NeedsXemu => xemu
      BY <1>1, <2>1 DEF SettingsRead
    <3>2. xemu => TRUE \in file.xemu
      BY <1>1 DEF SettingsRead
    <3>. QED BY <2>1, <3>1, <3>2 DEF NeedsXemu
  <2>. QED BY <2>1, <2>3, <2>4 DEF ValidPlan, PlanIsSound
<1>. QED BY <1>1, <1>2, <1>3, <1>4 DEF Valid, SettingsRead

\* Equivalence of Booleans is equality.
LEMMA SameTruth ==
  ASSUME NEW S, NEW b \in BOOLEAN, b <=> TRUE \in S
  PROVE  b = (TRUE \in S)
  BY Zenon

LEMMA AcceptedMeans ==
  ASSUME IInv, Walk, Stores, ~FellBack, phase = "filter",
         NEW ss, NEW cs,
         file.filter = {} => ss = <<>> /\ cs = <<>>,
         \A g \in file.filter : ss = g.suites /\ cs = g.cases
  PROVE  Meaning(file, drive) =
           [masks |-> masks, planId |-> planId, hasPlan |-> hasPlan, selected |-> selected,
            skip |-> skip, xemu |-> xemu, rest |-> rest, suiteSkip |-> ss, caseSkip |-> cs]
<1>1. PlanRead /\ SettingsRead
  BY DEF Walk
<1>2. hasPlan <=> file.plan # {}
  BY <1>1 DEF PlanRead, NoPlan
<1>3. hasPlan = (file.plan # {})
  BY <1>1, <1>2 DEF PlanRead, NoPlan
<1>4. selected = Planned(file)
  <2>1. CASE file.plan = {}
    BY <1>1, <2>1 DEF PlanRead, NoPlan, Planned
  <2>2. CASE file.plan # {}
    <3>1. PICK p \in file.plan : TRUE
      BY <2>2
    <3>2. file.plan = {p}
      BY <3>1, FilePlan
    <3>3. selected = {p.ids[i] : i \in DOMAIN p.ids}
      BY <1>1, <3>1 DEF PlanRead
    <3>4. Planned(file) = UNION {{q.ids[i] : i \in DOMAIN q.ids} : q \in {p}}
      BY <3>2 DEF Planned
    <3>. QED BY <3>3, <3>4
  <2>. QED BY <2>1, <2>2
<1>5. masks = [m \in MaskIndex |->
                    IF file.plan # {} THEN Planned(file) \cap Masked(m)
                    ELSE IF file.sections[m].present THEN SectionMask(file, m) ELSE Masked(m)]
  <2> DEFINE meant(m) == IF file.plan # {} THEN Planned(file) \cap Masked(m)
                         ELSE IF file.sections[m].present THEN SectionMask(file, m) ELSE Masked(m)
  <2>1. ASSUME NEW m \in MaskIndex PROVE masks[m] = meant(m)
    <3>1. CASE file.plan # {}
      BY <1>2, <1>4, <2>1, <3>1 DEF IInv, InStep
    <3>2. CASE file.plan = {}
      <4>1. m < Masks + 1
        BY <2>1, AdmissionAssumption DEF AdmissionAssumption, MaskIndex
      <4>. QED BY <1>1, <2>1, <3>2, <4>1 DEF PlanRead, MasksRead
    <3>. QED BY <3>1, <3>2
  <2>2. masks \in [MaskIndex -> SUBSET Leaves]
    BY DEF IInv, Typing
  <2> HIDE DEF meant
  <2>3. masks = [m \in MaskIndex |-> meant(m)]
    BY <2>1, <2>2
  <2>. QED BY <2>3 DEF meant
<1>6. planId = IF file.plan # {} THEN drive ELSE "default"
  BY <1>1 DEF PlanRead, NoPlan
<1>7. skip = (TRUE \in file.skip) /\ xemu = (TRUE \in file.xemu) /\ rest = drive
  <2>1. (skip <=> TRUE \in file.skip) /\ (xemu <=> TRUE \in file.xemu) /\ rest = drive
    BY <1>1 DEF SettingsRead
  <2>2. skip \in BOOLEAN /\ xemu \in BOOLEAN
    BY DEF Stores
  <2>. QED BY <2>1, <2>2, SameTruth
<1>8. /\ ss = (IF file.filter = {} THEN <<>> ELSE (CHOOSE g \in file.filter : TRUE).suites)
      /\ cs = (IF file.filter = {} THEN <<>> ELSE (CHOOSE g \in file.filter : TRUE).cases)
  <2>1. file.filter # {} => (CHOOSE g \in file.filter : TRUE) \in file.filter
    OBVIOUS
  <2>. QED BY <2>1
<1>. QED BY <1>3, <1>4, <1>5, <1>6, <1>7, <1>8 DEF Meaning

LEMMA ParseTestSuitesWalked == IInv /\ Walked /\ ParseTestSuites => Walked'
<1> SUFFICES ASSUME IInv, Walked, ParseTestSuites PROVE Walked'
  OBVIOUS
<1>0. /\ phase = "filter" /\ Stores'
      /\ UNCHANGED <<files, masks, planId, hasPlan, selected, skip, xemu, rest>>
  BY DEF ParseTestSuites, Reject, Accept, Walked, Stores
<1>1. ASSUME ~FellBack PROVE Walk /\ NoFilter /\ (hasPlan <=> file.plan # {})
  BY <1>0, <1>1 DEF Walked, Walk, PlanRead, NoPlan
<1>2. CASE Reject /\ file.filter # {} /\ (hasPlan \/ \E g \in file.filter : g.fault)
  <2>1. ~FellBack => ~Valid(file)
    BY <1>1, <1>2 DEF Valid
  <2>. QED BY <1>0, <1>2, <2>1, RejectionWalked
<1>3. CASE /\ Accept
           /\ file.filter # {} => ~hasPlan /\ \A g \in file.filter : ~g.fault
           /\ file.filter = {} => UNCHANGED <<suiteSkip, caseSkip>>
           /\ \A g \in file.filter : /\ suiteSkip' = StoredOver(g.suites, suiteSkip)
                                     /\ caseSkip' = StoredOver(g.cases, caseSkip)
  <2>1. phase' = "register" /\ loaded' = TRUE /\ UNCHANGED <<files, drive>>
    BY <1>3 DEF Accept
  <2>2. ASSUME ~FellBack PROVE Walk'
    <3>1. Valid(file)
      BY <1>0, <1>1, <1>3, <2>2, AcceptedIsValid
    <3>2. file.filter = {} => suiteSkip' = <<>> /\ caseSkip' = <<>>
      BY <1>1, <1>3, <2>2 DEF NoFilter
    <3>3. ASSUME NEW g \in file.filter PROVE suiteSkip' = g.suites /\ caseSkip' = g.cases
      <4>1. g \in Filter /\ suiteSkip = <<>> /\ caseSkip = <<>>
        BY <1>1, <2>2, <3>3, FileTyping DEF NoFilter
      <4>2. /\ \E S \in SUBSET Suites : g.suites \in [S -> BOOLEAN]
            /\ \E T : \E S \in SUBSET Suites : g.cases \in [S -> T]
        <5>1. g.suites \in UNION {[S -> BOOLEAN] : S \in SUBSET Suites}
          BY <4>1 DEF Filter
        <5>2. g.cases \in UNION {[S -> UNION {[T -> BOOLEAN] : T \in SUBSET Tests \ {{}}}] : S \in SUBSET Suites}
          BY <4>1 DEF Filter
        <5>. QED BY <5>1, <5>2
      <4>3. StoredOver(g.suites, <<>>) = g.suites /\ StoredOver(g.cases, <<>>) = g.cases
        BY <4>2, StoredOverNothing
      <4>. QED BY <1>3, <3>3, <4>1, <4>3
    <3>4. Meaning(file, drive) =
            [masks |-> masks, planId |-> planId, hasPlan |-> hasPlan, selected |-> selected,
             skip |-> skip, xemu |-> xemu, rest |-> rest,
             suiteSkip |-> suiteSkip', caseSkip |-> caseSkip']
      BY <1>0, <1>1, <2>2, <3>2, <3>3, AcceptedMeans DEF Walked
    <3>5. Config' = Meaning(file, drive)
      BY <1>0, <3>4 DEF Config
    <3>6. file' = file /\ drive' = drive
      BY <2>1 DEF file
    <3>7. Valid(file') /\ Config' = Meaning(file', drive')
      BY <3>1, <3>5, <3>6
    <3>. QED BY <2>1, <3>7 DEF Walk
  <2>. QED BY <1>0, <2>1, <2>2, ProceedingWalked
<1>. QED
  <2>1. ASSUME NEW f \in file.filter PROVE file.filter = {f}
    BY FileTyping DEF AtMostOne
  <2>. QED BY <1>2, <1>3, <2>1 DEF ParseTestSuites

LEMMA ApplyConfigWalked == IInv /\ Walked /\ (ApplyConfig \/ UNCHANGED vars) => Walked'
<1> SUFFICES ASSUME IInv, Walked, ApplyConfig \/ UNCHANGED vars PROVE Walked'
  OBVIOUS
<1>1. UNCHANGED <<files, drive, at, loaded>> /\ UNCHANGED config /\ Stores'
  BY DEF ApplyConfig, vars, Walked, Stores, config
<1>2. phase' = phase \/ (phase = "register" /\ phase' = "running")
  BY DEF ApplyConfig, vars
<1>3. Config' = Config /\ file' = file
  BY <1>1 DEF config, Config, file
<1>4. ASSUME ~FellBack PROVE Walk'
  <2>1. /\ NoPlan' = NoPlan /\ NoSettings' = NoSettings /\ NoFilter' = NoFilter
        /\ NeedsXemu' = NeedsXemu
    BY <1>1 DEF config, NoPlan, NoSettings, NoFilter, NeedsXemu
  <2>2. /\ MasksRead(1)' = MasksRead(1) /\ MasksRead(at)' = MasksRead(at)
        /\ MasksRead(Masks + 1)' = MasksRead(Masks + 1)
        /\ SectionsRead(at)' = SectionsRead(at) /\ SectionsRead(Masks + 1)' = SectionsRead(Masks + 1)
    BY <1>1, <1>3 DEF config, MasksRead, SectionsRead
  <2>3. PlanRead' = PlanRead
    BY <1>1, <1>3, <2>1, <2>2 DEF config, PlanRead, PlanIsSound, Distinct
  <2>4. SettingsRead' = SettingsRead
    BY <1>1, <1>3, <2>1 DEF config, SettingsRead
  <2>. QED BY <1>1, <1>2, <1>3, <1>4, <2>1, <2>2, <2>3, <2>4 DEF Walked, Walk, config, Distinct
<1>. QED BY <1>1, <1>4, ProceedingWalked

LEMMA InitWalked == Init => Walked
<1> SUFFICES ASSUME Init PROVE Walked
  OBVIOUS
<1>1. NoPlan /\ NoSettings /\ NoFilter /\ Stores /\ phase = "open" /\ ~FellBack
  BY DEF Init, Default, NoPlan, NoSettings, NoFilter, Stores, FellBack
<1>2. MasksRead(1)
  BY DEF Init, Default, MasksRead, MaskIndex
<1>. QED BY <1>1, <1>2 DEF Walked, Walk

(***************************************************************************)
(* FirstFileIsReadExactly for every catalog and every set of files the     *)
(* assumption admits: the first readable file is accepted exactly if it is *)
(* valid, and what is stored then is what it says, although the walk       *)
(* stores as it goes.                                                      *)
(***************************************************************************)
THEOREM ReadsFirstFileExactly == Spec => []FirstFileIsReadExactly
<1>1. IInv /\ Walked /\ [Next]_vars => Walked'
  BY OpenFileWalked, ParseSectionWalked, SectionsDoneWalked, ParsePlanWalked, AdmitIdWalked,
     AdmitPlanWalked, ParseSettingsWalked, ParseTestSuitesWalked, ApplyConfigWalked DEF Next
<1>2. IInv /\ [Next]_vars => IInv'
  BY OpenFileIInv, ParseSectionIInv, SectionsDoneIInv, ParsePlanIInv, AdmitIdIInv, AdmitPlanIInv,
     ParseSettingsIInv, ParseTestSuitesIInv, ApplyConfigIInv, StutterIInv DEF Next
<1>3. Walked => FirstFileIsReadExactly
  BY DEF Walked, Walk, FirstFileIsReadExactly
<1>. QED BY InitIInv, InitWalked, <1>1, <1>2, <1>3, PTL DEF Spec
=============================================================================
