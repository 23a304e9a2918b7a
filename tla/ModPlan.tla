------------------------------- MODULE ModPlan -------------------------------
(***************************************************************************)
(* The mod selection around netplay (src/mmx_netplay.c).  Offline edits    *)
(* are the player's own; entering netplay opens a temporary selection that *)
(* must be one both peers can run, and leaving restores the player's.  The *)
(* launcher's mod runtime, which stores selections, is external.           *)
(***************************************************************************)
CONSTANTS
    Fixed,         \* the aspects a room may use
    Adaptive,      \* the aspect it may not
    RoomAspect,    \* what Adaptive becomes in a room
    NoValue        \* an option of a package that is not installed

ASSUME PlanAssumption == RoomAspect \in Fixed

Packages == {"coop", "zero", "wide"}
Behaviors == {"original", "modern"}

VARIABLES
    installed,   \* the bundled packages that are there
    plan,        \* the selection in force
    offline,     \* the selection the runtime puts back
    temporary,   \* it has a temporary selection open
    inRoom,      \* s_active
    own, first   \* history: the player's selection, the behaviors at the start

planVars == <<installed, plan, offline, temporary, inRoom, own, first>>

(* A player's selection; both characters' features have one behavior.       *)
Selections(packages) ==
    {[on |-> on, aspect |-> aspect, layout |-> layout, cameras |-> cameras,
      behavior |-> [p \in {"coop", "zero"} |-> IF p \in packages THEN b ELSE NoValue]] :
        on \in SUBSET packages,
        aspect \in IF "wide" \in packages THEN Fixed \cup {Adaptive} ELSE {NoValue},
        layout \in {"unified", "split"}, cameras \in {"unified", "independent"},
        b \in Behaviors}

PlanInit ==
    /\ installed \in SUBSET Packages
    /\ plan \in Selections(installed)
    /\ offline = plan /\ own = plan /\ first = plan.behavior
    /\ temporary = FALSE /\ inRoom = FALSE

-----------------------------------------------------------------------------
(* The mod runtime: it opens a temporary selection, refuses what is not     *)
(* installed, and puts the selection of before back.                        *)
Edited(new) ==
    /\ plan' = new
    /\ IF temporary THEN UNCHANGED <<own, offline>> ELSE own' = new /\ offline' = new
    /\ UNCHANGED <<installed, temporary, inRoom, first>>
WithAspect(new, aspect) ==
    IF "wide" \in installed THEN [new EXCEPT !.aspect = aspect] ELSE new
Enabled(new, pkg) == [new EXCEPT !.on = @ \cup ({pkg} \cap installed)]
Disabled(new, pkg) == [new EXCEPT !.on = @ \ {pkg}]

(* validate_plan.                                                           *)
Valid ==
    /\ inRoom /\ "coop" \in plan.on
    /\ "zero" \notin plan.on
    /\ "wide" \in plan.on => plan.aspect \in Fixed

(* mode_changed(1), on entering the room's page, creating a room and        *)
(* preparing a direct session; in a room it is a repetition.                *)
RoomPlan ==
    LET paired == Enabled(Disabled(plan, "zero"), "coop")
        whole  == [paired EXCEPT !.layout = "unified"]
    IN  IF plan.aspect = Adaptive THEN WithAspect(whole, RoomAspect) ELSE whole
(* Mutant: a repeated entry opens the selection again. *)
EnterRoomAgain ==
    /\ temporary' = TRUE /\ offline' = plan
    /\ inRoom' = TRUE
    /\ plan' = RoomPlan
    /\ UNCHANGED <<installed, own, first>>

EnterRoom ==
    /\ ~inRoom
    /\ temporary' = TRUE /\ offline' = plan
    /\ inRoom' = TRUE
    /\ plan' = RoomPlan
    /\ UNCHANGED <<installed, own, first>>

(* mode_changed(0): the runtime's call is made in a room and out of one.    *)
LeaveRoom ==
    /\ inRoom \/ temporary
    /\ temporary' = FALSE /\ inRoom' = FALSE
    /\ plan' = offline
    /\ UNCHANGED <<installed, offline, own, first>>

(* feature_enable and set_enabled.                                          *)
FeatureEnable(pkg) ==
    /\ ~(inRoom /\ pkg = "zero")
    /\ Edited(Enabled(plan, pkg))
FeatureDisable(pkg) ==
    /\ ~(inRoom /\ pkg = "coop")
    /\ Edited(Disabled(plan, pkg))

(* set_option: the display of a room and of offline play, the shared        *)
(* behavior, the aspect.                                                    *)
SetLayout(value) ==
    /\ ~inRoom /\ "coop" \in installed
    /\ Edited([plan EXCEPT !.layout = value])
SetCameras(value) ==
    /\ inRoom /\ "coop" \in installed
    /\ Edited([plan EXCEPT !.cameras = value])
SetAspect(value) ==
    /\ inRoom => value \in Fixed
    /\ Edited(WithAspect(plan, value))
(* The first package is set, then the other; refused, the first goes back.  *)
SetBehavior(pkg, value) ==
    LET other == CHOOSE p \in {"coop", "zero"} : p # pkg
        alone == [plan EXCEPT !.behavior[pkg] = value]
    IN  /\ pkg \in installed
        /\ Edited(IF other \in installed
                  THEN [alone EXCEPT !.behavior[other] = value]
                  ELSE [alone EXCEPT !.behavior[pkg] = plan.behavior[pkg]])

PlanNext ==
    \/ EnterRoom \/ LeaveRoom
    \/ \E pkg \in Packages : FeatureEnable(pkg) \/ FeatureDisable(pkg)
    \/ \E value \in {"unified", "split"} : SetLayout(value)
    \/ \E value \in {"unified", "independent"} : SetCameras(value)
    \/ \E value \in Fixed \cup {Adaptive} : SetAspect(value)
    \/ \E pkg \in {"coop", "zero"}, value \in Behaviors : SetBehavior(pkg, value)

PlanSpec == PlanInit /\ [][PlanNext]_planVars

-----------------------------------------------------------------------------
(* The two character features show one behavior; when the package of one is *)
(* missing, the other's is refused as well and stays what it was.           *)
BehaviorShared ==
    IF {"coop", "zero"} \subseteq installed
    THEN plan.behavior["coop"] = plan.behavior["zero"]
    ELSE plan.behavior = first

(* In a room every accepted edit leaves a selection that may be launched,   *)
(* unless the co-op package is missing; out of it the player's own          *)
(* selection is in force, whatever was edited in the room.  In both the     *)
(* option that two packages keep is the same in both.                       *)
RoomReady ==
    /\ inRoom /\ "coop" \in installed => Valid
    /\ ~inRoom => plan = own
    /\ BehaviorShared
=============================================================================
