-------------------------- MODULE HostServices_proof --------------------------
(***************************************************************************)
(* What the small machines keep, for every set of passwords, songs, aspects *)
(* bosses and tasks: each invariant by one strengthening of its own; and    *)
(* who may break an enemy's invincibility, for every number of enemies and  *)
(* slots, every ladder of priorities, every window and however early the    *)
(* generations wrap.                                                        *)
(***************************************************************************)
EXTENDS PasswordFile, ScoreFile, Msu1Music, ModPlan, Replay, MCBossQueue, TaskFibers, SaberPriority,
        BossDraw_proof

-----------------------------------------------------------------------------
(* The password file.  What a replacement puts aside is the file until the *)
(* rename, and by then the backup as well.                                 *)
PasswordInv ==
    /\ PasswordTypeOK
    /\ pc \in {"write", "exists", "copy", "rename"} => prior = main
    /\ pc \in {"exists", "copy", "rename"} => tmp = target
    /\ pc = "rename" => main = Missing \/ bak = main
    /\ PasswordKept

LEMMA PasswordInitInv == PasswordInit => PasswordInv
  BY PasswordAssumption
     DEF PasswordInit, PasswordInv, PasswordTypeOK, PasswordKept, Contents, Records

LEMMA PasswordStep == PasswordInv /\ [PasswordNext]_passwordVars => PasswordInv'
  <1> SUFFICES ASSUME PasswordInv, [PasswordNext]_passwordVars PROVE PasswordInv'
    OBVIOUS
  <1> USE PasswordAssumption
          DEF PasswordInv, PasswordTypeOK, PasswordKept, Contents, Records, files
  <1>1. CASE Open
    <2>1. CASE main = Missing /\ BeginWrite(Blank) /\ UNCHANGED <<active, saved>>
      BY <1>1, <2>1 DEF Open, BeginWrite
    <2>2. CASE main = Foreign /\ pc' = "idle" /\ UNCHANGED <<target, prior, active, saved>>
      BY <1>1, <2>2 DEF Open
    <2>3. CASE /\ main \in Records
               /\ pc' = "idle" /\ active' = TRUE /\ saved' = main
               /\ UNCHANGED <<target, prior>>
      BY <1>1, <2>3 DEF Open
    <2> QED
      BY <1>1, <2>1, <2>2, <2>3 DEF Open
  <1>2. CASE Prefill
    BY <1>2 DEF Prefill
  <1>3. ASSUME NEW digits \in Passwords, Capture(digits) PROVE PasswordInv'
    BY <1>3 DEF Capture, BeginWrite
  <1>4. CASE Truncate
    BY <1>4 DEF Truncate
  <1>5. CASE WriteTemporary
    BY <1>5 DEF WriteTemporary
  <1>6. CASE NothingToCopy
    BY <1>6 DEF NothingToCopy
  <1>7. CASE BeginCopy
    BY <1>7 DEF BeginCopy
  <1>8. CASE EndCopy
    BY <1>8 DEF EndCopy
  <1>9. CASE Rename
    <2>1. main' = target /\ tmp' = Missing /\ saved' = target /\ pc' = "idle"
      BY <1>9 DEF Rename
    <2>2. prior \in {bak, Missing}
      BY <1>9 DEF Rename
    <2> QED
      BY <1>9, <2>1, <2>2 DEF Rename
  <1>10. CASE WriteFails
    <2>1. ~active' /\ active' \in BOOLEAN
      BY <1>10, Zenon DEF WriteFails
    <2> QED
      BY <1>10, <2>1 DEF WriteFails
  <1>11. CASE Stop
    BY <1>11 DEF Stop
  <1>12. CASE UNCHANGED passwordVars
    BY <1>12 DEF passwordVars
  <1> QED
    BY <1>1, <1>2, <1>3, <1>4, <1>5, <1>6, <1>7, <1>8, <1>9, <1>10, <1>11, <1>12
       DEF PasswordNext

(* Wherever a replacement stops or is refused, the record before it is     *)
(* whole in the file or in its backup.                                     *)
THEOREM PasswordKeptAlways == PasswordSpec => []PasswordKept
  <1>1. PasswordInv => PasswordKept
    BY DEF PasswordInv
  <1> QED
    BY PasswordInitInv, PasswordStep, <1>1, PTL DEF PasswordSpec

-----------------------------------------------------------------------------
(* The score.  A write is under way only for a better score than the       *)
(* file's, and only in a session that may write.                           *)
ScoreInv ==
    /\ ScoreKept
    /\ file \in {ForeignScore} \cup Scores
    /\ best \in Scores
    /\ writable => file \in Scores
    /\ at \in {"write", "rename", "refused"} =>
          writable /\ saving = best /\ file < saving
    /\ at = "rename" => draft = saving
    /\ at = "closed" => ~writable

LEMMA ScoreInitInv == ScoreInit => ScoreInv
  BY ScoreAssumption DEF ScoreInit, ScoreInv, ScoreKept, Scores

LEMMA ScoreStep == ScoreInv /\ [ScoreNext]_scoreVars => ScoreInv'
  <1> SUFFICES ASSUME ScoreInv, [ScoreNext]_scoreVars PROVE ScoreInv'
    OBVIOUS
  <1> USE ScoreAssumption DEF ScoreInv, ScoreKept, Scores
  <1>0. file = recorded
    OBVIOUS
  <1>1. CASE ScoreOpen
    <2>1. CASE file = ForeignScore
      <3>1. ~writable'
        BY <1>1, <2>1, Zenon DEF ScoreOpen
      <3> QED
        BY <1>1, <1>0, <2>1, <3>1 DEF ScoreOpen
    <2>2. CASE file # ForeignScore
      BY <1>1, <1>0, <2>2 DEF ScoreOpen
    <2> QED
      BY <2>1, <2>2
  <1>2. ASSUME NEW defeated \in Scores, ScoreRecord(defeated) PROVE ScoreInv'
    <2>1. CASE writable
      BY <1>2, <2>1 DEF ScoreRecord
    <2>2. CASE ~writable
      BY <1>2, <2>2 DEF ScoreRecord
    <2> QED
      BY <2>1, <2>2
  <1>3. CASE ScoreWrite
    BY <1>3 DEF ScoreWrite
  <1>4. CASE ScoreRename
    BY <1>4 DEF ScoreRename
  <1>5. CASE ScoreRefused
    BY <1>5 DEF ScoreRefused
  <1>6. CASE ScoreCrash
    BY <1>6 DEF ScoreCrash
  <1>7. CASE UNCHANGED scoreVars
    BY <1>7 DEF scoreVars
  <1> QED
    BY <1>1, <1>2, <1>3, <1>4, <1>5, <1>6, <1>7 DEF ScoreNext

(* The file holds the best score ever stored, and a session that may write *)
(* shows no less.                                                          *)
THEOREM ScoreKeptAlways == ScoreSpec => []ScoreKept
  <1>1. ScoreInv => ScoreKept
    BY DEF ScoreInv
  <1> QED
    BY ScoreInitInv, ScoreStep, <1>1, PTL DEF ScoreSpec
-----------------------------------------------------------------------------
(* The music.  What is heard is inductive as it stands.                    *)
LEMMA MusicInitHeard == MusicInit => MusicHeard
  BY DEF MusicInit, MusicHeard

LEMMA MusicStep == MusicHeard /\ [MusicNext]_musicVars => MusicHeard'
  <1> SUFFICES ASSUME MusicHeard, [MusicNext]_musicVars PROVE MusicHeard'
    OBVIOUS
  <1> USE DEF MusicHeard, Error, SetVolume, chip
  <1>1. ASSUME NEW s \in Songs, Command(s) PROVE MusicHeard'
    <2>1. CASE s \in Absent
      <3>1. ~playing'
        BY <1>1, <2>1, Zenon DEF Command
      <3> QED
        BY <1>1, <2>1, <3>1 DEF Command
    <2>2. CASE s \notin Absent
      BY <1>1, <2>2 DEF Command
    <2> QED
      BY <2>1, <2>2
  <1>2. CASE CommandInert
    BY <1>2 DEF CommandInert
  <1>3. CASE Resume
    BY <1>3 DEF Resume
  <1>4. CASE FadeOut
    <2>1. CASE playing
      BY <1>4, <2>1 DEF FadeOut
    <2>2. CASE ~playing
      <3>1. ~playing'
        BY <1>4, <2>2, Zenon DEF FadeOut
      <3> QED
        BY <1>4, <3>1, <2>2 DEF FadeOut
    <2> QED
      BY <2>1, <2>2
  <1>5. CASE Unduck
    BY <1>5 DEF Unduck, Loud
  <1>6. CASE Duck
    BY <1>6 DEF Duck, Loud
  <1>7. CASE TickOut
    <2>1. CASE fadeVolume <= FadeStep
      <3>1. ~playing'
        BY <1>7, <2>1, Zenon DEF TickOut
      <3> QED
        BY <1>7, <2>1, <3>1 DEF TickOut
    <2>2. CASE ~(fadeVolume <= FadeStep)
      BY <1>7, <2>2 DEF TickOut
    <2> QED
      BY <2>1, <2>2
  <1>8. CASE TickIn
    BY <1>8 DEF TickIn
  <1>9. CASE SongEnds
    <2>1. ~playing'
      BY <1>9, Zenon DEF SongEnds
    <2> QED
      BY <1>9, <2>1 DEF SongEnds
  <1>10. CASE UNCHANGED musicVars
    BY <1>10 DEF musicVars
  <1> QED
    BY <1>1, <1>2, <1>3, <1>4, <1>5, <1>6, <1>7, <1>8, <1>9, <1>10 DEF MusicNext

(* No song is claimed that the chip lacks, none plays silent or half faded *)
(* without a fade, and a fade out stops the song it began for.             *)
THEOREM MusicHeardAlways == MusicSpec => []MusicHeard
  BY MusicInitHeard, MusicStep, PTL DEF MusicSpec

-----------------------------------------------------------------------------
(* The mod plan.  A temporary selection is open exactly in a room, and the *)
(* selection put aside is the player's own.                                *)
PlanRecord ==
    [on : SUBSET installed,
     aspect : Fixed \cup {Adaptive, NoValue},
     layout : {"unified", "split"}, cameras : {"unified", "independent"},
     behavior : [{"coop", "zero"} -> Behaviors \cup {NoValue}]]
Runnable(p) == /\ "coop" \in installed => "coop" \in p.on
               /\ "zero" \notin p.on
               /\ "wide" \in installed => p.aspect \in Fixed
Usable(p) == "wide" \in installed => p.aspect \in Fixed \cup {Adaptive}
Shared(b) == IF {"coop", "zero"} \subseteq installed THEN b["coop"] = b["zero"]
                                                    ELSE b = first
PlanInv ==
    /\ plan \in PlanRecord /\ own \in PlanRecord
    /\ installed \subseteq Packages
    /\ inRoom \in BOOLEAN /\ temporary = inRoom
    /\ offline = own
    /\ ~inRoom => plan = own
    /\ Usable(plan) /\ Usable(own)
    /\ Shared(plan.behavior) /\ Shared(own.behavior)
    /\ inRoom => Runnable(plan)

LEMMA PlanInitInv == PlanInit => PlanInv
  <1> SUFFICES ASSUME PlanInit PROVE PlanInv
    OBVIOUS
  <1>1. PICK on \in SUBSET installed,
             aspect \in IF "wide" \in installed THEN Fixed \cup {Adaptive} ELSE {NoValue},
             layout \in {"unified", "split"}, cameras \in {"unified", "independent"},
             b \in Behaviors :
          plan = [on |-> on, aspect |-> aspect, layout |-> layout, cameras |-> cameras,
                  behavior |-> [p \in {"coop", "zero"} |->
                                   IF p \in installed THEN b ELSE NoValue]]
    BY DEF PlanInit, Selections
  <1>2. [p \in {"coop", "zero"} |-> IF p \in installed THEN b ELSE NoValue]
           \in [{"coop", "zero"} -> Behaviors \cup {NoValue}]
    OBVIOUS
  <1>3. aspect \in Fixed \cup {Adaptive, NoValue}
    OBVIOUS
  <1>4. plan \in PlanRecord
    BY <1>1, <1>2, <1>3 DEF PlanRecord
  <1>5. Usable(plan)
    BY <1>1 DEF Usable
  <1>6. Shared(plan.behavior)
    <2>1. CASE {"coop", "zero"} \subseteq installed
      <3>1. plan.behavior["coop"] = b /\ plan.behavior["zero"] = b
        BY <1>1, <2>1
      <3> QED
        BY <2>1, <3>1 DEF Shared
    <2>2. CASE ~({"coop", "zero"} \subseteq installed)
      BY <2>2 DEF PlanInit, Shared
    <2> QED
      BY <2>1, <2>2
  <1>7. installed \subseteq Packages
    BY DEF PlanInit
  <1>8. Usable(own) /\ Shared(own.behavior) /\ own \in PlanRecord
    BY <1>4, <1>5, <1>6 DEF PlanInit
  <1> QED
    BY <1>4, <1>5, <1>6, <1>7, <1>8 DEF PlanInit, PlanInv

(* What each kind of edit keeps of a selection.                            *)
LEMMA EditedKeeps ==
  ASSUME PlanInv, NEW new \in PlanRecord, Usable(new), Shared(new.behavior), inRoom => Runnable(new),
         Edited(new)
  PROVE  PlanInv'
  <1>1. CASE inRoom
    BY <1>1 DEF Edited, PlanInv, PlanRecord, Usable, Shared, Runnable
  <1>2. CASE ~inRoom
    BY <1>2 DEF Edited, PlanInv, PlanRecord, Usable, Shared, Runnable
  <1> QED
    BY <1>1, <1>2

LEMMA EnabledSelection ==
  ASSUME NEW p \in PlanRecord, NEW pkg
  PROVE  /\ Enabled(p, pkg) \in PlanRecord /\ Disabled(p, pkg) \in PlanRecord
         /\ Enabled(p, pkg).on = p.on \cup ({pkg} \cap installed)
         /\ Disabled(p, pkg).on = p.on \ {pkg}
         /\ Enabled(p, pkg).aspect = p.aspect /\ Disabled(p, pkg).aspect = p.aspect
         /\ Enabled(p, pkg).behavior = p.behavior
         /\ Disabled(p, pkg).behavior = p.behavior
  BY DEF PlanRecord, Enabled, Disabled

LEMMA WithAspectSelection ==
  ASSUME NEW p \in PlanRecord, NEW aspect \in Fixed \cup {Adaptive}
  PROVE  /\ WithAspect(p, aspect) \in PlanRecord
         /\ WithAspect(p, aspect).on = p.on
         /\ WithAspect(p, aspect).behavior = p.behavior
         /\ "wide" \in installed => WithAspect(p, aspect).aspect = aspect
  BY DEF PlanRecord, WithAspect

(* What a room makes of the selection can be run there.                    *)
LEMMA RoomPlanRuns ==
  ASSUME PlanInv
  PROVE  /\ RoomPlan \in PlanRecord /\ Runnable(RoomPlan)
         /\ RoomPlan.behavior = plan.behavior
  <1> DEFINE barred == Disabled(plan, "zero")
             paired == Enabled(barred, "coop")
             whole  == [paired EXCEPT !.layout = "unified"]
  <1>1. /\ plan \in PlanRecord /\ RoomAspect \in Fixed
        /\ "wide" \in installed => plan.aspect \in Fixed \cup {Adaptive}
    BY PlanAssumption DEF PlanInv, Usable
  <1>2. /\ barred \in PlanRecord /\ barred.on = plan.on \ {"zero"}
        /\ barred.aspect = plan.aspect /\ barred.behavior = plan.behavior
    BY <1>1, EnabledSelection
  <1>3. /\ paired \in PlanRecord /\ paired.on = barred.on \cup ({"coop"} \cap installed)
        /\ paired.aspect = plan.aspect /\ paired.behavior = plan.behavior
    <2> HIDE DEF barred
    <2> QED
      BY <1>2, EnabledSelection
  <1>4. /\ whole \in PlanRecord
        /\ whole.on = (plan.on \ {"zero"}) \cup ({"coop"} \cap installed)
        /\ whole.aspect = plan.aspect /\ whole.behavior = plan.behavior
    <2>1. paired.on = (plan.on \ {"zero"}) \cup ({"coop"} \cap installed)
      BY <1>2, <1>3
    <2> HIDE DEF paired
    <2> QED
      BY <1>3, <2>1 DEF PlanRecord
  <1>5. RoomPlan = IF plan.aspect = Adaptive THEN WithAspect(whole, RoomAspect) ELSE whole
    BY DEF RoomPlan
  <1> HIDE DEF whole
  <1>6. /\ WithAspect(whole, RoomAspect) \in PlanRecord
        /\ WithAspect(whole, RoomAspect).on = whole.on
        /\ WithAspect(whole, RoomAspect).behavior = whole.behavior
        /\ "wide" \in installed => WithAspect(whole, RoomAspect).aspect = RoomAspect
    BY <1>1, <1>4, WithAspectSelection
  <1>7. CASE plan.aspect = Adaptive
    BY <1>1, <1>4, <1>5, <1>6, <1>7 DEF Runnable
  <1>8. CASE plan.aspect # Adaptive
    BY <1>1, <1>4, <1>5, <1>8 DEF Runnable
  <1> QED
    BY <1>7, <1>8

LEMMA PlanStep == PlanInv /\ [PlanNext]_planVars => PlanInv'
  <1> SUFFICES ASSUME PlanInv, [PlanNext]_planVars PROVE PlanInv'
    OBVIOUS
  <1>0. /\ plan \in PlanRecord /\ Usable(plan) /\ Shared(plan.behavior)
        /\ inRoom => Runnable(plan)
    BY DEF PlanInv
  <1>1. CASE EnterRoom
    <2>1. /\ RoomPlan \in PlanRecord /\ Runnable(RoomPlan)
          /\ RoomPlan.behavior = plan.behavior
      BY RoomPlanRuns
    <2>2. /\ plan' = RoomPlan /\ offline' = plan /\ plan = own
          /\ UNCHANGED <<installed, own, first>>
      BY <1>1 DEF EnterRoom, PlanInv
    <2>3. inRoom' \in BOOLEAN /\ temporary' = inRoom' /\ inRoom'
      BY <1>1, Zenon DEF EnterRoom
    <2> QED
      BY <1>0, <2>1, <2>2, <2>3 DEF PlanInv, PlanRecord, Usable, Shared, Runnable
  <1>2. CASE LeaveRoom
    <2>1. inRoom' \in BOOLEAN /\ temporary' = inRoom' /\ ~inRoom'
      BY <1>2, Zenon DEF LeaveRoom
    <2>2. plan' = own /\ UNCHANGED <<installed, offline, own, first>>
      BY <1>2 DEF LeaveRoom, PlanInv
    <2> QED
      BY <2>1, <2>2 DEF PlanInv, PlanRecord, Usable, Shared
  <1>3. ASSUME NEW pkg \in Packages, FeatureEnable(pkg) PROVE PlanInv'
    <2> DEFINE new == Enabled(plan, pkg)
    <2>1. /\ new \in PlanRecord /\ new.on = plan.on \cup ({pkg} \cap installed)
          /\ new.aspect = plan.aspect /\ new.behavior = plan.behavior
      BY <1>0, EnabledSelection
    <2>2. Edited(new) /\ ~(inRoom /\ pkg = "zero")
      BY <1>3 DEF FeatureEnable
    <2> HIDE DEF new
    <2>3. Usable(new) /\ Shared(new.behavior) /\ (inRoom => Runnable(new))
      BY <1>0, <2>1, <2>2 DEF Usable, Shared, Runnable
    <2> QED
      BY <2>1, <2>2, <2>3, EditedKeeps
  <1>4. ASSUME NEW pkg \in Packages, FeatureDisable(pkg) PROVE PlanInv'
    <2> DEFINE new == Disabled(plan, pkg)
    <2>1. /\ new \in PlanRecord /\ new.on = plan.on \ {pkg}
          /\ new.aspect = plan.aspect /\ new.behavior = plan.behavior
      BY <1>0, EnabledSelection
    <2>2. Edited(new) /\ ~(inRoom /\ pkg = "coop")
      BY <1>4 DEF FeatureDisable
    <2> HIDE DEF new
    <2>3. Usable(new) /\ Shared(new.behavior) /\ (inRoom => Runnable(new))
      BY <1>0, <2>1, <2>2 DEF Usable, Shared, Runnable
    <2> QED
      BY <2>1, <2>2, <2>3, EditedKeeps
  <1>5. ASSUME NEW value \in {"unified", "split"}, SetLayout(value) PROVE PlanInv'
    <2> DEFINE new == [plan EXCEPT !.layout = value]
    <2>1. /\ new \in PlanRecord /\ new.on = plan.on
          /\ new.aspect = plan.aspect /\ new.behavior = plan.behavior
      BY <1>0 DEF PlanRecord
    <2>2. Edited(new)
      BY <1>5 DEF SetLayout
    <2> HIDE DEF new
    <2>3. Usable(new) /\ Shared(new.behavior) /\ (inRoom => Runnable(new))
      BY <1>0, <2>1 DEF Usable, Shared, Runnable
    <2> QED
      BY <2>1, <2>2, <2>3, EditedKeeps
  <1>6. ASSUME NEW value \in {"unified", "independent"}, SetCameras(value) PROVE PlanInv'
    <2> DEFINE new == [plan EXCEPT !.cameras = value]
    <2>1. /\ new \in PlanRecord /\ new.on = plan.on
          /\ new.aspect = plan.aspect /\ new.behavior = plan.behavior
      BY <1>0 DEF PlanRecord
    <2>2. Edited(new)
      BY <1>6 DEF SetCameras
    <2> HIDE DEF new
    <2>3. Usable(new) /\ Shared(new.behavior) /\ (inRoom => Runnable(new))
      BY <1>0, <2>1 DEF Usable, Shared, Runnable
    <2> QED
      BY <2>1, <2>2, <2>3, EditedKeeps
  <1>7. ASSUME NEW value \in Fixed \cup {Adaptive}, SetAspect(value) PROVE PlanInv'
    <2> DEFINE new == WithAspect(plan, value)
    <2>1. /\ new \in PlanRecord /\ new.on = plan.on /\ new.behavior = plan.behavior
          /\ "wide" \in installed => new.aspect = value
      BY <1>0, WithAspectSelection
    <2>2. Edited(new) /\ (inRoom => value \in Fixed)
      BY <1>7 DEF SetAspect
    <2> HIDE DEF new
    <2>3. Usable(new) /\ Shared(new.behavior) /\ (inRoom => Runnable(new))
      BY <1>0, <2>1, <2>2 DEF Usable, Shared, Runnable
    <2> QED
      BY <2>1, <2>2, <2>3, EditedKeeps
  <1>8. ASSUME NEW pkg \in {"coop", "zero"}, NEW value \in Behaviors,
               SetBehavior(pkg, value)
        PROVE  PlanInv'
    <2> DEFINE other == CHOOSE p \in {"coop", "zero"} : p # pkg
               alone == [plan EXCEPT !.behavior[pkg] = value]
               both  == [alone EXCEPT !.behavior[other] = value]
               back  == [alone EXCEPT !.behavior[pkg] = plan.behavior[pkg]]
    <2>0. other \in {"coop", "zero"} /\ other # pkg
      <3>1. \E p \in {"coop", "zero"} : p # pkg
        OBVIOUS
      <3> QED
        BY <3>1
    <2>1. pkg \in installed /\ Edited(IF other \in installed THEN both ELSE back)
      BY <1>8 DEF SetBehavior
    <2> HIDE DEF other
    <2>2. /\ both \in PlanRecord /\ both.on = plan.on /\ both.aspect = plan.aspect
          /\ both.behavior["coop"] = both.behavior["zero"]
      <3>1. /\ alone \in PlanRecord /\ alone.on = plan.on
            /\ alone.aspect = plan.aspect /\ alone.behavior[pkg] = value
        BY <1>0 DEF PlanRecord
      <3> HIDE DEF alone
      <3>2. /\ both \in PlanRecord /\ both.on = plan.on /\ both.aspect = plan.aspect
            /\ both.behavior[other] = value /\ both.behavior[pkg] = value
        BY <2>0, <3>1 DEF PlanRecord
      <3>3. {pkg, other} = {"coop", "zero"}
        BY <2>0
      <3> QED
        BY <2>0, <3>2, <3>3
    <2>3. /\ back \in PlanRecord /\ back.on = plan.on /\ back.aspect = plan.aspect
          /\ back.behavior = plan.behavior
      BY <1>0 DEF PlanRecord
    <2> HIDE DEF both, back
    <2>4. CASE other \in installed
      <3>1. Usable(both) /\ Shared(both.behavior) /\ (inRoom => Runnable(both))
        BY <1>0, <2>0, <2>1, <2>2, <2>4 DEF Usable, Shared, Runnable
      <3> QED
        BY <2>1, <2>2, <2>4, <3>1, EditedKeeps
    <2>5. CASE other \notin installed
      <3>1. Usable(back) /\ Shared(back.behavior) /\ (inRoom => Runnable(back))
        BY <1>0, <2>3 DEF Usable, Shared, Runnable
      <3> QED
        BY <2>1, <2>3, <2>5, <3>1, EditedKeeps
    <2> QED
      BY <2>4, <2>5
  <1>9. CASE UNCHANGED planVars
    BY <1>9 DEF planVars, PlanInv, PlanRecord, Usable, Shared, Runnable
  <1> QED
    BY <1>1, <1>2, <1>3, <1>4, <1>5, <1>6, <1>7, <1>8, <1>9 DEF PlanNext

LEMMA PlanKeeps == PlanSpec => []PlanInv
  BY PlanInitInv, PlanStep, PTL DEF PlanSpec

(* The two character features never show two behaviors.                    *)
LEMMA PlanShared == PlanInv => BehaviorShared
  BY DEF PlanInv, BehaviorShared, Shared

(* Every selection in force in a room may be launched, whatever was edited *)
(* there, and out of it the player's own is in force.                      *)
THEOREM RoomReadyAlways == PlanSpec => []RoomReady
  <1>1. PlanInv => RoomReady
    BY PlanShared DEF PlanInv, RoomReady, Runnable, Valid, PlanRecord
  <1> QED
    BY PlanKeeps, <1>1, PTL
-----------------------------------------------------------------------------
(* The recorder.  What was written last is the input before the one to     *)
(* come, unless a load lies between; and the segment that is written is    *)
(* one of those kept.                                                      *)
ReplayInv ==
    /\ segment \in 0 .. MaxSegment /\ oldest \in 1 .. (segment + 1)
    /\ tape \in [1 .. MaxSegment -> {"none", "plays", "broken", "cut"}]
    /\ frame \in Int /\ line \in Int /\ nextFrame \in Int /\ rows \in Nat
    /\ recording => oldest <= segment
    /\ recording /\ rows # 0 /\ ~newLoad =>
          last.kind = "I" /\ last.line = line /\ last.frame = nextFrame - 1
    /\ KeptSegmentsPlay

LEMMA ReplayInitially == ReplayInit => ReplayInv
  BY ReplayAssumption DEF ReplayInit, ReplayInv, KeptSegmentsPlay, Kept

(* A nonempty set of naturals has a least element.                         *)
LEMMA LeastNatural ==
    ASSUME NEW S \in SUBSET Nat, S # {}
    PROVE  Min(S) \in S
  <1> DEFINE below == {p \in Nat \X Nat : p[1] < p[2]}
  <1>1. IsWellFoundedOn(below, Nat)
    BY NatLessThanWellFounded DEF OpToRel
  <1> HIDE DEF below
  <1>2. PICK m \in S : \A j \in S : <<j, m>> \notin below
    BY <1>1, WFMin
  <1>3. ASSUME NEW j \in S PROVE m <= j
    <2>1. j \in Nat /\ m \in Nat
      OBVIOUS
    <2>2. <<j, m>> \in Nat \X Nat /\ <<j, m>>[1] = j /\ <<j, m>>[2] = m
      BY <2>1
    <2> QED
      BY <1>2, <2>1, <2>2 DEF below
  <1> QED
    BY <1>3 DEF Min

(* Eviction stops before the segment that is written.                      *)
LEMMA EvictionStops ==
    ASSUME ReplayInv, NEW size, NEW s \in Nat, s = segment \/ s = segment + 1, oldest <= s
    PROVE  /\ ByNumber(s) \in oldest .. s
           /\ ByBytes(s, size) \in oldest .. s
  <1>1. ByNumber(s) \in oldest .. s
    BY ReplayAssumption DEF ReplayInv, ByNumber
  <1> DEFINE left == {o \in ByNumber(s) .. s : o = s \/ history - Freed(o) + size <= HistoryLimit}
  <1>2. left \in SUBSET Nat /\ s \in left
    BY <1>1 DEF ReplayInv
  <1>3. Min(left) \in left
    BY <1>2, LeastNatural
  <1> QED
    BY <1>1, <1>3 DEF ByBytes, ReplayInv

LEMMA RecordKeeps ==
    ASSUME ReplayInv, NEW size \in 1 .. SnapshotLimit,
           NEW stop \in {"none", "begin", "snapshot", "input", "end"}, RecordFrame(size, stop)
    PROVE  ReplayInv'
  <1> DEFINE current == IF Starts THEN segment + 1 ELSE segment
             goes    == stop \in {"none", "end"}
             snaps   == Starts \/ rows = 0 \/ Discontinuity
             stored  == snaps /\ stop \notin {"begin", "snapshot"}
             left    == IF snaps /\ stop # "begin" THEN ByBytes(current, size)
                                                   ELSE ByNumber(current)
             before  == IF stored THEN Snapshot ELSE IF Starts THEN Nothing ELSE last
             plays   == IF goes /\ ~PlaysOn(before, Input) THEN "broken"
                        ELSE IF stop # "none" THEN "cut"
                        ELSE IF Starts THEN "plays" ELSE tape[segment]
  <1>1. /\ current <= MaxSegment /\ segment' = current /\ oldest' = left
        /\ last' = IF goes THEN Input ELSE before
        /\ tape' = [s \in DOMAIN tape |-> IF s < left THEN "none"
                                          ELSE IF s = current THEN plays ELSE tape[s]]
        /\ rows' = (IF Starts THEN 0 ELSE rows) + (IF goes THEN 1 ELSE 0)
        /\ nextFrame' = IF goes THEN frame + 1 ELSE IF Starts THEN frame ELSE nextFrame
        /\ newLoad' = (newLoad /\ stop \in {"begin", "snapshot"})
        /\ recording' = (stop = "none") /\ frame' = frame + 1 /\ line' = line
    BY DEF RecordFrame
  <1>2. current \in Nat /\ oldest <= current /\ (Starts => current = segment + 1)
        /\ (~Starts => current = segment /\ recording)
    BY DEF ReplayInv, Starts
  <1>3. left \in oldest .. current
    BY <1>2, EvictionStops
  <1>4. goes => PlaysOn(before, Input)
    <2>1. CASE stored
      BY <2>1 DEF PlaysOn, Snapshot, Input, ReplayInv
    <2>2. CASE goes /\ ~stored
      <3>1. recording /\ rows # 0 /\ ~newLoad /\ frame = nextFrame /\ before = last
        BY <2>2 DEF Starts, Discontinuity
      <3> QED
        BY <3>1 DEF PlaysOn, Input, ReplayInv
    <2> QED
      BY <2>1, <2>2
  <1>11. /\ plays \in {"plays", "cut"}
         /\ stop = "none" => plays = "plays"
    <2>1. ~Starts => tape[segment] = "plays"
      BY <1>2 DEF ReplayInv, KeptSegmentsPlay
    <2> QED
      BY <1>4, <2>1
  <1> HIDE DEF current, left, before, stored, snaps, plays
  <1>5. /\ segment' \in 0 .. MaxSegment /\ oldest' \in 1 .. (segment' + 1)
        /\ oldest' <= segment'
    BY <1>1, <1>2, <1>3 DEF ReplayInv
  <1>6. tape' \in [1 .. MaxSegment -> {"none", "plays", "broken", "cut"}]
    BY <1>1, <1>11 DEF ReplayInv
  <1>7. frame' \in Int /\ line' \in Int /\ nextFrame' \in Int /\ rows' \in Nat
    BY <1>1 DEF ReplayInv
  <1>8. recording' => last'.kind = "I" /\ last'.line = line' /\ last'.frame = nextFrame' - 1
    <2> SUFFICES ASSUME recording'
                 PROVE  last'.kind = "I" /\ last'.line = line' /\ last'.frame = nextFrame' - 1
      OBVIOUS
    <2>1. goes
      BY <1>1, Zenon
    <2>2. last' = Input /\ nextFrame' = frame + 1 /\ line' = line
      BY <1>1, <2>1
    <2> QED
      BY <2>2 DEF Input, ReplayInv
  <1>13. left \in Nat /\ 1 <= left /\ current \in 1 .. MaxSegment /\ ~(current < left)
    BY <1>1, <1>2, <1>3 DEF ReplayInv
  <1>12. tape'[current] = plays
    BY <1>13, <1>1 DEF ReplayInv
  <1>9. ASSUME NEW s \in left .. current PROVE tape'[s] \in {"plays", "cut"}
    <2>1. s \in 1 .. MaxSegment /\ ~(s < left)
      BY <1>9, <1>13, ReplayAssumption
    <2>2. tape'[s] = IF s = current THEN plays ELSE tape[s]
      BY <1>1, <2>1 DEF ReplayInv
    <2>3. s = current \/ s \in oldest .. segment
      BY <1>2, <1>3 DEF ReplayInv
    <2> QED
      BY <1>11, <2>2, <2>3 DEF ReplayInv, KeptSegmentsPlay, Kept
  <1>10. KeptSegmentsPlay'
    BY <1>1, <1>11, <1>12, <1>9 DEF KeptSegmentsPlay, Kept
  <1> QED
    BY <1>5, <1>6, <1>7, <1>8, <1>10 DEF ReplayInv

LEMMA ReplayStep == ReplayInv /\ [ReplayNext]_replayVars => ReplayInv'
  <1> SUFFICES ASSUME ReplayInv, [ReplayNext]_replayVars PROVE ReplayInv'
    OBVIOUS
  <1> USE ReplayAssumption DEF ReplayInv, KeptSegmentsPlay, Kept, store
  <1>1. ASSUME NEW size \in 1 .. SnapshotLimit,
               NEW stop \in {"none", "begin", "snapshot", "input", "end"}, RecordFrame(size, stop)
        PROVE  ReplayInv'
    BY <1>1, RecordKeeps
  <1>2. CASE FrameAlone
    BY <1>2 DEF FrameAlone
  <1>3. CASE FrameAhead
    BY <1>3 DEF FrameAhead
  <1>4. ASSUME NEW f \in 0 .. MaxFrame, NEW generation \in BOOLEAN, Load(f, generation)
        PROVE  ReplayInv'
    BY <1>4 DEF Load
  <1>5. CASE EnableOn
    BY <1>5 DEF EnableOn
  <1>6. CASE EnableOff
    BY <1>6 DEF EnableOff
  <1>7. CASE UNCHANGED replayVars
    BY <1>7 DEF replayVars
  <1> QED
    BY <1>1, <1>2, <1>3, <1>4, <1>5, <1>6, <1>7 DEF ReplayNext

(* Whatever is loaded, rewound, skipped, evicted or fails, every segment   *)
(* that is kept plays from its own beginning.                              *)
THEOREM KeptSegmentsPlayAlways == ReplaySpec => []KeptSegmentsPlay
  <1>1. ReplayInv => KeptSegmentsPlay
    BY DEF ReplayInv
  <1> QED
    BY ReplayInitially, ReplayStep, <1>1, PTL DEF ReplaySpec

-----------------------------------------------------------------------------
(* The queue of the bosses, for every set of at least three.               *)
\* The inductive invariant of the draws.
QInv ==
    /\ queue \in Seq(Bosses)
    /\ onStage \in [Seats -> Bosses \cup {NoBoss}]
    /\ ValidQueue(queue)
    /\ DistinctBosses

\* Every step of the draws keeps the queue and the two seats in order.
LEMMA QStep == QInv /\ [QNext]_qvars => QInv'
<1> SUFFICES ASSUME QInv, [QNext]_qvars
             PROVE  QInv'
  OBVIOUS
<1>1. CASE Clear
  BY <1>1, EmptySeq DEF Clear, QInv, ValidQueue, DistinctBosses, Seats
<1>2. ASSUME NEW s \in Seats, Draw(s)
      PROVE  QInv'
  <2>1. PICK n \in NextBoss(queue, Present) :
          /\ n.id # NoBoss
          /\ queue' = n.queue
          /\ onStage' = [onStage EXCEPT ![s] = n.id]
    BY <1>2 DEF Draw
  <2>2. /\ n.queue \in Seq(Bosses)
        /\ ValidQueue(n.queue)
        /\ n.id \in Bosses
        /\ n.id \notin Present
    BY <2>1, NextBossProperties DEF QInv
  <2>3. \A t \in Seats : onStage[t] # n.id
    BY <2>1, <2>2 DEF Present
  <2>4. DistinctBosses'
    BY <2>1, <2>3 DEF QInv, DistinctBosses, Seats
  <2>5. QED
    BY <2>1, <2>2, <2>4 DEF QInv
<1>3. ASSUME NEW s \in Seats, Leave(s)
      PROVE  QInv'
  BY <1>3 DEF Leave, QInv, DistinctBosses, Seats
<1>4. CASE UNCHANGED qvars
  BY <1>4 DEF qvars, QInv, DistinctBosses
<1>5. QED
  BY <1>1, <1>2, <1>3, <1>4 DEF QNext

(* The queue is one in every state, and the seats hold different bosses.   *)
THEOREM QInvariant == QSpec => []QInv
<1>1. QInit => QInv
  BY EmptySeq DEF QInit, QInv, ValidQueue, DistinctBosses, Seats
<1>2. QED
  BY <1>1, QStep, PTL DEF QSpec

\* The queue of a run never holds a boss twice.
THEOREM QueueDistinctAlways == QSpec => []QueueDistinct
<1>1. QInv => QueueDistinct
  BY DEF QInv, QueueDistinct
<1>2. QED
  BY <1>1, QInvariant, PTL

\* The two seats never hold the same boss.
THEOREM DistinctBossesAlways == QSpec => []DistinctBosses
<1>1. QInv => DistinctBosses
  BY DEF QInv
<1>2. QED
  BY <1>1, QInvariant, PTL

\* An empty seat can always be filled: MmxBossRushNextBoss never answers -1.
THEOREM DrawsNeverStall == QSpec => []NeverStalls
<1>1. QInv => NeverStalls
  <2> SUFFICES ASSUME QInv, NEW s \in Seats, onStage[s] = NoBoss,
                      NEW n \in NextBoss(queue, Present)
               PROVE  n.id # NoBoss
    BY DEF NeverStalls
  <2> DEFINE b == onStage[3 - s]
  <2>1. Present \in SUBSET {b}
    BY DEF Present, Seats
  <2>2. QED
    BY <2>1, DrawNeverFails DEF QInv
<1>2. QED
  BY <1>1, QInvariant, PTL
--------------------------------------------------------------------------------
(* Nobody starves.  A boss waits for the entries in front of it, or, once   *)
(* its round is drawn, for what is left of the round and then for its place *)
(* in the next: a queue without repetitions is no longer than the cast.     *)

N == Cardinality(Bosses)

\* A queue without repetitions is no longer than there are bosses, and
\* shorter if one is missing.
LEMMA QueueLength ==
    ASSUME NEW q \in Seq(Bosses), ValidQueue(q)
    PROVE  /\ N \in Nat /\ Len(q) \in Nat /\ DOMAIN q = 1 .. Len(q) /\ Len(q) <= N
           /\ \A b \in Bosses : b \notin Queued(q) => Len(q) <= N - 1
<1>1. N \in Nat /\ Len(q) \in Nat /\ DOMAIN q = 1 .. Len(q)
  BY BossesAssumption, FS_CardinalityType, LenProperties DEF N
<1>2. IsFiniteSet(1 .. Len(q)) /\ Cardinality(1 .. Len(q)) = Len(q)
  BY <1>1, FS_Interval
<1>3. ASSUME NEW T \in SUBSET Bosses, Queued(q) \subseteq T
      PROVE  Len(q) <= Cardinality(T)
  <2>1. IsFiniteSet(T)
    BY BossesAssumption, FS_Subset
  <2>2. q \in [1 .. Len(q) -> T]
    BY <1>1, <1>3 DEF Queued
  <2>3. q \in Injection(1 .. Len(q), T)
    BY <1>1, <2>2 DEF ValidQueue, Injection, IsInjective
  <2> QED
    BY <1>2, <2>1, <2>3, FS_Injection
<1>4. Len(q) <= N
  BY <1>3 DEF N, ValidQueue, Queued
<1>5. ASSUME NEW b \in Bosses, b \notin Queued(q)
      PROVE  Len(q) <= N - 1
  <2>1. Cardinality(Bosses \ {b}) = N - 1
    BY BossesAssumption, FS_RemoveElement DEF N
  <2>2. Queued(q) \subseteq Bosses \ {b}
    BY <1>5 DEF ValidQueue, Queued
  <2> QED
    BY <1>3, <2>1, <2>2
<1> QED
  BY <1>1, <1>4, <1>5

\* Taking the first boss that is not on stage moves those behind it one place
\* forward and passes nobody over who could have been taken.
LEMMA TakePlaces ==
    ASSUME NEW q \in Seq(Bosses), ValidQueue(q), NEW present, Ready(q, present) # {},
           NEW n, n = Take(q, present)
    PROVE  /\ Len(n.queue) = Len(q) - 1
           /\ \A b \in Queued(q) : b # n.id => b \in Queued(n.queue)
           /\ \A j \in DOMAIN n.queue :
                 /\ n.queue[j] \in Queued(q) /\ n.queue[j] # n.id
                 /\ n.queue[j] \notin present
                       => j + 1 \in DOMAIN q /\ q[j + 1] = n.queue[j]
<1> DEFINE k == CHOOSE k \in Ready(q, present) : \A j \in Ready(q, present) : k <= j
<1>1. Len(q) \in Nat /\ DOMAIN q = 1 .. Len(q)
  BY LenProperties
<1>2. k \in Ready(q, present) /\ \A j \in Ready(q, present) : k <= j
  <2>1. Ready(q, present) \subseteq Nat
    BY <1>1 DEF Ready
  <2>2. \E k0 \in Ready(q, present) : \A j \in Ready(q, present) : k0 <= j
    BY <2>1, SmallestOfNaturals
  <2> QED
    BY <2>2
<1>3. n.id = q[k] /\ n.queue = Without(q, k)
  BY DEF Take
<1> HIDE DEF k
<1>4. k \in 1 .. Len(q) /\ q[k] \notin present
  BY <1>1, <1>2 DEF Ready
<1>5. /\ Without(q, k) \in Seq(Bosses)
      /\ Without(q, k) = [j \in 1 .. (Len(q) - 1) |-> IF j < k THEN q[j] ELSE q[j + 1]]
  BY <1>1, <1>4, WithoutValid DEF Without
<1>6. DOMAIN n.queue = 1 .. (Len(q) - 1)
  BY <1>3, <1>5
<1>7. Len(n.queue) = Len(q) - 1
  <2>1. Len(n.queue) \in Nat /\ DOMAIN n.queue = 1 .. Len(n.queue)
    BY <1>3, <1>5, LenProperties
  <2> DEFINE m == Len(n.queue)
             l == Len(q) - 1
  <2>2. m \in Nat /\ l \in Nat /\ 1 .. m = 1 .. l
    <3>1. m \in Nat /\ 1 .. m = 1 .. l
      BY <1>6, <2>1, Zenon
    <3>2. l \in Nat
      BY <1>1, <1>4
    <3> QED
      BY <3>1, <3>2
  <2> HIDE DEF m, l
  <2>3. m <= l
    <3>1. m > 0 => m \in 1 .. m
      BY <2>2
    <3> QED
      BY <2>2, <3>1
  <2>4. l <= m
    <3>1. l > 0 => l \in 1 .. l
      BY <2>2
    <3> QED
      BY <2>2, <3>1
  <2> QED
    BY <2>2, <2>3, <2>4 DEF m, l
<1>8. ASSUME NEW b \in Queued(q), b # n.id
      PROVE  b \in Queued(n.queue)
  <2>1. PICK i \in 1 .. Len(q) : q[i] = b
    BY <1>1 DEF Queued
  <2>2. i # k
    BY <1>3, <1>8, <2>1
  <2>3. CASE i < k
    <3>1. i \in DOMAIN n.queue /\ n.queue[i] = b
      BY <1>1, <1>3, <1>4, <1>5, <1>6, <2>1, <2>3
    <3> QED
      BY <3>1 DEF Queued
  <2>4. CASE k < i
    <3>1. i - 1 \in DOMAIN n.queue /\ n.queue[i - 1] = b
      BY <1>1, <1>3, <1>4, <1>5, <1>6, <2>1, <2>4
    <3> QED
      BY <3>1 DEF Queued
  <2> QED
    BY <1>1, <1>4, <2>1, <2>2, <2>3, <2>4
<1>9. ASSUME NEW j \in DOMAIN n.queue
      PROVE  /\ n.queue[j] \in Queued(q) /\ n.queue[j] # n.id
             /\ n.queue[j] \notin present => j + 1 \in DOMAIN q /\ q[j + 1] = n.queue[j]
  <2>1. j \in 1 .. (Len(q) - 1)
    BY <1>6
  <2>2. CASE j < k
    <3>1. n.queue[j] = q[j] /\ j \in DOMAIN q
      BY <1>1, <1>3, <1>5, <2>1, <2>2
    <3>2. q[j] \in present
      BY <1>1, <1>2, <1>4, <2>1, <2>2, <3>1 DEF Ready
    <3> QED
      BY <1>3, <1>4, <3>1, <3>2 DEF Queued
  <2>3. CASE ~(j < k)
    <3>1. n.queue[j] = q[j + 1] /\ j + 1 \in DOMAIN q /\ j + 1 # k
      BY <1>1, <1>3, <1>4, <1>5, <2>1, <2>3
    <3> QED
      BY <1>1, <1>3, <1>4, <3>1 DEF Queued, ValidQueue
  <2> QED
    BY <2>2, <2>3
<1> QED
  BY <1>7, <1>8, <1>9

\* How long each boss has waited, against its place in the queue.
WaitInv ==
    /\ QInv
    /\ waits \in [Bosses -> Nat]
    /\ \A b \in Bosses :
          /\ b \notin Queued(queue) => waits[b] + Len(queue) <= N - 1
          /\ \A k \in DOMAIN queue : queue[k] = b => waits[b] + k <= 2 * N - 1

LEMMA WaitInitially == MCInit => WaitInv
<1> SUFFICES ASSUME MCInit PROVE WaitInv
  OBVIOUS
<1>1. QInv
  BY EmptySeq DEF MCInit, QInit, QInv, ValidQueue, DistinctBosses, Seats
<1>2. N \in Nat /\ N > 2
  BY BossesAssumption, FS_CardinalityType DEF N
<1>3. Len(queue) = 0 /\ DOMAIN queue = {}
  BY EmptySeq DEF MCInit, QInit
<1> QED
  BY <1>1, <1>2, <1>3 DEF WaitInv, MCInit

LEMMA WaitDraws ==
    ASSUME WaitInv, NEW s \in Seats, MCDraw(s), QInv'
    PROVE  WaitInv'
<1> DEFINE present == Present
<1>1. PICK n \in NextBoss(queue, present) :
        /\ n.id # NoBoss /\ queue' = n.queue /\ onStage' = [onStage EXCEPT ![s] = n.id]
  BY DEF MCDraw, Draw
<1>2. onStage'[s] = n.id
  BY <1>1 DEF WaitInv, QInv
<1>3. waits' = [b \in Bosses |-> IF b \in present \/ b = n.id THEN 0 ELSE waits[b] + 1]
  BY <1>2 DEF MCDraw
<1> HIDE DEF present
<1>4. waits' \in [Bosses -> Nat]
  BY <1>3 DEF WaitInv
<1>5. /\ N \in Nat /\ Len(queue) \in Nat /\ DOMAIN queue = 1 .. Len(queue) /\ Len(queue) <= N
      /\ \A b \in Bosses : b \notin Queued(queue) => Len(queue) <= N - 1
      /\ Len(queue') \in Nat /\ DOMAIN queue' = 1 .. Len(queue') /\ Len(queue') <= N
      /\ \A b \in Bosses : b \notin Queued(queue') => Len(queue') <= N - 1
  BY QueueLength DEF WaitInv, QInv
<1>6. ASSUME NEW b \in Bosses
      PROVE  /\ b \notin Queued(queue') => waits'[b] + Len(queue') <= N - 1
             /\ \A k \in DOMAIN queue' : queue'[k] = b => waits'[b] + k <= 2 * N - 1
  <2>0. waits[b] \in Nat
    BY DEF WaitInv
  <2>1. CASE b \in present \/ b = n.id
    BY <1>3, <1>5, <2>1
  <2>2. CASE b \notin present /\ b # n.id
    <3>1. waits'[b] = waits[b] + 1
      BY <1>3, <2>2
    <3>2. CASE Ready(queue, present) # {}
      <4>1. n = Take(queue, present)
        BY <3>2 DEF NextBoss
      <4>2. /\ Len(n.queue) = Len(queue) - 1
            /\ b \in Queued(queue) => b \in Queued(n.queue)
            /\ \A j \in DOMAIN n.queue :
                  n.queue[j] = b => j + 1 \in DOMAIN queue /\ queue[j + 1] = b
        BY <2>2, <3>2, <4>1, TakePlaces DEF WaitInv, QInv
      <4>3. b \notin Queued(queue') => waits'[b] + Len(queue') <= N - 1
        <5>1. Len(queue') = Len(queue) - 1 /\ (b \in Queued(queue) => b \in Queued(queue'))
          BY <1>1, <4>2
        <5>2. b \notin Queued(queue) => waits[b] + Len(queue) <= N - 1
          BY DEF WaitInv
        <5> QED
          BY <1>5, <2>0, <3>1, <5>1, <5>2
      <4>4. ASSUME NEW k \in DOMAIN queue', queue'[k] = b
            PROVE  waits'[b] + k <= 2 * N - 1
        <5>1. k + 1 \in DOMAIN queue /\ queue[k + 1] = b
          BY <1>1, <4>2, <4>4
        <5>2. waits[b] + (k + 1) <= 2 * N - 1
          BY <5>1 DEF WaitInv
        <5> QED
          BY <1>5, <2>0, <3>1, <5>2, <4>4
      <4> QED
        BY <4>3, <4>4
    <3>3. CASE Ready(queue, present) = {}
      <4>1. PICK r \in Rounds(queue) : n = Take(queue \o r, present)
        BY <3>3 DEF NextBoss
      <4>2. /\ queue \o r \in Seq(Bosses) /\ ValidQueue(queue \o r)
            /\ Queued(queue \o r) = Bosses
        BY RoundValid DEF WaitInv, QInv
      <4>3. Ready(queue \o r, present) # {}
        BY <2>2, <4>2 DEF Ready, Queued
      <4>4. b \in Queued(queue')
        BY <1>1, <2>2, <4>1, <4>2, <4>3, TakePlaces
      <4>5. Len(queue') = Len(queue \o r) - 1 /\ Len(queue \o r) <= N /\ Len(queue \o r) \in Nat
        BY <1>1, <4>1, <4>2, <4>3, TakePlaces, QueueLength
      <4>6. b \notin Queued(queue)
        BY <2>2, <3>3 DEF Ready, Queued
      <4>7. waits[b] <= N - 1
        BY <1>5, <2>0, <4>6 DEF WaitInv
      <4> QED
        BY <1>5, <2>0, <3>1, <4>4, <4>5, <4>7
    <3> QED
      BY <3>2, <3>3
  <2> QED
    BY <2>1, <2>2
<1> QED
  BY <1>4, <1>6 DEF WaitInv

\* No boss is starved: off stage it is passed over for fewer than two rounds
\* of draws, whatever the shuffles and however long the other seat keeps its
\* boss (the carry-over of MmxBossRushNextBoss).
THEOREM DrawnWithinTwoRoundsAlways == MCSpec => []DrawnWithinTwoRounds
<1>1. WaitInv /\ [MCNext]_<<qvars, waits>> => WaitInv'
  <2> SUFFICES ASSUME WaitInv, [MCNext]_<<qvars, waits>> PROVE WaitInv'
    OBVIOUS
  <2>1. [QNext]_qvars
    BY DEF MCNext, MCDraw, QNext
  <2>2. QInv'
    BY <2>1, QStep DEF WaitInv
  <2>3. CASE Clear /\ waits' = [b \in Bosses |-> 0]
    <3>1. N \in Nat /\ N > 2
      BY BossesAssumption, FS_CardinalityType DEF N
    <3>2. Len(queue') = 0 /\ DOMAIN queue' = {}
      BY <2>3, EmptySeq DEF Clear
    <3> QED
      BY <2>2, <2>3, <3>1, <3>2 DEF WaitInv
  <2>4. ASSUME NEW s \in Seats, MCDraw(s) PROVE WaitInv'
    BY <2>2, <2>4, WaitDraws
  <2>5. CASE UNCHANGED <<queue, waits>>
    BY <2>2, <2>5 DEF WaitInv
  <2> QED
    BY <2>3, <2>4, <2>5 DEF MCNext, Leave, qvars
<1>2. WaitInv => DrawnWithinTwoRounds
  <2> SUFFICES ASSUME WaitInv, NEW b \in Bosses PROVE waits[b] <= 2 * (N - 1)
    BY DEF DrawnWithinTwoRounds, N
  <2>1. /\ N \in Nat /\ Len(queue) \in Nat /\ DOMAIN queue = 1 .. Len(queue) /\ N > 2
    BY QueueLength, BossesAssumption DEF WaitInv, QInv, N
  <2>2. waits[b] \in Nat
    BY DEF WaitInv
  <2>3. CASE b \in Queued(queue)
    <3>1. PICK k \in DOMAIN queue : queue[k] = b
      BY <2>3 DEF Queued
    <3>2. waits[b] + k <= 2 * N - 1
      BY <3>1 DEF WaitInv
    <3> QED
      BY <2>1, <2>2, <3>1, <3>2
  <2>4. CASE b \notin Queued(queue)
    <3>1. waits[b] + Len(queue) <= N - 1
      BY <2>4 DEF WaitInv
    <3> QED
      BY <2>1, <2>2, <3>1
  <2> QED
    BY <2>3, <2>4
<1> QED
  BY <1>1, <1>2, WaitInitially, PTL DEF MCSpec

-----------------------------------------------------------------------------
(* The scheduler of the tasks.  A slot's record is that of a suspended task, *)
(* of a task that a load left to be resumed, or of one to start.             *)
Entries == Tasks \cup {Scratch}
Points == [task : Entries \cup {NoTask}, at : Int]
RegSets == [task : Entries \cup {NoTask, "host"}, at : Int, frames : Int]
CellSet == [st : {"empty", "fresh", "delayed", "running"}, cd : 0 .. 255, hand : Entries]
CellOK(c) ==
    c \in CellSet /\ (c.st = "delayed" => c.cd # 0) /\ (c.st = "running" => c.cd = 0)
HostSet == [fiber : Points, pc : Entries \cup {NoTask}, prev : {"empty", "delayed", "running"},
            saved : RegSets, resume : Points, pending : BOOLEAN, lost : BOOLEAN]
SuspendedOK(h) ==
    /\ h.fiber.task \in Entries /\ h.fiber.at # 0 /\ h.pc = h.fiber.task /\ h.pending = FALSE
    /\ h.resume = IF h.fiber.at = Site THEN NoPoint ELSE h.fiber
    /\ h.saved = Regs(h.fiber, IF h.fiber.at = Site THEN 0 ELSE 1)
PendingOK(h) ==
    /\ h.resume.task \in Entries /\ h.resume.at \notin {0, Site} /\ h.pc = h.resume.task
    /\ h.saved = Regs(h.resume, 0)
\* A slot that starts at its entry: with new registers, with those of the
\* dispatch site, or with those of the point that a file has lost.
LostOK(h, regs) == h.lost /\ regs.task = h.pc /\ regs.frames = 0
StartsOK(h) ==
    \/ h.saved = NoRegs
    \/ h.pc \in Entries /\ (h.saved = Regs(Point(h.pc, Site), 0) \/ LostOK(h, h.saved))
HostOK(h) ==
    /\ h \in HostSet
    /\ h.fiber # NoPoint => SuspendedOK(h)
    /\ h.fiber = NoPoint => IF h.pending THEN PendingOK(h) ELSE StartsOK(h)
\* The record of the task that runs, and its registers.
LiveOK(h, regs) ==
    /\ h \in HostSet
    /\ h.fiber.task \in Entries /\ h.pc = h.fiber.task /\ h.pending = FALSE
    /\ \/ regs = Regs(h.fiber, 0)
       \/ h.fiber.at = 0 /\ (regs = Regs(Point(h.pc, Site), 0) \/ LostOK(h, regs))
GateOK(g, gt) ==
    /\ g \in {"off", "booted", "played"} /\ gt \in [reset : BOOLEAN, first : BOOLEAN]
    /\ g = "off" <=> ~gt.reset
    /\ g = "played" <=> gt.first
FileOK ==
    /\ stateFile.form \in {"none", "guest", "short", "whole"}
    /\ stateFile.cells \in [Lanes -> CellSet] /\ stateFile.hosts \in [Lanes -> HostSet]
    /\ \A s \in Lanes : CellOK(stateFile.cells[s]) /\ stateFile.cells[s].st # "running"
    /\ \A s \in Lanes : HostOK(stateFile.hosts[s]) /\ ~stateFile.hosts[s].pending
    /\ stateFile.form \in {"guest", "short"} => stateFile.guest = "played"
    /\ stateFile.form = "whole" => GateOK(stateFile.guest, stateFile.gate)
TurnOK ==
    /\ ticking \in {"idle", "walk", "task"}
    /\ ticking = "idle" => lane = 0
    /\ ticking = "walk" => lane \in 1 .. LaneCount + 1
    /\ ticking = "task" => lane \in Lanes
    /\ GateOK(guest, gate) /\ nmiRan \in BOOLEAN
    /\ ticking # "idle" => guest # "off"
SlotOK(s) ==
    /\ CellOK(cells[s])
    /\ cells[s].st = "running" <=> (ticking = "task" /\ s = lane)
    /\ IF ticking = "task" /\ s = lane THEN LiveOK(hosts[s], cpu) ELSE HostOK(hosts[s])
FiberInv ==
    /\ TurnOK
    /\ cells \in [Lanes -> CellSet] /\ hosts \in [Lanes -> HostSet]
    /\ \A s \in Lanes : SlotOK(s)
    /\ FileOK

LEMMA RebuiltOK ==
  ASSUME NEW h, HostOK(h), ~h.pending PROVE HostOK(Rebuilt(h))
  <1> DEFINE pending == h.fiber # NoPoint /\ h.resume # NoPoint
             r == Rebuilt(h)
             kept == IF pending THEN Regs(h.resume, 0) ELSE h.saved
  <1>0. r = [h EXCEPT !.fiber = NoPoint, !.pending = pending, !.saved = kept]
    BY DEF Rebuilt
  <1>a. NoPoint \in Points /\ kept \in RegSets /\ pending \in BOOLEAN
    BY DEF HostOK, HostSet, Points, RegSets, Regs, NoPoint, Point
  <1>2. h \in HostSet
    BY DEF HostOK
  <1> HIDE DEF pending, kept, r
  <1>b. r \in HostSet
    BY <1>0, <1>a, <1>2 DEF HostSet
  <1>c. /\ r.fiber = NoPoint /\ r.pc = h.pc /\ r.resume = h.resume /\ r.saved = kept
        /\ r.pending = pending /\ r.lost = h.lost
    BY <1>0, <1>2 DEF HostSet
  <1>1. /\ r.fiber = NoPoint /\ r.pc = h.pc /\ r.resume = h.resume
        /\ r.saved = IF pending THEN Regs(h.resume, 0) ELSE h.saved
        /\ r.pending = pending /\ r.lost = h.lost
    BY <1>c DEF kept
  <1>3. CASE h.fiber = NoPoint
    <2>1. ~pending /\ StartsOK(h)
      BY <1>3 DEF HostOK, pending
    <2>2. StartsOK(r)
      BY <1>1, <2>1 DEF StartsOK, LostOK
    <2> QED
      BY <1>1, <1>b, <2>1, <2>2 DEF HostOK, r
  <1>4. CASE h.fiber # NoPoint /\ h.resume = NoPoint
    <2>1. h.fiber.at = Site
      BY <1>4 DEF HostOK, SuspendedOK
    <2>2. h.fiber = Point(h.pc, Site)
      BY <1>4, <2>1 DEF HostOK, SuspendedOK, HostSet, Points, Point
    <2>3. h.saved = Regs(Point(h.pc, Site), 0) /\ h.pc \in Entries
      BY <1>4, <2>1, <2>2 DEF HostOK, SuspendedOK
    <2> QED
      <3>1. ~pending
        BY <1>4 DEF pending
      <3>2. StartsOK(r)
        BY <1>1, <2>3, <3>1 DEF StartsOK
      <3> QED
        BY <1>1, <1>b, <3>1, <3>2 DEF HostOK, r
  <1>5. CASE h.fiber # NoPoint /\ h.resume # NoPoint
    <2>1. h.resume = h.fiber /\ h.fiber.at \notin {0, Site} /\ h.fiber.task \in Entries
          /\ h.pc = h.fiber.task
      BY <1>5 DEF HostOK, SuspendedOK
    <2>2. PendingOK(r) /\ r.pending /\ r.fiber = NoPoint
      <3>1. pending
        BY <1>5 DEF pending
      <3> QED
        BY <1>1, <2>1, <3>1 DEF PendingOK
    <2> QED
      BY <1>b, <2>2 DEF HostOK, r
  <1> QED
    BY <1>3, <1>4, <1>5

(* What a file keeps of a record is a record; it is never a waiting one.    *)
LEMMA StoredOK ==
  ASSUME NEW h, HostOK(h)
  PROVE  /\ HostOK(Stored(h)) /\ ~Stored(h).pending /\ Stored(h) \in HostSet
         /\ Stored(h).fiber = h.fiber /\ Stored(h).pc = h.pc
  <1> DEFINE r == Stored(h)
             lost == h.lost \/ h.pending
  <1>1. h \in HostSet /\ lost \in BOOLEAN
    BY DEF HostOK, HostSet
  <1>2. r = [h EXCEPT !.pending = FALSE, !.lost = lost]
    BY DEF Stored
  <1> HIDE DEF r, lost
  <1>3. /\ r \in HostSet /\ r.fiber = h.fiber /\ r.pc = h.pc /\ r.resume = h.resume
        /\ r.saved = h.saved /\ r.pending = FALSE /\ r.lost = lost
    BY <1>1, <1>2 DEF HostSet
  <1>4. CASE h.fiber # NoPoint
    <2>1. SuspendedOK(r)
      BY <1>3, <1>4 DEF HostOK, SuspendedOK
    <2> QED
      BY <1>3, <1>4, <2>1 DEF HostOK, r
  <1>5. CASE h.fiber = NoPoint /\ ~h.pending
    <2>1. h.lost => r.lost
      BY <1>3 DEF lost
    <2>2. StartsOK(r)
      BY <1>3, <1>5, <2>1 DEF HostOK, StartsOK, LostOK
    <2> QED
      BY <1>3, <1>5, <2>2 DEF HostOK, r
  <1>6. CASE h.fiber = NoPoint /\ h.pending
    <2>1. PendingOK(h) /\ r.lost
      BY <1>3, <1>6 DEF HostOK, lost
    <2>2. h.pc \in Entries /\ h.saved.task = h.pc /\ h.saved.frames = 0
      BY <2>1 DEF PendingOK, Regs
    <2>3. StartsOK(r)
      BY <1>3, <2>1, <2>2 DEF StartsOK, LostOK
    <2> QED
      BY <1>3, <1>6, <2>3 DEF HostOK, r
  <1> QED
    BY <1>4, <1>5, <1>6

(* A slot that is run: its record fits its registers, whatever it was.      *)
Prepared(c, h) == WithRegs(WithFiber(c, Installed(c, h)))
RunRegs(c, h) ==
    IF Installed(c, h).fiber # NoPoint THEN Returned(Prepared(c, h)) ELSE Prepared(c, h).saved
LEMMA ReadyOK ==
  ASSUME NEW c, NEW h, CellOK(c), HostOK(h)
  PROVE  LiveOK(Prepared(c, h), RunRegs(c, h))
  <1> DEFINE i == Installed(c, h)
             f == WithFiber(c, i)
             r == Prepared(c, h)
  <1>1. HostOK(i)
    <2> DEFINE n == [NoHost EXCEPT !.prev = h.prev, !.pc = c.hand]
    <2>1. NoHost \in HostSet /\ h.prev \in {"empty", "delayed", "running"} /\ c.hand \in Entries
      BY DEF NoHost, HostSet, NoRegs, Regs, NoPoint, Point, Points, RegSets, HostOK, CellOK, CellSet
    <2>2. n \in HostSet
      BY <2>1 DEF HostSet
    <2>3. n.fiber = NoPoint /\ n.pending = FALSE /\ n.saved = NoRegs
      BY DEF NoHost
    <2>4. HostOK(n)
      BY <2>2, <2>3 DEF HostOK, StartsOK
    <2> QED
      BY <2>4 DEF Installed
  <1> HIDE DEF i
  <1>2. r = WithRegs(f) /\ RunRegs(c, h) = IF i.fiber # NoPoint THEN Returned(r) ELSE r.saved
    BY DEF i, Prepared, RunRegs
  <1>3. NoTask \notin Entries
    BY FiberAssumption DEF Entries, NoTask
  <1>4. CASE i.fiber # NoPoint
    <2>1. f = i /\ SuspendedOK(i)
      BY <1>1, <1>4 DEF WithFiber, HostOK
    <2>2. i.saved # NoRegs
      BY <1>3, <2>1 DEF SuspendedOK, NoRegs, Regs, NoPoint, Point
    <2>3. r = i
      BY <1>2, <2>1, <2>2 DEF WithRegs
    <2>4. Returned(i) = Regs(i.fiber, 0)
      BY <2>1 DEF Returned, SuspendedOK, Regs, Site
    <2> QED
      BY <1>1, <1>2, <1>4, <2>1, <2>3, <2>4 DEF LiveOK, SuspendedOK, HostOK
  <1>5. CASE i.fiber = NoPoint /\ i.pending
    <2>1. PendingOK(i)
      BY <1>1, <1>5 DEF HostOK
    <2>2. i.resume # NoPoint /\ i.pc # NoTask
      BY <1>3, <2>1 DEF PendingOK, NoPoint, Point
    <2>3. f = [i EXCEPT !.pc = i.pc, !.pending = FALSE, !.fiber = i.resume]
      BY <1>1, <1>5, <2>2 DEF WithFiber, HostOK, HostSet
    <2>4. f \in HostSet /\ f.fiber = i.resume /\ f.pc = i.pc /\ f.pending = FALSE /\ f.saved = i.saved
      BY <1>1, <2>3 DEF HostOK, HostSet
    <2>5. f.saved # NoRegs
      BY <1>3, <2>1, <2>4 DEF PendingOK, NoRegs, Regs, NoPoint, Point
    <2> HIDE DEF f
    <2>6. r = f
      BY <1>2, <2>5 DEF WithRegs
    <2> QED
      BY <1>2, <1>5, <2>1, <2>4, <2>6 DEF LiveOK, PendingOK
  <1>6. CASE i.fiber = NoPoint /\ ~i.pending
    <2> DEFINE start == IF i.pc = NoTask THEN c.hand ELSE i.pc
    <2>1. start \in Entries /\ StartsOK(i)
      BY <1>1, <1>6 DEF HostOK, HostSet, CellOK, CellSet
    <2>2. f = [i EXCEPT !.pc = start, !.pending = FALSE, !.fiber = Point(start, 0)]
      BY <1>1, <1>6 DEF WithFiber, HostOK, HostSet
    <2>3. i.saved # NoRegs =>
             /\ i.pc = start
             /\ i.saved = Regs(Point(start, Site), 0) \/ LostOK(i, i.saved)
      BY <1>3, <2>1 DEF StartsOK
    <2> HIDE DEF start
    <2>4. /\ f \in HostSet /\ f.fiber = Point(start, 0) /\ f.pc = start /\ f.pending = FALSE
          /\ f.saved = i.saved /\ f.lost = i.lost
      <3>1. i \in HostSet /\ Point(start, 0) \in Points /\ start \in Entries
        BY <1>1, <2>1 DEF HostOK, Points, Point
      <3> QED
        BY <2>2, <3>1 DEF HostSet
    <2> HIDE DEF f
    <2>5. CASE i.saved = NoRegs
      <3>1. r = [f EXCEPT !.saved = Regs(Point(start, 0), 0)]
        BY <1>2, <2>4, <2>5 DEF WithRegs
      <3>2. /\ r \in HostSet /\ r.saved = Regs(Point(start, 0), 0) /\ r.fiber = Point(start, 0)
            /\ r.pc = start /\ r.pending = FALSE
        BY <2>1, <2>4, <3>1 DEF HostSet, RegSets, Regs, Point
      <3> QED
        BY <1>2, <1>6, <2>1, <3>2 DEF LiveOK, Point
    <2>6. CASE i.saved # NoRegs
      <3>1. r = f
        BY <1>2, <2>4, <2>6 DEF WithRegs
      <3> QED
        BY <1>2, <1>6, <2>1, <2>3, <2>4, <2>6, <3>1 DEF LiveOK, LostOK, Point
    <2> QED
      BY <2>5, <2>6
  <1> QED
    BY <1>4, <1>5, <1>6

LEMMA NoHostOK == HostOK(NoHost)
  BY DEF NoHost, HostOK, HostSet, StartsOK, NoRegs, Regs, NoPoint, Point, Points, RegSets

LEMMA SuspendedKeeps ==
  ASSUME NEW h, NEW place \in (Nat \ {0}) \cup {Site}, LiveOK(h, cpu)
  PROVE  HostOK(Suspended(h, place))
  <1> DEFINE n == Suspended(h, place)
             point == Point(h.fiber.task, place)
             kept == Regs(point, IF place = Site THEN 0 ELSE 1)
             next == IF place = Site THEN NoPoint ELSE point
             moved == [h.fiber EXCEPT !.at = place]
  <1>1. place \in Int /\ place # 0
    BY DEF Site
  <1>2. cpu.task = h.fiber.task
    BY DEF LiveOK, LostOK, Regs, Point
  <1>3. moved = point
    BY DEF LiveOK, HostSet, Points, Point
  <1>4. n = [h EXCEPT !.fiber = moved, !.prev = "delayed", !.lost = FALSE, !.saved = kept,
                      !.resume = next]
    BY <1>2 DEF Suspended
  <1>5. point \in Points /\ next \in Points /\ kept \in RegSets /\ point.task \in Entries
        /\ point.task = h.fiber.task /\ point.at = place
    BY <1>1 DEF LiveOK, Points, RegSets, Regs, NoPoint, Point
  <1> HIDE DEF n, moved
  <1>6. n = [h EXCEPT !.fiber = point, !.prev = "delayed", !.lost = FALSE, !.saved = kept,
                      !.resume = next]
    BY <1>3, <1>4
  <1>7. kept = Regs(point, IF point.at = Site THEN 0 ELSE 1)
        /\ next = IF point.at = Site THEN NoPoint ELSE point
    BY <1>5
  <1> HIDE DEF point, kept, next
  <1>8. h \in HostSet /\ h.pc = h.fiber.task /\ h.pending = FALSE
    BY DEF LiveOK
  <1>9. n \in HostSet
    BY <1>5, <1>6, <1>8 DEF HostSet
  <1>10. /\ n.fiber = point /\ n.saved = kept /\ n.resume = next /\ n.pc = point.task
         /\ n.pending = FALSE
    BY <1>5, <1>6, <1>8 DEF HostSet
  <1>11. SuspendedOK(n)
    BY <1>1, <1>5, <1>7, <1>10 DEF SuspendedOK
  <1>12. n.fiber # NoPoint
    BY <1>5, <1>10, FiberAssumption DEF NoPoint, Point, NoTask, Entries
  <1> QED
    BY <1>9, <1>11, <1>12 DEF HostOK, n

LEMMA FiberInitially == FibersInit => FiberInv
  <1> SUFFICES ASSUME FibersInit PROVE FiberInv
    OBVIOUS
  <1>1. ColdGuest \in [Lanes -> CellSet] /\ NoHosts \in [Lanes -> HostSet]
        /\ \A s \in Lanes : CellOK(ColdGuest[s]) /\ ColdGuest[s].st # "running"
                              /\ HostOK(NoHosts[s]) /\ ~NoHosts[s].pending
    <2>1. EmptySlot \in CellSet /\ EmptySlot.st = "empty" /\ NoHost \in HostSet /\ ~NoHost.pending
      BY NoHostOK DEF EmptySlot, CellSet, Entries, HostOK, NoHost
    <2> QED
      BY <2>1, NoHostOK DEF ColdGuest, NoHosts, CellOK
  <1>2. OldCells \in [Lanes -> CellSet] /\ OldHosts \in [Lanes -> HostSet]
        /\ \A s \in Lanes : CellOK(OldCells[s]) /\ OldCells[s].st # "running"
                              /\ HostOK(OldHosts[s]) /\ ~OldHosts[s].pending
    <2> DEFINE p == Point(BootTask, 1)
               k == Regs(Point(BootTask, 1), 1)
               old == [NoHost EXCEPT !.fiber = p, !.pc = BootTask, !.prev = "delayed",
                                     !.saved = k, !.resume = p]
               cell == [st |-> "delayed", cd |-> 1, hand |-> Scratch]
    <2>1. BootTask \in Entries /\ cell \in CellSet /\ CellOK(cell) /\ cell.st # "running"
      BY FiberAssumption DEF Entries, CellSet, CellOK
    <2>a. p \in Points /\ k \in RegSets /\ p.task = BootTask /\ p.at = 1 /\ p # NoPoint
      BY <2>1, FiberAssumption DEF Points, RegSets, Regs, Point, NoPoint, NoTask, Entries
    <2>b. k = Regs(p, 1)
      BY DEF Regs, Point
    <2> HIDE DEF p, k
    <2>2. NoHost \in HostSet /\ NoHost.pending = FALSE
      BY NoHostOK DEF HostOK, NoHost
    <2>3. old \in HostSet
      BY <2>1, <2>a, <2>2 DEF HostSet
    <2>c. old.fiber = p /\ old.pc = BootTask /\ old.saved = k /\ old.resume = p
          /\ old.pending = FALSE
      BY <2>2 DEF HostSet
    <2>4. SuspendedOK(old) /\ old.fiber # NoPoint /\ ~old.pending
      BY <2>1, <2>a, <2>b, <2>c DEF SuspendedOK, Site
    <2>5. HostOK(old)
      BY <2>3, <2>4 DEF HostOK
    <2> HIDE DEF old, cell
    <2>6. OldCells = [ColdGuest EXCEPT ![1] = cell] /\ OldHosts = [NoHosts EXCEPT ![1] = old]
      BY DEF OldCells, OldHosts, old, cell, p, k
    <2> QED
      BY <1>1, <2>1, <2>3, <2>4, <2>5, <2>6
  <1>3. FileOK
    <2>1. CASE stateFile = NoFile
      BY <1>1, <2>1 DEF NoFile, FileOK
    <2>2. CASE stateFile = OldFile
      BY <1>1, <1>2, <2>2 DEF OldFile, FileOK
    <2>3. CASE stateFile = ShortFile
      <3>1. /\ stateFile.form = "short" /\ stateFile.cells = OldCells
            /\ stateFile.hosts = OldHosts /\ stateFile.guest = "played"
        BY <2>3 DEF ShortFile, OldFile
      <3> QED
        BY <1>2, <3>1 DEF FileOK
    <2> QED
      BY <2>1, <2>2, <2>3 DEF FibersInit
  <1>4. TurnOK
    BY DEF FibersInit, TurnOK, GateOK
  <1>5. \A s \in Lanes : SlotOK(s)
    BY <1>1 DEF FibersInit, SlotOK
  <1> QED
    BY <1>1, <1>3, <1>4, <1>5 DEF FiberInv, FibersInit

LEMMA GuestsOK ==
  /\ ColdGuest \in [Lanes -> CellSet] /\ BootGuest \in [Lanes -> CellSet]
  /\ \A s \in Lanes : /\ CellOK(ColdGuest[s]) /\ ColdGuest[s].st # "running"
                       /\ CellOK(BootGuest[s]) /\ BootGuest[s].st # "running"
  <1> DEFINE boot == [st |-> "fresh", cd |-> 0, hand |-> BootTask]
  <1>1. CellOK(EmptySlot) /\ EmptySlot.st = "empty" /\ CellOK(boot) /\ boot.st = "fresh"
    BY FiberAssumption DEF EmptySlot, CellOK, CellSet, Entries
  <1>2. EmptySlot \in CellSet /\ boot \in CellSet
    BY <1>1 DEF CellOK
  <1>3. BootGuest = [ColdGuest EXCEPT ![1] = boot]
    BY DEF BootGuest
  <1> QED
    BY <1>1, <1>2, <1>3 DEF ColdGuest

LEMMA DelayedCell ==
  ASSUME NEW c \in CellSet, NEW wait \in 1 .. 255
  PROVE  LET n == [c EXCEPT !.st = "delayed", !.cd = wait]
         IN  CellOK(n) /\ n \in CellSet /\ n.st = "delayed"
  <1> DEFINE m == [c EXCEPT !.st = "delayed"]
             n == [m EXCEPT !.cd = wait]
  <1>1. m \in CellSet /\ m.st = "delayed"
    BY DEF CellSet
  <1> HIDE DEF m
  <1>2. wait \in 0 .. 255 /\ wait # 0
    OBVIOUS
  <1>3. n \in CellSet /\ n.st = "delayed" /\ n.cd = wait
    BY <1>1, <1>2 DEF CellSet
  <1> HIDE DEF n
  <1>4. CellOK(n)
    BY <1>2, <1>3 DEF CellOK
  <1>5. n = [c EXCEPT !.st = "delayed", !.cd = wait]
    BY DEF n, m
  <1> QED
    BY <1>3, <1>4, <1>5

(* Between two slots no record is that of a running task.                   *)
LEMMA Resting ==
  ASSUME FiberInv, ticking # "task"
  PROVE  \A s \in Lanes : CellOK(cells[s]) /\ cells[s].st # "running" /\ HostOK(hosts[s])
  BY DEF FiberInv, SlotOK

LEMMA FiberStep ==
  FiberInv /\ [FibersNext]_fiberVars => FiberInv'
  <1> SUFFICES ASSUME FiberInv, [FibersNext]_fiberVars PROVE FiberInv'
    OBVIOUS
  <1>1. ASSUME NEW held \in BOOLEAN, FrameStart(held) PROVE FiberInv'
    <2>1. \A s \in Lanes : HostOK(hosts[s])
      BY <1>1, Resting DEF FrameStart
    <2>2. cells' \in [Lanes -> CellSet]
          /\ \A s \in Lanes : CellOK(cells'[s]) /\ cells'[s].st # "running"
      BY <1>1, Resting, GuestsOK DEF FrameStart, FiberInv
    <2>3. TurnOK'
      <3>1. CASE gate.reset
        BY <1>1, <3>1, FiberAssumption DEF FrameStart, FiberInv, TurnOK, GateOK
      <3>2. CASE ~gate.reset
        <4>1. gate \in [reset : BOOLEAN, first : BOOLEAN] /\ gate.first = FALSE /\ guest = "off"
          BY <3>2 DEF FiberInv, TurnOK, GateOK
        <4>2. gate' = [gate EXCEPT !.reset = TRUE] /\ guest' = "booted"
          BY <1>1, <3>2 DEF FrameStart
        <4>3. gate' \in [reset : BOOLEAN, first : BOOLEAN] /\ gate'.reset /\ ~gate'.first
          BY <4>1, <4>2
        <4>4. GateOK(guest', gate')
          BY <4>2, <4>3 DEF GateOK
        <4> QED
          BY <1>1, <4>1, <4>2, <4>4, FiberAssumption DEF FrameStart, FiberInv, TurnOK
      <3> QED
        BY <3>1, <3>2
    <2>4. \A s \in Lanes : SlotOK(s)'
      BY <1>1, <2>1, <2>2 DEF FrameStart, SlotOK
    <2> QED
      BY <1>1, <2>2, <2>3, <2>4 DEF FrameStart, FiberInv, FileOK
  <1>2. CASE FrameEnd
    <2>1. gate' \in [reset : BOOLEAN, first : BOOLEAN] /\ gate'.first /\ gate'.reset
      BY <1>2 DEF FrameEnd, FiberInv, TurnOK, GateOK
    <2>2. TurnOK'
      BY <1>2, <2>1 DEF FrameEnd, TurnOK, GateOK, FiberInv
    <2>3. \A s \in Lanes : SlotOK(s)'
      BY <1>2, Resting DEF FrameEnd, SlotOK
    <2> QED
      BY <1>2, <2>2, <2>3 DEF FrameEnd, FiberInv, FileOK
  <1>3. CASE SlotPassed \/ SlotCounted
    <2>1. lane \in Lanes /\ ticking = "walk" /\ ticking' = "walk" /\ lane' = lane + 1
          /\ UNCHANGED frameVars
      BY <1>3 DEF SlotPassed, SlotCounted, Walking
    <2>2. CellOK(cells[lane]) /\ cells[lane].st # "running" /\ HostOK(hosts[lane])
      BY <2>1, Resting
    <2>3. ASSUME NEW st \in {"empty", "delayed"}
          PROVE  HostOK([hosts[lane] EXCEPT !.prev = st])
      <3> DEFINE h == hosts[lane]
                 n == [h EXCEPT !.prev = st]
      <3> HIDE DEF h
      <3>1. HostOK(h)
        BY <2>2 DEF h
      <3>2. n \in HostSet /\ n.fiber = h.fiber /\ n.pc = h.pc /\ n.saved = h.saved
            /\ n.resume = h.resume /\ n.pending = h.pending /\ n.lost = h.lost
        BY <3>1 DEF HostOK, HostSet
      <3> HIDE DEF n
      <3>3. HostOK(n)
        BY <3>1, <3>2 DEF HostOK, SuspendedOK, PendingOK, StartsOK, LostOK
      <3> QED
        BY <3>3 DEF n, h
    <2>4. \E st \in {"empty", "delayed"} : hosts' = [hosts EXCEPT ![lane].prev = st]
      BY <1>3, <2>2 DEF SlotPassed, SlotCounted
    <2>5. hosts' \in [Lanes -> HostSet] /\ \A s \in Lanes : HostOK(hosts'[s])
      <3>1. PICK st \in {"empty", "delayed"} :
                    hosts' = [hosts EXCEPT ![lane] = [hosts[lane] EXCEPT !.prev = st]]
        BY <2>4
      <3> DEFINE n == [hosts[lane] EXCEPT !.prev = st]
      <3>2. HostOK(n)
        BY <2>3
      <3>3. hosts' = [hosts EXCEPT ![lane] = n] /\ n \in HostSet
        BY <3>1, <3>2 DEF HostOK
      <3> HIDE DEF n
      <3> QED
        BY <2>1, <3>2, <3>3, Resting DEF FiberInv
    <2>6. cells' \in [Lanes -> CellSet]
          /\ \A s \in Lanes : CellOK(cells'[s]) /\ cells'[s].st # "running"
      <3>1. CASE SlotPassed
        BY <2>1, <3>1, Resting DEF SlotPassed, FiberInv
      <3>2. CASE SlotCounted
        <4> DEFINE c == cells[lane]
                   n == [c EXCEPT !.cd = (@ - 1) % 256]
        <4>1. c \in CellSet /\ c.st = "delayed" /\ c.cd \in 1 .. 255 /\ c.cd # 1
          BY <2>2, <3>2 DEF SlotCounted, CellOK, CellSet
        <4>2. (c.cd - 1) % 256 = c.cd - 1 /\ c.cd - 1 \in 1 .. 255
          BY <4>1
        <4>3. CellOK(n) /\ n \in CellSet /\ n.st = "delayed"
          BY <4>1, <4>2 DEF CellOK, CellSet
        <4>4. cells' = [cells EXCEPT ![lane] = n]
          BY <3>2 DEF SlotCounted
        <4> HIDE DEF n
        <4> QED
          BY <2>1, <4>3, <4>4, Resting DEF FiberInv
      <3> QED
        BY <1>3, <3>1, <3>2
    <2>7. TurnOK'
      BY <2>1, FiberAssumption DEF FiberInv, TurnOK, Lanes, frameVars
    <2>8. \A s \in Lanes : SlotOK(s)'
      BY <2>1, <2>5, <2>6 DEF SlotOK
    <2> QED
      BY <2>1, <2>5, <2>6, <2>7, <2>8 DEF FiberInv, FileOK, frameVars
  <1>4. CASE SlotRun
    <2>1. lane \in Lanes /\ ticking = "walk" /\ UNCHANGED <<lane, frameVars>> /\ ticking' = "task"
      BY <1>4 DEF SlotRun, Walking
    <2> DEFINE c == cells[lane]
               h == hosts[lane]
               n == [st |-> "running", cd |-> 0, hand |-> Scratch]
    <2>2. CellOK(c) /\ HostOK(h)
      BY <2>1, Resting
    <2>3. hosts' = [hosts EXCEPT ![lane] = Prepared(c, h)] /\ cells' = [cells EXCEPT ![lane] = n]
      BY <1>4 DEF SlotRun, Prepared
    <2>4. cpu' = RunRegs(c, h)
      BY <1>4 DEF SlotRun, Prepared, RunRegs
    <2>5. LiveOK(Prepared(c, h), RunRegs(c, h)) /\ Prepared(c, h) \in HostSet
      BY <2>2, ReadyOK DEF LiveOK
    <2>6. CellOK(n) /\ n \in CellSet /\ n.st = "running"
      BY DEF CellOK, CellSet, Entries
    <2> HIDE DEF c, h, n
    <2>7. \A s \in Lanes : SlotOK(s)'
      BY <2>1, <2>3, <2>4, <2>5, <2>6, Resting DEF SlotOK, FiberInv
    <2>8. TurnOK'
      BY <2>1 DEF FiberInv, TurnOK, frameVars
    <2> QED
      BY <2>1, <2>3, <2>5, <2>6, <2>7, <2>8 DEF FiberInv, FileOK, frameVars
  <1>5. ASSUME NEW s \in Lanes, NEW task \in Tasks, TaskInstalls(s, task) PROVE FiberInv'
    <2> DEFINE n == [st |-> "fresh", cd |-> 0, hand |-> task]
    <2>1. CellOK(n) /\ n \in CellSet /\ n.st = "fresh"
      BY DEF CellOK, CellSet, Entries
    <2>2. cells' = [cells EXCEPT ![s] = n] /\ s # lane /\ Running
          /\ UNCHANGED <<hosts, cpu, ticking, lane, frameVars>>
      BY <1>5 DEF TaskInstalls
    <2> HIDE DEF n
    <2>3. \A t \in Lanes : SlotOK(t)'
      BY <2>1, <2>2 DEF FiberInv, SlotOK, Running
    <2> QED
      BY <2>1, <2>2, <2>3 DEF FiberInv, TurnOK, FileOK, frameVars
  <1>6. ASSUME NEW y \in UNION {Yields[task] : task \in DOMAIN Yields}, TaskYields(y)
        PROVE  FiberInv'
    <2> DEFINE c == cells[lane]
               h == hosts[lane]
               wait == IF y.wait = 0 THEN 1 ELSE y.wait
               n == [c EXCEPT !.st = "delayed", !.cd = wait]
    <2>1. lane \in Lanes /\ ticking = "task"
      BY <1>6 DEF TaskYields, Running, FiberInv, TurnOK
    <2>2. c \in CellSet /\ LiveOK(h, cpu)
      BY <2>1 DEF FiberInv, SlotOK, CellOK
    <2>3. y \in [at : (Nat \ {0}) \cup {Site}, wait : 0 .. 255]
      BY <1>6, <2>2, FiberAssumption DEF TaskYields, LiveOK, Entries
    <2>4. /\ cells' = [cells EXCEPT ![lane] = n]
          /\ hosts' = [hosts EXCEPT ![lane] = Suspended(h, y.at)]
          /\ ticking' = "walk" /\ lane' = lane + 1 /\ UNCHANGED frameVars
      BY <1>6 DEF TaskYields, Back
    <2>5. HostOK(Suspended(h, y.at)) /\ Suspended(h, y.at) \in HostSet
      BY <2>2, <2>3, SuspendedKeeps DEF HostOK
    <2>6. wait \in 1 .. 255
      BY <2>3, SMTT(40)
    <2> HIDE DEF wait, c
    <2>7. CellOK(n) /\ n \in CellSet /\ n.st = "delayed"
      BY <2>2, <2>6, DelayedCell, Zenon
    <2> HIDE DEF h, n
    <2>8. \A s \in Lanes : SlotOK(s)'
      BY <2>1, <2>4, <2>5, <2>7 DEF FiberInv, SlotOK
    <2>9. TurnOK'
      BY <2>1, <2>4, FiberAssumption DEF FiberInv, TurnOK, frameVars, Lanes
    <2> QED
      BY <2>1, <2>4, <2>5, <2>7, <2>8, <2>9 DEF FiberInv, FileOK, frameVars
  <1>7. CASE TaskEnds
    <2> DEFINE c == cells[lane]
               n == [c EXCEPT !.st = "empty"]
    <2>1. lane \in Lanes /\ ticking = "task"
      BY <1>7 DEF TaskEnds, Running, FiberInv, TurnOK
    <2>2. c \in CellSet
      BY <2>1 DEF FiberInv
    <2>4. /\ cells' = [cells EXCEPT ![lane] = n]
          /\ hosts' = [hosts EXCEPT ![lane] = NoHost]
          /\ ticking' = "walk" /\ lane' = lane + 1 /\ UNCHANGED frameVars
      BY <1>7 DEF TaskEnds, Back
    <2>5. HostOK(NoHost) /\ NoHost \in HostSet
      BY NoHostOK DEF HostOK
    <2>7. CellOK(n) /\ n \in CellSet /\ n.st = "empty"
      BY <2>2 DEF CellOK, CellSet
    <2> HIDE DEF c, n
    <2>8. \A s \in Lanes : SlotOK(s)'
      BY <2>1, <2>4, <2>5, <2>7 DEF FiberInv, SlotOK
    <2>9. TurnOK'
      BY <2>1, <2>4, FiberAssumption DEF FiberInv, TurnOK, frameVars, Lanes
    <2> QED
      BY <2>1, <2>4, <2>5, <2>7, <2>8, <2>9 DEF FiberInv, FileOK, frameVars
  <1>8. CASE StateSave
    <2>1. /\ stateFile'.form = "whole" /\ stateFile'.cells = cells
          /\ stateFile'.hosts = [s \in Lanes |-> Stored(hosts[s])]
          /\ stateFile'.gate = gate /\ stateFile'.guest = guest /\ ticking = "idle"
          /\ UNCHANGED <<cells, hosts, cpu, ticking, lane, gate, guest, nmiRan>>
      BY <1>8 DEF StateSave, Between
    <2>2. \A s \in Lanes : HostOK(Stored(hosts[s])) /\ ~Stored(hosts[s]).pending
                            /\ Stored(hosts[s]) \in HostSet
      BY <2>1, Resting, StoredOK
    <2>3. FileOK'
      BY <2>1, <2>2, Resting DEF FileOK, FiberInv, TurnOK
    <2> QED
      BY <2>1, <2>3 DEF FiberInv, TurnOK, SlotOK
  <1>9. CASE StateLoad
    <2>1. /\ ticking = "idle" /\ UNCHANGED <<cpu, ticking, lane, nmiRan, stateFile>>
          /\ cells' = stateFile.cells /\ guest' = stateFile.guest
          /\ hosts' = [s \in Lanes |-> Rebuilt(stateFile.hosts[s])]
          /\ stateFile.form \in {"whole", "short"}
          /\ gate' = IF stateFile.form = "whole" THEN stateFile.gate ELSE Booted
      BY <1>9 DEF StateLoad, Between
    <2>2. \A s \in Lanes : HostOK(Rebuilt(stateFile.hosts[s]))
                            /\ Rebuilt(stateFile.hosts[s]) \in HostSet
      BY RebuiltOK DEF FiberInv, FileOK, HostOK
    <2>3. GateOK(guest', gate')
      BY <2>1 DEF FiberInv, FileOK, GateOK, Booted
    <2>4. TurnOK'
      BY <2>1, <2>3 DEF FiberInv, TurnOK
    <2>5. \A s \in Lanes : SlotOK(s)'
      BY <2>1, <2>2 DEF FiberInv, FileOK, SlotOK
    <2> QED
      BY <2>1, <2>2, <2>4, <2>5 DEF FiberInv, FileOK
  <1>10. CASE StateLoadOld
    <2>1. /\ ticking = "idle" /\ UNCHANGED <<hosts, cpu, ticking, lane, nmiRan, stateFile>>
          /\ cells' = stateFile.cells /\ guest' = stateFile.guest
          /\ stateFile.form = "guest" /\ gate' = Booted
      BY <1>10 DEF StateLoadOld, Between
    <2>2. TurnOK'
      BY <2>1 DEF FiberInv, FileOK, TurnOK, GateOK, Booted
    <2>3. \A s \in Lanes : SlotOK(s)'
      BY <2>1, Resting DEF FiberInv, FileOK, SlotOK
    <2> QED
      BY <2>1, <2>2, <2>3 DEF FiberInv, FileOK
  <1>11. CASE HardwareReset \/ Relaunch
    <2>1. /\ ticking = "idle" /\ UNCHANGED <<ticking, lane, stateFile>>
          /\ cells' = ColdGuest /\ guest' = "off" /\ nmiRan' = FALSE /\ hosts' = NoHosts
          /\ gate' = [reset |-> FALSE, first |-> FALSE]
      BY <1>11 DEF HardwareReset, Relaunch, Between
    <2>2. TurnOK'
      BY <2>1 DEF FiberInv, TurnOK, GateOK
    <2>3. NoHosts \in [Lanes -> HostSet] /\ \A s \in Lanes : HostOK(NoHosts[s])
      BY NoHostOK DEF NoHosts, HostOK
    <2>4. \A s \in Lanes : SlotOK(s)'
      BY <2>1, <2>3, GuestsOK DEF SlotOK
    <2> QED
      BY <2>1, <2>2, <2>3, <2>4, GuestsOK DEF FiberInv, FileOK
  <1>12. CASE UNCHANGED fiberVars
    BY <1>12 DEF fiberVars, FiberInv, TurnOK, SlotOK, FileOK
  <1> QED
    BY <1>1, <1>2, <1>3, <1>4, <1>5, <1>6, <1>7, <1>8, <1>9, <1>10, <1>11, <1>12
       DEF FibersNext

(* What a running task has in the registers is its own: RunsOwn holds in     *)
(* every state, whatever is saved, loaded, installed or reset, and when.     *)
THEOREM RunsOwnAlways == FibersSpec => []RunsOwn
  <1>1. FiberInv => RunsOwn
    BY DEF FiberInv, TurnOK, SlotOK, LiveOK, LostOK, RunsOwn, Running, Regs, Point
  <1>2. FiberInv /\ [FibersNext]_fiberVars => FiberInv'
    BY FiberStep
  <1> QED
    BY <1>1, <1>2, FiberInitially, PTL DEF FibersSpec

-----------------------------------------------------------------------------
(* The promise of TaskSlots, from what each step does to the job of a slot. *)
JobOf(task, place, wait) == [task |-> task, at |-> place, wait |-> wait]

LEMMA StandPoint ==
  ASSUME NEW c, NEW h, c.st \in {"delayed", "running"}, h.fiber # NoPoint
  PROVE  Standing(c, h) = JobOf(h.fiber.task, h.fiber.at, c.cd)
  BY DEF Standing, JobOf

LEMMA StandReady ==
  ASSUME NEW c, NEW h, NEW n, CellOK(c), HostOK(h), n.st = "running", n.cd = 0,
         c.st = "fresh" \/ (c.st = "delayed" /\ c.cd = 1)
  PROVE  \E task, place : /\ Standing(c, h) = JobOf(task, place, 1)
                       /\ Standing(n, Prepared(c, h)) = JobOf(task, place, 0)
                       /\ task \in Entries
  <1> DEFINE i == Installed(c, h)
             f == WithFiber(c, i)
             r == Prepared(c, h)
  <1>1. NoTask \notin Entries
    BY FiberAssumption DEF Entries, NoTask
  <1>2. LiveOK(r, RunRegs(c, h))
    BY ReadyOK
  <1>3. r.fiber.task \in Entries /\ r.fiber # NoPoint
    BY <1>1, <1>2 DEF LiveOK, NoPoint, Point
  <1>4. Standing(n, r) = JobOf(r.fiber.task, r.fiber.at, 0)
    BY <1>3, StandPoint
  <1>5. r = WithRegs(f)
    BY DEF Prepared
  <1>6. WithRegs(f).fiber = f.fiber
    BY DEF WithRegs
  <1>7. f.fiber = IF i.fiber # NoPoint THEN i.fiber
                  ELSE IF i.pending /\ i.resume # NoPoint THEN i.resume
                  ELSE Point(IF i.pc = NoTask THEN c.hand ELSE i.pc, 0)
    BY DEF WithFiber
  <1> HIDE DEF f
  <1>8. CASE c.st = "fresh"
    <2>1. h.prev # "fresh"
      BY DEF HostOK, HostSet
    <2>2. i.fiber = NoPoint /\ i.pending = FALSE /\ i.pc = c.hand
      BY <1>8, <2>1 DEF Installed, NoHost
    <2>3. r.fiber = Point(c.hand, 0)
      BY <1>5, <1>6, <1>7, <2>2
    <2>4. Standing(c, h) = JobOf(c.hand, 0, 1) /\ c.hand \in Entries
      BY <1>8 DEF Standing, JobOf, CellOK, CellSet
    <2> QED
      BY <1>4, <2>3, <2>4 DEF Point
  <1>9. CASE c.st = "delayed" /\ c.cd = 1
    <2>1. i = h
      BY <1>9 DEF Installed
    <2> HIDE DEF i
    <2>2. h.pending => h.resume # NoPoint \/ h.fiber # NoPoint
      BY <1>1 DEF HostOK, PendingOK, NoPoint, Point
    <2>3. Standing(c, h) = JobOf(r.fiber.task, r.fiber.at, 1)
      BY <1>5, <1>6, <1>7, <1>9, <2>1, <2>2 DEF Standing, JobOf
    <2> QED
      BY <1>3, <1>4, <2>3
  <1> QED
    BY <1>8, <1>9

LEMMA StandRebuilt ==
  ASSUME NEW c, NEW h, CellOK(c), c.st # "running", HostOK(h), ~h.pending
  PROVE  Standing(c, Rebuilt(h)) = Promise!Recalled(Standing(c, h))
  <1> DEFINE r == Rebuilt(h)
             pending == h.fiber # NoPoint /\ h.resume # NoPoint
  <1>1. r.fiber = NoPoint /\ r.pending = pending /\ r.resume = h.resume /\ r.pc = h.pc
    BY DEF Rebuilt, HostOK, HostSet
  <1> HIDE DEF r
  <1>2. CASE c.st \in {"empty", "fresh"}
    BY <1>2 DEF Standing, Promise!Recalled, Promise!Site, r
  <1>3. CASE c.st = "delayed" /\ h.fiber = NoPoint
    <2>1. /\ Standing(c, h) = JobOf(IF h.pc = NoTask THEN c.hand ELSE h.pc, 0, c.cd)
          /\ Standing(c, r) = JobOf(IF h.pc = NoTask THEN c.hand ELSE h.pc, 0, c.cd)
      BY <1>1, <1>3 DEF Standing, JobOf, Point
    <2> QED
      BY <2>1 DEF Promise!Recalled, Promise!Site, JobOf, r
  <1>4. CASE c.st = "delayed" /\ h.fiber # NoPoint
    <2>1. SuspendedOK(h) /\ h.pc # NoTask
      BY <1>4, FiberAssumption DEF HostOK, SuspendedOK, Entries, NoTask
    <2>2. Standing(c, h) = JobOf(h.fiber.task, h.fiber.at, c.cd)
      BY <1>4, StandPoint
    <2>3. CASE h.fiber.at = Site
      <3>1. h.resume = NoPoint
        BY <2>1, <2>3 DEF SuspendedOK
      <3>2. Standing(c, r) = JobOf(h.pc, 0, c.cd)
        BY <1>1, <1>4, <2>1, <3>1 DEF Standing, JobOf, Point
      <3>3. h.pc = h.fiber.task
        BY <2>1 DEF SuspendedOK
      <3> QED
        BY <2>2, <2>3, <3>2, <3>3 DEF Promise!Recalled, Promise!Anew, Promise!Site, Promise!Job, Site, JobOf, r
    <2>4. CASE h.fiber.at # Site
      <3>1. h.resume = h.fiber
        BY <2>1, <2>4 DEF SuspendedOK
      <3>2. Standing(c, r) = JobOf(h.fiber.task, h.fiber.at, c.cd)
        BY <1>1, <1>4, <3>1 DEF Standing, JobOf
      <3> QED
        BY <2>2, <2>4, <3>2 DEF Promise!Recalled, Promise!Site, Site, JobOf, r
    <2> QED
      BY <2>3, <2>4
  <1> QED
    BY <1>2, <1>3, <1>4 DEF CellOK, CellSet

LEMMA StandStored ==
  ASSUME NEW c, NEW h, CellOK(c), c.st # "running", HostOK(h)
  PROVE  Standing(c, Stored(h)) =
           IF Waits(c, h) THEN Promise!Anew(Standing(c, h)) ELSE Standing(c, h)
  <1> DEFINE r == Stored(h)
  <1>1. r.fiber = h.fiber /\ r.pc = h.pc /\ ~r.pending
    BY StoredOK
  <1> HIDE DEF r
  <1>2. CASE c.st \in {"empty", "fresh"}
    BY <1>2 DEF Standing, Waits, r
  <1>3. CASE c.st = "delayed" /\ ~h.pending
    BY <1>1, <1>3 DEF Standing, Waits, r
  <1>4. CASE c.st = "delayed" /\ h.pending
    <2>1. h.fiber = NoPoint /\ PendingOK(h)
      BY <1>4 DEF HostOK, SuspendedOK
    <2>2. h.pc = h.resume.task /\ h.pc # NoTask
      BY <2>1, FiberAssumption DEF PendingOK, Entries, NoTask
    <2>3. Standing(c, h) = JobOf(h.pc, h.resume.at, c.cd)
      BY <1>4, <2>1, <2>2 DEF Standing, JobOf
    <2>4. Standing(c, r) = JobOf(h.pc, 0, c.cd)
      BY <1>1, <1>4, <2>1, <2>2 DEF Standing, JobOf, Point
    <2> QED
      BY <1>4, <2>3, <2>4 DEF Waits, Promise!Anew, Promise!Job, JobOf, r
  <1> QED
    BY <1>2, <1>3, <1>4 DEF CellOK, CellSet

(* A slot without a fiber waits exactly if its job goes on at a point.      *)
LEMMA StandWaits ==
  ASSUME NEW c, NEW h, CellOK(c), c.st # "running", HostOK(h), h.fiber = NoPoint
  PROVE  Standing(c, h).at # 0 <=> Waits(c, h)
  <1>1. CASE c.st \in {"empty", "fresh"}
    BY <1>1 DEF Standing, Waits
  <1>2. CASE c.st = "delayed" /\ h.pending
    <2>1. h.resume.at # 0
      BY <1>2 DEF HostOK, PendingOK
    <2> QED
      BY <1>2, <2>1 DEF Standing, Waits
  <1>3. CASE c.st = "delayed" /\ ~h.pending
    BY <1>3 DEF Standing, Waits, Point
  <1> QED
    BY <1>1, <1>2, <1>3 DEF CellOK, CellSet

LEMMA ColdStands ==
  \A s \in Lanes : \A h : /\ Standing(ColdGuest[s], h) = Promise!NoJob
                          /\ ~Waits(ColdGuest[s], h)
  BY DEF ColdGuest, EmptySlot, Standing, Waits, Promise!NoJob, Promise!NoTask, NoTask

LEMMA PromiseInitially == FibersInit => Promise!Start
  <1> SUFFICES ASSUME FibersInit PROVE Promise!Start
    OBVIOUS
  <1>1. jobs = [s \in Promise!Lanes |-> Promise!NoJob]
    BY ColdStands DEF FibersInit, jobs, Lanes, Promise!Lanes
  <1>2. filed.game \in {"none", "played"}
    <2>1. CASE stateFile = NoFile
      BY <2>1 DEF filed, NoFile
    <2>2. CASE stateFile = OldFile
      BY <2>2 DEF filed, OldFile
    <2>3. CASE stateFile = ShortFile
      <3>1. stateFile.form = "short" /\ stateFile.guest = "played"
        BY <2>3 DEF ShortFile, OldFile
      <3> QED
        BY <3>1 DEF filed
    <2> QED
      BY <2>1, <2>2, <2>3 DEF FibersInit
  <1>3. waiting = {}
    BY ColdStands DEF FibersInit, waiting
  <1> QED
    BY <1>1, <1>2, <1>3 DEF FibersInit, Promise!Start

LEMMA PromiseStep ==
  ASSUME FiberInv, [FibersNext]_fiberVars
  PROVE  UNCHANGED fiberVars \/ Promise!Next \/ UNCHANGED Promise!slotVars
  <1> USE DEF Lanes, Promise!Lanes
  <1>0. LaneCount \in Nat \ {0}
    BY FiberAssumption
  <1>a. ASSUME UNCHANGED stateFile PROVE UNCHANGED filed
    BY <1>a DEF filed
  <1>b. ASSUME UNCHANGED <<cells, hosts>> PROVE UNCHANGED <<jobs, waiting>>
    BY <1>b DEF jobs, waiting
  <1>1. ASSUME NEW held \in BOOLEAN, FrameStart(held) PROVE Promise!Next
    <2>1. lane = 0 /\ lane' \in {0, 1} /\ nmiRan' = (guest = "played") /\ UNCHANGED filed
      BY <1>1, <1>a DEF FrameStart, FiberInv, TurnOK, GateOK
    <2>2. CASE guest = "off"
      <3>1. cells' = BootGuest /\ guest' = "booted"
        BY <1>1, <2>2 DEF FrameStart, FiberInv, TurnOK, GateOK
      <3>2. \A s \in Lanes : Standing(BootGuest[s], hosts'[s]) =
              IF s = 1 THEN Promise!Job(BootTask, 0, 1) ELSE Promise!NoJob
        BY ColdStands DEF BootGuest, ColdGuest, EmptySlot, Standing, Promise!Job, Promise!NoJob,
                          Promise!NoTask, NoTask
      <3>3. jobs' = [s \in Promise!Lanes |-> IF s = 1 THEN Promise!Job(BootTask, 0, 1)
                                              ELSE Promise!NoJob]
        BY <3>1, <3>2 DEF jobs
      <3>4. waiting' = {}
        BY <3>1, ColdStands DEF waiting, Waits, BootGuest, ColdGuest, EmptySlot
      <3> QED
        BY <2>1, <2>2, <3>1, <3>3, <3>4 DEF Promise!Begin, Promise!Next
    <2>3. CASE guest # "off"
      <3>1. UNCHANGED <<cells, hosts, guest>>
        BY <1>1, <2>3 DEF FrameStart, FiberInv, TurnOK, GateOK
      <3> QED
        BY <1>b, <2>1, <2>3, <3>1 DEF Promise!Begin, Promise!Next
    <2> QED
      BY <2>2, <2>3
  <1>2. CASE FrameEnd
    BY <1>2, <1>a, <1>b DEF FrameEnd, Promise!End, Promise!Next
  <1>3. CASE SlotPassed
    <2>1. lane \in Lanes /\ cells[lane].st = "empty"
      BY <1>3, Resting DEF SlotPassed, Walking
    <2>2. jobs[lane] = Promise!NoJob
      BY <2>1 DEF jobs, Standing, Promise!NoJob, Promise!NoTask, NoTask
    <2>3. UNCHANGED jobs
      <3>1. \A s \in Lanes : Standing(cells'[s], hosts'[s]) = Standing(cells[s], hosts[s])
        BY <1>3, <2>1 DEF SlotPassed, Standing, FiberInv
      <3> QED
        BY <3>1 DEF jobs
    <2>4. UNCHANGED waiting
      <3>1. \A s \in Lanes : Waits(cells'[s], hosts'[s]) = Waits(cells[s], hosts[s])
        BY <1>3, <2>1 DEF SlotPassed, Waits, FiberInv
      <3> QED
        BY <3>1 DEF waiting
    <2> QED
      BY <1>3, <1>a, <2>1, <2>2, <2>3, <2>4
         DEF SlotPassed, frameVars, Promise!Visited, Promise!Pass, Promise!Next
  <1>4. CASE SlotCounted
    <2> DEFINE c == cells[lane]
               h == hosts[lane]
    <2>1. /\ lane \in Lanes /\ c \in CellSet /\ c.st = "delayed" /\ c.cd # 1 /\ c.cd # 0
          /\ h \in HostSet
      BY <1>4, Resting DEF SlotCounted, Walking, CellOK, FiberInv
    <2>2. c.cd \in 0 .. 255 /\ (c.cd - 1) % 256 = c.cd - 1 /\ c.cd > 1
      BY <2>1, SMTT(40) DEF CellSet
    <2>3. \E task, place : /\ jobs[lane] = JobOf(task, place, c.cd) /\ task \in Entries
                       /\ Standing(cells'[lane], hosts'[lane]) = JobOf(task, place, c.cd - 1)
                       /\ Waits(cells'[lane], hosts'[lane]) = Waits(c, h)
      <3> DEFINE point == IF h.fiber # NoPoint THEN h.fiber
                          ELSE IF h.pending THEN h.resume
                          ELSE Point(IF h.pc = NoTask THEN c.hand ELSE h.pc, 0)
                 n == [c EXCEPT !.cd = c.cd - 1]
                 g == [h EXCEPT !.prev = "delayed"]
      <3>1. cells'[lane] = n /\ hosts'[lane] = g
        BY <1>4, <2>1, <2>2 DEF SlotCounted, FiberInv
      <3>2. n.st = "delayed" /\ n.cd = c.cd - 1 /\ n.hand = c.hand
        BY <2>1 DEF CellSet
      <3>3. g.fiber = h.fiber /\ g.pending = h.pending /\ g.resume = h.resume /\ g.pc = h.pc
        BY <2>1 DEF HostSet
      <3> HIDE DEF n, g
      <3>4. Standing(n, g) = JobOf(point.task, point.at, c.cd - 1)
        BY <3>2, <3>3 DEF Standing, JobOf
      <3>5. Standing(c, h) = JobOf(point.task, point.at, c.cd)
        BY <2>1 DEF Standing, JobOf
      <3>6. point.task \in Entries
        <4>1. HostOK(h)
          BY <1>4, Resting DEF SlotCounted, Walking
        <4> QED
          BY <2>1, <4>1 DEF HostOK, SuspendedOK, PendingOK, HostSet, CellSet, Point
      <3>7. jobs[lane] = Standing(c, h)
        BY <2>1 DEF jobs
      <3>8. Waits(n, g) = Waits(c, h)
        BY <2>1, <3>2, <3>3 DEF Waits
      <3> QED
        BY <3>1, <3>4, <3>5, <3>6, <3>7, <3>8
    <2>4. PICK task, place : /\ jobs[lane] = JobOf(task, place, c.cd) /\ task \in Entries
                          /\ Standing(cells'[lane], hosts'[lane]) = JobOf(task, place, c.cd - 1)
                          /\ Waits(cells'[lane], hosts'[lane]) = Waits(c, h)
      BY <2>3
    <2>5. [jobs[lane] EXCEPT !.wait = @ - 1] = JobOf(task, place, c.cd - 1)
      BY <2>4 DEF JobOf
    <2>6. \A s \in Lanes : s # lane => cells'[s] = cells[s] /\ hosts'[s] = hosts[s]
      BY <1>4 DEF SlotCounted, FiberInv
    <2>7. jobs' = [jobs EXCEPT ![lane].wait = @ - 1]
      BY <2>1, <2>4, <2>5, <2>6 DEF jobs
    <2>8. jobs[lane] # Promise!NoJob /\ jobs[lane].wait > 1
      BY <2>2, <2>4, FiberAssumption DEF JobOf, Promise!NoJob, Promise!NoTask, Entries
    <2>9. UNCHANGED waiting
      <3>1. \A s \in Lanes : Waits(cells'[s], hosts'[s]) = Waits(cells[s], hosts[s])
        BY <2>4, <2>6
      <3> QED
        BY <3>1 DEF waiting
    <2> QED
      BY <1>4, <1>a, <2>1, <2>7, <2>8, <2>9
         DEF SlotCounted, frameVars, Promise!Visited, Promise!Await, Promise!Next
  <1>5. CASE SlotRun
    <2> DEFINE c == cells[lane]
               h == hosts[lane]
               n == [st |-> "running", cd |-> 0, hand |-> Scratch]
    <2>1. lane \in Lanes /\ CellOK(c) /\ HostOK(h)
      BY <1>5, Resting DEF SlotRun, Walking
    <2>2. hosts' = [hosts EXCEPT ![lane] = Prepared(c, h)] /\ cells' = [cells EXCEPT ![lane] = n]
          /\ (c.st = "fresh" \/ (c.st = "delayed" /\ c.cd = 1))
      BY <1>5 DEF SlotRun, Prepared
    <2>3. n.st = "running" /\ n.cd = 0
      OBVIOUS
    <2> HIDE DEF n
    <2>4. PICK task, place : /\ Standing(c, h) = JobOf(task, place, 1)
                          /\ Standing(n, Prepared(c, h)) = JobOf(task, place, 0)
                          /\ task \in Entries
      BY <2>1, <2>2, <2>3, StandReady
    <2>5. jobs[lane] = JobOf(task, place, 1) /\ [jobs[lane] EXCEPT !.wait = 0] = JobOf(task, place, 0)
      BY <2>1, <2>4 DEF jobs, JobOf
    <2>6. cells'[lane] = n /\ hosts'[lane] = Prepared(c, h)
          /\ \A s \in Lanes : s # lane => cells'[s] = cells[s] /\ hosts'[s] = hosts[s]
      BY <2>1, <2>2 DEF FiberInv
    <2>7. jobs' = [jobs EXCEPT ![lane].wait = 0]
      BY <2>1, <2>4, <2>5, <2>6 DEF jobs
    <2>8. jobs[lane] # Promise!NoJob /\ jobs[lane].wait = 1
      BY <2>4, <2>5, FiberAssumption DEF JobOf, Promise!NoJob, Promise!NoTask, Entries
    <2>9. waiting' = waiting \ {lane}
      <3>1. ~Waits(cells'[lane], hosts'[lane])
        BY <2>3, <2>6 DEF Waits
      <3>2. \A s \in Lanes : s # lane => Waits(cells'[s], hosts'[s]) = Waits(cells[s], hosts[s])
        BY <2>6
      <3> QED
        BY <3>1, <3>2 DEF waiting
    <2> QED
      BY <1>5, <1>a, <2>1, <2>7, <2>8, <2>9
         DEF SlotRun, frameVars, Promise!Visited, Promise!Resume, Promise!Next
  <1>c. ASSUME ticking = "task"
        PROVE  /\ lane \in Lanes /\ hosts[lane].fiber.task \in Entries
               /\ jobs[lane] = JobOf(hosts[lane].fiber.task, hosts[lane].fiber.at, 0)
               /\ Promise!Runs
    <2>1. lane \in Lanes /\ cells[lane].st = "running" /\ cells[lane].cd = 0
          /\ hosts[lane].fiber.task \in Entries
      BY <1>c DEF FiberInv, TurnOK, SlotOK, LiveOK, CellOK
    <2>2. hosts[lane].fiber # NoPoint
      BY <2>1, FiberAssumption DEF NoPoint, Point, NoTask, Entries
    <2>3. jobs[lane] = JobOf(hosts[lane].fiber.task, hosts[lane].fiber.at, 0)
      BY <2>1, <2>2, StandPoint DEF jobs
    <2> QED
      BY <2>1, <2>3, FiberAssumption
         DEF Promise!Runs, Promise!Visited, Promise!NoJob, Promise!NoTask, JobOf, Entries
  <1>6. ASSUME NEW s \in Lanes, NEW task \in Tasks, TaskInstalls(s, task) PROVE Promise!Next
    <2>1. /\ ticking = "task" /\ s # lane /\ UNCHANGED <<hosts, lane, frameVars>>
          /\ cells' = [cells EXCEPT ![s] = [st |-> "fresh", cd |-> 0, hand |-> task]]
      BY <1>6 DEF TaskInstalls, Running
    <2>2. Standing(cells'[s], hosts'[s]) = Promise!Job(task, 0, 1)
      BY <2>1 DEF FiberInv, Standing, Promise!Job
    <2>3. jobs' = [jobs EXCEPT ![s] = Promise!Job(task, 0, 1)]
      BY <2>1, <2>2 DEF jobs, FiberInv
    <2>4. waiting' = waiting \ {s}
      BY <2>1 DEF waiting, Waits, FiberInv
    <2> QED
      BY <1>a, <1>c, <2>1, <2>3, <2>4 DEF frameVars, Promise!Add, Promise!Next
  <1>7. ASSUME NEW y \in UNION {Yields[task] : task \in DOMAIN Yields}, TaskYields(y)
        PROVE  Promise!Next
    <2> DEFINE h == hosts[lane]
               wait == IF y.wait = 0 THEN 1 ELSE y.wait
               n == [[cells[lane] EXCEPT !.st = "delayed"] EXCEPT !.cd = wait]
    <2>1. /\ ticking = "task" /\ y \in Yields[h.fiber.task] /\ lane' = lane + 1
          /\ hosts' = [hosts EXCEPT ![lane] = Suspended(h, y.at)]
          /\ cells' = [cells EXCEPT ![lane] = n]
          /\ UNCHANGED frameVars
      BY <1>7 DEF TaskYields, Running, Back
    <2>2. lane \in Lanes /\ h \in HostSet /\ cells[lane] \in CellSet /\ h.fiber.task \in Entries
      BY <1>c, <2>1 DEF FiberInv
    <2>3. n.st = "delayed" /\ n.cd = wait
      BY <2>2 DEF CellSet
    <2> HIDE DEF n, wait
    <2>4. Suspended(h, y.at).fiber = Point(h.fiber.task, y.at)
      BY <2>2 DEF Suspended, HostSet, Points, Point
    <2>5. Suspended(h, y.at).fiber # NoPoint
      BY <2>2, <2>4, FiberAssumption DEF NoPoint, Point, NoTask, Entries
    <2>6. Standing(n, Suspended(h, y.at)) = Promise!Job(h.fiber.task, y.at, wait)
      BY <2>3, <2>4, <2>5, StandPoint DEF JobOf, Promise!Job, Point
    <2>7. jobs[lane].task = h.fiber.task
      BY <1>c, <2>1 DEF JobOf
    <2>8. jobs' = [jobs EXCEPT ![lane] = Promise!Job(jobs[lane].task, y.at, wait)]
      BY <2>1, <2>2, <2>6, <2>7 DEF jobs, FiberInv
    <2>9. UNCHANGED waiting
      <3>1. ~h.pending /\ cells[lane].st = "running"
        BY <2>1, <2>2 DEF FiberInv, SlotOK, LiveOK
      <3>2. ~Suspended(h, y.at).pending
        BY <2>2, <3>1 DEF Suspended, HostSet
      <3>3. ~Waits(cells'[lane], hosts'[lane]) /\ ~Waits(cells[lane], hosts[lane])
        BY <2>1, <2>2, <3>1, <3>2 DEF Waits, FiberInv
      <3>4. \A s \in Lanes : s # lane => Waits(cells'[s], hosts'[s]) = Waits(cells[s], hosts[s])
        BY <2>1, <2>2 DEF FiberInv
      <3> QED
        BY <3>3, <3>4 DEF waiting
    <2>10. Promise!Yield(y)
      BY <1>a, <1>c, <2>1, <2>7, <2>8, <2>9 DEF Promise!Yield, frameVars, wait
    <2> QED
      BY <2>10 DEF Promise!Next
  <1>8. CASE TaskEnds
    <2> DEFINE n == [cells[lane] EXCEPT !.st = "empty"]
    <2>1. /\ ticking = "task" /\ lane' = lane + 1 /\ UNCHANGED frameVars
          /\ hosts' = [hosts EXCEPT ![lane] = NoHost] /\ cells' = [cells EXCEPT ![lane] = n]
      BY <1>8 DEF TaskEnds, Running, Back
    <2>2. lane \in Lanes /\ cells[lane] \in CellSet
      BY <1>c, <2>1 DEF FiberInv
    <2>3. n.st = "empty"
      BY <2>2 DEF CellSet
    <2> HIDE DEF n
    <2>4. Standing(n, NoHost) = Promise!NoJob
      BY <2>3 DEF Standing, Promise!NoJob, Promise!NoTask, NoTask
    <2>5. jobs' = [jobs EXCEPT ![lane] = Promise!NoJob]
      BY <2>1, <2>2, <2>4 DEF jobs, FiberInv
    <2>6. UNCHANGED waiting
      <3>1. ~Waits(n, NoHost) /\ cells[lane].st = "running"
        BY <2>1, <2>2, <2>3 DEF Waits, FiberInv, SlotOK
      <3>2. ~Waits(cells'[lane], hosts'[lane]) /\ ~Waits(cells[lane], hosts[lane])
        BY <2>1, <2>2, <3>1 DEF Waits, FiberInv
      <3>3. \A s \in Lanes : s # lane => Waits(cells'[s], hosts'[s]) = Waits(cells[s], hosts[s])
        BY <2>1, <2>2 DEF FiberInv
      <3> QED
        BY <3>2, <3>3 DEF waiting
    <2> QED
      BY <1>a, <1>c, <2>1, <2>5, <2>6 DEF frameVars, Promise!Finish, Promise!Next
  <1>9. CASE StateSave
    <2>1. \A s \in Lanes : Standing(cells[s], Stored(hosts[s])) =
            IF s \in waiting THEN Promise!Anew(jobs[s]) ELSE jobs[s]
      BY <1>9, Resting, StandStored DEF StateSave, Between, waiting, jobs
    <2>2. filed' = [game |-> guest, whole |-> TRUE,
                    jobs |-> [s \in Promise!Lanes |->
                                IF s \in waiting THEN Promise!Anew(jobs[s]) ELSE jobs[s]]]
      BY <1>9, <2>1 DEF StateSave, filed
    <2> QED
      BY <1>9, <1>b, <2>2 DEF StateSave, Between, FiberInv, TurnOK, Promise!Keep, Promise!Next
  <1>10. CASE StateLoad
    <2>1. \A s \in Lanes : Standing(cells'[s], hosts'[s]) =
            Promise!Recalled(Standing(stateFile.cells[s], stateFile.hosts[s]))
      BY <1>10, StandRebuilt DEF StateLoad, FiberInv, FileOK
    <2>2. jobs' = [s \in Promise!Lanes |-> Promise!Recalled(filed.jobs[s])]
      BY <2>1 DEF jobs, filed
    <2>3. filed.game = stateFile.guest /\ filed.whole
      BY <1>10 DEF StateLoad, filed
    <2>4. stateFile.guest # "none"
      BY <1>10 DEF StateLoad, FiberInv, FileOK, GateOK
    <2>5. ASSUME NEW s \in Lanes
          PROVE  Waits(cells'[s], hosts'[s]) <=> Promise!Recalled(filed.jobs[s]).at # 0
      <3>1. /\ CellOK(stateFile.cells[s]) /\ stateFile.cells[s].st # "running"
            /\ HostOK(stateFile.hosts[s]) /\ ~stateFile.hosts[s].pending
        BY DEF FiberInv, FileOK
      <3>2. HostOK(Rebuilt(stateFile.hosts[s])) /\ Rebuilt(stateFile.hosts[s]).fiber = NoPoint
        BY <3>1, RebuiltOK DEF Rebuilt, HostOK, HostSet
      <3>3. cells'[s] = stateFile.cells[s] /\ hosts'[s] = Rebuilt(stateFile.hosts[s])
        BY <1>10 DEF StateLoad
      <3>4. Standing(cells'[s], hosts'[s]).at # 0 <=> Waits(cells'[s], hosts'[s])
        BY <3>1, <3>2, <3>3, StandWaits
      <3>5. Standing(cells'[s], hosts'[s]) = Promise!Recalled(filed.jobs[s])
        BY <2>1 DEF filed
      <3> QED
        BY <3>4, <3>5
    <2>6. waiting' = {s \in Promise!Lanes : Promise!Recalled(filed.jobs[s]).at # 0}
      BY <2>5 DEF waiting
    <2> QED
      BY <1>10, <1>a, <2>2, <2>3, <2>4, <2>6
         DEF StateLoad, Between, FiberInv, TurnOK, Promise!Recall, Promise!Next
  <1>11. CASE StateLoadOld
    <2>1. filed.game = "played" /\ guest' = "played" /\ ~filed.whole
      BY <1>11 DEF StateLoadOld, FiberInv, FileOK, filed
    <2>2. ASSUME NEW s \in Lanes
          PROVE  jobs'[s] = Promise!NoJob \/ jobs'[s].wait > 0
      <3>1. jobs'[s] = Standing(stateFile.cells[s], hosts[s])
        BY <1>11 DEF StateLoadOld, jobs
      <3>2. CellOK(stateFile.cells[s]) /\ stateFile.cells[s].st # "running"
        BY DEF FiberInv, FileOK
      <3> QED
        BY <3>1, <3>2 DEF Standing, CellOK, CellSet, Promise!NoJob, Promise!NoTask, NoTask
    <2>3. waiting' \subseteq Promise!Lanes
      BY DEF waiting
    <2> QED
      BY <1>11, <1>a, <2>1, <2>2, <2>3
         DEF StateLoadOld, Between, FiberInv, TurnOK, Promise!RecallGuest, Promise!Next
  <1>12. CASE HardwareReset \/ Relaunch
    <2>1. /\ lane = 0 /\ lane' = 0 /\ UNCHANGED stateFile /\ guest' = "off" /\ nmiRan' = FALSE
          /\ cells' = ColdGuest
      BY <1>12 DEF HardwareReset, Relaunch, Between, FiberInv, TurnOK
    <2>2. jobs' = [s \in Promise!Lanes |-> Promise!NoJob]
      BY <2>1, ColdStands DEF jobs
    <2>3. waiting' = {}
      BY <2>1, ColdStands DEF waiting
    <2> QED
      BY <1>a, <2>1, <2>2, <2>3 DEF Promise!PowerOff, Promise!Next
  <1> QED
    BY <1>1, <1>2, <1>3, <1>4, <1>5, <1>6, <1>7, <1>8, <1>9, <1>10, <1>11, <1>12 DEF FibersNext

(* The fibers keep what TaskSlots promises, TasksAsPromised, through every    *)
(* file, load, reset and process.                                            *)
THEOREM TasksAsPromisedAlways == FibersSpec => TasksAsPromised
  <1>1. FiberInv /\ [FibersNext]_fiberVars => FiberInv'
    BY FiberStep
  <1>2. FiberInv /\ [FibersNext]_fiberVars =>
          [UNCHANGED fiberVars \/ Promise!Next]_(Promise!slotVars)
    BY PromiseStep
  <1> QED
    BY <1>1, <1>2, FiberInitially, PromiseInitially, PTL DEF FibersSpec, TasksAsPromised

-----------------------------------------------------------------------------
(* The priority of the saber's slashes.                                     *)

(* Types *)

Kinds == FoeKinds \cup {"plain", "none"}
FoeStates == {"open", "safe", "shielded", "forced", "gone"}
Things == {"free", "small", "full", "pellet", "swing", "wave", "finisher"}
Tags == {"none", "native", "free", "swing", "wave", "finisher"}
Births == Classes \cup {"none"}
Stages == Levels \cup {"none"}

Fights ==
    [level : Levels, context : BOOLEAN, foe : [Targets -> [kind : Kinds, state : FoeStates]],
     moved : SUBSET Targets, cell : [Cells -> [what : Things, born : Births, hit : SUBSET Targets]],
     burstShots : SUBSET Cells, burst : 0 .. 2, swing : [kind : Births, active : BOOLEAN]]
Histories ==
    [kind : Kinds, generation : Int, stage : Stages, priority : 0 .. 9, age : Nat]
Provenances == [tag : {"none", "native"}, class : Births]
PriorityRecords ==
    [stage : Stages, valid : BOOLEAN, live : SUBSET Targets, generation : [Targets -> Int],
     history : [Targets -> Histories], provenance : [Cells -> Provenances],
     pre : [Cells -> [live : BOOLEAN, tag : Tags]], preValid : BOOLEAN, preBurst : 0 .. 2,
     pending : [foe : Targets \cup {0}, cell : Cells \cup {0}, tag : Tags, generation : Int,
                stage : Stages, class : Births]]
MarkRecords == [priority : 0 .. 9, age : Nat]

-----------------------------------------------------------------------------
(* The invariant *)

\* A record is of the enemy the host last saw in the slot.
Sound(p, e) ==
    p.history[e] # NoHistory =>
        /\ p.valid /\ e \in p.live /\ p.history[e].priority # 0
        /\ p.history[e].generation = p.generation[e] /\ p.history[e].stage = p.stage

\* A record the next look drops: of another stage, or of an enemy that has
\* left or changed in this frame.
Dropped(p, f, e) ==
    \/ p.history[e] = NoHistory
    \/ p.stage # f.level
    \/ e \in f.moved /\ (~FoeLives(f, e) \/ Forced(f, e) \/ p.history[e].kind # f.foe[e].kind)
Matches(p, f, m, e) ==
    /\ m[e].priority # 0 /\ FoeLives(f, e) /\ ~Forced(f, e) /\ p.stage = f.level
    /\ p.history[e] # NoHistory /\ p.history[e].kind = f.foe[e].kind
    /\ p.history[e].priority = m[e].priority /\ p.history[e].age = m[e].age
Follows(p, f, m, e) == IF m[e] = NoMark THEN Dropped(p, f, e) ELSE Matches(p, f, m, e)

\* The host knows the class of each shot whose birth it has seen.
BirthKnown(p, f, c) ==
    IF f.cell[c].what \notin Buster THEN f.cell[c].born = "none"
    ELSE IF f.cell[c].born = "none" THEN p.provenance[c].tag # "native"
    ELSE /\ p.valid /\ p.stage = f.level
         /\ p.provenance[c] = [tag |-> "native", class |-> f.cell[c].born]
Agrees(p, f, m) ==
    /\ \A e \in Targets : Sound(p, e) /\ Follows(p, f, m, e)
    /\ \A c \in Cells : BirthKnown(p, f, c)

\* Nothing has happened to the enemies since the host looked.
Synced(p, f) ==
    /\ p.valid /\ p.stage = f.level /\ p.live = {e \in Targets : FoeLives(f, e)}
    /\ \A e \in Targets : p.history[e] # NoHistory =>
         FoeLives(f, e) /\ ~Forced(f, e) /\ p.history[e].kind = f.foe[e].kind

\* Between the hooks around the player the host knows what was there before.
BeforeSeen ==
    step = "player" =>
        /\ pri.valid /\ pri.stage = fight.level
        /\ pri.preValid /\ pri.preBurst = fight.burst
        /\ \A c \in Cells :
              /\ pri.pre[c] = [live |-> CellLives(fight, c), tag |-> Tag(fight, c)]
              /\ pri.provenance[c].tag = "native" => fight.cell[c].what \in Buster \cup {"pellet"}

\* Between the hooks of a collision a token is of this collision.
TokenFits ==
    step = "struck" =>
        \E e \in Targets, c \in Cells : \E answer \in Answers(e) :
            /\ struck = {<<e, c, answer>>} /\ CellLives(fight, c)
            /\ verdict.granted = (pri.pending # NoPending)
            /\ answer \in {"none", "reflected"} => pri.pending # NoPending
            /\ pri.pending # NoPending =>
                  /\ Synced(pri, fight) /\ Consumes(pri, fight, e, c)
                  /\ pri.pending.class = TrueClass(c) /\ TrueClass(c) # "none"

PriorityInv ==
    /\ fight \in Fights /\ pri \in PriorityRecords /\ mark \in [Targets -> MarkRecords]
    /\ verdict \in [granted : BOOLEAN, earned : BOOLEAN, paid : BOOLEAN]
    /\ Agrees(pri, fight, mark)
    /\ BeforeSeen /\ TokenFits /\ FollowUpsJudged

-----------------------------------------------------------------------------
(* What a look of the host leaves *)

LEMMA NoRecordsTyped == NoRecords \in PriorityRecords
  BY PriorityAssumption DEF NoRecords, PriorityRecords, NoHistory, Histories, NoProvenance, Provenances,
     NotSeen, NoPending, Kinds, Stages, Births, Tags

LEMMA StageLook ==
    ASSUME NEW p \in PriorityRecords, NEW f \in Fights, NEW q, q = SyncStage(p, f)
    PROVE  /\ q \in PriorityRecords /\ q.valid /\ q.stage = f.level
           /\ p.valid /\ p.stage = f.level => q = p
           /\ p.valid /\ p.stage # f.level =>
                 /\ \A e \in Targets : q.history[e] = NoHistory
                 /\ \A c \in Cells : q.provenance[c] = NoProvenance
                 /\ q.live = {}
           /\ ~p.valid => /\ q.history = p.history /\ q.provenance = p.provenance
                          /\ q.live = p.live /\ q.generation = p.generation
  BY NoRecordsTyped, ZenonT(60) DEF SyncStage, PriorityRecords, Fights, Stages, NoRecords

LEMMA NoHistoryTyped == NoHistory \in Histories
  BY DEF NoHistory, Histories, Kinds, Stages

\* The records of enemies after a look, in terms of those before it.
LEMMA FoesLook ==
    ASSUME NEW p \in PriorityRecords, NEW f \in Fights, \A e \in Targets : Sound(p, e)
    PROVE  LET q == SyncFoes(p, f)
           IN  /\ q \in PriorityRecords /\ Synced(q, f)
               /\ \A e \in Targets : Sound(q, e)
               /\ \A e \in Targets :
                    q.history[e] = IF /\ p.stage = f.level /\ FoeLives(f, e) /\ ~Forced(f, e)
                                      /\ p.history[e].kind = f.foe[e].kind
                                   THEN p.history[e] ELSE NoHistory
               /\ q.pending = SyncStage(p, f).pending
               /\ q.provenance = SyncStage(p, f).provenance
               /\ p.valid /\ p.stage = f.level =>
                     /\ q.pre = p.pre /\ q.preValid = p.preValid /\ q.preBurst = p.preBurst
<1> DEFINE q == SyncStage(p, f)
           new == {e \in Targets : FoeLives(f, e)} \ q.live
           generation == [e \in Targets |-> IF e \in new THEN (q.generation[e] % Generations) + 1
                                         ELSE q.generation[e]]
           holds(e) == /\ FoeLives(f, e) /\ e \notin new /\ ~Forced(f, e)
                       /\ q.history[e].kind = f.foe[e].kind
                       /\ q.history[e].generation = generation[e] /\ q.history[e].stage = q.stage
           r == SyncFoes(p, f)
           past == [e \in Targets |-> IF holds(e) THEN q.history[e] ELSE NoHistory]
<1>1. /\ q \in PriorityRecords /\ q.valid /\ q.stage = f.level
      /\ p.valid /\ p.stage = f.level => q = p
      /\ p.valid /\ p.stage # f.level =>
            /\ \A e \in Targets : q.history[e] = NoHistory
            /\ \A c \in Cells : q.provenance[c] = NoProvenance
            /\ q.live = {}
      /\ ~p.valid => /\ q.history = p.history /\ q.provenance = p.provenance
                     /\ q.live = p.live /\ q.generation = p.generation
  BY StageLook
<1>2. r = [q EXCEPT !.live = {e \in Targets : FoeLives(f, e)}, !.generation = generation,
                    !.history = past]
  BY <1>1 DEF SyncFoes, PriorityRecords
<1>3. generation \in [Targets -> Int]
  BY <1>1, PriorityAssumption DEF PriorityRecords
<1>4. past \in [Targets -> Histories]
  BY <1>1, NoHistoryTyped DEF PriorityRecords
<1> HIDE DEF generation, past
<1>5. /\ r \in PriorityRecords /\ r.live = {e \in Targets : FoeLives(f, e)}
      /\ r.generation = generation /\ r.history = past /\ r.valid /\ r.stage = f.level
      /\ r.pending = q.pending /\ r.provenance = q.provenance
      /\ r.pre = q.pre /\ r.preValid = q.preValid /\ r.preBurst = q.preBurst
  BY <1>1, <1>2, <1>3, <1>4, ZenonT(60) DEF PriorityRecords
<1>6. ASSUME NEW e \in Targets
      PROVE  r.history[e] = IF /\ p.stage = f.level /\ FoeLives(f, e) /\ ~Forced(f, e)
                               /\ p.history[e].kind = f.foe[e].kind
                            THEN p.history[e] ELSE NoHistory
  <2>1. past[e] = IF holds(e) THEN q.history[e] ELSE NoHistory
    BY DEF past
  <2>2. Sound(p, e)
    OBVIOUS
  <2>3. CASE p.valid /\ p.stage = f.level
    <3>1. p.history[e] # NoHistory /\ FoeLives(f, e) => e \notin new /\ generation[e] = p.generation[e]
      BY <1>1, <2>2, <2>3 DEF Sound, generation
    <3>. QED  BY <1>1, <1>5, <2>1, <2>2, <2>3, <3>1 DEF Sound
  <2>4. CASE ~p.valid
    BY <1>1, <1>5, <2>1, <2>2, <2>4 DEF Sound
  <2>5. CASE p.valid /\ p.stage # f.level
    BY <1>1, <1>5, <2>1, <2>5
  <2>. QED  BY <2>3, <2>4, <2>5
<1>7. ASSUME NEW e \in Targets
      PROVE  /\ Sound(r, e)
             /\ r.history[e] # NoHistory =>
                  FoeLives(f, e) /\ ~Forced(f, e) /\ r.history[e].kind = f.foe[e].kind
  <2>1. SUFFICES ASSUME r.history[e] # NoHistory
                 PROVE  /\ Sound(r, e) /\ FoeLives(f, e) /\ ~Forced(f, e)
                        /\ r.history[e].kind = f.foe[e].kind
    BY DEF Sound
  <2>2. /\ FoeLives(f, e) /\ ~Forced(f, e) /\ p.stage = f.level
        /\ p.history[e] = r.history[e] /\ p.history[e].kind = f.foe[e].kind /\ Sound(p, e)
    BY <2>1, <1>6
  <2>3. q = p /\ e \notin new
    BY <2>1, <2>2, <1>1 DEF Sound
  <2>4. generation[e] = p.generation[e]
    BY <2>3 DEF generation
  <2>. QED  BY <1>5, <2>1, <2>2, <2>3, <2>4 DEF Sound
<1>8. Synced(r, f)
  BY <1>5, <1>7 DEF Synced
<1>9. p.valid /\ p.stage = f.level => r.pre = p.pre /\ r.preValid = p.preValid /\ r.preBurst = p.preBurst
  BY <1>1, <1>5
<1>. QED  BY <1>5, <1>6, <1>7, <1>8, <1>9

LEMMA ProvenanceLook ==
    ASSUME NEW p \in PriorityRecords, NEW f \in Fights
    PROVE  LET r == SyncProvenance(p, f)
           IN  /\ r \in PriorityRecords
               /\ r.stage = p.stage /\ r.valid = p.valid /\ r.live = p.live
               /\ r.generation = p.generation /\ r.history = p.history /\ r.pending = p.pending
               /\ r.pre = p.pre /\ r.preValid = p.preValid /\ r.preBurst = p.preBurst
               /\ \A c \in Cells :
                    r.provenance[c] = IF CellLives(f, c) /\ p.provenance[c].tag = Tag(f, c)
                                      THEN p.provenance[c] ELSE NoProvenance
<1> DEFINE kept == [c \in Cells |-> IF CellLives(f, c) /\ p.provenance[c].tag = Tag(f, c)
                                    THEN p.provenance[c] ELSE NoProvenance]
           r == SyncProvenance(p, f)
<1>1. NoProvenance \in Provenances
  BY DEF NoProvenance, Provenances, Births
<1>2. kept \in [Cells -> Provenances]
  BY <1>1 DEF PriorityRecords
<1>3. r = [p EXCEPT !.provenance = kept]
  BY DEF SyncProvenance, PriorityRecords
<1>4. \A c \in Cells : kept[c] = IF CellLives(f, c) /\ p.provenance[c].tag = Tag(f, c)
                                THEN p.provenance[c] ELSE NoProvenance
  OBVIOUS
<1> HIDE DEF kept
<1>. QED  BY <1>2, <1>3, <1>4 DEF PriorityRecords

\* A look, with or without the shots, keeps what the host knows; afterwards
\* it has a record of exactly the enemies that have a mark.
LEMMA Looks ==
    ASSUME NEW p \in PriorityRecords, NEW f \in Fights, NEW m \in [Targets -> MarkRecords], Agrees(p, f, m),
           NEW r, r = SyncFoes(p, f) \/ r = Classified(p, f)
    PROVE  /\ r \in PriorityRecords /\ Synced(r, f) /\ Agrees(r, f, m)
           /\ \A e \in Targets : r.history[e] = NoHistory <=> m[e] = NoMark
           /\ p.pending = NoPending => r.pending = NoPending
           /\ p.valid /\ p.stage = f.level =>
                 r.pre = p.pre /\ r.preValid = p.preValid /\ r.preBurst = p.preBurst
           /\ r = Classified(p, f) =>
                 \A c \in Cells : r.provenance[c].tag = "native" =>
                                  f.cell[c].what \in Buster \cup {"pellet"}
<1> DEFINE q == SyncFoes(p, f)
           s == SyncStage(p, f)
<1>1. \A e \in Targets : Sound(p, e)
  BY DEF Agrees
<1>2. /\ q \in PriorityRecords /\ Synced(q, f)
      /\ \A e \in Targets : Sound(q, e)
      /\ \A e \in Targets :
           q.history[e] = IF /\ p.stage = f.level /\ FoeLives(f, e) /\ ~Forced(f, e)
                             /\ p.history[e].kind = f.foe[e].kind
                          THEN p.history[e] ELSE NoHistory
      /\ q.pending = s.pending /\ q.provenance = s.provenance
      /\ p.valid /\ p.stage = f.level =>
            /\ q.pre = p.pre /\ q.preValid = p.preValid /\ q.preBurst = p.preBurst
  BY <1>1, FoesLook
<1>3. /\ p.valid /\ p.stage = f.level => s = p
      /\ p.valid /\ p.stage # f.level => \A c \in Cells : s.provenance[c] = NoProvenance
      /\ ~p.valid => s.provenance = p.provenance
  BY StageLook
<1>4. p.pending = NoPending => q.pending = NoPending
  BY <1>2 DEF SyncStage, NoRecords, PriorityRecords
<1>5. LET t == SyncProvenance(q, f)
      IN  /\ t \in PriorityRecords
          /\ t.stage = q.stage /\ t.valid = q.valid /\ t.live = q.live
          /\ t.generation = q.generation /\ t.history = q.history /\ t.pending = q.pending
          /\ t.pre = q.pre /\ t.preValid = q.preValid /\ t.preBurst = q.preBurst
          /\ \A c \in Cells :
               t.provenance[c] = IF CellLives(f, c) /\ q.provenance[c].tag = Tag(f, c)
                                 THEN q.provenance[c] ELSE NoProvenance
  BY <1>2, ProvenanceLook
<1>6. /\ r \in PriorityRecords
      /\ r.stage = q.stage /\ r.valid = q.valid /\ r.live = q.live
      /\ r.generation = q.generation /\ r.history = q.history /\ r.pending = q.pending
      /\ r.pre = q.pre /\ r.preValid = q.preValid /\ r.preBurst = q.preBurst
      /\ \A c \in Cells :
           \/ r.provenance[c] = q.provenance[c]
           \/ r.provenance[c] = IF CellLives(f, c) /\ q.provenance[c].tag = Tag(f, c)
                                THEN q.provenance[c] ELSE NoProvenance
  BY <1>2, <1>5 DEF Classified
<1>7. Synced(r, f)
  BY <1>2, <1>6 DEF Synced
<1>8. ASSUME NEW e \in Targets
      PROVE  /\ Sound(r, e) /\ Follows(r, f, m, e)
             /\ r.history[e] = NoHistory <=> m[e] = NoMark
  <2>1. Sound(r, e)
    BY <1>2, <1>6 DEF Sound
  <2>2. Sound(p, e) /\ Follows(p, f, m, e)
    BY DEF Agrees
  <2>3. CASE m[e] = NoMark
    <3>1. Dropped(p, f, e)
      BY <2>2, <2>3 DEF Follows
    <3>2. r.history[e] = NoHistory
      BY <1>2, <1>6, <3>1 DEF Dropped
    <3>. QED  BY <2>1, <2>3, <3>2 DEF Follows, Dropped
  <2>4. CASE m[e] # NoMark
    <3>1. Matches(p, f, m, e)
      BY <2>2, <2>4 DEF Follows
    <3>2. r.history[e] = p.history[e] /\ r.stage = f.level
      BY <1>2, <1>6, <3>1 DEF Matches, Synced
    <3>. QED  BY <2>1, <2>4, <3>1, <3>2 DEF Follows, Matches
  <2>. QED  BY <2>3, <2>4
<1>9. ASSUME NEW c \in Cells
      PROVE  BirthKnown(r, f, c)
  <2>1. BirthKnown(p, f, c)
    BY DEF Agrees
  <2>2. CASE f.cell[c].what \notin Buster
    BY <2>1, <2>2 DEF BirthKnown
  <2>3. CASE f.cell[c].what \in Buster /\ f.cell[c].born = "none"
    <3>1. p.provenance[c].tag # "native"
      BY <2>1, <2>3 DEF BirthKnown
    <3>2. q.provenance[c].tag # "native"
      BY <1>2, <1>3, <3>1 DEF NoProvenance
    <3>3. r.provenance[c].tag # "native"
      BY <1>6, <3>2 DEF NoProvenance
    <3>. QED  BY <2>3, <3>3 DEF BirthKnown
  <2>4. CASE f.cell[c].what \in Buster /\ f.cell[c].born # "none"
    <3>1. /\ p.valid /\ p.stage = f.level
          /\ p.provenance[c] = [tag |-> "native", class |-> f.cell[c].born]
      BY <2>1, <2>4 DEF BirthKnown
    <3>2. q.provenance[c] = p.provenance[c]
      BY <1>2, <1>3, <3>1
    <3>3. CellLives(f, c) /\ Tag(f, c) = "native"
      BY <2>4 DEF CellLives, Tag, Buster
    <3>4. r.provenance[c] = p.provenance[c]
      BY <1>6, <3>1, <3>2, <3>3
    <3>. QED  BY <1>7, <2>4, <3>1, <3>4 DEF BirthKnown, Synced
  <2>. QED  BY <2>2, <2>3, <2>4
<1>10. ASSUME r = Classified(p, f), NEW c \in Cells, r.provenance[c].tag = "native"
       PROVE  f.cell[c].what \in Buster \cup {"pellet"}
  <2>1. Tag(f, c) = "native"
    BY <1>5, <1>10 DEF Classified, NoProvenance
  <2>2. f.cell[c].what \in Things
    BY DEF Fights
  <2>. QED  BY <2>1, <2>2 DEF Tag, Things
<1>11. Agrees(r, f, m)
  BY <1>8, <1>9 DEF Agrees
<1>. QED  BY <1>2, <1>4, <1>6, <1>7, <1>8, <1>10, <1>11

\* A look right after a look changes nothing.
LEMMA LookAgain ==
    ASSUME NEW p \in PriorityRecords, NEW f \in Fights, Synced(p, f), \A e \in Targets : Sound(p, e)
    PROVE  SyncFoes(p, f) = p
<1> DEFINE new == {e \in Targets : FoeLives(f, e)} \ p.live
           generation == [e \in Targets |-> IF e \in new THEN (p.generation[e] % Generations) + 1
                                         ELSE p.generation[e]]
           holds(e) == /\ FoeLives(f, e) /\ e \notin new /\ ~Forced(f, e)
                       /\ p.history[e].kind = f.foe[e].kind
                       /\ p.history[e].generation = generation[e] /\ p.history[e].stage = p.stage
           past == [e \in Targets |-> IF holds(e) THEN p.history[e] ELSE NoHistory]
<1>1. SyncStage(p, f) = p
  BY DEF SyncStage, Synced
<1>2. SyncFoes(p, f) = [p EXCEPT !.live = {e \in Targets : FoeLives(f, e)}, !.generation = generation,
                                 !.history = past]
  BY <1>1 DEF SyncFoes, PriorityRecords
<1>3. new = {}
  BY DEF Synced
<1>4. generation = p.generation
  BY <1>3 DEF PriorityRecords
<1>5. \A e \in Targets : p.history[e] # NoHistory => holds(e)
  BY <1>3, <1>4 DEF Synced, Sound
<1>6. past = p.history
  BY <1>5 DEF PriorityRecords
<1> HIDE DEF generation, past
<1>7. p.live = {e \in Targets : FoeLives(f, e)}
  BY DEF Synced
<1>8. SyncFoes(p, f) = [p EXCEPT !.live = p.live, !.generation = p.generation, !.history = p.history]
  BY <1>2, <1>4, <1>6, <1>7
<1>. QED  BY <1>8 DEF PriorityRecords

\* The class the host reads is the class the hit is of.
LEMMA ClassRight ==
    ASSUME NEW p, NEW c \in Cells, BirthKnown(p, fight, c), fight \in Fights
    PROVE  ClassOf(p, fight, c) = TrueClass(c) /\ TrueClass(c) \in Births
<1>1. fight.cell[c].what \in Things /\ fight.cell[c].born \in Births /\ SlashClass(fight) \in Births
  BY DEF Fights, SlashClass, Births
<1>2. CASE fight.cell[c].what \in {"wave", "finisher", "swing"}
  BY <1>1, <1>2, PriorityAssumption DEF ClassOf, TrueClass, Births
<1>3. CASE fight.cell[c].what \in Buster
  BY <1>1, <1>3 DEF ClassOf, TrueClass, BirthKnown, BusterClass, Buster, Tag
<1>4. CASE fight.cell[c].what \in {"free", "pellet"}
  BY <1>1, <1>4 DEF ClassOf, TrueClass, BirthKnown, BusterClass, Buster
<1>. QED  BY <1>1, <1>2, <1>3, <1>4 DEF Things, Buster

\* Writing a hit down changes the record of its enemy and nothing else.
LEMMA RecordedOnce ==
    ASSUME NEW p \in PriorityRecords, NEW f \in Fights, Synced(p, f), \A e \in Targets : Sound(p, e),
           NEW e \in Targets, NEW class \in Classes, NEW r, r = Recorded(p, f, e, class)
    PROVE  /\ r \in PriorityRecords /\ Synced(r, f) /\ \A d \in Targets : Sound(r, d)
           /\ \A d \in Targets \ {e} : r.history[d] = p.history[d]
           /\ r.provenance = p.provenance /\ r.pending = p.pending
           /\ ~FoeLives(f, e) \/ Forced(f, e) => r = p
           /\ FoeLives(f, e) /\ ~Forced(f, e) =>
                 /\ r.history[e] # NoHistory /\ r.history[e].kind = f.foe[e].kind
                 /\ r.history[e].priority = Ladder[class] /\ r.history[e].age = 0
<1>1. SyncFoes(p, f) = p
  BY LookAgain
<1>2. CASE ~FoeLives(f, e) \/ Forced(f, e)
  <2>1. r = p
    BY <1>1, <1>2 DEF Recorded
  <2>. QED  BY <1>2, <2>1
<1>3. CASE FoeLives(f, e) /\ ~Forced(f, e)
  <2> DEFINE h == [kind |-> f.foe[e].kind, generation |-> p.generation[e], stage |-> p.stage,
                   priority |-> Ladder[class], age |-> 0]
  <2>1. r = [p EXCEPT !.history[e] = h]
    BY <1>1, <1>3 DEF Recorded
  <2>2. Ladder[class] \in 1 .. 9
    BY PriorityAssumption
  <2>3. h \in Histories /\ h # NoHistory
    BY <2>2 DEF PriorityRecords, Fights, Histories, NoHistory
  <2>4. h.priority # 0 /\ h.generation = p.generation[e] /\ h.stage = p.stage
        /\ h.kind = f.foe[e].kind /\ h.priority = Ladder[class] /\ h.age = 0
    BY <2>2
  <2> HIDE DEF h
  <2>5. /\ r \in PriorityRecords /\ r.valid = p.valid /\ r.stage = p.stage /\ r.live = p.live
        /\ r.generation = p.generation /\ r.provenance = p.provenance /\ r.pending = p.pending
        /\ r.history[e] = h /\ \A d \in Targets \ {e} : r.history[d] = p.history[d]
    BY <2>1, <2>3 DEF PriorityRecords
  <2>6. \A d \in Targets : Sound(r, d)
    BY <1>3, <2>4, <2>5 DEF Sound, Synced
  <2>7. Synced(r, f)
    BY <1>3, <2>4, <2>5 DEF Synced
  <2>. QED  BY <1>3, <2>3, <2>4, <2>5, <2>6, <2>7
<1>. QED  BY <1>2, <1>3

-----------------------------------------------------------------------------
(* Each action keeps the invariant *)

LEMMA PriorityInitially == PriorityInit => PriorityInv
<1> SUFFICES ASSUME PriorityInit PROVE PriorityInv
  OBVIOUS
<1>1. fight \in Fights
  BY DEF PriorityInit, Fights, Kinds, FoeStates, Things, Births, EmptyCell
<1>2. pri \in PriorityRecords
  BY NoRecordsTyped DEF PriorityInit
<1>3. mark \in [Targets -> MarkRecords] /\ verdict \in [granted : BOOLEAN, earned : BOOLEAN, paid : BOOLEAN]
  BY DEF PriorityInit, NoMark, MarkRecords, NoVerdict
<1>4. Agrees(pri, fight, mark)
  <2>1. \A e \in Targets : pri.history[e] = NoHistory /\ mark[e] = NoMark
    BY DEF PriorityInit, NoRecords
  <2>2. \A c \in Cells : fight.cell[c] = EmptyCell
    BY DEF PriorityInit
  <2>3. EmptyCell.what \notin Buster /\ EmptyCell.born = "none"
    BY DEF EmptyCell, Buster
  <2>4. \A e \in Targets : Sound(pri, e) /\ Follows(pri, fight, mark, e)
    BY <2>1 DEF Sound, Follows, Dropped
  <2>5. \A c \in Cells : BirthKnown(pri, fight, c)
    BY <2>2, <2>3 DEF BirthKnown
  <2>. QED  BY <2>4, <2>5 DEF Agrees
<1>. QED  BY <1>1, <1>2, <1>3, <1>4 DEF PriorityInit, PriorityInv, BeforeSeen, TokenFits,
          FollowUpsJudged, NoVerdict

LEMMA PreKeeps == PriorityInv /\ PriorityPre => PriorityInv'
<1> SUFFICES ASSUME PriorityInv, PriorityPre PROVE PriorityInv'
  OBVIOUS
<1> DEFINE q == Classified(pri, fight)
           aged == [e \in Targets |-> OneOlder(q.history[e], NoHistory)]
           seen == [c \in Cells |-> [live |-> CellLives(fight, c), tag |-> Tag(fight, c)]]
<1>1. /\ fight \in Fights /\ pri \in PriorityRecords /\ mark \in [Targets -> MarkRecords]
      /\ Agrees(pri, fight, mark)
  BY DEF PriorityInv
<1>2. /\ q \in PriorityRecords /\ Synced(q, fight) /\ Agrees(q, fight, mark)
      /\ \A e \in Targets : q.history[e] = NoHistory <=> mark[e] = NoMark
      /\ \A c \in Cells : q.provenance[c].tag = "native" => fight.cell[c].what \in Buster \cup {"pellet"}
  BY <1>1, Looks
<1>3. pri' = [q EXCEPT !.history = aged, !.pending = NoPending, !.pre = seen,
                       !.preBurst = fight.burst, !.preValid = TRUE]
  BY <1>2 DEF PriorityPre, ObservePrePlayer, Classified, PriorityRecords
<1>4. \A age \in Nat : Older(age) \in Nat
  BY PriorityAssumption DEF Older
<1>5. aged \in [Targets -> Histories]
  BY <1>2, <1>4, NoHistoryTyped DEF PriorityRecords, Histories, OneOlder
<1>6. \A e \in Targets :
        /\ q.history[e] = NoHistory => aged[e] = NoHistory
        /\ q.history[e] # NoHistory =>
              /\ aged[e].kind = q.history[e].kind /\ aged[e].priority = q.history[e].priority
              /\ aged[e].generation = q.history[e].generation /\ aged[e].stage = q.history[e].stage
              /\ aged[e].age = Older(q.history[e].age)
  BY <1>2 DEF PriorityRecords, Histories, OneOlder
<1>7. \A c \in Cells : Tag(fight, c) \in Tags /\ CellLives(fight, c) \in BOOLEAN
  BY <1>1 DEF Fights, Things, Tag, Tags, CellLives, Buster
<1>8. seen \in [Cells -> [live : BOOLEAN, tag : Tags]]
  BY <1>7
<1>9. \A c \in Cells : seen[c] = [live |-> CellLives(fight, c), tag |-> Tag(fight, c)]
  OBVIOUS
<1>10. NoPending \in [foe : Targets \cup {0}, cell : Cells \cup {0}, tag : Tags, generation : Int,
                      stage : Stages, class : Births]
  BY DEF NoPending, Tags, Stages, Births
<1>11. fight.burst \in 0 .. 2
  BY <1>1 DEF Fights
<1> HIDE DEF aged, seen
<1>12. /\ pri' \in PriorityRecords /\ pri'.valid = q.valid /\ pri'.stage = q.stage /\ pri'.live = q.live
       /\ pri'.generation = q.generation /\ pri'.provenance = q.provenance
       /\ pri'.history = aged /\ pri'.pre = seen /\ pri'.preBurst = fight.burst /\ pri'.preValid
  BY <1>2, <1>3, <1>5, <1>8, <1>10, <1>11 DEF PriorityRecords
<1>13. /\ fight' \in Fights /\ fight'.cell = fight.cell /\ fight'.foe = fight.foe
       /\ fight'.level = fight.level /\ fight'.burst = fight.burst
  BY <1>1 DEF PriorityPre, Fights
<1>14. /\ mark' \in [Targets -> MarkRecords]
       /\ \A e \in Targets :
             /\ mark[e] = NoMark => mark'[e] = NoMark
             /\ mark[e] # NoMark => mark'[e].priority = mark[e].priority
                                    /\ mark'[e].age = Older(mark[e].age)
  BY <1>1, <1>4 DEF PriorityPre, MarkRecords, OneOlder
<1>15. ASSUME NEW e \in Targets
       PROVE  Sound(pri', e) /\ Follows(pri', fight', mark', e)
  <2>1. Sound(q, e) /\ Follows(q, fight, mark, e)
    BY <1>2 DEF Agrees
  <2>2. CASE mark[e] = NoMark
    <3>1. pri'.history[e] = NoHistory /\ mark'[e] = NoMark
      BY <1>2, <1>6, <1>12, <1>14, <2>2
    <3>. QED  BY <3>1 DEF Sound, Follows, Dropped
  <2>3. CASE mark[e] # NoMark
    <3>1. Matches(q, fight, mark, e)
      BY <2>1, <2>3 DEF Follows
    <3>2. pri'.history[e].priority # 0
      BY <1>6, <1>12, <2>1, <3>1 DEF Sound, Matches
    <3>3. pri'.history[e] # NoHistory
      BY <3>2 DEF NoHistory
    <3>4. mark'[e].priority # 0 /\ mark'[e] # NoMark
      BY <1>14, <2>3, <3>1 DEF Matches, NoMark
    <3>5. Matches(pri', fight', mark', e)
      BY <1>6, <1>12, <1>13, <1>14, <2>3, <3>1, <3>3, <3>4 DEF Matches, FoeLives, Forced
    <3>6. Sound(pri', e)
      BY <1>6, <1>12, <2>1, <3>1, <3>2 DEF Sound, Matches
    <3>. QED  BY <3>4, <3>5, <3>6 DEF Follows
  <2>. QED  BY <2>2, <2>3
<1>16. ASSUME NEW c \in Cells PROVE BirthKnown(pri', fight', c)
  BY <1>2, <1>12, <1>13 DEF Agrees, BirthKnown
<1>17. Agrees(pri', fight', mark')
  BY <1>15, <1>16 DEF Agrees
<1>18. BeforeSeen'
  BY <1>2, <1>9, <1>12, <1>13 DEF BeforeSeen, Synced, CellLives, Tag
<1>. QED  BY <1>12, <1>13, <1>14, <1>17, <1>18 DEF PriorityInv, PriorityPre, TokenFits, FollowUpsJudged, NoVerdict

LEMMA RespondsKeeps ==
    ASSUME PriorityInv, NEW e \in Targets, NEW c \in Cells, NEW answer, Responds(e, c, answer)
    PROVE  PriorityInv'
<1> DEFINE clear == [pri EXCEPT !.pending = NoPending]
           q == Classified(clear, fight)
           class == ClassOf(q, fight, c)
           token == [foe |-> e, cell |-> c, tag |-> Tag(fight, c),
                     generation |-> q.history[e].generation, stage |-> q.stage, class |-> class]
<1>1. /\ fight \in Fights /\ pri \in PriorityRecords /\ mark \in [Targets -> MarkRecords]
      /\ Agrees(pri, fight, mark)
  BY DEF PriorityInv
<1>2. NoPending \in [foe : Targets \cup {0}, cell : Cells \cup {0}, tag : Tags, generation : Int,
                     stage : Stages, class : Births]
  BY DEF NoPending, Tags, Stages, Births
<1>3. /\ clear \in PriorityRecords /\ clear.valid = pri.valid /\ clear.stage = pri.stage
      /\ clear.live = pri.live /\ clear.generation = pri.generation /\ clear.history = pri.history
      /\ clear.provenance = pri.provenance /\ clear.pending = NoPending
  BY <1>1, <1>2 DEF PriorityRecords
<1>4. Agrees(clear, fight, mark)
  BY <1>1, <1>3 DEF Agrees, Sound, Follows, Dropped, Matches, BirthKnown
<1> HIDE DEF clear
<1>5. /\ q \in PriorityRecords /\ Synced(q, fight) /\ Agrees(q, fight, mark)
      /\ \A d \in Targets : q.history[d] = NoHistory <=> mark[d] = NoMark
      /\ q.pending = NoPending
  BY <1>1, <1>3, <1>4, Looks
<1>6. class = TrueClass(c) /\ class \in Births
  BY <1>1, <1>5, ClassRight DEF Agrees
<1>7. FoeLives(fight, e) /\ answer \in Answers(e) /\ CellLives(fight, c) /\ step = "guest"
  BY DEF Responds, Answers, FoeLives
<1>8. Eligible(q, fight, e, class) <=> Earned(e, c, "none")
  <2>1. Sound(q, e) /\ Follows(q, fight, mark, e)
    BY <1>5 DEF Agrees
  <2>2. CASE mark[e] = NoMark
    <3>1. q.history[e].priority = 0
      BY <1>5, <2>2 DEF NoHistory
    <3>. QED  BY <2>2, <3>1 DEF Eligible, Known, Earned
  <2>3. CASE mark[e] # NoMark
    <3>1. Matches(q, fight, mark, e)
      BY <2>1, <2>3 DEF Follows
    <3>. QED  BY <1>6, <1>7, <2>3, <3>1 DEF Matches, Eligible, Known, Earned
  <2>. QED  BY <2>2, <2>3
<1>9. pri' = IF answer \in {"hit", "reflected"} THEN clear
             ELSE IF ~Eligible(q, fight, e, class) THEN q ELSE [q EXCEPT !.pending = token]
  BY DEF Responds, Response, clear
<1>10. /\ fight' = fight /\ mark' = mark
       /\ verdict' = [granted |-> pri'.pending # NoPending, earned |-> Earned(e, c, answer), paid |-> FALSE]
       /\ step' = IF pri'.pending # NoPending \/ answer \in {"hit", "guarded"} THEN "struck" ELSE "guest"
       /\ step' = "struck" => struck' = {<<e, c, answer>>}
  BY DEF Responds
<1>11. Answers(e)' = Answers(e) /\ TrueClass(c)' = TrueClass(c)
  BY <1>10 DEF Answers, TrueClass, SlashClass
<1>12. ASSUME pri' \in PriorityRecords, Agrees(pri', fight, mark), pri'.pending # NoPending <=> Earned(e, c, answer),
              answer \in {"none", "reflected"} /\ step' = "struck" => pri'.pending # NoPending,
              pri'.pending # NoPending =>
                  Synced(pri', fight) /\ Consumes(pri', fight, e, c)
                  /\ pri'.pending.class = TrueClass(c) /\ TrueClass(c) # "none"
       PROVE  PriorityInv'
  <2>1. Agrees(pri', fight', mark')
    BY <1>10, <1>12
  <2>2. BeforeSeen'
    BY <1>10 DEF BeforeSeen
  <2>3. TokenFits'
    <3>1. SUFFICES ASSUME step' = "struck"
                   PROVE  /\ answer \in Answers(e)' /\ struck' = {<<e, c, answer>>} /\ CellLives(fight', c)
                          /\ verdict'.granted = (pri'.pending # NoPending)
                          /\ answer \in {"none", "reflected"} => pri'.pending # NoPending
                          /\ pri'.pending # NoPending =>
                                /\ Synced(pri', fight') /\ Consumes(pri', fight', e, c)
                                /\ pri'.pending.class = TrueClass(c)' /\ TrueClass(c)' # "none"
      BY DEF TokenFits
    <3>. QED  BY <1>7, <1>10, <1>11, <1>12, <3>1
  <2>4. verdict' \in [granted : BOOLEAN, earned : BOOLEAN, paid : BOOLEAN] /\ FollowUpsJudged'
    BY <1>10, <1>12 DEF FollowUpsJudged, Earned
  <2>. QED  BY <1>1, <1>10, <1>12, <2>1, <2>2, <2>3, <2>4 DEF PriorityInv
<1>13. CASE answer \in {"hit", "reflected"}
  <2>1. pri' = clear
    BY <1>9, <1>13
  <2>2. ~Earned(e, c, answer)
    BY <1>13 DEF Earned
  <2>3. answer = "reflected" => step' # "struck"
    BY <1>3, <1>10, <2>1
  <2>4. answer # "none"
    BY <1>13
  <2>. QED  BY <1>3, <1>4, <1>12, <1>13, <2>1, <2>2, <2>3, <2>4
<1>14. answer \notin {"hit", "reflected"} => answer \in {"none", "guarded"}
  BY <1>7 DEF Answers
<1>15. answer \notin {"hit", "reflected"} => (Earned(e, c, answer) <=> Eligible(q, fight, e, class))
  BY <1>8, <1>14 DEF Earned
<1>16. CASE answer \notin {"hit", "reflected"} /\ ~Eligible(q, fight, e, class)
  <2>1. pri' = q /\ ~Earned(e, c, answer)
    BY <1>9, <1>15, <1>16
  <2>2. answer \in {"none", "reflected"} => step' # "struck"
    BY <1>5, <1>10, <1>14, <1>16, <2>1
  <2>. QED  BY <1>5, <1>12, <2>1, <2>2
<1>17. CASE answer \notin {"hit", "reflected"} /\ Eligible(q, fight, e, class)
  <2>1. pri' = [q EXCEPT !.pending = token] /\ Earned(e, c, answer)
    BY <1>9, <1>15, <1>17
  <2>2. class # "none" /\ Known(q, fight, e)
    BY <1>17 DEF Eligible
  <2>3. Tag(fight, c) \in Tags
    BY <1>1 DEF Fights, Things, Tag, Tags, Buster
  <2>4. q.history[e] \in Histories /\ q.stage \in Stages
    BY <1>5 DEF PriorityRecords
  <2>5. token \in [foe : Targets \cup {0}, cell : Cells \cup {0}, tag : Tags, generation : Int,
                   stage : Stages, class : Births]
    BY <1>6, <2>3, <2>4 DEF Histories
  <2>6. token # NoPending
    BY <2>2 DEF NoPending
  <2>7. /\ token.foe = e /\ token.cell = c /\ token.tag = Tag(fight, c) /\ token.stage = q.stage
        /\ token.generation = q.history[e].generation /\ token.class = class
    OBVIOUS
  <2> HIDE DEF token
  <2>8. /\ pri' \in PriorityRecords /\ pri'.valid = q.valid /\ pri'.stage = q.stage /\ pri'.live = q.live
        /\ pri'.generation = q.generation /\ pri'.history = q.history
        /\ pri'.provenance = q.provenance /\ pri'.pending = token
    BY <1>5, <2>1, <2>5 DEF PriorityRecords
  <2>9. Agrees(pri', fight, mark) /\ Synced(pri', fight)
    BY <1>5, <2>8 DEF Agrees, Sound, Follows, Dropped, Matches, BirthKnown, Synced
  <2>10. q.history[e].generation = q.generation[e]
    <3>1. q.history[e] # NoHistory
      BY <2>2 DEF Known, NoHistory
    <3>. QED  BY <1>5, <3>1 DEF Agrees, Sound
  <2>11. Consumes(pri', fight, e, c)
    BY <1>7, <2>2, <2>7, <2>8, <2>10 DEF Consumes, Known
  <2>. QED  BY <1>6, <1>12, <2>1, <2>2, <2>6, <2>7, <2>8, <2>9, <2>11
<1>. QED  BY <1>13, <1>16, <1>17

\* A hit that counts is written down as the mark of its enemy is set.
LEMMA HitsKeeps ==
    ASSUME PriorityInv, NEW e \in Targets, NEW c \in Cells, NEW answer, NEW after,
           Hits(e, c, answer, after), after \in FoeStates
    PROVE  PriorityInv'
<1> DEFINE d == DamageHook(pri, fight, e, c, answer)
           clear == [pri EXCEPT !.pending = NoPending]
           r == Classified(pri, fight)
           class == TrueClass(c)
<1>1. /\ fight \in Fights /\ pri \in PriorityRecords /\ mark \in [Targets -> MarkRecords]
      /\ Agrees(pri, fight, mark) /\ FollowUpsJudged
      /\ verdict \in [granted : BOOLEAN, earned : BOOLEAN, paid : BOOLEAN]
  BY DEF PriorityInv
<1>2. /\ answer \in Answers(e) /\ CellLives(fight, c)
      /\ verdict.granted = (pri.pending # NoPending)
      /\ answer \in {"none", "reflected"} => pri.pending # NoPending
      /\ pri.pending # NoPending =>
            /\ Synced(pri, fight) /\ Consumes(pri, fight, e, c)
            /\ pri.pending.class = class /\ class # "none"
  BY DEF Hits, PriorityInv, TokenFits
<1>3. FoeLives(fight, e)
  BY <1>2 DEF Answers, FoeLives
<1>4. class \in Births
  BY <1>1, ClassRight DEF Agrees
<1>5. /\ r \in PriorityRecords /\ Synced(r, fight) /\ Agrees(r, fight, mark)
  BY <1>1, Looks
<1>6. ClassOf(r, fight, c) = class
  BY <1>1, <1>5, ClassRight DEF Agrees
<1>7. \A t \in Targets : Sound(pri, t) /\ Sound(r, t)
  BY <1>1, <1>5 DEF Agrees
\* The records before the hit is written down.
<1>8. PICK p \in PriorityRecords :
                           /\ Synced(p, fight) /\ Agrees(p, fight, mark)
                           /\ d.p = IF class # "none" THEN Recorded(p, fight, e, class) ELSE p
                           /\ d.paid => pri.pending # NoPending
  <2>1. CASE pri.pending # NoPending
    <3>1. SyncFoes(pri, fight) = pri
      BY <1>1, <1>2, <1>7, <2>1, LookAgain
    <3>2. d = [p |-> Recorded(clear, fight, e, class), paid |-> TRUE]
      BY <1>2, <2>1, <3>1 DEF DamageHook
    <3>3. NoPending \in [foe : Targets \cup {0}, cell : Cells \cup {0}, tag : Tags,
                         generation : Int, stage : Stages, class : Births]
      BY DEF NoPending, Tags, Stages, Births
    <3>4. /\ clear \in PriorityRecords /\ clear.valid = pri.valid /\ clear.stage = pri.stage
          /\ clear.live = pri.live /\ clear.generation = pri.generation
          /\ clear.history = pri.history /\ clear.provenance = pri.provenance
      BY <1>1, <3>3 DEF PriorityRecords
    <3> HIDE DEF clear
    <3>5. Synced(clear, fight)
      BY <1>2, <2>1, <3>4 DEF Synced
    <3>6. Agrees(clear, fight, mark)
      BY <1>1, <3>4 DEF Agrees, Sound, Follows, Dropped, Matches, BirthKnown
    <3>7. d.p = Recorded(clear, fight, e, class)
      BY <3>2
    <3>. QED  BY <1>2, <2>1, <3>4, <3>5, <3>6, <3>7
  <2>2. CASE pri.pending = NoPending
    <3>1. answer # "none"
      BY <1>2, <2>2
    <3>2. d = [p |-> IF class # "none" THEN Recorded(r, fight, e, class) ELSE r, paid |-> FALSE]
      BY <1>6, <2>2, <3>1 DEF DamageHook
    <3> HIDE DEF r, d
    <3>3. d.p = (IF class # "none" THEN Recorded(r, fight, e, class) ELSE r) /\ ~d.paid
      BY <3>2
    <3>. QED  BY <1>5, <3>3
  <2>. QED  BY <2>1, <2>2
<1>9. \A t \in Targets : Sound(p, t) /\ Follows(p, fight, mark, t)
  BY <1>8 DEF Agrees
<1>10. /\ d.p \in PriorityRecords /\ Synced(d.p, fight) /\ \A t \in Targets : Sound(d.p, t)
       /\ \A t \in Targets \ {e} : d.p.history[t] = p.history[t]
       /\ d.p.provenance = p.provenance
       /\ class = "none" \/ Forced(fight, e) => d.p = p
       /\ class # "none" /\ ~Forced(fight, e) =>
             /\ d.p.history[e] # NoHistory /\ d.p.history[e].kind = fight.foe[e].kind
             /\ d.p.history[e].priority = Ladder[class] /\ d.p.history[e].age = 0
  <2>1. CASE class = "none"
    BY <1>8, <1>9, <2>1
  <2>2. CASE class # "none"
    <3>1. class \in Classes
      BY <1>4, <2>2 DEF Births
    <3> HIDE DEF class, d
    <3>. QED  BY <1>1, <1>3, <1>8, <1>9, <2>2, <3>1, RecordedOnce
  <2>. QED  BY <2>1, <2>2
<1> HIDE DEF d, r
<1>11. PICK opened \in FoeStates :
          /\ fight'.foe = [fight.foe EXCEPT ![e].state = opened]
          /\ opened = after \/ (after = "shielded" /\ opened = "open")
  <2> DEFINE opened == IF d.paid /\ fight.foe[e].state = "shielded" /\ after = "shielded"
                       THEN "open" ELSE after
  <2>1. fight'.foe = [fight.foe EXCEPT ![e].state = opened]
    BY <1>1 DEF Hits, d, Fights
  <2>2. opened \in FoeStates /\ (opened = after \/ (after = "shielded" /\ opened = "open"))
    BY DEF FoeStates
  <2>. QED  BY <2>1, <2>2
<1>12. /\ fight' \in Fights /\ fight'.level = fight.level
       /\ \A t \in Targets \ {e} : fight'.foe[t] = fight.foe[t] /\ (t \in fight.moved => t \in fight'.moved)
       /\ fight'.foe[e].kind = fight.foe[e].kind /\ fight'.foe[e].state = opened
       /\ after = "gone" => e \in fight'.moved
       /\ \A b \in Cells : fight'.cell[b].what = fight.cell[b].what /\ fight'.cell[b].born = fight.cell[b].born
  <2> DEFINE finishing == fight.cell[c].what = "finisher" /\ answer # "none"
             hit == IF finishing THEN fight.cell[c].hit \cup {e} ELSE fight.cell[c].hit
             moved == IF after = "gone" THEN fight.moved \cup {e} ELSE fight.moved
             foe == [fight.foe EXCEPT ![e].state = opened]
             cell == [fight.cell EXCEPT ![c].hit = hit]
  <2>1. fight' = [fight EXCEPT !.foe = foe, !.moved = moved, !.cell = cell]
    BY <1>1, <1>11 DEF Hits, Fights
  <2>2. foe \in [Targets -> [kind : Kinds, state : FoeStates]]
    BY <1>1, <1>11 DEF Fights
  <2>3. moved \in SUBSET Targets
    BY <1>1 DEF Fights
  <2>4. cell \in [Cells -> [what : Things, born : Births, hit : SUBSET Targets]]
    BY <1>1 DEF Fights
  <2>5. /\ \A t \in Targets \ {e} : foe[t] = fight.foe[t]
        /\ foe[e].kind = fight.foe[e].kind /\ foe[e].state = opened
        /\ \A b \in Cells : cell[b].what = fight.cell[b].what /\ cell[b].born = fight.cell[b].born
    BY <1>1 DEF Fights
  <2>6. fight.moved \subseteq moved /\ (after = "gone" => e \in moved)
    OBVIOUS
  <2> HIDE DEF foe, moved, cell
  <2>. QED  BY <1>1, <2>1, <2>2, <2>3, <2>4, <2>5, <2>6 DEF Fights
<1>13. /\ pri' = d.p /\ step' = "guest"
       /\ verdict' = [verdict EXCEPT !.paid = d.paid]
       /\ mark' = [mark EXCEPT ![e] = IF after = "gone" THEN NoMark
                                      ELSE IF class = "none" \/ Forced(fight, e) THEN mark[e]
                                      ELSE [priority |-> Ladder[class], age |-> 0]]
       /\ after \in {fight.foe[e].state, "safe", "gone"}
  BY DEF Hits, d
<1>14. class \in Classes => Ladder[class] \in 1 .. 9
  BY PriorityAssumption
<1>15. mark' \in [Targets -> MarkRecords]
  BY <1>1, <1>4, <1>13, <1>14 DEF MarkRecords, NoMark, Births
<1>16. ASSUME NEW t \in Targets \ {e}
       PROVE  Follows(pri', fight', mark', t)
  <2>1. Follows(p, fight, mark, t)
    BY <1>9
  <2>2. /\ mark'[t] = mark[t] /\ pri'.history[t] = p.history[t] /\ pri'.stage = p.stage
        /\ FoeLives(fight', t) = FoeLives(fight, t) /\ Forced(fight', t) = Forced(fight, t)
    BY <1>1, <1>8, <1>10, <1>12, <1>13 DEF FoeLives, Forced, Synced
  <2>. QED  BY <1>12, <2>1, <2>2 DEF Follows, Dropped, Matches
<1>17. Follows(pri', fight', mark', e)
  <2>1. Follows(p, fight, mark, e)
    BY <1>9
  <2>2. pri'.stage = fight'.level
    BY <1>10, <1>12, <1>13 DEF Synced
  <2>3. CASE after = "gone"
    <3>1. mark'[e] = NoMark /\ ~FoeLives(fight', e)
      BY <1>1, <1>11, <1>12, <1>13, <2>3 DEF FoeLives
    <3>. QED  BY <1>12, <2>3, <3>1 DEF Follows, Dropped
  <2>4. CASE after # "gone" /\ Forced(fight, e)
    <3>1. mark'[e] = mark[e] /\ pri' = p
      BY <1>1, <1>10, <1>13, <2>4
    <3>2. mark[e] = NoMark
      BY <2>1, <2>4 DEF Follows, Matches
    <3>3. p.history[e] = NoHistory
      BY <1>8, <2>4 DEF Synced
    <3>. QED  BY <3>1, <3>2, <3>3 DEF Follows, Dropped
  <2>5. CASE after # "gone" /\ ~Forced(fight, e)
    <3>1. FoeLives(fight', e) /\ ~Forced(fight', e)
      BY <1>11, <1>12, <1>13, <2>5 DEF FoeLives, Forced
    <3>2. CASE class = "none"
      <4>1. mark'[e] = mark[e] /\ pri' = p
        BY <1>1, <1>10, <1>13, <2>5, <3>2
      <4>2. CASE mark[e] = NoMark
        <5>1. Dropped(p, fight, e)
          BY <2>1, <4>2 DEF Follows
        <5>2. p.history[e] = NoHistory
          BY <1>3, <1>8, <2>5, <5>1 DEF Dropped, Synced
        <5>. QED  BY <4>1, <4>2, <5>2 DEF Follows, Dropped
      <4>3. CASE mark[e] # NoMark
        BY <1>12, <2>1, <2>2, <3>1, <4>1, <4>3 DEF Follows, Matches
      <4>. QED  BY <4>2, <4>3
    <3>3. CASE class # "none"
      <4>1. mark'[e] = [priority |-> Ladder[class], age |-> 0]
        BY <1>1, <1>13, <2>5, <3>3
      <4>2. Ladder[class] \in 1 .. 9
        BY <1>4, <1>14, <3>3 DEF Births
      <4>3. mark'[e].priority = Ladder[class] /\ mark'[e].age = 0 /\ Ladder[class] # 0 /\ mark'[e] # NoMark
        BY <4>1, <4>2 DEF NoMark
      <4> HIDE DEF class
      <4>4. Matches(pri', fight', mark', e)
        BY <1>10, <1>12, <1>13, <2>2, <2>5, <3>1, <3>3, <4>3 DEF Matches
      <4>. QED  BY <4>3, <4>4 DEF Follows
    <3>. QED  BY <3>2, <3>3
  <2>. QED  BY <2>3, <2>4, <2>5
<1>18. ASSUME NEW b \in Cells PROVE BirthKnown(pri', fight', b)
  <2>1. BirthKnown(p, fight, b)
    BY <1>8 DEF Agrees
  <2>2. pri'.provenance = p.provenance /\ pri'.valid = p.valid /\ pri'.stage = p.stage
    BY <1>8, <1>10, <1>13 DEF Synced
  <2>. QED  BY <1>12, <2>1, <2>2 DEF BirthKnown
<1>19. Agrees(pri', fight', mark')
  BY <1>10, <1>13, <1>16, <1>17, <1>18 DEF Agrees
<1>20. verdict' \in [granted : BOOLEAN, earned : BOOLEAN, paid : BOOLEAN] /\ FollowUpsJudged'
  <2>1. d.paid \in BOOLEAN
    BY DEF d, DamageHook
  <2>2. d.paid => verdict.granted
    BY <1>2, <1>8
  <2>. QED  BY <1>1, <1>13, <2>1, <2>2 DEF FollowUpsJudged
<1>. QED  BY <1>10, <1>12, <1>13, <1>15, <1>19, <1>20 DEF PriorityInv, BeforeSeen, TokenFits

LEMMA FoeGoesKeeps ==
    ASSUME PriorityInv, NEW e \in Targets, NEW kind \in FoeKinds \cup {"plain"}, NEW state \in FoeStates,
           FoeGoes(e, kind, state)
    PROVE  PriorityInv'
<1>1. /\ fight \in Fights /\ pri \in PriorityRecords /\ mark \in [Targets -> MarkRecords]
      /\ Agrees(pri, fight, mark)
  BY DEF PriorityInv
<1>2. /\ fight' \in Fights /\ fight'.level = fight.level /\ fight'.cell = fight.cell
      /\ \A t \in Targets \ {e} : fight'.foe[t] = fight.foe[t] /\ (t \in fight.moved => t \in fight'.moved)
      /\ fight'.foe[e].kind = kind /\ fight'.foe[e].state = state /\ e \in fight'.moved
  <2> DEFINE foe == [fight.foe EXCEPT ![e] = [kind |-> kind, state |-> state]]
             moved == fight.moved \cup {e}
  <2>1. fight' = [fight EXCEPT !.foe = foe, !.moved = moved]
    BY <1>1 DEF FoeGoes, Fights
  <2>2. foe \in [Targets -> [kind : Kinds, state : FoeStates]] /\ moved \in SUBSET Targets
    BY <1>1 DEF Fights, Kinds
  <2>3. /\ \A t \in Targets \ {e} : foe[t] = fight.foe[t] /\ (t \in fight.moved => t \in moved)
        /\ foe[e].kind = kind /\ foe[e].state = state /\ e \in moved
    BY <1>1 DEF Fights
  <2> HIDE DEF foe, moved
  <2>. QED  BY <1>1, <2>1, <2>2, <2>3 DEF Fights
<1>3. /\ pri' = pri /\ step = "guest" /\ step' = step /\ e \notin fight.moved /\ verdict' = NoVerdict
      /\ mark' = IF kind # fight.foe[e].kind \/ state \in {"gone", "forced"} \/ ~FoeLives(fight, e)
                 THEN [mark EXCEPT ![e] = NoMark] ELSE mark
  BY DEF FoeGoes
<1>4. mark' \in [Targets -> MarkRecords] /\ \A t \in Targets \ {e} : mark'[t] = mark[t]
  BY <1>1, <1>3 DEF MarkRecords, NoMark
<1>5. ASSUME NEW t \in Targets \ {e} PROVE Follows(pri', fight', mark', t)
  BY <1>1, <1>2, <1>3, <1>4 DEF Agrees, Follows, Dropped, Matches, FoeLives, Forced
<1>6. Follows(pri', fight', mark', e)
  <2>1. Follows(pri, fight, mark, e)
    BY <1>1 DEF Agrees
  <2>2. CASE mark[e] = NoMark
    <3>1. Dropped(pri', fight', e) /\ mark'[e] = NoMark
      BY <1>1, <1>2, <1>3, <2>1, <2>2 DEF Follows, Dropped
    <3>. QED  BY <3>1 DEF Follows
  <2>3. CASE mark[e] # NoMark /\ (kind # fight.foe[e].kind \/ state \in {"gone", "forced"})
    <3>1. Matches(pri, fight, mark, e)
      BY <2>1, <2>3 DEF Follows
    <3>2. mark'[e] = NoMark
      BY <1>1, <1>3, <2>3
    <3>3. Dropped(pri', fight', e)
      BY <1>2, <1>3, <2>3, <3>1 DEF Matches, Dropped, FoeLives, Forced
    <3>. QED  BY <3>2, <3>3 DEF Follows
  <2>4. CASE mark[e] # NoMark /\ ~(kind # fight.foe[e].kind \/ state \in {"gone", "forced"})
    <3>1. Matches(pri, fight, mark, e)
      BY <2>1, <2>4 DEF Follows
    <3>2. mark' = mark
      BY <1>3, <2>4, <3>1 DEF Matches
    <3>3. Matches(pri', fight', mark', e)
      BY <1>2, <1>3, <2>4, <3>1, <3>2 DEF Matches, FoeLives, Forced
    <3>. QED  BY <2>4, <3>2, <3>3 DEF Follows
  <2>. QED  BY <2>2, <2>3, <2>4
<1>7. \A t \in Targets : Sound(pri', t)
  BY <1>1, <1>3 DEF Agrees
<1>8. \A c \in Cells : BirthKnown(pri', fight', c)
  BY <1>1, <1>2, <1>3 DEF Agrees, BirthKnown
<1>9. Agrees(pri', fight', mark')
  BY <1>5, <1>6, <1>7, <1>8 DEF Agrees
<1>. QED  BY <1>1, <1>2, <1>3, <1>4, <1>9 DEF PriorityInv, BeforeSeen, TokenFits, FollowUpsJudged, NoVerdict

LEMMA CellEndsKeeps ==
    ASSUME PriorityInv, NEW c \in Cells, CellEnds(c)
    PROVE  PriorityInv'
<1>1. /\ fight \in Fights /\ pri \in PriorityRecords /\ mark \in [Targets -> MarkRecords]
      /\ Agrees(pri, fight, mark)
  BY DEF PriorityInv
<1>2. EmptyCell \in [what : Things, born : Births, hit : SUBSET Targets]
      /\ EmptyCell.what \notin Buster /\ EmptyCell.born = "none"
  BY DEF EmptyCell, Things, Births, Buster
<1>3. /\ fight' \in Fights /\ fight'.level = fight.level /\ fight'.foe = fight.foe /\ fight'.moved = fight.moved
      /\ \A b \in Cells : fight'.cell[b] = IF b = c THEN EmptyCell ELSE fight.cell[b]
  BY <1>1, <1>2 DEF CellEnds, Fights
<1>4. pri' = pri /\ mark' = mark /\ step' = "guest" /\ verdict' = NoVerdict
  BY DEF CellEnds
<1>5. \A t \in Targets : Sound(pri', t) /\ Follows(pri', fight', mark', t)
  BY <1>1, <1>3, <1>4 DEF Agrees, Follows, Dropped, Matches, FoeLives, Forced
<1>6. \A b \in Cells : BirthKnown(pri', fight', b)
  BY <1>1, <1>2, <1>3, <1>4 DEF Agrees, BirthKnown
<1>7. Agrees(pri', fight', mark')
  BY <1>5, <1>6 DEF Agrees
<1>. QED  BY <1>1, <1>3, <1>4, <1>7 DEF PriorityInv, BeforeSeen, TokenFits, FollowUpsJudged, NoVerdict

LEMMA AdvancesKeeps ==
    ASSUME PriorityInv, NEW level \in Levels, Advances(level)
    PROVE  PriorityInv'
<1>1. /\ fight \in Fights /\ pri \in PriorityRecords /\ Agrees(pri, fight, mark)
  BY DEF PriorityInv
<1>2. /\ pri' = pri /\ step' = "frame" /\ verdict' = verdict /\ level # fight.level
      /\ pri.valid => pri.stage = fight.level
      /\ mark' = [e \in Targets |-> NoMark]
  BY DEF Advances
<1>3. EmptyCell \in [what : Things, born : Births, hit : SUBSET Targets]
      /\ EmptyCell.what \notin Buster /\ EmptyCell.born = "none"
  BY DEF EmptyCell, Things, Births, Buster
<1>4. fight' \in Fights /\ fight'.level = level /\ \A c \in Cells : fight'.cell[c] = EmptyCell
  <2> DEFINE foe == [e \in Targets |-> [fight.foe[e] EXCEPT !.state = "open"]]
             cell == [c \in Cells |-> EmptyCell]
  <2>1. fight' = [fight EXCEPT !.level = level, !.foe = foe, !.cell = cell]
    BY <1>1 DEF Advances, Fights
  <2>2. foe \in [Targets -> [kind : Kinds, state : FoeStates]]
    BY <1>1 DEF Fights, FoeStates
  <2>3. cell \in [Cells -> [what : Things, born : Births, hit : SUBSET Targets]]
        /\ \A c \in Cells : cell[c] = EmptyCell
    BY <1>3
  <2> HIDE DEF foe, cell
  <2>. QED  BY <1>1, <2>1, <2>2, <2>3 DEF Fights
<1>5. mark' \in [Targets -> MarkRecords]
  BY <1>2 DEF MarkRecords, NoMark
<1>6. ASSUME NEW e \in Targets PROVE Sound(pri', e) /\ Follows(pri', fight', mark', e)
  <2>1. Sound(pri', e)
    BY <1>1, <1>2 DEF Agrees
  <2>2. Dropped(pri', fight', e)
    BY <1>2, <1>4, <2>1 DEF Dropped, Sound
  <2>. QED  BY <1>2, <2>1, <2>2 DEF Follows
<1>7. \A c \in Cells : BirthKnown(pri', fight', c)
  BY <1>3, <1>4 DEF BirthKnown
<1>8. Agrees(pri', fight', mark')
  BY <1>6, <1>7 DEF Agrees
<1>. QED  BY <1>1, <1>2, <1>4, <1>5, <1>8 DEF PriorityInv, BeforeSeen, TokenFits, FollowUpsJudged

LEMMA ResetKeeps == PriorityInv /\ PriorityReset => PriorityInv'
<1> SUFFICES ASSUME PriorityInv, PriorityReset PROVE PriorityInv'
  OBVIOUS
<1>1. fight \in Fights
  BY DEF PriorityInv
<1>2. pri' = NoRecords /\ mark' = [e \in Targets |-> NoMark] /\ step' = "frame" /\ verdict' = verdict
  BY DEF PriorityReset
<1>3. fight' \in Fights /\ \A c \in Cells : fight'.cell[c].born = "none"
  <2> DEFINE cell == [c \in Cells |-> [fight.cell[c] EXCEPT !.born = "none"]]
  <2>1. fight' = [fight EXCEPT !.cell = cell]
    BY <1>1 DEF PriorityReset, Fights
  <2>2. cell \in [Cells -> [what : Things, born : Births, hit : SUBSET Targets]]
        /\ \A c \in Cells : cell[c].born = "none"
    BY <1>1 DEF Fights, Births
  <2> HIDE DEF cell
  <2>. QED  BY <1>1, <2>1, <2>2 DEF Fights
<1>4. /\ \A e \in Targets : pri'.history[e] = NoHistory
      /\ \A c \in Cells : pri'.provenance[c] = NoProvenance
  BY <1>2 DEF NoRecords
<1>5. \A e \in Targets : Sound(pri', e) /\ Follows(pri', fight', mark', e)
  BY <1>2, <1>4 DEF Sound, Follows, Dropped
<1>6. \A c \in Cells : BirthKnown(pri', fight', c)
  BY <1>3, <1>4 DEF BirthKnown, NoProvenance
<1>7. Agrees(pri', fight', mark')
  BY <1>5, <1>6 DEF Agrees
<1>8. mark' \in [Targets -> MarkRecords] /\ pri' \in PriorityRecords
  BY <1>2, NoRecordsTyped DEF MarkRecords, NoMark
<1>. QED  BY <1>2, <1>3, <1>7, <1>8 DEF PriorityInv, BeforeSeen, TokenFits, FollowUpsJudged

\* Saber learns the class of what Zero makes when it watches, and takes
\* nothing for it when it does not.
LEMMA PlaysKeeps ==
    ASSUME PriorityInv, NEW out \in SUBSET Cells, NEW c \in Cells \cup {0}, NEW what \in Makings,
           NEW emission \in Bursts, NEW burst \in Bursts, NEW swing \in Swings,
           NEW context \in BOOLEAN, Plays(out, c, what, emission, burst, swing, context)
    PROVE  PriorityInv'
<1> DEFINE made == IF what = "free" THEN Makes(fight, out, 0, "free") ELSE Makes(fight, out, c, what)
           g == [made EXCEPT !.burst = burst, !.swing = swing, !.context = context,
                             !.burstShots = Marks(fight, c, what, emission)]
           born == IF context THEN TrueBirth(what, emission) ELSE "none"
<1>1. /\ fight \in Fights /\ pri \in PriorityRecords /\ mark \in [Targets -> MarkRecords]
      /\ Agrees(pri, fight, mark) /\ FollowUpsJudged
      /\ verdict \in [granted : BOOLEAN, earned : BOOLEAN, paid : BOOLEAN]
  BY DEF PriorityInv
<1>2. /\ step = "player" /\ step' = "guest" /\ UNCHANGED <<mark, verdict>>
      /\ \A d \in out : fight.cell[d].what \in {"swing", "finisher"}
      /\ what = "free" => c = 0
      /\ what # "free" => c \in Cells /\ (~CellLives(fight, c) \/ c \in out)
      /\ emission # 0 => what = "full" /\ (burst = emission \/ (burst = 0 /\ fight.burst = emission))
      /\ fight' = [g EXCEPT !.cell = [d \in Cells |-> IF d = c THEN [@[d] EXCEPT !.born = born] ELSE @[d]]]
      /\ pri' = IF context THEN ObservePlayerEnd(pri, g) ELSE pri
  BY DEF Plays
<1>3. /\ what \in Things /\ emission \in 0 .. 2 /\ burst \in 0 .. 2
      /\ swing \in [kind : Births, active : BOOLEAN]
  <2>1. what \in Things
    BY DEF Makings, Things
  <2>2. emission \in 0 .. 2 /\ burst \in 0 .. 2
    BY DEF Bursts, Given
  <2>3. swing \in [kind : Births, active : BOOLEAN]
    <3> DEFINE used == {k \in SwingClasses : Uses(k)}
    <3>1. used \subseteq Births /\ "none" \in Births
      BY DEF SwingClasses, Births
    <3>2. swing = [kind |-> "none", active |-> FALSE] \/ swing \in [kind : used, active : BOOLEAN]
      BY DEF Swings
    <3> HIDE DEF used
    <3>3. CASE swing = [kind |-> "none", active |-> FALSE]
      BY <3>1, <3>3
    <3>4. CASE swing \in [kind : used, active : BOOLEAN]
      BY <3>1, <3>4
    <3>. QED  BY <3>2, <3>3, <3>4
  <2>. QED  BY <2>1, <2>2, <2>3
<1>4. born \in Births /\ (what \notin Buster => born = "none")
  BY <1>3, PriorityAssumption DEF TrueBirth, Births, Buster
<1>5. /\ pri.valid /\ pri.stage = fight.level /\ pri.preValid /\ pri.preBurst = fight.burst
      /\ \A d \in Cells :
            /\ pri.pre[d] = [live |-> CellLives(fight, d), tag |-> Tag(fight, d)]
            /\ pri.provenance[d].tag = "native" => fight.cell[d].what \in Buster \cup {"pellet"}
  BY <1>2 DEF PriorityInv, BeforeSeen
<1>6. /\ g \in Fights /\ g.level = fight.level /\ g.foe = fight.foe /\ g.moved = fight.moved
      /\ g.burst = burst /\ g.burstShots = Marks(fight, c, what, emission)
      /\ \A d \in Cells :
            \/ what # "free" /\ d = c /\ g.cell[d].what = what /\ g.cell[d].born = "none"
            \/ g.cell[d].what = "free" /\ g.cell[d].born = "none" /\ (what # "free" => d # c)
            \/ g.cell[d] = fight.cell[d] /\ d \notin out /\ d # c
  <2>1. EmptyCell \in [what : Things, born : Births, hit : SUBSET Targets]
        /\ EmptyCell.what = "free" /\ EmptyCell.born = "none"
    BY DEF EmptyCell, Things, Births
  <2> DEFINE put == IF what = "free" THEN 0 ELSE c
             new == [EmptyCell EXCEPT !.what = what]
             cell == [d \in Cells |-> IF d = put THEN new
                                     ELSE IF d \in out THEN EmptyCell ELSE fight.cell[d]]
  <2>2. new \in [what : Things, born : Births, hit : SUBSET Targets] /\ new.what = what /\ new.born = "none"
    BY <1>3 DEF EmptyCell, Births
  <2>3. made = [fight EXCEPT !.cell = cell]
    BY <1>1 DEF Makes, Fights
  <2>4. cell \in [Cells -> [what : Things, born : Births, hit : SUBSET Targets]]
    BY <1>1, <2>1, <2>2 DEF Fights
  <2>5. \A d \in Cells :
            \/ what # "free" /\ d = c /\ cell[d].what = what /\ cell[d].born = "none"
            \/ cell[d].what = "free" /\ cell[d].born = "none" /\ (what # "free" => d # c)
            \/ cell[d] = fight.cell[d] /\ d \notin out /\ d # c
    BY <1>2, <2>1, <2>2
  <2>6. Marks(fight, c, what, emission) \subseteq Cells
    BY <1>1, <1>2, <1>3 DEF Marks, Fights
  <2>7. g = [fight EXCEPT !.cell = cell, !.burst = burst, !.swing = swing, !.context = context,
                          !.burstShots = Marks(fight, c, what, emission)]
    BY <1>1, <2>3 DEF Fights
  <2> HIDE DEF cell, g
  <2>. QED  BY <1>1, <1>3, <2>4, <2>5, <2>6, <2>7 DEF Fights
<1> HIDE DEF g
<1>7. /\ fight' \in Fights /\ fight'.level = g.level /\ fight'.foe = g.foe /\ fight'.moved = g.moved
      /\ \A d \in Cells : /\ fight'.cell[d].what = g.cell[d].what
                         /\ fight'.cell[d].born = IF d = c THEN born ELSE g.cell[d].born
  <2> DEFINE cell == [d \in Cells |-> IF d = c THEN [g.cell[d] EXCEPT !.born = born] ELSE g.cell[d]]
  <2> HIDE DEF born
  <2>1. fight' = [g EXCEPT !.cell = cell]
    BY <1>2, <1>6 DEF Fights
  <2>2. cell \in [Cells -> [what : Things, born : Births, hit : SUBSET Targets]]
        /\ \A d \in Cells : /\ cell[d].what = g.cell[d].what
                           /\ cell[d].born = IF d = c THEN born ELSE g.cell[d].born
    BY <1>4, <1>6 DEF Fights
  <2> HIDE DEF cell
  <2>. QED  BY <1>6, <2>1, <2>2 DEF Fights
<1>8. ASSUME NEW d \in Cells, what # "free", d = c
      PROVE  /\ fight.cell[d].what \in {"free", "swing", "finisher"}
             /\ pri.provenance[d].tag # "native"
  <2>1. fight.cell[d].what \in {"free", "swing", "finisher"}
    BY <1>2, <1>8 DEF CellLives
  <2>. QED  BY <1>5, <2>1 DEF Buster
<1>9. Agrees(pri, g, mark)
  <2>1. \A e \in Targets : Sound(pri, e) /\ Follows(pri, g, mark, e)
    BY <1>1, <1>6 DEF Agrees, Follows, Dropped, Matches, FoeLives, Forced
  <2>2. ASSUME NEW d \in Cells PROVE BirthKnown(pri, g, d)
    <3>1. BirthKnown(pri, fight, d)
      BY <1>1 DEF Agrees
    <3>2. CASE what # "free" /\ d = c
      BY <1>6, <1>8, <3>2 DEF BirthKnown
    <3>3. CASE ~(what # "free" /\ d = c)
      BY <1>6, <3>1, <3>3 DEF BirthKnown, Buster
    <3>. QED  BY <3>2, <3>3
  <2>. QED  BY <2>1, <2>2 DEF Agrees
<1>10. SUFFICES pri' \in PriorityRecords /\ Agrees(pri', fight', mark)
  BY <1>1, <1>2, <1>7 DEF PriorityInv, BeforeSeen, TokenFits, FollowUpsJudged
<1>11. CASE ~context
  <2>1. pri' = pri /\ born = "none"
    BY <1>2, <1>11
  <2>2. \A e \in Targets : Sound(pri, e) /\ Follows(pri, fight', mark, e)
    BY <1>7, <1>9 DEF Agrees, Follows, Dropped, Matches, FoeLives, Forced
  <2>3. ASSUME NEW d \in Cells PROVE BirthKnown(pri, fight', d)
    <3>1. BirthKnown(pri, g, d)
      BY <1>9 DEF Agrees
    <3>2. d = c => g.cell[d].born = "none"
      BY <1>2, <1>6
    <3>. QED  BY <1>7, <2>1, <3>1, <3>2 DEF BirthKnown
  <2>. QED  BY <1>1, <2>1, <2>2, <2>3 DEF Agrees
<1>12. CASE context
  <2> DEFINE q == SyncFoes(pri, g)
             newborn(d) == CellLives(g, d) /\ (~q.pre[d].live \/ q.pre[d].tag # Tag(g, d))
             births == [d \in Cells |->
                          IF newborn(d) /\ BirthClass(q, g, d) # "none"
                          THEN [tag |-> Tag(g, d), class |-> BirthClass(q, g, d)]
                          ELSE IF newborn(d) \/ ~CellLives(g, d) \/ q.provenance[d].tag # Tag(g, d)
                          THEN NoProvenance ELSE q.provenance[d]]
             unseen == [d \in Cells |-> NotSeen]
  <2>1. /\ q \in PriorityRecords /\ Synced(q, g) /\ Agrees(q, g, mark)
        /\ q.pre = pri.pre /\ q.preValid = pri.preValid /\ q.preBurst = pri.preBurst
    <3>1. pri.valid /\ pri.stage = g.level
      BY <1>5, <1>6
    <3>. QED  BY <1>1, <1>6, <1>9, <3>1, Looks
  <2>2. pri' = [q EXCEPT !.provenance = births, !.preValid = FALSE, !.pre = unseen, !.preBurst = 0]
    BY <1>2, <1>5, <1>12, <2>1 DEF ObservePlayerEnd
  <2>3. ASSUME NEW d \in Cells
        PROVE  /\ BirthClass(q, g, d) \in Births
               /\ BirthClass(q, g, d) # "none" => Tag(g, d) = "native"
    BY PriorityAssumption DEF BirthClass, Births, Tag, Buster
  <2>4. NoProvenance \in Provenances
    BY DEF NoProvenance, Provenances, Births
  <2>5. births \in [Cells -> Provenances]
    <3>1. \A d \in Cells : q.provenance[d] \in Provenances
      BY <2>1 DEF PriorityRecords
    <3>2. \A d \in Cells : BirthClass(q, g, d) # "none" =>
             [tag |-> Tag(g, d), class |-> BirthClass(q, g, d)] \in Provenances
      BY <2>3 DEF Provenances
    <3>. QED  BY <2>4, <3>1, <3>2
  <2>6. \A d \in Cells :
           births[d] = IF newborn(d) /\ BirthClass(q, g, d) # "none"
                       THEN [tag |-> Tag(g, d), class |-> BirthClass(q, g, d)]
                       ELSE IF newborn(d) \/ ~CellLives(g, d) \/ q.provenance[d].tag # Tag(g, d)
                       THEN NoProvenance ELSE q.provenance[d]
    OBVIOUS
  <2> HIDE DEF births
  <2>7. unseen \in [Cells -> [live : BOOLEAN, tag : Tags]]
    BY DEF NotSeen, Tags
  <2> HIDE DEF unseen
  <2>8. /\ pri' \in PriorityRecords /\ pri'.valid = q.valid /\ pri'.stage = q.stage /\ pri'.live = q.live
        /\ pri'.generation = q.generation /\ pri'.history = q.history /\ pri'.provenance = births
    <3> HIDE DEF q
    <3>1. pri' = [q EXCEPT !.provenance = births, !.preValid = FALSE, !.pre = unseen, !.preBurst = 0]
      BY <2>2
    <3>2. q \in PriorityRecords
      BY <2>1
    <3>3. FALSE \in BOOLEAN /\ 0 \in 0 .. 2
      OBVIOUS
    <3>4. pri' \in PriorityRecords
      BY <2>5, <2>7, <3>1, <3>2, <3>3 DEF PriorityRecords
    <3>. QED  BY <3>1, <3>2, <3>4 DEF PriorityRecords
  <2>9. \A e \in Targets : Sound(pri', e) /\ Follows(pri', fight', mark, e)
    BY <1>7, <2>1, <2>8 DEF Agrees, Sound, Follows, Dropped, Matches, FoeLives, Forced
  <2>10. ASSUME NEW d \in Cells PROVE BirthKnown(pri', fight', d)
    <3>1. BirthKnown(q, g, d) /\ q.valid /\ q.stage = g.level
      BY <2>1 DEF Agrees, Synced
    <3>2. q.pre[d] = [live |-> CellLives(fight, d), tag |-> Tag(fight, d)]
      BY <1>5, <2>1
    <3>3. CASE fight'.cell[d].what \notin Buster
      BY <1>2, <1>4, <1>6, <1>7, <3>1, <3>3 DEF BirthKnown
    <3>4. CASE fight'.cell[d].what \in Buster /\ d = c
      <4>1. what \in Buster /\ g.cell[d].what = what /\ fight'.cell[d].born = TrueBirth(what, emission)
        BY <1>2, <1>6, <1>7, <1>12, <3>4 DEF Buster
      <4>2. CellLives(g, d) /\ Tag(g, d) = "native"
        BY <4>1 DEF CellLives, Tag, Buster
      <4>3. ~CellLives(fight, d) \/ Tag(fight, d) # "native"
        BY <1>8, <3>4, <4>1 DEF CellLives, Tag, Buster
      <4>4. newborn(d)
        BY <3>2, <4>2, <4>3
      <4>5. d \in g.burstShots <=> emission # 0
        BY <1>6, <1>8, <3>4, <4>1 DEF Marks, Buster
      <4>6. emission # 0 => emission = IF g.burst # 0 THEN g.burst ELSE q.preBurst
        BY <1>2, <1>5, <1>6, <2>1
      <4>7. BirthClass(q, g, d) = TrueBirth(what, emission) /\ TrueBirth(what, emission) # "none"
        BY <1>2, <1>3, <4>1, <4>5, <4>6 DEF BirthClass, TrueBirth, Buster
      <4>8. births[d] = [tag |-> "native", class |-> TrueBirth(what, emission)]
        BY <2>6, <4>2, <4>4, <4>7
      <4>. QED  BY <1>7, <2>8, <3>1, <4>1, <4>7, <4>8 DEF BirthKnown
    <3>5. CASE fight'.cell[d].what \in Buster /\ d # c
      <4>1. g.cell[d] = fight.cell[d]
        BY <1>6, <1>7, <3>5 DEF Buster
      <4>2. CellLives(g, d) /\ Tag(g, d) = "native" /\ CellLives(fight, d) /\ Tag(fight, d) = "native"
        BY <1>7, <3>5, <4>1 DEF CellLives, Tag, Buster
      <4>3. ~newborn(d)
        BY <3>2, <4>2
      <4>4. births[d] = IF q.provenance[d].tag # "native" THEN NoProvenance ELSE q.provenance[d]
        BY <2>6, <4>2, <4>3
      <4>. QED  BY <1>7, <2>8, <3>1, <3>5, <4>4 DEF BirthKnown, NoProvenance
    <3>. QED  BY <3>3, <3>4, <3>5
  <2>. QED  BY <2>8, <2>9, <2>10 DEF Agrees
<1>. QED  BY <1>11, <1>12

LEMMA PriorityNextKeeps == PriorityInv /\ [PriorityNext]_priVars => PriorityInv'
<1> SUFFICES ASSUME PriorityInv, [PriorityNext]_priVars PROVE PriorityInv'
  OBVIOUS
<1>1. CASE PriorityPre
  BY <1>1, PreKeeps
<1>2. ASSUME NEW out \in SUBSET Cells, NEW c \in Cells \cup {0}, NEW what \in Makings,
             NEW emission \in Bursts, NEW burst \in Bursts, NEW swing \in Swings,
             NEW context \in Given("away", BOOLEAN, TRUE),
             Plays(out, c, what, emission, burst, swing, context)
      PROVE  PriorityInv'
  <2>1. context \in BOOLEAN
    BY DEF Given
  <2>. QED  BY <1>2, <2>1, PlaysKeeps
<1>3. ASSUME NEW e \in Targets, NEW c \in Cells, NEW answer, Responds(e, c, answer)
      PROVE  PriorityInv'
  BY <1>3, RespondsKeeps
<1>4. ASSUME NEW e \in Targets, NEW c \in Cells, NEW answer,
             NEW after \in {"open", "safe", "shielded", "forced", "gone"}, Hits(e, c, answer, after)
      PROVE  PriorityInv'
  BY <1>4, HitsKeeps DEF FoeStates
<1>5. CASE StrikeDropped
  <2>1. UNCHANGED <<fight, pri, mark, verdict>> /\ step' = "guest"
    BY <1>5 DEF StrikeDropped
  <2>. QED  BY <2>1 DEF PriorityInv, BeforeSeen, TokenFits, FollowUpsJudged
<1>6. ASSUME NEW e \in Targets, NEW kind \in Given("kinds", FoeKinds, "plain"),
             NEW state \in {"open", "safe", "shielded", "forced", "gone"}, FoeGoes(e, kind, state)
      PROVE  PriorityInv'
  BY <1>6, FoeGoesKeeps DEF FoeStates, Given
<1>7. ASSUME NEW c \in Cells, CellEnds(c) PROVE PriorityInv'
  BY <1>7, CellEndsKeeps
<1>8. CASE FrameOver
  <2>1. UNCHANGED <<fight, pri, mark>> /\ step' = "frame" /\ verdict' = NoVerdict
    BY <1>8 DEF FrameOver
  <2>. QED  BY <2>1 DEF PriorityInv, BeforeSeen, TokenFits, FollowUpsJudged, NoVerdict
<1>9. ASSUME NEW level \in Levels, Advances(level) PROVE PriorityInv'
  BY <1>9, AdvancesKeeps
<1>10. CASE PriorityReset
  BY <1>10, ResetKeeps
<1>11. CASE UNCHANGED priVars
  <2>1. UNCHANGED <<fight, pri, step, struck, mark, verdict>>
    BY <1>11 DEF priVars
  <2>2. \A e \in Targets, c \in Cells : Answers(e)' = Answers(e) /\ TrueClass(c)' = TrueClass(c)
    BY <2>1 DEF Answers, TrueClass, SlashClass
  <2>3. BeforeSeen' /\ TokenFits'
    BY <2>1, <2>2 DEF PriorityInv, BeforeSeen, TokenFits
  <2>. QED  BY <2>1, <2>3 DEF PriorityInv, FollowUpsJudged
<1>. QED  BY <1>1, <1>2, <1>3, <1>4, <1>5, <1>6, <1>7, <1>8, <1>9, <1>10, <1>11 DEF PriorityNext

-----------------------------------------------------------------------------
(* The theorems *)

\* The records keep their types, and each is of the enemy and the shot it
\* was taken from (MmxSaberPriorityState), in every state.
THEOREM PriorityInvAlways == PrioritySpec => []PriorityInv
<1>. QED  BY PriorityInitially, PriorityNextKeeps, PTL DEF PrioritySpec

\* A hit breaks an enemy's invincibility exactly when a weaker hit was
\* accepted on the same enemy within the window, and who is admitted is paid
\* (MmxSaberPriorityResponse, MmxSaberPriorityConsume): for every number of
\* slots, every ladder and window, and however soon a generation comes again.
THEOREM FollowUpsJudgedAlways == PrioritySpec => []FollowUpsJudged
<1>1. PriorityInv => FollowUpsJudged
  BY DEF PriorityInv
<1>. QED  BY <1>1, PriorityInvAlways, PTL
===============================================================================
