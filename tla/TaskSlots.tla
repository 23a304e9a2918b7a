------------------------------- MODULE TaskSlots -------------------------------
(***************************************************************************)
(* What the host's task scheduler promises.  The game's tasks run one at a *)
(* time, each in a lane of its own, and a frame visits the lanes in order. *)
(* A task goes on at the point where it yielded, after as many frames as   *)
(* it asked for, also after a state that holds it was loaded, in the same  *)
(* process or in another; a machine that was reset boots again.  A state   *)
(* written after a load holds the points of those tasks only that have run *)
(* since; the others it holds start anew.                                  *)
(***************************************************************************)
EXTENDS Integers

CONSTANTS LaneCount, BootTask, Tasks,
          Yields            \* of each task: the points where it yields, and for how long

VARIABLES
    game,       \* "off" until the game boots, "played" after its first frame of tasks
    job,        \* of each lane: its task, where it goes on and when
    lane,       \* the lane visited, 0 between frames
    nmi,        \* the NMI ran in this frame
    cold,       \* the lanes loaded at a point whose tasks have not run since
    kept        \* what the state file holds

Lanes == 1 .. LaneCount
NoTask == "none"
NoJob == [task |-> NoTask, at |-> 0, wait |-> 0]
Job(task, at, wait) == [task |-> task, at |-> at, wait |-> wait]
Site == -1                  \* yielded at the dispatch site: a load starts it anew
NothingKept == [game |-> "none", whole |-> TRUE, jobs |-> [s \in Lanes |-> NoJob]]

Visited == lane \in Lanes
Runs == Visited /\ job[lane] # NoJob /\ job[lane].wait = 0

PowerOff ==
    /\ game' = "off" /\ job' = [s \in Lanes |-> NoJob]
    /\ lane' = 0 /\ nmi' = FALSE /\ cold' = {} /\ UNCHANGED kept

Start ==
    /\ game = "off" /\ job = [s \in Lanes |-> NoJob] /\ lane = 0 /\ nmi = FALSE
    /\ cold = {} /\ kept.game \in {"none", "played"}

(* The first frame boots; the NMI waits for the tasks' first frame.         *)
Begin ==
    /\ lane = 0 /\ lane' \in {0, 1}
    /\ nmi' = (game = "played")
    /\ IF game = "off"
       THEN /\ game' = "booted"
            /\ job' = [s \in Lanes |-> IF s = 1 THEN Job(BootTask, 0, 1) ELSE NoJob]
            /\ cold' = {}
       ELSE UNCHANGED <<game, job, cold>>
    /\ UNCHANGED kept

Pass ==
    /\ Visited /\ job[lane] = NoJob
    /\ lane' = lane + 1 /\ UNCHANGED <<game, job, nmi, cold, kept>>
Await ==
    /\ Visited /\ job[lane] # NoJob /\ job[lane].wait > 1
    /\ job' = [job EXCEPT ![lane].wait = @ - 1] /\ lane' = lane + 1
    /\ UNCHANGED <<game, nmi, cold, kept>>
Resume ==
    /\ Visited /\ job[lane] # NoJob /\ job[lane].wait = 1
    /\ job' = [job EXCEPT ![lane].wait = 0] /\ cold' = cold \ {lane}
    /\ UNCHANGED <<game, lane, nmi, kept>>

(* What a running task does with the lanes.                                 *)
Add(s, task) ==
    /\ Runs /\ s # lane
    /\ job' = [job EXCEPT ![s] = Job(task, 0, 1)] /\ cold' = cold \ {s}
    /\ UNCHANGED <<game, lane, nmi, kept>>
Yield(y) ==
    /\ Runs /\ y \in Yields[job[lane].task]
    /\ job' = [job EXCEPT ![lane] = Job(@.task, y.at, IF y.wait = 0 THEN 1 ELSE y.wait)]
    /\ lane' = lane + 1 /\ UNCHANGED <<game, nmi, cold, kept>>
Finish ==
    /\ Runs
    /\ job' = [job EXCEPT ![lane] = NoJob] /\ lane' = lane + 1
    /\ UNCHANGED <<game, nmi, cold, kept>>

End ==
    /\ lane = LaneCount + 1 /\ lane' = 0
    /\ game' = "played" /\ UNCHANGED <<job, nmi, cold, kept>>

Anew(j) == Job(j.task, 0, j.wait)
Keep ==
    /\ lane = 0
    /\ kept' = [game |-> game, whole |-> TRUE,
                jobs |-> [s \in Lanes |-> IF s \in cold THEN Anew(job[s]) ELSE job[s]]]
    /\ UNCHANGED <<game, job, lane, nmi, cold>>

Recalled(j) == IF j.at = Site THEN Anew(j) ELSE j
Recall ==
    /\ lane = 0 /\ kept.game # "none" /\ kept.whole
    /\ game' = kept.game /\ job' = [s \in Lanes |-> Recalled(kept.jobs[s])]
    /\ cold' = {s \in Lanes : Recalled(kept.jobs[s]).at # 0}
    /\ UNCHANGED <<lane, nmi, kept>>

(* A file of an old version holds no tasks: where they go on is not known.  *)
RecallGuest ==
    /\ lane = 0 /\ kept.game # "none" /\ ~kept.whole
    /\ game' = kept.game /\ UNCHANGED <<lane, nmi, kept>>
    /\ \A s \in Lanes : job'[s] = NoJob \/ job'[s].wait > 0
    /\ cold' \subseteq Lanes

Next ==
    \/ lane = 0 /\ PowerOff
    \/ Begin \/ Pass \/ Await \/ Resume \/ Finish \/ End \/ Keep \/ Recall \/ RecallGuest
    \/ \E s \in Lanes, task \in Tasks : Add(s, task)
    \/ \E y \in UNION {Yields[task] : task \in DOMAIN Yields} : Yield(y)

slotVars == <<game, job, lane, nmi, cold, kept>>
Spec == Start /\ [][Next]_slotVars
===============================================================================
