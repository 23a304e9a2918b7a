------------------------------ MODULE TaskFibers ------------------------------
(***************************************************************************)
(* The host's scheduler of the game's tasks (src/mmx_rtl.c, with the yield *)
(* primitives of src/gen_stubs.c), the order of a frame, and what the game *)
(* chunk of a state file carries.  A task that yields leaves its C stack   *)
(* in a fiber and its registers in the slot's record; a file can hold the  *)
(* registers and the guest's address, not the stack.                       *)
(***************************************************************************)
EXTENDS Integers

CONSTANTS
    LaneCount,          \* task slots (7 in the code)
    Tasks, BootTask,    \* entry addresses of tasks; the one I_RESET installs
    Scratch,            \* $32/$33 of a slot that was dispatched
    Yields              \* of each task: where it yields, and for how many frames

Lanes == 1 .. LaneCount
NoTask == "none"
Site == -1                  \* the dispatch site; 0 is the entry
ASSUME FiberAssumption ==
    /\ LaneCount \in Nat \ {0} /\ BootTask \in Tasks
    /\ Scratch \notin Tasks /\ "none" \notin Tasks \cup {Scratch} /\ "host" \notin Tasks \cup {Scratch}
    /\ \A task \in Tasks \cup {Scratch} :
          Yields[task] \subseteq [at : (Nat \ {0}) \cup {Site}, wait : 0 .. 255]

Point(task, at) == [task |-> task, at |-> at]
NoPoint == Point(NoTask, 0)

(* The registers: whose they are, where, and how many return addresses of   *)
(* calls that yielded are still on their stack.                             *)
Regs(point, frames) == [task |-> point.task, at |-> point.at, frames |-> frames]
NoRegs == Regs(NoPoint, 0)
HostRegs == Regs(Point("host", 0), 0)

(* The guest's bytes of a slot, and what the host keeps beside them: the    *)
(* fiber (the point its stack stands at), g_slot_fiber_pc, _prev_state,     *)
(* _saved_state, _resume and _resume_pending.  lost is history: a file was  *)
(* written while the slot waited to be resumed, and does not say so.        *)
EmptySlot == [st |-> "empty", cd |-> 0, hand |-> Scratch]
NoHost == [fiber |-> NoPoint, pc |-> NoTask, prev |-> "empty", saved |-> NoRegs,
           resume |-> NoPoint, pending |-> FALSE, lost |-> FALSE]
ColdGuest == [s \in Lanes |-> EmptySlot]
BootGuest == [ColdGuest EXCEPT ![1] = [st |-> "fresh", cd |-> 0, hand |-> BootTask]]
NoHosts == [s \in Lanes |-> NoHost]

VARIABLES
    cells, hosts,
    cpu,                \* g_cpu
    ticking, lane,      \* between frames, walking the slots, in a task
    gate,               \* g_did_reset and g_first_frame_done
    guest,              \* history: how far the guest has come
    nmiRan,             \* the NMI handler ran in this frame
    stateFile

fiberVars == <<cells, hosts, cpu, ticking, lane, gate, guest, nmiRan, stateFile>>
frameVars == <<gate, guest, nmiRan, stateFile>>

\* Files of older versions: without a chunk, and with one that ends after the slots.
NoFile == [form |-> "none", cells |-> ColdGuest, hosts |-> NoHosts,
           gate |-> [reset |-> FALSE, first |-> FALSE], guest |-> "off"]
OldCells == [ColdGuest EXCEPT ![1] = [st |-> "delayed", cd |-> 1, hand |-> Scratch]]
OldHosts ==
    [NoHosts EXCEPT ![1] = [NoHost EXCEPT !.fiber = Point(BootTask, 1), !.pc = BootTask,
        !.prev = "delayed", !.saved = Regs(Point(BootTask, 1), 1),
        !.resume = Point(BootTask, 1)]]
OldFile == [form |-> "guest", cells |-> OldCells, hosts |-> NoHosts,
            gate |-> [reset |-> TRUE, first |-> TRUE], guest |-> "played"]
ShortFile == [OldFile EXCEPT !.form = "short", !.hosts = OldHosts,
                             !.gate = [reset |-> FALSE, first |-> FALSE]]

FibersInit ==
    /\ cells = ColdGuest /\ hosts = NoHosts /\ cpu = HostRegs
    /\ ticking = "idle" /\ lane = 0
    /\ gate = [reset |-> FALSE, first |-> FALSE] /\ guest = "off" /\ nmiRan = FALSE
    /\ stateFile \in {NoFile, OldFile, ShortFile}

-----------------------------------------------------------------------------
(* One frame *)

(* RunOneFrameOfGame up to the scheduler: I_RESET once, the NMI after the   *)
(* tasks' first frame, and the early returns of the armor's, the boss       *)
(* rush's, Zero's, the team's and the weapons' frame ticks, which leave the *)
(* tasks and g_first_frame_done alone.                                      *)
FrameStart(held) ==
    /\ ticking = "idle"
    /\ IF gate.reset
       THEN UNCHANGED <<cells, gate, guest>>
       ELSE cells' = BootGuest /\ gate' = [gate EXCEPT !.reset = TRUE] /\ guest' = "booted"
    /\ nmiRan' = gate.first
    /\ IF held THEN UNCHANGED <<ticking, lane>> ELSE ticking' = "walk" /\ lane' = 1
    /\ UNCHANGED <<hosts, cpu, stateFile>>

\* The end of the tick and of the frame.
FrameEnd ==
    /\ ticking = "walk" /\ lane = LaneCount + 1
    /\ ticking' = "idle" /\ lane' = 0
    /\ gate' = [gate EXCEPT !.first = TRUE] /\ guest' = "played"
    /\ UNCHANGED <<cells, hosts, cpu, nmiRan, stateFile>>

(* MmxSchedulerTick at a slot: empty or running, delayed, or to be run.     *)
Walking == ticking = "walk" /\ lane \in Lanes
SlotPassed ==
    /\ Walking /\ cells[lane].st \in {"empty", "running"}
    /\ hosts' = [hosts EXCEPT ![lane].prev = cells[lane].st] /\ lane' = lane + 1
    /\ UNCHANGED <<cells, cpu, ticking, frameVars>>
SlotCounted ==
    /\ Walking /\ cells[lane].st = "delayed" /\ cells[lane].cd # 1
    /\ cells' = [cells EXCEPT ![lane].cd = (@ - 1) % 256]
    /\ hosts' = [hosts EXCEPT ![lane].prev = "delayed"] /\ lane' = lane + 1
    /\ UNCHANGED <<cpu, ticking, frameVars>>

\* Mutant for TasksAsPromised: a fresh install keeps what the last task left to resume.
InstalledKeepsResume(cell, h) ==
    IF cell.st = "fresh" /\ h.prev # "fresh"
    THEN [h EXCEPT !.fiber = NoPoint, !.pc = cell.hand, !.saved = NoRegs]
    ELSE h

\* What a fresh install forgets of the slot's last task, and reads of the new one.
Installed(cell, h) ==
    IF cell.st = "fresh" /\ h.prev # "fresh"
    THEN [NoHost EXCEPT !.prev = h.prev, !.pc = cell.hand]
    ELSE h
\* The slot's fiber, made when there is none: a resumption, or a start at the entry.
WithFiber(cell, h) ==
    IF h.fiber # NoPoint THEN h
    ELSE LET pc == IF h.pc = NoTask THEN cell.hand ELSE h.pc
             resuming == h.pending /\ h.resume # NoPoint
         IN  [h EXCEPT !.pc = pc, !.pending = @ /\ ~resuming,
                       !.fiber = IF resuming THEN h.resume ELSE Point(pc, 0)]
\* Its registers: a slot without any starts on the stack that $36/$37 names.
WithRegs(h) == IF h.saved = NoRegs THEN [h EXCEPT !.saved = Regs(h.fiber, 0)] ELSE h
\* The primitive that yielded in a live fiber returns and pops the frame of its call.
Returned(h) == [h.saved EXCEPT !.frames = IF h.fiber.at \in {0, Site} THEN @ ELSE @ - 1]

SlotRun ==
    /\ Walking
    /\ \/ cells[lane].st = "fresh"
       \/ cells[lane].st = "delayed" /\ cells[lane].cd = 1
    /\ LET h == Installed(cells[lane], hosts[lane])
           ready == WithRegs(WithFiber(cells[lane], h))
       IN  /\ hosts' = [hosts EXCEPT ![lane] = ready]
           /\ cpu' = IF h.fiber # NoPoint THEN Returned(ready) ELSE ready.saved
    /\ cells' = [cells EXCEPT ![lane] = [st |-> "running", cd |-> 0, hand |-> Scratch]]
    /\ ticking' = "task"
    /\ UNCHANGED <<lane, frameVars>>

-----------------------------------------------------------------------------
(* The running task *)

Running == ticking = "task"
Back == ticking' = "walk" /\ lane' = lane + 1 /\ cpu' = HostRegs

\* $00:813B, external: a task installs another in some other slot.
TaskInstalls(s, task) ==
    /\ Running /\ s # lane
    /\ cells' = [cells EXCEPT ![s] = [st |-> "fresh", cd |-> 0, hand |-> task]]
    /\ UNCHANGED <<hosts, cpu, ticking, lane, frameVars>>

(* mmx_host_yield at a point: the registers are kept with the frame on the  *)
(* stack, and the same point is kept for a file with the frame consumed.    *)
(* The dispatch site has no frame, and nothing a file could resume.         *)
Suspended(h, at) ==
    [h EXCEPT !.fiber.at = at, !.prev = "delayed", !.lost = FALSE,
              !.saved = Regs(Point(cpu.task, at), IF at = Site THEN 0 ELSE 1),
              !.resume = IF at = Site THEN NoPoint ELSE Point(h.fiber.task, at)]
(* HleMmxYieldOneFrame, NFrames (no frames are one frame), Vblank and       *)
(* SchedulerDispatch, and the end of the slot's turn.                      *)
TaskYields(y) ==
    /\ Running /\ y \in Yields[hosts[lane].fiber.task]
    /\ cells' = [cells EXCEPT ![lane].st = "delayed",
                              ![lane].cd = IF y.wait = 0 THEN 1 ELSE y.wait]
    /\ hosts' = [hosts EXCEPT ![lane] = Suspended(@, y.at)]
    /\ Back /\ UNCHANGED frameVars

\* The task returns, or jumps to HleMmxTaskDie: the slot and its record are emptied.
TaskEnds ==
    /\ Running
    /\ cells' = [cells EXCEPT ![lane].st = "empty"]
    /\ hosts' = [hosts EXCEPT ![lane] = NoHost]
    /\ Back /\ UNCHANGED frameVars

-----------------------------------------------------------------------------
(* State files and resets, between frames *)

Between == ticking = "idle"

(* MmxStateSaveExtra.  The file tells which slots have a fiber, and not     *)
(* which of the others a load has left to be resumed.                       *)
Stored(h) == [h EXCEPT !.pending = FALSE, !.lost = @ \/ h.pending]
StateSave ==
    /\ Between
    /\ stateFile' = [form |-> "whole", cells |-> cells, gate |-> gate, guest |-> guest,
                     hosts |-> [s \in Lanes |-> Stored(hosts[s])]]
    /\ UNCHANGED <<cells, hosts, cpu, ticking, lane, gate, guest, nmiRan>>

\* Mutant for RunsOwn: the slot's registers stay those of the call that yielded.
RebuiltInCall(h) ==
    LET pending == h.fiber # NoPoint /\ h.resume # NoPoint
    IN  [h EXCEPT !.fiber = NoPoint, !.pending = pending]

(* MmxStateLoadExtra and MmxOnStateLoaded: every fiber goes, and a slot that *)
(* had one and a point to resume at waits to be resumed there.  A file that  *)
(* ends after the slots says nothing of the gate.                            *)
Rebuilt(h) ==
    LET pending == h.fiber # NoPoint /\ h.resume # NoPoint
    IN  [h EXCEPT !.fiber = NoPoint, !.pending = pending,
                  !.saved = IF pending THEN Regs(h.resume, 0) ELSE @]
Booted == [reset |-> TRUE, first |-> TRUE]
StateLoad ==
    /\ Between /\ stateFile.form \in {"whole", "short"}
    /\ cells' = stateFile.cells /\ guest' = stateFile.guest
    /\ hosts' = [s \in Lanes |-> Rebuilt(stateFile.hosts[s])]
    /\ gate' = IF stateFile.form = "whole" THEN stateFile.gate ELSE Booted
    /\ UNCHANGED <<cpu, ticking, lane, nmiRan, stateFile>>
\* Without a chunk that holds, the guest is restored under the fibers of now.
StateLoadOld ==
    /\ Between /\ stateFile.form = "guest"
    /\ cells' = stateFile.cells /\ guest' = stateFile.guest
    /\ gate' = Booted
    /\ UNCHANGED <<hosts, cpu, ticking, lane, nmiRan, stateFile>>

\* MmxOnHardwareReset, after the machine was reset.
HardwareReset ==
    /\ Between
    /\ cells' = ColdGuest /\ guest' = "off" /\ nmiRan' = FALSE
    /\ hosts' = NoHosts
    /\ gate' = [reset |-> FALSE, first |-> FALSE]
    /\ UNCHANGED <<cpu, ticking, lane, stateFile>>
\* The process ends and another is started.
Relaunch ==
    /\ Between
    /\ cells' = ColdGuest /\ hosts' = NoHosts /\ cpu' = HostRegs
    /\ gate' = [reset |-> FALSE, first |-> FALSE] /\ guest' = "off" /\ nmiRan' = FALSE
    /\ UNCHANGED <<ticking, lane, stateFile>>

FibersNext ==
    \/ \E held \in BOOLEAN : FrameStart(held)
    \/ FrameEnd \/ SlotPassed \/ SlotCounted \/ SlotRun
    \/ \E s \in Lanes, task \in Tasks : TaskInstalls(s, task)
    \/ \E y \in UNION {Yields[task] : task \in DOMAIN Yields} : TaskYields(y)
    \/ TaskEnds
    \/ StateSave \/ StateLoad \/ StateLoadOld \/ HardwareReset \/ Relaunch

FibersSpec == FibersInit /\ [][FibersNext]_fiberVars

-----------------------------------------------------------------------------
(* A task that runs has its own registers at its own point, and the frame of *)
(* the call that yielded was popped once: whatever slots, frames, files and  *)
(* installs came between.  A task that a load starts anew at its entry has   *)
(* the registers of the dispatch site, or of the point it has lost in a file *)
(* that was written while it waited to be resumed there.                     *)
RunsOwn ==
    LET h == hosts[lane]
    IN  Running =>
          /\ cpu.task = h.fiber.task /\ cpu.frames = 0
          /\ cpu.at = h.fiber.at \/ (h.fiber.at = 0 /\ (cpu.at = Site \/ h.lost))

\* The job of a slot, from the guest's bytes and the host's record.
Standing(cell, h) ==
    LET point == IF h.fiber # NoPoint THEN h.fiber
                 ELSE IF h.pending THEN h.resume
                 ELSE Point(IF h.pc = NoTask THEN cell.hand ELSE h.pc, 0)
    IN  CASE cell.st = "empty" -> [task |-> NoTask, at |-> 0, wait |-> 0]
          [] cell.st = "fresh" -> [task |-> cell.hand, at |-> 0, wait |-> 1]
          [] OTHER -> [task |-> point.task, at |-> point.at, wait |-> cell.cd]
jobs == [s \in Lanes |-> Standing(cells[s], hosts[s])]
filed == [game |-> IF stateFile.form = "none" THEN "none" ELSE stateFile.guest,
          whole |-> stateFile.form # "guest",
          jobs |-> [s \in Lanes |-> Standing(stateFile.cells[s], stateFile.hosts[s])]]
Waits(cell, h) == cell.st = "delayed" /\ h.pending
waiting == {s \in Lanes : Waits(cells[s], hosts[s])}
Promise == INSTANCE TaskSlots WITH
    game <- guest, nmi <- nmiRan, job <- jobs, cold <- waiting, kept <- filed
(* The fibers keep the tasks' promise (TaskSlots): every task goes on where  *)
(* it yielded, when it asked to, through saves, loads and installs; a reset  *)
(* or a new process boots, and nothing else does.  Only a file that is       *)
(* written between a load and the next turn of a loaded task loses its point.*)
TasksAsPromised ==
    Promise!Start /\ [][UNCHANGED fiberVars \/ Promise!Next]_(Promise!slotVars)
===============================================================================
