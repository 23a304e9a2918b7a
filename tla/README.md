# Mega Man X recompilation: formal models

The repository is a static recompilation of Mega Man X for the SNES. The 65816
code of the game has become C (generated, not part of the repository), a
runtime library emulates the rest of the console, and the files under `src/`
are the *host*: they run the guest one frame at a time and change what it does
by hooks, calls that run in front of guest instructions. Nearly everything the
fork adds, a boss rush, a second player, Zero and his saber, the weapons of X2
and X3, a wide screen, netplay and replays, is host state that must stay in
agreement with guest RAM it does not own. That agreement is what the modules
here are about.

`PROJECT.json` lists components, runs, mutants, hazards and theorems in machine
readable form and maps each definition to the lines it models. Paths below are
relative to the repository; `src/x.c` is the host's file.

## 1. Inventory

### 1.1 How a frame runs

`RunOneFrameOfGame` (`src/mmx_rtl.c` 1080-1155) calls, in this order:

    MmxArmorTick  MmxBossRushFrame  [a finished rush returns here]
    MmxKncBugfixTick  MmxCoopPoll  MmxZeroSwapTick
    MmxCoopFrameTick  [true: the guest does not run]
    the guest's scheduler (its tasks are fibers, yield primitives in gen_stubs.c)
    MmxZeroHealthSync  MmxCoopLiftCarry  MmxSaberSyncPriority  MmxCoopCapture
    MmxBossRushAfterFrame

While the scheduler runs, hooks are called from inside guest code. The guest is
one thread; the interleaving that matters is the one between the host's
handlers, the hooks and the guest's own updates of its objects, in an order the
game decides. A frame may also end inside a guest routine: the scheduler yields
at a frame boundary, and an interpreter fallback has a deadline
(`src/mmx_coop.h` 29-30). Host state that is half way through an exchange with
guest RAM then has to survive into the next frame, and into a save state.

Save states, rollback netplay and diagnostic replays copy the host's state
structures whole (`mmx_rtl.c`, `MmxSaveLoad`), so every structure must be valid
at every frame boundary, not only when it is at rest.

### 1.2 Components

| component | state | operations | what makes it correct |
|---|---|---|---|
| Boss rush, rules (`mmx_boss_rush.c`) | two seats, queue, counters, object owners, pending call | next boss, assign, defeat, valid, set | no duplicate boss, no starvation, valid states only |
| Boss rush, encounter (`mmx_boss_rush_runtime.c`) | the above, guest pools, scene globals | Frame, AfterFrame, boss, actor and hit hooks, load and prepare | ownership, one count and one pickup per defeat, isolated globals, the run ends |
| Boss rush, sound (`mmx_boss_rush_audio.c`) | per boss command history | filters SPC commands of two bosses | the music is not restarted, no lost effect |
| Boss rush, HUD, scores (`mmx_boss_rush_draw.c`, `_score.cpp`) | best-of table | draw, record | each finished run is recorded once |
| Co-op, team (`mmx_coop.c`) | players, anchor, current, scene, enrolment, holds, menu owner | FrameTick, scene, join, respawn, learner, controller, contact, death, camera, door, menu hooks | the stage is never lost while someone lives, and never empty; the guest always runs again |
| Co-op, projection (`mmx_coop.c`) | two stored bodies, the live one, nested passes, object owners | Select, Capture, object, contact, platform, pickup, lift hooks, ghosts | no lost body update; every pass returns to the driver |
| Co-op, own cameras (`mmx_coop_view.c`) | a camera per seat | tick, draw, actor visibility | each seat sees its own camera |
| Co-op trace (`mmx_coop_trace.c`) | ring of rows | record, dump | diagnostics only |
| Zero (`mmx_zero.c`) | character, swap phase, health, buster queue | swap, health sync, refill, weapon energy | one health bar through a swap, energy kept per character |
| Saber (`src/saber/`) | combo windows, priority tokens, wave slots, input latch, tuning | pre/post player, reserve, publish, frame advance, render | a slash is sent once and released; a token names its object still |
| X2/X3 weapons (`mmx_weapons.c`, `mmx_weapon_combat.c`, `mmx_weapon_*.inc`) | energy, shot records beside the guest's slots, victims | fire, update, hit, retire, stop time, change weapon | records, slots and the guest's count agree; no enemy is held twice, and no hold lasts for ever |
| Armor parts (`mmx_armor.c`, `.inc`) | owned parts, timers | tick, hooks, launcher state | parts granted are kept, timers bounded |
| Renderer (`mmx_renderer*.c`, `mmx_row_plan.inc`, `mmx_render_assets.c`) | captured PPU rows, plans | capture, plan, rasterise | the plan draws what the PPU would |
| Wide screen (`mmx_wide_policy.c`, `mmx_wide_preview.c`) | policy per scene, preview tiles | decide margin, spawn and cull | the guest sees the native window |
| Replay (`mmx_replay.c`) | segments, snapshots, history budget, playback cursor | begin, record, snapshot, evict, finish, play | a segment replays from its own start; recording never stops the game |
| Netplay (`mmx_netplay.c`) | temporary mod plan, options | create, validate, mode change, fill launch | both sides run one plan; it is taken back on leaving |
| Password save (`mmx_password_save.cpp`, plugin) | last password, active flag | open, capture, write | the file on disk is always a whole record |
| MSU-1 (`mods/mmx_msu1_plugin.c`) | track, fade, volumes | filter SPC commands, tick | a fade ends; silence is not kept for ever |
| SPC player (`mmx_spc_player.c`) | upload state | APU handshake | an upload ends |
| Startup, main loop, display, volume (`main.c`, `mmx_startup.c`, `mmx_display.c`, `platform/`) | window, log, pacing | init, run, present | outside the game's state |
| Runtime glue (`mmx_rtl.c`, `gen_stubs.c`, `mmx_cpu_infra.c`, `setup_host.c`, `mmx_00.c`, `variables.h`) | fibers, save-state layout | frame, reset, save and load, yields | the order of 1.1; versioned state tails |
| KNC bug fix (`mmx_knc_bugfix.c`) | a button sequence per seat, pending phase | tick | active only after the full sequence and a menu |
| Overlay, diagnostics, small plugins | flags | draw, toggle | no effect on the guest |
| Source assets (`mmx_source_assets.cpp`) | extracted ROM data | validate, extract | build-time data |
| Tools, generated and vendored (`tools/`, `recomp/`, `symbols/`, `third_party/`) | - | - | not part of the running program |

### 1.3 Interactions that are hard

* **Calls into the guest.** A hook installs host state into guest RAM, lets a
  guest routine run, and takes the result back when the routine returns (boss
  globals, the partner's body). Anything in between, a frame boundary, a reset,
  the end of an object, must leave both sides consistent.
* **Object slots.** The host names guest objects by address. The guest frees
  and reuses slots at will; a name that is not dropped in time points to
  somebody else's object.
* **Two reporters of one event.** A boss's death is seen by a hook and by the
  scan after the frame; a player's death by a native routine, by the hook in
  front of it and by the frame tick. It must count once.
* **Modes that hold the guest.** Teleports, scenes, menus and refills stop the
  guest, a part of it or one player. A condition that stops the tick that would
  end it stops the game for ever.
* **Old snapshots.** Handlers copy a body, run guest code and write the copy
  back; what the code changed in the meantime is lost if the copy is of the
  wrong seat or too old.

`PROJECT.json` lists these per line, under "hazards", with the properties that
would see each one go wrong and, where there is none yet, the reason.

## 2. Modules

    BossDraw             the queue's operators (pure)
     |-- BossQueue       abstract specification of the draws
     |     `-- MCBossQueue      with waiting times
     |-- BossRush        the encounter; INSTANCEs BossQueue for the refinement
     |     |-- MCBossRush
     |     `-- BossRush_proof
     `-- BossDraw_proof  lemmas about the operators
    CoopTeam             the two players of a stage
     `-- CoopTeam_proof
    CoopPasses           two bodies in one guest: projection, queries, ghosts
     `-- CoopPasses_proof    what each body is; who is projected, remembered and asked
    SaberSlash           swings, finishers and waves on eight slots
     |-- MCSaberSlash
     `-- SaberSlash_proof
    SaberPriority        which hit breaks an enemy's invincibility
    HunterSwap           X and Zero in one body (pure)
     `-- HunterParts     the armors of X2 and X3, and the frame of both
           `-- HunterParts_proof
    WeaponPool           slots, records and holds of the imported weapons
     `-- WeaponTicks     the weapons that fly and break up
           `-- WeaponHolds     the weapons that hold something
                 `-- WeaponShots    a frame of them all
                       `-- WeaponShots_proof
    TaskSlots            what the task scheduler promises
     `-- TaskFibers      the host's fibers and state files; INSTANCEs TaskSlots
    PasswordFile ScoreFile Msu1Music ModPlan Replay    services of the host
     `-- HostServices    these, TaskFibers, WeaponShots, HunterParts,
           |             SaberPriority and MCBossQueue, one at a time
           `-- HostServices_proof    the services, the fibers, the queue, the priorities

Mutants, the code with one plausible slip each, stand in the modules just
before the definition they replace and are named for the slip.

### 2.1 BossDraw, BossQueue: the shuffled queue

`NextBoss(queue, present)` is `MmxBossRushNextBoss`: the first queued boss that
is not on stage leaves the queue; if there is none, rounds of shuffled bosses
are appended, those on stage at the end, and the search starts again. It is
written as the *set* of results over all shuffles, so a property over it holds
for every random seed. `BossQueue` is what a reader would expect of two seats
that draw from such a queue, `QSpec`; `QLossySpec` adds the one thing the
encounter does beyond it (finding 1).

### 2.2 BossRush: the encounter

State: the fields of `MmxBossRushState` by their names; of guest RAM the object
pools (free, a boss's entrance, fight or death, or something else), who wrote
the scene globals last, the players' death state and the scene. `pc` orders the
host's handlers and the guest's part of a frame: `MmxBossRushFrame` has a
cleanup and a spawn step per seat, `MmxBossRushAfterFrame` is one action, and
between them the guest takes any number of steps. A pre-opcode hook turns an
object's update into a call (`CallEnter`, `CallReturn`); what the guest may do
inside (allocate, end the object, write the globals, advance the body, run the
death entry, hurt a player) are actions of their own and marked external where
the code is the game's. History: `spawner`, the seat whose call really allocated
an object; `owed`, the pickups a defeat still owes; `touched` and `crossed`, what
the host did in the gap of a call that a frame's end had cut.

A frame may end inside the call of any object in `Slow`: the scheduler's deadline
cuts it and the call goes on frames later (`src/mmx_coop.h` 29-30,
`docs/boss-rush.md` 133). `MmxBossRushFrame` and `MmxBossRushAfterFrame` run in
such a gap, and what they do there the return of the call does not know:

* `CallReturn` credits to its boss every slot that is live now and was not when
  the call began, and leaves the others their owner. A slot the host erased, filled
  with a pickup or with another boss in the gap is `touched`: it may be credited
  to the wrong seat until it is free at a return or written between calls;
* a boss spawned while the other's call is suspended starts with a copy of the
  scene globals that are installed, which are the other's; and a cleanup that
  comes due in the seat's own call writes the pickup and then has its state
  refused (`ValidCall`), so that the pickup is written again in the next frame.
  Either seat is `crossed` until it is given its next boss.

The properties exempt exactly the slots in `touched` and the seats in `crossed`;
everything else they claim of interrupted calls too.

`BodyVanishes`: a body may end its own life before the host looks (the
`!r[b->object]` test of `MmxBossRushAfterFrame`). Counters that the code lets
saturate or wrap at `UINT32_MAX` do so at `CounterMax`.

Not in the module: the menu row and its palette, the input gate during the
results, music commands, HUD. `Load` and `Prepare` are single actions; their
guest RAM writes (camera, equipment, teleport) are abstracted away.

### 2.3 CoopTeam: two players

State: the fields of `MmxCoopState` that decide who is there, who drives and
who is hidden, by their names, and of guest RAM the stage mode, scripts, the
body locked by a script, boss fights, refills, an occupied ride armor and the
spare lives. A body is its status, HP, action stage and teleport phase. `pc`
walks through one frame exactly as `MmxCoopPoll` and `MmxCoopFrameTick` do,
with their early returns: poll, stage, owner (rider and survivor repair),
learner, scene, transport, one step per seat of `join_tick`, weapons, and then
the guest, whose controller hook runs the driver's pass and the partner's. With
"stop" in `World` a time stop may end a frame of play at the weapons' step, in
front of the guest (616-634); which frames those are is `WeaponTicks`' question.
The rest of the guest's frame (`world`) is any number of world events: hits and
crushes, pits, drains, boarding and leaving an armor, doors, Storm Eagle's
lift (which asks a learner too, as the doors do not), scripts, a farewell, bosses, 1-ups, refills, the menu, the end of the stage.

`World` names the events a run admits, so that runs can take those that make
their question interesting. Names follow the code; `docs/coop-port.md` explains
the terms.

Abstractions, each named in the module:

* positions, camera and terrain are chosen anew: `low` and `far`, which seats
  are below the shared screen or far from a capsule, are arbitrary, but only
  after the guest has moved since the last landing and never during a teleport;
* a landing may or may not exist whenever the code looks for one;
* a stage clears only while nobody is being teleported;
* not modelled: the repairs of old saves
  and of Penguin's script (584-600), a partner parked while a sub tank fills,
  and the boss rush refusing respawns. Passes over the two bodies inside the
  guest's frame are the next module.

### 2.4 CoopPasses: two bodies in one guest

The guest knows one body. `team` is `MmxCoopState`'s stored bodies, the live
body, the projected seat and the driver. A frame is the host's tick and then
guest routines in any order: the controller hook with its two passes, and the
hooks of every routine that asks something of "the" body: objects, hostile
shots, contacts, solids, platforms, lasers, chasers, puddles, Storm Eagle's
lift, items, armors and doors. `query` is the question in flight with the pass
it is in; `ghost` a pass that is run on copies and rolled back; `claim` the
seat an object remembers between frames (who touched the item, whom the slime
holds, whom the laser aims at). `Casts` lists the groups of routines that may
meet in a behavior, `Cameras` and `Learners` the modes.

History: `truth`, the body each seat would have if every write had gone to
memory of its own; `asked` and `said`, who was asked and what he answered;
`got`, whom the object really took.

Simplifications: registers and stack depth, dash effects and the amounts of
refills are left out; "nearest" is chosen freely; the ride cart behaves like
the lift; Vile's farewell, a seat that starts a stage as the driver of the
other, and parking are in CoopTeam or left out; the ghosts of currents, of the
eagle's wind and of D-Rex have the object ghost's shape and are not repeated; a
chaser that holds somebody asks nobody; a sensor asks once an update, and the
turret's copy of the sensor's seat is the sensor's; an item lets go at the end
of its update; the puddle's pin holds from the next update on.

### 2.5 SaberSlash: swings and waves

The eight projectile slots of the guest are shared by Zero's shots, the
finisher's hitbox, Saber's swings and its waves. A frame is: the hook at
`$81:815C` (`pre_player`, then `MmxZeroPlayerTick`), the native player, the
hook at `$81:8165` (`player_end`), the projectiles, the contacts; `pc` orders
them. The hooks are operators on the record `Frame`, one per function, applied
in the order of the calls. `act` merges the native action `$0BAA` with the
modes that decide whether the hooks run.

What a slot holds is what its bytes 0 and 1 and the tag say of it. A *held* slot has byte 0
clear and byte 1 set; that no native allocator takes one is an assumption about
the generated code. Loads restore guest and host parts in the code's order.

Not modelled: the Modern behavior, the collision windows' geometry, facing,
animation, sounds and drawing. Priority tokens are section 2.9.

### 2.6 The services of the host

`HostServices` puts five small machines, the scheduler (section 2.10), the
imported weapons, the hunters, Saber's priorities and the boss queue side by side: a behavior moves one of them
(`focus`), since they share no state.

* `PasswordFile`: open, prefill, capture, close. Writing is: truncate the
  temporary file, write, look for the old file, copy it over the backup, rename.
  Each step may fail, or the process may stop after it. A rename is atomic.
* `ScoreFile`: the table in memory is raised first, the file is replaced
  without a backup, and a rewound run does not lower it.
* `Msu1Music`: songs, fades, ducking and resuming as the SPC commands ask, with
  the real volumes (80, ducked 32).
* `ModPlan`: the temporary selection of a netplay room over the player's own:
  every subset of packages installed, guarded edits, the option kept in two
  packages, mode changes that come twice. The mod runtime is external and
  modelled from its uses; a `begin_temporary` that fails is not.
* `Replay`: the recorder: segments, snapshots, discontinuities, eviction, and
  writer calls any of which may fail (`stop`). `PlaysOn` is what playback
  accepts. Sidecar files, the state machine of the playback and the writer's
  queue are not modelled.

### 2.7 The weapons of X2 and X3

The guest's eight projectile slots (`actors`) have a record each on the host's
side (`shots`); the guest counts its shots in `$0BDD` (`count`). `WeaponPool`
has what all weapons share: retiring a shot with all it takes along, adding a
child in the lowest free slot, and who holds which enemy. `WeaponTicks` has one
operator for each weapon that only flies, with a table of its forms: what a
phase, the terrain, a contact or the end of the view make of each. `WeaponHolds`
has the four that hold something: a crystal its enemy or time, a bomb its host
or (charged) several through cursors that search in turn, a well all in view, a
chain a pickup. `WeaponShots` is the frame: `MmxWeaponsFrameTick` may keep it
back, then the player's tick, the eight slots in order, and the world, which
kills and replaces enemies, hits them, lets the partner hold some, changes the
stage, lets the player fall. The weapon may be changed once in a behavior, from
the menu at any time or by the shoulder buttons.

Left to chance: energy (any spending may fail), terrain, contacts, the end of a
shot out of view; in a tick either all enemies are in view or none. The phases
of an animation are one form, a fading picture lasts one tick. An enemy in its
death animation counts as gone, and a record of an enemy compares slot and kind
as the code does, so a successor of the same kind is taken for the first. Not in
the modules: the pause branch of the time stop's clock (`mmx_weapon_crystal.inc` 28,
which stops that clock while the game is paused), damage, weaknesses, the particles that share the victims' records,
the rush bosses that neither well nor bomb may take, and drawing.

Seen while modelling: a shot retired with a new stage releases what stands in
the slot it names *now* (`retire` runs on the new stage's RAM); the pieces of a
silk ball that has split may split again at their next contact; while the first
cursor of a charged bomb is gone the turn to search stays with the lowest slot.

### 2.8 HunterSwap, HunterParts: X, Zero and the armors

The guest has one player object; `mmx_zero.c` lets two hunters live in it. Every
routine is an operator from a moment `g` to the moment it leaves, in the order
of the calls: `g.world` is the mode of the game, `g.body` the guest's object
(action, health, gravity, the pretended ground), `g.zero` the host's record with
the health each hunter keeps, the phase of an exchange, the slide under low
passages and the moves in the air. `HunterParts` adds `g.armor`, the four parts
of an X2 or X3 armor (buster with its stored and crossing shots, dashes, barrier
and healing, Giga crash, Hyper shots, X3's map), and the slots they put their
shots in. A frame is the handlers in front of the scheduler (`MmxArmorTick`,
`MmxZeroSwapTick`), the player's update between its hooks, the eight slots in
order, and the guest: hits, contacts, scenes, doors, passages, pauses, the menu
and the stages. `kept` is history: the health each hunter should have.

Left out: Zero's burst and slash, and `MmxZeroCancel` for them (SaberSlash has
them), three of the busy flags of a scene, the tracer of X2 (drawing), the sub
tank's refill, places and speeds. Animations are what they trigger.

Seen while modelling: a Giga crash of X2 asked for in phases 1 and 2 of an
exchange is cut off at phase 3: its meter is spent, nothing is hit and the
gravity it took stays taken (`world.cut` marks such a behavior for
`PartsGiveBack`; compare `docs/armor-backport.md` 183-185). X's burst and stored
shot neither stop an exchange nor are cancelled by it. Records of armor shots
that outlive the exchange can merge into a cross while Zero plays. The children
of a lead shot that a contact has removed attach themselves to a new lead in the
same slot.

### 2.9 SaberPriority: who breaks an invincibility

`pri` is `MmxSaberPriorityState`: the last accepted hit on each enemy, its
generation, the origin of each projectile slot as seen between the hooks around
the player, and the token that the response hook issues and the damage hook
consumes. `fight` is the guest: enemies with kind and state, slots, the swing,
the burst. A collision is two steps, `Responds` and then the damage (`Hits`) or
nothing (`StrikeDropped`), for the guest decides in between. History: `mark`, the
hits the guest accepted and their age, `verdict`, what the last collision got
and what it was due by them.

An enemy that is replaced by its like between two looks of the host is the same
enemy for it, and for `mark`. Ages stand for frame numbers, so the wrap of the
32 bit frame counter is left out; generations wrap at `Generations`. A stage has
been played, so that the player's hook has run in it, before the next one
begins (`Advances`): with two changes of the stage and no player in between,
the records of the first would count again in it. Left out: amounts of damage,
the rows of the tables, Penguin's timer. Seen while modelling: a swing's
repeated contact that does no damage still renews the hit it follows; a hit by a
bypass does not set the bit that keeps the swing from hitting again; a shot made
in a frame without Saber's hooks has no class and neither earns nor grants.

### 2.10 TaskSlots, TaskFibers: the game's tasks

The game is a set of tasks in seven slots. The host has two schedulers for them:
the guest's own loop under the interpreter, which is the default and external
here, and `MmxSchedulerTick`, which runs each task on a fiber
(`SNESRECOMP_EXECUTION_MODE=hle`, deprecated on the Japanese version). `TaskFibers`
is the second. `cells` are the guest's bytes of a slot (state, countdown, and the
address that an install leaves in scratch memory), `hosts` what the host keeps:
the fiber, the cached address, the last state seen, saved registers, a resume
point. A place in a task is a `Point`; registers (`Regs`) say whose they are,
where, and how many return frames of a yield are still on the stack. A frame is
`FrameStart` (the boot, the NMI after the first frame, the early returns of the
features that hold the guest), one step per slot, and the steps of the running
task: yield, install another, end. Between frames a state is saved, a file is
loaded (also one of an older version, without the tasks or without the gate),
the machine is reset, or the process ends and another starts.

`TaskSlots` is what a player of the game relies on, with neither fibers nor
registers: each lane has a job, which goes on where it yielded, after the frames
it asked for; a save keeps the jobs, a load recalls them. A yield at the dispatch
site is the one that starts anew when loaded, as the code's comment says
(`gen_stubs.c` 192-195). Files without tasks restore the guest alone.

Left out: the interpreter that runs a resumed task's tail, the interior of the
guest's registers, the main context's registers, everything the file holds for
the other modules.

A state may be saved at any frame boundary, also between a load and the next run
of a loaded task. Such a file does not say that the task was to be resumed
(`mmx_rtl.c` 416-431 keeps `occupied` from the fiber, which is not made yet): when
it is loaded the task starts at its entry, with the registers of the point it has
lost (675-683, 841). `lost` in a host record is the history of that, `cold` the
same in `TaskSlots`: a save keeps the lanes that are cold as jobs to start anew.
Both properties of the tasks state this exception and nothing wider.

## 3. Runs

Every passing run completes; deadlock is checked everywhere. One mutant per
property is refuted under the run's own configuration.

| run | module, cfg | question |
|---|---|---|
| rush_seats | MCBossRush, RushSeats | Seats, counters, ownership, globals, pickups, results; refinement of the queue |
| rush_liveness | MCBossRush, RushLiveness | Do defeated bosses leave and deaths end the run? With hostile shots and vanishing bodies |
| rush_draw_lost | MCBossRush, RushDraws | finding 1 |
| team_deaths | CoopTeam, TeamDeaths | Deaths, withdrawals, joins, spare lives, capsules, menus and refills with own cameras |
| team_scenes | CoopTeam, TeamScenes | Scripts, doors, farewells, a ride armor, stage clears |
| team_learner | CoopTeam, TeamLearner | A learner plays X on one camera |
| team_live | CoopTeam, TeamLive | One camera; the driver may be hurt in scenes: safety and progress |
| team_held | CoopTeam, TeamHeld | finding 2 |
| coop_passes | CoopPasses | Do bodies, claims and questions survive projection, ghosts, deaths and restarts? |
| saber_slash | MCSaberSlash, SaberSlash | Swings, finishers, waves and shots compete for slots in any rhythm of buttons |
| saber_load | MCSaberSlash, SaberLoad | finding 3 |
| host_services | HostServices | Files, music, selections, recordings, the queue, the sixteen weapons, the hunters with their armors, Saber's priorities and the task scheduler under refusals, crashes, loads and any order |

### 3.1 What the properties say

Queue: `DrawnWithinTwoRounds` (a boss off stage is passed over for fewer than
two rounds of draws). That a draw always yields a boss, whatever the other seat
keeps (`NeverStalls`), and that the queue and the seats hold no boss twice is
proved only.

Encounter. `ValidState`, every state passes `MmxBossRushValidState`, so the
result of `MmxBossRushSetState` the callers ignore is a success, but for a
pending call. `OwnershipFaithful`, the owner table says who allocated each
object, and nothing of a boss outlives its cleanup (`NoOrphans`).
`DefeatsSettled`, each boss counts once, whichever of the two paths sees its
death (`DefeatsCounted`), and pays one pickup, also when the pool is full
(`PickupOwed`). `GlobalsIsolated`, a boss
reads only its own globals and the world's return. `TradeKillsCount`, a boss
killed in the frame of the last player's death counts. `DrawsAsPromised`,
refinement. `DyingCleared`, `DeathsFinish`, progress.

Team. `TeamMode`, the stage is lost only when nobody who may drive lives.
`NeverEmptyStage`, whenever the guest runs a living seat is on the screen.
`WorldActorLives`, the seat that guest scripts look at is alive if any can be.
`PilotDrives`, the pilot of an armor drives. `LearnerNeverDies`.
`HiddenUntouched`, a hidden partner loses no health. `DyingFinishes`, a death
is not undone. `EntryRebuildsP1`, a stage starts with P1 in P1's seat.
`TeamPlaysOn` (hidden partners return, and a team plays again) and `GuestRuns`,
progress.

Passes. `BodiesKept`, each seat's body is the one the guest wrote for it, and a
rolled back pass leaves nothing behind. `DriverProjected`, outside a query the
driver is projected, but for a driver who has just died. `ClaimsHonoured`, an
object that took somebody serves him. `EveryoneAsked`, a routine that asks both
bodies asks each once and answers for either; with own cameras the platform,
lift and object hooks are excepted (section 4).

Saber. `SlotsAccounted`, a held slot is reserved, every hitbox has its swing
or finisher, and no wave crosses a stage. `SwingFitsBody`, no swing goes on in
a body that cannot make it. `SwingSurvives`, an active swing keeps its hitbox
until it ends. `SwingLeavesCharge`, a release latched by a swing still has its
charge, and no swing lets a charge go by itself.

Weapons. `HeldApart`, no enemy is held twice, by the player's shots or by the
player and the partner, and two cursors never aim at one enemy.
`ShotsAccounted`, at the end of a frame the guest's count, its slots and the
host's records agree, bubbles and bees have their parent, and a pickup marked
as carried is carried. `HoldsEnd`, an enemy that is carried off is freed or
dies, the player whom a well keeps still moves again, and a time stop ends.

Hunters. `PoolsKept`, the body has the active hunter's health and the record the
other's, through every exchange, armor, stage and menu. `PartsGiveBack`, what
the armors borrow comes back: slots and the guest's count agree, gravity returns
with the frame's end unless a flight goes on, and the pretended ground is gone
before the shots run.

Priorities. `FollowUpsJudged`, a hit is admitted through an invincibility
exactly when a weaker one was accepted on the same enemy within the window, and
only who is admitted is paid.

Services. `PasswordKept`, a whole record in the file or its backup at every
step, and an active service knows what the file holds. `ScoreKept`, the file has the best
score ever stored. `MusicHeard`, outside a fade a song is full or ducked, is
one the user has, and is the one a fade was asked for. `RoomReady`, a room's
selection can be launched and the player's own comes back.
The option never differs between its two packages (`BehaviorShared`, a part of
it).
`KeptSegmentsPlay`, whatever is evicted, what is kept plays from its own start to
its end, or up to the call of the writer that failed and cut it ("cut": playback
reports the failure there, `mmx_replay.c` 432), and recording goes on only in a
segment that plays.

Tasks. `RunsOwn`, a task that runs has its own registers, at its own point, and
the return frame of its yield was popped once; a task that starts at its entry may
have the dispatch site's, or those of a point lost in a file (2.10). `TasksAsPromised`, the fibers
implement `TaskSlots`.

### 3.2 Bounds

* Queue: four bosses (the code has more), two seats. Three are the fewest with
  which a draw never has to wait; the fourth makes rounds overlap.
* Encounter: three bosses, two object slots that bosses are spawned in, one
  item slot, one shot slot in rush_liveness, one player, counters that end at 1
  or 2, a cleanup after 2 frames instead of 48. With two seats and one item
  slot the pool is full whenever a pickup is not taken. Two enemy slots let a
  boss have a child and let a slot be reused by the other seat's boss. One boss
  borrows the scene globals and the other does not, which is the pair that
  could see each other's. Bosses are symmetric in runs without liveness.
* Team: 1 or 2 HP, 0 or 1 spare life, Select held for 1 or 2 frames instead of
  90, a learner off screen for 1 or 2 frames instead of 120. Every threshold
  keeps a value on each of its sides. Both players use Select in all runs.
* Passes: a body is one bit of health and one of place; five casts of routines,
  chosen so that each pair that can disturb the other's remembered seat, ghost
  or query is in one; shared and own cameras, a learner or a second player.
  1.5 million states.
* Saber: two slots (one for the swing and one to fight over), one enemy, two
  stages (symmetric), charge and charge cap 2, a combo window of 1, the wave at
  age 2 of a finisher that ends at 3, waves that live 3 frames with two pulses,
  at most one native shot. Phases of a swing last a tick each, so all their
  borders are met.
* Services: three passwords, three scores, three songs of which one loops, one
  ends and one is missing; replays of segments of 2 frames, at most 3 of them
  in memory, 5 made, frames to 3 and one load. These are the least with which a
  backup differs from both neighbours, a score is beaten twice, and eviction
  has to choose between a segment with and one without a snapshot.
* Hunters: maximum health 2, an exchange, a morph, a dash and its recovery of 1
  or 2 frames each, two slots. `PartWants` names combinations of what the player
  and the stage do, so that each part meets each way in which its borrowing may
  be interrupted.
* Priorities: one enemy, two slots, three rungs of priority, a window of 1 and
  one generation. Of the wrap this is the worst case: no two generations differ.
* Tasks: two slots and two tasks of the seven; one task yields for one frame,
  for none and at the dispatch site, the other for two frames. Each installs the
  other over any state of its slot. One file, overwritten by any save; the
  process starts with no file or with one of either older form. A third slot adds
  nothing that two do not have, since slots meet only through installs and the
  shared registers.
* Weapons: three slots, two enemies, two records of victims, one kind that is
  lifted and one that is only shaken, and short clocks (a bomb rides 1 frame,
  a well pulls 3, a victim is destroyed after 2, time stands still for 2 and
  stops for 6). With three slots every child finds the pool full or not, and a
  charged weapon's two cursors meet two enemies. One change of the world
  (enemy, partner, stage, fall) and one of the weapon in a behavior; hits,
  pickups and native shots are not bounded.

### 3.3 What runs leave out

team_scenes has no capsule beside its ride armor (`PilotDrives` fails with
both), runs with ride armors have no falls below the shared screen, and
team_live has no capsule: these are the ways into finding 2 and into the scenes
of section 4. `NeverEmptyStage` fails when a ride armor, or hits in a scene,
meet withdrawals, so team_deaths has neither. `DyingFinishes` is not checked
with `sceneHits`; all else that still holds with it is, in team_live.
saber_slash keeps the weapon fixed under a finisher (`SwitchInSlash`), has no
odd action and loads no state. In RushSeats frames end inside the calls of both
enemy slots; once the host has touched a slot in such a gap, the behavior is
followed until that call returns or the next frame in which it has not returned
ends (`OneGap`). RushLiveness and RushDraws have `Slow = {}`: a boss whose updates
are cut at every frame's end is never cleaned up, since a cleanup during its own
call is refused, so `DyingCleared` needs frames that end between calls.

### 3.4 Fairness

Encounter. Weak fairness of the host's handlers: the main loop calls them every
frame. Strong fairness of the scheduler's run and return, since a menu or a
co-op scene stops it for a while only; weak fairness of a call's return, for
runs with `Slow = {}`; strong fairness of the end of a death animation, which
a surviving boss's hits could otherwise restart without end. Nothing is assumed
of item pickups: `DyingCleared` therefore admits that the pool stays full.

Team. Weak fairness of the host's loop. Strong fairness of the steps of a
teleport, of landings, of the countdown of a death, of the ends of scripts,
refills, pauses and of the native stage transitions. Strong fairness of a frame
that time does not stop (`TimeFlows`): a time stop ends by its clock (`HoldsEnd`,
3.1), and of two half-speed effects the shared cadence (625-631) lets every second
frame pass. The other strong conditions stand in one disjunction each, which
suffices because at most one class of these steps is enabled in a state. That a landing is found again and again is an
assumption about levels, not about the code.

Weapons. Weak fairness of the frame's next part (`FrameGoesOn`), a step that
changes `phase`: the main loop runs frame after frame. Nothing is assumed of
contacts, buttons or energy: holds end by their clocks.

The other modules claim safety only and assume no fairness.

## 4. Findings

Each is a run that violates one property.

1. **rush_draw_lost** (`mmx_boss_rush_runtime.c` 565). With the item pool full
   at a cleanup the body is erased, its seat is kept. The other seat's draw then
   takes the erased body's slot, is refused because a seat still names it, and
   the drawn boss is lost to the round.
2. **team_held** (`mmx_coop.c` 965). A teleport advances in the stored copy of
   its seat; if that seat becomes the projected driver, each capture overwrites
   the progress and the world stays held. A capsule does this to an X who joins,
   returns or withdraws. The rider repair (565-578) does it to a pilot whom a
   fall below the shared screen has started to beam out (1021): TeamHeld.cfg
   with `World = {"armor", "low"}` shows that second way.
3. **saber_load** (`mmx_rtl.c` 642). A loaded state is reset through the
   extension after the guest's RAM has been restored: the reset clears Saber's
   slots from the RAM just restored, and the swing restored next is gone in its
   first tick.

Seen while modelling, without a run of their own:

* `mmx_boss_rush_runtime.c` 555: if a frame ends inside a call of a boss whose
  cleanup is due, the pickup is written, the state refused, and the pickup written
  again in the next frame: `PickupOwed` fails without its exemption of `crossed`,
  `NoOrphans` and `GlobalsIsolated` without theirs (2.2). Whether a deadline ever
  falls into a boss's update is a matter of the interpreter's speed.
* `mmx_rtl.c` 421: a file marks a slot as occupied when it has a fiber. Loading
  deletes the fibers, and they are made again when the slots next run; a state
  saved in between (a pause, a delayed task) calls them unoccupied, and when it
  is loaded the task starts at its entry, with registers of the middle of the
  task. `RunsOwn` fails without its exemption of `lost`, `TasksAsPromised` without
  `cold` in `TaskSlots` (2.10). Under the default scheduler there are no fibers to
  lose.
* A task that a load starts anew at its entry keeps the registers of the
  dispatch site: the stack pointer is only read from the slot when no registers
  are saved (`mmx_rtl.c` 841).
* `mmx_coop.c` 1047: a driver killed while the partner is hidden is placed by
  the scene's return as if he were the hidden one. `DyingFinishes` fails with
  "sceneHits" added to `World` in TeamScenes.cfg.
* `mmx_coop.c` 462: the comment wants the living seat projected; the view hook
  gives back a driver who died in the meantime.
* `mmx_coop.c` 2118-2124: the platform, lift and object hooks select the seat
  that is not the driver. With own cameras the first pass need not be the
  driver's, so that the partner may be asked twice and the driver not at all
  (`PlatformAsksBoth` fails with `Cameras = {TRUE}`).
* A dead partner stays recorded as a rider until the platform's next query.
* `mmx_zero.c` 769-779: a weapon change or an odd action under a young finisher
  leaves the slot reserved for its wave (`SlotsAccounted` with
  `SwitchInSlash = TRUE`).
* A swing that turns active may take the last free slot between the reservation
  and the finisher's start; the request is then dropped. A swing's hitbox that
  takes the slot of a dead shot may inherit the shot's bit of a burst. A wave
  retargets an enemy slot reused by an enemy of the same kind.
* A P1 who buys back his life beside a learner leaves the learner projected
  until the next projection, although P1 has the world (`Apart` in
  CoopTeam_proof).
* `mods/mmx_msu1_plugin.c`: a fade out starts from the full volume also when
  the song was ducked, and resuming makes a song that ends a loop.

## 5. Proofs

All theorems are checked by TLAPS for every value of the constants, under the
named assumptions in the modules: more bosses than seats, disjoint pools of
natural addresses, positive limits.

**Queue.** `BossDraw_proof` shows of `Take`, `Rounds` and `NextBoss` that they
return a boss that is not on stage and leave a queue without duplicates;
`HostServices_proof` concludes the queue's three invariants (no boss twice in the queue,
none in both seats, no stalled draw) by one induction. `DrawnWithinTwoRounds`
follows from `WaitInv`, a potential: with N bosses, a boss in place k of the
queue has been passed over at most 2N - 1 - k times, and one that is not queued
at most N - 1 - Len(queue) times, so that a new round, which puts it in one of
N places, cannot exceed the bound. A queue without repetitions is no longer
than the cast (`QueueLength`), and a draw moves every other boss forward by one
place or leaves it out (`TakePlaces`).

**Encounter.** One layer per subject, each inductive relative to the earlier:

* `TypeInv` = `TypeOK`, a valid queue (what a draw leaves depends on it) and a
  pending call that has an object;
* `SeatInv`: a seat is empty exactly when it has no boss, two seats hold
  different bosses and objects, the pending call and every owned object belong
  to a seat that has a boss. `ValidState` and `OwnedHasBoss` follow;
* the relation of the two counters, which holds modulo their wrap:
  `DefeatsCounted`;
* `ModeInv`: what the modes mean for calls and for `pc`;
* `GlobalsInv` and `ObjectInv` for `GlobalsIsolated`, the pickups of
  `DefeatsSettled`, and `OwnershipFaithful`. Frames may end inside calls: the
  parts are stated of the slots not in `touched` and the seats not in `crossed`,
  and each handler is shown to enter there whatever it does behind a pending call;
* `TradeKillsCount`, `OnlyDefeatFrees` (a seat changes its boss only by a
  cleanup) and the refinement `DrawsAsPromised` need no such exception.

No theorem about the encounter has a condition: whichever objects are `Slow`,
however many frames a call lasts, and without the bound `OneGap` of the run.

**Team.** Every theorem but the last three holds for every `World`, with own
cameras or one, with a learner or a second player. `TypeOK`; `TeamInv` = `TeamMode` and "the second
seat's join step is only reached in play", since that step's withdrawals are
what could empty a team that is about to lose; `LearnerNeverDies`, inductive
with `TypeOK`. `ActorInv` carries the next three. Its parts need each other:

* `ActorPlays`: the driver is in play, and whoever is dying or fallen has no
  health left, so that a test of the health alone, as the host makes it, is a
  test of death;
* `ActorShown`: the driver is projected wherever the host decides and wherever
  the guest may hurt "the" body, but for the second pass of the controller, the
  menu and `Apart` (section 4); outside play, where the weapons' step returns
  before it projects anyone, because he was projected all along;
* `ActorSeen`: from the survivor repair to the guest the driver lives, or
  nobody else may drive;
* `P1Stands`: between two stages P1 drives, and stands with health when the
  next one begins.

`WorldActorLives` is `ActorSeen` at the guest's turn, `EntryRebuildsP1` a part of
`P1Stands`, and `HiddenUntouched` follows since a step that takes health takes
it of the projected seat, which in a scene is the driver. That a driver is never
beaming out was tried as a part and is false: a capsule gives the world to a
seat in the middle of its teleport (finding 2).

The last three are conditional, since what they exclude makes them false
(section 3.3). `NeverEmptyStage` and `DyingFinishes` assume `PlainStage`: no ride
armor, and nobody hurt in a scene other than a learner's transport. `StageInv`
shows who is in the stage: outside a scene a teleport holds the world, no life
is lost while it lasts and it cannot start during a refill or a script
(`WorldHeld`), so at the guest's turn nobody is on the way; in a scene the driver
stands still and both seats live, but for the driver of a learner's transport
who has just died (`SceneBodies`); and a frame that ends with a dead driver ends
the stage, unless the other seat lives and may drive, who then does from the next
tick on (`DriverLives`). The driver is the player that `NeverEmptyStage` asks for.
`DyingFinishes` follows from `SceneBodies`: the one step that stands a player up
who is not out of play is the end of a scene, and the partner it returns lives.
`PilotDrives` assumes that there is no capsule. `PilotInv`: at most one seat in
play is in the armor, which is then occupied (`OnePilot`), and from the rider repair
to the guest he drives unless he has just been beamed away from below the
other's screen, which holds the world (`PilotLeads`).

**Passes.** `BodiesKept` from `PassInv`, which says where the truth is at each
moment: outside a ghost the live body is the projected seat's and the stored
one the other's (`Shows`); inside one the saved copies are (`GhostCopies`), the
ghost's run can only come back to them (`GhostRuns`), a projection for a sensor
or an object remembers a seat to return to (`Remembered`), and the pass counter
marks which half of a query runs (`Marks`). The ghost of a hostile shot keeps
what it did to the shot but not to the body; it is the one case that needs the
guest's health unchanged by it.

The other three properties are `WaysInv`, `PassInv` with four parts. `Nested`: a
query is one of its routine's, and a seat to come back to is remembered only by
the routines that remember one. `Ways`: of whatever the guest can be left with,
the seat asked first, the seat before an object's projection, the one a ghost
restores (`Base`), each is the driver's or, with own cameras or chasers, a dead
one's; and the world is handed over only from a dead driver to a living seat.
`DriverProjected` speaks of the moments between queries only; what makes it
inductive is that it is known, in the middle of each, whom its end will
project. `Claims`: while an object holds somebody its remembered seat is the one
it took, and that seat is projected when it acts on him; `ClaimsHonoured`
follows. `Answers`: in the first pass the projected seat has been asked once and
the other, if the question concerns him, will be; in the second, both once, and
the first answer is kept. `EveryoneAsked` is what that says of a query's end.

**Saber.** A frame applies the modules one after the other to a record of the
whole (`Frame`), so the proof is a chain: for each module what it leaves alone
(`SwingSide`, `ComboSide`, `ZeroSide`), then the hook in front of the player
(`HookSlots`, `HookFits`, `HookCharge`), the player's end (`PlayerEndSide`) and
the waves (`ProjectilesStep`). Five invariants follow the five subjects:

* `CoreInv`: the count is that of the live slots, and a request to Zero is
  neither pending between frames nor repeated once it is sent;
* `BoxInv`: a hitbox is the swing's while it is active, and only then has the
  swing a slot;
* `KeptInv`: the one slot that is kept is the one the combo names and belongs
  to this stage, and a finisher is on its way to it: between frames young, in
  a body that can play it and with the buster; while the native player runs
  perhaps only asked for (`Asked`);
* `FitInv`: besides `SwingFitsBody`, what the ground was said to be;
* `ChargeInv`: a charge is no older than the finisher's window is spent. This
  is what the assumption that the window is shorter than a charge is for.

`SwingFitsBody` and `SwingLeavesCharge` hold without conditions,
`SwingSurvives` while no state is loaded (finding 3 is its counterexample), and
`SlotsAccounted` under the three conditions that its parts need: no loaded
state, since loading clears the tagged slots of the state it restored, no change
of weapon and no odd action under a finisher, which both cancel Zero and leave
the slot kept (section 4). How many slots there are does not matter: `First`
takes the least free one (`LeastSlot`), and a count that is right is kept right
by every routine that fills or empties one.

**Priorities.** The invariant says that the host's records and the history of
accepted hits agree at the next look, not now: an enemy may have died or changed
since. A record belongs to the enemy the host last saw (`Sound`) and follows the
last accepted hit unless the next look drops it (`Follows`); every shot whose
birth was seen has its class (`BirthKnown`); what the hook in front of the
player wrote down still stands when the one behind it runs (`BeforeSeen`); a
token fits the collision it was issued for (`TokenFits`), which is what lets
damage be paid without comparing more than a generation of 8 bits. The number
of generations does not matter: a token does not outlive its collision. The
proof does not go through without `Advances`' condition (section 2.9).

**Services.** Each has its own strengthening: `PasswordInv` (what temporary
file and backup hold at each step of a replacement), `ScoreInv`, `MusicHeard`
as it stands, `PlanInv` (`Runnable`, `Usable` and `Shared` of the selection in
force and of the one to come back). The composition moves one machine at a
time, so each proof is one induction over `HostServices!Next`. `ReplayInv` is
proved for the recorder's own specification: the item last written is the input
before the one to come unless a save has been loaded since, a segment that is
written is never the one evicted (`EvictionStops`) nor one that was cut, and so
`KeptSegmentsPlay`.
How many segments are evicted at once is the least number that fits, which
exists because a nonempty set of naturals has a least element
(`LeastNatural`, from the library's well-foundedness of `<`).

**Tasks.** `RunsOwn` and the refinement rest on `FiberInv`. For each slot that does
not run, the host's record is one of three (`HostOK`): it has a fiber, and the
registers are those of its yield with the frame still on the stack
(`SuspendedOK`); or a load left it to be resumed, the frame consumed
(`PendingOK`); or it starts at the cached address (`StartsOK`), with the dispatch
site's registers or, if a file has lost its point, with that point's. No record remembers
a fresh slot as the state last seen, so an install always forgets what the last task left. The
record of the task that runs fits the one set of registers (`LiveOK`), and a file
holds only slots of the first and third kind (`FileOK`), which a load turns into
the second and third (`RebuiltOK`). A slot that is saved while it waits to be resumed
becomes one of the third kind in the file: this is the exception that both
properties state.
For the refinement each step of the fibers is one of `TaskSlots`' or changes
nothing it sees; the jobs are read off the slots (`Standing`), and for each
operator a lemma says what it does to them. Both theorems hold for every number
of slots and every program of tasks.

**Hunters.** A frame calls some forty routines, each from a moment to a moment, and
most of them touch nothing that is borrowed. The proof names what a routine may
disturb and shows one line for each: `Quiet` (nothing borrowed), `Calm` (gravity
and the pretended ground only given back, the count kept right), `Shoots` (only
slots and their count), `ColumnStep` (what an exchange leaves alone, phase
included). What is left over is looked at alone: the dash and the crash, which
take the weight, and the exchange, which trades the health. `HuntersInv` says

* at every moment (`Fit`): the guest's count is the number of slots in use; in
  play the body has its weight, or an upward dash or a crash that runs, or a crash
  that an exchange has cut; and while the armor is not prepared only the last
  of these will do, since its record may be emptied at any time;
* `Pools` and `Seeded`: `PoolsKept` with what makes it inductive, that a record
  without healths exists only in the menu and that an exchange is under way
  only in a stage;
* `PropOwned`: the ground is pretended only inside the player's update, and
  for a dash of X or of Zero.

The slots are updated in order by a recursive function over their number; that
every update keeps the count is shown for the first slot that would not
(`LeastNatural`), which is an induction the provers can follow, since the
property is fixed. The assumption is that the slots and the length of a dash are
natural numbers.

**Weapons.** A frame is a chain of changes of one record, the arena, and the
sixteen weapons differ only in their ticks. The proof says once which change of
an arena cannot disturb what the two properties speak of (`Calm`): each record
stays, or becomes one that neither holds, locks, carries nor is named by others,
or goes on with its own target. Calm changes compose and keep the four `Sides`:
who holds whom (`HeldOnce`), the eddies of a burner and the slot they name
(`EddiesKept`), the bees and their busy cursors (`BeesKept`), the pickup
(`ItemKept`). Eleven weapons' ticks are calm as they stand (`SonicCalm` ...
`TriadCalm`), and so is a crystal's; the others are shown safe where they are
not: a bomb or a crystal touches
only an enemy nobody holds (`ContactSafe`), a cursor locks on to one that no other
has reserved and has at most one bee out (`LockSafe`, `BeeLeaves`), a well's
victims are captured one after the other (`CaptureSafe`), a flame in water leaves
two eddies at most (`WetSafe`), and there is one hook at a time (`Single`), so
that the one pickup that is taken is the one it carries (`ChainSafe`). The slots'
ticks and the effects are recursive functions over their number; `LoopRuns` is
the induction, from the library's well-foundedness of `<`, over sets that the
steps lead through. `ShotInv` is then

* `Kept` of the weapon in hand, while nothing has happened to the slots behind
  the host's back: the arena has only forms of that weapon, its records and its
  slots agree, the guest's count is right and the sides hold;
* `Loose` from a fall or a change of stage, which clears slots under the
  records, to the player's next tick, whose cancel makes any such arena fit
  every weapon (`CancelledSafe`): the count, the holds and the pickup are all
  that is known in between, and all that the display frame under a time stop
  needs.

`HeldApart` holds at every moment, `ShotsAccounted` at the moments it speaks of.
Both are proved for every number of slots, enemies, effects and cursors and for
every choice of the weapons; the assumption on the constants names the sixteen
(`ShotsAssumption`), since a weapon the dispatch does not know has no tick.

Only model-checked: liveness, since fairness and ENABLED are out of the prover's
reach.

## 6. Plan

On disk: `BossDraw`, `BossQueue`, `BossRush`, `CoopTeam`, `CoopPasses`,
`SaberSlash`, `SaberPriority`, `HunterSwap`, `HunterParts`, `WeaponPool`,
`WeaponTicks`, `WeaponHolds`, `WeaponShots`, `TaskSlots`, `TaskFibers`, the five
services with `HostServices`, and the proofs named above. Next, most important first:

1. `RushSound`: the two bosses' sound commands and the histories they leave.
2. Wide screen policy and the renderer's row plan as pure operators against a
   reference definition.

### Not modelled

* Renderer, render assets, overlay, hitboxes, HUD, trace: they read the state
  of the game and change nothing of it. What could be wrong is a picture, and
  tests compare it with the original's. The row plan is a data transformation,
  to be checked as a pure operator, not as a state machine.
* Cameras: computations over positions, of which the models keep none;
  CoopTeam has what depends on them as free choices.
* Source assets, SPC player, tools, generated code: extraction, emulation and
  translation of data before or below the game.
* Startup, window, volume, logging: calls of the platform.
* KNC bug fix: a recogniser of one button sequence.
* The interpreted scheduler, and the layout of save states beyond the tasks:
  that it is complete is a property of structures, not of steps.
