---------------------------- MODULE CoopPasses_proof ----------------------------
(***************************************************************************)
(* No write to a body is lost, whatever routines meet: the live body and   *)
(* the stored one are those the writes made, and inside a ghost the copies *)
(* put aside are.  And each of them is the right one: behind that stands a *)
(* second invariant, of the seats, further down.                           *)
(***************************************************************************)
EXTENDS CoopPasses, TLAPS

TeamRecord == [stored : [Seats -> Body], live : Body, current : Seats, anchor : Seats]
Bodies == [Seats -> Body]

\* Team t shows the bodies b: one live, the other stored.
Shows(t, b) ==
    /\ t \in TeamRecord
    /\ t.live = b[t.current]
    /\ t.stored[Other(t.current)] = b[Other(t.current)]

\* Inside a ghost: the partner's body is live, the seat's own put aside; the
\* shots' ghost brings back only where the partner is, so his health must stand.
GhostRuns == \/ routine = "fighter" /\ asking \in {"none", "contact", "shot"}
             \/ routine = "shots" /\ asking = "shots" /\ turn # 0
GhostCopies ==
    LET o == Other(team.current) IN
    /\ saved.team \in TeamRecord
    /\ saved.team.current = team.current
    /\ saved.team.live = truth.body[team.current]
    /\ team.live = truth.body[o]
    /\ saved.foe = truth.foe
    /\ routine = "shots" => saved.team.stored[o].hp = truth.body[o].hp
InGhost == GhostRuns /\ GhostCopies

Remembered == /\ claim \in [Takers -> Seats \cup {None}]
              /\ asking = "slime" \/ "slime" \in taken => claim["slime"] \in Seats
Marks == /\ first \in Seats /\ ret \in Seats \cup {None} /\ back \in Seats \cup {None}
         /\ carry \in Seats \cup {None}
         /\ routine # "idle" => frame = "guest"
Match == IF ghost = 1 THEN InGhost ELSE Shows(team, truth.body) /\ foe = truth.foe
PassInv ==
    /\ team \in TeamRecord
    /\ truth \in [body : Bodies, foe : 0..1]
    /\ Remembered /\ Marks /\ Match

-----------------------------------------------------------------------------
\* What each operation on a team keeps.

LEMMA SeatsHaveOther == \A s \in Seats : Other(s) \in Seats /\ Other(s) # s /\ Other(Other(s)) = s
  BY DEF Seats, Other

LEMMA CapturedShows ==
  ASSUME NEW b \in Bodies, NEW t, Shows(t, b), ghost # 1
  PROVE  /\ Shows(Captured(t), b)
         /\ Captured(t).current = t.current /\ Captured(t).anchor = t.anchor
         /\ Captured(t).live = t.live
         /\ \A s \in Seats : Captured(t).stored[s] = b[s]
  BY SeatsHaveOther DEF Captured, Shows, TeamRecord, Bodies, Seats, Other

LEMMA SelectShows ==
  ASSUME NEW b \in Bodies, NEW t, Shows(t, b), NEW s \in Seats, ghost # 1
  PROVE  Shows(Select(t, s), b) /\ Select(t, s).current = s /\ Select(t, s).anchor = t.anchor
  <1>1. CASE s = t.current
    BY <1>1 DEF Select, Shows
  <1>2. CASE s # t.current
    <2> DEFINE c == Captured(t)
               u == [c EXCEPT !.live = t.stored[s], !.current = s]
    <2>1. c \in TeamRecord /\ c.anchor = t.anchor /\ \A p \in Seats : c.stored[p] = b[p]
      BY CapturedShows DEF Shows
    <2>2. t.current \in Seats /\ t.stored[s] \in Body
      BY DEF Shows, TeamRecord
    <2>3. s = Other(t.current)
      BY <1>2, <2>2 DEF Seats, Other
    <2>4. t.stored[s] = b[s]
      BY <2>3 DEF Shows
    <2>5. Select(t, s) = u
      BY <1>2 DEF Select
    <2> HIDE DEF c
    <2>6. u \in TeamRecord /\ u.live = b[s] /\ u.current = s /\ u.anchor = t.anchor
          /\ u.stored = c.stored
      BY <2>1, <2>2, <2>4 DEF TeamRecord
    <2> QED
      BY <2>1, <2>5, <2>6, SeatsHaveOther DEF Shows
  <1> QED
    BY <1>1, <1>2

LEMMA AnchorShows ==
  ASSUME NEW b \in Bodies, NEW t, Shows(t, b), NEW s \in Seats
  PROVE  Shows([t EXCEPT !.anchor = s], b) /\ [t EXCEPT !.anchor = s].current = t.current
  BY DEF Shows, TeamRecord

LEMMA SurvivorShows ==
  ASSUME NEW b \in Bodies, NEW t, Shows(t, b), ghost # 1
  PROVE  Shows(Survivor(t), b)
  <1> DEFINE o == Other(t.anchor)
             u == [t EXCEPT !.anchor = o]
  <1>1. o \in Seats
    BY SeatsHaveOther DEF Shows, TeamRecord
  <1>2. Shows(u, b)
    BY <1>1, AnchorShows
  <1>3. Survivor(t) \in {Select(u, o), t}
    BY DEF Survivor
  <1> HIDE DEF u, o
  <1> QED
    BY <1>1, <1>2, <1>3, SelectShows

LEMMA HandedShows ==
  ASSUME NEW b \in Bodies, NEW t, Shows(t, b)
  PROVE  Shows(Handed(t), b)
  <1> DEFINE o == Other(t.current)
  <1>1. o \in Seats
    BY SeatsHaveOther DEF Shows, TeamRecord
  <1>2. Handed(t) \in {[t EXCEPT !.anchor = o], t}
    BY DEF Handed
  <1> HIDE DEF o
  <1> QED
    BY <1>1, <1>2, AnchorShows

LEMMA PokedShows ==
  ASSUME NEW b \in Bodies, NEW t, Shows(t, b), NEW s \in Seats, NEW x \in Body
  PROVE  Shows(Poked(t, s, x), [b EXCEPT ![s] = x])
  <1>0. t \in TeamRecord /\ t.current \in Seats
    BY DEF Shows, TeamRecord
  <1>1. CASE s = t.current
    <2>1. Poked(t, s, x) = [t EXCEPT !.live = x]
      BY <1>1 DEF Poked
    <2> QED
      BY <1>0, <1>1, <2>1, SeatsHaveOther DEF Shows, TeamRecord, Bodies
  <1>2. CASE s # t.current
    <2>1. Poked(t, s, x) = [t EXCEPT !.stored[s] = x]
      BY <1>2 DEF Poked
    <2>2. s = Other(t.current)
      BY <1>0, <1>2 DEF Seats, Other
    <2> QED
      BY <1>0, <1>2, <2>1, <2>2 DEF Shows, TeamRecord, Bodies
  <1> QED
    BY <1>1, <1>2

LEMMA BodyOfShown ==
  ASSUME NEW b \in Bodies, NEW t, Shows(t, b), NEW s \in Seats
  PROVE  BodyOf(t, s) = b[s] /\ Moved(b[s]) \in Body
  <1>1. BodyOf(t, s) = b[s]
    <2>1. t.current \in Seats /\ (s # t.current => s = Other(t.current))
      BY DEF Shows, TeamRecord, Seats, Other
    <2> QED
      BY <2>1 DEF BodyOf, Shows
  <1>2. b[s] \in Body
    BY DEF Bodies
  <1> QED
    BY <1>1, <1>2 DEF Moved, Body

LEMMA CarriedShows ==
  ASSUME NEW b \in Bodies, NEW t, Shows(t, b), carry \in Seats \cup {None}
  PROVE  WithCarry(b) \in Bodies /\ Shows(Carried(t), WithCarry(b))
  <1>1. CASE carry # None /\ status[carry] = "alive"
    <2>1. carry \in Seats
      BY <1>1
    <2>2. BodyOf(t, carry) = b[carry] /\ Moved(b[carry]) \in Body
      BY <2>1, BodyOfShown
    <2>3. Carried(t) = Poked(t, carry, Moved(b[carry]))
      BY <1>1, <2>2 DEF Carried
    <2>4. WithCarry(b) = [b EXCEPT ![carry] = Moved(b[carry])]
      BY <1>1, <2>1 DEF WithCarry
    <2>5. Shows(Poked(t, carry, Moved(b[carry])), [b EXCEPT ![carry] = Moved(b[carry])])
      BY <2>1, <2>2, PokedShows
    <2>6. [b EXCEPT ![carry] = Moved(b[carry])] \in Bodies
      BY <2>2 DEF Bodies
    <2> QED
      BY <2>3, <2>4, <2>5, <2>6
  <1>2. CASE ~(carry # None /\ status[carry] = "alive")
    BY <1>2 DEF Carried, WithCarry
  <1> QED
    BY <1>1, <1>2

LEMMA TickedShows ==
  ASSUME NEW b \in Bodies, NEW t, Shows(t, b), ghost # 1
  PROVE  Shows(Ticked(t), b)
  <1> DEFINE first1 == Survivor(Captured(t))
             driver == IF scene THEN Select(first1, first1.anchor) ELSE first1
             Turn(u, s) == IF status[s] = "alive" /\ (~scene \/ s = u.anchor)
                           THEN Captured(Select(u, s)) ELSE u
  <1>1. Shows(first1, b)
    BY CapturedShows, SurvivorShows
  <1>2. Shows(driver, b)
    <2> HIDE DEF first1
    <2>1. first1.anchor \in Seats
      BY <1>1 DEF Shows, TeamRecord
    <2> QED
      BY <1>1, <2>1, SelectShows
  <1>3. ASSUME NEW u, Shows(u, b), NEW s \in Seats
        PROVE  Shows(Turn(u, s), b)
    <2>1. Shows(Captured(Select(u, s)), b)
      BY <1>3, SelectShows, CapturedShows
    <2> QED
      BY <1>3, <2>1
  <1>4. Ticked(t) = Select(Turn(Turn(driver, 0), 1), driver.anchor)
    BY DEF Ticked
  <1>5. driver.anchor \in Seats
    BY <1>2 DEF Shows, TeamRecord
  <1> HIDE DEF driver, Turn
  <1>6. 0 \in Seats /\ 1 \in Seats
    BY DEF Seats
  <1>7. Shows(Turn(driver, 0), b)
    BY <1>2, <1>3, <1>6
  <1>8. Shows(Turn(Turn(driver, 0), 1), b)
    BY <1>3, <1>6, <1>7
  <1> QED
    BY <1>4, <1>5, <1>8, SelectShows

LEMMA DrivingShows ==
  ASSUME NEW b \in Bodies, Shows(team, b)
  PROVE  Shows(Driving, b)
  BY AnchorShows DEF Driving, Shows, TeamRecord

LEMMA EnterShows ==
  ASSUME NEW b \in Bodies, Shows(team, b), Enter, ghost # 1
  PROVE  Shows(team', b)
  <1>1. Shows(Driving, b)
    BY DrivingShows
  <1>2. team' \in {Captured(Driving), Driving}
    BY DEF Enter
  <1> QED
    BY <1>1, <1>2, CapturedShows

\* In a ghost nothing projects: only the driver may change, until the rollback.
LEMMA GhostSelects ==
  ASSUME ghost = 1, NEW t \in TeamRecord, NEW s \in Seats
  PROVE  /\ Select(t, s) = t
         /\ Survivor(t) \in TeamRecord
         /\ Survivor(t).live = t.live /\ Survivor(t).current = t.current
  <1>1. \A u : Select(u, s) = u
    BY DEF Select
  <1>2. \A u, p : Select(u, p) = u
    BY DEF Select
  <1>3. Survivor(t) \in {[t EXCEPT !.anchor = Other(t.anchor)], t}
    BY <1>2 DEF Survivor
  <1>4. Other(t.anchor) \in Seats
    BY SeatsHaveOther DEF TeamRecord
  <1> QED
    BY <1>1, <1>3, <1>4 DEF TeamRecord
-----------------------------------------------------------------------------
\* The steps of the host.

LEMMA ShownTeam ==
  ASSUME PassInv, ghost # 1
  PROVE  Shows(team, truth.body) /\ truth.body \in Bodies /\ foe = truth.foe
         /\ team.current \in Seats /\ team.anchor \in Seats
  BY DEF PassInv, Match, TeamRecord

\* Outside a ghost a step that leaves the rest alone need only show its bodies.
LEMMA PassInvShown ==
  ASSUME PassInv, NEW b \in Bodies, Shows(team', b), truth' = [truth EXCEPT !.body = b],
         Remembered', Marks', ghost # 1, ghost' # 1, foe' = foe
  PROVE  PassInv'
  <1>1. truth' \in [body : Bodies, foe : 0..1] /\ truth'.body = b /\ truth'.foe = truth.foe
    BY DEF PassInv
  <1>2. team' \in TeamRecord
    BY DEF Shows
  <1>3. Shows(team', truth'.body)
    BY <1>1
  <1>4. (Shows(team, truth.body))'
    BY <1>3 DEF Shows
  <1>5. foe' = truth'.foe
    BY <1>1, ShownTeam
  <1> QED
    BY <1>1, <1>2, <1>4, <1>5 DEF PassInv, Match
LEMMA PassInvSameBodies ==
  ASSUME PassInv, ghost # 1, ghost' # 1, Shows(team', truth.body), UNCHANGED <<truth, foe>>,
         Remembered', Marks'
  PROVE  PassInv'
  <1>1. truth.body \in Bodies /\ truth' = [truth EXCEPT !.body = truth.body]
    BY DEF PassInv
  <1> QED
    BY <1>1, PassInvShown

\* When a routine is idle, or in a host frame, there is no ghost.
LEMMA IdleNoGhost ==
  ASSUME PassInv, routine = "idle" \/ frame = "tick"
  PROVE  ghost # 1
  BY DEF PassInv, Marks, Match, InGhost, GhostRuns

LEMMA FrameTickKeeps == PassInv /\ FrameTick => PassInv'
  <1> SUFFICES ASSUME PassInv, FrameTick PROVE PassInv'
    OBVIOUS
  <1>1. ghost # 1 /\ ghost' = ghost /\ routine = "idle"
    BY IdleNoGhost DEF FrameTick, PassInv, Marks
  <1>2. Shows(team', truth.body)
    BY <1>1, ShownTeam, TickedShows DEF FrameTick
  <1>3. Remembered' /\ Marks'
    BY <1>1 DEF FrameTick, PassInv, Remembered, Marks, query, Objs
  <1>4. UNCHANGED <<truth, foe>>
    BY DEF FrameTick, Objs
  <1> QED
    BY <1>1, <1>2, <1>3, <1>4, PassInvSameBodies

LEMMA PlacedKeeps == PassInv /\ Placed => PassInv'
  <1> SUFFICES ASSUME PassInv, Placed PROVE PassInv'
    OBVIOUS
  <1> DEFINE o == Other(team.anchor)
             b == [truth.body EXCEPT ![o] = Fresh]
  <1>1. ghost # 1 /\ ghost' = ghost /\ foe' = foe
    BY IdleNoGhost DEF Placed, Objs
  <1>2. /\ Shows(team, truth.body) /\ truth.body \in Bodies /\ o \in Seats
        /\ team.current \in Seats /\ o = Other(team.current)
    BY <1>1, ShownTeam, SeatsHaveOther DEF Placed
  <1>3. Fresh \in Body
    BY DEF Fresh, Body
  <1>4. Shows(Poked(team, o, Fresh), b)
    BY <1>2, <1>3, PokedShows
  <1>5. team' = Poked(team, o, Fresh)
    BY <1>2, SeatsHaveOther DEF Placed, Poked
  <1>6. truth' = [truth EXCEPT !.body = b] /\ b \in Bodies
    BY <1>2, <1>3 DEF Placed, Bodies, PassInv
  <1>7. Remembered' /\ Marks'
    BY DEF Placed, PassInv, Remembered, Marks, query, Objs, Clock
  <1> HIDE DEF b, o
  <1> QED
    BY <1>1, <1>4, <1>5, <1>6, <1>7, PassInvShown

LEMMA EndFrameKeeps == PassInv /\ EndFrame => PassInv'
  <1> SUFFICES ASSUME PassInv, EndFrame PROVE PassInv'
    OBVIOUS
  <1> DEFINE o == Other(team.anchor)
             c == Carried(team)
             b == WithCarry(truth.body)
  <1>1. ghost # 1 /\ ghost' = ghost /\ foe' = foe
    BY IdleNoGhost DEF EndFrame
  <1>2. Shows(team, truth.body) /\ truth.body \in Bodies /\ o \in Seats
    BY <1>1, ShownTeam, SeatsHaveOther
  <1>3. b \in Bodies /\ Shows(c, b)
    BY <1>2, CarriedShows DEF PassInv, Marks
  <1>4. PICK stun \in BOOLEAN :
          /\ team' = Captured(IF stun THEN Poked(c, o, Moved(BodyOf(c, o))) ELSE c)
          /\ truth' = [truth EXCEPT !.body = IF stun THEN [b EXCEPT ![o] = Moved(@)] ELSE b]
    BY DEF EndFrame
  <1>5. Remembered' /\ Marks'
    BY DEF EndFrame, PassInv, Remembered, Marks, query
  <1> HIDE DEF b, c, o
  <1>6. CASE stun
    <2> DEFINE d == [b EXCEPT ![o] = Moved(b[o])]
               u == Poked(c, o, Moved(b[o]))
    <2>1. BodyOf(c, o) = b[o] /\ Moved(b[o]) \in Body
      BY <1>2, <1>3, BodyOfShown
    <2>2. d \in Bodies
      BY <1>3, <2>1 DEF Bodies
    <2>3. Shows(u, d)
      BY <1>2, <1>3, <2>1, PokedShows
    <2>4. team' = Captured(u) /\ truth' = [truth EXCEPT !.body = d]
      BY <1>4, <1>6, <2>1
    <2> HIDE DEF d, u
    <2>5. Shows(team', d)
      BY <1>1, <2>2, <2>3, <2>4, CapturedShows
    <2> QED
      BY <1>1, <1>5, <2>2, <2>4, <2>5, PassInvShown
  <1>7. CASE ~stun
    <2>1. team' = Captured(c) /\ truth' = [truth EXCEPT !.body = b]
      BY <1>4, <1>7
    <2>2. Shows(team', b)
      BY <1>1, <1>3, <2>1, CapturedShows
    <2> QED
      BY <1>1, <1>3, <1>5, <2>1, <2>2, PassInvShown
  <1> QED
    BY <1>6, <1>7

LEMMA CarryEarlyKeeps == PassInv /\ CarryEarly => PassInv'
  <1> SUFFICES ASSUME PassInv, CarryEarly PROVE PassInv'
    OBVIOUS
  <1> DEFINE b == WithCarry(truth.body)
  <1>1. ghost # 1 /\ ghost' = ghost /\ foe' = foe
    BY DEF CarryEarly
  <1>2. b \in Bodies /\ Shows(Carried(team), b)
    BY <1>1, ShownTeam, CarriedShows DEF PassInv, Marks
  <1>3. team' = Carried(team) /\ truth' = [truth EXCEPT !.body = b]
    BY DEF CarryEarly
  <1>4. Remembered' /\ Marks'
    BY DEF CarryEarly, PassInv, Remembered, Marks, query, Clock
  <1> HIDE DEF b
  <1> QED
    BY <1>1, <1>2, <1>3, <1>4, PassInvShown

LEMMA TeamResetKeeps == PassInv /\ TeamReset => PassInv'
  <1> SUFFICES ASSUME PassInv, TeamReset PROVE PassInv'
    OBVIOUS
  <1> DEFINE b == [[truth.body EXCEPT ![0] = Fresh] EXCEPT ![1] = team.stored[1]]
  <1>1. ghost # 1 /\ ghost' = ghost /\ foe' = foe /\ routine = "idle"
    BY IdleNoGhost DEF TeamReset
  <1>2. Fresh \in Body /\ 0 \in Seats /\ 1 \in Seats /\ Other(0) = 1
    BY DEF Fresh, Body, Seats, Other
  <1>3. team \in TeamRecord /\ team.stored[1] \in Body /\ truth.body \in Bodies
    BY <1>2 DEF PassInv, TeamRecord
  <1>4. b \in Bodies /\ b[0] = Fresh /\ b[1] = team.stored[1]
    BY <1>2, <1>3 DEF Bodies
  <1>5. team' = [team EXCEPT !.live = Fresh, !.current = 0, !.anchor = 0]
        /\ truth' = [truth EXCEPT !.body = b]
    BY DEF TeamReset
  <1> HIDE DEF b
  <1>6. /\ team' \in TeamRecord /\ team'.live = Fresh /\ team'.current = 0
        /\ team'.stored = team.stored
    BY <1>2, <1>3, <1>5 DEF TeamRecord
  <1>7. Shows(team', b)
    BY <1>2, <1>4, <1>6 DEF Shows
  <1>8. Remembered' /\ Marks'
    BY <1>1 DEF TeamReset, PassInv, Remembered, Marks, query, Clock, Takers
  <1> QED
    BY <1>1, <1>4, <1>5, <1>7, <1>8, PassInvShown
-----------------------------------------------------------------------------
\* The steps of the guest.

\* A step that leaves the bodies and the copies keeps the invariant if a ghost
\* goes on in its routine.
LEMMA PassInvStill ==
  ASSUME PassInv, UNCHANGED <<team, truth, foe, ghost, saved>>, Remembered', Marks',
         ghost = 1 => GhostRuns' /\ routine' = routine
  PROVE  PassInv'
  <1>1. CASE ghost = 1
    BY <1>1 DEF PassInv, Match, InGhost, GhostCopies
  <1>2. CASE ghost # 1
    BY <1>2 DEF PassInv, Match, Shows
  <1> QED
    BY <1>1, <1>2

\* A query opens on the body that is projected.
LEMMA OpenMarks ==
  ASSUME PassInv, NEW k, Open(k)
  PROVE  first' \in Seats
  BY DEF PassInv, TeamRecord, Open

LEMMA StartOwnKeeps ==
  ASSUME PassInv, NEW r, NEW k, StartOwn(r, k), k # "slime"
  PROVE  PassInv'
  <1>1. routine = "idle" /\ frame = "guest" /\ ghost # 1
    BY IdleNoGhost DEF StartOwn, Run
  <1>2. asking' = k /\ first' \in Seats
    BY OpenMarks DEF StartOwn, Open
  <1>3. Remembered'
    BY <1>2 DEF StartOwn, Objs, PassInv, Remembered
  <1>4. Marks'
    BY <1>1, <1>2 DEF StartOwn, Objs, PassInv, Marks
  <1> QED
    BY <1>1, <1>3, <1>4, PassInvStill DEF StartOwn, Objs

LEMMA StartQueryKeeps == PassInv /\ StartQuery => PassInv'
  <1> SUFFICES ASSUME PassInv, StartQuery PROVE PassInv'
    OBVIOUS
  <1>1. PICK k \in Queries(routine) : Open(k) /\ claim' = Noted(k)
    BY DEF StartQuery
  <1>2. asking' = k /\ first' \in Seats /\ asking = "none"
    BY <1>1, OpenMarks DEF Open
  <1>3. team.current \in Seats
    BY DEF PassInv, TeamRecord
  <1>4. Remembered'
    BY <1>1, <1>2, <1>3 DEF StartQuery, PassInv, Remembered, Noted, Takers
  <1>5. Marks'
    BY <1>2 DEF StartQuery, PassInv, Marks, Clock
  <1>6. ghost = 1 => GhostRuns' /\ routine' = routine
    BY <1>1, <1>2 DEF StartQuery, PassInv, Match, InGhost, GhostRuns, Queries
  <1> QED
    BY <1>4, <1>5, <1>6, PassInvStill DEF StartQuery

\* Taking remembers a seat, and the answer ends the query.
LEMMA TakeRemembers ==
  ASSUME PassInv, NEW on, Take(asking, on), asking' = "none"
  PROVE  Remembered'
  <1>1. team.current \in Seats
    BY DEF PassInv, TeamRecord
  <1>2. CASE on /\ asking \in Keeps
    <2>1. Taker(asking) \in Takers /\ (Taker(asking) = "slime" <=> asking = "slime")
      BY <1>2 DEF Keeps, Taker, Takers
    <2>2. claim' \in [Takers -> Seats \cup {None}]
      BY <1>1, <1>2, <2>1 DEF Take, PassInv, Remembered
    <2>3. ASSUME "slime" \in taken' PROVE claim'["slime"] \in Seats
      <3>1. taken' = taken \cup {Taker(asking)}
        BY <1>2 DEF Take
      <3>2. asking = "slime" \/ "slime" \in taken
        BY <2>1, <2>3, <3>1
      <3>3. claim["slime"] \in Seats /\ claim \in [Takers -> Seats \cup {None}]
        BY <3>2 DEF PassInv, Remembered
      <3>4. claim' \in {claim, [claim EXCEPT ![Taker(asking)] = team.current]}
        BY <1>2 DEF Take
      <3>5. "slime" \in Takers
        BY DEF Takers
      <3>6. [claim EXCEPT ![Taker(asking)] = team.current]["slime"]
               \in {claim["slime"], team.current}
        BY <2>1, <3>3, <3>5
      <3> QED
        BY <1>1, <3>3, <3>4, <3>6
    <2> QED
      BY <2>2, <2>3 DEF Remembered
  <1>3. CASE ~(on /\ asking \in Keeps)
    <2>1. UNCHANGED <<taken, claim>>
      BY <1>3 DEF Take
    <2> QED
      BY <2>1 DEF PassInv, Remembered
  <1> QED
    BY <1>2, <1>3

LEMMA ReturnAloneKeeps == PassInv /\ ReturnAlone => PassInv'
  <1> SUFFICES ASSUME PassInv, ReturnAlone PROVE PassInv'
    OBVIOUS
  <1>1. asking' = "none" /\ first' = 0 /\ 0 \in Seats
    BY DEF ReturnAlone, Closed, Seats
  <1>2. Remembered'
    BY <1>1, TakeRemembers DEF ReturnAlone
  <1>3. Marks'
    BY <1>1 DEF ReturnAlone, PassInv, Marks, Quiet, Clock
  <1>4. ghost = 1 => GhostRuns' /\ routine' = routine
    BY <1>1 DEF ReturnAlone, PassInv, Match, InGhost, GhostRuns, Quiet
  <1> QED
    BY <1>2, <1>3, <1>4, PassInvStill DEF ReturnAlone, Quiet

LEMMA ReturnOnlyKeeps == PassInv /\ ReturnOnly => PassInv'
  <1> SUFFICES ASSUME PassInv, ReturnOnly PROVE PassInv'
    OBVIOUS
  <1>1. asking' = "none" /\ first' = 0 /\ 0 \in Seats
    BY DEF ReturnOnly, Closed, Seats
  <1>2. Remembered'
    BY <1>1, TakeRemembers DEF ReturnOnly
  <1>3. Marks'
    BY <1>1 DEF ReturnOnly, PassInv, Marks, Clock
  <1>4. ghost # 1 /\ ghost' = ghost /\ UNCHANGED <<truth, foe>>
    BY DEF ReturnOnly
  <1>5. Shows(team, truth.body) /\ truth.body \in Bodies /\ team.anchor \in Seats
    BY <1>4, ShownTeam
  <1>6. Enter \/ team' \in {Captured(team), Select(team, team.anchor), team}
    BY DEF ReturnOnly
  <1>7. Shows(team', truth.body)
    BY <1>4, <1>5, <1>6, EnterShows, CapturedShows, SelectShows
  <1> QED
    BY <1>2, <1>3, <1>4, <1>7, PassInvSameBodies

LEMMA AskAgainKeeps == PassInv /\ AskAgain => PassInv'
  <1> SUFFICES ASSUME PassInv, AskAgain PROVE PassInv'
    OBVIOUS
  <1>1. Remembered'
    BY DEF AskAgain, PassInv, Remembered
  <1>2. Marks'
    BY DEF AskAgain, PassInv, Marks, Clock
  <1>3. Partner(asking) \in Seats
    BY SeatsHaveOther DEF Partner, PassInv, TeamRecord, Marks
  <1>4. team' = Select(IF asking = "controller" THEN Handed(team) ELSE team, Partner(asking))
    BY DEF AskAgain
  <1>5. CASE ghost = 1
    <2>1. routine = "fighter" /\ asking \in {"contact", "shot"}
      BY <1>5 DEF AskAgain, PassInv, Match, InGhost, GhostRuns
    <2>2. team' = team
      BY <1>3, <1>4, <1>5, <2>1, GhostSelects DEF PassInv
    <2>3. UNCHANGED <<truth, foe, saved, routine, asking>> /\ ghost' = ghost
      BY <1>5 DEF AskAgain, Roster
    <2>4. GhostRuns'
      BY <2>1, <2>3 DEF GhostRuns
    <2> QED
      BY <1>1, <1>2, <1>5, <2>2, <2>3, <2>4, PassInvStill
  <1>6. CASE ghost # 1
    <2>1. ghost' # 1 /\ UNCHANGED <<truth, foe>>
      BY <1>6 DEF AskAgain
    <2>2. Shows(team, truth.body) /\ truth.body \in Bodies
      BY <1>6, ShownTeam
    <2>3. Shows(Handed(team), truth.body)
      BY <2>2, HandedShows
    <2>4. Shows(team', truth.body)
      BY <1>3, <1>4, <1>6, <2>2, <2>3, SelectShows
    <2> QED
      BY <1>1, <1>2, <1>6, <2>1, <2>4, PassInvSameBodies
  <1> QED
    BY <1>5, <1>6

LEMMA ReturnBothKeeps == PassInv /\ ReturnBoth => PassInv'
  <1> SUFFICES ASSUME PassInv, ReturnBoth PROVE PassInv'
    OBVIOUS
  <1>1. asking' = "none" /\ first' = 0 /\ 0 \in Seats /\ UNCHANGED <<routine, ret, frame>>
        /\ UNCHANGED <<saved, foe, truth>>
    BY DEF ReturnBoth, Closed, Seats, Clock
  <1>2. Remembered'
    BY <1>1, TakeRemembers DEF ReturnBoth
  <1>3. team \in TeamRecord /\ first \in Seats /\ Other(first) \in Seats /\ team.anchor \in Seats
    BY SeatsHaveOther DEF PassInv, Marks, TeamRecord
  <1>4. carry' \in {carry, Other(first)} /\ back' \in {back, first}
    BY DEF ReturnBoth
  <1>5. Marks'
    BY <1>1, <1>3, <1>4 DEF PassInv, Marks
  <1>6. CASE ghost = 1
    <2>1. routine = "fighter" /\ asking \in {"contact", "shot"}
      BY <1>6 DEF ReturnBoth, PassInv, Match, InGhost, GhostRuns
    <2>2. team' = Survivor(Select(team, first))
      BY <2>1 DEF ReturnBoth
    <2>3. team' = Survivor(team)
      BY <1>3, <1>6, <2>2, GhostSelects
    <2>4. team' \in TeamRecord /\ team'.live = team.live /\ team'.current = team.current
      BY <1>3, <1>6, <2>3, GhostSelects
    <2>5. ghost' = 1
      BY <1>6 DEF ReturnBoth
    <2>6. GhostRuns'
      BY <1>1, <2>1 DEF GhostRuns
    <2>7. GhostCopies'
      BY <1>1, <1>6, <2>1, <2>4 DEF PassInv, Match, InGhost, GhostCopies
    <2> QED
      BY <1>1, <1>2, <1>5, <2>4, <2>5, <2>6, <2>7 DEF PassInv, Match, InGhost
  <1>7. CASE ghost # 1
    <2>1. ghost' # 1
      BY <1>7 DEF ReturnBoth
    <2>2. Shows(team, truth.body) /\ truth.body \in Bodies
      BY <1>7, ShownTeam
    <2>3. Enter \/ team' \in {Survivor(Select(team, first)), Captured(Select(team, team.anchor)),
                              Select(team, first), Select(team, team.anchor), Driving, team}
      BY DEF ReturnBoth
    <2>4. Shows(Select(team, first), truth.body) /\ Shows(Select(team, team.anchor), truth.body)
      BY <1>3, <1>7, <2>2, SelectShows
    <2>5. /\ Shows(Survivor(Select(team, first)), truth.body)
          /\ Shows(Captured(Select(team, team.anchor)), truth.body)
          /\ Shows(Driving, truth.body)
      BY <1>7, <2>2, <2>4, SurvivorShows, CapturedShows, DrivingShows
    <2>6. Shows(team', truth.body)
      BY <1>7, <2>2, <2>3, <2>4, <2>5, EnterShows
    <2> QED
      BY <1>1, <1>2, <1>5, <1>7, <2>1, <2>6, PassInvSameBodies
  <1> QED
    BY <1>6, <1>7

\* The routines of the enemies: the nearest body, the remembered one, the driver.

LEMMA StartEnemyKeeps == ASSUME PassInv, NEW r, StartEnemy(r) PROVE PassInv'
  <1>1. /\ routine = "idle" /\ frame = "guest" /\ asking = "none" /\ ghost # 1
        /\ UNCHANGED <<truth, foe, frame, first, back, carry, claim, asking, ghost>>
    BY IdleNoGhost DEF StartEnemy, Run, query, Clock
  <1>2. /\ Shows(team, truth.body) /\ truth.body \in Bodies /\ team.current \in Seats
    BY <1>1, ShownTeam
  <1> DEFINE c == Captured(team)
  <1>3. Shows(c, truth.body) /\ c.anchor \in Seats
    BY <1>1, <1>2, CapturedShows DEF Shows, TeamRecord
  <1>4. claim \in [Takers -> Seats \cup {None}] /\ "chaser" \in Takers
        /\ ("slime" \in taken => claim["slime"] \in Seats)
    BY DEF PassInv, Remembered, Takers
  <1>5. PICK free \in BOOLEAN :
          LET lost == r = "chaser" /\ "chaser" \in taken /\ claim["chaser"] # None
                      /\ ~Stands(c, claim["chaser"]) /\ free
              held == IF lost THEN taken \ {"chaser"} ELSE taken
          IN \E s \in IF ~Approached(r) THEN {team.current}
                      ELSE IF lost THEN Standing(c) ELSE Nearest(c, r) :
                LET t == IF Approached(r) THEN Select(c, s) ELSE team
                    pins == r = "slime" /\ "slime" \in taken
                IN /\ team' = IF pins /\ Pinned(t) THEN Select(t, claim["slime"]) ELSE t
                   /\ taken' = IF pins /\ ~Pinned(t) THEN held \ {"slime"} ELSE held
    BY DEF StartEnemy
  <1> HIDE DEF c
  <1>6. Standing(c) \subseteq Seats /\ Nearest(c, r) \subseteq Seats
    BY <1>3, <1>4 DEF Standing, Nearest
  <1>7. PICK s \in Seats, lost \in BOOLEAN :
          LET t == IF Approached(r) THEN Select(c, s) ELSE team
              held == IF lost THEN taken \ {"chaser"} ELSE taken
              pins == r = "slime" /\ "slime" \in taken
          IN /\ team' = IF pins /\ Pinned(t) THEN Select(t, claim["slime"]) ELSE t
             /\ taken' = IF pins /\ ~Pinned(t) THEN held \ {"slime"} ELSE held
    BY <1>2, <1>5, <1>6
  <1> DEFINE t == IF Approached(r) THEN Select(c, s) ELSE team
  <1>8. Shows(t, truth.body)
    BY <1>1, <1>2, <1>3, SelectShows
  <1>9. /\ team' \in {IF "slime" \in taken THEN Select(t, claim["slime"]) ELSE t, t}
        /\ taken' \subseteq taken
    BY <1>7
  <1> HIDE DEF t
  <1>10. Shows(team', truth.body)
    BY <1>1, <1>2, <1>4, <1>8, <1>9, SelectShows
  <1>11. Remembered'
    BY <1>1, <1>4, <1>9 DEF Remembered
  <1>12. ret' \in Seats \cup {None}
    <2>1. team'.current \in Seats
      BY <1>10 DEF Shows, TeamRecord
    <2>2. ret' \in {team.current, None}
      BY DEF StartEnemy
    <2> QED
      BY <1>2, <2>2
  <1>13. Marks'
    BY <1>1, <1>12 DEF PassInv, Marks
  <1> QED
    BY <1>1, <1>10, <1>11, <1>13, PassInvSameBodies

LEMMA EndEnemyKeeps == PassInv /\ EndEnemy => PassInv'
  <1> SUFFICES ASSUME PassInv, EndEnemy PROVE PassInv'
    OBVIOUS
  <1>1. /\ ghost # 1 /\ ghost' # 1 /\ routine' = "idle" /\ ret' = None /\ back' = None
        /\ UNCHANGED <<truth, foe, frame, first, carry, taken, asking>>
        /\ asking = "none"
    BY DEF EndEnemy, Over, Roster, Clock
  <1>2. /\ Shows(team, truth.body) /\ truth.body \in Bodies /\ team.anchor \in Seats
        /\ team.current \in Seats
    BY <1>1, ShownTeam
  <1> DEFINE t == CASE back # None -> Select(team, back)
                    [] routine = "slime" -> Select(team, team.anchor)
                    [] OTHER -> team
             s == IF scene THEN t.anchor ELSE ret
  <1>3. Shows(t, truth.body)
    <2>1. back # None => back \in Seats
      BY DEF PassInv, Marks
    <2>2. t \in {IF back # None THEN Select(team, back) ELSE team,
                 Select(team, team.anchor), team}
      OBVIOUS
    <2> HIDE DEF t
    <2> QED
      BY <1>1, <1>2, <2>1, <2>2, SelectShows
  <1>4. team' = IF ret = None THEN t ELSE Survivor(Select(t, s))
    BY DEF EndEnemy
  <1>5. ret # None => s \in Seats
    <2> HIDE DEF t
    <2> QED
      BY <1>3 DEF PassInv, Marks, Shows, TeamRecord
  <1> HIDE DEF t, s
  <1>6. Shows(team', truth.body)
    BY <1>1, <1>2, <1>3, <1>4, <1>5, SelectShows, SurvivorShows
  <1>7. Remembered'
    <2>1. claim' \in {claim, [claim EXCEPT !["chaser"] = team.current],
                      [claim EXCEPT !["chaser"] = None]}
      BY DEF EndEnemy
    <2> QED
      BY <1>1, <1>2, <2>1 DEF PassInv, Remembered, Takers
  <1>8. Marks'
    BY <1>1 DEF PassInv, Marks
  <1> QED
    BY <1>1, <1>6, <1>7, <1>8, PassInvSameBodies

LEMMA StartItemKeeps == PassInv /\ StartItem => PassInv'
  <1> SUFFICES ASSUME PassInv, StartItem PROVE PassInv'
    OBVIOUS
  <1>1. /\ routine = "idle" /\ frame = "guest" /\ asking = "none" /\ ghost # 1
        /\ UNCHANGED <<truth, foe, frame, first, back, ret, carry, taken, asking, ghost>>
    BY IdleNoGhost DEF StartItem, Run, query, Clock
  <1>2. Shows(team, truth.body) /\ truth.body \in Bodies
    BY <1>1, ShownTeam
  <1>3. claim' \in {claim, [claim EXCEPT !["item"] = None]}
    BY DEF StartItem, ClaimOfItem
  <1>4. Remembered'
    BY <1>1, <1>3 DEF PassInv, Remembered, Takers
  <1>5. claim'["item"] \in Seats \cup {None}
    BY <1>4 DEF Remembered, Takers
  <1>6. team' = IF claim'["item"] # None THEN Select(team, claim'["item"]) ELSE team
    BY DEF StartItem
  <1>7. Shows(team', truth.body)
    BY <1>1, <1>2, <1>5, <1>6, SelectShows
  <1>8. Marks'
    BY <1>1 DEF PassInv, Marks
  <1> QED
    BY <1>1, <1>4, <1>7, <1>8, PassInvSameBodies

LEMMA EndItemKeeps == PassInv /\ EndItem => PassInv'
  <1> SUFFICES ASSUME PassInv, EndItem PROVE PassInv'
    OBVIOUS
  <1>1. /\ routine = "item" /\ routine' = "idle" /\ asking = "none"
        /\ UNCHANGED <<truth, foe, frame, first, back, ret, carry, asking, ghost, claim>>
    BY DEF EndItem, Over, Clock
  <1>2. ghost # 1
    BY <1>1 DEF PassInv, Match, InGhost, GhostRuns
  <1>3. Shows(team, truth.body) /\ truth.body \in Bodies /\ team.anchor \in Seats
    BY <1>2, ShownTeam
  <1>4. Shows(team', truth.body)
    BY <1>2, <1>3, SelectShows DEF EndItem
  <1>5. Remembered'
    BY <1>1 DEF EndItem, Released, PassInv, Remembered
  <1>6. Marks'
    BY <1>1 DEF PassInv, Marks
  <1> QED
    BY <1>1, <1>2, <1>4, <1>5, <1>6, PassInvSameBodies

LEMMA EndOwnKeeps == PassInv /\ EndOwn => PassInv'
  <1> SUFFICES ASSUME PassInv, EndOwn PROVE PassInv'
    OBVIOUS
  <1>1. ghost # 1
    BY DEF EndOwn, PassInv, Match, InGhost, GhostRuns
  <1>2. Remembered'
    BY DEF EndOwn, Over, Objs, PassInv, Remembered
  <1>3. Marks'
    BY DEF EndOwn, Over, Objs, Clock, PassInv, Marks
  <1> QED
    BY <1>1, <1>2, <1>3, PassInvStill DEF EndOwn, Objs

\* The turret's aim, and what takers do.
LEMMA AimKeeps == PassInv /\ (Aim \/ Aimed) => PassInv'
  <1> SUFFICES ASSUME PassInv, Aim \/ Aimed PROVE PassInv'
    OBVIOUS
  <1>1. CASE Aim
    <2>1. /\ routine = "turret" /\ asking' = "aim"
          /\ UNCHANGED <<truth, foe, frame, first, ret, carry, claim, taken, routine, ghost>>
      BY <1>1 DEF Aim, Objs, Clock
    <2>2. ghost # 1
      BY <2>1 DEF PassInv, Match, InGhost, GhostRuns
    <2>3. Shows(team, truth.body) /\ truth.body \in Bodies /\ team.current \in Seats
      BY <2>2, ShownTeam
    <2>4. claim["sensor"] \in Seats \cup {None}
      BY DEF PassInv, Remembered, Takers
    <2>5. \/ claim["sensor"] # None /\ back' = team.current
             /\ team' = Select(team, claim["sensor"])
          \/ UNCHANGED <<team, back>>
      BY <1>1 DEF Aim
    <2>6. Shows(team', truth.body) /\ back' \in Seats \cup {None}
      BY <2>2, <2>3, <2>4, <2>5, SelectShows DEF PassInv, Marks
    <2>7. Remembered'
      BY <2>1 DEF PassInv, Remembered
    <2>8. Marks'
      BY <2>1, <2>6 DEF PassInv, Marks
    <2> QED
      BY <2>1, <2>2, <2>6, <2>7, <2>8, PassInvSameBodies
  <1>2. CASE Aimed
    <2>1. /\ asking = "aim" /\ asking' = "none" /\ back' = None
          /\ UNCHANGED <<truth, foe, frame, first, ret, carry, claim, taken, routine, ghost>>
      BY <1>2 DEF Aimed, Objs, Clock
    <2>2. ghost # 1
      BY <2>1 DEF PassInv, Match, InGhost, GhostRuns
    <2>3. Shows(team, truth.body) /\ truth.body \in Bodies
      BY <2>2, ShownTeam
    <2>4. team' = IF back # None THEN Select(team, back) ELSE team
      BY <1>2 DEF Aimed
    <2>5. Shows(team', truth.body)
      BY <2>2, <2>3, <2>4, SelectShows DEF PassInv, Marks
    <2>6. Remembered'
      BY <2>1 DEF PassInv, Remembered
    <2>7. Marks'
      BY <2>1 DEF PassInv, Marks
    <2> QED
      BY <2>1, <2>2, <2>5, <2>6, <2>7, PassInvSameBodies
  <1> QED
    BY <1>1, <1>2

LEMMA TakersKeep == PassInv /\ (Catch \/ LetGo) => PassInv'
  <1> SUFFICES ASSUME PassInv, Catch \/ LetGo PROVE PassInv'
    OBVIOUS
  <1>1. /\ UNCHANGED <<team, truth, foe, ghost, saved, routine, asking, turn, claim, frame, first,
                       ret, back, carry>>
        /\ taken' \subseteq taken \cup {"chaser"}
    BY DEF Catch, LetGo, Released, query, Clock
  <1>2. Remembered'
    BY <1>1 DEF PassInv, Remembered
  <1>3. Marks'
    BY <1>1 DEF PassInv, Marks
  <1>4. ghost = 1 => GhostRuns'
    BY <1>1 DEF PassInv, Match, InGhost, GhostRuns
  <1> QED
    BY <1>1, <1>2, <1>3, <1>4, PassInvStill
-----------------------------------------------------------------------------
\* Ghosts, and the writes of the guest.

LEMMA GhostBeginKeeps == PassInv /\ GhostBegin => PassInv'
  <1> SUFFICES ASSUME PassInv, GhostBegin PROVE PassInv'
    OBVIOUS
  <1> DEFINE o == Other(team.current)
  <1>1. /\ ghost # 1 /\ ghost' = 1
        /\ UNCHANGED <<truth, foe, frame, first, ret, back, carry, claim, taken, routine, asking, turn>>
    BY DEF GhostBegin, query, Objs, Clock
  <1>2. /\ Shows(team, truth.body) /\ foe = truth.foe /\ team \in TeamRecord /\ o \in Seats
        /\ team.stored[o] = truth.body[o] /\ team.live = truth.body[team.current]
    BY <1>1, ShownTeam, SeatsHaveOther DEF Shows
  <1>3. saved' = [team |-> team, foe |-> foe] /\ team' = [team EXCEPT !.live = team.stored[o]]
    BY DEF GhostBegin
  <1>4. /\ team' \in TeamRecord /\ team'.current = team.current /\ team'.live = truth.body[o]
        /\ saved'.team = team /\ saved'.foe = foe
    BY <1>2, <1>3 DEF TeamRecord
  <1>5. GhostCopies'
    BY <1>1, <1>2, <1>4 DEF GhostCopies
  <1>6. GhostRuns'
    BY <1>1 DEF GhostBegin, GhostRuns
  <1>7. Remembered' /\ Marks'
    BY <1>1 DEF PassInv, Remembered, Marks
  <1> QED
    BY <1>1, <1>4, <1>5, <1>6, <1>7 DEF PassInv, Match, InGhost

LEMMA GhostEndKeeps == PassInv /\ GhostEnd => PassInv'
  <1> SUFFICES ASSUME PassInv, GhostEnd PROVE PassInv'
    OBVIOUS
  <1> DEFINE o == Other(team.current)
  <1>1. /\ ghost = 1 /\ ghost' = 2 /\ foe' = saved.foe
        /\ UNCHANGED <<truth, frame, first, ret, back, carry, claim, taken, routine, asking>>
    BY DEF GhostEnd, query, Clock
  <1>2. GhostCopies /\ team \in TeamRecord /\ o \in Seats /\ truth.body \in Bodies
        /\ (routine = "shots" \/ routine = "fighter")
    BY <1>1, SeatsHaveOther DEF PassInv, Match, InGhost, GhostRuns, TeamRecord
  <1>3. /\ saved.team \in TeamRecord /\ saved.team.current = team.current
        /\ saved.team.live = truth.body[team.current] /\ team.live = truth.body[o]
        /\ truth.body[o] \in Body /\ saved.team.stored[o] \in Body
    BY <1>2 DEF GhostCopies, Bodies, TeamRecord
  <1>4. team' = [saved.team EXCEPT !.stored[o] =
                    IF routine = "shots" THEN [@ EXCEPT !.at = team.live.at] ELSE team.live]
    BY <1>3 DEF GhostEnd
  <1>5. team' = [saved.team EXCEPT !.stored[o] = truth.body[o]]
    <2>1. CASE routine = "shots"
      <3>1. saved.team.stored[o].hp = truth.body[o].hp
        BY <1>2, <2>1 DEF GhostCopies
      <3>2. [saved.team.stored[o] EXCEPT !.at = team.live.at] = truth.body[o]
        BY <1>3, <3>1 DEF Body
      <3> QED
        BY <1>4, <2>1, <3>2
    <2>2. CASE routine # "shots"
      BY <1>3, <1>4, <2>2
    <2> QED
      BY <2>1, <2>2
  <1>6. /\ team' \in TeamRecord /\ team'.current = team.current
        /\ team'.live = truth.body[team.current] /\ team'.stored[o] = truth.body[o]
    BY <1>2, <1>3, <1>5 DEF TeamRecord
  <1>7. (Shows(team, truth.body))'
    BY <1>1, <1>6 DEF Shows
  <1>8. foe' = truth'.foe
    BY <1>1, <1>2 DEF GhostCopies
  <1>9. Remembered' /\ Marks'
    BY <1>1 DEF PassInv, Remembered, Marks
  <1> QED
    BY <1>1, <1>6, <1>7, <1>8, <1>9 DEF PassInv, Match

\* A write to the live body is a write to the body of the seat that is seen.
LEMMA LiveWrite ==
  ASSUME PassInv, NEW x \in Body,
         team' = [team EXCEPT !.live = x], truth' = [truth EXCEPT !.body[Seen] = x],
         UNCHANGED <<foe, ghost, saved, routine, asking, turn>>, Remembered', Marks',
         ghost = 1 /\ routine = "shots" => x.hp = team.live.hp
  PROVE  PassInv'
  <1> DEFINE o == Other(team.current)
  <1>1. /\ team \in TeamRecord /\ truth \in [body : Bodies, foe : 0..1]
        /\ team.current \in Seats /\ o \in Seats /\ o # team.current
    BY SeatsHaveOther DEF PassInv, TeamRecord
  <1>2. /\ team' \in TeamRecord /\ team'.current = team.current /\ team'.live = x
        /\ team'.stored = team.stored
    BY <1>1 DEF TeamRecord
  <1>3. /\ truth'.body = [truth.body EXCEPT ![Seen] = x] /\ truth'.foe = truth.foe
        /\ truth' \in [body : Bodies, foe : 0..1]
    BY <1>1 DEF Bodies
  <1>4. CASE ghost = 1
    <2>1. Seen = o
      BY <1>4 DEF Seen
    <2>2. truth'.body[o] = x /\ truth'.body[team.current] = truth.body[team.current]
      BY <1>1, <1>3, <2>1 DEF Bodies
    <2>3. GhostRuns /\ GhostCopies
      BY <1>4 DEF PassInv, Match, InGhost
    <2>4. GhostRuns'
      BY <2>3 DEF GhostRuns
    <2>5. GhostCopies'
      BY <1>2, <1>3, <1>4, <2>2, <2>3 DEF GhostCopies
    <2> QED
      BY <1>2, <1>3, <1>4, <2>4, <2>5 DEF PassInv, Match, InGhost
  <1>5. CASE ghost # 1
    <2>1. Seen = team.current
      BY <1>5 DEF Seen
    <2>2. truth'.body[team.current] = x /\ truth'.body[o] = truth.body[o]
      BY <1>1, <1>3, <2>1 DEF Bodies
    <2>3. (Shows(team, truth.body))'
      BY <1>2, <1>5, <2>2 DEF PassInv, Match, Shows
    <2> QED
      BY <1>2, <1>3, <1>5, <2>3 DEF PassInv, Match
  <1> QED
    BY <1>4, <1>5

\* What is live is a body, and it is the one of the seat that is seen.
LEMMA LiveIsSeen ==
  ASSUME PassInv
  PROVE  team.live \in Body /\ Seen \in Seats /\ truth.body[Seen] = team.live
  <1>1. team.live \in Body /\ team.current \in Seats /\ Other(team.current) \in Seats
    BY SeatsHaveOther DEF PassInv, TeamRecord
  <1>2. CASE ghost = 1
    BY <1>1, <1>2 DEF Seen, PassInv, Match, InGhost, GhostCopies
  <1>3. CASE ghost # 1
    BY <1>1, <1>3 DEF Seen, PassInv, Match, Shows
  <1> QED
    BY <1>1, <1>2, <1>3

LEMMA BodyMovesKeeps == PassInv /\ BodyMoves => PassInv'
  <1> SUFFICES ASSUME PassInv, BodyMoves PROVE PassInv'
    OBVIOUS
  <1> DEFINE x == Moved(team.live)
  <1>1. x \in Body /\ x.hp = team.live.hp
    BY LiveIsSeen DEF Moved, Body
  <1>2. team' = [team EXCEPT !.live = x] /\ truth' = [truth EXCEPT !.body[Seen] = x]
    <2>1. truth' = [truth EXCEPT !.body[Seen] = Moved(truth.body[Seen])]
      BY DEF BodyMoves
    <2> QED
      BY <2>1, LiveIsSeen DEF BodyMoves
  <1>3. /\ UNCHANGED <<foe, ghost, saved, routine, asking, turn>>
        /\ Remembered' /\ Marks'
    BY DEF BodyMoves, Objs, Clock, query, PassInv, Remembered, Marks
  <1> HIDE DEF x
  <1> QED
    BY <1>1, <1>2, <1>3, LiveWrite

LEMMA BodyHurtKeeps == PassInv /\ BodyHurt => PassInv'
  <1> SUFFICES ASSUME PassInv, BodyHurt PROVE PassInv'
    OBVIOUS
  <1> DEFINE x == [team.live EXCEPT !.hp = 0]
  <1>1. x \in Body
    BY LiveIsSeen DEF Body
  <1>2. team' = [team EXCEPT !.live = x]
    BY DEF BodyHurt, PassInv, TeamRecord
  <1>3. truth' = [truth EXCEPT !.body[Seen] = x]
    <2>1. truth' = [truth EXCEPT !.body[Seen] = [truth.body[Seen] EXCEPT !.hp = 0]]
      BY DEF BodyHurt
    <2> QED
      BY <2>1, LiveIsSeen
  <1>4. /\ UNCHANGED <<foe, ghost, saved, routine, asking, turn>>
        /\ Remembered' /\ Marks'
    BY DEF BodyHurt, Objs, Clock, query, PassInv, Remembered, Marks
  <1>5. ~(ghost = 1 /\ routine = "shots")
    BY DEF BodyHurt, PassInv, Match, InGhost, GhostRuns
  <1> HIDE DEF x
  <1> QED
    BY <1>1, <1>2, <1>3, <1>4, <1>5, LiveWrite

LEMMA FoeMovesKeeps == PassInv /\ FoeMoves => PassInv'
  <1> SUFFICES ASSUME PassInv, FoeMoves PROVE PassInv'
    OBVIOUS
  <1>1. /\ UNCHANGED <<team, ghost, saved, routine, asking, turn>>
        /\ Remembered' /\ Marks'
    BY DEF FoeMoves, Clock, query, PassInv, Remembered, Marks
  <1>2. CASE ghost = 1
    <2>1. truth' = truth
      BY <1>2 DEF FoeMoves
    <2> QED
      BY <1>1, <1>2, <2>1 DEF PassInv, Match, InGhost, GhostRuns, GhostCopies
  <1>3. CASE ghost # 1
    <2>1. /\ truth' = [truth EXCEPT !.foe = 1 - truth.foe] /\ foe' = 1 - foe
          /\ foe = truth.foe
      BY <1>3 DEF FoeMoves, PassInv, Match
    <2>2. /\ truth' \in [body : Bodies, foe : 0..1] /\ truth'.body = truth.body
          /\ truth'.foe = 1 - truth.foe
      BY <2>1 DEF PassInv
    <2> QED
      BY <1>1, <1>3, <2>1, <2>2 DEF PassInv, Match, Shows
  <1> QED
    BY <1>2, <1>3

LEMMA FallenKeeps == PassInv /\ Fallen => PassInv'
  <1> SUFFICES ASSUME PassInv, Fallen PROVE PassInv'
    OBVIOUS
  <1>1. ghost # 1 /\ ghost' = ghost /\ UNCHANGED <<truth, foe>>
    BY DEF Fallen, Objs, PassInv, Match, InGhost, GhostRuns
  <1>2. Shows(team', truth.body)
    BY <1>1, ShownTeam, CapturedShows DEF Fallen
  <1>3. Remembered' /\ Marks'
    BY DEF Fallen, Objs, Clock, query, PassInv, Remembered, Marks
  <1> QED
    BY <1>1, <1>2, <1>3, PassInvSameBodies

-----------------------------------------------------------------------------
LEMMA PassInitInv == PassesInit => PassInv
  <1> SUFFICES ASSUME PassesInit PROVE PassInv
    OBVIOUS
  <1>1. Fresh \in Body /\ 0 \in Seats /\ Other(0) \in Seats
    BY DEF Fresh, Body, Seats, Other
  <1>2. /\ team \in TeamRecord /\ truth \in [body : Bodies, foe : 0..1]
        /\ truth.body = [s \in Seats |-> Fresh] /\ truth.foe = 0 /\ foe = 0
        /\ team.live = Fresh /\ team.current = 0 /\ team.stored = [s \in Seats |-> Fresh]
    BY <1>1 DEF PassesInit, AtStart, TeamRecord, Bodies
  <1>3. ghost # 1 /\ Shows(team, truth.body)
    BY <1>1, <1>2 DEF PassesInit, Shows
  <1>4. Remembered /\ Marks
    BY <1>1 DEF PassesInit, Remembered, Marks
  <1> QED
    BY <1>2, <1>3, <1>4 DEF PassInv, Match

LEMMA PassStep == PassInv /\ [PassesNext]_passesVars => PassInv'
  <1> SUFFICES ASSUME PassInv, [PassesNext]_passesVars PROVE PassInv'
    OBVIOUS
  <1>1. CASE FrameTick \/ Placed \/ EndFrame \/ CarryEarly \/ TeamReset
    BY <1>1, FrameTickKeeps, PlacedKeeps, EndFrameKeeps, CarryEarlyKeeps, TeamResetKeeps
  <1>2. CASE StartRoutine
    BY <1>2, StartOwnKeeps, StartEnemyKeeps, StartItemKeeps DEF StartRoutine
  <1>3. CASE EndRoutine
    BY <1>3, EndOwnKeeps, EndEnemyKeeps, EndItemKeeps DEF EndRoutine
  <1>4. CASE StartQuery \/ ReturnAlone \/ ReturnOnly \/ AskAgain \/ ReturnBoth
    BY <1>4, StartQueryKeeps, ReturnAloneKeeps, ReturnOnlyKeeps, AskAgainKeeps, ReturnBothKeeps
  <1>5. CASE Aim \/ Aimed \/ Catch \/ LetGo
    BY <1>5, AimKeeps, TakersKeep
  <1>6. CASE GhostBegin \/ GhostEnd
    BY <1>6, GhostBeginKeeps, GhostEndKeeps
  <1>7. CASE BodyMoves \/ BodyHurt \/ FoeMoves \/ Fallen
    BY <1>7, BodyMovesKeeps, BodyHurtKeeps, FoeMovesKeeps, FallenKeeps
  <1>8. CASE UNCHANGED passesVars
    <2>1. /\ UNCHANGED <<team, truth, foe, ghost, saved, routine, asking, turn, claim, taken, frame,
                         first, ret, back, carry>>
      BY <1>8 DEF passesVars, query
    <2> QED
      BY <2>1 DEF PassInv, Remembered, Marks, Match, InGhost, GhostRuns, GhostCopies, Shows
  <1> QED
    BY <1>1, <1>2, <1>3, <1>4, <1>5, <1>6, <1>7, <1>8 DEF PassesNext

\* Whatever casts of routines meet, with one camera or two, beside a learner or
\* not: no write to a body is lost and no object moves twice.
THEOREM BodiesKeptAlways == PassesSpec => []BodiesKept
  <1>1. PassInv => BodiesKept
    BY DEF PassInv, Match, Shows, BodiesKept
  <1> QED
    BY PassInitInv, PassStep, <1>1, PTL DEF PassesSpec

-----------------------------------------------------------------------------
(***************************************************************************)
(* Who is projected, who is remembered and who has been asked, whatever    *)
(* routines of the guest meet.  One invariant in four parts: the query is  *)
(* one of the routine's (Nested), the seats that may come back are the     *)
(* driver or a dead one (Ways), the seat an object remembers is the one it *)
(* took (Claims), and the passes of a query are those it owes (Answers).   *)
(***************************************************************************)

-----------------------------------------------------------------------------
(* Whose body comes back *)

\* The queries of each routine.
AskedIn(r) ==
    CASE r = "controller" -> {"controller"} [] r = "object" -> {"object"} [] r = "shots" -> {"shots"}
      [] r = "armor" -> {"board"} [] r = "door" -> {"door"} [] r = "item" -> {"pickup"}
      [] r = "fighter" -> {"contact", "shot"} [] r = "solid" -> {"contact", "lift"}
      [] r = "platform" -> {"platform"} [] r = "chaser" -> {"contact"} [] r = "sensor" -> {"laser"}
      [] r = "turret" -> {"aim"} [] r = "eagle" -> {"eagle"} [] r = "slime" -> {"slime"}
      [] OTHER -> {}
Queried == asking \notin {"none", "aim"}
Nested ==
    /\ routine \in Routines \cup {"idle"}
    /\ routine # "idle" => routine \in game.cast
    /\ asking = "none" \/ asking \in AskedIn(routine)
    /\ turn \in 0..2 /\ (~Queried => turn = 0)
    /\ Queried /\ turn # 2 => first = team.current
    /\ game.own \in BOOLEAN /\ said \in [Seats -> BOOLEAN] /\ (routine = "idle" => said = Nobody)
    /\ ret # None => routine \in Projected /\ (game.own \/ routine = "chaser")
    /\ back # None => (routine = "sensor" /\ asking = "none" /\ "sensor" \in taken) \/ asking = "aim"
    /\ ghost = 1 /\ routine = "fighter" => ~game.own

\* The team a ghost will bring back, or the team.
Base == IF ghost = 1 THEN saved.team ELSE team
Brought == game.own \/ "chaser" \in game.cast
\* A seat the guest may be left with: the driver's, or a dead one brought back.
Safe(s) == s = Base.anchor \/ (Brought /\ truth.body[s].hp = 0)
Present(s) == status[s] = "alive" \/ truth.body[s].hp = 0

\* Queries that come back to the seat asked first.
Returning == {"contact", "shot", "lift", "laser", "board"}
Ways ==
    /\ Present(Base.anchor)
    /\ ghost = 1 /\ routine = "fighter" => Base.current = Base.anchor
    /\ ghost = 1 /\ routine = "shots" => Base.anchor = team.anchor
    /\ routine \notin {"item", "slime"} /\ ret = None /\ back = None /\ turn # 2 => Safe(Base.current)
    /\ ret = None /\ turn = 2 /\ asking \in Returning => Safe(first)
    /\ ret = None /\ back # None => Safe(back)
    /\ ret # None => Present(ret) /\ (scene \/ Safe(ret))
    /\ asking \in {"door", "eagle"} /\ turn # 0 => ~scene /\ status[Other(team.anchor)] = "alive"
    /\ asking = "board" /\ turn # 0 => status[Other(first)] = "alive"
                                     /\ (turn = 2 => team.current = Other(first))

-----------------------------------------------------------------------------
(* What takers remember *)

Kept(o) == o \in taken /\ got[o] # None
Claims ==
    /\ taken \subseteq Takers /\ got \in [Takers -> Seats \cup {None}]
    /\ \A o \in {"sensor", "slime", "item"} : Kept(o) => claim[o] = got[o]
    /\ Kept("chaser") => \/ claim["chaser"] = got["chaser"]
                         \/ routine = "chaser" /\ ret # None
    /\ routine \in taken => asking = "none"
    /\ \/ routine = "item"
       \/ routine = "chaser" /\ ret # None
       \/ routine = "slime" /\ said = Nobody
       => (Kept(routine) => team.current = got[routine])
    /\ asking = "aim" /\ Kept("sensor") /\ Stands(team, got["sensor"]) => team.current = got["sensor"]
    /\ asking = "slime" /\ turn = 0 => claim["slime"] = team.current
    /\ routine = "item" /\ "item" \notin taken => claim["item"] = None

-----------------------------------------------------------------------------
(* Whom a query has asked *)

Counting == Queried /\ (ghost # 1 \/ routine = "shots") /\ fit # {}
Answers ==
    Counting =>
        /\ fit \subseteq Seats
        /\ turn # 2 => asked = [s \in Seats |-> IF s = team.current THEN 1 ELSE 0]
        /\ turn = 0 => fit \subseteq {team.current}
        /\ turn = 1 /\ asking \in ByDriver => team.current = team.anchor
        /\ turn = 1 /\ Other(team.current) \in fit =>
              /\ asking = "controller" => ~scene /\ status[Other(team.current)] = "alive"
              /\ asking \in {"platform", "laser"} => Stands(team, Other(team.current))
        /\ turn = 2 => /\ asked = [s \in Seats |-> 1] /\ team.current = Other(first)
                       /\ said[first] = firstSaid /\ ~flag
                       /\ asking = "platform" => (first \in riders <=> said[first])

WaysInv == PassInv /\ Nested /\ Ways /\ Claims /\ Answers

-----------------------------------------------------------------------------
(* The queries are those of the routine, and each ends before it does *)

LEMMA NestedInitially == PassesInit => Nested
  BY PassesAssumption DEF PassesInit, Nested, Queried, Nobody, Seats, None

\* What the guest runs and asks, and whom the host brings back.
nesting == <<routine, asking, turn, first, said, ret, back, ghost, game, taken, team.current>>
LEMMA NestedStill == Nested /\ UNCHANGED nesting => Nested'
  BY DEF Nested, nesting, Queried

\* Where a ghost may run.
LEMMA GhostPlace ==
  ASSUME PassInv, Nested
  PROVE  /\ team.current \in Seats /\ team.anchor \in Seats /\ Other(team.current) \in Seats
         /\ Other(team.anchor) \in Seats /\ first \in Seats /\ Seen \in Seats
         /\ ret \in Seats \cup {None} /\ back \in Seats \cup {None} /\ carry \in Seats \cup {None}
         /\ ghost = 1 => \/ routine = "fighter" /\ asking \in {"none", "contact", "shot"} /\ ~game.own
                         \/ routine = "shots" /\ asking = "shots" /\ turn # 0
         /\ ghost = 1 => ret = None /\ back = None
  <1>1. /\ team.current \in Seats /\ team.anchor \in Seats /\ Other(team.current) \in Seats
        /\ Other(team.anchor) \in Seats /\ first \in Seats
        /\ ret \in Seats \cup {None} /\ back \in Seats \cup {None} /\ carry \in Seats \cup {None}
    BY SeatsHaveOther DEF PassInv, TeamRecord, Marks
  <1>2. ghost = 1 => \/ routine = "fighter" /\ asking \in {"none", "contact", "shot"} /\ ~game.own
                     \/ routine = "shots" /\ asking = "shots" /\ turn # 0
    BY DEF PassInv, Match, InGhost, GhostRuns, Nested
  <1>3. ghost = 1 => ret = None /\ back = None
    BY <1>2 DEF Nested, Projected
  <1> QED
    BY <1>1, <1>2, <1>3 DEF Seen

LEMMA NestedHost ==
  ASSUME PassInv, Nested, FrameTick \/ Placed \/ EndFrame \/ CarryEarly \/ TeamReset
  PROVE  Nested'
  <1>1. /\ UNCHANGED <<routine, asking, turn, first, said, ret, back, ghost, game>>
        /\ asking = "none" \/ routine = "idle"
    BY DEF FrameTick, Placed, EndFrame, CarryEarly, TeamReset, Roster, query, PassInv, Marks
  <1>2. asking = "none"
    BY <1>1 DEF Nested, AskedIn
  <1>3. routine = "idle" \/ taken' = taken
    BY DEF FrameTick, Placed, EndFrame, CarryEarly, TeamReset, PassInv, Marks
  <1>4. back # None => taken' = taken
    BY <1>2, <1>3 DEF Nested
  <1> QED
    BY <1>1, <1>2, <1>4 DEF Nested, Queried

\* A query opens for the body the guest has.
LEMMA OpenNests ==
  ASSUME PassInv, Nested, NEW k, Open(k), k \in AskedIn(routine'), k # "aim", k # "none", team' = team,
         routine' \in game.cast, routine' \in Routines, UNCHANGED <<ret, ghost, game, back>>, back = None,
         routine' = routine \/ (routine = "idle" /\ ghost # 1 /\ ret = None)
  PROVE  Nested'
  <1>1. /\ asking = "none" /\ asking' = k /\ turn' \in 0..2 /\ first' = team.current /\ said' = Nobody
    BY DEF Open
  <1>2. Nobody \in [Seats -> BOOLEAN]
    BY DEF Nobody
  <1> QED
    BY <1>1, <1>2 DEF Nested, Queried

LEMMA NestedOpens ==
  ASSUME PassInv, Nested, Claims, StartQuery \/ (\E r, k : StartOwn(r, k) /\ <<r, k>> \in
            {<<"controller", "controller">>, <<"object", "object">>, <<"shots", "shots">>, <<"armor", "board">>, <<"door", "door">>})
  PROVE  Nested'
  <1>1. CASE StartQuery
    <2>1. PICK k \in Queries(routine) : Open(k)
      BY <1>1 DEF StartQuery
    <2>2. /\ UNCHANGED <<team, routine, ret, ghost, game, back>> /\ routine \in Projected \cup {"item"}
          /\ asking = "none"
      BY <1>1, <2>1 DEF StartQuery, Roster, Open
    <2>3. k \in AskedIn(routine) /\ k # "aim" /\ k # "none"
      BY <2>1, <2>2 DEF Queries, AskedIn, Projected
    <2>4. routine \in Routines /\ routine \in game.cast
      BY <2>2 DEF Nested, Routines, Projected
    <2>5. back = None
      BY <2>1, <2>2 DEF Nested, Queries
    <2> QED
      BY <2>1, <2>2, <2>3, <2>4, <2>5, OpenNests
  <1>2. ASSUME NEW r, NEW k, StartOwn(r, k),
               <<r, k>> \in {<<"controller", "controller">>, <<"object", "object">>, <<"shots", "shots">>,
                             <<"armor", "board">>, <<"door", "door">>}
        PROVE  Nested'
    <2>1. /\ Open(k) /\ routine = "idle" /\ routine' = r /\ r \in game.cast
          /\ UNCHANGED <<team, ret, ghost, game, back>>
      BY <1>2 DEF StartOwn, Run, Roster
    <2>2. k \in AskedIn(r) /\ r \in Routines /\ k # "aim" /\ k # "none"
      BY <1>2 DEF AskedIn, Routines
    <2>3. ghost # 1 /\ ret = None /\ back = None
      BY <2>1, IdleNoGhost DEF Nested, Projected, Routines, AskedIn
    <2> QED
      BY <2>1, <2>2, <2>3, OpenNests
  <1> QED
    BY <1>1, <1>2

LEMMA NestedReturns ==
  ASSUME PassInv, Nested, ReturnAlone \/ ReturnOnly \/ ReturnBoth
  PROVE  Nested'
  <1>1. PICK on \in BOOLEAN : said' = [said EXCEPT ![Seen] = on] /\ Take(asking, on)
    BY DEF ReturnAlone, ReturnOnly, ReturnBoth
  <1>2. /\ Closed /\ Queried /\ UNCHANGED <<routine, game, ret>>
        /\ ghost' = 1 => ghost = 1
    BY DEF ReturnAlone, ReturnOnly, ReturnBoth, Roster, Quiet, Queried, Nested
  <1>3. back = None
    BY <1>2 DEF Nested, Queried
  <1>4. back' = None \/ (asking = "laser" /\ on /\ ReturnBoth)
    <2>1. CASE ReturnAlone \/ ReturnOnly
      BY <1>3, <2>1 DEF ReturnAlone, ReturnOnly, Quiet
    <2>2. CASE ReturnBoth
      <3>1. PICK really \in BOOLEAN :
               /\ said' = [said EXCEPT ![Seen] = really] /\ Take(asking, really)
               /\ back' = IF asking = "laser" /\ really THEN first ELSE back
        BY <2>2 DEF ReturnBoth
      <3>2. really = on
        BY <1>1, <3>1, GhostPlace DEF Nested
      <3> QED
        BY <1>3, <2>2, <3>1, <3>2
    <2> QED
      BY <2>1, <2>2
  <1>5. back' # None => routine = "sensor" /\ "sensor" \in taken'
    <2>1. SUFFICES ASSUME asking = "laser", on PROVE routine = "sensor" /\ "sensor" \in taken'
      BY <1>4
    <2>2. routine = "sensor"
      BY <2>1 DEF Nested, AskedIn
    <2>3. "sensor" \in taken'
      BY <1>1, <2>1 DEF Take, Keeps, Taker
    <2> QED
      BY <2>2, <2>3
  <1>6. routine # "idle"
    BY <1>2 DEF Nested, AskedIn, Queried
  <1>7. said' \in [Seats -> BOOLEAN]
    BY <1>1 DEF Nested
  <1> QED
    BY <1>2, <1>5, <1>6, <1>7 DEF Nested, Closed, Queried

LEMMA NestedAsksAgain ==
  ASSUME PassInv, Nested, AskAgain
  PROVE  Nested'
  <1>1. /\ turn' = 2 /\ UNCHANGED <<asking, first, ret, back, game, routine, taken>>
        /\ turn = 1 /\ (ghost' = 1 => ghost = 1)
    BY DEF AskAgain, Roster
  <1>2. Queried /\ routine # "idle"
    BY <1>1 DEF Nested, AskedIn, Queried
  <1>3. said' \in [Seats -> BOOLEAN]
    <2>1. PICK on \in BOOLEAN : said' = [said EXCEPT ![Seen] = on]
      BY DEF AskAgain
    <2> QED
      BY <2>1 DEF Nested
  <1> QED
    BY <1>1, <1>2, <1>3 DEF Nested, Queried

LEMMA NestedStarts ==
  ASSUME PassInv, Nested, StartItem \/ \E r \in Projected : StartEnemy(r)
  PROVE  Nested'
  <1>1. CASE StartItem
    <2>1. /\ routine = "idle" /\ routine' = "item" /\ "item" \in game.cast /\ asking = "none"
          /\ UNCHANGED <<asking, turn, first, said, ret, back, ghost, game>>
      BY <1>1 DEF StartItem, Run, query, Roster
    <2>2. ret = None /\ back = None
      BY <2>1 DEF Nested, Projected
    <2> QED
      BY <2>1, <2>2 DEF Nested, Queried, Routines
  <1>2. ASSUME NEW r \in Projected, StartEnemy(r) PROVE Nested'
    <2>1. /\ routine = "idle" /\ routine' = r /\ r \in game.cast /\ asking = "none"
          /\ UNCHANGED <<asking, turn, first, said, back, ghost, game>>
          /\ ret' = IF Approached(r) THEN team.current ELSE None
      BY <1>2 DEF StartEnemy, Run, query, Roster
    <2>2. ghost # 1 /\ back = None
      BY <2>1, IdleNoGhost DEF Nested
    <2>3. ret' # None => game.own \/ r = "chaser"
      BY <2>1 DEF Approached
    <2> QED
      BY <1>2, <2>1, <2>2, <2>3 DEF Nested, Queried, Routines
  <1> QED
    BY <1>1, <1>2

LEMMA NestedEnds ==
  ASSUME PassInv, Nested, EndOwn \/ EndEnemy \/ EndItem
  PROVE  Nested'
  <1>1. /\ routine' = "idle" /\ asking = "none" /\ said' = Nobody /\ ghost # 1
        /\ UNCHANGED <<asking, turn, first, game>> /\ (EndEnemy \/ UNCHANGED <<ret, back, ghost>>)
        /\ EndEnemy => ret' = None /\ back' = None /\ ghost' = 0
        /\ routine \in Projected \/ UNCHANGED <<ret, back, ghost>>
    BY GhostPlace DEF EndOwn, EndEnemy, EndItem, Over, Roster, Projected
  <1>2. ret' = None /\ back' = None /\ ghost' # 1
    <2>1. CASE EndEnemy
      BY <1>1, <2>1
    <2>2. CASE EndOwn \/ EndItem
      <3>1. routine \notin Projected /\ routine # "sensor" /\ UNCHANGED <<ret, back, ghost>>
        BY <2>2 DEF EndOwn, EndItem, Projected
      <3> QED
        BY <1>1, <3>1 DEF Nested
    <2> QED
      BY <2>1, <2>2
  <1>3. Nobody \in [Seats -> BOOLEAN]
    BY DEF Nobody
  <1> QED
    BY <1>1, <1>2, <1>3 DEF Nested, Queried

LEMMA NestedAims ==
  ASSUME PassInv, Nested, Aim \/ Aimed \/ Catch \/ LetGo
  PROVE  Nested'
  <1>1. CASE Aim
    <2>1. /\ routine = "turret" /\ asking = "none" /\ asking' = "aim" /\ turn' = 0
          /\ UNCHANGED <<routine, first, said, ret, ghost, game>>
      BY <1>1 DEF Aim, Roster
    <2> QED
      BY <2>1 DEF Nested, Queried, AskedIn
  <1>2. CASE Aimed
    <2>1. /\ asking = "aim" /\ asking' = "none" /\ back' = None
          /\ UNCHANGED <<routine, turn, first, said, ret, ghost, game>>
      BY <1>2 DEF Aimed, Roster
    <2> QED
      BY <2>1 DEF Nested, Queried
  <1>3. CASE Catch \/ LetGo
    <2>1. /\ UNCHANGED <<routine, asking, turn, first, said, ret, back, ghost, game, team>>
          /\ asking = "none" /\ (routine = "sensor" => taken' = taken)
      BY <1>3 DEF Catch, LetGo, Released, query, Roster
    <2> QED
      BY <2>1 DEF Nested, Queried
  <1> QED
    BY <1>1, <1>2, <1>3

LEMMA NestedGhosts ==
  ASSUME PassInv, Nested, GhostBegin \/ GhostEnd
  PROVE  Nested'
  <1>1. /\ UNCHANGED <<routine, asking, turn, first, said, ret, back, game, taken>>
        /\ ghost' = 1 => routine = "shots" \/ ~game.own
    BY DEF GhostBegin, GhostEnd, query, Roster, Objs
  <1>2. team'.current = team.current
    <2>1. CASE GhostBegin
      BY <2>1 DEF GhostBegin, PassInv, TeamRecord
    <2>2. CASE GhostEnd
      BY <2>2 DEF GhostEnd, PassInv, Match, InGhost, GhostCopies, TeamRecord
    <2> QED
      BY <2>1, <2>2
  <1> QED
    BY <1>1, <1>2 DEF Nested, Queried

LEMMA NestedWrites ==
  ASSUME PassInv, Nested, BodyMoves \/ BodyHurt \/ FoeMoves \/ Fallen
  PROVE  Nested'
  <1>1. /\ UNCHANGED <<routine, asking, turn, first, said, ret, back, ghost, game, taken>>
        /\ team'.current = team.current
    BY DEF BodyMoves, BodyHurt, FoeMoves, Fallen, Captured, query, Roster, Objs, PassInv, TeamRecord
  <1> QED
    BY <1>1, NestedStill DEF nesting

-----------------------------------------------------------------------------
(* The driver, or the dead driver before him *)

LEMMA WaysInitially == PassesInit => Ways
  BY DEF PassesInit, Ways, Present, Safe, Base, AtStart, Seats

LEMMA BaseSeats ==
  ASSUME PassInv
  PROVE  /\ Base.anchor \in Seats /\ Base.current \in Seats /\ Base.current = team.current
         /\ ghost # 1 => Base = team
  BY DEF Base, PassInv, Match, InGhost, GhostCopies, TeamRecord

\* A write to a body, a ghost: the same driver, and nobody comes back to life.
LEMMA WaysStill ==
  ASSUME PassInv, Nested, Ways, Base'.anchor = Base.anchor, Base'.current = Base.current,
         UNCHANGED <<routine, asking, turn, first, ret, back, scene, game>>,
         \A s \in Seats : truth.body[s].hp = 0 => truth'.body[s].hp = 0,
         \A s \in Seats : status'[s] = status[s] \/ truth'.body[s].hp = 0,
         asking \in {"door", "eagle", "board"} =>
             status' = status /\ team'.anchor = team.anchor /\ team'.current = team.current,
         ghost' = 1 /\ routine = "fighter" => ghost = 1 \/ Base.current = Base.anchor,
         ghost' = 1 /\ routine = "shots" => (ghost = 1 /\ team'.anchor = team.anchor) \/ Base'.anchor = team'.anchor
  PROVE  Ways'
  <1>1. /\ Base.anchor \in Seats /\ Base.current \in Seats /\ first \in Seats
        /\ ret \in Seats \cup {None} /\ back \in Seats \cup {None}
    BY BaseSeats, GhostPlace
  <1>2. \A s \in Seats : (Safe(s) => Safe(s)') /\ (Present(s) => Present(s)')
    BY DEF Safe, Present, Brought
  <1> QED
    BY <1>1, <1>2 DEF Ways, Safe, Present, Brought

LEMMA WaysWrites ==
  ASSUME PassInv, Nested, Ways, BodyMoves \/ BodyHurt \/ FoeMoves \/ Fallen \/ Catch \/ LetGo
  PROVE  Ways'
  <1>1. UNCHANGED <<routine, asking, turn, first, ret, back, scene, game, ghost, saved>>
    BY DEF BodyMoves, BodyHurt, FoeMoves, Fallen, Catch, LetGo, query, Roster
  <1>2. team'.anchor = team.anchor /\ team'.current = team.current
    BY DEF BodyMoves, BodyHurt, FoeMoves, Fallen, Captured, Catch, LetGo, PassInv, TeamRecord
  <1>3. Base'.anchor = Base.anchor /\ Base'.current = Base.current
    BY <1>1, <1>2 DEF Base
  <1>4. \A s \in Seats : truth.body[s].hp = 0 => truth'.body[s].hp = 0
    <2>1. truth \in [body : Bodies, foe : 0..1] /\ Seen \in Seats
      BY GhostPlace DEF PassInv
    <2>2. CASE BodyMoves
      BY <2>1, <2>2 DEF BodyMoves, Moved, Bodies, Body
    <2>3. CASE BodyHurt
      BY <2>1, <2>3 DEF BodyHurt, Bodies, Body
    <2>4. CASE FoeMoves \/ Fallen \/ Catch \/ LetGo
      BY <2>1, <2>4 DEF FoeMoves, Fallen, Catch, LetGo, Bodies, Body
    <2> QED
      BY <2>2, <2>3, <2>4
  <1>5. \A s \in Seats : status'[s] = status[s] \/ truth'.body[s].hp = 0
    <2>1. CASE Fallen
      <3>1. ghost # 1 /\ truth' = truth /\ status' = [status EXCEPT ![team.current] = "out"] /\ team.live.hp = 0
        BY <2>1, GhostPlace DEF Fallen
      <3>2. truth.body[team.current].hp = 0
        BY <3>1, ShownTeam DEF Shows
      <3> QED
        BY <3>1, <3>2
    <2>2. CASE ~Fallen
      BY <2>2 DEF BodyMoves, BodyHurt, FoeMoves, Catch, LetGo, Roster
    <2> QED
      BY <2>1, <2>2
  <1>6. asking \in {"door", "eagle", "board"} => status' = status
    BY DEF BodyMoves, BodyHurt, FoeMoves, Fallen, Catch, LetGo, Roster
  <1> QED
    BY <1>1, <1>2, <1>3, <1>4, <1>5, <1>6, WaysStill

LEMMA WaysGhosts ==
  ASSUME PassInv, Nested, Ways, GhostBegin \/ GhostEnd
  PROVE  Ways'
  <1>1. /\ UNCHANGED <<routine, asking, turn, first, ret, back, scene, game, truth, status>>
        /\ asking \in {"none", "shots", "contact", "shot"}
    BY GhostPlace DEF GhostBegin, GhostEnd, query, Roster
  <1>2. CASE GhostBegin
    <2>1. /\ ghost # 1 /\ ghost' = 1 /\ saved'.team = team /\ team'.anchor = team.anchor
          /\ routine = "fighter" => team.current = team.anchor
      BY <1>2 DEF GhostBegin, PassInv, TeamRecord
    <2>2. Base = team /\ Base' = team
      BY <2>1 DEF Base
    <2> QED
      BY <1>1, <2>1, <2>2, WaysStill
  <1>3. CASE GhostEnd
    <2>1. /\ ghost = 1 /\ ghost' = 2 /\ team'.anchor = saved.team.anchor
          /\ team'.current = saved.team.current
      BY <1>3 DEF GhostEnd, PassInv, Match, InGhost, GhostCopies, TeamRecord
    <2>2. Base = saved.team /\ Base' = team'
      BY <2>1 DEF Base
    <2> QED
      BY <1>1, <2>1, <2>2, WaysStill
  <1> QED
    BY <1>2, <1>3

LEMMA WaysCarries ==
  ASSUME PassInv, Nested, Ways, EndFrame \/ CarryEarly
  PROVE  Ways'
  <1> DEFINE o == Other(team.anchor)
             c == Carried(team)
             b == WithCarry(truth.body)
  <1>1. /\ UNCHANGED <<routine, asking, turn, first, ret, back, scene, game, status, ghost, saved>>
        /\ ghost # 1 /\ asking = "none"
    BY IdleNoGhost DEF EndFrame, CarryEarly, query, Roster, Nested, AskedIn
  <1>2. Shows(team, truth.body) /\ truth.body \in Bodies /\ o \in Seats /\ carry \in Seats \cup {None}
    BY <1>1, ShownTeam, GhostPlace
  <1>3. Shows(c, b) /\ b \in Bodies
    BY <1>2, CarriedShows
  <1>4. c.anchor = team.anchor /\ c.current = team.current
    BY DEF Carried, Poked, PassInv, TeamRecord
  <1>5. \A s \in Seats : b[s].hp = truth.body[s].hp
    BY <1>2 DEF WithCarry, Moved, Bodies, Body
  <1> HIDE DEF b, c, o
  <1>6. /\ \A s \in Seats : truth'.body[s].hp = truth.body[s].hp
        /\ team'.anchor = team.anchor /\ team'.current = team.current
    <2>1. CASE CarryEarly
      <3>1. truth'.body = b /\ team' = c
        BY <2>1 DEF CarryEarly, b, c, PassInv
      <3> QED
        BY <1>3, <1>4, <1>5, <3>1
    <2>2. CASE EndFrame
      <3>1. PICK stun \in BOOLEAN :
              /\ team' = Captured(IF stun THEN Poked(c, o, Moved(BodyOf(c, o))) ELSE c)
              /\ truth' = [truth EXCEPT !.body = IF stun THEN [b EXCEPT ![o] = Moved(@)] ELSE b]
        BY <2>2 DEF EndFrame, b, c, o
      <3> DEFINE d == IF stun THEN [b EXCEPT ![o] = Moved(b[o])] ELSE b
      <3>2. truth'.body = d
        BY <3>1 DEF PassInv
      <3>3. d \in Bodies /\ \A s \in Seats : d[s].hp = b[s].hp
        BY <1>2, <1>3 DEF Bodies, Body, Moved
      <3>4. c \in TeamRecord
        BY <1>3 DEF Shows
      <3>5. team'.anchor = c.anchor /\ team'.current = c.current
        BY <3>1, <3>4 DEF Captured, Poked, TeamRecord
      <3> HIDE DEF d
      <3> QED
        BY <1>4, <1>5, <3>2, <3>3, <3>5
    <2> QED
      BY <2>1, <2>2
  <1>7. Base = team /\ Base' = team'
    BY <1>1 DEF Base
  <1> QED
    BY <1>1, <1>6, <1>7, WaysStill

\* What a projection that survives may do to the driver: nothing, or hand over
\* from a dead one to a living one.
Passes(t, u, s) ==
    \/ u.anchor = t.anchor /\ u.current = s
    \/ /\ u.anchor = Other(t.anchor) /\ u.current = u.anchor /\ status[u.anchor] = "alive"
       /\ truth.body[t.anchor].hp = 0

LEMMA SurvivorPasses ==
  ASSUME NEW t, Shows(t, truth.body), truth.body \in Bodies, ghost # 1
  PROVE  Passes(t, Survivor(t), t.current)
  <1> DEFINE o == Other(t.anchor)
             u == [t EXCEPT !.anchor = o]
  <1>1. t \in TeamRecord /\ o \in Seats /\ t.live = truth.body[t.current]
    BY SeatsHaveOther DEF Shows, TeamRecord
  <1>2. Shows(u, truth.body) /\ u.anchor = o
    BY <1>1, AnchorShows DEF TeamRecord
  <1>3. CASE t.current = t.anchor /\ t.live.hp = 0 /\ Stands(t, o) /\ ~IsLearner(o)
    <2>1. Survivor(t) = Select(u, o)
      BY <1>3 DEF Survivor
    <2>2. status[o] = "alive" /\ truth.body[t.anchor].hp = 0
      BY <1>1, <1>3 DEF Stands
    <2> HIDE DEF u, o
    <2>3. Select(u, o).current = o /\ Select(u, o).anchor = o
      BY <1>1, <1>2, SelectShows
    <2> QED
      BY <2>1, <2>2, <2>3 DEF Passes, o
  <1>4. CASE ~(t.current = t.anchor /\ t.live.hp = 0 /\ Stands(t, o) /\ ~IsLearner(o))
    BY <1>4 DEF Survivor, Passes
  <1> QED
    BY <1>3, <1>4

\* A hand-over leaves everybody who may come back.
LEMMA PassedWays ==
  ASSUME PassInv, Ways, ghost # 1, ghost' # 1, NEW s \in Seats, Passes(team, team', s),
         UNCHANGED <<truth, status, game>>
  PROVE  /\ (Present(Base.anchor))'
         /\ Safe(s) => (Safe(team.current))'
         /\ \A p \in Seats : Present(p) => Present(p)'
         /\ \A p \in Seats : Brought /\ Safe(p) => Safe(p)'
  <1>1. Base = team /\ Base' = team' /\ team.anchor \in Seats
    BY BaseSeats DEF Base
  <1>2. Present(team.anchor)
    BY <1>1 DEF Ways
  <1>3. CASE team'.anchor = team.anchor /\ team'.current = s
    BY <1>1, <1>2, <1>3 DEF Safe, Present, Brought
  <1>4. CASE /\ team'.anchor = Other(team.anchor) /\ team'.current = team'.anchor
             /\ status[team'.anchor] = "alive" /\ truth.body[team.anchor].hp = 0
    <2>1. (Present(Base.anchor))' /\ (Safe(team.current))'
      BY <1>1, <1>4 DEF Present, Safe
    <2>2. \A p \in Seats : Brought /\ Safe(p) => Safe(p)'
      BY <1>1, <1>4 DEF Safe, Brought, Seats, Other
    <2> QED
      BY <2>1, <2>2 DEF Present
  <1> QED
    BY <1>3, <1>4 DEF Passes

LEMMA WaysFrame ==
  ASSUME PassInv, Nested, Ways, FrameTick \/ Placed \/ TeamReset
  PROVE  Ways'
  <1>1. /\ UNCHANGED <<routine, asking, turn, first, ret, back, game, ghost, saved>>
        /\ routine = "idle" /\ asking = "none" /\ turn = 0 /\ ret = None /\ back = None
        /\ ghost # 1 /\ team.anchor \in Seats /\ team.current \in Seats /\ Other(team.anchor) \in Seats
    <2>1. routine = "idle" /\ ghost # 1
      BY IdleNoGhost DEF FrameTick, Placed, TeamReset, PassInv, Marks
    <2>2. asking = "none" /\ turn = 0 /\ ret = None /\ back = None
      BY <2>1 DEF Nested, AskedIn, Projected, Queried
    <2> QED
      BY <2>1, <2>2, GhostPlace DEF FrameTick, Placed, TeamReset, query, Roster
  <1>2. Base = team /\ Base' = team'
    BY <1>1 DEF Base
  <1>3. (Present(Base.anchor))' /\ (Safe(team.current))'
    <2>1. CASE FrameTick
      <3>1. Shows(team, truth.body) /\ truth.body \in Bodies
        BY <1>1, ShownTeam
      <3> DEFINE first1 == Survivor(Captured(team))
                 driver == IF scene THEN Select(first1, first1.anchor) ELSE first1
                 Turn(u, s) == IF status[s] = "alive" /\ (~scene \/ s = u.anchor)
                               THEN Captured(Select(u, s)) ELSE u
      <3>2. /\ Shows(Captured(team), truth.body) /\ Captured(team).anchor = team.anchor
            /\ Captured(team).current = team.current
        BY <1>1, <3>1, CapturedShows
      <3>3. Shows(first1, truth.body) /\ Passes(Captured(team), first1, team.current)
        BY <1>1, <3>1, <3>2, SurvivorShows, SurvivorPasses
      <3> HIDE DEF first1
      <3>4. first1.anchor \in Seats /\ Present(first1.anchor)
        <4>1. first1.anchor = team.anchor \/ status[first1.anchor] = "alive"
          BY <3>2, <3>3 DEF Passes
        <4>2. Present(team.anchor)
          BY <1>2 DEF Ways
        <4> QED
          BY <3>3, <4>1, <4>2 DEF Present, Shows, TeamRecord
      <3>5. Shows(driver, truth.body) /\ driver.anchor = first1.anchor
        BY <1>1, <3>1, <3>3, <3>4, SelectShows
      <3> HIDE DEF driver
      <3>6. ASSUME NEW u, Shows(u, truth.body), NEW s \in Seats
            PROVE  Shows(Turn(u, s), truth.body) /\ Turn(u, s).anchor = u.anchor
        <4>1. Shows(Select(u, s), truth.body) /\ Select(u, s).anchor = u.anchor
          BY <1>1, <3>1, <3>6, SelectShows
        <4>2. Shows(Captured(Select(u, s)), truth.body) /\ Captured(Select(u, s)).anchor = u.anchor
          BY <1>1, <3>1, <4>1, CapturedShows
        <4> QED
          BY <3>6, <4>2
      <3>7. 0 \in Seats /\ 1 \in Seats
        BY DEF Seats
      <3>8. team' = Select(Turn(Turn(driver, 0), 1), driver.anchor)
        BY <2>1 DEF FrameTick, Ticked, driver, first1
      <3> HIDE DEF Turn
      <3>9. Shows(Turn(driver, 0), truth.body) /\ Turn(driver, 0).anchor = driver.anchor
        BY <3>5, <3>6, <3>7
      <3>10. Shows(Turn(Turn(driver, 0), 1), truth.body) /\ Turn(Turn(driver, 0), 1).anchor = driver.anchor
        BY <3>6, <3>7, <3>9
      <3>11. team'.current = driver.anchor /\ team'.anchor = driver.anchor
        BY <1>1, <3>1, <3>4, <3>5, <3>8, <3>10, SelectShows
      <3>12. UNCHANGED <<truth, status>>
        BY <2>1 DEF FrameTick, Roster
      <3> QED
        BY <1>2, <3>4, <3>5, <3>11, <3>12 DEF Present, Safe
    <2>2. CASE Placed
      <3>1. /\ team'.current = team.current /\ team'.anchor = team.anchor /\ team.current = team.anchor
            /\ truth'.body = [truth.body EXCEPT ![Other(team.anchor)] = Fresh]
            /\ status' = [status EXCEPT ![Other(team.anchor)] = "alive"]
        BY <2>2 DEF Placed, PassInv, TeamRecord
      <3>2. Present(team.anchor) /\ Other(team.anchor) # team.anchor
        BY <1>1, <1>2, SeatsHaveOther DEF Ways
      <3> QED
        BY <1>2, <3>1, <3>2 DEF Present, Safe
    <2>3. CASE TeamReset
      <3>1. team'.current = 0 /\ team'.anchor = 0 /\ status' = [s \in Seats |-> IF s = 0 THEN "alive" ELSE "out"]
        BY <2>3 DEF TeamReset, PassInv, TeamRecord
      <3> QED
        BY <1>2, <3>1 DEF Present, Safe, Seats
    <2> QED
      BY <2>1, <2>2, <2>3
  <1> QED
    BY <1>1, <1>2, <1>3 DEF Ways, Safe

LEMMA WaysOpens ==
  ASSUME PassInv, Nested, Ways, StartQuery \/ (\E r, k : StartOwn(r, k) /\ r \notin Projected \cup {"item"})
  PROVE  Ways'
  <1>1. /\ UNCHANGED <<team, ghost, saved, truth, status, scene, game, ret, back>>
        /\ asking = "none" /\ turn = 0 /\ first' = team.current /\ turn' \in 0..1
        /\ asking' \in {"door", "eagle", "board"} /\ turn' # 0 => Opens(asking')
    BY DEF StartQuery, StartOwn, Open, Roster, Nested, Queried
  <1>2. routine' = routine \/ (routine = "idle" /\ routine' \notin Projected /\ ret = None /\ back = None /\ ghost # 1)
    BY <1>1, IdleNoGhost DEF StartQuery, StartOwn, Run, Nested, Projected
  <1>3. asking' \in {"door", "eagle"} /\ turn' # 0 => ~scene' /\ status'[Other(team'.anchor)] = "alive"
    BY <1>1 DEF Opens
  <1>4. asking' = "board" /\ turn' # 0 => status'[Other(first')] = "alive"
    BY <1>1 DEF Opens, Stands
  <1>5. /\ Base' = Base /\ Brought' = Brought
        /\ \A s \in Seats : (Safe(s) <=> Safe(s)') /\ (Present(s) <=> Present(s)')
    BY <1>1 DEF Base, Safe, Present, Brought
  <1>6. ghost' = 1 => routine' = routine
    BY <1>1, <1>2
  <1>7. Base.current \in Seats /\ back \in Seats \cup {None} /\ ret \in Seats \cup {None} /\ Base.anchor \in Seats
    BY BaseSeats, GhostPlace
  <1>8. routine' \notin {"item", "slime"} /\ ret' = None /\ back' = None => Safe(Base.current)
    BY <1>1, <1>2 DEF Ways
  <1> HIDE DEF Base
  <1>9. (Present(Base.anchor))'
    BY <1>5, <1>7 DEF Ways, Present
  <1>10. (routine \notin {"item", "slime"} /\ ret = None /\ back = None => Safe(Base.current))'
    BY <1>5, <1>7, <1>8 DEF Safe, Brought
  <1>11. (ret = None /\ back # None => Safe(back))'
    BY <1>1, <1>5, <1>7 DEF Ways, Safe, Brought
  <1>12. (ret # None => Present(ret) /\ (scene \/ Safe(ret)))'
    BY <1>1, <1>5, <1>7 DEF Ways, Safe, Brought, Present
  <1>13. (ghost = 1 /\ routine = "fighter" => Base.current = Base.anchor)'
    BY <1>1, <1>5, <1>6 DEF Ways
  <1>14. (ghost = 1 /\ routine = "shots" => Base.anchor = team.anchor)'
    BY <1>1, <1>5, <1>6 DEF Ways
  <1>15. turn' # 2
    BY <1>1
  <1> QED
    BY <1>3, <1>4, <1>9, <1>10, <1>11, <1>12, <1>13, <1>14, <1>15 DEF Ways

\* Whom the guest may be left with when the query is closed.
LEMMA WaysClosed ==
  ASSUME PassInv, Nested, Ways, ghost # 1, ghost' # 1, Closed,
         UNCHANGED <<ret, routine, truth, status, game>>,
         (Present(Base.anchor))',
         routine \notin {"item", "slime"} /\ ret = None /\ back' = None => (Safe(team.current))',
         ret = None /\ back' # None => (Safe(back))',
         ret # None => scene' \/ (Safe(ret))'
  PROVE  Ways'
  <1>1. Base' = team'
    BY DEF Base
  <1>2. (ret # None => Present(ret) /\ (scene \/ Safe(ret)))'
    BY DEF Ways, Present
  <1>3. asking' = "none" /\ turn' = 0
    BY DEF Closed
  <1> QED
    BY <1>1, <1>2, <1>3 DEF Ways

\* Inside the ghost of an enemy nobody else is projected.
LEMMA WaysInGhost ==
  ASSUME PassInv, Nested, Ways, ghost = 1, ghost' = 1, routine = "fighter",
         UNCHANGED <<routine, saved, truth, status, scene, game, ret, back>>,
         asking' \in {"none", "contact", "shot"}, turn' = 2 => first' = team.current
  PROVE  Ways'
  <1>1. /\ Base' = Base /\ Base.current = Base.anchor /\ Base.current = team.current
        /\ ret = None /\ back = None
    BY BaseSeats, GhostPlace DEF Base, Ways
  <1>2. (Safe(Base.current))' /\ (turn' = 2 => (Safe(first))')
    BY <1>1 DEF Safe
  <1>3. (Present(Base.anchor))'
    BY <1>1 DEF Ways, Present
  <1> QED
    BY <1>1, <1>2, <1>3 DEF Ways

LEMMA WaysReturnsAlone ==
  ASSUME PassInv, Nested, Ways, ReturnAlone
  PROVE  Ways'
  <1>1. /\ UNCHANGED <<team, routine, ret, back, ghost, saved, status, scene, game, truth>>
        /\ Closed /\ turn = 0 /\ asking # "none"
    BY DEF ReturnAlone, Quiet, Roster
  <1>2. CASE ghost = 1
    <2>1. routine = "fighter"
      BY <1>1, <1>2, GhostPlace
    <2> QED
      BY <1>1, <1>2, <2>1, WaysInGhost DEF Closed
  <1>3. CASE ghost # 1
    <2>1. Base = team /\ Base' = team'
      BY <1>1, <1>3 DEF Base
    <2>2. \A s \in Seats : Safe(s) => Safe(s)'
      BY <1>1, <2>1 DEF Safe, Brought
    <2>3. (Present(Base.anchor))'
      BY <1>1, <2>1 DEF Ways, Present
    <2>4. routine \notin {"item", "slime"} /\ ret = None /\ back' = None => (Safe(team.current))'
      BY <1>1, <2>1 DEF Ways, Safe, Brought
    <2>5. ret = None /\ back' # None => (Safe(back))'
      BY <1>1, <2>1 DEF Ways, Safe, Brought
    <2>6. ret # None => scene' \/ (Safe(ret))'
      BY <1>1, <2>1 DEF Ways, Safe, Brought
    <2> QED
      BY <1>1, <1>3, <2>3, <2>4, <2>5, <2>6, WaysClosed
  <1> QED
    BY <1>2, <1>3

\* A door or the lift of Eagle: whoever is projected there drives on.
LEMMA WaysEnter ==
  ASSUME PassInv, Nested, Ways, ghost # 1, ghost' # 1, Closed, Enter,
         asking \in {"eagle", "door"}, turn # 0, back' = None,
         UNCHANGED <<ret, routine, truth, status, game>>
  PROVE  Ways'
  <1> DEFINE c == team.current
  <1>1. /\ Base = team /\ team.anchor \in Seats /\ c \in Seats /\ ret \in Seats \cup {None}
        /\ ~scene /\ status[Other(team.anchor)] = "alive"
        /\ Shows(team, truth.body)
    BY BaseSeats, GhostPlace, ShownTeam DEF Ways
  <1>2. Present(c)
    <2>1. c = team.anchor \/ c = Other(team.anchor)
      BY <1>1 DEF Seats, Other
    <2> QED
      BY <1>1, <2>1 DEF Ways, Present
  <1>3. team'.anchor = c /\ team'.current = c
    BY DEF Enter, Driving, Captured, PassInv, TeamRecord
  <1>4. Base' = team'
    BY DEF Base
  <1>5. (Present(Base.anchor))'
    BY <1>2, <1>3, <1>4 DEF Present
  <1>6. (Safe(team.current))'
    BY <1>3, <1>4 DEF Safe
  <1>7. ret # None => scene' \/ (Safe(ret))'
    <2> SUFFICES ASSUME ret # None, ~scene' PROVE (Safe(ret))'
      OBVIOUS
    <2>1. CASE ret = c
      BY <1>3, <1>4, <2>1 DEF Safe
    <2>2. CASE ret # c
      <3>1. ret = Other(c)
        BY <1>1, <2>2 DEF Seats, Other
      <3>2. ~Stands(Driving, Other(c))
        BY <1>1 DEF Enter
      <3>3. Driving.stored[Other(c)] = truth.body[Other(c)] /\ truth.body[Other(c)] \in Body
        BY <1>1, SeatsHaveOther DEF Driving, Shows, TeamRecord
      <3>4. status[ret] # "alive" \/ truth.body[ret].hp = 0
        BY <3>1, <3>2, <3>3 DEF Stands, Body
      <3>5. Present(ret)
        BY DEF Ways
      <3>6. truth.body[ret].hp = 0
        BY <3>4, <3>5 DEF Present
      <3>7. Brought
        BY DEF Nested, AskedIn, Brought
      <3> QED
        BY <3>6, <3>7 DEF Safe, Brought
    <2> QED
      BY <2>1, <2>2
  <1> QED
    BY <1>5, <1>6, <1>7, WaysClosed

LEMMA WaysReturnsOnly ==
  ASSUME PassInv, Nested, Ways, ReturnOnly
  PROVE  Ways'
  <1>1. /\ Closed /\ turn = 1 /\ asking # "none" /\ ghost # 1 /\ ghost' # 1
        /\ UNCHANGED <<ret, back, routine, truth, status, game>>
    BY DEF ReturnOnly
  <1>2. back = None /\ team \in TeamRecord
    BY <1>1 DEF Nested, Queried, PassInv
  <1>3. CASE Enter /\ asking \in {"eagle", "door"}
    BY <1>1, <1>2, <1>3, WaysEnter
  <1>4. CASE /\ scene' = scene
             /\ \/ team' \in {team, Captured(team)}
                \/ team' = Select(team, team.anchor) /\ routine = "item"
    <2>1. team'.anchor = team.anchor /\ (routine # "item" => team'.current = team.current)
      <3>1. Select(team, team.anchor).anchor = team.anchor
        BY <1>1, <1>2, ShownTeam, SelectShows
      <3> QED
        BY <1>2, <1>4, <3>1 DEF Captured, TeamRecord
    <2>2. Base = team /\ Base' = team'
      BY <1>1 DEF Base
    <2>3. (Present(Base.anchor))'
      BY <1>1, <2>1, <2>2 DEF Ways, Present
    <2>4. routine \notin {"item", "slime"} /\ ret = None /\ back' = None => (Safe(team.current))'
      BY <1>1, <2>1, <2>2 DEF Ways, Safe, Brought
    <2>5. ret # None => scene' \/ (Safe(ret))'
      BY <1>1, <1>4, <2>1, <2>2 DEF Ways, Safe, Brought
    <2> QED
      BY <1>1, <1>2, <2>3, <2>4, <2>5, WaysClosed
  <1>5. \/ Enter /\ asking \in {"eagle", "door"}
        \/ scene' = scene /\ team' \in {team, Captured(team)}
        \/ scene' = scene /\ team' = Select(team, team.anchor) /\ asking = "pickup"
    BY DEF ReturnOnly
  <1>6. asking = "pickup" => routine = "item"
    BY DEF Nested, AskedIn
  <1> QED
    BY <1>3, <1>4, <1>5, <1>6

\* The seat a query of an enemy or an armor came from may come back.
LEMMA FirstWays ==
  ASSUME PassInv, Nested, Ways, asking \in Returning, ret = None, turn # 0
  PROVE  Safe(first)
  <1>1. CASE turn = 2
    BY <1>1 DEF Ways
  <1>2. CASE turn # 2
    <2>1. first = Base.current /\ back = None
      BY <1>2, BaseSeats DEF Nested, Queried, Returning
    <2>2. routine \notin {"item", "slime"}
      BY DEF Nested, AskedIn, Returning
    <2> QED
      BY <1>2, <2>1, <2>2 DEF Ways
  <1> QED
    BY <1>1, <1>2

LEMMA WaysAsksAgain ==
  ASSUME PassInv, Nested, Ways, AskAgain
  PROVE  Ways'
  <1>1. /\ turn = 1 /\ turn' = 2 /\ asking' = asking /\ asking # "none" /\ first' = first
        /\ UNCHANGED <<ret, back, routine, truth, status, game, scene, saved>>
        /\ ghost' = IF ghost = 1 THEN 1 ELSE 0
    BY DEF AskAgain, Roster
  <1>2. back = None /\ first = team.current
    BY <1>1 DEF Nested, Queried
  <1>3. CASE ghost = 1
    <2>1. routine = "fighter" /\ asking \in {"contact", "shot"}
      BY <1>1, <1>3, GhostPlace DEF AskAgain
    <2> QED
      BY <1>1, <1>2, <1>3, <2>1, WaysInGhost
  <1>4. CASE ghost # 1
    <2> DEFINE t == IF asking = "controller" THEN Handed(team) ELSE team
    <2>1. /\ Shows(team, truth.body) /\ truth.body \in Bodies /\ team.anchor \in Seats
          /\ Base = team /\ Base' = team' /\ ghost' # 1 /\ Partner(asking) \in Seats
      BY <1>1, <1>4, ShownTeam, GhostPlace, SeatsHaveOther DEF Base, Partner
    <2>2. Shows(t, truth.body)
      BY <2>1, HandedShows
    <2>3. t.anchor = team.anchor \/ (asking = "controller" /\ status[t.anchor] = "alive")
      <3>1. asking = "controller" => status[Other(team.current)] = "alive"
        BY DEF AskAgain, AsksAgain, Partner, ByDriver
      <3> QED
        BY <3>1 DEF Handed, PassInv, TeamRecord
    <2>4. team' = Select(t, Partner(asking))
      BY DEF AskAgain
    <2> HIDE DEF t
    <2>5. team'.current = Partner(asking) /\ team'.anchor = t.anchor
      BY <1>4, <2>1, <2>2, <2>4, SelectShows
    <2>6. (Present(Base.anchor))'
      BY <1>1, <2>1, <2>3, <2>5 DEF Ways, Present
    <2>7. asking # "controller" => \A s \in Seats : Safe(s) => Safe(s)'
      BY <1>1, <2>1, <2>3, <2>5 DEF Safe, Brought
    <2>8. (ret = None /\ turn = 2 /\ asking \in Returning => Safe(first))'
      <3> SUFFICES ASSUME ret = None, asking \in Returning PROVE (Safe(first))'
        BY <1>1
      <3>1. Safe(first) /\ first \in Seats /\ asking # "controller"
        BY <1>1, FirstWays, GhostPlace DEF Returning
      <3>2. team'.anchor = team.anchor
        BY <2>3, <2>5, <3>1
      <3> QED
        BY <1>1, <2>1, <3>1, <3>2 DEF Safe, Brought
    <2>9. (ret # None => Present(ret) /\ (scene \/ Safe(ret)))'
      <3> SUFFICES ASSUME ret # None PROVE (Present(ret))' /\ (scene' \/ (Safe(ret))')
        BY <1>1
      <3>1. asking # "controller"
        BY DEF Nested, AskedIn, Projected
      <3>2. team'.anchor = team.anchor
        BY <2>3, <2>5, <3>1
      <3> QED
        BY <1>1, <2>1, <3>2 DEF Ways, Safe, Present, Brought
    <2>10. (asking \in {"door", "eagle"} /\ turn # 0 => ~scene /\ status[Other(team.anchor)] = "alive")'
      BY <1>1, <2>3, <2>5 DEF Ways
    <2>11. (asking = "board" /\ turn # 0 => status[Other(first)] = "alive" /\ (turn = 2 => team.current = Other(first)))'
      BY <1>1, <2>5 DEF Ways, Partner, ByDriver
    <2> QED
      BY <1>1, <1>2, <2>1, <2>6, <2>8, <2>9, <2>10, <2>11 DEF Ways
  <1> QED
    BY <1>3, <1>4

LEMMA WaysReturnsBoth ==
  ASSUME PassInv, Nested, Ways, ReturnBoth
  PROVE  Ways'
  <1>1. /\ turn = 2 /\ Closed /\ asking # "none"
        /\ UNCHANGED <<ret, routine, truth, status, game, saved>>
        /\ ghost' = IF ghost = 1 THEN 1 ELSE 0
    BY DEF ReturnBoth
  <1>2. back = None /\ (ret # None => Brought) /\ first \in Seats /\ ret \in Seats \cup {None}
    <2>1. Queried
      BY <1>1 DEF Nested, Queried
    <2>2. ret # None => Brought
      <3>1. ret # None => routine # "idle" /\ (game.own \/ routine = "chaser")
        BY DEF Nested, Projected
      <3>2. routine # "idle" => routine \in game.cast
        BY DEF Nested
      <3> QED
        BY <3>1, <3>2 DEF Brought
    <2> QED
      BY <1>1, <2>1, <2>2, GhostPlace DEF Nested, Queried
  <1>3. CASE ghost = 1
    <2>1. routine = "fighter" /\ asking \in {"contact", "shot"}
      BY <1>1, <1>3, GhostPlace DEF ReturnBoth
    <2>2. scene' = scene /\ back' = back
      BY <2>1 DEF ReturnBoth
    <2> QED
      BY <1>1, <1>3, <2>1, <2>2, WaysInGhost DEF Closed
  <1>4. CASE ghost # 1
    <2>0. /\ Shows(team, truth.body) /\ truth.body \in Bodies /\ team.anchor \in Seats
          /\ team.current \in Seats /\ ghost' # 1
      BY <1>1, <1>4, ShownTeam
    <2>1. Base = team /\ Base' = team'
      BY <1>1, <1>4 DEF Base
    <2>2. \A s \in Seats : /\ Shows(Select(team, s), truth.body)
                           /\ Select(team, s).current = s /\ Select(team, s).anchor = team.anchor
      BY <1>4, <2>0, SelectShows
    <2>3. CASE Enter /\ asking \in {"eagle", "door"}
      <3>1. back' = None
        BY <1>2, <2>3 DEF ReturnBoth
      <3> QED
        BY <1>1, <1>4, <2>0, <2>3, <3>1, WaysEnter
    <2>4. ASSUME NEW s \in Seats, Passes(team, team', s), scene' = scene,
                 routine \notin {"item", "slime"} /\ ret = None /\ back' = None => Safe(s),
                 ret = None /\ back' # None => Safe(back') /\ back' \in Seats /\ team'.anchor = team.anchor
          PROVE  Ways'
      <3>1. /\ (Present(Base.anchor))'
            /\ Safe(s) => (Safe(team.current))'
            /\ \A p \in Seats : Brought /\ Safe(p) => Safe(p)'
        BY <1>1, <1>4, <2>0, <2>4, PassedWays
      <3>2. ret = None /\ back' # None => (Safe(back))'
        BY <1>1, <2>1, <2>4 DEF Safe, Brought
      <3>3. ret # None => scene' \/ (Safe(ret))'
        BY <1>1, <1>2, <2>4, <3>1 DEF Ways, Safe, Brought
      <3> QED
        BY <1>1, <1>4, <2>0, <2>4, <3>1, <3>2, <3>3, WaysClosed
    <2>5. ret = None /\ asking \in Returning => Safe(first)
      BY <1>1 DEF Ways
    <2>6. Safe(team.anchor)
      BY <2>1 DEF Safe
    <2>7. CASE asking \in {"contact", "shot", "slime"}
      <3>1. team' = Survivor(Select(team, first)) /\ scene' = scene /\ back' = None
        BY <1>2, <2>7 DEF ReturnBoth
      <3>2. Passes(Select(team, first), team', first)
        BY <1>2, <1>4, <2>0, <2>2, <3>1, SurvivorPasses
      <3>3. Passes(team, team', first)
        BY <1>2, <2>2, <3>2 DEF Passes
      <3>4. asking = "slime" => routine = "slime"
        BY DEF Nested, AskedIn
      <3> QED
        BY <1>2, <2>4, <2>5, <2>7, <3>1, <3>3, <3>4 DEF Returning
    <2>8. CASE \/ asking \in {"controller", "object", "shots", "platform"}
               \/ asking \in {"pickup", "eagle", "door"} /\ team' = Select(team, team.anchor) /\ scene' = scene
      <3>1. /\ team' \in {Select(team, team.anchor), Captured(Select(team, team.anchor))}
            /\ scene' = scene /\ back' = None
        BY <1>2, <2>8 DEF ReturnBoth
      <3>2. Select(team, team.anchor) \in TeamRecord
        BY <2>0, <2>2 DEF Shows
      <3>3. Passes(team, team', team.anchor)
        BY <2>0, <2>2, <3>1, <3>2 DEF Passes, Captured, TeamRecord
      <3> QED
        BY <2>0, <2>4, <2>6, <3>1, <3>3
    <2>9. CASE asking \in {"lift", "laser", "board"} /\ team' = Select(team, first) /\ scene' = scene /\ back' = None
      <3>1. Passes(team, team', first)
        BY <1>2, <2>2, <2>9 DEF Passes
      <3> QED
        BY <1>2, <2>4, <2>5, <2>9, <3>1 DEF Returning
    <2>10. CASE asking = "laser" /\ UNCHANGED <<team, scene>> /\ back' = first
      <3>1. Passes(team, team', team.current) /\ back' # None
        BY <1>2, <2>10 DEF Passes, None, Seats
      <3> QED
        BY <1>2, <2>0, <2>4, <2>5, <2>10, <3>1 DEF Returning
    <2>11. CASE asking = "board" /\ team' = Driving /\ scene' = scene
      <3>1. back' = None /\ ret = None
        BY <1>2, <2>11 DEF ReturnBoth, Nested, AskedIn, Projected
      <3>2. status[team.current] = "alive"
        BY <1>1, <2>11 DEF Ways
      <3>3. team'.anchor = team.current /\ team'.current = team.current
        BY <2>11 DEF Driving, PassInv, TeamRecord
      <3>4. (Present(Base.anchor))' /\ (Safe(team.current))'
        BY <1>1, <2>1, <3>2, <3>3 DEF Present, Safe
      <3> QED
        BY <1>1, <1>4, <2>0, <3>1, <3>4, WaysClosed
    <2>12. CASE asking = "pickup" /\ UNCHANGED <<team, scene>>
      <3>1. routine = "item" /\ back' = None
        BY <1>2, <2>12 DEF Nested, AskedIn, ReturnBoth
      <3>2. Passes(team, team', team.current)
        BY <2>12 DEF Passes
      <3> QED
        BY <2>0, <2>4, <2>12, <3>1, <3>2
    <2>13. asking \in {"contact", "shot", "slime", "controller", "object", "shots", "platform",
                       "pickup", "eagle", "door", "lift", "laser", "board"}
      BY <1>1 DEF Nested, AskedIn, Queried
    <2>14. \/ Enter /\ asking \in {"eagle", "door"}
           \/ asking \in {"contact", "shot", "slime", "controller", "object", "shots", "platform"}
           \/ asking \in {"pickup", "eagle", "door"} /\ team' = Select(team, team.anchor) /\ scene' = scene
           \/ asking \in {"lift", "laser", "board"} /\ team' = Select(team, first) /\ scene' = scene /\ back' = None
           \/ asking = "laser" /\ UNCHANGED <<team, scene>> /\ back' = first
           \/ asking = "board" /\ team' = Driving /\ scene' = scene
           \/ asking = "pickup" /\ UNCHANGED <<team, scene>>
      BY <1>2, <2>13 DEF ReturnBoth
    <2> QED
      BY <2>3, <2>7, <2>8, <2>9, <2>10, <2>11, <2>12, <2>14
  <1> QED
    BY <1>3, <1>4

LEMMA WaysStarts ==
  ASSUME PassInv, Nested, Ways, StartItem \/ \E r \in Projected : StartEnemy(r)
  PROVE  Ways'
  <1>1. /\ routine = "idle" /\ asking = "none" /\ ghost # 1 /\ ghost' # 1
        /\ UNCHANGED <<asking, turn, first, back, ghost, status, scene, game, truth>>
    BY IdleNoGhost DEF StartItem, StartEnemy, Run, query, Roster
  <1>2. turn = 0 /\ back = None /\ ret = None
    BY <1>1 DEF Nested, Queried, Projected
  <1>3. Base = team /\ Base' = team'
    BY <1>1 DEF Base
  <1>4. /\ Shows(team, truth.body) /\ truth.body \in Bodies /\ team.current \in Seats
    BY <1>1, ShownTeam
  <1>5. Safe(team.current) /\ Present(team.anchor)
    BY <1>1, <1>2, <1>3 DEF Ways
  <1>6. Present(team.current)
    BY <1>3, <1>5 DEF Safe, Present
  <1>7. CASE StartItem
    <2>1. claim'["item"] \in Seats \cup {None} /\ ret' = None /\ routine' = "item"
      BY <1>2, <1>7 DEF StartItem, ClaimOfItem, PassInv, Remembered, Takers, Run
    <2>2. team'.anchor = team.anchor
      BY <1>1, <1>4, <1>7, <2>1, SelectShows DEF StartItem
    <2>3. (Present(Base.anchor))'
      BY <1>1, <1>3, <1>5, <2>2 DEF Present
    <2> QED
      BY <1>1, <1>2, <2>1, <2>3 DEF Ways
  <1>8. ASSUME NEW r \in Projected, StartEnemy(r)
        PROVE  Ways'
    <2> DEFINE c == Captured(team)
    <2>1. Shows(c, truth.body) /\ c.anchor = team.anchor
      BY <1>1, <1>4, CapturedShows
    <2>2. claim \in [Takers -> Seats \cup {None}] /\ ("slime" \in taken => claim["slime"] \in Seats)
      BY DEF PassInv, Remembered
    <2>3. PICK free \in BOOLEAN :
            LET lost == r = "chaser" /\ "chaser" \in taken /\ claim["chaser"] # None
                        /\ ~Stands(c, claim["chaser"]) /\ free
            IN \E s \in IF ~Approached(r) THEN {team.current}
                        ELSE IF lost THEN Standing(c) ELSE Nearest(c, r) :
                  LET t == IF Approached(r) THEN Select(c, s) ELSE team
                      pins == r = "slime" /\ "slime" \in taken
                  IN team' = IF pins /\ Pinned(t) THEN Select(t, claim["slime"]) ELSE t
      BY <1>8 DEF StartEnemy
    <2>4. Standing(c) \subseteq Seats /\ Nearest(c, r) \subseteq Seats
      <3>1. c.anchor \in Seats
        BY <2>1 DEF Shows, TeamRecord
      <3>2. "chaser" \in Takers
        BY DEF Takers
      <3> HIDE DEF c
      <3> QED
        BY <2>2, <3>1, <3>2 DEF Standing, Nearest
    <2> HIDE DEF c
    <2>5. PICK s \in Seats :
            LET t == IF Approached(r) THEN Select(c, s) ELSE team
                pins == r = "slime" /\ "slime" \in taken
            IN team' = IF pins /\ Pinned(t) THEN Select(t, claim["slime"]) ELSE t
      BY <1>4, <2>3, <2>4
    <2> DEFINE t == IF Approached(r) THEN Select(c, s) ELSE team
    <2>6. Shows(t, truth.body) /\ t.anchor = team.anchor
      BY <1>1, <1>4, <2>1, SelectShows
    <2>7. team' = t \/ (r = "slime" /\ "slime" \in taken /\ team' = Select(t, claim["slime"]))
      BY <2>5
    <2>8. r # "slime" /\ ~Approached(r) => team' = team
      BY <2>7
    <2> HIDE DEF t
    <2>9. team'.anchor = team.anchor
      BY <1>1, <1>4, <2>2, <2>6, <2>7, SelectShows
    <2>10. (Present(Base.anchor))'
      BY <1>1, <1>3, <1>5, <2>9 DEF Present
    <2>11. routine' = r /\ ret' = IF Approached(r) THEN team.current ELSE None
      BY <1>8 DEF StartEnemy, Run
    <2>12. (routine \notin {"item", "slime"} /\ ret = None /\ back = None /\ turn # 2 => Safe(Base.current))'
      <3> SUFFICES ASSUME r # "slime", ret' = None PROVE (Safe(team.current))'
        BY <1>1, <1>3, <2>11
      <3>1. ~Approached(r)
        BY <1>4, <2>11 DEF Seats, None
      <3>2. team' = team
        BY <2>8, <3>1
      <3> QED
        BY <1>1, <1>3, <1>5, <3>2 DEF Safe, Brought
    <2>13. (ret # None => Present(ret) /\ (scene \/ Safe(ret)))'
      BY <1>1, <1>3, <1>5, <1>6, <2>9, <2>11 DEF Safe, Present, Brought
    <2> QED
      BY <1>1, <1>2, <1>3, <2>10, <2>12, <2>13 DEF Ways
  <1> QED
    BY <1>7, <1>8

LEMMA WaysEnds ==
  ASSUME PassInv, Nested, Ways, EndOwn \/ EndEnemy \/ EndItem
  PROVE  Ways'
  <1>1. /\ asking = "none" /\ ghost # 1 /\ ghost' # 1 /\ ret' = None /\ back' = None
        /\ UNCHANGED <<asking, turn, first, status, scene, game, truth>> /\ turn = 0
        /\ EndEnemy \/ (ret = None /\ back = None)
    <2>1. asking = "none" /\ ghost # 1 /\ ghost' # 1 /\ UNCHANGED <<asking, turn, first, status, scene, game, truth>>
      BY GhostPlace DEF EndOwn, EndEnemy, EndItem, Over, Roster
    <2>2. turn = 0
      BY <2>1 DEF Nested, Queried
    <2>3. EndOwn \/ EndItem => ret = None /\ back = None /\ UNCHANGED <<ret, back>>
      BY <2>1 DEF EndOwn, EndItem, Nested, Projected
    <2>4. EndEnemy => ret' = None /\ back' = None
      BY DEF EndEnemy
    <2> QED
      BY <2>1, <2>2, <2>3, <2>4
  <1>2. /\ Shows(team, truth.body) /\ truth.body \in Bodies /\ team.anchor \in Seats
        /\ team.current \in Seats /\ Base = team /\ Base' = team'
    BY <1>1, ShownTeam DEF Base
  <1>3. ret \in Seats \cup {None} /\ back \in Seats \cup {None}
    BY GhostPlace
  <1>4. SUFFICES ASSUME TRUE PROVE (Present(Base.anchor))' /\ (Safe(team.current))'
    BY <1>1, <1>2 DEF Ways
  <1>5. ASSUME NEW s \in Seats, Safe(s), Passes(team, team', s)
        PROVE  (Present(Base.anchor))' /\ (Safe(team.current))'
    BY <1>1, <1>5, PassedWays
  <1>6. CASE EndOwn
    <2>1. team' = team /\ routine \notin {"item", "slime"}
      BY <1>6 DEF EndOwn
    <2>2. Safe(team.current)
      BY <1>1, <1>2, <1>6, <2>1 DEF Ways, EndOwn, EndEnemy, Projected
    <2> QED
      BY <1>2, <1>5, <2>1, <2>2 DEF Passes
  <1>7. CASE EndItem
    <2>1. Passes(team, team', team.anchor)
      BY <1>1, <1>2, <1>7, SelectShows DEF EndItem, Passes
    <2> QED
      BY <1>2, <1>5, <2>1 DEF Safe
  <1>8. CASE EndEnemy
    <2> DEFINE t == CASE back # None -> Select(team, back)
                      [] routine = "slime" -> Select(team, team.anchor)
                      [] OTHER -> team
               s == IF scene THEN t.anchor ELSE ret
    <2>1. Shows(t, truth.body) /\ t.anchor = team.anchor
          /\ t.current = IF back # None THEN back ELSE IF routine = "slime" THEN team.anchor ELSE team.current
      <3>0. ~(back # None /\ routine = "slime")
        BY <1>1 DEF Nested
      <3>1. t = IF back # None THEN Select(team, back)
                ELSE IF routine = "slime" THEN Select(team, team.anchor) ELSE team
        BY <3>0
      <3> HIDE DEF t
      <3>2. back # None => back \in Seats
        BY <1>3
      <3> QED
        BY <1>1, <1>2, <3>1, <3>2, SelectShows
    <2>2. team' = IF ret = None THEN t ELSE Survivor(Select(t, s))
      BY <1>8 DEF EndEnemy
    <2>3. ret # None => s \in Seats /\ Safe(s)
      <3> HIDE DEF t
      <3> QED
        BY <1>2, <1>3, <2>1 DEF Ways, Safe
    <2> HIDE DEF t, s
    <2>4. CASE ret = None
      <3>1. Safe(t.current)
        BY <1>1, <1>2, <1>8, <2>1, <2>4 DEF Ways, Safe, EndEnemy, Projected
      <3>2. t.current \in Seats
        BY <2>1 DEF Shows, TeamRecord
      <3> QED
        BY <1>5, <2>1, <2>2, <2>4, <3>1, <3>2 DEF Passes
    <2>5. CASE ret # None
      <3>1. Shows(Select(t, s), truth.body) /\ Select(t, s).current = s /\ Select(t, s).anchor = team.anchor
        BY <1>1, <1>2, <2>1, <2>3, <2>5, SelectShows
      <3>2. Passes(Select(t, s), team', s)
        BY <1>1, <1>2, <2>2, <2>5, <3>1, SurvivorPasses
      <3>3. Passes(team, team', s)
        BY <3>1, <3>2 DEF Passes
      <3> QED
        BY <1>5, <2>3, <2>5, <3>3
    <2> QED
      BY <2>4, <2>5
  <1> QED
    BY <1>6, <1>7, <1>8

LEMMA WaysAims ==
  ASSUME PassInv, Nested, Ways, Aim \/ Aimed
  PROVE  Ways'
  <1>1. /\ ghost # 1 /\ ghost' # 1 /\ routine = "turret" /\ turn = 0 /\ turn' = 0 /\ asking' \in {"none", "aim"}
        /\ UNCHANGED <<routine, ret, status, scene, game, truth>>
    BY GhostPlace DEF Aim, Aimed, Roster, Nested, AskedIn, Queried
  <1>2. /\ Shows(team, truth.body) /\ truth.body \in Bodies /\ team.anchor \in Seats
        /\ team.current \in Seats /\ Base = team /\ Base' = team'
        /\ back \in Seats \cup {None} /\ claim["sensor"] \in Seats \cup {None} /\ ret \in Seats \cup {None}
    BY <1>1, ShownTeam, GhostPlace DEF Base, PassInv, Remembered, Takers
  <1>3. team'.anchor = team.anchor
        /\ (ret = None /\ back' = None => Safe(team'.current)) /\ (ret = None /\ back' # None => back' \in Seats /\ Safe(back'))
    <2>1. CASE Aim
      <3>1. back = None
        BY <1>1, <2>1 DEF Nested, Aim
      <3>2. ret = None => Safe(team.current)
        BY <1>1, <1>2, <3>1 DEF Ways
      <3>3. \/ claim["sensor"] # None /\ back' = team.current /\ team' = Select(team, claim["sensor"])
            \/ UNCHANGED <<team, back>>
        BY <2>1 DEF Aim
      <3>4. team'.anchor = team.anchor
        <4>1. CASE claim["sensor"] # None /\ team' = Select(team, claim["sensor"])
          <5>1. claim["sensor"] \in Seats
            BY <1>2, <4>1
          <5> QED
            BY <1>1, <1>2, <4>1, <5>1, SelectShows
        <4> QED
          BY <3>3, <4>1
      <3>5. back' = team.current \/ UNCHANGED <<team, back>>
        BY <3>3
      <3>6. team.current # None
        BY <1>2 DEF Seats, None
      <3> QED
        BY <1>2, <3>1, <3>2, <3>4, <3>5, <3>6
    <2>2. CASE Aimed
      <3>1. back' = None /\ team' = IF back # None THEN Select(team, back) ELSE team
        BY <2>2 DEF Aimed
      <3>2. ret = None => Safe(IF back # None THEN back ELSE team.current)
        BY <1>1, <1>2 DEF Ways
      <3>3. team'.anchor = team.anchor /\ team'.current = IF back # None THEN back ELSE team.current
        BY <1>1, <1>2, <3>1, SelectShows
      <3> QED
        BY <3>1, <3>2, <3>3
    <2> QED
      BY <2>1, <2>2
  <1>4. \A s \in Seats : (Safe(s) => Safe(s)') /\ (Present(s) => Present(s)')
    BY <1>1, <1>2, <1>3 DEF Safe, Present, Brought
  <1>5. (Present(Base.anchor))'
    BY <1>1, <1>2, <1>3 DEF Ways, Present
  <1>6. (ret = None /\ back = None => Safe(team.current))' /\ (ret = None /\ back # None => Safe(back))'
    BY <1>1, <1>2, <1>3 DEF Safe, Brought
  <1>7. (ret # None => Present(ret) /\ (scene \/ Safe(ret)))'
    BY <1>1, <1>2, <1>3 DEF Ways, Safe, Present, Brought
  <1> QED
    BY <1>1, <1>2, <1>5, <1>6, <1>7 DEF Ways

LEMMA WaysStep ==
  ASSUME PassInv, Nested, Ways, [PassesNext]_passesVars
  PROVE  Ways'
  <1>1. CASE FrameTick \/ Placed \/ TeamReset
    BY <1>1, WaysFrame
  <1>2. CASE EndFrame \/ CarryEarly
    BY <1>2, WaysCarries
  <1>3. CASE StartRoutine
    <2>1. {"controller", "object", "shots", "armor", "door"} \cap (Projected \cup {"item"}) = {}
      BY DEF Projected
    <2> QED
      BY <1>3, <2>1, WaysOpens, WaysStarts DEF StartRoutine
  <1>4. CASE EndRoutine
    BY <1>4, WaysEnds DEF EndRoutine
  <1>5. CASE StartQuery \/ ReturnAlone \/ ReturnOnly \/ AskAgain \/ ReturnBoth
    BY <1>5, WaysOpens, WaysReturnsAlone, WaysReturnsOnly, WaysAsksAgain, WaysReturnsBoth
  <1>6. CASE Aim \/ Aimed
    BY <1>6, WaysAims
  <1>7. CASE GhostBegin \/ GhostEnd
    BY <1>7, WaysGhosts
  <1>8. CASE BodyMoves \/ BodyHurt \/ FoeMoves \/ Fallen \/ Catch \/ LetGo
    BY <1>8, WaysWrites
  <1>9. CASE UNCHANGED passesVars
    BY <1>9 DEF passesVars, query, Ways, Safe, Present, Base, Brought
  <1> QED
    BY <1>1, <1>2, <1>3, <1>4, <1>5, <1>6, <1>7, <1>8, <1>9 DEF PassesNext

-----------------------------------------------------------------------------
(* The seats that are remembered *)

LEMMA ClaimsInitially == PassesInit => Claims
  BY DEF PassesInit, Claims, Kept, Takers

\* Nothing that a taker has to do with.
LEMMA ClaimsStill ==
  ASSUME Claims, UNCHANGED <<claim, taken, got, routine, asking, turn, said, ret>>,
         team'.current = team.current, asking # "aim"
  PROVE  Claims'
  BY DEF Claims, Kept

\* Between routines, and in one that takes nothing.
LEMMA ClaimsElsewhere ==
  ASSUME Claims, UNCHANGED <<claim, taken, got>>, routine' \notin Takers, asking' \notin {"aim", "slime"},
         Kept("chaser") => claim["chaser"] = got["chaser"]
  PROVE  Claims'
  <1>1. routine' \notin taken /\ routine' \notin {"item", "chaser", "slime"}
    BY DEF Claims, Takers
  <1> QED
    BY <1>1 DEF Claims, Kept

LEMMA ClaimsHost ==
  ASSUME PassInv, Nested, Claims, FrameTick \/ Placed \/ EndFrame \/ CarryEarly \/ TeamReset
  PROVE  Claims'
  <1>1. CASE CarryEarly
    <2>1. team'.current = team.current
      BY <1>1 DEF CarryEarly, Carried, Poked, PassInv, TeamRecord
    <2> QED
      BY <1>1, <2>1, ClaimsStill DEF CarryEarly, query
  <1>2. CASE FrameTick \/ Placed \/ EndFrame
    <2>1. routine = "idle" /\ UNCHANGED <<routine, asking, claim, taken, got>>
      BY <1>2 DEF FrameTick, Placed, EndFrame, query, Objs, PassInv, Marks
    <2>2. asking = "none"
      BY <2>1 DEF Nested, AskedIn
    <2>3. Kept("chaser") => claim["chaser"] = got["chaser"]
      BY <2>1 DEF Claims
    <2>4. "idle" \notin Takers
      BY DEF Takers
    <2> QED
      BY <2>1, <2>2, <2>3, <2>4, ClaimsElsewhere
  <1>3. CASE TeamReset
    <2>1. /\ routine = "idle" /\ UNCHANGED <<routine, asking>> /\ taken' = {}
          /\ got' = [o \in Takers |-> None]
      BY <1>3 DEF TeamReset, query
    <2>2. asking' = "none"
      BY <2>1 DEF Nested, AskedIn
    <2> QED
      BY <2>1, <2>2 DEF Claims, Kept
  <1> QED
    BY <1>1, <1>2, <1>3

LEMMA ClaimsOpens ==
  ASSUME PassInv, Nested, Claims, StartQuery \/ (\E r, k : StartOwn(r, k) /\ <<r, k>> \in
            {<<"controller", "controller">>, <<"object", "object">>, <<"shots", "shots">>, <<"armor", "board">>, <<"door", "door">>})
  PROVE  Claims'
  <1>1. ASSUME NEW r, NEW k, StartOwn(r, k),
               <<r, k>> \in {<<"controller", "controller">>, <<"object", "object">>, <<"shots", "shots">>,
                             <<"armor", "board">>, <<"door", "door">>}
        PROVE  Claims'
    <2>1. routine = "idle" /\ routine' = r /\ asking' = k /\ UNCHANGED <<claim, taken, got>>
      BY <1>1 DEF StartOwn, Run, Open, Objs
    <2>2. r \notin Takers /\ k \notin {"aim", "slime"}
      BY <1>1 DEF Takers
    <2>3. Kept("chaser") => claim["chaser"] = got["chaser"]
      BY <2>1 DEF Claims
    <2> QED
      BY <2>1, <2>2, <2>3, ClaimsElsewhere
  <1>2. CASE StartQuery
    <2>1. PICK k \in Queries(routine) : Open(k) /\ claim' = Noted(k)
      BY <1>2 DEF StartQuery
    <2>2. /\ asking' = k /\ UNCHANGED <<team, routine, ret, taken, got>>
          /\ routine \in Projected \cup {"item"} /\ claim \in [Takers -> Seats \cup {None}]
      BY <1>2, <2>1 DEF StartQuery, Open, PassInv, Remembered
    <2>3. routine \notin taken /\ k # "aim" /\ (k = "slime" => routine = "slime")
      <3>1. routine \in Takers => routine \notin taken
        BY <2>1 DEF Queries, Takers
      <3>2. routine \notin taken
        BY <3>1 DEF Claims
      <3> QED
        BY <2>1, <2>2, <3>2 DEF Queries, Projected
    <2>4. /\ \A o \in Takers : o \in taken \/ o # "slime" => claim'[o] = claim[o]
          /\ k = "slime" => claim'["slime"] = team.current
      BY <2>1, <2>2, <2>3 DEF Noted, Takers
    <2>5. {"sensor", "slime", "item", "chaser"} \subseteq Takers
      BY DEF Takers
    <2> QED
      BY <2>2, <2>3, <2>4, <2>5 DEF Claims, Kept
  <1> QED
    BY <1>1, <1>2

\* An answer is remembered for the seat that was projected.
LEMMA ClaimsReturns ==
  ASSUME PassInv, Nested, Claims, ReturnAlone \/ ReturnOnly \/ ReturnBoth
  PROVE  Claims'
  <1>1. PICK on \in BOOLEAN : said' = [said EXCEPT ![Seen] = on] /\ Take(asking, on)
                            /\ (on /\ asking = "pickup" => team' = team)
    BY DEF ReturnAlone, ReturnOnly, ReturnBoth
  <1>2. /\ asking' = "none" /\ asking \notin {"none", "aim"} /\ UNCHANGED <<routine, ret>>
        /\ routine \notin taken
    <2>1. asking' = "none" /\ asking \notin {"none", "aim"} /\ UNCHANGED <<routine, ret>>
      BY DEF ReturnAlone, ReturnOnly, ReturnBoth, Closed, Quiet, Nested, Queried
    <2> QED
      BY <2>1 DEF Claims
  <1>3. /\ claim \in [Takers -> Seats \cup {None}] /\ got \in [Takers -> Seats \cup {None}]
        /\ taken \subseteq Takers /\ team.current \in Seats /\ Seen \in Seats
        /\ said \in [Seats -> BOOLEAN]
    BY GhostPlace DEF PassInv, Remembered, Claims, Nested
  <1>4. CASE ~(on /\ asking \in Keeps)
    <2>1. UNCHANGED <<taken, got, claim>>
      BY <1>1, <1>4 DEF Take
    <2> QED
      BY <1>2, <2>1 DEF Claims, Kept
  <1>5. CASE on /\ asking \in Keeps
    <2>1. /\ Taker(asking) = routine /\ routine \in {"item", "sensor", "slime"}
          /\ (asking = "pickup" <=> routine = "item") /\ (asking = "slime" <=> routine = "slime")
      BY <1>5 DEF Taker, Keeps, Nested, AskedIn
    <2>2. Seen = team.current
      BY <2>1, GhostPlace DEF Seen
    <2>3. /\ taken' = taken \cup {routine}
          /\ got' = [got EXCEPT ![routine] = IF turn = 0 /\ asking # "slime" THEN None ELSE team.current]
          /\ claim' = IF turn = 0 THEN claim ELSE [claim EXCEPT ![routine] = team.current]
      BY <1>1, <1>5, <2>1, <2>2 DEF Take
    <2>4. routine \in Takers /\ {"sensor", "slime", "item", "chaser"} \subseteq Takers
      BY <2>1 DEF Takers
    <2>5. got'[routine] # None => got'[routine] = team.current /\ claim'[routine] = team.current
      <3>1. turn = 0 /\ asking = "slime" => claim["slime"] = team.current
        BY DEF Claims
      <3> QED
        BY <1>3, <2>1, <2>3, <2>4, <3>1
    <2>6. \A o \in Takers : o # routine => /\ got'[o] = got[o] /\ claim'[o] = claim[o]
                                           /\ (o \in taken' <=> o \in taken)
      BY <1>3, <2>3, <2>4
    <2>7. taken' \subseteq Takers /\ got' \in [Takers -> Seats \cup {None}]
      BY <1>3, <2>3, <2>4
    <2>8. \A o \in {"sensor", "slime", "item"} : (Kept(o))' => claim'[o] = got'[o]
      <3>1. ASSUME NEW o \in {"sensor", "slime", "item"}, o \in taken', got'[o] # None
            PROVE  claim'[o] = got'[o]
        <4>1. CASE o = routine
          BY <2>5, <3>1, <4>1
        <4>2. CASE o # routine
          <5>1. o \in Takers
            BY <2>4, <3>1
          <5>2. o \in taken /\ got[o] # None
            BY <2>6, <3>1, <4>2, <5>1
          <5> QED
            BY <2>6, <3>1, <4>2, <5>1, <5>2 DEF Claims, Kept
        <4> QED
          BY <4>1, <4>2
      <3> QED
        BY <3>1 DEF Kept
    <2>9. (Kept("chaser"))' => claim'["chaser"] = got'["chaser"]
      BY <2>1, <2>4, <2>6 DEF Claims, Kept
    <2>10. routine = "slime" => said' # Nobody
      BY <1>1, <1>3, <1>5 DEF Nobody
    <2>11. routine = "item" => team'.current = team.current
      BY <1>1, <1>5, <2>1
    <2> QED
      BY <1>2, <2>1, <2>3, <2>5, <2>7, <2>8, <2>9, <2>10, <2>11 DEF Claims, Kept
  <1> QED
    BY <1>4, <1>5

LEMMA ClaimsAsksAgain ==
  ASSUME PassInv, Nested, Claims, AskAgain
  PROVE  Claims'
  <1>1. /\ turn = 1 /\ turn' = 2 /\ UNCHANGED <<asking, claim, taken, got, routine, ret>> /\ asking # "none"
    BY DEF AskAgain
  <1>2. asking # "aim"
    BY <1>1 DEF Nested, Queried
  <1>3. routine \notin taken
    BY <1>1 DEF Claims
  <1> QED
    BY <1>1, <1>2, <1>3 DEF Claims, Kept

LEMMA ClaimsWrites ==
  ASSUME PassInv, Nested, Claims,
         BodyMoves \/ BodyHurt \/ FoeMoves \/ Fallen \/ GhostBegin \/ GhostEnd
  PROVE  Claims'
  <1>1. /\ UNCHANGED <<claim, taken, got, routine, asking, turn, said, ret>>
        /\ asking # "aim"
    BY GhostPlace DEF BodyMoves, BodyHurt, FoeMoves, Fallen, GhostBegin, GhostEnd, query, Objs
  <1>2. team'.current = team.current
    BY DEF BodyMoves, BodyHurt, FoeMoves, Fallen, Captured, GhostBegin, GhostEnd, PassInv, TeamRecord,
           Match, InGhost, GhostCopies
  <1> QED
    BY <1>1, <1>2, ClaimsStill

\* An enemy that holds a player starts with him.
LEMMA ClaimsStarts ==
  ASSUME PassInv, Nested, Claims, StartItem \/ \E r \in Projected : StartEnemy(r)
  PROVE  Claims'
  <1>1. /\ routine = "idle" /\ asking = "none" /\ ghost # 1
        /\ UNCHANGED <<asking, turn, got, said>> /\ said = Nobody /\ turn = 0
    BY IdleNoGhost DEF StartItem, StartEnemy, Run, query, Nested, Queried
  <1>2. Shows(team, truth.body) /\ truth.body \in Bodies /\ team.current \in Seats
    BY <1>1, ShownTeam
  <1>3. /\ claim \in [Takers -> Seats \cup {None}] /\ ("slime" \in taken => claim["slime"] \in Seats)
        /\ {"sensor", "slime", "item", "chaser"} \subseteq Takers /\ taken \subseteq Takers
        /\ got \in [Takers -> Seats \cup {None}]
        /\ \A o \in {"sensor", "slime", "item", "chaser"} : Kept(o) => claim[o] = got[o]
    BY <1>1 DEF PassInv, Remembered, Claims, Takers
  <1>4. CASE StartItem
    <2>1. /\ routine' = "item" /\ taken' = taken /\ claim' = ClaimOfItem
          /\ team' = IF claim'["item"] # None THEN Select(team, claim'["item"]) ELSE team
      BY <1>4 DEF StartItem, Run
    <2>2. /\ \A o \in Takers : o # "item" => claim'[o] = claim[o]
          /\ claim'["item"] = IF "item" \in taken THEN claim["item"] ELSE None
      BY <1>3, <2>1 DEF ClaimOfItem
    <2>3. \A o \in {"sensor", "slime", "item", "chaser"} : (Kept(o))' => claim'[o] = got'[o]
      BY <1>1, <1>3, <2>1, <2>2 DEF Kept
    <2>4. (Kept("item"))' => team'.current = got'["item"]
      <3> SUFFICES ASSUME "item" \in taken, got["item"] # None PROVE team'.current = got["item"]
        BY <1>1, <2>1 DEF Kept
      <3>1. claim'["item"] = got["item"] /\ got["item"] \in Seats
        BY <1>3, <2>2 DEF Kept
      <3>2. team' = Select(team, got["item"])
        BY <2>1, <3>1
      <3> QED
        BY <1>1, <1>2, <3>1, <3>2, SelectShows
    <2> QED
      BY <1>1, <1>3, <2>1, <2>2, <2>3, <2>4 DEF Claims
  <1>5. ASSUME NEW r \in Projected, StartEnemy(r)
        PROVE  Claims'
    <2> DEFINE c == Captured(team)
    <2>1. Shows(c, truth.body) /\ c.anchor \in Seats
      BY <1>1, <1>2, CapturedShows DEF Shows, TeamRecord
    <2>2. routine' = r /\ claim' = claim /\ (ret' # None => Approached(r))
      BY <1>5 DEF StartEnemy, Run
    <2>3. PICK free \in BOOLEAN :
            LET lost == r = "chaser" /\ "chaser" \in taken /\ claim["chaser"] # None
                        /\ ~Stands(c, claim["chaser"]) /\ free
                held == IF lost THEN taken \ {"chaser"} ELSE taken
            IN \E s \in IF ~Approached(r) THEN {team.current}
                        ELSE IF lost THEN Standing(c) ELSE Nearest(c, r) :
                  LET t == IF Approached(r) THEN Select(c, s) ELSE team
                      pins == r = "slime" /\ "slime" \in taken
                  IN /\ team' = IF pins /\ Pinned(t) THEN Select(t, claim["slime"]) ELSE t
                     /\ taken' = IF pins /\ ~Pinned(t) THEN held \ {"slime"} ELSE held
      BY <1>5 DEF StartEnemy
    <2> HIDE DEF c
    <2>4. Standing(c) \subseteq Seats /\ Nearest(c, r) \subseteq Seats
      BY <1>3, <2>1 DEF Standing, Nearest
    <2>5. taken' \subseteq taken
      BY <2>3
    <2>6. \A o \in {"sensor", "slime", "item", "chaser"} : (Kept(o))' => claim'[o] = got'[o]
      BY <1>1, <1>3, <2>2, <2>5 DEF Kept
    <2>7. (r = "chaser" /\ ret' # None) /\ (Kept("chaser"))' => team'.current = got'["chaser"]
      <3> SUFFICES ASSUME r = "chaser", Approached(r), "chaser" \in taken', got["chaser"] # None
                   PROVE  team'.current = got["chaser"]
        BY <1>1, <2>2 DEF Kept
      <3>1. claim["chaser"] = got["chaser"] /\ got["chaser"] \in Seats /\ "chaser" \in taken
        BY <1>3, <2>5 DEF Kept
      <3>2. \E s \in Nearest(c, r) : team' = Select(c, s)
        BY <2>3
      <3>3. Nearest(c, r) = {got["chaser"]}
        BY <3>1 DEF Nearest
      <3>4. team' = Select(c, got["chaser"])
        BY <3>2, <3>3
      <3> QED
        BY <1>1, <1>2, <2>1, <3>1, <3>4, SelectShows
    <2>8. r = "slime" /\ (Kept("slime"))' => team'.current = got'["slime"]
      <3> SUFFICES ASSUME r = "slime", "slime" \in taken', got["slime"] # None
                   PROVE  team'.current = got["slime"]
        BY <1>1, <2>2 DEF Kept
      <3>1. claim["slime"] = got["slime"] /\ got["slime"] \in Seats /\ "slime" \in taken
        BY <1>3, <2>5 DEF Kept
      <3>2. PICK s \in Seats :
              LET t == IF Approached(r) THEN Select(c, s) ELSE team IN
              /\ team' = IF Pinned(t) THEN Select(t, claim["slime"]) ELSE t
              /\ taken' = IF ~Pinned(t) THEN taken \ {"slime"} ELSE taken
        <4>1. team.current \in Seats
          BY <1>2
        <4> QED
          BY <2>3, <2>4, <3>1, <4>1
      <3> DEFINE t == IF Approached(r) THEN Select(c, s) ELSE team
      <3>3. Shows(t, truth.body)
        BY <1>1, <1>2, <2>1, SelectShows
      <3>4. team' = Select(t, got["slime"])
        BY <3>1, <3>2
      <3> HIDE DEF t
      <3> QED
        BY <1>1, <1>2, <3>1, <3>3, <3>4, SelectShows
    <2>9. r # "item" /\ r # "idle"
      BY DEF Projected
    <2> QED
      BY <1>1, <1>3, <2>2, <2>5, <2>6, <2>7, <2>8, <2>9 DEF Claims
  <1> QED
    BY <1>4, <1>5

LEMMA ClaimsEnds ==
  ASSUME PassInv, Nested, Claims, EndOwn \/ EndEnemy \/ EndItem
  PROVE  Claims'
  <1>1. routine' = "idle" /\ asking = "none" /\ asking' = "none" /\ "idle" \notin Takers
    BY DEF EndOwn, EndEnemy, EndItem, Over, Takers
  <1>2. /\ {"sensor", "slime", "item", "chaser"} \subseteq Takers /\ taken \subseteq Takers
        /\ got \in [Takers -> Seats \cup {None}] /\ claim \in [Takers -> Seats \cup {None}]
    BY DEF Claims, Takers, PassInv, Remembered
  <1>3. CASE EndOwn
    <2>1. UNCHANGED <<claim, taken, got>> /\ routine # "chaser"
      BY <1>3 DEF EndOwn, Objs
    <2>2. Kept("chaser") => claim["chaser"] = got["chaser"]
      BY <2>1 DEF Claims
    <2> QED
      BY <1>1, <2>1, <2>2, ClaimsElsewhere
  <1>4. CASE EndEnemy
    <2>1. /\ UNCHANGED <<taken, got>>
          /\ claim' = IF routine = "chaser" /\ ret # None
                      THEN [claim EXCEPT !["chaser"] = IF "chaser" \in taken THEN team.current ELSE None]
                      ELSE claim
      BY <1>4 DEF EndEnemy
    <2>2. \A o \in Takers : o # "chaser" => claim'[o] = claim[o]
      BY <1>2, <2>1
    <2>3. (Kept("chaser"))' => claim'["chaser"] = got'["chaser"]
      BY <1>2, <2>1 DEF Claims, Kept
    <2>4. "sensor" # "chaser" /\ "slime" # "chaser" /\ "item" # "chaser"
      OBVIOUS
    <2>5. \A o \in {"sensor", "slime", "item"} : (Kept(o))' => claim'[o] = got'[o]
      BY <1>2, <2>1, <2>2, <2>4 DEF Claims, Kept
    <2> QED
      BY <1>1, <1>2, <2>1, <2>3, <2>5 DEF Claims
  <1>5. CASE EndItem
    <2>1. claim' = claim /\ routine = "item" /\ \E o \in {"none", "item"} : Released(o)
      BY <1>5 DEF EndItem
    <2>2. \A o \in Takers : (Kept(o))' => Kept(o) /\ got'[o] = got[o]
      BY <2>1 DEF Released, Kept
    <2>3. taken' \subseteq Takers /\ got' \in [Takers -> Seats \cup {None}]
      BY <1>2, <2>1 DEF Released
    <2> QED
      BY <1>1, <1>2, <2>1, <2>2, <2>3 DEF Claims
  <1> QED
    BY <1>3, <1>4, <1>5

LEMMA ClaimsTakers ==
  ASSUME PassInv, Nested, Claims, Catch \/ LetGo
  PROVE  Claims'
  <1>1. /\ UNCHANGED <<team, routine, ret, claim, said, asking, turn>> /\ asking = "none"
    BY DEF Catch, LetGo, query
  <1>2. /\ {"sensor", "slime", "item", "chaser"} \subseteq Takers /\ taken \subseteq Takers
        /\ got \in [Takers -> Seats \cup {None}]
    BY DEF Claims, Takers
  <1>3. CASE LetGo
    <2>1. PICK o \in taken : Released(o) /\ (o = "item" => FALSE)
      BY <1>3 DEF LetGo
    <2>2. \A p \in Takers : (Kept(p))' => Kept(p) /\ got'[p] = got[p]
      BY <2>1 DEF Released, Kept
    <2>3. taken' \subseteq taken /\ got' \in [Takers -> Seats \cup {None}]
      BY <1>2, <2>1 DEF Released
    <2>4. "item" \in taken' <=> "item" \in taken
      BY <2>1 DEF Released
    <2> QED
      BY <1>1, <1>2, <2>2, <2>3, <2>4 DEF Claims
  <1>4. CASE Catch
    <2>1. /\ routine = "chaser" /\ taken' = taken \cup {"chaser"}
          /\ got' = [got EXCEPT !["chaser"] = IF ret = None THEN None ELSE Seen]
      BY <1>4 DEF Catch
    <2>2. Seen = team.current /\ Seen \in Seats
      BY <2>1, GhostPlace DEF Seen
    <2>3. \A o \in {"sensor", "slime", "item"} : ((Kept(o))' <=> Kept(o)) /\ got'[o] = got[o]
      BY <1>2, <2>1 DEF Kept
    <2>4. (Kept("chaser"))' => ret # None /\ got'["chaser"] = team.current
      BY <1>2, <2>1, <2>2 DEF Kept
    <2>5. taken' \subseteq Takers /\ got' \in [Takers -> Seats \cup {None}]
      BY <1>2, <2>1, <2>2
    <2> QED
      BY <1>1, <2>1, <2>3, <2>4, <2>5 DEF Claims
  <1> QED
    BY <1>3, <1>4

\* The turret aims at the seat that tripped its sensor.
LEMMA ClaimsAims ==
  ASSUME PassInv, Nested, Claims, Aim \/ Aimed
  PROVE  Claims'
  <1>1. routine = "turret" /\ routine' = routine /\ UNCHANGED <<claim, taken, got>> /\ ghost # 1
    BY GhostPlace DEF Aim, Aimed, Objs, Nested, AskedIn
  <1>2. Kept("chaser") => claim["chaser"] = got["chaser"]
    BY <1>1 DEF Claims
  <1>3. CASE Aimed
    <2>1. asking' = "none" /\ "turret" \notin Takers
      BY <1>3 DEF Aimed, Takers
    <2> QED
      BY <1>1, <1>2, <2>1, ClaimsElsewhere
  <1>4. CASE Aim
    <2>1. /\ asking' = "aim"
          /\ IF claim["sensor"] # None /\ Stands(team, claim["sensor"])
             THEN team' = Select(team, claim["sensor"]) ELSE team' = team
      BY <1>4 DEF Aim
    <2>2. ASSUME Kept("sensor"), (Stands(team, got["sensor"]))', got' = got, status' = status
          PROVE  team'.current = got["sensor"]
      <3>1. claim["sensor"] = got["sensor"] /\ got["sensor"] \in Seats
        BY <2>2 DEF Claims, Kept, Takers
      <3>2. Stands(team, got["sensor"])
        <4>1. CASE team' = team
          BY <2>2, <4>1 DEF Stands
        <4>2. CASE team' # team
          BY <2>1, <3>1, <4>2
        <4> QED
          BY <4>1, <4>2
      <3>3. team' = Select(team, got["sensor"])
        BY <2>1, <2>2, <3>1, <3>2 DEF Kept
      <3> QED
        BY <1>1, <3>1, <3>3, ShownTeam, SelectShows
    <2>3. status' = status /\ "turret" \notin taken
      BY <1>4 DEF Aim, Roster, Claims, Takers
    <2> QED
      BY <1>1, <2>1, <2>2, <2>3 DEF Claims, Kept
  <1> QED
    BY <1>3, <1>4

LEMMA ClaimsStep ==
  ASSUME PassInv, Nested, Claims, [PassesNext]_passesVars
  PROVE  Claims'
  <1>1. CASE FrameTick \/ Placed \/ EndFrame \/ CarryEarly \/ TeamReset
    BY <1>1, ClaimsHost
  <1>2. CASE StartRoutine
    BY <1>2, ClaimsOpens, ClaimsStarts DEF StartRoutine
  <1>3. CASE EndRoutine
    BY <1>3, ClaimsEnds DEF EndRoutine
  <1>4. CASE StartQuery \/ ReturnAlone \/ ReturnOnly \/ AskAgain \/ ReturnBoth
    BY <1>4, ClaimsOpens, ClaimsReturns, ClaimsAsksAgain
  <1>5. CASE Aim \/ Aimed \/ Catch \/ LetGo
    BY <1>5, ClaimsAims, ClaimsTakers
  <1>6. CASE BodyMoves \/ BodyHurt \/ FoeMoves \/ Fallen \/ GhostBegin \/ GhostEnd
    BY <1>6, ClaimsWrites
  <1>7. CASE UNCHANGED passesVars
    BY <1>7 DEF passesVars, query, Claims, Kept, Stands
  <1> QED
    BY <1>1, <1>2, <1>3, <1>4, <1>5, <1>6, <1>7 DEF PassesNext

-----------------------------------------------------------------------------
(* The seats that are asked *)

LEMMA AnswersInitially == PassesInit => Answers
  BY DEF PassesInit, Answers, Counting, Queried

\* Outside a query nothing is counted.
LEMMA AnswersOver ==
  ASSUME asking' \in {"none", "aim"}
  PROVE  Answers'
  BY DEF Answers, Counting, Queried

\* Two passes are opened unless there is nobody else to ask.
LEMMA OpenAsks ==
  ASSUME PassInv, Nested, Claims, NEW k, Open(k), ghost # 1, UNCHANGED <<team, status, scene, game, truth>>,
         k = "pickup" => claim["item"] = None,
         k \in {"controller", "object", "shots", "platform", "pickup", "eagle", "door",
                "contact", "shot", "slime", "laser", "lift", "board"}
  PROVE  Answers'
  <1> DEFINE c == team.current
             o == Other(c)
  <1>1. /\ asking' = k /\ turn' = (IF Opens(k) THEN 1 ELSE 0) /\ fit' = Owed(k) /\ Seen = c
        /\ asked' = [s \in Seats |-> IF s = c THEN 1 ELSE 0]
    BY DEF Open, Seen
  <1>2. /\ c \in Seats /\ o \in Seats /\ o # c /\ team.anchor \in Seats /\ Seats = {c, o}
        /\ team.stored[o] = truth.body[o]
    BY GhostPlace, SeatsHaveOther, ShownTeam DEF Seats, Other, Shows
  <1>3. fit' \subseteq Seats
    BY <1>1, <1>2 DEF Owed, Really, Alive
  <1>8. o \in fit' => ~scene /\ status[o] = "alive" /\ (k \in ByDriver => c = team.anchor)
                     /\ (k \notin {"controller", "object", "shots"} => Stands(team, o))
                     /\ (k = "board" => ~IsLearner(o)) /\ (k = "door" => ~game.learner)
    BY <1>1, <1>2 DEF Owed, Really, Alive, Stands
  <1>4. k \in ByDriver /\ fit' # {} => c = team.anchor
    BY <1>1 DEF Owed
  <1>5. o \in fit' => Opens(k)
    <2> SUFFICES ASSUME o \in fit' PROVE Opens(k)
      OBVIOUS
    <2>1. k \in ByDriver => Other(team.anchor) = o
      BY <1>8
    <2> QED
      BY <1>8, <2>1 DEF Opens, ByDriver, Stands
  <1>6. turn' = 0 => fit' \subseteq {c}
    BY <1>1, <1>2, <1>3, <1>5
  <1>7. turn' # 2
    BY <1>1
  <1>9. o \in fit' =>
            /\ k = "controller" => ~scene' /\ status'[o] = "alive"
            /\ k \in {"platform", "laser"} => status'[o] = "alive" /\ team'.stored[o].hp > 0
    BY <1>8 DEF Stands
  <1>10. team' = team /\ c \in Seats /\ Seats = {c, o}
    BY <1>2
  <1>11. fit' # {} => (turn' = 1 /\ asking' \in ByDriver => team'.current = team'.anchor)
    BY <1>1, <1>4
  <1>12. /\ asked' = [s \in Seats |-> IF s = team'.current THEN 1 ELSE 0]
         /\ turn' = 0 => fit' \subseteq {team'.current}
    BY <1>1, <1>6
  <1>13. Other(team'.current) = o
    BY <1>10
  <1> QED
    BY <1>1, <1>3, <1>7, <1>9, <1>11, <1>12, <1>13 DEF Answers, Counting, Stands

LEMMA AnswersOpens ==
  ASSUME PassInv, Nested, Claims, StartQuery \/ (\E r, k : StartOwn(r, k) /\ <<r, k>> \in
            {<<"controller", "controller">>, <<"object", "object">>, <<"shots", "shots">>, <<"armor", "board">>, <<"door", "door">>})
  PROVE  Answers'
  <1>1. ASSUME NEW r, NEW k, StartOwn(r, k),
               <<r, k>> \in {<<"controller", "controller">>, <<"object", "object">>, <<"shots", "shots">>,
                             <<"armor", "board">>, <<"door", "door">>}
        PROVE  Answers'
    <2>1. Open(k) /\ ghost # 1 /\ UNCHANGED <<team, status, scene, game, truth>>
      BY <1>1, IdleNoGhost DEF StartOwn, Run, Roster
    <2>2. k \in {"controller", "object", "shots", "board", "door"}
      BY <1>1
    <2> QED
      BY <2>1, <2>2, OpenAsks
  <1>2. CASE StartQuery
    <2>1. PICK k \in Queries(routine) : Open(k)
      BY <1>2 DEF StartQuery
    <2>2. /\ UNCHANGED <<team, status, scene, game, truth, routine, ghost>>
          /\ routine \in Projected \cup {"item"}
      BY <1>2 DEF StartQuery, Roster
    <2>3. /\ k \in {"contact", "shot", "lift", "platform", "eagle", "laser", "slime", "pickup"}
          /\ k = "pickup" => routine = "item" /\ "item" \notin taken
      BY <2>1, <2>2 DEF Queries, Projected
    <2>4. CASE ghost = 1
      <3>1. routine = "fighter"
        BY <2>2, <2>4, GhostPlace DEF Projected
      <3> QED
        BY <2>2, <2>4, <3>1 DEF Answers, Counting
    <2>5. CASE ghost # 1
      <3>1. k = "pickup" => claim["item"] = None
        BY <2>3 DEF Claims
      <3> QED
        BY <2>1, <2>2, <2>3, <2>5, <3>1, OpenAsks
    <2> QED
      BY <2>4, <2>5
  <1> QED
    BY <1>1, <1>2

\* Whoever is asked second is the other seat.
LEMMA PartnerIsOther ==
  ASSUME PassInv, Nested, Answers, Counting, turn = 1
  PROVE  Partner(asking) = Other(team.current) /\ first = team.current
  BY DEF Answers, Partner, Nested, ByDriver

LEMMA AnswersAsksAgain ==
  ASSUME PassInv, Nested, Answers, AskAgain
  PROVE  Answers'
  <1>1. /\ turn = 1 /\ turn' = 2 /\ UNCHANGED <<asking, fit, first, routine>> /\ asking # "none"
        /\ ghost' = IF ghost = 1 THEN 1 ELSE 0
    BY DEF AskAgain
  <1>2. CASE ghost = 1
    <2>1. routine = "fighter"
      BY <1>1, <1>2, GhostPlace DEF AskAgain
    <2> QED
      BY <1>1, <1>2, <2>1 DEF Answers, Counting
  <1>3. CASE ghost # 1 /\ fit = {}
    BY <1>1, <1>3 DEF Answers, Counting
  <1>4. CASE ghost # 1 /\ fit # {}
    <2> DEFINE c == team.current
               o == Other(c)
               t == IF asking = "controller" THEN Handed(team) ELSE team
    <2>1. Counting
      BY <1>1, <1>4 DEF Counting, Nested
    <2>2. Partner(asking) = o /\ first = c
      BY <1>1, <2>1, PartnerIsOther
    <2>3. /\ c \in Seats /\ o \in Seats /\ o # c /\ Seats = {c, o} /\ Seen = c /\ Other(o) = c
      BY <1>4, GhostPlace, SeatsHaveOther DEF Seats, Other, Seen
    <2>4. asked = [s \in Seats |-> IF s = c THEN 1 ELSE 0] /\ fit \subseteq Seats
      BY <1>1, <2>1 DEF Answers
    <2>5. asked' = [asked EXCEPT ![o] = IF asked[o] = 2 THEN 2 ELSE asked[o] + 1]
      BY <1>4, <2>2 DEF AskAgain
    <2>6. asked[o] = 0 /\ asked[c] = 1 /\ asked \in [Seats -> 0..1]
      BY <2>3, <2>4
    <2>7. asked' = [asked EXCEPT ![o] = 1]
      BY <2>5, <2>6
    <2>8. asked' = [s \in Seats |-> 1]
      BY <2>3, <2>6, <2>7
    <2>9. Shows(t, truth.body) /\ truth.body \in Bodies
      BY <1>4, ShownTeam, HandedShows
    <2>10. team' = Select(t, o)
      BY <2>2 DEF AskAgain
    <2> HIDE DEF t
    <2>11. team'.current = o
      BY <1>4, <2>3, <2>9, <2>10, SelectShows
    <2>12. PICK on \in BOOLEAN :
              /\ said' = [said EXCEPT ![c] = on] /\ firstSaid' = on /\ flag' = FALSE
              /\ riders' = IF asking # "platform" THEN riders
                           ELSE IF on THEN riders \cup {c} ELSE riders \ {c}
      BY <2>3 DEF AskAgain, FlagFor
    <2>13. said'[c] = on
      BY <2>3, <2>12 DEF Nested
    <2>14. first' = c /\ fit' \subseteq Seats /\ team'.current = Other(first')
      BY <1>1, <2>2, <2>4, <2>11
    <2>15. asking = "platform" => (c \in riders' <=> said'[c])
      BY <2>12, <2>13
    <2> HIDE DEF c, o
    <2> QED
      BY <1>1, <2>8, <2>12, <2>13, <2>14, <2>15 DEF Answers
  <1> QED
    BY <1>2, <1>3, <1>4

\* The writes of a pass leave whom it concerns, and who stands.
LEMMA AnswersWrites ==
  ASSUME PassInv, Nested, Ways, Answers, BodyMoves \/ BodyHurt \/ Fallen \/ GhostBegin \/ GhostEnd
  PROVE  Answers'
  <1>1. /\ UNCHANGED <<asking, turn, first, firstSaid, flag, asked, said, fit, riders, scene, routine>>
        /\ ~Counting' \/ Counting
    BY GhostPlace DEF BodyMoves, BodyHurt, Fallen, GhostBegin, GhostEnd, query, Objs, Roster, Counting, Queried
  <1>2. team'.current = team.current /\ (Counting => team'.anchor = team.anchor)
    <2>1. CASE BodyMoves \/ BodyHurt \/ Fallen \/ GhostBegin
      BY <2>1 DEF BodyMoves, BodyHurt, Fallen, GhostBegin, Captured, PassInv, TeamRecord
    <2>2. CASE GhostEnd
      <3>1. /\ ghost = 1 /\ team'.current = team.current /\ team'.anchor = saved.team.anchor
            /\ routine = "fighter" => asking = "none"
        BY <2>2 DEF GhostEnd, PassInv, Match, InGhost, GhostCopies, TeamRecord
      <3>2. routine = "shots" => saved.team.anchor = team.anchor
        BY <3>1 DEF Ways, Base
      <3> QED
        BY <3>1, <3>2, GhostPlace DEF Counting, Queried
    <2> QED
      BY <2>1, <2>2
  <1>3. asking = "controller" \/ status' = status
    BY DEF BodyMoves, BodyHurt, Fallen, GhostBegin, GhostEnd, Roster
  <1>4. status'[Other(team.current)] = status[Other(team.current)]
    <2>1. Other(team.current) # team.current /\ Other(team.current) \in Seats
      BY GhostPlace, SeatsHaveOther
    <2>2. CASE Fallen
      <3>1. status' = [status EXCEPT ![team.current] = "out"]
        BY <2>2 DEF Fallen
      <3> QED
        BY <2>1, <3>1
    <2>3. CASE ~Fallen
      BY <2>3 DEF BodyMoves, BodyHurt, GhostBegin, GhostEnd, Roster
    <2> QED
      BY <2>2, <2>3
  <1>5. asking \in {"platform", "laser"} => team'.stored = team.stored
    BY GhostPlace DEF BodyMoves, BodyHurt, Fallen, GhostBegin, GhostEnd, PassInv, TeamRecord
  <1>6. CASE ~Counting'
    BY <1>6 DEF Answers
  <1>7. CASE Counting'
    <2>1. Counting
      BY <1>1, <1>7 DEF Counting, Queried
    <2> QED
      BY <1>1, <1>2, <1>3, <1>4, <1>5, <2>1 DEF Answers, Stands
  <1> QED
    BY <1>6, <1>7

\* A query that is over has asked whom it concerned, or taken what there was.
AskedEveryone ==
    QueryOver =>
        /\ \/ \A s \in fit : asked[s] = 1
           \/ asking \in OneTakes /\ \E s \in Seats : said'[s]
        /\ \A s \in Seats : asked[s] <= 1
        /\ asking \in {"platform", "lift"} /\ turn # 0 =>
              riders' \cap fit = {s \in fit : said'[s]}

LEMMA QueryEnds ==
  ASSUME PassInv, Nested, [PassesNext]_passesVars, QueryOver
  PROVE  ReturnAlone \/ ReturnOnly \/ ReturnBoth
  <1>1. asking \notin {"none", "aim"} /\ asking' = "none"
    BY DEF QueryOver
  <1>2. ~(FrameTick \/ Placed \/ EndFrame \/ CarryEarly \/ TeamReset)
    BY <1>1 DEF FrameTick, Placed, EndFrame, CarryEarly, TeamReset, query
  <1>3. ~StartRoutine
    <2>1. \A r, k : ~StartOwn(r, k)
      BY <1>1 DEF StartOwn, Open
    <2> QED
      BY <1>1, <2>1 DEF StartRoutine, StartEnemy, StartItem, query
  <1>4. ~EndRoutine
    BY <1>1 DEF EndRoutine, EndOwn, EndEnemy, EndItem
  <1>5. ~(StartQuery \/ AskAgain)
    BY <1>1 DEF StartQuery, Open, AskAgain
  <1>6. ~(Aim \/ Aimed \/ Catch \/ LetGo)
    BY <1>1 DEF Aim, Aimed, Catch, LetGo
  <1>7. ~(GhostBegin \/ GhostEnd \/ BodyMoves \/ BodyHurt \/ FoeMoves \/ Fallen)
    BY <1>1 DEF GhostBegin, GhostEnd, BodyMoves, BodyHurt, FoeMoves, Fallen, query
  <1>8. ~UNCHANGED passesVars
    BY <1>1 DEF passesVars, query
  <1> QED
    BY <1>2, <1>3, <1>4, <1>5, <1>6, <1>7, <1>8 DEF PassesNext

LEMMA AnswersHeard ==
  ASSUME PassInv, Nested, Answers, [PassesNext]_passesVars
  PROVE  AskedEveryone
  <1> SUFFICES ASSUME QueryOver
               PROVE  /\ \/ \A s \in fit : asked[s] = 1
                         \/ asking \in OneTakes /\ \E s \in Seats : said'[s]
                      /\ \A s \in Seats : asked[s] <= 1
                      /\ asking \in {"platform", "lift"} /\ turn # 0 =>
                            riders' \cap fit = {s \in fit : said'[s]}
    BY DEF AskedEveryone
  <1> DEFINE c == team.current
             o == Other(c)
  <1>1. /\ Counting /\ ghost # 1 /\ fit # {}
        /\ asking \notin {"none", "aim"}
    BY DEF QueryOver, Counting, Queried
  <1>2. /\ c \in Seats /\ o \in Seats /\ o # c /\ Seats = {c, o} /\ Seen = c /\ Other(o) = c
        /\ first \in Seats
    BY <1>1, GhostPlace, SeatsHaveOther DEF Seats, Other, Seen
  <1>3. fit \subseteq Seats
    BY <1>1 DEF Answers
  <1>4. said \in [Seats -> BOOLEAN]
    BY DEF Nested
  <1>5. CASE ReturnAlone
    <2>1. turn = 0
      BY <1>5 DEF ReturnAlone
    <2>2. asked = [s \in Seats |-> IF s = c THEN 1 ELSE 0] /\ fit \subseteq {c}
      BY <1>1, <2>1 DEF Answers
    <2> QED
      BY <1>2, <2>1, <2>2
  <1>6. CASE ReturnOnly
    <2>1. turn = 1
      BY <1>6 DEF ReturnOnly
    <2>2. PICK on \in BOOLEAN :
             /\ (asking \in OneTakes /\ on) \/ ~AsksAgain(asking)
             /\ said' = [said EXCEPT ![c] = on]
             /\ riders' = IF asking # "platform" THEN riders
                          ELSE IF on THEN riders \cup {c} ELSE riders \ {c}
      BY <1>2, <1>6 DEF ReturnOnly
    <2>3. asked = [s \in Seats |-> IF s = c THEN 1 ELSE 0] /\ said'[c] = on
      BY <1>1, <1>2, <1>4, <2>1, <2>2 DEF Answers
    <2>4. \A s \in Seats : asked[s] <= 1
      BY <1>2, <2>3
    <2>5. CASE asking \in OneTakes /\ on
      BY <1>2, <2>3, <2>4, <2>5 DEF OneTakes
    <2>6. CASE ~AsksAgain(asking)
      <3>1. Partner(asking) = o /\ (asking \in ByDriver => c = team.anchor)
        BY <1>1, <2>1, PartnerIsOther DEF Answers
      <3>2. o \notin fit
        <4> SUFFICES ASSUME o \in fit PROVE FALSE
          OBVIOUS
        <4>1. /\ asking = "controller" => ~scene /\ status[o] = "alive"
              /\ asking \in {"platform", "laser"} => Stands(team, o)
          BY <1>1, <2>1 DEF Answers
        <4> QED
          BY <2>6, <3>1, <4>1 DEF AsksAgain, ByDriver
      <3>3. fit \subseteq {c}
        BY <1>2, <1>3, <3>2
      <3>4. asking # "lift"
        BY <2>6 DEF AsksAgain
      <3>5. asking = "platform" => riders' \cap fit = {s \in fit : said'[s]}
        <4>1. asking = "platform" => (c \in riders' <=> said'[c])
          BY <2>2, <2>3
        <4> QED
          BY <3>3, <4>1
      <3> QED
        BY <1>2, <2>3, <2>4, <3>3, <3>4, <3>5
    <2> QED
      BY <2>2, <2>5, <2>6
  <1>7. CASE ReturnBoth
    <2>1. turn = 2
      BY <1>7 DEF ReturnBoth
    <2>2. /\ asked = [s \in Seats |-> 1] /\ c = Other(first) /\ said[first] = firstSaid /\ ~flag
          /\ asking = "platform" => (first \in riders <=> said[first])
      BY <1>1, <2>1 DEF Answers
    <2>3. first = o
      BY <1>2, <2>2, SeatsHaveOther
    <2>4. PICK on \in BOOLEAN :
             /\ said' = [said EXCEPT ![c] = on]
             /\ riders' = CASE asking = "platform" -> IF on THEN riders \cup {c} ELSE riders \ {c}
                            [] asking = "lift" ->
                                 {s \in Seats : IF s = first THEN firstSaid ELSE flag \/ on}
                            [] OTHER -> riders
      BY <1>2, <1>7 DEF ReturnBoth
    <2>5. said'[c] = on /\ said'[o] = said[o]
      BY <1>2, <1>4, <2>4
    <2>6. CASE asking = "platform"
      <3>1. riders' = IF on THEN riders \cup {c} ELSE riders \ {c}
        BY <2>4, <2>6
      <3>2. (c \in riders' <=> said'[c]) /\ (o \in riders' <=> said'[o])
        BY <1>2, <2>2, <2>3, <2>5, <2>6, <3>1
      <3> QED
        BY <1>2, <1>3, <2>2, <3>2
    <2>7. CASE asking = "lift"
      <3>1. riders' = {s \in Seats : IF s = first THEN firstSaid ELSE flag \/ on}
        BY <2>4, <2>7
      <3>2. (c \in riders' <=> said'[c]) /\ (o \in riders' <=> said'[o])
        BY <1>2, <2>2, <2>3, <2>5, <3>1
      <3> QED
        BY <1>2, <1>3, <2>2, <3>2
    <2>8. CASE asking \notin {"platform", "lift"}
      BY <1>2, <1>3, <2>2, <2>8
    <2> QED
      BY <2>6, <2>7, <2>8
  <1> QED
    BY <1>5, <1>6, <1>7, QueryEnds

LEMMA AnswersStep ==
  ASSUME PassInv, Nested, Ways, Claims, Answers, [PassesNext]_passesVars
  PROVE  Answers'
  <1>1. CASE \/ FrameTick \/ Placed \/ EndFrame \/ CarryEarly \/ TeamReset \/ EndRoutine
             \/ StartItem \/ (\E r \in Projected : StartEnemy(r)) \/ Catch \/ LetGo \/ FoeMoves
    <2>1. asking' = asking
      BY <1>1 DEF FrameTick, Placed, EndFrame, CarryEarly, TeamReset, EndRoutine, EndOwn, EndEnemy, EndItem,
                  Over, StartItem, StartEnemy, Catch, LetGo, FoeMoves, query
    <2>2. asking = "none" \/ routine = "idle"
      BY <1>1 DEF FrameTick, Placed, EndFrame, CarryEarly, TeamReset, EndRoutine, EndOwn, EndEnemy, EndItem,
                  StartItem, StartEnemy, Catch, LetGo, FoeMoves, PassInv, Marks
    <2>3. asking = "none"
      BY <2>2 DEF Nested, AskedIn
    <2> QED
      BY <2>1, <2>3, AnswersOver
  <1>2. CASE StartQuery \/ \E r, k : StartOwn(r, k) /\ <<r, k>> \in
                {<<"controller", "controller">>, <<"object", "object">>, <<"shots", "shots">>, <<"armor", "board">>, <<"door", "door">>}
    BY <1>2, AnswersOpens
  <1>3. CASE ReturnAlone \/ ReturnOnly \/ ReturnBoth \/ Aim \/ Aimed
    <2>1. asking' \in {"none", "aim"}
      BY <1>3 DEF ReturnAlone, ReturnOnly, ReturnBoth, Closed, Aim, Aimed
    <2> QED
      BY <2>1, AnswersOver
  <1>4. CASE AskAgain
    BY <1>4, AnswersAsksAgain
  <1>5. CASE BodyMoves \/ BodyHurt \/ Fallen \/ GhostBegin \/ GhostEnd
    BY <1>5, AnswersWrites
  <1>6. CASE UNCHANGED passesVars
    BY <1>6 DEF passesVars, query, Answers, Counting, Queried, Stands
  <1> QED
    BY <1>1, <1>2, <1>3, <1>4, <1>5, <1>6 DEF PassesNext, StartRoutine

-----------------------------------------------------------------------------
LEMMA NestedStep ==
  ASSUME PassInv, Nested, Claims, [PassesNext]_passesVars
  PROVE  Nested'
  <1>1. CASE FrameTick \/ Placed \/ EndFrame \/ CarryEarly \/ TeamReset
    BY <1>1, NestedHost
  <1>2. CASE StartRoutine
    BY <1>2, NestedOpens, NestedStarts DEF StartRoutine
  <1>3. CASE EndRoutine
    BY <1>3, NestedEnds DEF EndRoutine
  <1>4. CASE StartQuery \/ ReturnAlone \/ ReturnOnly \/ AskAgain \/ ReturnBoth
    BY <1>4, NestedOpens, NestedReturns, NestedAsksAgain
  <1>5. CASE Aim \/ Aimed \/ Catch \/ LetGo
    BY <1>5, NestedAims
  <1>6. CASE GhostBegin \/ GhostEnd
    BY <1>6, NestedGhosts
  <1>7. CASE BodyMoves \/ BodyHurt \/ FoeMoves \/ Fallen
    BY <1>7, NestedWrites
  <1>8. CASE UNCHANGED passesVars
    BY <1>8 DEF passesVars, query, Nested, Queried
  <1> QED
    BY <1>1, <1>2, <1>3, <1>4, <1>5, <1>6, <1>7, <1>8 DEF PassesNext

LEMMA WaysInvInitially == PassesInit => WaysInv
  BY PassInitInv, NestedInitially, WaysInitially, ClaimsInitially, AnswersInitially DEF WaysInv

LEMMA WaysInvStep == WaysInv /\ [PassesNext]_passesVars => WaysInv'
  <1> SUFFICES ASSUME WaysInv, [PassesNext]_passesVars PROVE WaysInv'
    OBVIOUS
  <1>1. PassInv /\ Nested /\ Ways /\ Claims /\ Answers
    BY DEF WaysInv
  <1> QED
    BY <1>1, PassStep, NestedStep, WaysStep, ClaimsStep, AnswersStep DEF WaysInv

\* Whatever routines meet, the guest's one body between two of them is that of
\* the driver, or of one who died as an enemy was run against him.
THEOREM DriverProjectedAlways == PassesSpec => []DriverProjected
  <1>1. WaysInv => DriverProjected
    <2> SUFFICES ASSUME WaysInv, routine = "idle"
                 PROVE  team.current = team.anchor \/ (Brought /\ team.live.hp = 0)
      BY DEF DriverProjected, Brought
    <2>1. PassInv /\ Nested /\ Ways
      BY DEF WaysInv
    <2>2. ghost # 1 /\ ret = None /\ back = None /\ turn = 0
      BY <2>1, IdleNoGhost DEF Nested, Projected, AskedIn, Queried
    <2>3. Safe(team.current) /\ Base = team
      BY <2>1, <2>2 DEF Ways, Base
    <2>4. team.live = truth.body[team.current]
      BY <2>1, <2>2, ShownTeam DEF Shows
    <2> QED
      BY <2>3, <2>4 DEF Safe
  <1> QED
    BY WaysInvInitially, WaysInvStep, <1>1, PTL DEF PassesSpec

\* An object that holds a player acts on that player.
THEOREM ClaimsHonouredAlways == PassesSpec => []ClaimsHonoured
  <1>1. WaysInv => ClaimsHonoured
    <2> SUFFICES ASSUME Claims, NEW o \in Takers, Acts(o) PROVE team.current = got[o]
      BY DEF WaysInv, ClaimsHonoured
    <2>1. Kept(o)
      BY DEF Acts, Kept
    <2>2. CASE o = "sensor"
      BY <2>1, <2>2 DEF Acts, Claims
    <2>3. CASE o = "chaser"
      BY <2>1, <2>3 DEF Acts, Claims
    <2>4. CASE o = "slime"
      BY <2>1, <2>4 DEF Acts, Claims
    <2>5. CASE o = "item"
      BY <2>1, <2>5 DEF Acts, Claims
    <2> QED
      BY <2>2, <2>3, <2>4, <2>5 DEF Takers
  <1> QED
    BY WaysInvInitially, WaysInvStep, <1>1, PTL DEF PassesSpec

\* No query ends with a seat it concerns unasked or asked twice.
THEOREM EveryoneAskedAlways == PassesSpec => EveryoneAsked
  <1>1. WaysInv /\ [PassesNext]_passesVars => [AskedEveryone]_passesVars
    BY AnswersHeard DEF WaysInv
  <1> QED
    BY WaysInvInitially, WaysInvStep, <1>1, PTL DEF PassesSpec, EveryoneAsked, AskedEveryone
================================================================================
