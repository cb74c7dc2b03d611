----------------------------- MODULE LaunchProofs -----------------------------
(***************************************************************************)
(* Proofs about Launch, for any people and games, and any number of        *)
(* presses.                                                                *)
(*                                                                         *)
(* A launch is begun only where no game is and no launch goes on, and ends *)
(* by being taken: so what was asked with the press is for the one job     *)
(* there is or for the game it became (AsksGoWithTheirLaunch), a game      *)
(* never finds another running (OneGame), and the one job that lowered the *)
(* curtain is there to be asked for it (Owner).                            *)
(***************************************************************************)
EXTENDS Launch, TLAPS

Kinds == {"Home", "Other", "Detail"}

Jobs ==
    [stage : {"Idle", "Busy", "Ready", "Failed"}, game : Games \cup {None}, play : BOOLEAN,
     cancel : BOOLEAN, startedOn : Kinds, lowered : BOOLEAN, saves : People \cup {None}]

Sessions == [game : Games, person : People, saves : People \cup {None}] \cup {NoGame}

\* TypeOK a group of variables at a time, and what it leaves open of the records.
FrameTypes ==
    /\ at \in {Order[n] : n \in 1 .. 9} \cup {"gone"}
    /\ screen \in Screens /\ going \in Screens \cup {None} /\ panel \in BOOLEAN

JobTypes ==
    /\ job \in Jobs
    /\ job.stage # "Idle" => job.game \in Games /\ job.saves \in People

AskTypes == {picked, nextDisc, relaunch} \subseteq Games \cup {None}

CurtainType == curtain \in [to : {0, 2}, value : 0 .. 2]

GameTypes ==
    /\ playing \in Sessions /\ program \in Sessions
    /\ Running => program.game \in Programs
    /\ InGame => playing.game \in Games \ Programs
    /\ booted \in BOOLEAN /\ exitPending \in BOOLEAN /\ paused \in BOOLEAN
    /\ exitPending => InGame
    /\ paused => Running

AccountTypes ==
    /\ who \in People
    /\ switching \in [to : People \cup {None}, done : BOOLEAN, ok : BOOLEAN]
    /\ switching # NoSwitch => switching.to \in People
    /\ signing \in {"no", "sending", "sent", "left", "asking"} /\ leaving \in BOOLEAN

Types ==
    FrameTypes /\ JobTypes /\ AskTypes /\ CurtainType /\ GameTypes /\ AccountTypes

\* A launch is the only way into a game, and none goes on in one.
NoLaunchInGame ==
    /\ InGame \/ Running => job.stage = "Idle"
    /\ Running => job.game = program.game

\* Who has the curtain down, wherever the frame is; a job that lowered it has
\* not been taken yet.
Owner ==
    /\ curtain.to = 2 =>
          \/ job.stage = "Ready" /\ job.play /\ job.lowered
          \/ switching # NoSwitch \/ leaving
    /\ job.lowered => job.stage \in {"Ready", "Idle"} /\ job.play

IInv ==
    /\ Types /\ NoLaunchInGame /\ AsksGoWithTheirLaunch /\ Owner
    /\ OneGame

-----------------------------------------------------------------------------
(* Types. *)

\* The groups are TypeOK.
LEMMA TypesAre == ASSUME Types PROVE TypeOK
  <1>1. /\ at \in {Order[n] : n \in 1 .. 9} \cup {"gone"}
        /\ screen \in Screens /\ going \in Screens \cup {None} /\ panel \in BOOLEAN
    BY DEF Types, FrameTypes
  <1>2. /\ job.stage \in {"Idle", "Busy", "Ready", "Failed"}
        /\ job.stage # "Idle" => job.game \in Games /\ job.saves \in People
    BY DEF Types, JobTypes, Jobs
  <1>3. /\ {picked, nextDisc, relaunch} \subseteq Games \cup {None}
        /\ curtain \in [to : {0, 2}, value : 0 .. 2]
    BY DEF Types, AskTypes, CurtainType
  <1>4. /\ Running => program.game \in Programs
        /\ InGame => playing.game \in Games \ Programs
        /\ exitPending => InGame
        /\ paused => Running
    BY DEF Types, GameTypes
  <1>5. who \in People /\ switching.to \in People \cup {None}
    BY DEF Types, AccountTypes
  <1>6. signing \in {"no", "sending", "sent", "left", "asking"} /\ leaving \in BOOLEAN
    BY DEF Types, AccountTypes
  <1> QED
    BY <1>1, <1>2, <1>3, <1>4, <1>5, <1>6 DEF TypeOK

\* The frame goes on to one of its steps.
LEMMA AfterType ==
    ASSUME FrameTypes, at # "gone", On
    PROVE  at' \in {Order[n] : n \in 1 .. 9}
  <1> DEFINE n == CHOOSE n \in 1 .. 9 : Order[n] = at
  <1>1. n \in 1 .. 9
    BY DEF FrameTypes
  <1>2. (n % 9) + 1 \in 1 .. 9
    <2> HIDE DEF n
    <2>1. n % 9 \in 0 .. 8
      BY <1>1, SMT
    <2> QED
      BY <2>1
  <1>3. at' = Order[(n % 9) + 1]
    BY DEF On, After
  <1> QED
    BY <1>2, <1>3

\* A screen's kind, by which a launch knows the screen it was pressed on.
LEMMA KindType == ASSUME NEW s \in Screens PROVE s.kind \in Kinds
  BY DEF Screens, Home, Other, Page, Kinds

\* A launch asked for is of a game of the person signed in.
LEMMA PressJob ==
    ASSUME NEW g \in Games, LaunchById(g) \/ WillNotLoad(g), JobTypes,
           screen.kind \in Kinds, who \in People
    PROVE  JobTypes'
  <1> USE DEF JobTypes, Jobs
  <1>1. CASE job' = Begun(g, TRUE)
    BY <1>1 DEF Begun, NoJob
  <1>2. CASE job.stage = "Busy" /\ job' = [job EXCEPT !.play = TRUE, !.startedOn = screen.kind]
    BY <1>2
  <1>3. CASE UNCHANGED job
    BY <1>3
  <1>4. CASE job' = [Begun(g, TRUE) EXCEPT !.stage = "Idle"]
    BY <1>4 DEF Begun, NoJob
  <1> QED
    BY <1>1, <1>2, <1>3, <1>4 DEF LaunchById, WillNotLoad, Joins, Busy

-----------------------------------------------------------------------------
(* One lemma for each part of IInv: the first step of each is that nothing   *)
(* the part speaks of changes, then one step per action that changes some.   *)

\* The frame's steps come in their order, and the screens are screens.
LEMMA FrameStep ==
    ASSUME LaunchAssumption, FrameTypes, AskTypes, JobTypes, GameTypes, NoLaunchInGame, Next
    PROVE  FrameTypes'
  <1> USE DEF frame, asks, game, accounts
  <1>1. CASE UNCHANGED <<at, screen, going, panel>>
    BY <1>1 DEF FrameTypes
  <1>2. CASE \E g \in Games : PressPlay(g)
    BY <1>2 DEF PressPlay, OnScreen, Heard, Owned, LaunchById, WillNotLoad,
        Begins, Joins, Busy, Begun, NoJob, RefuseLaunch, Lift, Screens,
        FrameTypes
  <1>3. CASE \E g \in Games : PressResume(g)
    BY <1>3 DEF PressResume, PressAsks, Counts, OnScreen, Heard, Owned,
        LaunchById, WillNotLoad, Begins, Joins, Busy, Begun, NoJob,
        RefuseLaunch, Lift, Screens, FrameTypes
  <1>4. CASE \E g \in Games : PressState(g)
    BY <1>4 DEF PressState, PressAsks, Counts, OnScreen, Heard, Owned,
        LaunchById, WillNotLoad, Begins, Joins, Busy, Begun, NoJob,
        RefuseLaunch, Lift, Screens, FrameTypes
  <1>5. CASE \E s \in Screens : Go(s)
    BY <1>5 DEF Go, OnScreen, Heard, Owned, Screens, FrameTypes
  <1>6. CASE \E p \in People : PressSwitchAccount(p)
    BY <1>6 DEF PressSwitchAccount, NoSwitch, Lower, Heard, Owned, FrameTypes
  <1>7. CASE OpenPanel
    BY <1>7 DEF OpenPanel, OnScreen, Heard, Owned, FrameTypes
  <1>8. CASE ClosePanel
    BY <1>8 DEF ClosePanel, Heard, Owned, FrameTypes
  <1>9. CASE \E go \in BOOLEAN : AnswerSignOut(go)
    BY <1>9 DEF AnswerSignOut, StartLeaving, Lower, Owned, FrameTypes
  <1>10. CASE FinishStandalone
    BY <1>10 DEF FinishStandalone, Screens, NoLaunchInGame, GameTypes,
        LaunchAssumption, FrameTypes
  <1>11. CASE FrameBegins
    BY <1>11, AfterType DEF FrameBegins, On, Screens, AskTypes, JobTypes,
        Jobs, FrameTypes
  <1>12. CASE TakeAccountResults
    BY <1>12, AfterType DEF TakeAccountResults, On, StartLeaving, Lower,
        Screens, AskTypes, JobTypes, Jobs, FrameTypes
  <1>13. CASE TakeFailedJob
    BY <1>13, AfterType DEF TakeFailedJob, On, Put, ForgetLaunchAsks,
        RefuseLaunch, Lift, Screens, AskTypes, JobTypes, Jobs, FrameTypes
  <1>14. CASE TakeQuietly
    BY <1>14, AfterType DEF TakeQuietly, On, Put, ForgetLaunchAsks, Lift,
        Screens, AskTypes, JobTypes, Jobs, FrameTypes
  <1>15. CASE LowerForLaunch
    BY <1>15, AfterType DEF LowerForLaunch, On, MovedOn, Lower, Screens,
        AskTypes, JobTypes, Jobs, FrameTypes
  <1>16. CASE StartStandalone
    BY <1>16, AfterType DEF StartStandalone, Starts, On, Put,
        ForgetLaunchAsks, Session, RefuseLaunch, Lift, Screens, AskTypes,
        JobTypes, Jobs, FrameTypes
  <1>17. CASE LoadGame
    BY <1>17, AfterType DEF LoadGame, Starts, On, Put, ForgetLaunchAsks,
        Session, RefuseLaunch, Lift, Screens, AskTypes, JobTypes, Jobs,
        FrameTypes
  <1>18. CASE at = "launch" /\ On /\ ~Waiting
          /\ UNCHANGED <<screen, going, panel, job, asks, curtain, game, accounts, presses>>
    BY <1>18, AfterType DEF On, Screens, AskTypes, JobTypes, Jobs, FrameTypes
  <1>19. CASE SwitchWaits
    BY <1>19, AfterType DEF SwitchWaits, On, Lower, Screens, AskTypes,
        JobTypes, Jobs, FrameTypes
  <1>20. CASE SwitchAccount
    BY <1>20, AfterType DEF SwitchAccount, On, NoSwitch, Lower, Home, Screens,
        AskTypes, JobTypes, Jobs, FrameTypes
  <1>21. CASE SwitchEnds
    BY <1>21, AfterType DEF SwitchEnds, On, NoSwitch, Lift, Screens, AskTypes,
        JobTypes, Jobs, FrameTypes
  <1>22. CASE LeaveWaits
    BY <1>22, AfterType DEF LeaveWaits, On, Lower, Screens, AskTypes,
        JobTypes, Jobs, FrameTypes
  <1>23. CASE LeaveEnds
    BY <1>23 DEF LeaveEnds, FrameTypes
  <1>24. CASE LeaveFails
    BY <1>24, AfterType DEF LeaveFails, On, Lift, Screens, AskTypes, JobTypes,
        Jobs, FrameTypes
  <1>25. CASE PumpExit
    BY <1>25, AfterType DEF PumpExit, On, FinishExit, Screens, AskTypes,
        JobTypes, Jobs, FrameTypes
  <1>26. CASE LoadPendingStates
    BY <1>26, AfterType DEF LoadPendingStates, On, Screens, AskTypes,
        JobTypes, Jobs, FrameTypes
  <1>27. CASE PumpDiscChange
    BY <1>27, AfterType DEF PumpDiscChange, On, Counts, LaunchById,
        WillNotLoad, Begins, Joins, Busy, Begun, NoJob, RefuseLaunch, Lift,
        Screens, AskTypes, JobTypes, Jobs, FrameTypes
  <1>28. CASE FrameEnds
    BY <1>28, AfterType DEF FrameEnds, On, Screens, AskTypes, JobTypes, Jobs,
        FrameTypes
  <1> QED
    BY <1>1, <1>2, <1>3, <1>4, <1>5, <1>6, <1>7, <1>8, <1>9, <1>10, <1>11,
       <1>12, <1>13, <1>14, <1>15, <1>16, <1>17, <1>18, <1>19, <1>20, <1>21,
       <1>22, <1>23, <1>24, <1>25, <1>26, <1>27, <1>28
       DEF Next, Press, Beside, Frame, PumpLaunch, PressDownload,
           PressStopDownload, StartSignOut, PressExit, StartOverOnDisc,
           PauseProgram, WorkerReady, WorkerFails, CoreBoots, SignOutSent

\* A job has a game and a person from the press until it is taken.
LEMMA JobStep ==
    ASSUME LaunchAssumption, FrameTypes, JobTypes, AskTypes, AccountTypes, Next
    PROVE  JobTypes'
  <1> USE DEF frame, asks, game, accounts
  <1>1. screen.kind \in Kinds /\ who \in People
    BY KindType DEF FrameTypes, AccountTypes
  <1>2. CASE UNCHANGED <<job, job>>
    BY <1>2 DEF JobTypes, Jobs
  <1>3. CASE \E g \in Games : PressPlay(g)
    BY <1>1, <1>3, PressJob DEF PressPlay, OnScreen, Heard, Owned
  <1>4. CASE \E g \in Games : PressResume(g)
    BY <1>1, <1>4, PressJob DEF PressResume, OnScreen, Heard, Owned
  <1>5. CASE \E g \in Games : PressState(g)
    BY <1>1, <1>5, PressJob DEF PressState, OnScreen, Heard, Owned
  <1>6. CASE \E g \in Games : PressDownload(g)
    BY <1>1, <1>6 DEF PressDownload, Begins, Begun, NoJob, OnScreen, Heard,
        Owned, JobTypes, Jobs
  <1>7. CASE PressStopDownload
    BY <1>1, <1>7 DEF PressStopDownload, Busy, OnScreen, Heard, Owned,
        JobTypes, Jobs
  <1>8. CASE WorkerReady
    BY <1>1, <1>8 DEF WorkerReady, Busy, JobTypes, Jobs
  <1>9. CASE WorkerFails
    BY <1>1, <1>9 DEF WorkerFails, Busy, JobTypes, Jobs
  <1>10. CASE TakeFailedJob
    BY <1>1, <1>10 DEF TakeFailedJob, On, Put, ForgetLaunchAsks, RefuseLaunch,
        Lift, JobTypes, Jobs
  <1>11. CASE TakeQuietly
    BY <1>1, <1>11 DEF TakeQuietly, On, Put, ForgetLaunchAsks, Lift, JobTypes,
        Jobs
  <1>12. CASE LowerForLaunch
    BY <1>1, <1>12 DEF LowerForLaunch, On, MovedOn, Lower, JobTypes, Jobs
  <1>13. CASE StartStandalone
    BY <1>1, <1>13 DEF StartStandalone, Starts, On, Put, ForgetLaunchAsks,
        Session, RefuseLaunch, Lift, JobTypes, Jobs
  <1>14. CASE LoadGame
    BY <1>1, <1>14 DEF LoadGame, Starts, On, Put, ForgetLaunchAsks, Session,
        RefuseLaunch, Lift, JobTypes, Jobs
  <1>15. CASE PumpDiscChange
    <2>1. CASE UNCHANGED job
      BY <2>1 DEF JobTypes
    <2>2. CASE relaunch # None /\ (LaunchById(relaunch) \/ WillNotLoad(relaunch))
      <3>1. relaunch \in Games
        BY <2>2 DEF AskTypes
      <3> QED
        BY <1>1, <2>2, <3>1, PressJob
    <2> QED
      BY <1>15, <2>1, <2>2 DEF PumpDiscChange
  <1> QED
    BY <1>2, <1>3, <1>4, <1>5, <1>6, <1>7, <1>8, <1>9, <1>10, <1>11, <1>12,
       <1>13, <1>14, <1>15
       DEF Next, Press, Beside, Frame, PumpLaunch, Go, PressSwitchAccount,
           OpenPanel, ClosePanel, StartSignOut, AnswerSignOut, PressExit,
           StartOverOnDisc, PauseProgram, FinishStandalone, CoreBoots,
           SignOutSent, FrameBegins, TakeAccountResults, SwitchWaits,
           SwitchAccount, SwitchEnds, LeaveWaits, LeaveEnds, LeaveFails,
           PumpExit, LoadPendingStates, FrameEnds

\* What is asked for is for a game.
LEMMA AskStep ==
    ASSUME AskTypes, GameTypes, Next
    PROVE  AskTypes'
  <1> USE DEF frame, asks, game, accounts
  <1>1. CASE UNCHANGED <<picked, nextDisc, relaunch>>
    BY <1>1 DEF AskTypes
  <1>2. CASE \E g \in Games : PressResume(g)
    BY <1>2 DEF PressResume, PressAsks, Counts, OnScreen, Heard, Owned,
        LaunchById, WillNotLoad, Begins, Joins, Busy, Begun, NoJob,
        RefuseLaunch, Lift, AskTypes
  <1>3. CASE \E g \in Games : PressState(g)
    BY <1>3 DEF PressState, PressAsks, Counts, OnScreen, Heard, Owned,
        LaunchById, WillNotLoad, Begins, Joins, Busy, Begun, NoJob,
        RefuseLaunch, Lift, AskTypes
  <1>4. CASE PressExit
    BY <1>4 DEF PressExit, ExitToHome, FinishExit, AskTypes
  <1>5. CASE StartOverOnDisc
    BY <1>5 DEF StartOverOnDisc, ExitToHome, FinishExit, GameTypes, InGame,
        AskTypes
  <1>6. CASE TakeFailedJob
    BY <1>6 DEF TakeFailedJob, On, Put, ForgetLaunchAsks, RefuseLaunch, Lift,
        AskTypes
  <1>7. CASE TakeQuietly
    BY <1>7 DEF TakeQuietly, On, Put, ForgetLaunchAsks, Lift, AskTypes
  <1>8. CASE StartStandalone
    BY <1>8 DEF StartStandalone, Starts, On, Put, ForgetLaunchAsks, Session,
        RefuseLaunch, Lift, AskTypes
  <1>9. CASE LoadGame
    BY <1>9 DEF LoadGame, Starts, On, Put, ForgetLaunchAsks, Session,
        RefuseLaunch, Lift, AskTypes
  <1>10. CASE PumpExit
    BY <1>10 DEF PumpExit, On, FinishExit, AskTypes
  <1>11. CASE LoadPendingStates
    BY <1>11 DEF LoadPendingStates, On, AskTypes
  <1>12. CASE PumpDiscChange
    BY <1>12 DEF PumpDiscChange, On, Counts, LaunchById, WillNotLoad, Begins,
        Joins, Busy, Begun, NoJob, RefuseLaunch, Lift, AskTypes
  <1> QED
    BY <1>1, <1>2, <1>3, <1>4, <1>5, <1>6, <1>7, <1>8, <1>9, <1>10, <1>11,
       <1>12
       DEF Next, Press, Beside, Frame, PumpLaunch, PressPlay, PressDownload,
           Go, PressSwitchAccount, PressStopDownload, OpenPanel, ClosePanel,
           StartSignOut, AnswerSignOut, PauseProgram, FinishStandalone,
           WorkerReady, WorkerFails, CoreBoots, SignOutSent, FrameBegins,
           TakeAccountResults, LowerForLaunch, SwitchWaits, SwitchAccount,
           SwitchEnds, LeaveWaits, LeaveEnds, LeaveFails, FrameEnds

\* The curtain moves a step at a time.
LEMMA CurtainStep ==
    ASSUME CurtainType, Next
    PROVE  CurtainType'
  <1> USE DEF frame, asks, game, accounts
  <1>1. CASE UNCHANGED <<curtain, curtain>>
    BY <1>1 DEF CurtainType
  <1>2. CASE \E g \in Games : PressPlay(g)
    BY <1>2 DEF PressPlay, OnScreen, Heard, Owned, LaunchById, WillNotLoad,
        Begins, Joins, Busy, Begun, NoJob, RefuseLaunch, Lift, CurtainType
  <1>3. CASE \E g \in Games : PressResume(g)
    BY <1>3 DEF PressResume, PressAsks, Counts, OnScreen, Heard, Owned,
        LaunchById, WillNotLoad, Begins, Joins, Busy, Begun, NoJob,
        RefuseLaunch, Lift, CurtainType
  <1>4. CASE \E g \in Games : PressState(g)
    BY <1>4 DEF PressState, PressAsks, Counts, OnScreen, Heard, Owned,
        LaunchById, WillNotLoad, Begins, Joins, Busy, Begun, NoJob,
        RefuseLaunch, Lift, CurtainType
  <1>5. CASE \E p \in People : PressSwitchAccount(p)
    BY <1>5 DEF PressSwitchAccount, NoSwitch, Lower, Heard, Owned, CurtainType
  <1>6. CASE \E go \in BOOLEAN : AnswerSignOut(go)
    BY <1>6 DEF AnswerSignOut, StartLeaving, Lower, Owned, CurtainType
  <1>7. CASE PressExit
    BY <1>7 DEF PressExit, ExitToHome, FinishExit, CurtainType
  <1>8. CASE StartOverOnDisc
    BY <1>8 DEF StartOverOnDisc, ExitToHome, FinishExit, CurtainType
  <1>9. CASE FinishStandalone
    BY <1>9 DEF FinishStandalone, CurtainType
  <1>10. CASE TakeAccountResults
    BY <1>10 DEF TakeAccountResults, On, StartLeaving, Lower, CurtainType
  <1>11. CASE TakeFailedJob
    BY <1>11 DEF TakeFailedJob, On, Put, ForgetLaunchAsks, RefuseLaunch, Lift,
        CurtainType
  <1>12. CASE TakeQuietly
    BY <1>12 DEF TakeQuietly, On, Put, ForgetLaunchAsks, Lift, CurtainType
  <1>13. CASE LowerForLaunch
    BY <1>13 DEF LowerForLaunch, On, MovedOn, Lower, CurtainType
  <1>14. CASE StartStandalone
    BY <1>14 DEF StartStandalone, Starts, On, Put, ForgetLaunchAsks, Session,
        RefuseLaunch, Lift, CurtainType
  <1>15. CASE LoadGame
    BY <1>15 DEF LoadGame, Starts, On, Put, ForgetLaunchAsks, Session,
        RefuseLaunch, Lift, CurtainType
  <1>16. CASE SwitchWaits
    BY <1>16 DEF SwitchWaits, On, Lower, CurtainType
  <1>17. CASE SwitchAccount
    BY <1>17 DEF SwitchAccount, On, NoSwitch, Lower, Home, CurtainType
  <1>18. CASE SwitchEnds
    BY <1>18 DEF SwitchEnds, On, NoSwitch, Lift, CurtainType
  <1>19. CASE LeaveWaits
    BY <1>19 DEF LeaveWaits, On, Lower, CurtainType
  <1>20. CASE LeaveFails
    BY <1>20 DEF LeaveFails, On, Lift, CurtainType
  <1>21. CASE PumpExit
    BY <1>21 DEF PumpExit, On, FinishExit, CurtainType
  <1>22. CASE PumpDiscChange
    BY <1>22 DEF PumpDiscChange, On, Counts, LaunchById, WillNotLoad, Begins,
        Joins, Busy, Begun, NoJob, RefuseLaunch, Lift, CurtainType
  <1>23. CASE FrameEnds
    BY <1>23 DEF FrameEnds, On, CurtainType
  <1> QED
    BY <1>1, <1>2, <1>3, <1>4, <1>5, <1>6, <1>7, <1>8, <1>9, <1>10, <1>11,
       <1>12, <1>13, <1>14, <1>15, <1>16, <1>17, <1>18, <1>19, <1>20, <1>21,
       <1>22, <1>23
       DEF Next, Press, Beside, Frame, PumpLaunch, PressDownload, Go,
           PressStopDownload, OpenPanel, ClosePanel, StartSignOut,
           PauseProgram, WorkerReady, WorkerFails, CoreBoots, SignOutSent,
           FrameBegins, LeaveEnds, LoadPendingStates

\* The session of a launch is the game's, for the person signed in.
LEMMA SessionType ==
    ASSUME LaunchAssumption, JobTypes, AccountTypes, job.stage # "Idle"
    PROVE  Session \in Sessions /\ Session # NoGame /\ Session.game = job.game
           /\ job.game \in Games
  <1>1. job.game \in Games /\ job.saves \in People /\ who \in People
    BY DEF JobTypes, AccountTypes
  <1>2. Session.game # NoGame.game
    BY <1>1 DEF Session, NoGame, LaunchAssumption
  <1> QED
    BY <1>1, <1>2 DEF Session, Sessions

\* A game of ours and an emulator's are what the job was for.
LEMMA GameStep ==
    ASSUME LaunchAssumption, JobTypes, GameTypes, AccountTypes, NoLaunchInGame, Next
    PROVE  GameTypes'
  <1> USE DEF frame, asks, game, accounts
  <1>1. CASE UNCHANGED <<playing, program, booted, exitPending, paused>>
    BY <1>1 DEF GameTypes, InGame, Running, Sessions
  <1>2. CASE PressExit
    BY <1>2 DEF PressExit, ExitToHome, FinishExit, GameTypes, InGame, Running,
        Sessions
  <1>3. CASE StartOverOnDisc
    BY <1>3 DEF StartOverOnDisc, ExitToHome, FinishExit, GameTypes, InGame,
        Running, Sessions
  <1>4. CASE PauseProgram
    BY <1>4 DEF PauseProgram, GameTypes, InGame, Running, Sessions
  <1>5. CASE FinishStandalone
    BY <1>5 DEF FinishStandalone, GameTypes, InGame, Running, Sessions
  <1>6. CASE CoreBoots
    BY <1>6 DEF CoreBoots, GameTypes, InGame, Running, Sessions
  <1>7. CASE StartStandalone
    <2>1. ~InGame /\ ~Running /\ UNCHANGED <<playing, booted, exitPending>>
      BY <1>7 DEF StartStandalone, Starts, NoLaunchInGame
    <2>2. Session \in Sessions /\ Session # NoGame /\ Session.game \in Programs
      BY <1>7, SessionType DEF StartStandalone, Starts, Session
    <2>3. CASE program' = Session /\ paused' = FALSE
      BY <2>1, <2>2, <2>3 DEF GameTypes, InGame, Running
    <2>4. CASE UNCHANGED <<program, paused>>
      BY <2>1, <2>4 DEF GameTypes, InGame, Running
    <2> QED
      BY <1>7, <2>3, <2>4 DEF StartStandalone
  <1>8. CASE LoadGame
    <2>1. ~InGame /\ ~Running /\ UNCHANGED <<program, paused, exitPending>>
      BY <1>8 DEF LoadGame, Starts, NoLaunchInGame
    <2>2. Session \in Sessions /\ Session # NoGame /\ Session.game \in Games \ Programs
      BY <1>8, SessionType DEF LoadGame, Starts, Session
    <2>3. CASE playing' = Session /\ booted' = FALSE
      BY <2>1, <2>2, <2>3 DEF GameTypes, InGame, Running
    <2>4. CASE UNCHANGED <<playing, booted>>
      BY <2>1, <2>4 DEF GameTypes, InGame, Running
    <2> QED
      BY <1>8, <2>3, <2>4 DEF LoadGame
  <1>9. CASE PumpExit
    <2>1. NoGame \in Sessions
      BY DEF Sessions
    <2>2. CASE UNCHANGED <<playing, booted, exitPending, program, paused>>
      BY <2>2 DEF GameTypes, InGame, Running
    <2>3. CASE FinishExit /\ UNCHANGED <<program, paused>>
      BY <2>1, <2>3 DEF FinishExit, GameTypes, InGame, Running
    <2> QED
      BY <1>9, <2>2, <2>3 DEF PumpExit
  <1> QED
    BY <1>1, <1>2, <1>3, <1>4, <1>5, <1>6, <1>7, <1>8, <1>9
       DEF Next, Press, Beside, Frame, PumpLaunch, PressPlay, PressResume,
           PressState, PressDownload, Go, PressSwitchAccount,
           PressStopDownload, OpenPanel, ClosePanel, StartSignOut,
           AnswerSignOut, WorkerReady, WorkerFails, SignOutSent, FrameBegins,
           TakeAccountResults, TakeFailedJob, TakeQuietly, LowerForLaunch,
           SwitchWaits, SwitchAccount, SwitchEnds, LeaveWaits, LeaveEnds,
           LeaveFails, LoadPendingStates, PumpDiscChange, FrameEnds

\* The one signed in is a person, and a switch is to one.
LEMMA AccountStep ==
    ASSUME LaunchAssumption, AccountTypes, Next
    PROVE  AccountTypes'
  <1> USE DEF frame, asks, game, accounts
  <1>1. CASE UNCHANGED <<who, switching, signing, leaving>>
    BY <1>1 DEF AccountTypes
  <1>2. CASE \E p \in People : PressSwitchAccount(p)
    BY <1>2 DEF PressSwitchAccount, NoSwitch, Lower, Heard, Owned,
        AccountTypes
  <1>3. CASE StartSignOut
    BY <1>3 DEF StartSignOut, OnScreen, Heard, Owned, AccountTypes
  <1>4. CASE \E go \in BOOLEAN : AnswerSignOut(go)
    BY <1>4 DEF AnswerSignOut, StartLeaving, Lower, Owned, AccountTypes
  <1>5. CASE SignOutSent
    BY <1>5 DEF SignOutSent, AccountTypes
  <1>6. CASE TakeAccountResults
    BY <1>6 DEF TakeAccountResults, On, StartLeaving, Lower, AccountTypes
  <1>7. CASE SwitchAccount
    <2>1. PICK ok \in BOOLEAN :
              /\ switching' = [switching EXCEPT !.done = TRUE, !.ok = ok]
              /\ who' = IF ok THEN switching.to ELSE who
      BY <1>7 DEF SwitchAccount
    <2>2. switching.to \in People
      BY <1>7 DEF SwitchAccount, AccountTypes
    <2>3. /\ switching' \in [to : People \cup {None}, done : BOOLEAN, ok : BOOLEAN]
          /\ switching'.to \in People
      BY <2>1, <2>2 DEF AccountTypes
    <2> QED
      BY <1>7, <2>1, <2>2, <2>3 DEF SwitchAccount, AccountTypes
  <1>8. CASE SwitchEnds
    BY <1>8 DEF SwitchEnds, On, NoSwitch, Lift, AccountTypes
  <1>9. CASE LeaveFails
    BY <1>9 DEF LeaveFails, On, Lift, AccountTypes
  <1> QED
    BY <1>1, <1>2, <1>3, <1>4, <1>5, <1>6, <1>7, <1>8, <1>9
       DEF Next, Press, Beside, Frame, PumpLaunch, PressPlay, PressResume,
           PressState, PressDownload, Go, PressStopDownload, OpenPanel,
           ClosePanel, PressExit, StartOverOnDisc, PauseProgram,
           FinishStandalone, WorkerReady, WorkerFails, CoreBoots, FrameBegins,
           TakeFailedJob, TakeQuietly, LowerForLaunch, StartStandalone,
           LoadGame, SwitchWaits, LeaveWaits, LeaveEnds, PumpExit,
           LoadPendingStates, PumpDiscChange, FrameEnds

\* A job becomes a game by being Idle, and none begins over a game.
LEMMA NoLaunchInGameStep ==
    ASSUME Types, NoLaunchInGame, Next
    PROVE  NoLaunchInGame'
  <1> USE DEF frame, asks, game, accounts
  <1>1. CASE UNCHANGED <<playing, program, job>>
    BY <1>1 DEF NoLaunchInGame, InGame, Running
  <1>2. CASE \E g \in Games : PressPlay(g)
    BY <1>2 DEF PressPlay, OnScreen, Heard, Owned, LaunchById, WillNotLoad,
        Begins, Joins, Busy, Begun, NoJob, RefuseLaunch, Lift, Types,
        JobTypes, Jobs, Waiting, NoLaunchInGame, InGame, Running
  <1>3. CASE \E g \in Games : PressResume(g)
    BY <1>3 DEF PressResume, PressAsks, Counts, OnScreen, Heard, Owned,
        LaunchById, WillNotLoad, Begins, Joins, Busy, Begun, NoJob,
        RefuseLaunch, Lift, Types, JobTypes, Jobs, Waiting, NoLaunchInGame,
        InGame, Running
  <1>4. CASE \E g \in Games : PressState(g)
    BY <1>4 DEF PressState, PressAsks, Counts, OnScreen, Heard, Owned,
        LaunchById, WillNotLoad, Begins, Joins, Busy, Begun, NoJob,
        RefuseLaunch, Lift, Types, JobTypes, Jobs, Waiting, NoLaunchInGame,
        InGame, Running
  <1>5. CASE \E g \in Games : PressDownload(g)
    BY <1>5 DEF PressDownload, Begins, Begun, NoJob, OnScreen, Heard, Owned,
        Types, JobTypes, Jobs, Waiting, Busy, NoLaunchInGame, InGame, Running
  <1>6. CASE PressStopDownload
    BY <1>6 DEF PressStopDownload, Busy, OnScreen, Heard, Owned, Types,
        JobTypes, Jobs, Waiting, NoLaunchInGame, InGame, Running
  <1>7. CASE PressExit
    BY <1>7 DEF PressExit, ExitToHome, FinishExit, NoLaunchInGame, InGame,
        Running
  <1>8. CASE StartOverOnDisc
    BY <1>8 DEF StartOverOnDisc, ExitToHome, FinishExit, NoLaunchInGame,
        InGame, Running
  <1>9. CASE FinishStandalone
    BY <1>9 DEF FinishStandalone, NoLaunchInGame, InGame, Running
  <1>10. CASE WorkerReady
    BY <1>10 DEF WorkerReady, Busy, Types, JobTypes, Jobs, Waiting,
        NoLaunchInGame, InGame, Running
  <1>11. CASE WorkerFails
    BY <1>11 DEF WorkerFails, Busy, Types, JobTypes, Jobs, Waiting,
        NoLaunchInGame, InGame, Running
  <1>12. CASE TakeFailedJob
    BY <1>12 DEF TakeFailedJob, On, Put, ForgetLaunchAsks, RefuseLaunch, Lift,
        Types, JobTypes, Jobs, Waiting, Busy, NoLaunchInGame, InGame, Running
  <1>13. CASE TakeQuietly
    BY <1>13 DEF TakeQuietly, On, Put, ForgetLaunchAsks, Lift, Types,
        JobTypes, Jobs, Waiting, Busy, NoLaunchInGame, InGame, Running
  <1>14. CASE LowerForLaunch
    BY <1>14 DEF LowerForLaunch, On, MovedOn, Lower, Types, JobTypes, Jobs,
        Waiting, Busy, NoLaunchInGame, InGame, Running
  <1>15. CASE StartStandalone
    BY <1>15 DEF StartStandalone, Starts, On, Put, ForgetLaunchAsks, Session,
        RefuseLaunch, Lift, Types, JobTypes, Jobs, Waiting, Busy,
        NoLaunchInGame, InGame, Running
  <1>16. CASE LoadGame
    BY <1>16 DEF LoadGame, Starts, On, Put, ForgetLaunchAsks, Session,
        RefuseLaunch, Lift, Types, JobTypes, Jobs, Waiting, Busy,
        NoLaunchInGame, InGame, Running
  <1>17. CASE PumpExit
    BY <1>17 DEF PumpExit, On, FinishExit, NoLaunchInGame, InGame, Running
  <1>18. CASE PumpDiscChange
    BY <1>18 DEF PumpDiscChange, On, Counts, LaunchById, WillNotLoad, Begins,
        Joins, Busy, Begun, NoJob, RefuseLaunch, Lift, Types, JobTypes, Jobs,
        Waiting, NoLaunchInGame, InGame, Running
  <1> QED
    BY <1>1, <1>2, <1>3, <1>4, <1>5, <1>6, <1>7, <1>8, <1>9, <1>10, <1>11,
       <1>12, <1>13, <1>14, <1>15, <1>16, <1>17, <1>18
       DEF Next, Press, Beside, Frame, PumpLaunch, Go, PressSwitchAccount,
           OpenPanel, ClosePanel, StartSignOut, AnswerSignOut, PauseProgram,
           CoreBoots, SignOutSent, FrameBegins, TakeAccountResults,
           SwitchWaits, SwitchAccount, SwitchEnds, LeaveWaits, LeaveEnds,
           LeaveFails, LoadPendingStates, FrameEnds

\* What a press asks for goes with the launch it begins or joins.
LEMMA PressPicks ==
    ASSUME Types, AsksGoWithTheirLaunch, NEW g \in Games, ~InGame,
           UNCHANGED <<playing, relaunch>>,
           \/ LaunchById(g) /\ \E disc \in {None, g} : PressAsks(g, disc)
           \/ WillNotLoad(g) /\ UNCHANGED <<picked, nextDisc>>
    PROVE  AsksGoWithTheirLaunch'
  <1>1. CASE LaunchById(g) /\ Counts(g) /\ picked' = g /\ nextDisc' \in {None, g}
    <2>1. job'.stage # "Idle" /\ job'.game = g
      BY <1>1 DEF LaunchById, Counts, Begins, Joins, Begun, NoJob, Busy, Types, JobTypes, Jobs
    <2> QED
      BY <1>1, <2>1 DEF AsksGoWithTheirLaunch
  <1>2. CASE LaunchById(g) /\ ~Counts(g) /\ UNCHANGED <<picked, nextDisc>>
    <2>1. UNCHANGED job
      BY <1>2 DEF LaunchById, Counts, Begins, Joins
    <2> QED
      BY <1>2, <2>1 DEF AsksGoWithTheirLaunch, InGame
  <1>3. CASE WillNotLoad(g) /\ UNCHANGED <<picked, nextDisc>>
    <2>1. job.stage = "Idle"
      BY <1>3 DEF WillNotLoad, Begins
    <2> QED
      BY <1>3, <2>1 DEF AsksGoWithTheirLaunch, InGame
  <1> QED
    BY <1>1, <1>2, <1>3 DEF PressAsks

\* What was asked for is forgotten with the job, or goes into the game with it.
LEMMA AsksStep ==
    ASSUME LaunchAssumption, Types, NoLaunchInGame, AsksGoWithTheirLaunch, Next
    PROVE  AsksGoWithTheirLaunch'
  <1> USE DEF frame, asks, game, accounts
  <1>1. CASE UNCHANGED <<playing, picked, nextDisc, relaunch, job>>
    BY <1>1 DEF AsksGoWithTheirLaunch, InGame
  <1>2. CASE \E g \in Games : PressPlay(g)
    BY <1>2 DEF PressPlay, OnScreen, Heard, Owned, LaunchById, WillNotLoad,
        Begins, Joins, Busy, Begun, NoJob, RefuseLaunch, Lift, Types,
        JobTypes, Jobs, NoLaunchInGame, Running, LaunchAssumption,
        AsksGoWithTheirLaunch, InGame
  <1>3. CASE \E g \in Games : PressResume(g)
    BY <1>3, PressPicks DEF PressResume, OnScreen, Heard, Owned
  <1>4. CASE \E g \in Games : PressState(g)
    BY <1>4, PressPicks DEF PressState, OnScreen, Heard, Owned
  <1>5. CASE \E g \in Games : PressDownload(g)
    BY <1>5 DEF PressDownload, Begins, Begun, NoJob, OnScreen, Heard, Owned,
        Types, JobTypes, Jobs, NoLaunchInGame, Running, LaunchAssumption,
        AsksGoWithTheirLaunch, InGame
  <1>6. CASE PressStopDownload
    BY <1>6 DEF PressStopDownload, Busy, OnScreen, Heard, Owned, Types,
        JobTypes, Jobs, NoLaunchInGame, Running, LaunchAssumption,
        AsksGoWithTheirLaunch, InGame
  <1>7. CASE PressExit
    BY <1>7 DEF PressExit, ExitToHome, FinishExit, AsksGoWithTheirLaunch,
        InGame
  <1>8. CASE StartOverOnDisc
    BY <1>8 DEF StartOverOnDisc, ExitToHome, FinishExit,
        AsksGoWithTheirLaunch, InGame
  <1>9. CASE WorkerReady
    BY <1>9 DEF WorkerReady, Busy, Types, JobTypes, Jobs, NoLaunchInGame,
        Running, LaunchAssumption, AsksGoWithTheirLaunch, InGame
  <1>10. CASE WorkerFails
    BY <1>10 DEF WorkerFails, Busy, Types, JobTypes, Jobs, NoLaunchInGame,
        Running, LaunchAssumption, AsksGoWithTheirLaunch, InGame
  <1>11. CASE TakeFailedJob
    BY <1>11 DEF TakeFailedJob, On, Put, ForgetLaunchAsks, RefuseLaunch, Lift,
        Types, JobTypes, Jobs, NoLaunchInGame, Running, LaunchAssumption,
        AsksGoWithTheirLaunch, InGame
  <1>12. CASE TakeQuietly
    BY <1>12 DEF TakeQuietly, On, Put, ForgetLaunchAsks, Lift, Types,
        JobTypes, Jobs, NoLaunchInGame, Running, LaunchAssumption,
        AsksGoWithTheirLaunch, InGame
  <1>13. CASE LowerForLaunch
    BY <1>13 DEF LowerForLaunch, On, MovedOn, Lower, Types, JobTypes, Jobs,
        NoLaunchInGame, Running, LaunchAssumption, AsksGoWithTheirLaunch,
        InGame
  <1>14. CASE StartStandalone
    BY <1>14 DEF StartStandalone, Starts, On, Put, ForgetLaunchAsks, Session,
        RefuseLaunch, Lift, Types, JobTypes, Jobs, NoLaunchInGame, Running,
        LaunchAssumption, AsksGoWithTheirLaunch, InGame
  <1>15. CASE LoadGame
    <2>1. job.stage = "Ready" /\ ~InGame
      BY <1>15 DEF LoadGame, Starts, NoLaunchInGame
    <2>2. CASE picked' = None /\ nextDisc' = None
      BY <2>2 DEF AsksGoWithTheirLaunch
    <2>3. CASE playing' = Session /\ nextDisc' = None /\ picked' = picked
      <3>1. picked # None => picked = job.game
        BY <2>1 DEF AsksGoWithTheirLaunch
      <3>2. playing'.game = job.game /\ playing' # NoGame
        BY <2>1, <2>3 DEF Session, NoGame, Types, JobTypes, LaunchAssumption
      <3> QED
        BY <2>3, <3>1, <3>2 DEF AsksGoWithTheirLaunch, InGame
    <2> QED
      BY <1>15, <2>2, <2>3 DEF LoadGame, ForgetLaunchAsks
  <1>16. CASE PumpExit
    BY <1>16 DEF PumpExit, On, FinishExit, AsksGoWithTheirLaunch, InGame
  <1>17. CASE LoadPendingStates
    BY <1>17 DEF LoadPendingStates, On, AsksGoWithTheirLaunch, InGame
  <1>18. CASE PumpDiscChange
    BY <1>18 DEF PumpDiscChange, On, Counts, LaunchById, WillNotLoad, Begins,
        Joins, Busy, Begun, NoJob, RefuseLaunch, Lift, Types, JobTypes, Jobs,
        NoLaunchInGame, Running, LaunchAssumption, AsksGoWithTheirLaunch,
        InGame
  <1> QED
    BY <1>1, <1>2, <1>3, <1>4, <1>5, <1>6, <1>7, <1>8, <1>9, <1>10, <1>11,
       <1>12, <1>13, <1>14, <1>15, <1>16, <1>17, <1>18
       DEF Next, Press, Beside, Frame, PumpLaunch, Go, PressSwitchAccount,
           OpenPanel, ClosePanel, StartSignOut, AnswerSignOut, PauseProgram,
           FinishStandalone, CoreBoots, SignOutSent, FrameBegins,
           TakeAccountResults, SwitchWaits, SwitchAccount, SwitchEnds,
           LeaveWaits, LeaveEnds, LeaveFails, FrameEnds

\* A launch asked for leaves the curtain to whoever has it, or lifts it.
LEMMA PressOwner ==
    ASSUME Types, Owner, NEW g \in Games, LaunchById(g) \/ WillNotLoad(g),
           UNCHANGED <<switching, leaving>>
    PROVE  Owner'
  <1> USE DEF Owner, Types, JobTypes, Jobs, CurtainType
  <1>1. CASE Begins /\ job' = Begun(g, TRUE) /\ UNCHANGED curtain
    <2>1. job'.stage = "Busy" /\ ~job'.lowered /\ job.stage = "Idle"
      BY <1>1 DEF Begun, NoJob, Begins
    <2> QED
      BY <1>1, <2>1
  <1>2. CASE Joins(g) /\ UNCHANGED curtain
            /\ job' = [job EXCEPT !.play = TRUE, !.startedOn = screen.kind]
    <2>1. job'.stage = "Busy" /\ job.stage = "Busy" /\ job'.lowered = job.lowered
      BY <1>2 DEF Joins, Busy
    <2> QED
      BY <1>2, <2>1
  <1>3. CASE UNCHANGED <<job, curtain>>
    BY <1>3
  <1>4. CASE WillNotLoad(g)
    <2>1. job'.stage = "Idle" /\ ~job'.lowered /\ curtain'.to = 0
      BY <1>4 DEF WillNotLoad, Begun, NoJob, RefuseLaunch, Lift
    <2> QED
      BY <2>1
  <1> QED
    BY <1>1, <1>2, <1>3, <1>4 DEF LaunchById

\* Whoever lowers the curtain has it, and lifts it when done with it.
LEMMA OwnerStep ==
    ASSUME LaunchAssumption, Types, NoLaunchInGame, Owner, Next
    PROVE  Owner'
  <1> USE DEF frame, asks, game, accounts
  <1>1. CASE UNCHANGED <<curtain, job, switching, leaving>>
    BY <1>1 DEF Owner
  <1>2. CASE \E g \in Games : PressPlay(g)
    BY <1>2, PressOwner DEF PressPlay, OnScreen, Heard, Owned
  <1>3. CASE \E g \in Games : PressResume(g)
    BY <1>3, PressOwner DEF PressResume, OnScreen, Heard, Owned
  <1>4. CASE \E g \in Games : PressState(g)
    BY <1>4, PressOwner DEF PressState, OnScreen, Heard, Owned
  <1>5. CASE \E g \in Games : PressDownload(g)
    BY <1>5 DEF PressDownload, Begins, Begun, NoJob, OnScreen, Heard, Owned,
        Types, JobTypes, Jobs, NoLaunchInGame, Running, CurtainType, Owner
  <1>6. CASE \E p \in People : PressSwitchAccount(p)
    BY <1>6 DEF PressSwitchAccount, NoSwitch, Lower, Heard, Owned,
        LaunchAssumption, Types, CurtainType, AccountTypes, Owner
  <1>7. CASE PressStopDownload
    BY <1>7 DEF PressStopDownload, Busy, OnScreen, Heard, Owned, Types,
        JobTypes, Jobs, NoLaunchInGame, Running, CurtainType, Owner
  <1>8. CASE \E go \in BOOLEAN : AnswerSignOut(go)
    BY <1>8 DEF AnswerSignOut, StartLeaving, Lower, Owned, LaunchAssumption,
        Types, CurtainType, AccountTypes, Owner
  <1>9. CASE PressExit
    BY <1>9 DEF PressExit, ExitToHome, FinishExit, LaunchAssumption, Types,
        CurtainType, AccountTypes, Owner
  <1>10. CASE StartOverOnDisc
    BY <1>10 DEF StartOverOnDisc, ExitToHome, FinishExit, LaunchAssumption,
        Types, CurtainType, AccountTypes, Owner
  <1>11. CASE FinishStandalone
    BY <1>11 DEF FinishStandalone, LaunchAssumption, Types, CurtainType,
        AccountTypes, Owner
  <1>12. CASE WorkerReady
    BY <1>12 DEF WorkerReady, Busy, Types, JobTypes, Jobs, NoLaunchInGame,
        Running, CurtainType, Owner
  <1>13. CASE WorkerFails
    BY <1>13 DEF WorkerFails, Busy, Types, JobTypes, Jobs, NoLaunchInGame,
        Running, CurtainType, Owner
  <1>14. CASE TakeAccountResults
    BY <1>14 DEF TakeAccountResults, On, StartLeaving, Lower,
        LaunchAssumption, Types, CurtainType, AccountTypes, Owner
  <1>15. CASE TakeFailedJob
    BY <1>15 DEF TakeFailedJob, On, Put, ForgetLaunchAsks, RefuseLaunch, Lift,
        Types, JobTypes, Jobs, NoLaunchInGame, Running, CurtainType, Owner
  <1>16. CASE TakeQuietly
    BY <1>16 DEF TakeQuietly, On, Put, ForgetLaunchAsks, Lift, Types,
        JobTypes, Jobs, NoLaunchInGame, Running, CurtainType, Owner
  <1>17. CASE LowerForLaunch
    BY <1>17 DEF LowerForLaunch, On, MovedOn, Lower, Types, JobTypes, Jobs,
        NoLaunchInGame, Running, CurtainType, Owner
  <1>18. CASE StartStandalone
    BY <1>18 DEF StartStandalone, Starts, On, Put, ForgetLaunchAsks, Session,
        RefuseLaunch, Lift, Types, JobTypes, Jobs, NoLaunchInGame, Running,
        CurtainType, Owner
  <1>19. CASE LoadGame
    BY <1>19 DEF LoadGame, Starts, On, Put, ForgetLaunchAsks, Session,
        RefuseLaunch, Lift, Types, JobTypes, Jobs, NoLaunchInGame, Running,
        CurtainType, Owner
  <1>20. CASE SwitchWaits
    BY <1>20 DEF SwitchWaits, On, Lower, LaunchAssumption, Types, CurtainType,
        AccountTypes, Owner
  <1>21. CASE SwitchAccount
    <2>1. PICK ok \in BOOLEAN : switching' = [switching EXCEPT !.done = TRUE, !.ok = ok]
      BY <1>21 DEF SwitchAccount
    <2>2. switching'.done = TRUE /\ NoSwitch.done = FALSE
      BY <2>1 DEF NoSwitch, Types, AccountTypes
    <2>3. switching' # NoSwitch
      BY <2>2
    <2> QED
      BY <1>21, <2>3 DEF SwitchAccount, Owner
  <1>22. CASE SwitchEnds
    BY <1>22 DEF SwitchEnds, On, NoSwitch, Lift, LaunchAssumption, Types,
        CurtainType, AccountTypes, Owner
  <1>23. CASE LeaveWaits
    BY <1>23 DEF LeaveWaits, On, Lower, LaunchAssumption, Types, CurtainType,
        AccountTypes, Owner
  <1>24. CASE LeaveFails
    BY <1>24 DEF LeaveFails, On, Lift, LaunchAssumption, Types, CurtainType,
        AccountTypes, Owner
  <1>25. CASE PumpExit
    BY <1>25 DEF PumpExit, On, FinishExit, LaunchAssumption, Types,
        CurtainType, AccountTypes, Owner
  <1>26. CASE PumpDiscChange
    <2>1. CASE UNCHANGED <<job, curtain, switching, leaving>>
      BY <2>1 DEF Owner
    <2>2. CASE relaunch # None /\ (LaunchById(relaunch) \/ WillNotLoad(relaunch))
      <3>1. relaunch \in Games
        BY <2>2 DEF Types, AskTypes
      <3> QED
        BY <1>26, <2>2, <3>1, PressOwner DEF PumpDiscChange
    <2> QED
      BY <1>26, <2>1, <2>2 DEF PumpDiscChange
  <1>27. CASE FrameEnds
    BY <1>27 DEF FrameEnds, On, LaunchAssumption, Types, CurtainType,
        AccountTypes, Owner
  <1> QED
    BY <1>1, <1>2, <1>3, <1>4, <1>5, <1>6, <1>7, <1>8, <1>9, <1>10, <1>11,
       <1>12, <1>13, <1>14, <1>15, <1>16, <1>17, <1>18, <1>19, <1>20, <1>21,
       <1>22, <1>23, <1>24, <1>25, <1>26, <1>27
       DEF Next, Press, Beside, Frame, PumpLaunch, Go, OpenPanel, ClosePanel,
           StartSignOut, PauseProgram, CoreBoots, SignOutSent, FrameBegins,
           LeaveEnds, LoadPendingStates

\* A game starts from a job, and there is none in a game.
LEMMA OneGameStep ==
    ASSUME NoLaunchInGame, OneGame, Next
    PROVE  OneGame'
  <1> USE DEF frame, asks, game, accounts
  <1>1. CASE UNCHANGED <<playing, program>>
    BY <1>1 DEF OneGame, InGame, Running
  <1>2. CASE PressExit
    BY <1>2 DEF PressExit, ExitToHome, FinishExit, OneGame, InGame, Running
  <1>3. CASE StartOverOnDisc
    BY <1>3 DEF StartOverOnDisc, ExitToHome, FinishExit, OneGame, InGame,
        Running
  <1>4. CASE FinishStandalone
    BY <1>4 DEF FinishStandalone, OneGame, InGame, Running
  <1>5. CASE StartStandalone
    BY <1>5 DEF StartStandalone, Starts, On, Put, ForgetLaunchAsks, Session,
        RefuseLaunch, Lift, NoLaunchInGame, OneGame, InGame, Running
  <1>6. CASE LoadGame
    BY <1>6 DEF LoadGame, Starts, On, Put, ForgetLaunchAsks, Session,
        RefuseLaunch, Lift, NoLaunchInGame, OneGame, InGame, Running
  <1>7. CASE PumpExit
    BY <1>7 DEF PumpExit, On, FinishExit, OneGame, InGame, Running
  <1> QED
    BY <1>1, <1>2, <1>3, <1>4, <1>5, <1>6, <1>7
       DEF Next, Press, Beside, Frame, PumpLaunch, PressPlay, PressResume,
           PressState, PressDownload, Go, PressSwitchAccount,
           PressStopDownload, OpenPanel, ClosePanel, StartSignOut,
           AnswerSignOut, PauseProgram, WorkerReady, WorkerFails, CoreBoots,
           SignOutSent, FrameBegins, TakeAccountResults, TakeFailedJob,
           TakeQuietly, LowerForLaunch, SwitchWaits, SwitchAccount,
           SwitchEnds, LeaveWaits, LeaveEnds, LeaveFails, LoadPendingStates,
           PumpDiscChange, FrameEnds

-----------------------------------------------------------------------------
(* The theorems. *)

\* IInv holds at the start.
LEMMA Start == ASSUME LaunchAssumption, Init PROVE IInv
  <1>1. "presses" \in {Order[n] : n \in 1 .. 9}
    BY DEF Order
  <1>2. FrameTypes
    <2>1. panel \in BOOLEAN
      BY Zenon DEF Init
    <2> QED
      BY <1>1, <2>1 DEF Init, FrameTypes, Screens
  <1>3. AskTypes /\ CurtainType
    BY DEF Init, AskTypes, CurtainType
  <1>4. JobTypes /\ AccountTypes
    BY DEF Init, JobTypes, Jobs, NoJob, Kinds, AccountTypes, NoSwitch
  <1>5. GameTypes
    BY DEF Init, GameTypes, Sessions, InGame, Running
  <1>6. NoLaunchInGame /\ AsksGoWithTheirLaunch /\ OneGame
    BY DEF Init, NoLaunchInGame, AsksGoWithTheirLaunch, OneGame, InGame, Running
  <1>7. Owner
    BY DEF Init, Owner, NoJob
  <1> QED
    BY <1>2, <1>3, <1>4, <1>5, <1>6, <1>7 DEF IInv, Types

\* IInv is inductive.
LEMMA Step == ASSUME LaunchAssumption, IInv, [Next]_vars PROVE IInv'
  <1> USE DEF IInv, Types
  <1>1. CASE Next
    BY <1>1, FrameStep, JobStep, AskStep, CurtainStep, GameStep, AccountStep,
       NoLaunchInGameStep, AsksStep, OwnerStep, OneGameStep
  <1>2. CASE UNCHANGED vars
    <2> USE <1>2 DEF vars, frame, asks, game, accounts
    <2>1. FrameTypes' /\ JobTypes' /\ AskTypes' /\ CurtainType' /\ AccountTypes'
      BY DEF FrameTypes, JobTypes, AskTypes, CurtainType, AccountTypes
    <2>2. GameTypes'
      BY DEF GameTypes, InGame, Running
    <2>3. NoLaunchInGame' /\ AsksGoWithTheirLaunch' /\ OneGame'
      BY DEF NoLaunchInGame, AsksGoWithTheirLaunch, OneGame, InGame, Running
    <2>4. Owner'
      BY DEF Owner
    <2> QED
      BY <2>1, <2>2, <2>3, <2>4
  <1> QED
    BY <1>1, <1>2

\* The launch, the curtain and the games go together in every order of presses,
\* workers and frames, for any people and games (frame.cpp, launch.cpp).
THEOREM LaunchInvariant == Spec => []IInv
  <1>1. Init => IInv
    BY LaunchAssumption, Start
  <1>2. IInv /\ [Next]_vars => IInv'
    BY LaunchAssumption, Step
  <1> QED
    BY <1>1, <1>2, PTL DEF Spec

\* Every variable holds what its declaration says.
THEOREM LaunchTypes == Spec => []TypeOK
  <1>1. IInv => TypeOK
    BY TypesAre DEF IInv
  <1> QED
    BY <1>1, LaunchInvariant, PTL

\* No state, Resume or disc asked for is left for another launch (launchById,
\* forgetLaunchAsks).
THEOREM AsksAreForTheirLaunch == Spec => []AsksGoWithTheirLaunch
  <1>1. IInv => AsksGoWithTheirLaunch
    BY DEF IInv
  <1> QED
    BY <1>1, LaunchInvariant, PTL

\* The curtain is not on its way down for nobody (pumpLaunch, pumpSwitch,
\* pumpLeave).
THEOREM CurtainIsOwned == Spec => []CurtainHasAnOwner
  <1>1. IInv => CurtainHasAnOwner
    BY DEF IInv, Owner, CurtainHasAnOwner
  <1> QED
    BY <1>1, LaunchInvariant, PTL

\* Never two games at once (launchById, inputOwner).
THEOREM OneGameAtATime == Spec => []OneGame
  <1>1. IInv => OneGame
    BY DEF IInv
  <1> QED
    BY <1>1, LaunchInvariant, PTL
=============================================================================
