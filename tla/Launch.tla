-------------------------------- MODULE Launch --------------------------------
(***************************************************************************)
(* What the television shows next: the frame loop's pumps in their order   *)
(* (frame.cpp), the launch from a press to the game's first frame          *)
(* (launch.cpp), leaving a game (play.cpp), Start over on a disc           *)
(* (discs.cpp), a game in an emulator of its own (standalone_play.cpp), an *)
(* account switch (accountsflow.cpp) and a sign out (curtain.cpp), all     *)
(* behind the one curtain.                                                 *)
(*                                                                         *)
(* A frame is one pass of `at` over Order; presses come first, and the     *)
(* job's worker, the core's boot and the sign out's sending go on beside   *)
(* it.  What a clock or a frame count decides is a choice, fair where the  *)
(* clock is sure to run out.  What the job fetches is Keeps' and           *)
(* SaveRestore's; here it is only whose saves it asked for.                *)
(***************************************************************************)
EXTENDS Naturals

CONSTANTS
    People, Games,
    Programs,     \* the games that run in an emulator of their own
    None,         \* no game, no person, nothing on its way
    MaxPresses    \* bound: presses outside a game

ASSUME LaunchAssumption ==
    /\ Programs \subseteq Games
    /\ None \notin Games \cup People
    /\ MaxPresses \in Nat

VARIABLES
    at,        \* how far the frame is
    screen,    \* the screen in front: its kind, and a page's game
    going,     \* pendingDest, pendingDetail, pendingDetailBack: taken at the frame's end
    panel,     \* accountsOpen
    job,       \* launchJob
    picked,    \* pendingStateId, pendingStatePath, pendingResume: the game they are for
    nextDisc,  \* gNextStartDisc: the game it is for
    relaunch,  \* relaunchRomId
    curtain,   \* where it is going and where it is: 0 up, 2 down
    playing,   \* playing and session, for a core of ours
    booted,    \* core.running()
    exitPending,
    program,   \* standaloneRun and session, for an emulator of its own
    paused,    \* standalonePaused
    who,       \* storage::currentUser()
    switching, \* switchPendingId, switchDone, switchOk
    signing,   \* removeJob for everyone: its sending, and the question
    leaving,   \* leaving = Leave::SignOut
    presses

frame    == <<at, screen, going, panel>>
asks     == <<picked, nextDisc, relaunch>>
game     == <<playing, booted, exitPending, program, paused>>
accounts == <<who, switching, signing, leaving>>
vars     == <<frame, job, asks, curtain, game, accounts, presses>>

Order == <<"presses", "results", "launch", "switch", "leave", "exit", "states", "discs", "end">>
After(step) == LET n == CHOOSE n \in 1 .. 9 : Order[n] = step IN Order[(n % 9) + 1]
On == at' = After(at)

Home    == [kind |-> "Home", game |-> None]
Other   == [kind |-> "Other", game |-> None]
Page(g) == [kind |-> "Detail", game |-> g]
Screens == {Home, Other} \cup {Page(g) : g \in Games}

\* `saves` is whose saves the worker asked RomM for.
NoJob == [stage |-> "Idle", game |-> None, play |-> FALSE, cancel |-> FALSE,
          startedOn |-> "Home", lowered |-> FALSE, saves |-> None]

Busy    == job.stage = "Busy"
Waiting == job.stage \in {"Ready", "Failed"}

NoGame   == [game |-> None, person |-> None, saves |-> None]
InGame   == playing # NoGame
Running  == program # NoGame
NoSwitch == [to |-> None, done |-> FALSE, ok |-> FALSE]

Lower == [curtain EXCEPT !.to = 2]
Lift  == [curtain EXCEPT !.to = 0]
Down  == curtain.value = 2

Init ==
    /\ at = "presses" /\ screen = Home /\ going = None /\ panel = FALSE
    /\ job = NoJob /\ picked = None /\ nextDisc = None /\ relaunch = None
    /\ curtain = [to |-> 0, value |-> 0]
    /\ playing = NoGame /\ booted = FALSE /\ exitPending = FALSE
    /\ program = NoGame /\ paused = FALSE
    /\ who \in People /\ switching = NoSwitch
    /\ signing = "no" /\ leaving = FALSE
    /\ presses = 0

-----------------------------------------------------------------------------
(* Presses. *)

\* inputOwner: no game has the presses.
Owned == /\ at = "presses" /\ presses < MaxPresses /\ presses' = presses + 1
         /\ ~InGame /\ ~Running

\* navigate: a question hears a press whatever is behind it, a screen does not.
Heard == Owned /\ switching = NoSwitch /\ ~leaving

OnScreen == Heard /\ ~panel /\ signing # "asking"

\* What launchById does with the press: nothing over an emulator of its own; a
\* press for the game the job is at counts.
Joins(g)  == ~Running /\ Busy /\ job.game = g /\ ~job.play

\* A launch that does not ask whether an emulator of its own is running.
Begins_OverAnything == job.stage = "Idle"

Begins    == ~Running /\ job.stage = "Idle"
Counts(g) == Begins \/ (~Running /\ job.game = g)

Begun(g, play) ==
    [NoJob EXCEPT !.stage = "Busy", !.game = g, !.play = play,
                  !.startedOn = screen.kind, !.saves = who]

\* refuseLaunch: the game's page, now or at the frame's end, and the curtain up.
RefuseLaunch(g) ==
    /\ going' \in IF screen = Page(g) THEN {going}
                   ELSE {Page(g)} \cup ({going} \cap {Home, Other})
    /\ curtain' = Lift

LaunchById(g) ==
    \/ /\ Begins /\ job' = Begun(g, TRUE)
       /\ UNCHANGED <<going, curtain>>
    \/ /\ Joins(g)
       /\ job' = [job EXCEPT !.play = TRUE, !.startedOn = screen.kind]
       /\ UNCHANGED <<going, curtain>>
    \/ /\ ~Begins /\ ~Joins(g)
       /\ UNCHANGED <<job, going, curtain>>

\* A core that will not load at the press: the job is left Idle, naming the game.
WillNotLoad(g) ==
    /\ Begins /\ g \notin Programs
    /\ job' = [Begun(g, TRUE) EXCEPT !.stage = "Idle"]
    /\ RefuseLaunch(g)

PressPlay(g) ==
    /\ OnScreen /\ screen = Page(g)
    /\ LaunchById(g) \/ WillNotLoad(g)
    /\ UNCHANGED <<at, screen, panel, asks, game, accounts>>

\* A press that sets its ask whether or not it counted.
PressAsks_Always(g, disc) ==
    picked' = g /\ nextDisc' = disc

\* Home's Resume and Play from a state, once launchById has answered.
PressAsks(g, disc) ==
    IF Counts(g) THEN picked' = g /\ nextDisc' = disc
                 ELSE UNCHANGED <<picked, nextDisc>>

PressResume(g) ==
    /\ OnScreen /\ screen = Home
    /\ \/ LaunchById(g) /\ PressAsks(g, None)
       \/ WillNotLoad(g) /\ UNCHANGED <<picked, nextDisc>>
    /\ UNCHANGED <<at, screen, panel, relaunch, game, accounts>>

\* One of the console's own states starts its own disc.
PressState(g) ==
    /\ OnScreen /\ screen = Page(g)
    /\ \/ LaunchById(g) /\ \E disc \in {None, g} : PressAsks(g, disc)
       \/ WillNotLoad(g) /\ UNCHANGED <<picked, nextDisc>>
    /\ UNCHANGED <<at, screen, panel, relaunch, game, accounts>>

PressDownload(g) ==
    /\ OnScreen /\ screen = Page(g) /\ Begins
    /\ job' = Begun(g, FALSE)
    /\ UNCHANGED <<frame, asks, curtain, game, accounts>>

\* Stop, on the row that is filling, once its question is answered.
PressStopDownload ==
    /\ OnScreen /\ Busy /\ screen = Page(job.game)
    /\ job' = [job EXCEPT !.cancel = TRUE]
    /\ UNCHANGED <<frame, asks, curtain, game, accounts>>

\* A destination, a page or Back from it; B from another screen is at once.
Go(s) ==
    /\ OnScreen /\ s # screen
    /\ \/ going' = s /\ UNCHANGED screen
       \/ screen = Other /\ s = Home /\ screen' = Home /\ UNCHANGED going
    /\ UNCHANGED <<at, panel, job, asks, curtain, game, accounts>>

OpenPanel ==
    /\ OnScreen /\ panel' = TRUE
    /\ UNCHANGED <<at, screen, going, job, asks, curtain, game, accounts>>

ClosePanel ==
    /\ Heard /\ panel /\ panel' = FALSE
    /\ UNCHANGED <<at, screen, going, job, asks, curtain, game, accounts>>

PressSwitchAccount(p) ==
    /\ Heard /\ panel /\ p # who
    /\ panel' = FALSE /\ switching' = [NoSwitch EXCEPT !.to = p]
    /\ curtain' = Lower
    /\ UNCHANGED <<at, screen, going, job, asks, game, who, signing, leaving>>

StartSignOut ==
    /\ OnScreen /\ screen = Other /\ signing = "no"
    /\ signing' = "sending"
    /\ UNCHANGED <<frame, job, asks, curtain, game, who, switching, leaving>>

StartLeaving ==
    /\ leaving' = TRUE /\ panel' = FALSE /\ curtain' = Lower

\* "Saves waiting to upload will be lost."
AnswerSignOut(go) ==
    /\ Owned /\ signing = "asking" /\ signing' = "no"
    /\ IF go THEN StartLeaving ELSE UNCHANGED <<leaving, panel, curtain>>
    /\ UNCHANGED <<at, screen, going, job, asks, game, who, switching>>

-----------------------------------------------------------------------------
(* Presses in a game. *)

\* A leaving that forgets the quit that was waiting for the core.
FinishExit_QuitWaits ==
    /\ playing' = NoGame /\ booted' = FALSE /\ UNCHANGED exitPending
    /\ picked' = None
    /\ curtain' = [to |-> 0, value |-> 2]

\* finishExit. The ask for a disc stays: Start over sets it just before.
FinishExit ==
    /\ playing' = NoGame /\ booted' = FALSE /\ exitPending' = FALSE
    /\ picked' = None
    /\ curtain' = [to |-> 0, value |-> 2]

ExitToHome ==
    IF booted THEN FinishExit
    ELSE exitPending' = TRUE /\ UNCHANGED <<playing, booted, picked, curtain>>

PressExit ==
    /\ at = "presses" /\ InGame
    /\ ExitToHome
    /\ UNCHANGED <<frame, job, nextDisc, relaunch, program, paused, accounts, presses>>

StartOverOnDisc ==
    /\ at = "presses" /\ InGame /\ presses < MaxPresses /\ presses' = presses + 1
    /\ nextDisc' = playing.game /\ relaunch' = playing.game
    /\ ExitToHome
    /\ UNCHANGED <<frame, job, program, paused, accounts>>

\* The pause menu over an emulator of its own; closed, the emulator thaws.
PauseProgram ==
    /\ at = "presses" /\ Running /\ paused' = ~paused
    /\ UNCHANGED <<frame, job, asks, curtain, playing, booted, exitPending, program,
                   accounts, presses>>

\* finishStandalone: it was closed, quit, fell over, or could not load the game.
FinishStandalone ==
    /\ at = "presses" /\ Running
    /\ program' = NoGame /\ paused' = FALSE
    /\ curtain' = [to |-> 0, value |-> 2]
    /\ \/ UNCHANGED going
       \/ going' = IF screen = Page(job.game) THEN going ELSE Page(job.game)
    /\ UNCHANGED <<at, screen, panel, job, asks, playing, booted, exitPending,
                   accounts, presses>>

-----------------------------------------------------------------------------
(* Beside the frame. *)

\* The worker ends. A cancel seen in time fails the job; its last check is
\* before Ready, so one after it does not.
WorkerReady ==
    /\ Busy /\ job' = [job EXCEPT !.stage = "Ready"]
    /\ UNCHANGED <<frame, asks, curtain, game, accounts, presses>>

WorkerFails ==
    /\ Busy /\ job' = [job EXCEPT !.stage = "Failed"]
    /\ UNCHANGED <<frame, asks, curtain, game, accounts, presses>>

CoreBoots ==
    /\ InGame /\ ~booted /\ booted' = TRUE
    /\ UNCHANGED <<frame, job, asks, curtain, playing, exitPending, program, paused,
                   accounts, presses>>

\* Everyone's owed saves have been tried; something may be left.
SignOutSent ==
    /\ signing = "sending" /\ signing' \in {"sent", "left"}
    /\ UNCHANGED <<frame, job, asks, curtain, game, who, switching, leaving, presses>>

-----------------------------------------------------------------------------
(* The frame, in its order. *)

\* While an emulator of its own has the screen the loop only watches it.
FrameBegins ==
    /\ at = "presses" /\ (Running => paused) /\ On
    /\ UNCHANGED <<screen, going, panel, job, asks, curtain, game, accounts, presses>>

TakeAccountResults ==
    /\ at = "results" /\ On
    /\ IF signing = "sent" THEN StartLeaving /\ signing' = "no"
       ELSE /\ signing' = IF signing = "left" THEN "asking" ELSE signing
            /\ UNCHANGED <<leaving, panel, curtain>>
    /\ UNCHANGED <<screen, going, job, asks, game, who, switching, presses>>

ForgetLaunchAsks == picked' = None /\ nextDisc' = None
Put(stage)       == job' = [job EXCEPT !.stage = stage]

TakeFailedJob ==
    /\ at = "launch" /\ On /\ job.stage = "Failed"
    /\ Put("Idle") /\ ForgetLaunchAsks
    /\ IF job.play /\ ~job.cancel /\ job.startedOn = screen.kind
       THEN RefuseLaunch(job.game)
       ELSE UNCHANGED <<going, curtain>>
    /\ UNCHANGED <<screen, panel, relaunch, game, accounts, presses>>

MovedOn == job.play /\ job.startedOn # screen.kind

\* A launch given up that leaves the curtain where it is.
TakeQuietly_Late ==
    /\ at = "launch" /\ On /\ job.stage = "Ready" /\ (MovedOn \/ ~job.play)
    /\ Put("Idle") /\ ForgetLaunchAsks
    /\ UNCHANGED curtain
    /\ UNCHANGED <<screen, going, panel, relaunch, game, accounts, presses>>

\* A landed download, and a launch the person walked away from.
TakeQuietly ==
    /\ at = "launch" /\ On /\ job.stage = "Ready" /\ (MovedOn \/ ~job.play)
    /\ Put("Idle") /\ ForgetLaunchAsks
    /\ curtain' = IF job.lowered THEN Lift ELSE curtain
    /\ UNCHANGED <<screen, going, panel, relaunch, game, accounts, presses>>

LowerForLaunch ==
    /\ at = "launch" /\ On /\ job.stage = "Ready" /\ job.play /\ ~MovedOn /\ ~Down
    /\ job' = [job EXCEPT !.lowered = TRUE] /\ curtain' = Lower
    /\ UNCHANGED <<screen, going, panel, asks, game, accounts, presses>>

Starts == at = "launch" /\ On /\ job.stage = "Ready" /\ job.play /\ ~MovedOn /\ Down

Session == [game |-> job.game, person |-> who, saves |-> job.saves]

StartStandalone ==
    /\ Starts /\ job.game \in Programs
    /\ Put("Idle") /\ ForgetLaunchAsks
    /\ \/ /\ program' = Session /\ paused' = FALSE
          /\ curtain' = [to |-> 0, value |-> 0]
          /\ UNCHANGED going
       \/ RefuseLaunch(job.game) /\ UNCHANGED <<program, paused>>
    /\ UNCHANGED <<screen, panel, relaunch, playing, booted, exitPending, accounts, presses>>

\* The stages of pumpLaunch that load the game, to its first frame or a refusal.
LoadGame ==
    /\ Starts /\ job.game \notin Programs
    /\ Put("Idle")
    /\ \/ /\ playing' = Session /\ booted' = FALSE
          /\ nextDisc' = None /\ curtain' = Lift
          /\ UNCHANGED <<going, picked>>
       \/ ForgetLaunchAsks /\ RefuseLaunch(job.game) /\ UNCHANGED <<playing, booted>>
    /\ UNCHANGED <<screen, panel, relaunch, exitPending, program, paused, accounts, presses>>

PumpLaunch ==
    \/ TakeFailedJob \/ TakeQuietly \/ LowerForLaunch \/ StartStandalone \/ LoadGame
    \/ /\ at = "launch" /\ On /\ ~Waiting
       /\ UNCHANGED <<screen, going, panel, job, asks, curtain, game, accounts, presses>>

\* The curtain on its way down, the two frames with the name, the name's hold.
SwitchWaits ==
    /\ at = "switch" /\ On
    /\ curtain' = IF switching = NoSwitch THEN curtain ELSE Lower
    /\ UNCHANGED <<screen, going, panel, job, asks, game, accounts, presses>>

\* switchAccount: uploads, the library or the server may refuse it, a game always.
SwitchAccount ==
    /\ at = "switch" /\ On /\ switching # NoSwitch /\ ~switching.done /\ Down
    /\ \E ok \in BOOLEAN :
          /\ ok => ~InGame
          /\ switching' = [switching EXCEPT !.done = TRUE, !.ok = ok]
          /\ who' = IF ok THEN switching.to ELSE who
          /\ screen' = IF ok THEN Home ELSE screen
    /\ curtain' = Lower
    /\ UNCHANGED <<going, panel, job, asks, game, signing, leaving, presses>>

\* A switch that lifts the curtain only onto its refusal.
SwitchEnds_Dark ==
    /\ at = "switch" /\ On /\ switching.done /\ Down
    /\ switching' = NoSwitch
    /\ panel' = (panel \/ ~switching.ok)
    /\ curtain' = IF switching.ok THEN Lower ELSE Lift
    /\ UNCHANGED <<screen, going, job, asks, game, who, signing, leaving, presses>>

SwitchEnds ==
    /\ at = "switch" /\ On /\ switching.done /\ Down
    /\ switching' = NoSwitch
    /\ panel' = (panel \/ ~switching.ok)
    /\ curtain' = Lift
    /\ UNCHANGED <<screen, going, job, asks, game, who, signing, leaving, presses>>

\* Uploads first, at most twenty seconds, and long enough to read.
LeaveWaits ==
    /\ at = "leave" /\ On
    /\ curtain' = IF leaving THEN Lower ELSE curtain
    /\ UNCHANGED <<screen, going, panel, job, asks, game, accounts, presses>>

\* The sign out is written and the program starts again.
LeaveEnds ==
    /\ at = "leave" /\ leaving /\ Down /\ at' = "gone"
    /\ UNCHANGED <<screen, going, panel, job, asks, curtain, game, accounts, presses>>

LeaveFails ==
    /\ at = "leave" /\ On /\ leaving /\ Down
    /\ leaving' = FALSE /\ curtain' = Lift
    /\ UNCHANGED <<screen, going, panel, job, asks, game, who, switching, signing, presses>>

\* A quit taken while the core was booting: once it is up, or after 15 s.
PumpExit ==
    /\ at = "exit" /\ On
    /\ \/ exitPending /\ InGame /\ FinishExit
       \/ ~(exitPending /\ booted) /\ UNCHANGED <<playing, booted, exitPending, picked, curtain>>
    /\ UNCHANGED <<screen, going, panel, job, nextDisc, relaunch, program, paused,
                   accounts, presses>>

\* The state or the Resume the press asked for, on the game's first frame.
LoadPendingStates ==
    /\ at = "states" /\ On
    /\ picked' = IF InGame /\ booted THEN None ELSE picked
    /\ UNCHANGED <<screen, going, panel, job, nextDisc, relaunch, curtain, game,
                   accounts, presses>>

\* Start over: the game again once it has gone, where the person now is.
PumpDiscChange ==
    /\ at = "discs" /\ On
    /\ IF relaunch = None \/ InGame \/ exitPending \/ Busy
       THEN UNCHANGED <<going, job, asks, curtain>>
       ELSE /\ relaunch' = None /\ UNCHANGED picked
            /\ \/ LaunchById(relaunch)
                  /\ nextDisc' = IF Counts(relaunch) THEN nextDisc ELSE None
               \/ WillNotLoad(relaunch) /\ nextDisc' = None
    /\ UNCHANGED <<screen, panel, game, accounts, presses>>

\* The curtain's tick, and the screen asked for.
FrameEnds ==
    /\ at = "end" /\ On
    /\ curtain' = [curtain EXCEPT !.value = IF curtain.to > @ THEN @ + 1
                                            ELSE IF curtain.to < @ THEN @ - 1 ELSE @]
    /\ screen' = IF going = None THEN screen ELSE going
    /\ going' = None
    /\ UNCHANGED <<panel, job, asks, game, accounts, presses>>

-----------------------------------------------------------------------------
Press ==
    \/ \E g \in Games : PressPlay(g) \/ PressResume(g) \/ PressState(g) \/ PressDownload(g)
    \/ \E s \in Screens : Go(s)
    \/ \E p \in People : PressSwitchAccount(p)
    \/ PressStopDownload \/ OpenPanel \/ ClosePanel
    \/ StartSignOut \/ \E go \in BOOLEAN : AnswerSignOut(go)
    \/ PressExit \/ StartOverOnDisc \/ PauseProgram \/ FinishStandalone

Beside == WorkerReady \/ WorkerFails \/ CoreBoots \/ SignOutSent

Frame ==
    \/ FrameBegins \/ TakeAccountResults \/ PumpLaunch
    \/ SwitchWaits \/ SwitchAccount \/ SwitchEnds
    \/ LeaveWaits \/ LeaveEnds \/ LeaveFails
    \/ PumpExit \/ LoadPendingStates \/ PumpDiscChange \/ FrameEnds

Next == Press \/ Beside \/ Frame

\* The loop never stops; a switch's and a leaving's clocks run out.
Fairness ==
    /\ WF_vars(Frame)
    /\ SF_vars(SwitchAccount) /\ SF_vars(SwitchEnds)
    /\ SF_vars(LeaveEnds \/ LeaveFails)

Spec == Init /\ [][Next]_vars /\ Fairness

-----------------------------------------------------------------------------
(* Properties. *)

\* Every variable holds what its declaration says.
TypeOK ==
    /\ at \in {Order[n] : n \in 1 .. 9} \cup {"gone"}
    /\ screen \in Screens /\ going \in Screens \cup {None} /\ panel \in BOOLEAN
    /\ job.stage \in {"Idle", "Busy", "Ready", "Failed"}
    /\ job.stage # "Idle" => job.game \in Games /\ job.saves \in People
    /\ {picked, nextDisc, relaunch} \subseteq Games \cup {None}
    /\ curtain \in [to : {0, 2}, value : 0 .. 2]
    /\ Running => program.game \in Programs
    /\ InGame => playing.game \in Games \ Programs
    /\ exitPending => InGame
    /\ paused => Running
    /\ who \in People /\ switching.to \in People \cup {None}
    /\ signing \in {"no", "sending", "sent", "left", "asking"} /\ leaving \in BOOLEAN

\* What a press asked for belongs to a launch of its own game, from the press to
\* its first frame: it is never left for another (forgetLaunchAsks; #398, #484).
AsksGoWithTheirLaunch ==
    /\ picked # None =>
          \/ InGame /\ playing.game = picked
          \/ job.stage # "Idle" /\ job.game = picked
    /\ nextDisc # None =>
          \/ relaunch = nextDisc
          \/ job.stage # "Idle" /\ job.game = nextDisc

\* The curtain is never on its way down, or down, for nobody: a game about to
\* start, a switch or a sign out has it (takeFinishedJob, pumpSwitch; #85, #472).
CurtainHasAnOwner ==
    curtain.to = 2 =>
        \/ job.stage = "Ready" /\ job.play
        \/ switching # NoSwitch \/ leaving

\* Never two games at once: no core starts over an emulator of its own, or it
\* over a core (launchById, inputOwner; seen 2026-10-29).
OneGame == ~(InGame /\ Running)

\* The screen is never black for good: it comes back, the program starts again,
\* or an emulator of its own has the screen (#85).
ScreenComesBack == curtain.to = 2 ~> curtain.value = 0 \/ at = "gone" \/ (Running /\ ~paused)

\* This person's saves, for this game (launch.cpp, prepareSaveDirAndDiscs).
PlayersOwnSaves ==
    \A s \in {playing, program} \ {NoGame} : s.saves = s.person
=============================================================================
