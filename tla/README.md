# CabinetOS: models and proofs

CabinetOS is a console that plays the games of a RomM server. Its frontend
(`src/frontend/src`, C++) is one process with a frame thread and a few workers; what a person could
lose by a fault of it is a save, and next to that a game they keep, their favourites, their play time
and their login. The modules here are about what the console owes the server, what it keeps of the
server, which save a game starts from, what may be deleted, where going back in a game leads, and what
the television shows next.

Run `tlc -config X.cfg M` for a run and `tlapm M.tla` for a proof. `PROJECT.json` lists the runs,
the lines each definition models, the mutants that each property must catch, the findings, the
hazards and the theorems.

## Inventory

| part | state | operations | makes it correct |
|---|---|---|---|
| upload queue (`uploader.*`) | `queue_`, `queued_`, `pending_`, `refused_`, `failed_`, `owing_`, one worker thread | `push`, `enqueue`, `run`, `finished`, `rotate`, `resendOwedFor`, `shutdown` | goes up under the right login; nothing owed is forgotten; sent in the end; a quit ends |
| markers (`pending.*`) | a file for each save owed | `markPending`, `clearPending`, `owed`, `isPending` | a marker before the window opens, none removed for another save; one that cannot be written is only logged |
| saves (`saves.*`) | the save files, `SaveFetch` | `fetchSaves`, `restore*`, `sync*` | a game never starts from an older save |
| mirror (`savemirror.*`) | `saves.json` and bytes for each game, marks | `putList`, `putBytes`, `mark`, `forgottenSince`, `forget` | never older than what the console sent |
| favourites (`favorites.*`) | the list, what is owed, in two files renamed unsynced; parked | `pressFavorite`, `keepFavorites`, `sendFavoritesAs` | a press is sent, and wins over a list read before it |
| play time (`playtime.*`) | the session open, sessions owed, known totals | `checkpoint`, `close`, `recover`, `sent`, `remember` | each session counted once |
| offline (`offline_sync.*`, `romm_http.*`) | `serverAway`, Home's source, reconnect and backfill threads | `followServer`, `retryOwedUploads`, `startReconnect`, `backfillDrive` | each edge acted on once; the backfill never undoes an upload |
| accounts (`accounts.*`, `accountsflow.*`, `accountremove.*`, `server.cpp`) | the book of accounts, tokens, folders, the person signed in, first run's marker | switch, pair, colour, remove, sign out | nobody listed without a login; a removal can be asked again; nothing marked unsent deleted unasked; a sign out leaves only what it cannot delete |
| launch (`launch*.cpp`, `play.cpp`, `discs.cpp`) | `LaunchJob` and its stages, a worker, what a press asked for, the curtain | press, join, cancel, take, leave, Start over | one job, never replaced once ready; one game; the screen comes back |
| emulators as programs (`standalone*.cpp`, `startup.cpp`) | the drive's saves, a note beside them, folders and zips | `beforeStart`, `afterEnd`, `finished`, `recoverDriveSaves` | the save made last is sent, and to the person it is of |
| cache (`cache.*`, `locations.*`, `downloadsflow.cpp`) | placements, keep records | `keep`, `unkeep`, `dedupe`, eviction | a kept game is never evicted; the last release lets it go |
| gone games (`gonegames.*`) | what RomM answers 404 for, once a start | `decide`, `thisStart`, `removeCopy`, `removeSaves` | gone for everyone here, nothing in use, nothing untried deleted |
| going back (`rewind.*`, `pace.cpp`, `states.cpp`, `discs.cpp`) | `snaps_`, a generation, the snapshot being compressed, the state being fetched, the disc | `offer`, `takeNewest`, `reset`, `run`, Load latest state, Insert | a step back stays in this game, after what was loaded, with the disc that is in |
| players (`players.*`, `controllers.cpp`) | seats of the console's pads and of a stream's | `add`, `remove`, `swap`, `setInGame`, `setStreaming` | nobody's number changes in a game, and who comes back has theirs |
| leaving (`curtain.cpp`, `power_menu.cpp`, `startup.cpp`) | waits of 20 and 25 s, the drain at exit | `pumpLeave`, `waitForUploadsToPowerDown`, `shutDown` | what is cut off is still known to be owed |
| file writes (`fileio.*`) | a temporary beside each file | `writeBytes` | the old file or the new one after a power cut |

How they meet. The frame thread writes a save, marks it and queues it (`syncSave`, `Uploader::push`);
the uploader's worker sends it, removes its marker, forgets the mirror of the game and fills it
again (`refreshSaveCopy`). Favourites and play time are jobs of the same queue. The launch worker
fetches the game, RomM's rows and bytes behind the loading screen, and the frame thread decides, once
the curtain is down, whether they may replace the console's save. In a game the frame thread hands
snapshots to rewind's worker, and a third worker fetches the state that Load latest state asks for. The backfill refills the mirror in
the background and, after it, removes the games RomM no longer has. `serverAway` is written by every
request (`noteTransport`) and followed by the frame thread. An account switch changes whose login
every later request carries, and so is refused while the uploader counts anything; it is not refused
while a launch is fetching.

How they write. Saves, states, markers, the mirror's bytes, the book, tokens and play time go through
`writeBytes`, a temporary that is synced and then renamed. Favourites' two files (`favorites.cpp:53-60`
and `73-82`), the mirror's list (`savemirror.cpp`), `rememberGame`'s record (`cache.cpp`), the notes of
emulators (`standalone.cpp`, `writeFile`) and the copies off an Xbox drive (`xboxhdd.cpp`, `copyOut`) are
renamed unsynced; a folder unzipped in place and the saves put on the drive are synced by nobody. Few callers look at
what a write returned: a marker, a zip or a list of favourites that cannot be written is logged or
passed over, and the program goes on.

Hard behaviours: the queue's two threads and the login they share; a save made while an older one of
it is on its way; an answer that is lost; a power cut between two file operations; three fetches that
write the mirror beside the upload that forgets it; resends that must neither stop nor feed
themselves; the pairing thread in the book beside the frame; a question asked once and acted on much
later (`inUse`, the 404s, the person at the press); one curtain for three errands. `PROJECT.json` has
them one by one, each at its line, with the properties that watch it.

## Modules

| module | models | state and steps |
|---|---|---|
| UploadQueue | the queue, markers, resends, rotation of states, the switch, start and end of the process | the frame thread at `fpc`, the worker at `wpc`; a step is one critical section, one file operation or one request, so a rotation is a listing, a deletion, its answer and the copies here; `lapsed` records how the console came not to know that it owes a save: a marker that could not be written, one taken off for an older save, bytes that landed late, a rotation whose answer was lost or was cut off, a power cut before the marker |
| SaveLedger | what the console knows of what it owes, without threads, queues or requests | an entry is written, marked or not (`Unmarked`) or recorded, lands, is settled or lapses; RomM drops it, and only then is it erased here; a cut takes what is not marked, and may take what is recorded unsynced (`Frail`). UploadQueue and SaveRestore each implement it |
| SaveRestore | one game of one person: launch worker (`lpc`), restore (`rpc`), landing (`upc`), backfill (`bpc`), other devices | saves are numbered as they were made; a save is written (`WriteSave`) and marked later (`PushSave`, `pushing` between); a mark of `savemirror` is a member of `marks` until a forget passes it; `landing`, `oldCopy`, `forgot` name the windows the code leaves open |
| PlayTime | the clock, checkpoints, the record, the worker, a game's page | each operation on the record is a step, as it holds one lock; a total is the bag of its sessions; `drift` names the games whose total a fetch raced with the worker |
| Favourites | the list in Home's order, what is owed, the worker, the library's load | steps under `gFavMutex`; games by their ids (`Ids`), which the worker sends by, and by their titles (`Titles`), which RomM lists by; either write of a press may fail, and a power cut may part them or empty either file (`torn`, the list; `lost`, the record of the press); `overtaken`, `elsewhere` |
| Lists | what of a list stays when some of it is erased | `Chosen`, a recursive function, where the community modules' definition is one the provers cannot open |
| Accounts | the book, logins, folders, the pairing thread, switch, removal, sign out, the start that goes on with it | reading and writing the book are two steps, and so are a save and its marker; `crossed` says that two threads were in the book at once, `unmarked` whose save has no marker, `stuck` what a sign out could not delete |
| FileWrite, OneWrite | `writeBytes` block by block with full disks and power cuts; the one step it promises | inodes and the names of them, in memory and on the disk |
| Keeps | who keeps which game, where its copies are, the job that fetches it, Remove download, the sweep, a drive that is away | a slot is a drive and a half of it; `find`, `dedupe`, `relocate`, which may fail, and `evict` are operators on the disk; `crossed` is a failed download after a switch |
| GoneSaves | a game RomM no longer has: who was asked, its copy and everyone's saves | the backfill is at `fill`; `since` and `begun` name whom the answer is not of, and a launch under the removal |
| Launch | the frame loop's pumps in their order, what a press asked for, the curtain, a core or a program, switch and sign out | a frame is a pass of `at` over `Order`; clocks are choices, fair where they are sure to run out |
| Rewind | snapshots, the worker that compresses them, states that load from RomM or at once from the console, discs, the end of a game and the next | play is a set of half seconds, each of a game and with a number; a snapshot is that set and a disc; `late`, `swapped` name what the code keeps |
| Pads | seats, pads on and off, games, streams, the question for a number | a seat has a pad in it or is held for one; `had` is the number a pad that went off is to have again |
| DriveSaves | the saves of an emulator run as a program, its notes, the three recoveries, the zip and its marker | the frame thread at `pc`, for the `task` of a start, a launch or a game's end; `job` is a zip queued with no marker, `loose` what the disk has not committed (copies, notes, the drive); `lapsed` and `mixed` name what is lost or mixed |

The names of actions are those of the functions, or say which part of one they are. Each module keeps
a data abstraction: no bytes, no names, no JSON; a file's content is the number of the save it holds.
Except in FileWrite, a write of a file is one step, which HomeProofs shows it to be of `writeBytes`. Whether
it succeeds is a choice wherever something hangs on it; a rename the disk had not committed when the power
went is taken as a cut before the write. After a cut an unsynced file is as it was last written, or
empty. PlayTime alone takes every write to succeed (`playtime.cpp:175` only logs): its properties are
about cuts and lost answers. The mirror's list comes back empty as no list at all. What an emulator
writes is taken to be on the disk.

How the modules divide what they share. UploadQueue sees favourites and play time as lists with a
count of presses; Favourites and PlayTime have what those jobs do. Keeps has the copies of games and
GoneSaves the saves of one; Launch has only whose saves a job asked for, Keeps where it puts the game
and SaveRestore what it fetches. DriveSaves' zip is what SaveRestore's save file is. UploadQueue has all
files and no mirror, SaveRestore one save and everything around it; what they share is SaveLedger, and
that both implement it says that they tell the same story of a save, its marker and its landing.

MCUploadQueue, MCSaveRestore, MCRewind and MCPads state comments and documents that the code does not
keep. MCQueues puts UploadQueue, DriveSaves, Rewind and Pads in one instance, MCHome PlayTime,
Favourites, Accounts and FileWrite, MCGames Keeps and GoneSaves: the parts share nothing, so a
behaviour is of one part (`part`) while the others stand still. MCQueues has DriveSaves for the people cat
and dan, MCHome Accounts for ann, bob and cat, through their proof modules: the theorems there are for any
people, and are cited of the instance. UploadQueue is two of those parts
under two bounds: two people's saves without an outage after the start (`PeopleBounds`), and one
person's states in a single run (`StatesBounds`). `DriveBounds` has the disk commit all that is loose between two games,
and what came off the drive before a game is put together, and takes a drive away or removes a person only while a note is on the drive. `BookBounds` has at most one save
without its marker, or one thing that a sign out cannot delete; in Queue_sent a press of a heart is one the
disk took (`PressIsWritten`); favourites start with RomM having none, one or two of the three games. The properties of a part are checked in all of its
behaviours, and the number of states is the sum of the parts'.

History variables name every exception of a property. Each is a behaviour of the code, set by the step
that causes it, and the property allows that and nothing else; the mutants show that it still forbids.

## Runs

| run | instance | shows |
|---|---|---|
| Queue_all: people | 2 people, 1 save file with 2 saves, 1 restart | types, `SentAsOwner`, `OwedKnown`, the inductive invariant, `LedgerKept`: UploadQueue implements SaveLedger |
| Queue_all: states | 3 states (one made elsewhere), 1 kept, 1 outage | `RotationKeeps`, and `LedgerKept` of what is dropped |
| Queue_all: drive | 2 people, 2 saves, 2 power cuts or failures | `Accounted`, `WholeGoesUp` |
| Queue_all: rewind | 2 games, 2 discs, 3 half seconds, 2 snapshots kept, 2 turns | `RewindsBack` |
| Queue_all: pads | 3 seats; 4 pads of the console's, one without a key; 1 of a stream | `NumbersHold` |
| Queue_sent | 1 person; a save and a list with 1 restart and 1 outage, or 2 states with 1 kept; fair | `OwedIsSent`, `DrainEnds` |
| Restore_fresh | each of the three kinds of save, 2 saves | types, `MirrorFresh`, `StartsFromNewest` |
| Home_all: play time | 1 game, a minute of 2 units, 2 sessions of up to 4, batches of 1, 1 crash | `NoneLost`, `EndsOnce`, `CutLosesAMinute`, `KnownExact` |
| Home_all: favourites | 3 games, 2 presses, 1 change elsewhere, 1 power cut | `OwedIsShown`, `RommHeardLast`, `ListShowsLast`, `OrderKept` |
| Home_all: accounts | 3 people, two listed; 2 saves, 1 pairing, 3 presses, 1 power cut | `LoginsStand`, `FoldersListed`, `SignedOutIsEmpty`, `RemoveAsks` |
| Home_all: file | 2 writers in turn, 2 blocks, 3 writes, 2 power cuts | `WritesAtOnce`: FileWrite implements OneWrite |
| Games_all: keeps | 2 people, 2 games, 2 drives, 2 jobs, 3 events | `KeptCopyStays`, `OneCopy`, `FailedIsNoPromise` |
| Games_all: gone | 2 people, 1 change, 1 save, 2 backfills, 1 restart | `GoneToEveryone`, `TriedFirst` |
| Launch_all | 2 people, a game of a core and one of a program, 4 presses, fair | `AsksGoWithTheirLaunch`, `CurtainHasAnOwner`, `OneGame`, `ScreenComesBack` |
| Queue_marker_lost | 2 saves of a file | violated: `NothingForgotten` |
| Restore_window | a battery, 2 saves | violated: `ConsoleCopyStands` |
| Launch_saves | as Launch_all | violated: `PlayersOwnSaves` |
| Files_together | 2 writers at once, 2 blocks | violated: `WritesAtOnce` |
| State_of_game | rewind as in Queue_all, 3 turns | violated: `StateOfThisGame` |
| Pads_question | pads as in Queue_all | violated: `MakesThatPlayer` |

Why these bounds are enough. Two people are one switch; a third would only be switched to in the same
way; in Accounts the third is one who is paired while two are listed. Two saves of a file are the one
going up and the newer. One restart puts everything back to the disk, and everything a second could
begin from is a state the first begins from; DriveSaves has two because its recovery is itself
cut, or fails: one in the game, one in the copy off the drive or between the copy and the marker. With one state kept,
three states are one too many twice; the one of another device may be listed before or after the
console's own. Four units of play are two minutes, the least that has a checkpoint to fall back on.
Two presses of a heart are one and its opposite under a sending; three games are enough for one to
move and two to stay in order. Two drives with two halves each are all the slots that `findAll` ranks
differently. Four presses are one launch, one that meets it, one against either and one more. Two
blocks are a file that can be half written. Three half seconds are a snapshot kept, one being
compressed and the play after them, in either of two games; two turns are a game and a state asked
for in it, a disc, or the next game, and three a state asked for in one and loaded in the other. Three
seats and four pads are one pad too many, which is when a seat held for one pad is given to another;
the code's four seats would add one pad of the same kind. Every bound is a constant named in its
module and stands in the guards of the actions that count, or is a named bound of the MC module.

What the violated runs say. Each quotes the comment it holds against the code in `PROJECT.json`.
`Queue_marker_lost` loses a newer save from what is owed when two of a file follow each other faster
than the server answers. `Restore_window` is the gap between removing the marker and forgetting the
mirror. `Launch_saves` starts a game as the person switched to with the rows fetched for the person
who pressed. `Files_together` shares one temporary between two threads.
`State_of_game` loads the answer to a press in one game into the game that is up when it comes.
`Pads_question` swaps the numbers that a question was opened with after pads have come and gone.

What else the models show, without a run of its own:

- Four saves of a file close together can go up in the wrong order: `finished` erases the key with a
  second job still queued, and `enqueue` then replaces the bytes of the first job waiting
  (`OwedKnown` names it in `lapsed`, added by `Deliver`).
- A process that ends between the marker and the forget leaves an old mirror (`oldCopy`).
- A heart pressed while the favourites job is in flight waits for something else to be queued.
- `switchAccount` resends nothing that the new person owes from an earlier run: with two people
  `OwedIsSent` does not hold.
- A pairing under another book operation can leave somebody listed with no login, or a person out of
  the list (`crossed`).
- `finishSignOut` goes on when a delete fails, and says cleared with folders, logins or the book left (`stuck`).
- A save with no marker, as its write failed or the power went before it, is restored over by RomM's older one (`forgot`),
  deleted unasked with its person (`unmarked`), or goes with a game RomM no longer has.
- A rotation whose answer is lost, or which is cut off, leaves a state here that RomM has not and nothing owes (`lapsed`).
- A favourites list that a cut emptied shows no hearts until the next load, and a record that it emptied forgets presses
  (`torn`, `lost`); a note that it emptied names nobody, and is taken off with the saves still on the drive (`lapsed`).
- A launch asks for an interrupted save of the person's folder before it recovers the drive's
  (`DriveSaves`: a launch's `interrupted` comes before `drive`, a start's after).
- A folder is unzipped in place: a cut there leaves a mixture (`mixed`), as does a failed copy.
- A snapshot still being compressed at a step back is kept behind the one taken: a later step goes
  forward once, into play that was rewound away (`late` in Rewind).
- A state that is refused after its disc was put in leaves that disc in the drive, and the snapshots of
  the disc before it are kept (`swapped`).
- Outside a game a pad that found every seat taken stays without one when a seat is free again.
- A removal that is sending an older save may take the marker off a newer one made meanwhile.

## Fairness

`LocalFairness` (UploadQueue; Queue_sent's `SentSpec` adds a bound on what is made, which forbids no
step this fairness asks for): the frame loop goes on with what it has begun, the worker's thread runs,
and a process told to quit ends when the queue is empty. These are threads that nothing in the code
stops; each request has a timeout, so the worker always gets some answer or none. `OwedIsSent` says
the rest as its premise, `OutagesEnd`: an outage ends, the reconnect thread notices, the frame loop
follows the edge and somebody comes back to Home, where the library is adopted. Neither says that RomM
takes an upload: a refusal is always open to it, and server errors are counted with the outages.

`Launch!Fairness`: the frame loop goes on, whatever its frame has to do; and what a switch or a
leaving waits for comes, as each has a clock or a time-out that runs out. These are strong because the
frame passes the pump once a frame, so that it is enabled again and again. Nothing is assumed of the
player, of the job's worker or of a core's boot: a launch that never gets ready keeps no curtain down.

The other modules state safety only.

## Proofs

QueuesProofs, the queue. For any people, files, lists and bounds that satisfy `ConstAssumption`:

- `TypeCorrect`: `Spec => []TypeOK`. The proof carries `RotatesStates` along with the types, because
  the worker uses one variable (`wtodo`) for what it resends and for what a rotation deletes.
- `Invariant`: `Spec => []IndInv`, with a lemma for each conjunct and in it a step for each action that touches it.
- `SentAsOwnerHolds` and `OwedKnownHolds`: the two safety properties, which follow from `IndInv`.
- `QueueKeepsTheLedger`: `Spec => LedgerKept`, the refinement of SaveLedger, and `LedgerKnows`: whatever
  keeps the ledger knows of every save RomM does not have, but of what has lapsed.
- `RotationKeepsNewest`: `Spec => RotationKeeps`, an action property.

No property is inductive by itself, and each part of `IndInv` is there for a step that needs it:

- `Counted` (`pending` is the queue and the job in flight) makes the switch's one question mean what
  it must: a count of zero is an empty queue and an idle worker. It holds because the job is counted
  off after the worker's own resends, last of all.
- `AllOfCurrent` (what waits, is in flight or is being pushed is the signed-in person's) then survives
  the switch, and every step that queues a job takes its person from `current` or from a job that is
  already theirs. It is what `SentAsOwner` follows from, and what makes `Deliver`, which writes with
  the login of `current`, write to the row of the job's owner.
- `Landed` (what was sent is on RomM until its marker goes) is why a marker taken off leaves RomM with
  the newest save, or else the bytes were stale, which `lapsed` records.
- `MadeElsewhere` and `RotatesStates` keep a rotation away from anything but states, and the states of other
  devices out of what the console has made; `ErasesWhatWent` has a local copy go only once RomM has it no more.
- `QuietExit` says that the frame is not between a write and its marker when a drained process ends.
- `OwedKnown` is the conclusion: the steps that can break the link between a newer file and its marker
  (`MarkFails`, `ClearOwed`, `Deliver`, `RotateDelete`, `Crash`) are those that add to `lapsed`.

The ledger. A step of the queue is a `Write` (`WriteFile`), `Mark` (`MarkPending`), `Unmarked` (`MarkFails`), `Record`
(`Press`), `Land` (`Deliver`, a state of another device), `Settle` (`ClearOwed`), `Drop` (`RotateDelete`, RomM's side of a
rotation), `Erase` (`RotateErase`, this side of it, once the answer has come) or `Cut` (`Crash`), or changes nothing the
ledger has. That `Land`, `Settle` and `Drop` leave nothing unknown is the ledger's guard, and what has to be shown of
the code: it follows from `OwedKnown` in the state after the step.

The rotation. `Ordered` says that the order RomM has updated a person's states in (`older`) is a total
order on those there: an upload puts its state last (`OrderedUpdated`), a deletion takes some out (`TakeOut`).
Of a finite set in such an order, each element that is not among the last n has n of those after it
(`LastOnesStay`). So what a listing dooms has `Kept` newer states that stay, and `DoomedOld` carries that
over the gap to the deleting: another device's state comes in after everything, and the
one just sent is not to go. `SendsBytes` (an upload of a file has bytes) is why a state that was sent is there.

`ConstAssumption` says only that the kinds of item are disjoint, that `Kept` and `MaxVer` are positive
and that the bounds are numbers: People, Saves, States and Lists may be any sets, infinite ones too.

QueuesProofs, the players. For any pads, seats and keys that satisfy `PadsAssumption`: `PadsInvariant` and
`NumbersStandInAGame` (`NumbersHold`). `PadsInv` says that the seats are of their kind and that a pad has one of them
(`SeatsOk`; one that is not known again may have left seats held), that outside a game no seat is held
(`Settled`), and that the number a pad that went off is to have again is that of the seat held for it (`Had`).
`AddMoves` and `RemoveMoves` say of one pad coming or going what becomes of the number of every other.

QueuesProofs, going back. For any games, discs and bounds that satisfy `RewindAssumption`: `RewindInvariant` and
`BackIsWhereItWas` (`RewindsBack`). `Chain`: each snapshot was before the next and the last before where the
machine is, but for what was being compressed at a step back (`Been`); the worker's snapshot comes after
them all, if it is of this generation and will be kept (`Current`). `DiscIn`: they are of the disc that is in,
unless a refused state has swapped it. `Dated`: no snapshot or state has been through play that is yet to
come, so that what is played from now on is in none of them. `NoGame`: with no game up there is nothing to step back to, nor coming.
A state on the console loads at once, perhaps in the frame of a step back, and drops the snapshots after it
(`StateAtOnce`); the property is of steps back alone, and the invariant holds over that frame too.

HomeProofs, files. For any set of writers, any number of blocks and of writes and faults, with one
writer at a time (`Together = FALSE`):

- `FileStaysWhole`: `Spec => []Sound`. The file's name, and the one the disk may bring back, are of an
  inode that is whole and synced. For that to be inductive, `Sound` also has that the temporary is
  neither of the two (`Apart`), that no name is of an inode not yet made (`Named`), that the one
  writer at work has the temporary open (`Alone`, `Open`), and how far it is: past `fsync`, the
  temporary is whole and synced too, which is what `Rename` needs.
- `WriteIsOneStep`: `Spec => WritesAtOnce`, the refinement of OneWrite. A rename is its `Put`, the
  file system's commit its `Commit`, a power cut its `Cut`; every other step stutters, as it touches
  only an inode that neither name is of.

HomeProofs, play time. For any games, minute, batch and bounds that satisfy `PlayAssumption`: `NoSessionIsLost`,
`SessionsEndOnce`, `ACutTakesAMinute` and `KnownTotalIsExact`, which are the four properties Home_all
checks. They hold together, because two threads rewrite one record and each relies on what the other
leaves: `Starting` (one session is played and one written as open, and no ended session has the start of
either) is what tells a session that is recovered from one that has ended; `Sending` (the worker's list,
batch and answer are of what is still owed) is why `Sent`, which rewrites the record after a request,
drops nothing that ended meanwhile; `Paced`, `Checked` and `ToRecover` carry what a checkpoint promises
from the clock over the cut to the start that recovers it. A total is a bag, so the lemmas on totals
count the sessions of one start (`CountedOnce`) before and after one is added.

HomeProofs, favourites. For any games, in any order of titles, and any bounds that satisfy
`FavouritesAssumption`: `PressesAreShown`, `RommHasTheLast`, `ListShowsTheLast` and, an action property,
`HomeKeepsItsOrder` (`OrderKept`). `LastIsOwed`: what is owed of a game is its last press,
but for the presses of which the record is gone (`lost`). `Hearing`: the
games the worker is at are still owed, if not always as it has them, and RomM has what is being
sent unless another device came in between; so `Answered`, which takes off just what was sent, leaves a press
made meanwhile. `Fetched`: what a load fetched is what was pressed last, but where a press is owed or was sent
since. What is said of the list is
said while no write of it has failed and no cut has emptied it (`torn`). What the list becomes at a press or a load is `PressedIs` and `KeptIs`, by ListsProofs and by joining
two lists without a game in common (`JoinedList`); that the others keep their order is `OrderOfTheRest`, as
what is chosen from a list keeps the order of it (`ChosenKeepsOrder`).

ListsProofs. What `Chosen` returns, for every sequence and every set (`ChosenIs`): the elements of the
sequence that are in the set, all of them, in their order. `Chosen` is a recursive function, and the
library's theorems of induction are out of reach here; the two inductions this takes are each by the
least number for which the claim would fail (`LeastOf`): first that there is a function with that
definition at all (`ChosenHas`), then what it returns.

SaveRestoreProofs. For any of the kinds of save and any number of saves (`ConstAssumption` of that
module): `MirrorIsFresh`, `GamesStartFromTheNewest`, an action property, and `RestoreKeepsTheLedger`, the refinement of
SaveLedger with the game's save as its one entry. The argument: once the
newest save has landed and nothing is owed, forgotten or still to be marked (`Settled`, `Landed`), RomM has nothing older, and whatever
is older on the console is dropped in one of three ways: a fetch under way has lost its mark
(`PutsNew`, `FetchFresh`), older bytes are unlinked (`BytesFresh`), or a restore's second look finds the fetch
stale (`SecondLook`). `Delivered` says that a row of the newest save is never listed before the save
was on RomM, and `OwnCopy` that the save on the console is the newest but after a start from an old copy.
`Told` is `Settled` but for the windows that `landing` and `oldCopy` name. A cut between the write and the marker, a
marker that cannot be written and one taken off for an older save are the three ways into `forgot`.

LaunchProofs. For any people, games and presses: `AsksAreForTheirLaunch`, `CurtainIsOwned` and
`OneGameAtATime`. `NoLaunchInGame` is the heart of it: nothing of a launch goes on while a game is up, as
the press, the pump that takes a job and the pump that ends a game all look at it first. `Owner` says who
has the curtain down at every point of the frame, and needs that a job which lowered it has not been
taken; the proof showed that the property holds at every point too, where it had been stated for the
end of the frame alone.

DriveSavesProofs. For any people, saves, cuts and failures that satisfy `DriveAssumption`:
`NewestIsFound` (`Accounted`) and `NoMixtureGoesUp` (`WholeGoesUp`); Queue_all checks both through the
instance `Drive`, and evaluates the assumption as `DriveNumbers`. The first rests on `Newer` (the
newest save is in its person's folder or, under the note, on the drive, and what RomM or the zip has is no newer than
that), on what each step of the recoveries has behind it (`Noting`, `Stages`, `Playing`), and on `Sent`:
where no note says there is something to send, it is sent or about to be. The second has an invariant of
its own, `WholeInv`, over who may have a folder half written (`Half`), as that is what a zip is made of. A
mixture takes an earlier save to mix with, unless a cut has emptied an uncommitted file, which is why `Numbered`
bounds what everything holds by what its person has made. What a cut does is three lemmas (`CutTakes`, `CutDrive`,
`CutFolders`), which say of each uncommitted copy, drive and note that it is as it was or that its person is in
`lapsed` or `mixed`.

GamesProofs, keeps. For any people, games, jobs and events that satisfy `KeepsAssumption`: `KeptCopiesStay`
and `OneCopyLeft`, action properties, and `FailedLeavesNoKeep`. The lemmas say what each operator of the
cache does with a disk, wherever its copies are: `FindIs` and `WinnerIs` choose a slot that has a copy,
a whole one if there is one, `RelocatedIs` puts it in another only if that is free (the move
may also fail, `MayMove`, and then it is where it was), `DedupedIs` leaves
the chosen copy alone. With them a step is a case of what it calls. `OneCopy` is no invariant: a
drive that was away comes back with a second copy, so it is stated of the step that launches, and follows
from `DedupedIs` alone. The invariant adds to the types that a job at work is somebody's and that the
sweep is at a game RomM was found not to have.

GamesProofs, gone games. For any people and bounds that satisfy `GoneAssumption`: `GoneOnlyToEveryone`
and `OnlyWhatWasTried`, action properties. The invariant follows an answer from the asking to the removal:
while the backfill asks, whoever is not still to be asked was answered 404 or came after (`Asking`), so
everybody was once the game is called gone (`AllAnswered`), and only then does anything wait to be removed
(`Removing`); nobody plays it under the removal, unless it was begun since `inUse` was asked (`NotInUse`), and
then what the queue sends for is still refused when it is deleted (`TriedOwn`).

AccountsProofs. For any people and bounds that satisfy `AccountsAssumption`: `LoginsStandAlways`,
`FoldersAreListed`, `SignOutLeavesNothing` and `RemovalAsks`; Home_all checks the four through the instance
`Book` and evaluates the assumption as `AccountNumbers`. The invariant has two halves. `Always` holds of every
state: how far a clearing has got (`Cleared`: `NoFolders`, `NoBook`, `NoLogins`), so that one resumed after any
number of cuts ends with nothing left but what could not be deleted (`stuck`; `Deletes` and `FoldersGo` say what
a deletion takes); that a removal's folder stays out until its person is (`FolderOut`); that nobody is switched
to while a save goes up. `Uncrossed` holds until the pairing thread and the frame thread have been in the
book at once: what a call has read of the book is still so (`Calling`), the console is the active person but
on the way back from a refused switch (`MeIs`), and `Owing`, which follows a save from being made to being
counted: a removal that found nothing left to send is of a person who is not playing, or whose frame has
not yet taken the answer (`NoneLeft`), so the folder it deletes unasked has only what RomM has, what was
made while an older save was sent (`passed`), or a save that has no marker (`unmarked`; between the write and
the marker it is in `Pushing`).

The parts together. Queue_all, Home_all and Games_all check specifications that put several parts side by
side. `PartsAre`, in QueuesProofs, HomeProofs and GamesProofs, says that a behaviour of the whole is one of each part, and
with it each theorem of a part is one of the very specification its run checks (`QueuesTypes`,
`QueuesUploads`, `HomeHearts`, `GamesGo` and the others named so). Every invariant and every action property of a
passing run is the conclusion of a theorem.

What proving showed of the models. Accounts let the resends of a renewed connection run in the middle of a
switch, which the frame thread cannot do, and took every entry of a person off the list where the code
erases the first; both are now as the code has them, and nobody is in the list twice because adding looks
first (`AddedIs`). DriveSaves' `Numbered` and Launch's `CurtainHasAnOwner` were weaker than what holds.
The invariants were each checked by TLC on the instances of the runs before they were proved.

Assumptions. Each module's names only what its constants must be: bounds are numbers (positive where the code
starts from one), the value for nobody is nobody, the kinds are the code's, ids grow and titles list the
same games once. People, games and files may be
any sets; TLC evaluates each on the run of its module, so some instance satisfies it.

Only model-checked: liveness (`OwedIsSent`, `DrainEnds`, `ScreenComesBack`), as the prover does not reach
fairness, and the runs that expect a violation, which are counterexamples.

## Not modelled

What a marker or a row says, the regions and the zips of saves, HTTP and JSON. How much room there is: eviction takes any copy it may.
`unkeep`'s record and its move are one step. Formatting and mounting drives, the settings written for
each emulator and the watching of its process, the library's load as steps, covers and manuals,
PlayStation's core, which puts a state's disc in itself, what a snapshot weighs (rewind drops any number
of the oldest), screens, images, the emulator hosts (C interfaces and GPU drivers), the maps of
buttons, network and Bluetooth set-up, achievements (vendored), updates and the image build are listed in `PROJECT.json` with the
reason for each. Much of the repository's code is of these: presentation, device input and output, and
interfaces to libraries, with no state that outlives a frame or that two threads share.

## Plan

Done: the queue and the restore, then play time, favourites, accounts, file writes, keeps, gone games,
the launch, the drive's saves, rewind and the players, the ledger that the queue and the restore share, and the proofs
of the invariants and action properties of all of them. Left, in this order:

1. The library's load and the person it is adopted for (`offline_sync.cpp`).
2. `unkeep` as two writes with a power cut between them.
3. A property of `refused_` alone: which save a refusal is of.
