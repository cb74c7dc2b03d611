------------------------------- MODULE MCHome -------------------------------
(***************************************************************************)
(* Small instances of four parts that share nothing: play time, favourites,*)
(* accounts and the writing of a file. A behaviour is of one of them, the  *)
(* part; the others stand still.                                           *)
(***************************************************************************)
EXTENDS PlayTime, TLC

CONSTANTS
    Ids, Titles, MaxPresses, MaxElsewhere, MaxCuts,   \* Favourites
    ann, bob, cat, Nobody, MaxSaves, MaxPairings, MaxAccountPresses,   \* Accounts
    Writers, Blocks, MaxWrites, MaxFileFaults   \* FileWrite

VARIABLES
    part,
    favList, favOwed, favRomm, favParked, favWpc, favTodo, favSending, favLpc,
    favFetched, favPresses, favChanges, favCuts, favWant, favElsewhere, favSentSince,
    favOvertaken, favTorn, favLost,
    accBook, accLogins, accFolders, accSave, accOwed, accMark, accRomm, accMe, accUp,
    accCall, accPairing, accJob, accAsk, accLeaving, accMade, accPairings, accPresses,
    accCuts, accCrossed, accAgreed, accPassed, accUnmarked, accStuck, accLost,
    fileInodes, fileFile, fileTemp, fileOnDisk, filePc, fileFd, fileWrites, fileFaults

favVars  == <<favList, favOwed, favRomm, favParked, favWpc, favTodo, favSending, favLpc,
              favFetched, favPresses, favChanges, favCuts, favWant, favElsewhere,
              favSentSince, favOvertaken, favTorn, favLost>>
accVars  == <<accBook, accLogins, accFolders, accSave, accOwed, accMark, accRomm, accMe,
              accUp, accCall, accPairing, accJob, accAsk, accLeaving, accMade,
              accPairings, accPresses, accCuts, accCrossed, accAgreed, accPassed,
              accUnmarked, accStuck, accLost>>
fileVars == <<fileInodes, fileFile, fileTemp, fileOnDisk, filePc, fileFd, fileWrites,
              fileFaults>>

Hearts == INSTANCE Favourites WITH
    list <- favList, owed <- favOwed, romm <- favRomm, parked <- favParked, wpc <-
    favWpc, todo <- favTodo, sending <- favSending, lpc <- favLpc, fetched <-
    favFetched, presses <- favPresses, changes <- favChanges, cuts <- favCuts, want <-
    favWant, elsewhere <- favElsewhere, sentSince <- favSentSince, overtaken <-
    favOvertaken, torn <- favTorn, lost <- favLost

Book == INSTANCE AccountsProofs WITH
    People <- {ann, bob, cat}, MaxPresses <- MaxAccountPresses, MaxCuts <- 1,
    book <- accBook, logins <- accLogins, folders <- accFolders, save <- accSave, owed
    <- accOwed, mark <- accMark, romm <- accRomm, me <- accMe, up <- accUp, call <-
    accCall, pairing <- accPairing, job <- accJob, ask <- accAsk, leaving <- accLeaving,
    made <- accMade, pairings <- accPairings, presses <- accPresses, cuts <- accCuts,
    crossed <- accCrossed, agreed <- accAgreed, passed <- accPassed,
    unmarked <- accUnmarked, stuck <- accStuck, lost <- accLost

File == INSTANCE FileWrite WITH
    Together <- FALSE, MaxFaults <- MaxFileFaults,
    inodes <- fileInodes, file <- fileFile, temp <- fileTemp, onDisk <- fileOnDisk, pc
    <- filePc, fd <- fileFd, writes <- fileWrites, faults <- fileFaults

\* What the proofs about these three assume of their constants.
ASSUME HeartNumbers == Hearts!FavouritesAssumption
ASSUME AccountNumbers == Book!AccountsAssumption
ASSUME FileNumbers == File!FileAssumption

\* Games by their ids and by their titles.
ThreeIds    == <<1, 2, 3>>
ThreeTitles == <<2, 3, 1>>

Symmetry == Permutations({ann, bob, cat})

\* Of the favourites: the power is not cut once a write of a press has failed.
HeartBounds == favCuts' > favCuts => favTorn = {} /\ favLost = {}

\* Of the accounts: one save without its marker, or one thing that a sign out
\* cannot delete.
BookBounds == Cardinality(accUnmarked') + Cardinality(accStuck') <= 1

HomeInit ==
    /\ part \in {"play", "hearts", "accounts", "file"}
    /\ Init /\ (part # "play" => onRomM = {})
    /\ Hearts!Init /\ favRomm \in IF part = "hearts" THEN {{}, {1, 2}} ELSE {{}}
    /\ Book!Init /\ (part # "accounts" => accBook.list = <<ann, bob>>)
    /\ File!Init

HomeNext ==
    /\ UNCHANGED part
    /\ \/ part = "play" /\ Next /\ UNCHANGED <<favVars, accVars, fileVars>>
       \/ part = "hearts" /\ Hearts!Next /\ HeartBounds /\ UNCHANGED <<vars, accVars, fileVars>>
       \/ part = "accounts" /\ Book!Next /\ BookBounds /\ UNCHANGED <<vars, favVars, fileVars>>
       \/ part = "file" /\ File!Next /\ UNCHANGED <<vars, favVars, accVars>>

HomeSpec == HomeInit /\ [][HomeNext]_<<part, vars, favVars, accVars, fileVars>>

-----------------------------------------------------------------------------
(* The properties of the other three modules, by the names that go with    *)
(* PlayTime's own; each is stated and explained there.                     *)

\* Every variable of PlayTime, Favourites and Accounts holds what its declaration
\* says.
Types ==
    /\ part = "play" => TypeOK
    /\ part = "hearts" => Hearts!TypeOK
    /\ part = "accounts" => Book!TypeOK

\* What is owed to RomM is what the console shows.
OwedIsShown == Hearts!OwedIsShown

\* RomM has what was pressed last, of the presses it heard.
RommHeardLast == Hearts!RommHeardLast

\* The console shows the last press.
ListShowsLast == Hearts!ListShowsLast

\* A press leaves the others in their order.
OrderKept == Hearts!OrderKept

\* Nobody is listed without a login.
LoginsStand == Book!LoginsStand

\* Nobody has a folder who is not listed.
FoldersListed == Book!FoldersListed

\* A sign out that is done has left nothing but what it could not delete.
SignedOutIsEmpty == Book!SignedOutIsEmpty

\* A removal deletes nothing unsent that has a marker without having asked.
RemoveAsks == Book!RemoveAsks

\* A file is replaced in one step, old or new whatever fails.
WritesAtOnce == File!WritesAtOnce
=============================================================================
