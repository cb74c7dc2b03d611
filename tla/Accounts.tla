------------------------------ MODULE Accounts ------------------------------
(***************************************************************************)
(* Who may use the console: the book of accounts and the logins beside it  *)
(* (accounts.cpp), an account switch, a pairing on its own thread, Remove  *)
(* an account and Sign out with the sending each does first                *)
(* (accountsflow.cpp, accountremove.cpp), and the start that finishes a    *)
(* sign out (startup.cpp, server.cpp), across power cuts.                  *)
(*                                                                         *)
(* The book is one file, read whole and written whole; between the two     *)
(* another thread may write it. A person's folder holds one save, numbered *)
(* by when it was made, and its marker; while the uploader has one it is   *)
(* not made again (UploadQueue has what happens then).                     *)
(***************************************************************************)
EXTENDS Naturals, Sequences, SequencesExt, FiniteSets

CONSTANTS
    People,
    Nobody,
    MaxSaves,     \* bound: saves made
    MaxPairings,  \* bound: pairings approved
    MaxPresses,   \* bound: switches, colours, removals and sign outs
    MaxCuts       \* bound: power cuts

AccountsAssumption ==
    /\ Nobody \notin People
    /\ MaxSaves \in Nat /\ MaxPairings \in Nat /\ MaxPresses \in Nat /\ MaxCuts \in Nat

VARIABLES
    \* on the disk
    book,     \* accounts.json: the list, its owner first, and who is active
    logins,   \* whose token there is
    folders,  \* whose folder there is
    save,     \* the number of the save in each folder, 0 for none
    owed,     \* whose save has a marker
    mark,     \* first run's marker: "done", "asked" (signed out), "cleared"
    romm,     \* the save of each that RomM has
    \* in memory
    me,       \* storage::currentUser, Nobody when the console is off
    up,       \* the save the uploader is sending, 0 for none
    call,     \* the book operation the frame thread is in, with the book it read
    pairing,  \* the pairing thread, with the book it read
    job,      \* removeJob
    ask,      \* the question of takeAccountResults on the screen
    leaving,  \* the curtain is down for a sign out
    made, pairings, presses, cuts,   \* bound the model
    \* history
    crossed,  \* both threads were in the book of accounts at once
    agreed,   \* whose unsent saves a person has just agreed to lose
    passed,   \* whose newer save the sending before a removal has gone past
    unmarked, \* whose save there is no marker of: it could not be written, the
              \* power went before it, or a deletion that failed took it alone
    stuck,    \* what a sign out could not delete: "folders", "book", "logins"
    lost      \* who lost a save RomM has not, unasked, and how

disk    == <<book, logins, folders, save, owed, mark>>
threads == <<me, up, call, pairing, job, ask, leaving>>
bounds  == <<made, pairings, presses, cuts>>
history == <<crossed, agreed, passed, unmarked, stuck, lost>>
vars    == <<disk, romm, threads, bounds, history>>

NoCall == [at |-> "idle", who |-> Nobody, read |-> [list |-> <<>>, active |-> Nobody]]
NoJob  == [at |-> "idle", who |-> Nobody, everyone |-> FALSE, todo |-> <<>>,
           sending |-> 0, left |-> 0]
NoAsk  == [open |-> FALSE, everyone |-> FALSE, who |-> Nobody]

Listed == Range(book.list)
On     == me # Nobody

-----------------------------------------------------------------------------
(* accounts.cpp. b is a book that was read. *)

Owner(b) == IF b.list = <<>> THEN Nobody ELSE b.list[1]

CanRemove(b, p) == p # b.active /\ p # Owner(b) /\ p \in Range(b.list)

BothIn == pairing.at # "idle" /\ call.at \notin {"idle", "push"}

\* save: the whole book, whoever wrote it since b was read.
Write(b, from) ==
    /\ book' = b
    /\ crossed' = (crossed \/ from # book \/ BothIn)

\* add: a person already listed keeps their place; the first is made active.
With(b, p) ==
    IF p \in Range(b.list) THEN b
    ELSE [list |-> Append(b.list, p), active |-> IF b.active = Nobody THEN p ELSE b.active]

\* erase keeps the others' order; a book whose active person is gone is read
\* with the first of the list instead (load).
Without(b, p) ==
    LET rest == RemoveFirst(b.list, p)
    IN  [list |-> rest,
         active |-> IF b.active # p THEN b.active
                    ELSE IF rest = <<>> THEN Nobody ELSE rest[1]]

\* What is lost with the saves of `gone`; nobody can be asked about one that has
\* no marker.
Loses(gone, how) ==
    lost' = lost \cup {<<p, IF p \in unmarked THEN "unmarked" ELSE how>> :
                          p \in {q \in gone \ agreed : save[q] > romm[q]}}

\* removeEntry, of the folders `gone` altogether; and of others, which it cannot
\* delete, some saves and some markers.
Delete(gone, saves, markers) ==
    /\ folders' = folders \ gone
    /\ save' = [p \in People |-> IF p \in gone \cup saves THEN 0 ELSE save[p]]
    /\ owed' = owed \ (gone \cup markers)
    /\ unmarked' = {p \in unmarked \cup (owed \ owed') : save'[p] # 0}

-----------------------------------------------------------------------------
(* The frame thread. It is free for a press unless it is in a call, asking *)
(* or behind the curtain of a sign out. What the removal's thread publishes*)
(* it takes in its next frame, before another press.                       *)

JobDone == job.at = "next" /\ job.todo = <<>>

Free  == On /\ call.at = "idle" /\ ~ask.open /\ ~leaving
Press == Free /\ ~JobDone /\ presses < MaxPresses /\ presses' = presses + 1

\* A game leaves its save: the file,
WriteSave ==
    /\ Free /\ up = 0 /\ made < MaxSaves
    /\ made' = made + 1
    /\ folders' = folders \cup {me}
    /\ save' = [save EXCEPT ![me] = made + 1]
    /\ call' = [NoCall EXCEPT !.at = "push", !.who = me]
    /\ UNCHANGED <<book, logins, owed, mark, romm, me, up, pairing, job, ask, leaving,
                   pairings, presses, cuts, history>>

\* then its marker, which may not be written, and its upload all the same.
PushSave ==
    /\ On /\ call.at = "push"
    /\ \/ /\ owed' = owed \cup {me}
          /\ unmarked' = unmarked \ {me}
       \/ /\ unmarked' = unmarked \cup ({me} \ owed)
          /\ UNCHANGED owed
    /\ up' = save[me]
    /\ call' = NoCall
    /\ UNCHANGED <<book, logins, folders, save, mark, romm, me, pairing, job, ask, leaving,
                   bounds, crossed, agreed, passed, stuck, lost>>

\* retryOwedUploads, on this thread too: the signed-in person's marker, queued again.
Resend ==
    /\ On /\ call.at = "idle" /\ up = 0 /\ me \in owed
    /\ up' = save[me]
    /\ UNCHANGED <<disk, romm, me, call, pairing, job, ask, leaving, bounds, history>>

\* The uploader's job ends: RomM has it and the marker goes, or neither.
UploadEnds ==
    /\ On /\ up # 0
    /\ up' = 0
    /\ \/ /\ romm' = [romm EXCEPT ![me] = up]
          /\ owed' = owed \ {me}
          /\ unmarked' = unmarked \ {me}
       \/ UNCHANGED <<romm, owed, unmarked>>
    /\ UNCHANGED <<book, logins, folders, save, mark, me, call, pairing, job, ask,
                   leaving, bounds, crossed, agreed, passed, stuck, lost>>

\* switchAccount: refused while an upload is pending; activate reads the book
\* and asks for the token's file.
SwitchAccount(p) ==
    /\ Press /\ up = 0
    /\ p \in (Listed \cap logins) \ {book.active}
    /\ call' = [at |-> "activate", who |-> p, read |-> book]
    /\ UNCHANGED <<disk, romm, me, up, pairing, job, ask, leaving,
                   made, pairings, cuts, history>>

\* setActive writes; the server then says who that is, or not.
Activate ==
    /\ On /\ call.at = "activate"
    /\ Write([call.read EXCEPT !.active = call.who], call.read)
    /\ \/ /\ me' = call.who
          /\ folders' = folders \cup {call.who}
          /\ call' = NoCall
       \/ /\ call' = [call EXCEPT !.at = "refused"]
          /\ UNCHANGED <<me, folders>>
    /\ UNCHANGED <<logins, save, owed, mark, romm, up, pairing, job, ask, leaving,
                   bounds, agreed, passed, unmarked, stuck, lost>>

\* refuse: whoever was active, read and written again; setActive refuses
\* anybody the book does not list or who has no token.
SwitchBack ==
    /\ On /\ call.at = "refused"
    /\ LET was == call.read.active
       IN  call' = IF was \in Listed \cap logins
                   THEN [at |-> "back", who |-> was, read |-> book] ELSE NoCall
    /\ UNCHANGED <<disk, romm, me, up, pairing, job, ask, leaving, bounds, history>>

\* setColour in Settings, for the active person.
SetColour ==
    /\ Press
    /\ book.active # Nobody
    /\ call' = [at |-> "back", who |-> book.active, read |-> book]
    /\ UNCHANGED <<disk, romm, me, up, pairing, job, ask, leaving,
                   made, pairings, cuts, history>>

\* The write of a refused switch's way back, or of a colour.
WriteBack ==
    /\ On /\ call.at = "back"
    /\ Write([call.read EXCEPT !.active = call.who], call.read)
    /\ call' = NoCall
    /\ UNCHANGED <<logins, folders, save, owed, mark, romm, me, up, pairing, job, ask,
                   leaving, bounds, agreed, passed, unmarked, stuck, lost>>

-----------------------------------------------------------------------------
(* A pairing: the thread that asks who approved the code, and adds them.   *)

\* RomM says p approved; add reads the book.
PairApproved(p) ==
    /\ On /\ ~leaving /\ pairing.at = "idle" /\ pairings < MaxPairings
    /\ pairings' = pairings + 1
    /\ pairing' = [at |-> "login", who |-> p, read |-> book]
    /\ UNCHANGED <<disk, romm, me, up, call, job, ask, leaving,
                   made, presses, cuts, history>>

\* A pairing that does not look whether the token was written.
PairWritesLogin_Unchecked ==
    /\ On /\ pairing.at = "login"
    /\ pairing' = [pairing EXCEPT !.at = "book"]
    /\ UNCHANGED <<disk, romm, me, up, call, job, ask, leaving, bounds, history>>

PairWritesLogin ==
    /\ On /\ pairing.at = "login"
    /\ logins' = logins \cup {pairing.who}
    /\ crossed' = (crossed \/ BothIn)
    /\ pairing' = [pairing EXCEPT !.at = "book"]
    /\ UNCHANGED <<book, folders, save, owed, mark, romm, me, up, call, job, ask,
                   leaving, bounds, agreed, passed, unmarked, stuck, lost>>

PairWritesBook ==
    /\ On /\ pairing.at = "book"
    /\ Write(With(pairing.read, pairing.who), pairing.read)
    /\ pairing' = NoCall
    /\ UNCHANGED <<logins, folders, save, owed, mark, romm, me, up, call, job, ask,
                   leaving, bounds, agreed, passed, unmarked, stuck, lost>>

-----------------------------------------------------------------------------
(* The sending before a removal or a sign out (removeJob's thread).        *)

\* startRemove, for anybody Settings offers.
StartRemove(p) ==
    /\ Press /\ job.at = "idle"
    /\ CanRemove(book, p)
    /\ job' = [NoJob EXCEPT !.at = "next", !.who = p, !.todo = <<p>>]
    /\ UNCHANGED <<disk, romm, me, up, call, pairing, ask, leaving,
                   made, pairings, cuts, history>>

\* startSignOut: not while an upload is pending.
StartSignOut ==
    /\ Press /\ job.at = "idle" /\ up = 0
    /\ job' = [NoJob EXCEPT !.at = "next", !.everyone = TRUE, !.todo = book.list]
    /\ UNCHANGED <<disk, romm, me, up, call, pairing, ask, leaving,
                   made, pairings, cuts, history>>

\* sendOwedBeforeRemoving of the next person: nothing owed, or its file read.
SendNext ==
    /\ On /\ job.at = "next" /\ job.todo # <<>>
    /\ job' = IF Head(job.todo) \in owed
              THEN [job EXCEPT !.at = "send", !.sending = save[Head(job.todo)]]
              ELSE [job EXCEPT !.todo = Tail(@)]
    /\ UNCHANGED <<disk, romm, me, up, call, pairing, ask, leaving, bounds, history>>

Passes ==
    passed' = passed \cup {p \in {Head(job.todo)} : save[p] # job.sending}

\* uploadOne: RomM has it, or it was not sent and the sending of them stops.
SendOne ==
    /\ On /\ job.at = "send"
    /\ \/ /\ romm' = [romm EXCEPT ![Head(job.todo)] = job.sending]
          /\ job' = [job EXCEPT !.at = "sent"]
          /\ Passes
       \/ /\ job' = [job EXCEPT !.at = "count"]
          /\ UNCHANGED <<romm, passed>>
    /\ UNCHANGED <<disk, me, up, call, pairing, ask, leaving, bounds, crossed, agreed, unmarked, stuck, lost>>

SendClears ==
    /\ On /\ job.at = "sent"
    /\ owed' = owed \ {Head(job.todo)}
    /\ job' = [job EXCEPT !.at = "count"]
    /\ Passes
    /\ UNCHANGED <<book, logins, folders, save, mark, romm, me, up, call, pairing, ask,
                   leaving, bounds, crossed, agreed, unmarked, stuck, lost>>

\* What this person owes still.
SendCounts ==
    /\ On /\ job.at = "count"
    /\ job' = [job EXCEPT !.at = "next", !.todo = Tail(@),
                          !.left = @ + IF Head(job.todo) \in owed THEN 1 ELSE 0]
    /\ UNCHANGED <<disk, romm, me, up, call, pairing, ask, leaving, bounds, history>>

-----------------------------------------------------------------------------
(* takeAccountResults, and what it starts. *)

\* Something is owed still: asked again before anything is deleted.
TakeAsks ==
    /\ Free /\ JobDone /\ job.left > 0
    /\ ask' = [open |-> TRUE, everyone |-> job.everyone, who |-> job.who]
    /\ job' = NoJob
    /\ UNCHANGED <<disk, romm, me, up, call, pairing, leaving, bounds, history>>

\* Sign out with nothing owed: the curtain comes down.
TakeLeaves ==
    /\ Free /\ JobDone /\ job.left = 0 /\ job.everyone
    /\ leaving' = TRUE
    /\ job' = NoJob
    /\ UNCHANGED <<disk, romm, me, up, call, pairing, ask, bounds, history>>

\* A removal that does not look at what is left.
TakeRemoves_Unasked ==
    /\ Free /\ JobDone /\ ~job.everyone
    /\ call' = IF CanRemove(book, job.who)
               THEN [at |-> "folder", who |-> job.who, read |-> book] ELSE NoCall
    /\ job' = NoJob
    /\ UNCHANGED <<disk, romm, me, up, pairing, ask, leaving, bounds, history>>

\* A removal with nothing owed begins at once, if it still may.
TakeRemoves ==
    /\ Free /\ JobDone /\ job.left = 0 /\ ~job.everyone
    /\ call' = IF CanRemove(book, job.who)
               THEN [at |-> "folder", who |-> job.who, read |-> book] ELSE NoCall
    /\ job' = NoJob
    /\ UNCHANGED <<disk, romm, me, up, pairing, ask, leaving, bounds, history>>

AnswerCancel ==
    /\ On /\ ask.open
    /\ ask' = NoAsk
    /\ UNCHANGED <<disk, romm, me, up, call, pairing, job, leaving, bounds, history>>

AnswerSignOut ==
    /\ On /\ ask.open /\ ask.everyone
    /\ ask' = NoAsk
    /\ leaving' = TRUE
    /\ agreed' = People
    /\ UNCHANGED <<disk, romm, me, up, call, pairing, job, bounds, crossed, passed,
                   unmarked, stuck, lost>>

AnswerRemove ==
    /\ On /\ ask.open /\ ~ask.everyone
    /\ ask' = NoAsk
    /\ call' = IF CanRemove(book, ask.who)
               THEN [at |-> "folder", who |-> ask.who, read |-> book] ELSE NoCall
    /\ agreed' = agreed \cup {ask.who}
    /\ UNCHANGED <<disk, romm, me, up, pairing, job, leaving, bounds, crossed, passed,
                   unmarked, stuck, lost>>

-----------------------------------------------------------------------------
(* removePersonNow: the folder, the book, the login, in that order. *)

\* A removal that goes on whatever became of the folder.
RemoveFolder_Anyway ==
    /\ On /\ call.at = "folder"
    /\ \E all \in SUBSET {call.who} :
           /\ Loses(all, "removed")
           /\ Delete(all, {}, {})
    /\ call' = [call EXCEPT !.at = "read"]
    /\ UNCHANGED <<book, logins, mark, romm, me, up, pairing, job, ask, leaving, bounds,
                   crossed, agreed, passed, stuck>>

\* The folder, all of it; or some of it stays and the removal stops. A power cut
\* on the way leaves it as a deletion that failed and a cut after it.
RemoveFolder ==
    /\ On /\ call.at = "folder"
    /\ agreed' = agreed \ {call.who}
    /\ \/ /\ Loses({call.who}, "removed")
          /\ Delete({call.who}, {}, {})
          /\ call' = [call EXCEPT !.at = "read"]
       \/ /\ \E saves, markers \in SUBSET {call.who} :
                 Loses(saves, "removed") /\ Delete({}, saves, markers)
          /\ call' = NoCall
    /\ UNCHANGED <<book, logins, mark, romm, me, up, pairing, job, ask, leaving, bounds,
                   crossed, passed, stuck>>

\* accounts::remove reads the book again, and refuses what it refused before.
RemoveReads ==
    /\ On /\ call.at = "read"
    /\ call' = IF CanRemove(book, call.who)
               THEN [call EXCEPT !.at = "book", !.read = book] ELSE NoCall
    /\ UNCHANGED <<disk, romm, me, up, pairing, job, ask, leaving, bounds, history>>

RemoveWritesBook ==
    /\ On /\ call.at = "book"
    /\ Write(Without(call.read, call.who), call.read)
    /\ call' = [call EXCEPT !.at = "login"]
    /\ UNCHANGED <<logins, folders, save, owed, mark, romm, me, up, pairing, job, ask,
                   leaving, bounds, agreed, passed, unmarked, stuck, lost>>

RemoveLogin ==
    /\ On /\ call.at = "login"
    /\ logins' = logins \ {call.who}
    /\ crossed' = (crossed \/ BothIn)
    /\ call' = NoCall
    /\ UNCHANGED <<book, folders, save, owed, mark, romm, me, up, pairing, job, ask,
                   leaving, bounds, agreed, passed, unmarked, stuck, lost>>

-----------------------------------------------------------------------------
(* Sign out ends this run of the program and the next one clears; a power  *)
(* cut may fall anywhere.                                                  *)

Off ==
    /\ me' = Nobody /\ up' = 0 /\ leaving' = FALSE
    /\ call' = NoCall /\ pairing' = NoCall /\ job' = NoJob /\ ask' = NoAsk
    /\ agreed' = IF mark = "asked" THEN agreed ELSE {}
    /\ unmarked' = unmarked \cup IF call.at = "push" THEN {me} \ owed ELSE {}

\* pumpLeave: nothing is pending, or twenty seconds have passed.
LeaveEnds ==
    /\ leaving /\ mark = "done"
    /\ mark' = "asked"
    /\ UNCHANGED <<book, logins, folders, save, owed, romm, threads, bounds, history>>

\* shutDown waits for the upload to end, well or not, and for the pairing's
\* thread; the removal's has nothing to do.
Quit ==
    /\ leaving /\ mark = "asked" /\ up = 0 /\ pairing.at = "idle"
    /\ Off
    /\ UNCHANGED <<disk, romm, bounds, crossed, passed, stuck, lost>>

PowerCut ==
    /\ cuts < MaxCuts /\ (On \/ call.at # "idle")
    /\ cuts' = cuts + 1
    /\ Off
    /\ UNCHANGED <<disk, romm, made, pairings, presses, crossed, passed, stuck, lost>>

\* The console starts as the active person of the book.
Start ==
    /\ ~On /\ mark = "done" /\ book.active \in logins
    /\ me' = book.active
    /\ folders' = folders \cup {book.active}
    /\ UNCHANGED <<book, logins, save, owed, mark, romm, up, call, pairing, job, ask,
                   leaving, bounds, history>>

\* A clearing that says it is done first.
ClearFolders_Marked ==
    /\ ~On /\ mark = "asked" /\ call.at = "idle"
    /\ Loses(folders, "signed out")
    /\ Delete(folders, {}, {})
    /\ mark' = "cleared"
    /\ call' = [NoCall EXCEPT !.at = "clearBook"]
    /\ UNCHANGED <<book, logins, romm, me, up, pairing, job, ask, leaving,
                   bounds, crossed, agreed, passed, stuck>>

\* finishSignOut, before anything else runs, does not stop for what it cannot
\* delete: the folders,
ClearFolders ==
    /\ ~On /\ mark = "asked" /\ call.at = "idle"
    /\ \E stay \in SUBSET folders : \E saves, markers \in SUBSET stay :
           /\ Loses((folders \ stay) \cup saves, "signed out")
           /\ Delete(folders \ stay, saves, markers)
           /\ stuck' = stuck \cup IF stay = {} THEN {} ELSE {"folders"}
    /\ call' = [NoCall EXCEPT !.at = "clearBook"]
    /\ UNCHANGED <<book, logins, mark, romm, me, up, pairing, job, ask, leaving,
                   bounds, crossed, agreed, passed>>

\* the book of accounts,
ClearBook ==
    /\ call.at = "clearBook"
    /\ \/ /\ book' = [list |-> <<>>, active |-> Nobody]
          /\ UNCHANGED stuck
       \/ /\ stuck' = stuck \cup {"book"}
          /\ UNCHANGED book
    /\ call' = [call EXCEPT !.at = "clearLogins"]
    /\ UNCHANGED <<logins, folders, save, owed, mark, romm, me, up, pairing, job, ask,
                   leaving, bounds, crossed, agreed, passed, unmarked, lost>>

\* the logins,
ClearLogins ==
    /\ call.at = "clearLogins"
    /\ logins' \in SUBSET logins
    /\ stuck' = stuck \cup IF logins' = {} THEN {} ELSE {"logins"}
    /\ call' = [call EXCEPT !.at = "clearMark"]
    /\ UNCHANGED <<book, folders, save, owed, mark, romm, me, up, pairing, job, ask,
                   leaving, bounds, crossed, agreed, passed, unmarked, lost>>

\* and then that it is done, if that can be written: first run follows anyway.
ClearMark ==
    /\ call.at = "clearMark"
    /\ mark' \in {mark, "cleared"}
    /\ agreed' = {}
    /\ call' = [NoCall EXCEPT !.at = "setup"]
    /\ UNCHANGED <<book, logins, folders, save, owed, romm, me, up, pairing, job, ask,
                   leaving, bounds, crossed, passed, unmarked, stuck, lost>>

\* First run's pairing, alone on the console, and its end.
FirstRun(p) ==
    /\ ~On /\ pairings < MaxPairings
    /\ call.at = "setup" \/ (mark = "cleared" /\ call.at = "idle")
    /\ pairings' = pairings + 1
    /\ book' = With(book, p)
    /\ logins' = logins \cup {p}
    /\ mark' = "done"
    /\ call' = NoCall
    /\ UNCHANGED <<folders, save, owed, romm, me, up, pairing, job, ask, leaving,
                   made, presses, cuts, history>>

-----------------------------------------------------------------------------

Init ==
    /\ \E owner, other \in People :
           /\ owner # other
           /\ book = [list |-> <<owner, other>>, active |-> owner]
           /\ logins = {owner, other} /\ folders = {owner, other}
           /\ me = owner
    /\ save = [p \in People |-> 0] /\ romm = [p \in People |-> 0]
    /\ owed = {} /\ mark = "done"
    /\ up = 0 /\ call = NoCall /\ pairing = NoCall
    /\ job = NoJob /\ ask = NoAsk /\ leaving = FALSE
    /\ made = 0 /\ pairings = 0 /\ presses = 0 /\ cuts = 0
    /\ crossed = FALSE /\ agreed = {} /\ passed = {}
    /\ unmarked = {} /\ stuck = {} /\ lost = {}

Next ==
    \/ WriteSave \/ PushSave \/ Resend \/ UploadEnds
    \/ \E p \in People : SwitchAccount(p) \/ PairApproved(p) \/ StartRemove(p) \/ FirstRun(p)
    \/ Activate \/ SwitchBack \/ SetColour \/ WriteBack
    \/ PairWritesLogin \/ PairWritesBook
    \/ StartSignOut \/ SendNext \/ SendOne \/ SendClears \/ SendCounts
    \/ TakeAsks \/ TakeLeaves \/ TakeRemoves
    \/ AnswerCancel \/ AnswerSignOut \/ AnswerRemove
    \/ RemoveFolder \/ RemoveReads \/ RemoveWritesBook \/ RemoveLogin
    \/ LeaveEnds \/ Quit \/ PowerCut \/ Start
    \/ ClearFolders \/ ClearBook \/ ClearLogins \/ ClearMark

Spec == Init /\ [][Next]_vars

-----------------------------------------------------------------------------

Calls == {"idle", "push", "setup", "activate", "refused", "back", "login", "book", "folder", "read",
          "clearBook", "clearLogins", "clearMark"}

TypeOK ==
    /\ book.list \in Seq(People) /\ IsInjective(book.list)
    /\ book.active \in People \cup {Nobody}
    /\ logins \subseteq People /\ folders \subseteq People /\ owed \subseteq People
    /\ save \in [People -> 0 .. MaxSaves] /\ romm \in [People -> 0 .. MaxSaves]
    /\ mark \in {"done", "asked", "cleared"}
    /\ me \in People \cup {Nobody} /\ up \in 0 .. MaxSaves
    /\ {call.at, pairing.at} \subseteq Calls
    /\ job.at \in {"idle", "next", "send", "sent", "count"}
    /\ unmarked \subseteq People /\ stuck \subseteq {"folders", "book", "logins"}

\* accounts.cpp, add and remove: the token is written before the list and
\* taken after it, so nobody is listed, and nobody active, without a login,
\* wherever the power is cut; unless both threads were in the book at once, or a
\* sign out could not delete the book.
LoginsStand ==
    crossed \/ /\ "book" \in stuck \/ Listed \subseteq logins
               /\ Listed # {} => book.active \in Listed

\* accountremove.cpp, removePersonNow: "the login LAST, so a power cut at any
\* point leaves them listed and Remove can simply be run again": whose folder
\* there is is listed; unless both threads were in the book at once, or a sign out
\* could not delete the folders.
FoldersListed == crossed \/ "folders" \in stuck \/ folders \subseteq Listed

\* server.cpp, finishSignOut: once it says it is done, or first run is up, nothing
\* is left of anybody, however often the power was cut while it went, but what it
\* or one before it could not delete: it says so in the log and goes on.
SignedOutIsEmpty ==
    call.at = "setup" \/ (mark = "cleared" /\ call.at = "idle")
        => /\ folders = {} \/ "folders" \in stuck
           /\ book.list = <<>> \/ "book" \in stuck
           /\ logins = {} \/ "logins" \in stuck

\* takeAccountResults: a removal deletes no save that RomM has not, unless a
\* person was asked, or it had no marker to be asked about (Loses), or a newer save
\* was made while the older one was sent, or the book was crossed (it may then
\* offer to remove whoever is signed in).
RemoveAsks == crossed \/ \A l \in lost : l[2] = "removed" => l[1] \in passed
=============================================================================
