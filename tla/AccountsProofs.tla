-------------------------- MODULE AccountsProofs --------------------------
(***************************************************************************)
(* Proofs about Accounts, for any people and any bounds.                   *)
(***************************************************************************)
EXTENDS Accounts, SequenceTheorems, TLAPS

Books == {b \in [list : Seq(People), active : People \cup {Nobody}] : IsInjective(b.list)}

-----------------------------------------------------------------------------
(* What the list of accounts is after one is added or taken out.           *)

\* Nobody is in it twice: the one who is taken out is out, the others stay.
LEMMA RemovedIs ==
    ASSUME NEW s \in Seq(People), IsInjective(s), NEW p \in Range(s)
    PROVE  /\ RemoveFirst(s, p) \in Seq(People) /\ IsInjective(RemoveFirst(s, p))
           /\ Range(RemoveFirst(s, p)) = Range(s) \ {p}
  <1>1. PICK n \in 1 .. Len(s) : s[n] = p
    BY DEF Range
  <1>2. SelectInSeq(s, LAMBDA v : v = p) = n
    <2> DEFINE I == {i \in 1 .. Len(s) : s[i] = p}
    <2>1. I = {n}
      BY <1>1 DEF IsInjective
    <2>2. Min(I) = n
      BY <2>1 DEF Min
    <2> QED
      BY <2>1, <2>2 DEF SelectInSeq
  <1> DEFINE r == SubSeq(s, 1, n - 1) \o SubSeq(s, n + 1, Len(s))
  <1>3. RemoveFirst(s, p) = r
    BY <1>1, <1>2 DEF RemoveFirst, RemoveAt
  <1>4. /\ SubSeq(s, 1, n - 1) \in Seq(People) /\ Len(SubSeq(s, 1, n - 1)) = n - 1
        /\ \A i \in 1 .. n - 1 : SubSeq(s, 1, n - 1)[i] = s[i]
    BY <1>1, SubSeqProperties
  <1>5. /\ SubSeq(s, n + 1, Len(s)) \in Seq(People)
        /\ Len(SubSeq(s, n + 1, Len(s))) = Len(s) - n
        /\ \A i \in 1 .. Len(s) - n : SubSeq(s, n + 1, Len(s))[i] = s[n + i]
    BY <1>1, SubSeqProperties
  <1>6. /\ r \in Seq(People) /\ Len(r) = Len(s) - 1
        /\ \A i \in 1 .. Len(s) - 1 : r[i] = IF i < n THEN s[i] ELSE s[i + 1]
    <2> DEFINE a == SubSeq(s, 1, n - 1)
               b == SubSeq(s, n + 1, Len(s))
    <2>1. /\ r \in Seq(People) /\ Len(r) = Len(a) + Len(b)
          /\ \A i \in 1 .. Len(a) + Len(b) : r[i] = IF i <= Len(a) THEN a[i] ELSE b[i - Len(a)]
      BY <1>4, <1>5, ConcatProperties
    <2>2. /\ Len(a) = n - 1 /\ Len(b) = Len(s) - n /\ Len(s) \in Nat /\ n \in 1 .. Len(s)
          /\ \A i \in 1 .. n - 1 : a[i] = s[i]
          /\ \A i \in 1 .. Len(s) - n : b[i] = s[n + i]
      BY <1>1, <1>4, <1>5, LenProperties
    <2> HIDE DEF r, a, b
    <2>3. ASSUME NEW i \in 1 .. Len(s) - 1 PROVE r[i] = IF i < n THEN s[i] ELSE s[i + 1]
      <3>1. CASE i < n
        BY <2>1, <2>2, <3>1
      <3>2. CASE i >= n
        <4>1. i - (n - 1) \in 1 .. Len(s) - n /\ n + (i - (n - 1)) = i + 1
          BY <2>2, <3>2
        <4>2. r[i] = b[i - (n - 1)]
          BY <2>1, <2>2, <3>2
        <4>3. b[i - (n - 1)] = s[n + (i - (n - 1))]
          BY <2>2, <4>1
        <4> QED
          BY <2>2, <3>2, <4>1, <4>2, <4>3
      <3> QED
        BY <2>2, <3>1, <3>2
    <2> QED
      BY <2>1, <2>2, <2>3
  <1> HIDE DEF r
  <1>7. IsInjective(r)
    BY <1>1, <1>6 DEF IsInjective
  <1>8. Range(r) = Range(s) \ {p}
    <2>1. \A i \in 1 .. Len(r) : r[i] \in Range(s) \ {p}
      <3> SUFFICES ASSUME NEW i \in 1 .. Len(r) PROVE r[i] \in Range(s) \ {p}
        OBVIOUS
      <3>1. PICK j \in 1 .. Len(s) : r[i] = s[j] /\ j # n
        BY <1>1, <1>6
      <3> QED
        BY <1>1, <3>1 DEF Range, IsInjective
    <2>2. \A j \in 1 .. Len(s) : s[j] # p => \E i \in 1 .. Len(r) : r[i] = s[j]
      <3> SUFFICES ASSUME NEW j \in 1 .. Len(s), s[j] # p
                   PROVE  \E i \in 1 .. Len(r) : r[i] = s[j]
        OBVIOUS
      <3>1. CASE j < n
        BY <1>1, <1>6, <3>1
      <3>2. CASE j > n
        <4>1. j - 1 \in 1 .. Len(r) /\ r[j - 1] = s[j]
          BY <1>1, <1>6, <3>2
        <4> QED
          BY <4>1
      <3> QED
        BY <1>1, <3>1, <3>2
    <2> QED
      <3>1. Range(r) = {r[i] : i \in 1 .. Len(r)} /\ Range(s) = {s[i] : i \in 1 .. Len(s)}
        BY <1>6 DEF Range
      <3> QED
        BY <2>1, <2>2, <3>1
  <1> QED
    BY <1>3, <1>6, <1>7, <1>8

\* One who is added to a list they are not in comes last.
LEMMA AddedIs ==
    ASSUME NEW s \in Seq(People), IsInjective(s), NEW p \in People \ Range(s)
    PROVE  /\ Append(s, p) \in Seq(People) /\ IsInjective(Append(s, p))
           /\ Range(Append(s, p)) = Range(s) \cup {p}
  <1>1. /\ Append(s, p) \in Seq(People) /\ Len(Append(s, p)) = Len(s) + 1
        /\ \A i \in 1 .. Len(s) : Append(s, p)[i] = s[i]
        /\ Append(s, p)[Len(s) + 1] = p
    BY AppendProperties
  <1>2. \A i \in 1 .. Len(s) : s[i] # p
    BY DEF Range
  <1>3. IsInjective(Append(s, p))
    BY <1>1, <1>2 DEF IsInjective
  <1>4. Range(Append(s, p)) = Range(s) \cup {p}
    <2>1. Range(Append(s, p)) = {Append(s, p)[i] : i \in 1 .. Len(s) + 1}
      BY <1>1 DEF Range
    <2>2. Range(s) = {s[i] : i \in 1 .. Len(s)}
      BY DEF Range
    <2>3. \A x \in Range(Append(s, p)) : x \in Range(s) \cup {p}
      BY <1>1, <2>1, <2>2
    <2>4. \A x \in Range(s) : x \in Range(Append(s, p))
      BY <1>1, <2>1, <2>2
    <2>5. p \in Range(Append(s, p))
      <3>1. Len(s) + 1 \in 1 .. Len(s) + 1
        BY LenProperties
      <3> QED
        BY <1>1, <2>1, <3>1
    <2> QED
      BY <2>3, <2>4, <2>5
  <1> QED
    BY <1>1, <1>3, <1>4

\* The book with one person more, or as it was if it had them.
LEMMA WithIs ==
    ASSUME NEW b \in Books, NEW p \in People
    PROVE  /\ With(b, p) \in Books
           /\ Range(With(b, p).list) = Range(b.list) \cup {p}
           /\ With(b, p).active = IF p \notin Range(b.list) /\ b.active = Nobody THEN p
                                  ELSE b.active
  BY AddedIs DEF With, Books

\* The book with one person fewer, who is not the active one.
LEMMA WithoutIs ==
    ASSUME NEW b \in Books, NEW p \in Range(b.list), p # b.active
    PROVE  /\ Without(b, p) \in Books /\ Without(b, p).active = b.active
           /\ Range(Without(b, p).list) = Range(b.list) \ {p}
  BY RemovedIs DEF Without, Books

-----------------------------------------------------------------------------
(* The inductive invariant. *)

CallSet == [at : Calls, who : People \cup {Nobody}, read : Books]
PairSet == [at : {"idle", "login", "book"}, who : People \cup {Nobody}, read : Books]
JobSet == [at : {"idle", "next", "send", "sent", "count"}, who : People \cup {Nobody},
           everyone : BOOLEAN, todo : Seq(People), sending : 0 .. MaxSaves, left : Nat]
AskSet == [open : BOOLEAN, everyone : BOOLEAN, who : People \cup {Nobody}]

\* TypeOK, and all that a call, a pairing and a sending hold.
Types ==
    /\ book \in Books
    /\ logins \subseteq People /\ folders \subseteq People /\ owed \subseteq People
    /\ save \in [People -> 0 .. MaxSaves] /\ romm \in [People -> 0 .. MaxSaves]
    /\ mark \in {"done", "asked", "cleared"}
    /\ me \in People \cup {Nobody} /\ up \in 0 .. MaxSaves
    /\ call \in CallSet /\ pairing \in PairSet /\ job \in JobSet /\ ask \in AskSet
    /\ made \in 0 .. MaxSaves
    /\ unmarked \subseteq People /\ stuck \subseteq {"folders", "book", "logins"}

Clearing == {"clearBook", "clearLogins", "clearMark"}

\* Whose a call and a pairing are, and what goes on while the console is off.
Stages ==
    /\ call.at \notin {"idle", "setup"} \cup Clearing => On /\ call.who \in People
    /\ pairing.at # "idle" => On /\ pairing.who \in People
    /\ call.at \in Clearing => ~On /\ mark = "asked"
    /\ call.at = "setup" => ~On /\ mark # "done"
    /\ ~On => job.at = "idle" /\ ~ask.open /\ up = 0

\* What a sign out leaves is what it could not delete.
NoFolders == folders = {} \/ "folders" \in stuck
NoBook    == (book.list = <<>> /\ book.active = Nobody) \/ "book" \in stuck
NoLogins  == logins = {} \/ "logins" \in stuck

\* How far a clearing has got, and one which is done.
Cleared ==
    /\ call.at \in Clearing \cup {"setup"} => NoFolders
    /\ call.at \in {"clearLogins", "clearMark", "setup"} => NoBook
    /\ call.at \in {"clearMark", "setup"} => NoLogins
    /\ mark = "cleared" => /\ ~On /\ call.at \in {"idle", "setup"}
                           /\ NoFolders /\ NoBook /\ NoLogins

\* A folder that is out stays out until its person is.
FolderOut == call.at \in {"read", "book"} => call.who \notin folders

\* Nobody is switched to while a save goes up.
Sending == call.at = "activate" => up = 0

\* What the sending has to do, and that saves are numbered as they are made.
Working ==
    /\ ask.open => job.at = "idle" /\ call.at = "idle"
    /\ job.at \in {"send", "sent", "count"} => job.todo # <<>>
    /\ job.at # "idle" /\ ~job.everyone => job.todo \in {<<>>, <<job.who>>}
    /\ job.sending <= made
    /\ \A p \in People : save[p] <= made

\* While the threads keep out of each other's way, a call goes on with somebody
\* its book lists, and with the person the console is.
Calling ==
    /\ call.at \in {"activate", "back"} => call.who \in Range(call.read.list)
    /\ call.at = "activate" => call.who \in logins
    /\ call.at = "refused" => call.read.active = me
    /\ call.at = "back" => call.who = me
    /\ call.at \in {"folder", "read"} => CanRemove(book, call.who)
    /\ call.at = "book" => CanRemove(call.read, call.who)
    /\ call.at = "login" => call.who \notin Listed
    /\ pairing.at = "book" => pairing.who \in logins

\* The console is somebody listed, and the active person but on the way back
\* from a refused switch.
MeIs ==
    On => /\ me \in Listed /\ me \in logins
          /\ call.at \notin {"refused", "back"} => book.active = me

\* Who is listed has a login, and who has a folder is listed.
BookStands ==
    /\ "book" \in stuck \/ Listed \subseteq logins
    /\ "folders" \in stuck \/ folders \subseteq Listed
    /\ Listed # {} => book.active \in Listed
    /\ Listed = {} => book.active = Nobody

Unsent(p) == save[p] > romm[p]

\* What goes up is the save there is.
GoingUp == up = 0 \/ up = save[me]

\* A save that RomM has not is owed, or was made while an older one was sent, or has
\* no marker, or not yet.
Pushing == IF call.at = "push" THEN {me} ELSE {}
OwedOrPassed ==
    \A p \in People : Unsent(p) => p \in owed \cup passed \cup unmarked \cup Pushing

\* What was sent is on RomM, unless another was made.
SentStands ==
    job.at = "sent" /\ Unsent(Head(job.todo))
        => Head(job.todo) \in passed \/ save[Head(job.todo)] # job.sending

\* A sending that counted nothing left has its person's owed no more, unless they
\* are the one who is playing.
NoneLeft ==
    JobDone /\ ~job.everyone /\ job.left = 0 /\ job.who \in owed
        => me = job.who /\ call.at \in {"idle", "push"}

\* A folder that is about to go without having been asked about has a save that
\* RomM has not only if it was passed by or has no marker.
FolderSent ==
    call.at = "folder" /\ call.who \notin agreed /\ Unsent(call.who)
        => call.who \in passed \cup unmarked

Owing == GoingUp /\ OwedOrPassed /\ SentStands /\ NoneLeft /\ FolderSent

\* What a removal lost was asked about or passed by.
Asked == \A l \in lost : l[2] = "removed" => l[1] \in passed

Always    == Types /\ Stages /\ Cleared /\ FolderOut /\ Sending /\ Working
Uncrossed == Calling /\ MeIs /\ BookStands /\ Owing /\ Asked

IInv == Always /\ (crossed \/ Uncrossed)

\* A book with nobody in it, and a call about it.
LEMMA Nothing == [list |-> <<>>, active |-> Nobody] \in Books /\ NoCall \in CallSet /\ NoCall \in PairSet
  <1>1. [list |-> <<>>, active |-> Nobody] \in Books
    BY DEF Books, IsInjective
  <1> QED
    BY <1>1 DEF NoCall, CallSet, PairSet, Calls

\* What CanRemove may remove is listed and is not the active person.
LEMMA MayRemove ==
    ASSUME NEW b \in Books, NEW p, CanRemove(b, p)
    PROVE  p \in Range(b.list) /\ p \in People /\ p # b.active
  BY DEF CanRemove, Books, Range

\* What a deletion of folders takes: a save is there as it was or not at all, and
\* one that is there still is owed, or has no marker, as much as before.
LEMMA Deletes ==
    ASSUME AccountsAssumption, Types, NEW gone, NEW saves, NEW markers,
           Delete(gone, saves, markers)
    PROVE  /\ save' \in [People -> 0 .. MaxSaves] /\ unmarked' \subseteq People
           /\ folders' = folders \ gone /\ owed' = owed \ (gone \cup markers)
           /\ \A p \in People :
                 /\ save'[p] = IF p \in gone \cup saves THEN 0 ELSE save[p]
                 /\ save'[p] # 0 /\ p \in owed \cup unmarked => p \in owed' \cup unmarked'
  <1>1. 0 \in 0 .. MaxSaves
    BY DEF AccountsAssumption
  <1>2. \A p \in People : save'[p] = IF p \in gone \cup saves THEN 0 ELSE save[p]
    BY DEF Delete
  <1>3. save' \in [People -> 0 .. MaxSaves]
    BY <1>1 DEF Delete, Types
  <1> QED
    BY <1>2, <1>3 DEF Delete, Types

LEMMA FoldersGo ==
    ASSUME AccountsAssumption, Types, RemoveFolder \/ ClearFolders
    PROVE  /\ save' \in [People -> 0 .. MaxSaves] /\ unmarked' \subseteq People
           /\ folders' \subseteq folders /\ owed' \subseteq owed
           /\ \A p \in People :
                 /\ save'[p] \in {0, save[p]}
                 /\ save'[p] # 0 /\ p \in owed \cup unmarked => p \in owed' \cup unmarked'
           /\ RemoveFolder => \A p \in People : p # call.who => save'[p] = save[p]
  <1>1. CASE RemoveFolder
    <2>1. PICK gone \in SUBSET {call.who}, saves \in SUBSET {call.who},
               markers \in SUBSET {call.who} : Delete(gone, saves, markers)
      BY <1>1 DEF RemoveFolder
    <2> QED
      BY <2>1, Deletes
  <1>2. CASE ClearFolders
    <2>1. PICK gone, saves, markers : Delete(gone, saves, markers)
      BY <1>2 DEF ClearFolders
    <2>2. ~RemoveFolder
      BY <1>2 DEF ClearFolders, RemoveFolder
    <2> QED
      BY <2>1, <2>2, Deletes
  <1> QED
    BY <1>1, <1>2

\* Another person to be active.
LEMMA Activated ==
    ASSUME NEW b \in Books, NEW p \in People
    PROVE  /\ [b EXCEPT !.active = p] \in Books
           /\ [b EXCEPT !.active = p].list = b.list /\ [b EXCEPT !.active = p].active = p
  BY DEF Books

\* Whoever is taken out of it, what is left is a book.
LEMMA WithoutType ==
    ASSUME NEW b \in Books, NEW p
    PROVE  Without(b, p) \in Books
  <1> DEFINE r == RemoveFirst(b.list, p)
  <1>1. b.list \in Seq(People) /\ IsInjective(b.list) /\ b.active \in People \cup {Nobody}
    BY DEF Books
  <1>2. r \in Seq(People) /\ IsInjective(r)
    <2>1. CASE p \in Range(b.list)
      BY <1>1, <2>1, RemovedIs
    <2>2. CASE p \notin Range(b.list)
      BY <1>1, <2>2 DEF Range, RemoveFirst
    <2> QED
      BY <2>1, <2>2
  <1> HIDE DEF r
  <1>3. r # <<>> => r[1] \in People
    BY <1>2
  <1> QED
    BY <1>1, <1>2, <1>3 DEF Without, Books, r

\* The book is one in which nobody is twice.
LEMMA BookTypes ==
    ASSUME AccountsAssumption, Types, Stages, Next
    PROVE  book' \in Books
  <1> USE DEF disk, threads, bounds, history
  <1>1. CASE UNCHANGED book
    BY <1>1 DEF Types
  <1>2. CASE \E p \in People : FirstRun(p)
    BY <1>2, WithIs DEF FirstRun, Types
  <1>3. CASE Activate
    BY <1>3, Activated DEF Activate, Write, Types, Stages, Clearing, CallSet
  <1>4. CASE WriteBack
    BY <1>4, Activated DEF WriteBack, Write, Types, Stages, Clearing, CallSet
  <1>5. CASE PairWritesBook
    BY <1>5, WithIs DEF PairWritesBook, Write, Types, Stages, PairSet
  <1>6. CASE RemoveWritesBook
    BY <1>6, WithoutType DEF RemoveWritesBook, Write, Types, CallSet
  <1>7. CASE ClearBook
    BY <1>7, Nothing DEF ClearBook, Types
  <1> QED
    BY <1>1, <1>2, <1>3, <1>4, <1>5, <1>6, <1>7
       DEF Next, WriteSave, PushSave, Resend, UploadEnds, SwitchAccount, PairApproved,
           StartRemove, SwitchBack, SetColour, PairWritesLogin, StartSignOut,
           SendNext, SendOne, SendClears, SendCounts, TakeAsks, TakeLeaves,
           TakeRemoves, AnswerCancel, AnswerSignOut, AnswerRemove,
           RemoveFolder, RemoveReads, RemoveLogin, LeaveEnds, Quit, PowerCut,
           Start, ClearFolders, ClearLogins, ClearMark, Off, Press, Delete,
           Loses, Passes

\* Logins and folders are people's, and their saves are numbered.
LEMMA DiskTypes ==
    ASSUME AccountsAssumption, Types, Stages, Next
    PROVE  /\ logins' \subseteq People /\ folders' \subseteq People /\ owed' \subseteq People
           /\ save' \in [People -> 0 .. MaxSaves] /\ made' \in 0 .. MaxSaves
           /\ mark' \in {"done", "asked", "cleared"}
  <1> USE DEF disk, threads, bounds, history
  <1>1. 0 \in 0 .. MaxSaves
    BY DEF AccountsAssumption
  <1>2. CASE UNCHANGED <<logins, folders, owed, save, made, mark>>
    BY <1>2 DEF Types
  <1>3. CASE WriteSave
    <2>1. me \in People /\ made + 1 \in 0 .. MaxSaves
      BY <1>3 DEF WriteSave, Free, On, Types, AccountsAssumption
    <2> QED
      BY <1>3, <2>1 DEF WriteSave, Types
  <1>16. CASE PushSave
    BY <1>16 DEF PushSave, On, Types
  <1>4. CASE UploadEnds
    BY <1>1, <1>4 DEF UploadEnds, Types
  <1>5. CASE \E p \in People : FirstRun(p)
    BY <1>1, <1>5 DEF FirstRun, Types
  <1>6. CASE Activate
    BY <1>1, <1>6 DEF Activate, Write, NoCall, Stages, Clearing, Types
  <1>7. CASE PairWritesLogin
    BY <1>1, <1>7 DEF PairWritesLogin, Stages, Types
  <1>8. CASE SendClears
    BY <1>1, <1>8 DEF SendClears, Passes, Types
  <1>9. CASE RemoveFolder
    BY <1>9, FoldersGo DEF RemoveFolder, Types
  <1>10. CASE RemoveLogin
    BY <1>1, <1>10 DEF RemoveLogin, NoCall, Types
  <1>11. CASE LeaveEnds
    BY <1>1, <1>11 DEF LeaveEnds, Types
  <1>12. CASE Start
    BY <1>1, <1>12 DEF Start, Types
  <1>13. CASE ClearFolders
    BY <1>13, FoldersGo DEF ClearFolders, Types
  <1>14. CASE ClearLogins
    BY <1>1, <1>14 DEF ClearLogins, Types
  <1>15. CASE ClearMark
    BY <1>1, <1>15 DEF ClearMark, NoCall, Types
  <1> QED
    BY <1>16, <1>2, <1>3, <1>4, <1>5, <1>6, <1>7, <1>8, <1>9, <1>10, <1>11, <1>12,
       <1>13, <1>14, <1>15
       DEF Next, Resend, SwitchAccount, PairApproved, StartRemove, SwitchBack,
           SetColour, WriteBack, PairWritesBook, StartSignOut, SendNext,
           SendOne, SendCounts, TakeAsks, TakeLeaves, TakeRemoves,
           AnswerCancel, AnswerSignOut, AnswerRemove, RemoveReads,
           RemoveWritesBook, Quit, PowerCut, ClearBook, Off, Write, Press,
           Passes

\* What RomM has and what goes up are saves.
LEMMA RommTypes ==
    ASSUME AccountsAssumption, Types, Stages, Next
    PROVE  romm' \in [People -> 0 .. MaxSaves] /\ up' \in 0 .. MaxSaves
  <1> USE DEF disk, threads, bounds, history
  <1>1. 0 \in 0 .. MaxSaves
    BY DEF AccountsAssumption
  <1>2. CASE UNCHANGED <<romm, up>>
    BY <1>2 DEF Types
  <1>3. CASE PushSave
    BY <1>3 DEF PushSave, On, Types
  <1>4. CASE Resend
    BY <1>4 DEF Resend, On, Types
  <1>5. CASE UploadEnds
    BY <1>1, <1>5 DEF UploadEnds, Types
  <1>6. CASE SendOne
    BY <1>6 DEF SendOne, Types, JobSet
  <1>7. CASE Quit
    BY <1>1, <1>7 DEF Quit, Off, NoCall, NoJob, NoAsk, Types
  <1>8. CASE PowerCut
    BY <1>1, <1>8 DEF PowerCut, Off, NoCall, NoJob, NoAsk, Types
  <1> QED
    BY <1>2, <1>3, <1>4, <1>5, <1>6, <1>7, <1>8
       DEF Next, WriteSave, SwitchAccount, PairApproved, StartRemove, FirstRun, Activate,
           SwitchBack, SetColour, WriteBack, PairWritesLogin, PairWritesBook,
           StartSignOut, SendNext, SendClears, SendCounts, TakeAsks,
           TakeLeaves, TakeRemoves, AnswerCancel, AnswerSignOut, AnswerRemove,
           RemoveFolder, RemoveReads, RemoveWritesBook, RemoveLogin,
           LeaveEnds, Start, ClearFolders, ClearBook, ClearLogins, ClearMark,
           Write, Press, Delete, Loses, Passes

\* A call is about somebody and a book.
LEMMA CallTypes ==
    ASSUME AccountsAssumption, Types, Stages, Next
    PROVE  call' \in CallSet
  <1> USE DEF disk, threads, bounds, history
  <1>1. NoCall \in CallSet
    BY Nothing
  <1>2. CASE UNCHANGED call
    BY <1>2 DEF Types, CallSet, Calls
  <1>20. CASE WriteSave
    BY <1>1, <1>20 DEF WriteSave, Free, Types, CallSet, Calls
  <1>21. CASE PushSave
    BY <1>1, <1>21 DEF PushSave
  <1>22. CASE \E p \in People : FirstRun(p)
    BY <1>1, <1>22 DEF FirstRun
  <1>3. CASE \E p \in People : SwitchAccount(p)
    BY <1>1, <1>3 DEF SwitchAccount, Press, Free, Types, CallSet, Calls
  <1>4. CASE Activate
    BY <1>1, <1>4 DEF Activate, Write, NoCall, Types, CallSet, Calls
  <1>5. CASE SwitchBack
    BY <1>1, <1>5 DEF SwitchBack, Types, CallSet, Calls
  <1>6. CASE SetColour
    BY <1>6 DEF SetColour, Types, Books, CallSet, Calls
  <1>7. CASE WriteBack
    BY <1>1, <1>7 DEF WriteBack
  <1>8. CASE TakeRemoves
    BY <1>1, <1>8 DEF TakeRemoves, Types, CallSet, Calls, JobSet
  <1>9. CASE AnswerRemove
    BY <1>1, <1>9 DEF AnswerRemove, Types, CallSet, Calls, AskSet
  <1>10. CASE RemoveFolder
    BY <1>1, <1>10 DEF RemoveFolder, Loses, Delete, NoCall, Types, CallSet,
        Calls
  <1>11. CASE RemoveReads
    BY <1>1, <1>11 DEF RemoveReads, NoCall, Types, CallSet, Calls
  <1>12. CASE RemoveWritesBook
    BY <1>1, <1>12 DEF RemoveWritesBook, Write, Types, CallSet, Calls
  <1>13. CASE RemoveLogin
    BY <1>1, <1>13 DEF RemoveLogin, NoCall, Types, CallSet, Calls
  <1>14. CASE Quit
    BY <1>1, <1>14 DEF Quit, Off, NoCall, NoJob, NoAsk, Types, CallSet, Calls
  <1>15. CASE PowerCut
    BY <1>1, <1>15 DEF PowerCut, Off, NoCall, NoJob, NoAsk, Types, CallSet,
        Calls
  <1>16. CASE ClearFolders
    BY <1>1, <1>16 DEF ClearFolders, Loses, Delete, NoCall, Types, CallSet,
        Calls
  <1>17. CASE ClearBook
    BY <1>1, <1>17 DEF ClearBook, Types, CallSet, Calls
  <1>18. CASE ClearLogins
    BY <1>1, <1>18 DEF ClearLogins, Types, CallSet, Calls
  <1>19. CASE ClearMark
    BY <1>1, <1>19 DEF ClearMark, NoCall, Types, CallSet, Calls
  <1> QED
    BY <1>20, <1>21, <1>22, <1>2, <1>3, <1>4, <1>5, <1>6, <1>7, <1>8, <1>9, <1>10, <1>11, <1>12,
       <1>13, <1>14, <1>15, <1>16, <1>17, <1>18, <1>19
       DEF Next, Resend, UploadEnds, PairApproved, StartRemove,
           PairWritesLogin, PairWritesBook, StartSignOut, SendNext,
           SendOne, SendClears, SendCounts, TakeAsks, TakeLeaves,
           AnswerCancel, AnswerSignOut, LeaveEnds, Start, Write, Press, Passes

\* So is a pairing.
LEMMA PairTypes ==
    ASSUME AccountsAssumption, Types, Stages, Next
    PROVE  pairing' \in PairSet
  <1> USE DEF disk, threads, bounds, history
  <1>1. NoCall \in PairSet
    BY Nothing
  <1>2. CASE UNCHANGED pairing
    BY <1>2 DEF Types, PairSet
  <1>3. CASE \E p \in People : PairApproved(p)
    BY <1>1, <1>3 DEF PairApproved, Types, PairSet
  <1>4. CASE PairWritesLogin
    BY <1>1, <1>4 DEF PairWritesLogin, Types, PairSet
  <1>5. CASE PairWritesBook
    BY <1>1, <1>5 DEF PairWritesBook, Write, NoCall, Types, PairSet
  <1>6. CASE Quit
    BY <1>1, <1>6 DEF Quit, Off, NoCall, NoJob, NoAsk, Types, PairSet
  <1>7. CASE PowerCut
    BY <1>1, <1>7 DEF PowerCut, Off, NoCall, NoJob, NoAsk, Types, PairSet
  <1> QED
    BY <1>2, <1>3, <1>4, <1>5, <1>6, <1>7
       DEF Next, WriteSave, PushSave, Resend, UploadEnds, SwitchAccount, StartRemove,
           FirstRun, Activate, SwitchBack, SetColour, WriteBack, StartSignOut,
           SendNext, SendOne, SendClears, SendCounts, TakeAsks, TakeLeaves,
           TakeRemoves, AnswerCancel, AnswerSignOut, AnswerRemove,
           RemoveFolder, RemoveReads, RemoveWritesBook, RemoveLogin,
           LeaveEnds, Start, ClearFolders, ClearBook, ClearLogins, ClearMark,
           Write, Press, Delete, Loses, Passes

\* A sending has people to do and a number of what it left.
LEMMA JobTypes ==
    ASSUME AccountsAssumption, Types, Stages, Working, Next
    PROVE  job' \in JobSet
  <1> USE DEF disk, threads, bounds, history
  <1>1. NoJob \in JobSet
    BY DEF NoJob, JobSet, AccountsAssumption
  <1>2. CASE UNCHANGED job
    BY <1>2 DEF Types, JobSet
  <1>3. CASE \E p \in People : StartRemove(p)
    <2>1. PICK p \in People : job' = [NoJob EXCEPT !.at = "next", !.who = p, !.todo = <<p>>]
      BY <1>3 DEF StartRemove
    <2>2. <<p>> \in Seq(People)
      OBVIOUS
    <2> QED
      BY <1>1, <2>1, <2>2 DEF JobSet
  <1>4. CASE StartSignOut
    <2>1. book.list \in Seq(People)
      BY DEF Types, Books
    <2> QED
      BY <1>1, <1>4, <2>1 DEF StartSignOut, JobSet
  <1>5. CASE SendNext
    <2>1. job.todo \in Seq(People) /\ job.todo # <<>>
      BY <1>5 DEF SendNext, Types, JobSet
    <2>2. Head(job.todo) \in People /\ Tail(job.todo) \in Seq(People)
      BY <2>1, HeadTailProperties
    <2>3. save[Head(job.todo)] \in 0 .. MaxSaves
      BY <2>2 DEF Types
    <2> QED
      BY <1>5, <2>2, <2>3 DEF SendNext, Types, JobSet
  <1>6. CASE SendOne
    BY <1>1, <1>6 DEF SendOne, Passes, Types, JobSet
  <1>7. CASE SendClears
    BY <1>1, <1>7 DEF SendClears, Passes, Types, JobSet
  <1>8. CASE SendCounts
    <2>1. job.todo \in Seq(People) /\ job.left \in Nat /\ job.todo # <<>>
      BY <1>8 DEF SendCounts, Types, JobSet, Working
    <2>2. Tail(job.todo) \in Seq(People)
      BY <2>1, HeadTailProperties
    <2> QED
      <3>1. \A n \in {0, 1} : job.left + n \in Nat
        BY <2>1
      <3>2. job' = [job EXCEPT !.at = "next", !.todo = Tail(job.todo),
                               !.left = job.left + IF Head(job.todo) \in owed THEN 1 ELSE 0]
        BY <1>8 DEF SendCounts
      <3> QED
        BY <2>1, <2>2, <3>1, <3>2 DEF Types, JobSet
  <1>9. CASE TakeAsks
    BY <1>1, <1>9 DEF TakeAsks, Free, JobDone, NoJob, Types, JobSet
  <1>10. CASE TakeLeaves
    BY <1>1, <1>10 DEF TakeLeaves, Free, JobDone, NoJob, Types, JobSet
  <1>11. CASE TakeRemoves
    BY <1>1, <1>11 DEF TakeRemoves, Free, JobDone, NoJob, NoCall, Types,
        JobSet
  <1>12. CASE Quit
    BY <1>1, <1>12 DEF Quit, Off, NoCall, NoJob, NoAsk, Types, JobSet
  <1>13. CASE PowerCut
    BY <1>1, <1>13 DEF PowerCut, Off, NoCall, NoJob, NoAsk, Types, JobSet
  <1> QED
    BY <1>2, <1>3, <1>4, <1>5, <1>6, <1>7, <1>8, <1>9, <1>10, <1>11, <1>12,
       <1>13
       DEF Next, WriteSave, PushSave, Resend, UploadEnds, SwitchAccount, PairApproved,
           FirstRun, Activate, SwitchBack, SetColour, WriteBack,
           PairWritesLogin, PairWritesBook, AnswerCancel, AnswerSignOut,
           AnswerRemove, RemoveFolder, RemoveReads, RemoveWritesBook,
           RemoveLogin, LeaveEnds, Start, ClearFolders, ClearBook,
           ClearLogins, ClearMark, Write, Press, Delete, Loses

\* A question and the console are about somebody or nobody.
LEMMA AskTypes ==
    ASSUME AccountsAssumption, Types, Stages, Next
    PROVE  ask' \in AskSet /\ me' \in People \cup {Nobody}
  <1> USE DEF disk, threads, bounds, history
  <1>1. NoAsk \in AskSet
    BY DEF NoAsk, AskSet
  <1>2. CASE UNCHANGED <<ask, me>>
    BY <1>2 DEF Types, AskSet
  <1>3. CASE Activate
    BY <1>1, <1>3 DEF Activate, Write, NoCall, Stages, Clearing, Types, AskSet
  <1>4. CASE TakeAsks
    BY <1>1, <1>4 DEF TakeAsks, Free, JobDone, NoJob, JobSet, Types, AskSet
  <1>5. CASE AnswerCancel
    BY <1>1, <1>5 DEF AnswerCancel, NoAsk, Types, AskSet
  <1>6. CASE AnswerSignOut
    BY <1>1, <1>6 DEF AnswerSignOut, NoAsk, Types, AskSet
  <1>7. CASE AnswerRemove
    BY <1>1, <1>7 DEF AnswerRemove, NoAsk, NoCall, Types, AskSet
  <1>8. CASE Quit
    BY <1>1, <1>8 DEF Quit, Off, NoCall, NoJob, NoAsk, Types, AskSet
  <1>9. CASE PowerCut
    BY <1>1, <1>9 DEF PowerCut, Off, NoCall, NoJob, NoAsk, Types, AskSet
  <1>10. CASE Start
    BY <1>1, <1>10 DEF Start, Types, AskSet
  <1> QED
    BY <1>2, <1>3, <1>4, <1>5, <1>6, <1>7, <1>8, <1>9, <1>10
       DEF Next, WriteSave, PushSave, Resend, UploadEnds, SwitchAccount, PairApproved,
           StartRemove, FirstRun, SwitchBack, SetColour, WriteBack,
           PairWritesLogin, PairWritesBook, StartSignOut, SendNext, SendOne,
           SendClears, SendCounts, TakeLeaves, TakeRemoves, RemoveFolder,
           RemoveReads, RemoveWritesBook, RemoveLogin, LeaveEnds,
           ClearFolders, ClearBook, ClearLogins, ClearMark, Write, Press,
           Delete, Loses, Passes

\* What is remembered of saves and sign outs is of people and of three things.
LEMMA HistoryTypes ==
    ASSUME AccountsAssumption, Types, Stages, Next
    PROVE  unmarked' \subseteq People /\ stuck' \subseteq {"folders", "book", "logins"}
  <1> USE DEF disk, threads, bounds, history
  <1>1. CASE UNCHANGED <<unmarked, stuck>>
    BY <1>1 DEF Types
  <1>2. CASE PushSave
    BY <1>2 DEF PushSave, On, Types
  <1>3. CASE UploadEnds
    BY <1>3 DEF UploadEnds, Types
  <1>4. CASE RemoveFolder
    BY <1>4, FoldersGo DEF RemoveFolder, Types
  <1>5. CASE Quit \/ PowerCut
    <2>1. call.at = "push" => me \in People
      BY DEF Types, Stages, Clearing, On
    <2>2. /\ unmarked' \subseteq unmarked \cup (IF call.at = "push" THEN {me} ELSE {})
          /\ stuck' = stuck
      BY <1>5 DEF Quit, PowerCut, Off
    <2> QED
      BY <2>1, <2>2 DEF Types
  <1>6. CASE ClearFolders
    <2>1. stuck' \subseteq stuck \cup {"folders"}
      BY <1>6 DEF ClearFolders
    <2> QED
      BY <1>6, <2>1, FoldersGo DEF Types
  <1>7. CASE ClearBook
    BY <1>7 DEF ClearBook, Types
  <1>8. CASE ClearLogins
    BY <1>8 DEF ClearLogins, Types
  <1> QED
    BY <1>1, <1>2, <1>3, <1>4, <1>5, <1>6, <1>7, <1>8
       DEF Next, WriteSave, Resend, SwitchAccount, PairApproved, StartRemove, FirstRun,
           Activate, SwitchBack, SetColour, WriteBack, PairWritesLogin, PairWritesBook,
           StartSignOut, SendNext, SendOne, SendClears, SendCounts, TakeAsks, TakeLeaves,
           TakeRemoves, AnswerCancel, AnswerSignOut, AnswerRemove, RemoveReads,
           RemoveWritesBook, RemoveLogin, LeaveEnds, Start, ClearMark

LEMMA TypeStep == ASSUME AccountsAssumption, Types, Stages, Working, Next PROVE Types'
  BY BookTypes, DiskTypes, RommTypes, CallTypes, PairTypes, JobTypes, AskTypes, HistoryTypes
     DEF Types

\* A list of one person.
LEMMA Single == \A x : Head(<<x>>) = x /\ Tail(<<x>>) = <<>> /\ <<x>> # <<>>
  OBVIOUS

\* Calls, pairings and sendings are a console's that is on, a clearing one's that is off.
LEMMA StagesStep ==
    ASSUME AccountsAssumption, Types, Stages, Next
    PROVE  Stages'
  <1> USE DEF disk, threads, bounds, history
  <1>1. CASE UNCHANGED <<call, pairing, me, mark, job, ask, up>>
    BY <1>1 DEF Stages, Clearing, On
  <1>2. CASE WriteSave
    BY <1>2 DEF WriteSave, Free, NoCall, Types, Stages, Clearing, On
  <1>38. CASE PushSave
    BY <1>38 DEF PushSave, NoCall, Stages, Clearing, On
  <1>3. CASE Resend
    BY <1>3 DEF Resend, Stages, Clearing, On
  <1>4. CASE UploadEnds
    BY <1>4 DEF UploadEnds, Stages, Clearing, On
  <1>5. CASE \E p \in People : SwitchAccount(p)
    BY <1>5 DEF SwitchAccount, Press, Free, Stages, Clearing, On
  <1>6. CASE \E p \in People : PairApproved(p)
    BY <1>6 DEF PairApproved, Stages, Clearing, On
  <1>7. CASE \E p \in People : StartRemove(p)
    BY <1>7 DEF StartRemove, Press, Free, NoJob, Stages, Clearing, On
  <1>8. CASE \E p \in People : FirstRun(p)
    BY <1>8 DEF FirstRun, NoCall, Stages, Clearing, On
  <1>9. CASE Activate
    <2>1. call.who \in People /\ me \in People
      BY <1>9 DEF Activate, Types, Stages, Clearing, On
    <2>2. /\ me' \in People /\ call'.at \in {"idle", "refused"}
          /\ call'.at = "refused" => call'.who = call.who
      BY <1>9, <2>1 DEF Activate, NoCall, Types, CallSet
    <2>3. On' /\ UNCHANGED <<mark, pairing, job, ask, up>>
      BY <1>9, <2>2 DEF Activate, On, AccountsAssumption
    <2> QED
      BY <2>1, <2>2, <2>3 DEF Stages, Clearing
  <1>10. CASE SwitchBack
    <2>1. On /\ call.at = "refused" /\ call.read.active \in Listed \cap logins => call.read.active \in People
      BY DEF Types
    <2> QED
      BY <1>10, <2>1 DEF SwitchBack, NoCall, Stages, Clearing, On
  <1>11. CASE SetColour
    <2>1. book.active \in People
      BY <1>11 DEF SetColour, Types, Books
    <2> QED
      BY <1>11, <2>1 DEF SetColour, Press, Free, Stages, Clearing, On
  <1>12. CASE WriteBack
    BY <1>12 DEF WriteBack, Write, NoCall, Stages, Clearing, On
  <1>13. CASE PairWritesLogin
    BY <1>13 DEF PairWritesLogin, Stages, Clearing, On
  <1>14. CASE PairWritesBook
    BY <1>14 DEF PairWritesBook, Write, NoCall, Stages, Clearing, On
  <1>15. CASE StartSignOut
    BY <1>15 DEF StartSignOut, Press, Free, NoJob, Stages, Clearing, On
  <1>16. CASE SendNext
    BY <1>16 DEF SendNext, Types, JobSet, Stages, Clearing, On
  <1>17. CASE SendOne
    BY <1>17 DEF SendOne, Passes, Stages, Clearing, On
  <1>18. CASE SendClears
    BY <1>18 DEF SendClears, Passes, Stages, Clearing, On
  <1>19. CASE SendCounts
    BY <1>19 DEF SendCounts, Stages, Clearing, On
  <1>20. CASE TakeAsks
    BY <1>20 DEF TakeAsks, Free, JobDone, NoJob, Stages, Clearing, On
  <1>21. CASE TakeLeaves
    BY <1>21 DEF TakeLeaves, Free, JobDone, NoJob, Stages, Clearing, On
  <1>22. CASE TakeRemoves
    <2>1. CanRemove(book, job.who) => job.who \in People
      BY MayRemove DEF Types
    <2> QED
      BY <1>22, <2>1 DEF TakeRemoves, Free, NoJob, NoCall, Stages, Clearing, On
  <1>23. CASE AnswerCancel
    BY <1>23 DEF AnswerCancel, NoAsk, Stages, Clearing, On
  <1>24. CASE AnswerSignOut
    BY <1>24 DEF AnswerSignOut, NoAsk, Stages, Clearing, On
  <1>25. CASE AnswerRemove
    <2>1. CanRemove(book, ask.who) => ask.who \in People
      BY MayRemove DEF Types
    <2> QED
      BY <1>25, <2>1 DEF AnswerRemove, NoAsk, NoCall, Stages, Clearing, On
  <1>26. CASE RemoveFolder
    BY <1>26 DEF RemoveFolder, Loses, Delete, NoCall, Types, CallSet, Stages,
        Clearing, On
  <1>27. CASE RemoveReads
    BY <1>27 DEF RemoveReads, NoCall, Stages, Clearing, On
  <1>28. CASE RemoveWritesBook
    BY <1>28 DEF RemoveWritesBook, Write, Stages, Clearing, On
  <1>29. CASE RemoveLogin
    BY <1>29 DEF RemoveLogin, NoCall, Stages, Clearing, On
  <1>30. CASE LeaveEnds
    BY <1>30 DEF LeaveEnds, Stages, Clearing, On
  <1>31. CASE Quit
    BY <1>31 DEF Quit, Off, NoCall, NoJob, NoAsk, Stages, Clearing, On
  <1>32. CASE PowerCut
    BY <1>32 DEF PowerCut, Off, NoCall, NoJob, NoAsk, Stages, Clearing, On
  <1>33. CASE Start
    BY <1>33 DEF Start, Types, AccountsAssumption, Stages, Clearing, On
  <1>34. CASE ClearFolders
    BY <1>34 DEF ClearFolders, Loses, Delete, NoCall, Stages, Clearing, On
  <1>35. CASE ClearBook
    BY <1>35 DEF ClearBook, Stages, Clearing, On
  <1>36. CASE ClearLogins
    BY <1>36 DEF ClearLogins, Stages, Clearing, On
  <1>37. CASE ClearMark
    BY <1>37 DEF ClearMark, NoCall, Stages, Clearing, On
  <1> QED
    BY <1>38, <1>1, <1>2, <1>3, <1>4, <1>5, <1>6, <1>7, <1>8, <1>9, <1>10, <1>11,
       <1>12, <1>13, <1>14, <1>15, <1>16, <1>17, <1>18, <1>19, <1>20, <1>21,
       <1>22, <1>23, <1>24, <1>25, <1>26, <1>27, <1>28, <1>29, <1>30, <1>31,
       <1>32, <1>33, <1>34, <1>35, <1>36, <1>37
       DEF Next

\* A clearing takes out the folders, the book and the logins in that order, and
\* nothing is put in while it goes.
LEMMA ClearedStep ==
    ASSUME Types, Stages, Cleared, Next
    PROVE  Cleared'
  <1> USE DEF disk, threads, bounds, history
  <1>1. CASE UNCHANGED <<call, folders, book, logins, mark, me, stuck>>
    BY <1>1 DEF Cleared, NoFolders, NoBook, NoLogins, Stages, Clearing, On
  <1>2. CASE WriteSave
    BY <1>2 DEF WriteSave, Free, NoCall, Cleared, Stages, Clearing, On
  <1>25. CASE PushSave
    BY <1>25 DEF PushSave, NoCall, Cleared, Stages, Clearing, On
  <1>3. CASE \E p \in People : SwitchAccount(p)
    BY <1>3 DEF SwitchAccount, Press, Free, Cleared, Stages, Clearing, On
  <1>4. CASE \E p \in People : FirstRun(p)
    BY <1>4 DEF FirstRun, NoCall, Cleared, Stages, Clearing, On
  <1>5. CASE Activate
    BY <1>5 DEF Activate, Write, NoCall, Types, CallSet, Cleared, Stages,
        Clearing, On
  <1>6. CASE SwitchBack
    BY <1>6 DEF SwitchBack, NoCall, Cleared, Stages, Clearing, On
  <1>7. CASE SetColour
    BY <1>7 DEF SetColour, Press, Free, Cleared, Stages, Clearing, On
  <1>8. CASE WriteBack
    BY <1>8 DEF WriteBack, Write, NoCall, Cleared, Stages, Clearing, On
  <1>9. CASE PairWritesLogin
    BY <1>9 DEF PairWritesLogin, Cleared, Stages, Clearing, On
  <1>10. CASE PairWritesBook
    BY <1>10 DEF PairWritesBook, Write, NoCall, Cleared, Stages, Clearing, On
  <1>11. CASE TakeRemoves
    BY <1>11 DEF TakeRemoves, Free, JobDone, NoJob, NoCall, Cleared, Stages,
        Clearing, On
  <1>12. CASE AnswerRemove
    BY <1>12 DEF AnswerRemove, NoAsk, NoCall, Cleared, Stages, Clearing, On
  <1>13. CASE RemoveFolder
    BY <1>13 DEF RemoveFolder, Loses, Delete, NoCall, Types, CallSet, Cleared,
        Stages, Clearing, On
  <1>14. CASE RemoveReads
    BY <1>14 DEF RemoveReads, NoCall, Types, CallSet, Cleared, Stages,
        Clearing, On
  <1>15. CASE RemoveWritesBook
    BY <1>15 DEF RemoveWritesBook, Write, Types, CallSet, Cleared, Stages,
        Clearing, On
  <1>16. CASE RemoveLogin
    BY <1>16 DEF RemoveLogin, NoCall, Cleared, Stages, Clearing, On
  <1>17. CASE LeaveEnds
    BY <1>17 DEF LeaveEnds, Cleared, Stages, Clearing, On
  <1>18. CASE Quit
    BY <1>18 DEF Quit, Off, NoCall, NoJob, NoAsk, Cleared, Stages, Clearing,
        On
  <1>19. CASE PowerCut
    BY <1>19 DEF NoFolders, NoBook, NoLogins, PowerCut, Off, NoCall, NoJob, NoAsk, Cleared, Stages,
        Clearing, On
  <1>20. CASE Start
    BY <1>20 DEF Start, Cleared, Stages, Clearing, On
  <1>21. CASE ClearFolders
    BY <1>21 DEF NoFolders, NoBook, NoLogins, ClearFolders, Loses, Delete, NoCall, Cleared, Stages,
        Clearing, On
  <1>22. CASE ClearBook
    BY <1>22 DEF NoFolders, NoBook, NoLogins, ClearBook, Cleared, Stages, Clearing, On
  <1>23. CASE ClearLogins
    BY <1>23 DEF NoFolders, NoBook, NoLogins, ClearLogins, Cleared, Stages, Clearing, On
  <1>24. CASE ClearMark
    BY <1>24 DEF NoFolders, NoBook, NoLogins, ClearMark, NoCall, Cleared, Stages, Clearing, On
  <1> QED
    BY <1>25, <1>1, <1>2, <1>3, <1>4, <1>5, <1>6, <1>7, <1>8, <1>9, <1>10, <1>11,
       <1>12, <1>13, <1>14, <1>15, <1>16, <1>17, <1>18, <1>19, <1>20, <1>21,
       <1>22, <1>23, <1>24
       DEF Next, Resend, UploadEnds, PairApproved, StartRemove, StartSignOut,
           SendNext, SendOne, SendClears, SendCounts, TakeAsks, TakeLeaves,
           AnswerCancel, AnswerSignOut, Press, Passes

\* Nothing makes a folder between a removal's deletion of it and its book.
LEMMA FolderOutStep ==
    ASSUME Types, Stages, FolderOut, Next
    PROVE  FolderOut'
  <1> USE DEF disk, threads, bounds, history
  <1>1. CASE UNCHANGED <<call, folders>>
    BY <1>1 DEF FolderOut, Stages, Clearing, On
  <1>2. CASE WriteSave
    BY <1>2 DEF WriteSave, Free, NoCall, FolderOut, Stages, Clearing, On
  <1>21. CASE PushSave
    BY <1>21 DEF PushSave, NoCall, FolderOut, Stages, Clearing, On
  <1>22. CASE \E p \in People : FirstRun(p)
    BY <1>22 DEF FirstRun, NoCall, FolderOut
  <1>3. CASE \E p \in People : SwitchAccount(p)
    BY <1>3 DEF SwitchAccount, Press, Free, FolderOut, Stages, Clearing, On
  <1>4. CASE Activate
    BY <1>4 DEF Activate, Write, NoCall, Types, CallSet, FolderOut, Stages,
        Clearing, On
  <1>5. CASE SwitchBack
    BY <1>5 DEF SwitchBack, NoCall, FolderOut, Stages, Clearing, On
  <1>6. CASE SetColour
    BY <1>6 DEF SetColour, Press, Free, FolderOut, Stages, Clearing, On
  <1>7. CASE WriteBack
    BY <1>7 DEF WriteBack, Write, NoCall, FolderOut, Stages, Clearing, On
  <1>8. CASE TakeRemoves
    BY <1>8 DEF TakeRemoves, Free, JobDone, NoJob, NoCall, FolderOut, Stages,
        Clearing, On
  <1>9. CASE AnswerRemove
    BY <1>9 DEF AnswerRemove, NoAsk, NoCall, FolderOut, Stages, Clearing, On
  <1>10. CASE RemoveFolder
    BY <1>10 DEF RemoveFolder, Loses, Delete, NoCall, Types, CallSet,
        FolderOut, Stages, Clearing, On
  <1>11. CASE RemoveReads
    BY <1>11 DEF RemoveReads, NoCall, Types, CallSet, FolderOut, Stages,
        Clearing, On
  <1>12. CASE RemoveWritesBook
    BY <1>12 DEF RemoveWritesBook, Write, Types, CallSet, FolderOut, Stages,
        Clearing, On
  <1>13. CASE RemoveLogin
    BY <1>13 DEF RemoveLogin, NoCall, FolderOut, Stages, Clearing, On
  <1>14. CASE Quit
    BY <1>14 DEF Quit, Off, NoCall, NoJob, NoAsk, FolderOut, Stages, Clearing,
        On
  <1>15. CASE PowerCut
    BY <1>15 DEF PowerCut, Off, NoCall, NoJob, NoAsk, FolderOut, Stages,
        Clearing, On
  <1>16. CASE Start
    BY <1>16 DEF Start, FolderOut, Stages, Clearing, On
  <1>17. CASE ClearFolders
    BY <1>17 DEF ClearFolders, Loses, Delete, NoCall, FolderOut, Stages,
        Clearing, On
  <1>18. CASE ClearBook
    BY <1>18 DEF ClearBook, FolderOut, Stages, Clearing, On
  <1>19. CASE ClearLogins
    BY <1>19 DEF ClearLogins, FolderOut, Stages, Clearing, On
  <1>20. CASE ClearMark
    BY <1>20 DEF ClearMark, NoCall, FolderOut, Stages, Clearing, On
  <1> QED
    BY <1>21, <1>22, <1>1, <1>2, <1>3, <1>4, <1>5, <1>6, <1>7, <1>8, <1>9, <1>10, <1>11,
       <1>12, <1>13, <1>14, <1>15, <1>16, <1>17, <1>18, <1>19, <1>20
       DEF Next, Resend, UploadEnds, PairApproved, StartRemove,
           PairWritesLogin, PairWritesBook, StartSignOut, SendNext, SendOne,
           SendClears, SendCounts, TakeAsks, TakeLeaves, AnswerCancel,
           AnswerSignOut, LeaveEnds, Write, Press, Passes

\* A switch is not begun while a save goes up, and none is queued while it goes on.
LEMMA SendingStep ==
    ASSUME Types, Sending, Next
    PROVE  Sending'
  <1> USE DEF disk, threads, bounds, history
  <1>1. CASE UNCHANGED <<call, up>>
    BY <1>1 DEF Sending
  <1>2. CASE WriteSave
    BY <1>2 DEF WriteSave, Free, NoCall, Sending
  <1>22. CASE PushSave
    BY <1>22 DEF PushSave, NoCall, Sending
  <1>23. CASE \E p \in People : FirstRun(p)
    BY <1>23 DEF FirstRun, NoCall, Sending
  <1>3. CASE Resend
    BY <1>3 DEF Resend, Sending
  <1>4. CASE UploadEnds
    BY <1>4 DEF UploadEnds, Sending
  <1>5. CASE \E p \in People : SwitchAccount(p)
    BY <1>5 DEF SwitchAccount, Press, Free, Sending
  <1>6. CASE Activate
    BY <1>6 DEF Activate, Write, NoCall, Types, CallSet, Sending
  <1>7. CASE SwitchBack
    BY <1>7 DEF SwitchBack, NoCall, Sending
  <1>8. CASE SetColour
    BY <1>8 DEF SetColour, Press, Free, Sending
  <1>9. CASE WriteBack
    BY <1>9 DEF WriteBack, Write, NoCall, Sending
  <1>10. CASE TakeRemoves
    BY <1>10 DEF TakeRemoves, Free, JobDone, NoJob, NoCall, Sending
  <1>11. CASE AnswerRemove
    BY <1>11 DEF AnswerRemove, NoAsk, NoCall, Sending
  <1>12. CASE RemoveFolder
    BY <1>12 DEF RemoveFolder, Loses, Delete, NoCall, Types, CallSet, Sending
  <1>13. CASE RemoveReads
    BY <1>13 DEF RemoveReads, NoCall, Types, CallSet, Sending
  <1>14. CASE RemoveWritesBook
    BY <1>14 DEF RemoveWritesBook, Write, Types, CallSet, Sending
  <1>15. CASE RemoveLogin
    BY <1>15 DEF RemoveLogin, NoCall, Sending
  <1>16. CASE Quit
    BY <1>16 DEF Quit, Off, NoCall, NoJob, NoAsk, Sending
  <1>17. CASE PowerCut
    BY <1>17 DEF PowerCut, Off, NoCall, NoJob, NoAsk, Sending
  <1>18. CASE ClearFolders
    BY <1>18 DEF ClearFolders, Loses, Delete, NoCall, Sending
  <1>19. CASE ClearBook
    BY <1>19 DEF ClearBook, Sending
  <1>20. CASE ClearLogins
    BY <1>20 DEF ClearLogins, Sending
  <1>21. CASE ClearMark
    BY <1>21 DEF ClearMark, NoCall, Sending
  <1> QED
    BY <1>22, <1>23, <1>1, <1>2, <1>3, <1>4, <1>5, <1>6, <1>7, <1>8, <1>9, <1>10, <1>11,
       <1>12, <1>13, <1>14, <1>15, <1>16, <1>17, <1>18, <1>19, <1>20, <1>21
       DEF Next, PairApproved, StartRemove, PairWritesLogin,
           PairWritesBook, StartSignOut, SendNext, SendOne, SendClears,
           SendCounts, TakeAsks, TakeLeaves, AnswerCancel, AnswerSignOut,
           LeaveEnds, Start, Write, Press, Passes

\* A question is open only between sendings, and a removal's sending is of one person.
LEMMA WorkingStep ==
    ASSUME AccountsAssumption, Types, Stages, Working,
           Next
    PROVE  Working'
  <1> USE DEF disk, threads, bounds, history
  <1>1. 0 <= made
    BY DEF Types
  <1>2. CASE UNCHANGED <<ask, job, made, save, call>>
    BY <1>2 DEF Working
  <1>3. CASE WriteSave
    <2>1. me \in People /\ made \in Nat /\ job.sending \in Nat
      BY <1>3 DEF WriteSave, Free, On, Types, JobSet
    <2>2. \A p \in People : save'[p] = IF p = me THEN made + 1 ELSE save[p]
      BY <1>3, <2>1 DEF WriteSave, Types
    <2>3. \A p \in People : save[p] \in Nat
      BY DEF Types
    <2> QED
      BY <1>3, <2>1, <2>2, <2>3 DEF WriteSave, Free, Working
  <1>31. CASE PushSave
    BY <1>1, <1>31 DEF PushSave, NoCall, Working
  <1>32. CASE \E p \in People : FirstRun(p)
    BY <1>1, <1>32 DEF FirstRun, NoCall, Working
  <1>4. CASE \E p \in People : SwitchAccount(p)
    BY <1>1, <1>4 DEF SwitchAccount, Press, Free, Working
  <1>5. CASE \E p \in People : StartRemove(p)
    <2>1. PICK p \in People : StartRemove(p)
      BY <1>5
    <2> QED
      BY <2>1 DEF StartRemove, Press, Free, NoJob, Working, Types
  <1>6. CASE Activate
    BY <1>1, <1>6 DEF Activate, Write, NoCall, Types, CallSet, Working
  <1>7. CASE SwitchBack
    BY <1>1, <1>7 DEF SwitchBack, NoCall, Working
  <1>8. CASE SetColour
    BY <1>1, <1>8 DEF SetColour, Press, Free, Working
  <1>9. CASE WriteBack
    BY <1>1, <1>9 DEF WriteBack, Write, NoCall, Working
  <1>10. CASE StartSignOut
    BY <1>1, <1>10 DEF StartSignOut, Press, Free, NoJob, Types, JobSet,
        Working
  <1>11. CASE SendNext
    <2>1. job.todo \in Seq(People) /\ job.todo # <<>>
      BY <1>11 DEF SendNext, Types, JobSet
    <2>2. Head(job.todo) \in People
      BY <2>1, HeadTailProperties
    <2>3. ~job.everyone => Tail(job.todo) = <<>>
      BY <1>11, <2>1, Single DEF SendNext, Working
    <2> QED
      BY <1>11, <2>1, <2>2, <2>3 DEF SendNext, Working, Types, JobSet
  <1>12. CASE SendOne
    BY <1>1, <1>12 DEF SendOne, Passes, Types, JobSet, Working
  <1>13. CASE SendClears
    BY <1>1, <1>13 DEF SendClears, Passes, Types, JobSet, Working
  <1>14. CASE SendCounts
    <2>1. ~job.everyone => Tail(job.todo) = <<>>
      BY <1>14, Single DEF SendCounts, Working
    <2> QED
      BY <1>14, <2>1 DEF SendCounts, Working, Types, JobSet
  <1>15. CASE TakeAsks
    BY <1>1, <1>15 DEF TakeAsks, Free, JobDone, NoJob, Types, JobSet, Working
  <1>16. CASE TakeLeaves
    BY <1>1, <1>16 DEF TakeLeaves, Free, JobDone, NoJob, Types, JobSet,
        Working
  <1>17. CASE TakeRemoves
    BY <1>1, <1>17 DEF TakeRemoves, Free, JobDone, NoJob, NoCall, Types,
        JobSet, Working
  <1>18. CASE AnswerCancel
    BY <1>1, <1>18 DEF AnswerCancel, NoAsk, Working
  <1>19. CASE AnswerSignOut
    BY <1>1, <1>19 DEF AnswerSignOut, NoAsk, Working
  <1>20. CASE AnswerRemove
    BY <1>1, <1>20 DEF AnswerRemove, NoAsk, NoCall, Types, JobSet, Working
  <1>21. CASE RemoveFolder
    <2>1. \A p \in People : save'[p] \in {0, save[p]}
      BY <1>21, FoldersGo
    <2> QED
      BY <1>1, <1>21, <2>1 DEF RemoveFolder, Working, NoCall, Types, CallSet
  <1>22. CASE RemoveReads
    BY <1>1, <1>22 DEF RemoveReads, NoCall, Types, CallSet, Working
  <1>23. CASE RemoveWritesBook
    BY <1>1, <1>23 DEF RemoveWritesBook, Write, Types, CallSet, Working
  <1>24. CASE RemoveLogin
    BY <1>1, <1>24 DEF RemoveLogin, NoCall, Working
  <1>25. CASE Quit
    BY <1>1, <1>25 DEF Quit, Off, NoCall, NoJob, NoAsk, Types, JobSet, Working
  <1>26. CASE PowerCut
    BY <1>1, <1>26 DEF PowerCut, Off, NoCall, NoJob, NoAsk, Types, JobSet,
        Working
  <1>27. CASE ClearFolders
    <2>1. \A p \in People : save'[p] \in {0, save[p]}
      BY <1>27, FoldersGo
    <2> QED
      BY <1>1, <1>27, <2>1 DEF ClearFolders, Working, Stages
  <1>28. CASE ClearBook
    BY <1>1, <1>28 DEF ClearBook, Stages, Clearing, On, Working
  <1>29. CASE ClearLogins
    BY <1>1, <1>29 DEF ClearLogins, Stages, Clearing, On, Working
  <1>30. CASE ClearMark
    BY <1>1, <1>30 DEF ClearMark, NoCall, Stages, Clearing, On, Working
  <1> QED
    BY <1>31, <1>32, <1>2, <1>3, <1>4, <1>5, <1>6, <1>7, <1>8, <1>9, <1>10, <1>11, <1>12,
       <1>13, <1>14, <1>15, <1>16, <1>17, <1>18, <1>19, <1>20, <1>21, <1>22,
       <1>23, <1>24, <1>25, <1>26, <1>27, <1>28, <1>29, <1>30
       DEF Next, Resend, UploadEnds, PairApproved, PairWritesLogin,
           PairWritesBook, LeaveEnds, Start, Write

\* What a thread that was alone in the book wrote, it wrote to the book it read.
LEMMA WriteIs ==
    ASSUME NEW b, NEW from, Write(b, from), ~crossed'
    PROVE  book' = b /\ from = book /\ ~BothIn /\ ~crossed
  BY DEF Write

LEMMA EmptyRange == Range(<<>>) = {}
  BY DEF Range

\* A call and a pairing that are alone in the book go on with what they read.
LEMMA CallingStep ==
    ASSUME AccountsAssumption, Types, Stages, Cleared,
           Calling, MeIs, BookStands, Working, ~crossed', Next
    PROVE  Calling'
  <1> USE DEF disk, threads, bounds, history
  <1>1. CASE UNCHANGED <<call, pairing, book, logins, me>>
    BY <1>1 DEF Calling, Listed, CanRemove, Owner
  <1>2. CASE \E p \in People : SwitchAccount(p)
    <2>1. PICK p \in People : SwitchAccount(p)
      BY <1>2
    <2> QED
      BY <2>1 DEF SwitchAccount, Calling, Listed
  <1>3. CASE \E p \in People : PairApproved(p)
    <2>1. PICK p \in People : PairApproved(p)
      BY <1>3
    <2> QED
      BY <2>1 DEF PairApproved, Calling, Listed
  <1>24. CASE WriteSave
    BY <1>24 DEF WriteSave, Free, NoCall, Calling, Listed
  <1>25. CASE PushSave
    BY <1>25 DEF PushSave, NoCall, Calling
  <1>4. CASE \E p \in People : FirstRun(p)
    BY <1>4 DEF FirstRun, NoCall, Stages, Calling
  <1>5. CASE Activate
    <2>1. book = call.read /\ ~BothIn /\ call.at = "activate" /\ book' = [call.read EXCEPT !.active = call.who]
      BY <1>5, WriteIs DEF Activate
    <2>2. pairing.at = "idle" /\ book.active = me
      BY <1>5, <2>1 DEF BothIn, Activate, MeIs
    <2>3. \/ call' = NoCall
          \/ call' = [call EXCEPT !.at = "refused"] /\ me' = me
      BY <1>5 DEF Activate
    <2>4. call'.at = "idle" \/ (call'.at = "refused" /\ call'.read = call.read /\ me' = me)
      BY <2>3 DEF NoCall, Types, CallSet
    <2>5. pairing' = pairing
      BY <1>5 DEF Activate
    <2> QED
      BY <2>1, <2>2, <2>4, <2>5 DEF Calling
  <1>6. CASE SwitchBack
    BY <1>6 DEF SwitchBack, NoCall, Calling, Listed
  <1>7. CASE SetColour
    <2>1. book.active = me /\ me \in Listed
      BY <1>7 DEF SetColour, Press, Free, MeIs
    <2> QED
      BY <1>7, <2>1 DEF SetColour, Calling, Listed
  <1>8. CASE WriteBack
    <2>1. ~BothIn
      BY <1>8, WriteIs DEF WriteBack
    <2> QED
      BY <1>8, <2>1 DEF WriteBack, BothIn, NoCall, Calling
  <1>9. CASE PairWritesLogin
    <2>1. pairing'.who = pairing.who /\ logins' = logins \cup {pairing.who} /\ pairing'.at = "book"
      BY <1>9 DEF PairWritesLogin, Types, PairSet
    <2> QED
      BY <1>9, <2>1 DEF PairWritesLogin, Calling, Listed, CanRemove
  <1>10. CASE PairWritesBook
    <2>1. ~BothIn
      BY <1>10, WriteIs DEF PairWritesBook
    <2> QED
      BY <1>10, <2>1 DEF PairWritesBook, BothIn, NoCall, Calling
  <1>11. CASE TakeRemoves
    BY <1>11 DEF TakeRemoves, NoCall, Calling, Listed, CanRemove, Owner
  <1>12. CASE AnswerRemove
    BY <1>12 DEF AnswerRemove, NoCall, Calling, Listed, CanRemove, Owner
  <1>13. CASE RemoveFolder
    <2>1. call'.at = "idle" \/ (call'.at = "read" /\ call'.who = call.who)
      BY <1>13 DEF RemoveFolder, NoCall, Types, CallSet
    <2>2. UNCHANGED <<book, logins, pairing, me>> /\ call.at = "folder"
      BY <1>13 DEF RemoveFolder
    <2> QED
      BY <2>1, <2>2 DEF Calling, CanRemove, Owner
  <1>14. CASE RemoveReads
    <2>1. call'.at = "idle" \/ (call'.at = "book" /\ call'.who = call.who /\ call'.read = book)
      BY <1>14 DEF RemoveReads, NoCall, Types, CallSet
    <2>2. UNCHANGED <<book, logins, pairing, me>> /\ call.at = "read"
      BY <1>14 DEF RemoveReads
    <2> QED
      BY <2>1, <2>2 DEF Calling, CanRemove, Owner
  <1>15. CASE RemoveWritesBook
    <2>1. book = call.read /\ ~BothIn /\ call.at = "book" /\ book' = Without(book, call.who)
      BY <1>15, WriteIs DEF RemoveWritesBook
    <2>2. call.who \in Listed /\ call.who # book.active
      BY <2>1, MayRemove DEF Types, Calling, Listed
    <2>3. Listed' = Listed \ {call.who}
      BY <2>1, <2>2, WithoutIs DEF Types, Listed
    <2>4. call'.at = "login" /\ call'.who = call.who /\ pairing' = pairing /\ pairing.at = "idle"
      BY <1>15, <2>1 DEF RemoveWritesBook, BothIn, Types, CallSet
    <2> QED
      BY <2>3, <2>4 DEF Calling
  <1>16. CASE RemoveLogin
    BY <1>16 DEF RemoveLogin, BothIn, NoCall, Calling
  <1>17. CASE Quit
    BY <1>17 DEF Quit, Off, NoCall, Calling
  <1>18. CASE PowerCut
    BY <1>18 DEF PowerCut, Off, NoCall, Calling
  <1>19. CASE Start
    BY <1>19 DEF Start, Stages, Clearing, On, Calling
  <1>20. CASE ClearFolders
    <2>1. call'.at = "clearBook" /\ pairing' = pairing /\ pairing.at = "idle"
      BY <1>20 DEF ClearFolders, NoCall, Stages, Clearing, On
    <2> QED
      BY <2>1 DEF Calling
  <1>21. CASE ClearBook
    <2>1. call'.at = "clearLogins" /\ pairing' = pairing /\ pairing.at = "idle"
      BY <1>21 DEF ClearBook, Stages, Clearing, On, Types, CallSet
    <2> QED
      BY <2>1 DEF Calling
  <1>22. CASE ClearLogins
    <2>1. call'.at = "clearMark" /\ pairing' = pairing /\ pairing.at = "idle"
      BY <1>22 DEF ClearLogins, Stages, Clearing, On, Types, CallSet
    <2> QED
      BY <2>1 DEF Calling
  <1>23. CASE ClearMark
    BY <1>23 DEF ClearMark, NoCall, Stages, Clearing, On, Calling
  <1> QED
    BY <1>24, <1>25, <1>1, <1>2, <1>3, <1>4, <1>5, <1>6, <1>7, <1>8, <1>9, <1>10, <1>11,
       <1>12, <1>13, <1>14, <1>15, <1>16, <1>17, <1>18, <1>19, <1>20, <1>21,
       <1>22, <1>23
       DEF Next, Resend, UploadEnds, StartRemove, StartSignOut,
           SendNext, SendOne, SendClears, SendCounts, TakeAsks, TakeLeaves,
           AnswerCancel, AnswerSignOut, LeaveEnds, Press, Passes

\* Nobody takes the person at the console, or the active one, off the list.
LEMMA MeIsStep ==
    ASSUME AccountsAssumption, Types, Stages, Cleared,
           Calling, MeIs, BookStands, Working, ~crossed', Next
    PROVE  MeIs'
  <1> USE DEF disk, threads, bounds, history
  <1>1. CASE UNCHANGED <<me, book, call, logins>>
    BY <1>1 DEF MeIs, Listed, On
  <1>22. CASE WriteSave
    BY <1>22 DEF WriteSave, Free, NoCall, MeIs, Listed, On
  <1>23. CASE PushSave
    BY <1>23 DEF PushSave, NoCall, MeIs, Listed, On
  <1>24. CASE PairWritesLogin
    BY <1>24 DEF PairWritesLogin, MeIs, Listed, On
  <1>2. CASE \E p \in People : SwitchAccount(p)
    BY <1>2 DEF SwitchAccount, Press, Free, MeIs, Listed, On
  <1>3. CASE \E p \in People : FirstRun(p)
    BY <1>3 DEF FirstRun, MeIs, On
  <1>4. CASE Activate
    <2>1. book = call.read /\ call.at = "activate" /\ book' = [call.read EXCEPT !.active = call.who]
      BY <1>4, WriteIs DEF Activate
    <2>2. call.who \in Listed /\ call.who \in logins /\ call.who \in People
      BY <1>4, <2>1 DEF Calling, Listed, Stages, Clearing
    <2>3. book'.list = book.list /\ book'.active = call.who
      BY <2>1, <2>2, Activated DEF Types
    <2>4. \/ me' = call.who
          \/ me' = me /\ call'.at = "refused"
      BY <1>4 DEF Activate, Types, CallSet
    <2> QED
      BY <1>4, <2>2, <2>3, <2>4 DEF MeIs, On, Listed, Activate
  <1>5. CASE SwitchBack
    <2>1. call.read.active \in Listed \cap logins
      BY <1>5 DEF SwitchBack, Calling, MeIs
    <2> QED
      BY <1>5, <2>1 DEF SwitchBack, MeIs, Listed, On
  <1>6. CASE SetColour
    BY <1>6 DEF SetColour, Press, Free, MeIs, Listed, On
  <1>7. CASE WriteBack
    <2>1. book = call.read /\ book' = [call.read EXCEPT !.active = call.who]
      BY <1>7, WriteIs DEF WriteBack
    <2>2. call.who = me /\ me \in People
      BY <1>7 DEF WriteBack, Calling, Types, On
    <2>3. book'.list = book.list /\ book'.active = me
      BY <2>1, <2>2, Activated DEF Types
    <2> QED
      BY <1>7, <2>3 DEF WriteBack, MeIs, On, Listed
  <1>8. CASE PairWritesBook
    <2>1. book = pairing.read /\ ~BothIn /\ book' = With(book, pairing.who) /\ pairing.who \in People
      BY <1>8, WriteIs DEF PairWritesBook, Stages
    <2>2. book.active = me /\ me \in Listed /\ me # Nobody
      BY <1>8, <2>1 DEF PairWritesBook, BothIn, MeIs, On
    <2>3. Listed' = Listed \cup {pairing.who} /\ book'.active = me
      BY <2>1, <2>2, WithIs DEF Types, Listed
    <2> QED
      BY <1>8, <2>2, <2>3 DEF PairWritesBook, MeIs, On
  <1>9. CASE TakeRemoves
    BY <1>9 DEF TakeRemoves, Free, JobDone, NoJob, NoCall, MeIs, Listed, On
  <1>10. CASE AnswerRemove
    BY <1>10 DEF AnswerRemove, NoAsk, NoCall, Working, MeIs, Listed, On
  <1>11. CASE RemoveFolder
    BY <1>11 DEF RemoveFolder, Loses, Delete, NoCall, Types, CallSet, MeIs,
        Listed, On
  <1>12. CASE RemoveReads
    BY <1>12 DEF RemoveReads, NoCall, Types, CallSet, MeIs, Listed, On
  <1>13. CASE RemoveWritesBook
    <2>1. book = call.read /\ call.at = "book" /\ book' = Without(book, call.who)
      BY <1>13, WriteIs DEF RemoveWritesBook
    <2>2. call.who \in Listed /\ call.who # book.active
      BY <2>1, MayRemove DEF Types, Calling, Listed
    <2>3. Listed' = Listed \ {call.who} /\ book'.active = book.active
      BY <2>1, <2>2, WithoutIs DEF Types, Listed
    <2>4. UNCHANGED <<me, logins>> /\ On
      BY <1>13 DEF RemoveWritesBook
    <2> QED
      BY <2>1, <2>2, <2>3, <2>4 DEF MeIs, On
  <1>14. CASE RemoveLogin
    BY <1>14 DEF RemoveLogin, NoCall, Calling, MeIs, Listed, On
  <1>15. CASE Quit
    BY <1>15 DEF Quit, Off, MeIs, On
  <1>16. CASE PowerCut
    BY <1>16 DEF PowerCut, Off, MeIs, On
  <1>17. CASE Start
    <2>1. book.active \in Listed
      BY <1>17 DEF Start, BookStands, Types, AccountsAssumption
    <2> QED
      BY <1>17, <2>1 DEF Start, Stages, Clearing, On, MeIs, Listed
  <1>18. CASE ClearFolders
    BY <1>18 DEF ClearFolders, Stages, Clearing, On, MeIs
  <1>19. CASE ClearBook
    BY <1>19 DEF ClearBook, Stages, Clearing, On, MeIs
  <1>20. CASE ClearLogins
    BY <1>20 DEF ClearLogins, Stages, Clearing, On, MeIs
  <1>21. CASE ClearMark
    BY <1>21 DEF ClearMark, Stages, Clearing, On, MeIs
  <1> QED
    BY <1>22, <1>23, <1>24, <1>1, <1>2, <1>3, <1>4, <1>5, <1>6, <1>7, <1>8, <1>9, <1>10, <1>11,
       <1>12, <1>13, <1>14, <1>15, <1>16, <1>17, <1>18, <1>19, <1>20, <1>21
       DEF Next, Resend, UploadEnds, PairApproved, StartRemove,
           StartSignOut, SendNext, SendOne, SendClears,
           SendCounts, TakeAsks, TakeLeaves, AnswerCancel, AnswerSignOut,
           LeaveEnds, Press, Passes

\* A login is written before its row of the list and goes after it; a folder is made
\* for somebody listed and goes before its row.
LEMMA BookStandsStep ==
    ASSUME AccountsAssumption, Types, Stages, Cleared,
           FolderOut, Calling, MeIs, BookStands, ~crossed', Next
    PROVE  BookStands'
  <1> USE DEF disk, threads, bounds, history
  <1>1. CASE UNCHANGED <<book, logins, folders, stuck>>
    BY <1>1 DEF BookStands, Listed
  <1>2. CASE WriteSave
    BY <1>2 DEF WriteSave, Free, MeIs, BookStands, Listed
  <1>3. CASE \E p \in People : FirstRun(p)
    <2>1. PICK p \in People : FirstRun(p)
      BY <1>3
    <2>2. book' = With(book, p) /\ book \in Books
      BY <2>1 DEF FirstRun, Types
    <2>3. /\ Listed' = Listed \cup {p}
          /\ book'.active = IF p \notin Listed /\ book.active = Nobody THEN p ELSE book.active
      BY <2>2, WithIs DEF Listed
    <2>4. Listed # {} => book.active \in Listed /\ book.active # Nobody
      <3>1. Listed \subseteq People
        BY <2>2 DEF Listed, Books, Range
      <3> QED
        BY <3>1 DEF BookStands, AccountsAssumption
    <2>5. book'.active \in Listed' /\ Listed' # {}
      BY <2>3, <2>4 DEF BookStands
    <2>6. logins' = logins \cup {p} /\ UNCHANGED <<folders, stuck>>
      BY <2>1 DEF FirstRun, history
    <2> QED
      BY <2>3, <2>5, <2>6 DEF BookStands
  <1>4. CASE Activate
    <2>1. book = call.read /\ call.at = "activate" /\ book' = [call.read EXCEPT !.active = call.who]
      BY <1>4, WriteIs DEF Activate
    <2>2. call.who \in Listed /\ call.who \in People
      BY <1>4, <2>1 DEF Calling, Listed, Stages, Clearing
    <2>3. book'.list = book.list /\ book'.active = call.who
      BY <2>1, <2>2, Activated DEF Types
    <2>4. folders' \subseteq folders \cup {call.who} /\ UNCHANGED <<logins, stuck>>
      BY <1>4 DEF Activate
    <2> QED
      BY <2>2, <2>3, <2>4 DEF BookStands, Listed
  <1>5. CASE WriteBack
    <2>1. book = call.read /\ book' = [call.read EXCEPT !.active = call.who]
      BY <1>5, WriteIs DEF WriteBack
    <2>2. call.who = me /\ me \in People /\ me \in Listed
      BY <1>5 DEF WriteBack, Calling, Types, On, MeIs
    <2>3. book'.list = book.list /\ book'.active = me
      BY <2>1, <2>2, Activated DEF Types
    <2> QED
      BY <1>5, <2>2, <2>3 DEF WriteBack, BookStands, Listed
  <1>6. CASE PairWritesLogin
    BY <1>6 DEF PairWritesLogin, BookStands, Listed
  <1>7. CASE PairWritesBook
    <2>1. book = pairing.read /\ ~BothIn /\ book' = With(book, pairing.who) /\ pairing.who \in People
      BY <1>7, WriteIs DEF PairWritesBook, Stages
    <2>2. book.active = me /\ me \in Listed /\ me # Nobody
      BY <1>7, <2>1 DEF PairWritesBook, BothIn, MeIs, On
    <2>3. Listed' = Listed \cup {pairing.who} /\ book'.active = me
      BY <2>1, <2>2, WithIs DEF Types, Listed
    <2>4. pairing.who \in logins
      BY <1>7 DEF PairWritesBook, Calling
    <2> QED
      BY <1>7, <2>2, <2>3, <2>4 DEF PairWritesBook, BookStands
  <1>8. CASE RemoveFolder
    BY <1>8 DEF RemoveFolder, Loses, Delete, NoCall, BookStands, Listed
  <1>9. CASE RemoveWritesBook
    <2>1. book = call.read /\ call.at = "book" /\ book' = Without(book, call.who)
      BY <1>9, WriteIs DEF RemoveWritesBook
    <2>2. call.who \in Listed /\ call.who # book.active /\ call.who \notin folders
      BY <2>1, MayRemove DEF Types, Calling, Listed, FolderOut
    <2>3. Listed' = Listed \ {call.who} /\ book'.active = book.active
      BY <2>1, <2>2, WithoutIs DEF Types, Listed
    <2>4. UNCHANGED <<logins, folders, stuck>>
      BY <1>9 DEF RemoveWritesBook
    <2> QED
      BY <2>2, <2>3, <2>4 DEF BookStands
  <1>10. CASE RemoveLogin
    BY <1>10 DEF RemoveLogin, Calling, BookStands, Listed
  <1>11. CASE Start
    <2>1. book.active \in Listed
      BY <1>11 DEF Start, BookStands, Types, AccountsAssumption
    <2> QED
      BY <1>11, <2>1 DEF Start, BookStands, Listed
  <1>12. CASE ClearFolders
    BY <1>12 DEF ClearFolders, Loses, Delete, NoCall, BookStands, Listed
  <1>13. CASE ClearBook
    <2>1. CASE book' = [list |-> <<>>, active |-> Nobody] /\ UNCHANGED stuck
      <3>1. Listed' = {} /\ book'.active = Nobody /\ NoFolders
        BY <1>13, <2>1, EmptyRange DEF ClearBook, Listed, Cleared, Clearing
      <3> QED
        BY <1>13, <2>1, <3>1 DEF ClearBook, BookStands, NoFolders
    <2>2. CASE stuck' = stuck \cup {"book"} /\ UNCHANGED book
      BY <1>13, <2>2 DEF ClearBook, BookStands, Listed
    <2> QED
      BY <1>13, <2>1, <2>2 DEF ClearBook
  <1>14. CASE ClearLogins
    <2>1. Listed = {} \/ "book" \in stuck
      BY <1>14, EmptyRange DEF ClearLogins, Listed, Cleared, NoBook
    <2> QED
      BY <1>14, <2>1 DEF ClearLogins, BookStands, Listed
  <1> QED
    BY <1>1, <1>2, <1>3, <1>4, <1>5, <1>6, <1>7, <1>8, <1>9, <1>10, <1>11,
       <1>12, <1>13, <1>14
       DEF Next, PushSave, Resend, UploadEnds, SwitchAccount, PairApproved, StartRemove,
           SwitchBack, SetColour, StartSignOut, SendNext, SendOne, SendClears,
           SendCounts, TakeAsks, TakeLeaves, TakeRemoves, AnswerCancel,
           AnswerSignOut, AnswerRemove, RemoveReads, LeaveEnds, Quit,
           PowerCut, ClearMark, Off, Press, Passes

\* The save that goes up is the one there is: none is made meanwhile, and the one
\* who is removed is not the person at the console.
LEMMA GoingUpStep ==
    ASSUME AccountsAssumption, Types, Stages, Sending,
           Working, Calling, MeIs, BookStands, GoingUp, ~crossed', Next
    PROVE  GoingUp'
  <1> USE DEF disk, threads, bounds, history
  <1>1. CASE UNCHANGED <<up, save, me>>
    BY <1>1 DEF GoingUp
  <1>2. CASE WriteSave
    BY <1>2 DEF WriteSave, GoingUp
  <1>11. CASE PushSave
    BY <1>11 DEF PushSave, GoingUp
  <1>3. CASE Resend
    BY <1>3 DEF Resend, GoingUp
  <1>4. CASE UploadEnds
    BY <1>4 DEF UploadEnds, GoingUp
  <1>5. CASE Activate
    BY <1>5 DEF Activate, Sending, GoingUp
  <1>6. CASE RemoveFolder
    <2>1. call.who # me
      BY <1>6, MayRemove DEF RemoveFolder, Calling, MeIs, Types
    <2>2. me \in People
      BY <1>6 DEF RemoveFolder, On, Types
    <2>3. save'[me] = save[me]
      BY <1>6, <2>1, <2>2, FoldersGo
    <2> QED
      BY <1>6, <2>3 DEF RemoveFolder, GoingUp
  <1>7. CASE Quit
    BY <1>7 DEF Quit, Off, GoingUp
  <1>8. CASE PowerCut
    BY <1>8 DEF PowerCut, Off, GoingUp
  <1>9. CASE Start
    BY <1>9 DEF Start, Stages, GoingUp
  <1>10. CASE ClearFolders
    BY <1>10 DEF ClearFolders, Stages, GoingUp
  <1> QED
    BY <1>11, <1>1, <1>2, <1>3, <1>4, <1>5, <1>6, <1>7, <1>8, <1>9, <1>10
       DEF Next, SwitchAccount, PairApproved, StartRemove, FirstRun,
           SwitchBack, SetColour, WriteBack, PairWritesLogin, PairWritesBook,
           StartSignOut, SendNext, SendOne, SendClears, SendCounts, TakeAsks,
           TakeLeaves, TakeRemoves, AnswerCancel, AnswerSignOut, AnswerRemove,
           RemoveReads, RemoveWritesBook, RemoveLogin, LeaveEnds, ClearBook,
           ClearLogins, ClearMark, Write, Press, Passes

\* A marker goes only with a save that RomM has, or one made while it was sent.
LEMMA OwedOrPassedStep ==
    ASSUME AccountsAssumption, Types, Stages,
           Sending, Working, Calling, MeIs, BookStands, GoingUp, OwedOrPassed,
           SentStands, ~crossed', Next
    PROVE  OwedOrPassed'
  <1> USE DEF disk, threads, bounds, history
  <1>1. CASE UNCHANGED <<save, romm, owed, passed, unmarked>> /\ call.at # "push"
    BY <1>1 DEF OwedOrPassed, Pushing, Unsent
  <1>8. CASE UNCHANGED <<save, romm, owed, passed, unmarked, call, me>>
    BY <1>8 DEF OwedOrPassed, Pushing, Unsent
  <1>2. CASE WriteSave
    <2>1. me \in People /\ \A p \in People \ {me} : save'[p] = save[p]
      BY <1>2 DEF WriteSave, Free, On, Types
    <2>2. Pushing = {} /\ Pushing' = {me}
      BY <1>2 DEF WriteSave, Free, NoCall, Pushing
    <2> QED
      BY <1>2, <2>1, <2>2 DEF WriteSave, OwedOrPassed, Unsent
  <1>9. CASE PushSave
    <2>1. Pushing \subseteq {me} /\ me \in owed' \cup unmarked'
      BY <1>9 DEF PushSave, Pushing
    <2>2. owed \cup unmarked \subseteq owed' \cup unmarked'
      BY <1>9 DEF PushSave
    <2> QED
      BY <1>9, <2>1, <2>2 DEF PushSave, OwedOrPassed, Unsent
  <1>10. CASE Quit \/ PowerCut
    <2>1. UNCHANGED <<save, romm, owed, passed>> /\ Off
      BY <1>10 DEF Quit, PowerCut
    <2>2. owed \cup unmarked \cup Pushing \subseteq owed' \cup unmarked'
      BY <2>1 DEF Off, Pushing
    <2> QED
      BY <2>1, <2>2 DEF OwedOrPassed, Unsent
  <1>3. CASE UploadEnds
    <2>1. me \in People /\ up = save[me] /\ save[me] \in Nat
      BY <1>3 DEF UploadEnds, On, Types, GoingUp
    <2>2. CASE romm' = [romm EXCEPT ![me] = up] /\ owed' = owed \ {me}
      <3>1. ~(save'[me] > romm'[me]) /\ \A p \in People \ {me} : romm'[p] = romm[p]
        BY <1>3, <2>1, <2>2 DEF UploadEnds, Types, Unsent
      <3>2. owed \cup unmarked \subseteq owed' \cup unmarked' \cup {me} /\ Pushing' = Pushing
            /\ UNCHANGED <<save, passed>>
        BY <1>3, <2>2 DEF UploadEnds, Pushing
      <3> QED
        BY <3>1, <3>2 DEF OwedOrPassed, Unsent
    <2>3. CASE UNCHANGED <<romm, owed, unmarked>>
      BY <1>3, <1>8, <2>3 DEF UploadEnds
    <2> QED
      BY <1>3, <1>8, <2>2, <2>3 DEF UploadEnds
  <1>4. CASE SendOne
    <2>1. Head(job.todo) \in People
      <3>1. job.todo \in Seq(People) /\ job.todo # <<>>
        BY <1>4 DEF SendOne, Types, JobSet, Working
      <3> QED
        BY <3>1, HeadTailProperties
    <2>2. /\ \A p \in People \ {Head(job.todo)} : romm'[p] = romm[p]
          /\ UNCHANGED <<save, owed, unmarked>> /\ passed \subseteq passed'
          /\ Pushing' = Pushing
      BY <1>4, <2>1 DEF SendOne, Passes, Types, Pushing
    <2>3. CASE romm' = [romm EXCEPT ![Head(job.todo)] = job.sending] /\ Passes
      <3>1. romm'[Head(job.todo)] = job.sending
        BY <2>1, <2>3 DEF Types
      <3>2. save'[Head(job.todo)] > romm'[Head(job.todo)] => Head(job.todo) \in passed'
        BY <2>1, <2>2, <2>3, <3>1 DEF Passes, Unsent, Types
      <3> QED
        BY <2>2, <3>2 DEF OwedOrPassed, Unsent
    <2>4. CASE UNCHANGED <<romm, passed>>
      BY <2>2, <2>4 DEF OwedOrPassed, Unsent
    <2> QED
      BY <1>4, <2>3, <2>4 DEF SendOne
  <1>5. CASE SendClears
    <2>1. Head(job.todo) \in People
      <3>1. job.todo \in Seq(People) /\ job.todo # <<>>
        BY <1>5 DEF SendClears, Types, JobSet, Working
      <3> QED
        BY <3>1, HeadTailProperties
    <2>2. /\ owed' = owed \ {Head(job.todo)} /\ UNCHANGED <<save, romm, unmarked>>
          /\ passed \subseteq passed' /\ Pushing' = Pushing
          /\ save[Head(job.todo)] # job.sending => Head(job.todo) \in passed'
      BY <1>5, <2>1 DEF SendClears, Passes, Pushing
    <2>3. Unsent(Head(job.todo)) => Head(job.todo) \in passed'
      BY <1>5, <2>2 DEF SendClears, SentStands
    <2> QED
      BY <2>2, <2>3 DEF OwedOrPassed, Unsent
  <1>6. CASE RemoveFolder \/ ClearFolders
    <2>1. Pushing = {} /\ UNCHANGED <<romm, passed>>
      BY <1>6 DEF RemoveFolder, ClearFolders, Pushing
    <2>2. \A p \in People : romm[p] \in Nat /\ save[p] \in Nat
      BY DEF Types
    <2>3. \A p \in People :
             /\ save'[p] \in {0, save[p]}
             /\ save'[p] # 0 /\ p \in owed \cup unmarked => p \in owed' \cup unmarked'
      BY <1>6, FoldersGo
    <2>4. ASSUME NEW p \in People, save'[p] > romm'[p]
          PROVE  p \in owed' \cup passed' \cup unmarked'
      <3>1. save'[p] # 0 /\ save'[p] = save[p] /\ Unsent(p)
        BY <2>1, <2>2, <2>3, <2>4 DEF Unsent
      <3>2. p \in owed \cup passed \cup unmarked
        BY <2>1, <3>1 DEF OwedOrPassed
      <3> QED
        BY <2>1, <2>3, <3>1, <3>2
    <2> QED
      BY <2>4 DEF OwedOrPassed, Unsent
  <1>7. CASE Activate
    BY <1>1, <1>7 DEF Activate
  <1>11. CASE AnswerRemove
    BY <1>1, <1>11 DEF AnswerRemove, Working
  <1>12. CASE Start
    BY <1>1, <1>12 DEF Start, Stages, On
  <1> QED
    BY <1>1, <1>2, <1>3, <1>4, <1>5, <1>6, <1>7, <1>8, <1>9, <1>10, <1>11, <1>12
       DEF Next, Resend, SwitchAccount, PairApproved, StartRemove, FirstRun,
           SwitchBack, SetColour, WriteBack, PairWritesLogin,
           PairWritesBook, StartSignOut, SendNext, SendCounts, TakeAsks,
           TakeLeaves, TakeRemoves, AnswerCancel, AnswerSignOut, AnswerRemove,
           RemoveReads, RemoveWritesBook, RemoveLogin, LeaveEnds,
           Start, ClearBook, ClearLogins, ClearMark, Write, Press, Free

\* A save that was sent is on RomM until the sending looks what became of its marker,
\* or another has been made.
LEMMA SentStandsStep ==
    ASSUME AccountsAssumption, Types, Stages, Sending,
           Working, Calling, MeIs, BookStands, GoingUp, SentStands, ~crossed',
           Next
    PROVE  SentStands'
  <1> USE DEF disk, threads, bounds, history
  <1>1. CASE UNCHANGED <<job, save, romm, passed>>
    BY <1>1 DEF SentStands, Unsent
  <1>2. CASE WriteSave
    <2>1. me \in People /\ made \in Nat /\ job.sending <= made /\ job.sending \in Nat
      BY <1>2 DEF WriteSave, Free, On, Types, Working, JobSet
    <2>2. save' = [save EXCEPT ![me] = made + 1] /\ UNCHANGED <<job, romm, passed>>
      BY <1>2 DEF WriteSave
    <2>3. save'[me] # job.sending /\ \A p \in People \ {me} : save'[p] = save[p]
      BY <2>1, <2>2 DEF Types
    <2>4. job.at = "sent" => Head(job.todo) \in People
      <3> SUFFICES ASSUME job.at = "sent" PROVE Head(job.todo) \in People
        OBVIOUS
      <3>1. job.todo \in Seq(People) /\ job.todo # <<>>
        BY DEF Types, JobSet, Working
      <3> QED
        BY <3>1, HeadTailProperties
    <2> QED
      BY <2>2, <2>3, <2>4 DEF SentStands, Unsent
  <1>3. CASE UploadEnds
    <2>1. me \in People /\ up = save[me] /\ save[me] \in Nat
      BY <1>3 DEF UploadEnds, On, Types, GoingUp
    <2>2. CASE romm' = [romm EXCEPT ![me] = up]
      <3>1. ~(save'[me] > romm'[me]) /\ \A p \in People \ {me} : romm'[p] = romm[p]
        BY <1>3, <2>1, <2>2 DEF UploadEnds, Types, Unsent
      <3>2. job.at = "sent" => Head(job.todo) \in People
        <4> SUFFICES ASSUME job.at = "sent" PROVE Head(job.todo) \in People
          OBVIOUS
        <4>1. job.todo \in Seq(People) /\ job.todo # <<>>
          BY DEF Types, JobSet, Working
        <4> QED
          BY <4>1, HeadTailProperties
      <3>3. UNCHANGED <<job, save, passed>>
        BY <1>3 DEF UploadEnds
      <3> QED
        BY <3>1, <3>2, <3>3 DEF SentStands, Unsent
    <2>3. CASE UNCHANGED <<romm, owed>>
      BY <1>3, <2>3 DEF UploadEnds, SentStands, Unsent
    <2> QED
      BY <1>3, <2>2, <2>3 DEF UploadEnds
  <1>4. CASE \E p \in People : StartRemove(p)
    BY <1>4 DEF StartRemove, Press, Free, NoJob, SentStands
  <1>5. CASE StartSignOut
    BY <1>5 DEF StartSignOut, Press, Free, NoJob, SentStands
  <1>6. CASE SendNext
    BY <1>6 DEF SendNext, SentStands, Types, JobSet
  <1>7. CASE SendOne
    <2>1. Head(job.todo) \in People
      <3>1. job.todo \in Seq(People) /\ job.todo # <<>>
        BY <1>7 DEF SendOne, Types, JobSet, Working
      <3> QED
        BY <3>1, HeadTailProperties
    <2>2. CASE /\ romm' = [romm EXCEPT ![Head(job.todo)] = job.sending] /\ Passes
               /\ job' = [job EXCEPT !.at = "sent"]
      <3>1. romm'[Head(job.todo)] = job.sending /\ job.sending \in Nat /\ save' = save
        BY <1>7, <2>1, <2>2 DEF SendOne, Types, JobSet
      <3>2. job'.todo = job.todo
        BY <2>2 DEF Types, JobSet
      <3>3. save'[Head(job.todo)] > romm'[Head(job.todo)] => save[Head(job.todo)] # job.sending
        BY <2>1, <3>1 DEF Unsent, Types
      <3> QED
        BY <2>2, <3>1, <3>2, <3>3 DEF Passes, SentStands, Unsent
    <2>3. CASE job' = [job EXCEPT !.at = "count"]
      BY <2>3 DEF SentStands, Types, JobSet
    <2> QED
      BY <1>7, <2>2, <2>3 DEF SendOne
  <1>8. CASE SendClears
    BY <1>8 DEF SendClears, SentStands, Types, JobSet
  <1>9. CASE SendCounts
    BY <1>9 DEF SendCounts, SentStands, Types, JobSet
  <1>10. CASE TakeAsks
    BY <1>10 DEF TakeAsks, Free, JobDone, NoJob, SentStands
  <1>11. CASE TakeLeaves
    BY <1>11 DEF TakeLeaves, Free, JobDone, NoJob, SentStands
  <1>12. CASE TakeRemoves
    BY <1>12 DEF TakeRemoves, Free, JobDone, NoJob, NoCall, SentStands
  <1>13. CASE RemoveFolder
    <2>1. /\ \A p \in People \ {call.who} : save'[p] = save[p]
          /\ call.who \in People => save'[call.who] \in {0, save[call.who]}
          /\ UNCHANGED <<job, romm, passed>>
      BY <1>13, FoldersGo DEF RemoveFolder
    <2>2. job.at = "sent" => Head(job.todo) \in People /\ romm[Head(job.todo)] \in Nat
      <3> SUFFICES ASSUME job.at = "sent"
                   PROVE  Head(job.todo) \in People /\ romm[Head(job.todo)] \in Nat
        OBVIOUS
      <3>1. job.todo \in Seq(People) /\ job.todo # <<>>
        BY DEF Types, JobSet, Working
      <3>2. Head(job.todo) \in People
        BY <3>1, HeadTailProperties
      <3> QED
        BY <3>2 DEF Types
    <2> QED
      BY <2>1, <2>2 DEF SentStands, Unsent
  <1>14. CASE Quit
    BY <1>14 DEF Quit, Off, NoCall, NoJob, NoAsk, SentStands
  <1>15. CASE PowerCut
    BY <1>15 DEF PowerCut, Off, NoCall, NoJob, NoAsk, SentStands
  <1>16. CASE ClearFolders
    BY <1>16 DEF ClearFolders, Stages, SentStands
  <1> QED
    BY <1>1, <1>2, <1>3, <1>4, <1>5, <1>6, <1>7, <1>8, <1>9, <1>10, <1>11,
       <1>12, <1>13, <1>14, <1>15, <1>16
       DEF Next, PushSave, Resend, SwitchAccount, PairApproved, FirstRun, Activate,
           SwitchBack, SetColour, WriteBack, PairWritesLogin, PairWritesBook,
           AnswerCancel, AnswerSignOut, AnswerRemove, RemoveReads,
           RemoveWritesBook, RemoveLogin, LeaveEnds, Start, ClearBook,
           ClearLogins, ClearMark, Write, Press

\* Once a sending has counted, only its person can owe anew, by playing; and no press
\* makes the console somebody else's before its outcome is taken.
LEMMA NoneLeftStep ==
    ASSUME AccountsAssumption, Types, Stages, Sending,
           Working, Calling, MeIs, BookStands, NoneLeft, ~crossed', Next
    PROVE  NoneLeft'
  <1> USE DEF disk, threads, bounds, history
  <1>1. CASE UNCHANGED <<job, owed, me, call>>
    BY <1>1 DEF NoneLeft, JobDone
  <1>2. CASE WriteSave
    <2>1. call'.at = "push" /\ UNCHANGED <<job, me, owed>>
      BY <1>2 DEF WriteSave, NoCall
    <2> QED
      BY <2>1 DEF NoneLeft, JobDone
  <1>30. CASE PushSave
    <2>1. call'.at = "idle" /\ owed' \subseteq owed \cup {me} /\ UNCHANGED <<job, me>>
      BY <1>30 DEF PushSave, NoCall
    <2> QED
      BY <2>1 DEF NoneLeft, JobDone
  <1>31. CASE \E p \in People : FirstRun(p)
    <2>1. job.at = "idle" /\ job' = job
      BY <1>31 DEF FirstRun, Stages, Clearing
    <2> QED
      BY <2>1 DEF NoneLeft, JobDone
  <1>3. CASE UploadEnds
    <2>1. owed' \subseteq owed /\ UNCHANGED <<job, me, call>>
      BY <1>3 DEF UploadEnds
    <2> QED
      BY <2>1 DEF NoneLeft, JobDone
  <1>4. CASE \E p \in People : SwitchAccount(p)
    BY <1>4 DEF SwitchAccount, Press, NoneLeft, JobDone
  <1>5. CASE \E p \in People : StartRemove(p)
    <2>1. PICK p \in People : StartRemove(p)
      BY <1>5
    <2>2. job'.todo # <<>>
      BY <2>1 DEF StartRemove, NoJob
    <2> QED
      BY <2>2 DEF NoneLeft, JobDone
  <1>6. CASE Activate
    <2>1. call.at = "activate" /\ UNCHANGED <<job, owed>>
      BY <1>6 DEF Activate
    <2> QED
      BY <2>1 DEF NoneLeft, JobDone
  <1>7. CASE SwitchBack
    <2>1. call.at = "refused" /\ UNCHANGED <<job, owed>>
      BY <1>7 DEF SwitchBack
    <2> QED
      BY <2>1 DEF NoneLeft, JobDone
  <1>8. CASE SetColour
    BY <1>8 DEF SetColour, Press, NoneLeft, JobDone
  <1>9. CASE WriteBack
    <2>1. call.at = "back" /\ UNCHANGED <<job, owed>>
      BY <1>9 DEF WriteBack
    <2> QED
      BY <2>1 DEF NoneLeft, JobDone
  <1>10. CASE StartSignOut
    BY <1>10 DEF StartSignOut, NoJob, NoneLeft, JobDone
  <1>11. CASE SendNext
    <2>1. job.todo \in Seq(People) /\ job.todo # <<>>
      BY <1>11 DEF SendNext, Types, JobSet
    <2>2. ~job.everyone => Head(job.todo) = job.who
      BY <1>11, <2>1, Single DEF SendNext, Working
    <2>3. /\ job'.at = "next" => Head(job.todo) \notin owed
          /\ job'.everyone = job.everyone /\ job'.who = job.who /\ UNCHANGED <<owed, me, call>>
      BY <1>11 DEF SendNext, Types, JobSet
    <2> QED
      BY <2>2, <2>3 DEF NoneLeft, JobDone
  <1>12. CASE SendOne
    <2>1. job'.at \in {"sent", "count"}
      BY <1>12 DEF SendOne, Types, JobSet
    <2> QED
      BY <2>1 DEF NoneLeft, JobDone
  <1>13. CASE SendClears
    <2>1. job'.at = "count"
      BY <1>13 DEF SendClears, Types, JobSet
    <2> QED
      BY <2>1 DEF NoneLeft, JobDone
  <1>14. CASE SendCounts
    <2>1. ~job.everyone => Head(job.todo) = job.who
      BY <1>14, Single DEF SendCounts, Working
    <2>2. /\ job'.everyone = job.everyone /\ job'.who = job.who /\ UNCHANGED <<owed, me, call>>
          /\ job'.left = job.left + IF Head(job.todo) \in owed THEN 1 ELSE 0
      BY <1>14 DEF SendCounts, Types, JobSet
    <2>3. job.left \in Nat
      BY DEF Types, JobSet
    <2>4. Head(job.todo) \in owed => job'.left # 0
      BY <2>2, <2>3
    <2> QED
      BY <2>1, <2>2, <2>4 DEF NoneLeft, JobDone
  <1>15. CASE TakeAsks
    <2>1. job'.at = "idle"
      BY <1>15 DEF TakeAsks, Free, JobDone, NoJob
    <2> QED
      BY <2>1 DEF NoneLeft, JobDone
  <1>16. CASE TakeLeaves
    <2>1. job'.at = "idle"
      BY <1>16 DEF TakeLeaves, Free, JobDone, NoJob
    <2> QED
      BY <2>1 DEF NoneLeft, JobDone
  <1>17. CASE TakeRemoves
    <2>1. job'.at = "idle"
      BY <1>17 DEF TakeRemoves, Free, JobDone, NoJob, NoCall
    <2> QED
      BY <2>1 DEF NoneLeft, JobDone
  <1>18. CASE AnswerRemove
    <2>1. job.at = "idle" /\ job' = job
      BY <1>18 DEF AnswerRemove, Working
    <2> QED
      BY <2>1 DEF NoneLeft, JobDone
  <1>19. CASE RemoveFolder
    <2>1. call.at = "folder" /\ job' = job /\ owed' \subseteq owed
      BY <1>19, FoldersGo DEF RemoveFolder
    <2> QED
      BY <2>1 DEF NoneLeft, JobDone
  <1>20. CASE RemoveReads
    <2>1. call.at = "read" /\ UNCHANGED <<job, owed>>
      BY <1>20 DEF RemoveReads
    <2> QED
      BY <2>1 DEF NoneLeft, JobDone
  <1>21. CASE RemoveWritesBook
    <2>1. call.at = "book" /\ UNCHANGED <<job, owed>>
      BY <1>21 DEF RemoveWritesBook
    <2> QED
      BY <2>1 DEF NoneLeft, JobDone
  <1>22. CASE RemoveLogin
    <2>1. call.at = "login" /\ UNCHANGED <<job, owed>>
      BY <1>22 DEF RemoveLogin
    <2> QED
      BY <2>1 DEF NoneLeft, JobDone
  <1>23. CASE Quit
    <2>1. job'.at = "idle"
      BY <1>23 DEF Quit, Off, NoCall, NoJob, NoAsk
    <2> QED
      BY <2>1 DEF NoneLeft, JobDone
  <1>24. CASE PowerCut
    <2>1. job'.at = "idle"
      BY <1>24 DEF PowerCut, Off, NoCall, NoJob, NoAsk
    <2> QED
      BY <2>1 DEF NoneLeft, JobDone
  <1>25. CASE Start
    <2>1. job.at = "idle" /\ job' = job
      BY <1>25 DEF Start, Stages, Clearing
    <2> QED
      BY <2>1 DEF NoneLeft, JobDone
  <1>26. CASE ClearFolders
    <2>1. job.at = "idle" /\ job' = job
      BY <1>26 DEF ClearFolders, Stages, Clearing
    <2> QED
      BY <2>1 DEF NoneLeft, JobDone
  <1>27. CASE ClearBook
    <2>1. job.at = "idle" /\ job' = job
      BY <1>27 DEF ClearBook, Stages, Clearing
    <2> QED
      BY <2>1 DEF NoneLeft, JobDone
  <1>28. CASE ClearLogins
    <2>1. job.at = "idle" /\ job' = job
      BY <1>28 DEF ClearLogins, Stages, Clearing
    <2> QED
      BY <2>1 DEF NoneLeft, JobDone
  <1>29. CASE ClearMark
    <2>1. job.at = "idle" /\ job' = job
      BY <1>29 DEF ClearMark, Stages, Clearing
    <2> QED
      BY <2>1 DEF NoneLeft, JobDone
  <1> QED
    BY <1>30, <1>31, <1>1, <1>2, <1>3, <1>4, <1>5, <1>6, <1>7, <1>8, <1>9, <1>10, <1>11,
       <1>12, <1>13, <1>14, <1>15, <1>16, <1>17, <1>18, <1>19, <1>20, <1>21,
       <1>22, <1>23, <1>24, <1>25, <1>26, <1>27, <1>28, <1>29
       DEF Next, Resend, PairApproved, PairWritesLogin,
           PairWritesBook, AnswerCancel, AnswerSignOut, LeaveEnds, Write

\* A removal that was not asked about is of somebody whose sending left nothing, and
\* who was not playing since.
LEMMA FolderSentStep ==
    ASSUME AccountsAssumption, Types, Stages, Sending,
           Working, Calling, MeIs, BookStands, GoingUp, OwedOrPassed,
           NoneLeft, FolderSent, ~crossed', Next
    PROVE  FolderSent'
  <1> USE DEF disk, threads, bounds, history
  <1>1. CASE UNCHANGED <<call, agreed, save, romm, passed, unmarked>>
    BY <1>1 DEF FolderSent, Unsent
  <1>2. CASE WriteSave
    BY <1>2 DEF WriteSave, NoCall, FolderSent
  <1>24. CASE PushSave
    BY <1>24 DEF PushSave, NoCall, FolderSent
  <1>25. CASE \E p \in People : FirstRun(p)
    BY <1>25 DEF FirstRun, NoCall, FolderSent
  <1>3. CASE UploadEnds
    <2>1. me \in People /\ up = save[me] /\ save[me] \in Nat
      BY <1>3 DEF UploadEnds, On, Types, GoingUp
    <2>2. UNCHANGED <<call, agreed, save, passed>> /\ unmarked \subseteq unmarked' \cup {me}
      BY <1>3 DEF UploadEnds
    <2>3. CASE romm' = [romm EXCEPT ![me] = up]
      <3>1. romm'[me] = save[me] /\ \A p \in People \ {me} : romm'[p] = romm[p]
        BY <2>1, <2>3 DEF Types
      <3>2. call.at = "folder" => call.who \in People
        BY DEF Stages, Clearing
      <3> QED
        BY <2>1, <2>2, <3>1, <3>2 DEF FolderSent, Unsent
    <2>4. CASE UNCHANGED <<romm, owed, unmarked>>
      BY <2>2, <2>4 DEF FolderSent, Unsent
    <2> QED
      BY <1>3, <2>3, <2>4 DEF UploadEnds
  <1>4. CASE \E p \in People : SwitchAccount(p)
    <2>1. call'.at # "folder"
      BY <1>4 DEF SwitchAccount
    <2> QED
      BY <2>1 DEF FolderSent
  <1>5. CASE Activate
    <2>1. call'.at # "folder"
      BY <1>5 DEF Activate, NoCall, Types, CallSet
    <2> QED
      BY <2>1 DEF FolderSent
  <1>6. CASE SwitchBack
    <2>1. call'.at # "folder"
      BY <1>6 DEF SwitchBack, NoCall
    <2> QED
      BY <2>1 DEF FolderSent
  <1>7. CASE SetColour
    <2>1. call'.at # "folder"
      BY <1>7 DEF SetColour
    <2> QED
      BY <2>1 DEF FolderSent
  <1>8. CASE WriteBack
    <2>1. call'.at # "folder"
      BY <1>8 DEF WriteBack, NoCall
    <2> QED
      BY <2>1 DEF FolderSent
  <1>9. CASE SendOne
    <2>1. Head(job.todo) \in People
      <3>1. job.todo \in Seq(People) /\ job.todo # <<>>
        BY <1>9 DEF SendOne, Types, JobSet, Working
      <3> QED
        BY <3>1, HeadTailProperties
    <2>2. UNCHANGED <<call, agreed, save, unmarked>> /\ passed \subseteq passed'
      BY <1>9 DEF SendOne, Passes
    <2>3. call.at = "folder" => call.who \in People
      BY DEF Stages, Clearing
    <2>4. CASE romm' = [romm EXCEPT ![Head(job.todo)] = job.sending] /\ Passes
      <3>1. /\ romm'[Head(job.todo)] = job.sending
            /\ \A p \in People \ {Head(job.todo)} : romm'[p] = romm[p]
        BY <2>1, <2>4 DEF Types
      <3>2. save'[Head(job.todo)] > romm'[Head(job.todo)] => Head(job.todo) \in passed'
        BY <2>1, <2>2, <2>4, <3>1 DEF Passes, Unsent, Types
      <3> QED
        BY <2>2, <2>3, <3>1, <3>2 DEF FolderSent, Unsent
    <2>5. CASE UNCHANGED <<romm, passed>>
      BY <2>2, <2>5 DEF FolderSent, Unsent
    <2> QED
      BY <1>9, <2>4, <2>5 DEF SendOne
  <1>10. CASE SendClears
    <2>1. UNCHANGED <<call, agreed, save, romm, unmarked>> /\ passed \subseteq passed'
      BY <1>10 DEF SendClears, Passes
    <2> QED
      BY <2>1 DEF FolderSent, Unsent
  <1>11. CASE TakeRemoves
    <2>1. CASE CanRemove(book, job.who)
      <3>1. job.who \in People /\ job.who # book.active
        BY <2>1, MayRemove DEF Types
      <3>2. job.who \notin owed
        BY <1>11, <3>1 DEF TakeRemoves, Free, NoneLeft, MeIs
      <3>3. Unsent(job.who) => job.who \in passed \cup unmarked
        BY <1>11, <3>1, <3>2 DEF OwedOrPassed, TakeRemoves, Free, Pushing
      <3>4. call'.who = job.who /\ UNCHANGED <<agreed, save, romm, passed, unmarked>>
        BY <1>11, <2>1 DEF TakeRemoves
      <3> QED
        BY <3>3, <3>4 DEF FolderSent, Unsent
    <2>2. CASE ~CanRemove(book, job.who)
      BY <1>11, <2>2 DEF TakeRemoves, NoCall, FolderSent
    <2> QED
      BY <2>1, <2>2
  <1>12. CASE AnswerSignOut
    <2>1. call' = call /\ agreed' = People
      BY <1>12 DEF AnswerSignOut
    <2> QED
      BY <2>1 DEF FolderSent, Stages, Clearing
  <1>13. CASE AnswerRemove
    <2>1. CASE CanRemove(book, ask.who)
      BY <1>13, <2>1 DEF AnswerRemove, FolderSent
    <2>2. CASE ~CanRemove(book, ask.who)
      BY <1>13, <2>2 DEF AnswerRemove, NoCall, FolderSent
    <2> QED
      BY <2>1, <2>2
  <1>14. CASE RemoveFolder
    <2>1. call'.at # "folder"
      BY <1>14 DEF RemoveFolder, NoCall, Types, CallSet
    <2> QED
      BY <2>1 DEF FolderSent
  <1>15. CASE RemoveReads
    <2>1. call'.at # "folder"
      BY <1>15 DEF RemoveReads, NoCall, Types, CallSet
    <2> QED
      BY <2>1 DEF FolderSent
  <1>16. CASE RemoveWritesBook
    <2>1. call'.at # "folder"
      BY <1>16 DEF RemoveWritesBook, NoCall, Types, CallSet
    <2> QED
      BY <2>1 DEF FolderSent
  <1>17. CASE RemoveLogin
    <2>1. call'.at # "folder"
      BY <1>17 DEF RemoveLogin, NoCall
    <2> QED
      BY <2>1 DEF FolderSent
  <1>18. CASE Quit
    <2>1. call'.at # "folder"
      BY <1>18 DEF Quit, Off, NoCall
    <2> QED
      BY <2>1 DEF FolderSent
  <1>19. CASE PowerCut
    <2>1. call'.at # "folder"
      BY <1>19 DEF PowerCut, Off, NoCall
    <2> QED
      BY <2>1 DEF FolderSent
  <1>20. CASE ClearFolders
    <2>1. call'.at # "folder"
      BY <1>20 DEF ClearFolders, NoCall
    <2> QED
      BY <2>1 DEF FolderSent
  <1>21. CASE ClearBook
    <2>1. call'.at # "folder"
      BY <1>21 DEF ClearBook, NoCall, Types, CallSet
    <2> QED
      BY <2>1 DEF FolderSent
  <1>22. CASE ClearLogins
    <2>1. call'.at # "folder"
      BY <1>22 DEF ClearLogins, NoCall, Types, CallSet
    <2> QED
      BY <2>1 DEF FolderSent
  <1>23. CASE ClearMark
    <2>1. call'.at # "folder"
      BY <1>23 DEF ClearMark, NoCall
    <2> QED
      BY <2>1 DEF FolderSent
  <1> QED
    BY <1>24, <1>25, <1>1, <1>2, <1>3, <1>4, <1>5, <1>6, <1>7, <1>8, <1>9, <1>10, <1>11,
       <1>12, <1>13, <1>14, <1>15, <1>16, <1>17, <1>18, <1>19, <1>20, <1>21,
       <1>22, <1>23
       DEF Next, Resend, PairApproved, StartRemove, PairWritesLogin,
           PairWritesBook, StartSignOut, SendNext, SendCounts, TakeAsks,
           TakeLeaves, AnswerCancel, LeaveEnds, Start, Write, Press

\* A removal loses what it may.
LEMMA AskedStep ==
    ASSUME FolderSent, Asked, Next
    PROVE  Asked'
  <1> USE DEF disk, threads, bounds, history
  <1>1. CASE UNCHANGED <<lost, passed>>
    BY <1>1 DEF Asked
  <1>2. CASE SendOne
    BY <1>2 DEF SendOne, Passes, Asked
  <1>3. CASE SendClears
    BY <1>3 DEF SendClears, Passes, Asked
  <1>4. CASE RemoveFolder
    <2>1. PICK gone \in SUBSET {call.who} : Loses(gone, "removed")
      BY <1>4 DEF RemoveFolder
    <2>2. ASSUME NEW l \in lost', l \notin lost, l[2] = "removed" PROVE l[1] \in passed
      <3>1. /\ call.who \notin agreed /\ Unsent(call.who)
            /\ l = <<call.who, IF call.who \in unmarked THEN "unmarked" ELSE "removed">>
        BY <2>1, <2>2 DEF Loses, Unsent
      <3>2. call.who \notin unmarked /\ l[1] = call.who
        BY <2>2, <3>1
      <3> QED
        BY <1>4, <3>1, <3>2 DEF RemoveFolder, FolderSent
    <2>3. passed' = passed
      BY <1>4 DEF RemoveFolder
    <2> QED
      BY <2>2, <2>3 DEF Asked
  <1>5. CASE ClearFolders
    <2>1. PICK gone : Loses(gone, "signed out")
      BY <1>5 DEF ClearFolders
    <2>2. ASSUME NEW l \in lost', l \notin lost PROVE l[2] # "removed"
      <3>1. PICK p \in gone : l = <<p, IF p \in unmarked THEN "unmarked" ELSE "signed out">>
        BY <2>1, <2>2 DEF Loses
      <3>2. l[2] = IF p \in unmarked THEN "unmarked" ELSE "signed out"
        BY <3>1
      <3> QED
        BY <3>2
    <2>3. passed' = passed
      BY <1>5 DEF ClearFolders
    <2> QED
      BY <2>2, <2>3 DEF Asked
  <1> QED
    BY <1>1, <1>2, <1>3, <1>4, <1>5
       DEF Next, WriteSave, PushSave, Resend, UploadEnds, SwitchAccount, PairApproved,
           StartRemove, FirstRun, Activate, SwitchBack, SetColour, WriteBack,
           PairWritesLogin, PairWritesBook, StartSignOut, SendNext,
           SendCounts, TakeAsks, TakeLeaves, TakeRemoves, AnswerCancel,
           AnswerSignOut, AnswerRemove, RemoveReads, RemoveWritesBook,
           RemoveLogin, LeaveEnds, Quit, PowerCut, Start, ClearBook,
           ClearLogins, ClearMark, Off, Write, Press

\* The first states.
LEMMA First == ASSUME AccountsAssumption, Init PROVE IInv
  <1>1. PICK owner \in People, other \in People :
           /\ owner # other
           /\ book = [list |-> <<owner, other>>, active |-> owner]
           /\ logins = {owner, other} /\ folders = {owner, other}
           /\ me = owner
    BY DEF Init
  <1>2. NoCall \in CallSet /\ NoCall \in PairSet
    BY Nothing
  <1>3. NoJob \in JobSet /\ NoAsk \in AskSet
    BY DEF NoJob, JobSet, NoAsk, AskSet, AccountsAssumption
  <1>4. book \in Books
    <2>1. <<owner, other>> \in Seq(People) /\ IsInjective(<<owner, other>>)
      BY <1>1 DEF IsInjective
    <2> QED
      BY <1>1, <2>1 DEF Books
  <1>5. Listed = {owner, other} /\ book.active = owner
    <2>1. Range(<<owner, other>>) = {owner, other}
      BY DEF Range
    <2> QED
      BY <1>1, <2>1 DEF Listed
  <1>6. call.at = "idle" /\ pairing.at = "idle" /\ job.at = "idle" /\ ~ask.open /\ job.sending = 0
    BY DEF Init, NoCall, NoJob, NoAsk
  <1>7. 0 \in 0 .. MaxSaves
    BY DEF AccountsAssumption
  <1>8. Types
    BY <1>1, <1>2, <1>3, <1>4, <1>7 DEF Init, Types
  <1>9. Always
    BY <1>1, <1>6, <1>8
       DEF Always, Init, Stages, Clearing, Cleared, NoFolders, NoBook, NoLogins, FolderOut, Sending, Working,
           On, AccountsAssumption
  <1>10. Calling /\ MeIs /\ BookStands
    BY <1>1, <1>5, <1>6 DEF Calling, MeIs, BookStands
  <1>11. Owing /\ Asked
    BY <1>6 DEF Init, Owing, GoingUp, OwedOrPassed, Pushing, SentStands, NoneLeft, FolderSent,
                Unsent, JobDone, Asked
  <1> QED
    BY <1>9, <1>10, <1>11 DEF IInv, Uncrossed

\* Once the threads have been in the book at once, they have been.
LEMMA CrossedStays == ASSUME Next, crossed PROVE crossed'
  BY DEF Next, disk, threads, bounds, history, Write, Off, Passes, Loses, Delete, Press,
         WriteSave, PushSave, Resend, UploadEnds, SwitchAccount, PairApproved, StartRemove, FirstRun,
         Activate, SwitchBack, SetColour, WriteBack, PairWritesLogin, PairWritesBook,
         StartSignOut, SendNext, SendOne, SendClears, SendCounts, TakeAsks, TakeLeaves,
         TakeRemoves, AnswerCancel, AnswerSignOut, AnswerRemove, RemoveFolder, RemoveReads,
         RemoveWritesBook, RemoveLogin, LeaveEnds, Quit, PowerCut, Start, ClearFolders,
         ClearBook, ClearLogins, ClearMark

\* Every step, and a step of another part.
LEMMA Step == ASSUME AccountsAssumption, IInv, [Next]_vars PROVE IInv'
  <1>1. CASE Next
    <2>1. Always'
      BY <1>1, TypeStep, StagesStep, ClearedStep, FolderOutStep, SendingStep, WorkingStep
         DEF IInv, Always
    <2>2. CASE crossed'
      BY <2>1, <2>2 DEF IInv
    <2>3. CASE ~crossed'
      <3>1. Uncrossed
        BY <1>1, <2>3, CrossedStays DEF IInv
      <3>2. Calling' /\ MeIs' /\ BookStands'
        BY <1>1, <2>3, <3>1, CallingStep, MeIsStep, BookStandsStep DEF IInv, Always, Uncrossed
      <3>3. Owing'
        BY <1>1, <2>3, <3>1, GoingUpStep, OwedOrPassedStep, SentStandsStep, NoneLeftStep,
           FolderSentStep DEF IInv, Always, Uncrossed, Owing
      <3>4. Asked'
        BY <1>1, <3>1, AskedStep DEF Uncrossed, Owing
      <3> QED
        BY <2>1, <3>2, <3>3, <3>4 DEF IInv, Uncrossed
    <2> QED
      BY <2>2, <2>3
  <1>2. CASE UNCHANGED vars
    <2> USE <1>2 DEF vars, disk, threads, bounds, history
    <2>1. Always'
      BY DEF IInv, Always, Types, Stages, Clearing, Cleared, NoFolders, NoBook, NoLogins,
             FolderOut, Sending, Working, On
    <2>2. Calling => Calling'
      BY DEF Calling, CanRemove, Owner, Listed
    <2>3. MeIs /\ BookStands => MeIs' /\ BookStands'
      BY DEF MeIs, BookStands, Listed, On
    <2>4. Owing /\ Asked => Owing' /\ Asked'
      BY DEF Owing, GoingUp, OwedOrPassed, Pushing, SentStands, NoneLeft, FolderSent, Unsent,
             JobDone, Asked
    <2>5. crossed' = crossed
      OBVIOUS
    <2> QED
      BY <2>1, <2>2, <2>3, <2>4, <2>5 DEF IInv, Uncrossed
  <1> QED
    BY <1>1, <1>2

-----------------------------------------------------------------------------
(* Theorems. *)

\* The inductive invariant holds of every state of the accounts.
THEOREM AccountsInvariant == ASSUME AccountsAssumption PROVE Spec => []IInv
  BY First, Step, PTL DEF Spec

\* Every variable holds what its declaration says; nobody is in the book twice.
THEOREM AccountsTypes == ASSUME AccountsAssumption PROVE Spec => []TypeOK
  <1>1. IInv => TypeOK
    <2> SUFFICES ASSUME IInv PROVE TypeOK
      OBVIOUS
    <2>1. Types
      BY DEF IInv, Always
    <2>2. book.list \in Seq(People) /\ IsInjective(book.list)
          /\ book.active \in People \cup {Nobody}
      BY <2>1 DEF Types, Books
    <2>3. call.at \in Calls /\ pairing.at \in Calls
          /\ job.at \in {"idle", "next", "send", "sent", "count"}
      BY <2>1 DEF Types, CallSet, PairSet, JobSet, Calls
    <2> QED
      BY <2>1, <2>2, <2>3 DEF Types, TypeOK
  <1> QED
    BY <1>1, AccountsInvariant, PTL

\* Nobody is listed, and nobody is active, without a login, wherever the power is
\* cut, unless two threads were in the book at once or a sign out could not delete
\* the book.
THEOREM LoginsStandAlways == ASSUME AccountsAssumption PROVE Spec => []LoginsStand
  <1>1. IInv => LoginsStand
    BY DEF IInv, Uncrossed, BookStands, LoginsStand
  <1> QED
    BY <1>1, AccountsInvariant, PTL

\* Whose folder there is is listed: a removal cut short leaves its person there to
\* be removed again, unless two threads were in the book at once or a sign out could
\* not delete the folders.
THEOREM FoldersAreListed == ASSUME AccountsAssumption PROVE Spec => []FoldersListed
  <1>1. IInv => FoldersListed
    BY DEF IInv, Uncrossed, BookStands, FoldersListed
  <1> QED
    BY <1>1, AccountsInvariant, PTL

\* A sign out that says it is done has left no folder, no login and no account,
\* however often the power was cut, but what it could not delete.
THEOREM SignOutLeavesNothing == ASSUME AccountsAssumption PROVE Spec => []SignedOutIsEmpty
  <1>1. IInv => SignedOutIsEmpty
    BY DEF IInv, Always, Cleared, NoFolders, NoBook, NoLogins, SignedOutIsEmpty
  <1> QED
    BY <1>1, AccountsInvariant, PTL

\* A removal deletes no save that RomM has not, unasked, but one that was made
\* while an older one was sent or has no marker, unless two threads were in the book
\* at once.
THEOREM RemovalAsks == ASSUME AccountsAssumption PROVE Spec => []RemoveAsks
  <1>1. IInv => RemoveAsks
    BY DEF IInv, Uncrossed, Asked, RemoveAsks
  <1> QED
    BY <1>1, AccountsInvariant, PTL
=============================================================================
