----------------------------- MODULE Favourites -----------------------------
(***************************************************************************)
(* A person's favourites (src/frontend/src/favorites.cpp): the list on the *)
(* console in Home's order, the presses RomM has not heard of, the upload  *)
(* worker that sends them and the load of the library, which writes RomM's *)
(* favourites over the list (library.cpp, loadLibrary).                    *)
(*                                                                         *)
(* Both files are changed under one lock, gFavMutex: a step each. A press  *)
(* writes two files under it, which a power cut can part (TornPress). They *)
(* are not written by writeBytes: a write that fails is passed over, and a *)
(* power cut may leave either file empty (fileio.h), however it was last   *)
(* written.                                                                *)
(* AllGames are their ids, which are numbers; RomM lists them by title.       *)
(***************************************************************************)
EXTENDS Lists, Functions

CONSTANTS
    Ids,          \* the games, in the order of their ids
    Titles,       \* the games, in the order of their titles
    MaxPresses,   \* bound: hearts pressed
    MaxElsewhere, \* bound: favourites changed on another device
    MaxCuts       \* bound: power cuts

FavouritesAssumption ==
    /\ Ids \in Seq(Nat \ {0}) /\ \A m, n \in 1 .. Len(Ids) : m < n => Ids[m] < Ids[n]
    /\ Titles \in Seq(Nat \ {0}) /\ IsInjective(Titles) /\ Range(Titles) = Range(Ids)
    /\ MaxPresses \in Nat /\ MaxElsewhere \in Nat /\ MaxCuts \in Nat

VARIABLES
    list,         \* favorites.json
    owed,         \* favorites-owed.json: pairs of a game and what it should be
    romm,         \* the favourites RomM has
    parked,       \* gFavParked has the person
    wpc, todo, sending,   \* the upload worker in sendFavoritesAs
    lpc, fetched, \* the load of the library
    presses, changes, cuts,   \* bound the model
    \* history
    want,         \* the last press of each game, as a set of at most one
    elsewhere,    \* games another device changed since RomM last heard a press
    sentSince,    \* games whose press was sent since the load's fetch
    overtaken,    \* games whose press was sent in the middle of the last load
    torn,         \* games the list may be wrong about: a write failed in their
                  \* press, or a power cut parted it or emptied the list
    lost          \* games whose last press is not recorded as owed, nor was: its
                  \* write failed, or a power cut came first or emptied the record

files   == <<list, owed>>
worker  == <<wpc, todo, sending>>
load    == <<lpc, fetched>>
bounds  == <<presses, changes, cuts>>
history == <<want, elsewhere, sentSince, overtaken, torn, lost>>
vars    == <<files, romm, parked, worker, load, bounds, history>>

AllGames == Range(Ids)
Press == AllGames \X BOOLEAN
None  == <<0, FALSE>>
Listed == {list[n] : n \in 1 .. Len(list)}
OwedGames == {o[1] : o \in owed}

\* The games wanted by the presses still owed, or else by others.
Wanted(others) == {g \in AllGames : <<g, TRUE>> \in owed \/ (g \notin OwedGames /\ g \in others)}

-----------------------------------------------------------------------------
(* The frame thread. *)

\* pressFavorite: first in the list, or off it ...
PressedList(g, on) == (IF on THEN <<g>> ELSE <<>>) \o Chosen(list, AllGames \ {g})

\* A press that is noted once, and stays as it was.
PressedOwed_First(g, on) == IF g \in OwedGames THEN owed ELSE owed \cup {<<g, on>>}

\* ... and the last press is the one owed.
PressedOwed(g, on) == {o \in owed : o[1] # g} \cup {<<g, on>>}

PressHeart(g, on) ==
    /\ presses < MaxPresses
    /\ presses' = presses + 1
    /\ list' \in {PressedList(g, on), list}
    /\ owed' \in {PressedOwed(g, on), owed}
    /\ parked' = FALSE
    /\ want' = [want EXCEPT ![g] = {on}]
    /\ overtaken' = overtaken \ {g}
    /\ torn' = IF list' = PressedList(g, on) /\ owed' = PressedOwed(g, on)
               THEN torn \ {g} ELSE torn \cup {g}
    /\ lost' = IF owed' = PressedOwed(g, on) THEN lost \ {g} ELSE lost \cup {g}
    /\ UNCHANGED <<romm, worker, load, changes, cuts, elsewhere, sentSince>>

-----------------------------------------------------------------------------
(* The upload worker, sendFavoritesAs. *)

StartSending ==
    /\ wpc = "idle" /\ owed # {} /\ ~parked
    /\ todo' = owed
    /\ wpc' = "send"
    /\ UNCHANGED <<files, romm, parked, sending, load, bounds, history>>

\* The next of the copy it took, in the order of a std::map.
NextPress == CHOOSE o \in todo : \A q \in todo : o[1] <= q[1]

JobEnds == wpc' = "idle" /\ todo' = {} /\ sending' = None

\* setFavorite reaches RomM; its answer may still be lost.
Deliver ==
    /\ wpc = "send" /\ todo # {}
    /\ sending' = NextPress
    /\ todo' = todo \ {NextPress}
    /\ romm' = IF NextPress[2] THEN romm \cup {NextPress[1]} ELSE romm \ {NextPress[1]}
    /\ wpc' = "answer"
    /\ elsewhere' = elsewhere \ {NextPress[1]}
    /\ UNCHANGED <<files, parked, load, bounds, want, sentSince, overtaken, torn,
                   lost>>

\* Not reached, refused, or the answer lost: what is left stays owed.
NotSent ==
    /\ \/ wpc = "send" /\ todo # {}
       \/ wpc = "answer"
    /\ JobEnds
    /\ UNCHANGED <<files, romm, parked, load, bounds, history>>

\* RomM will not make the person's Favorites collection.
Park ==
    /\ wpc = "send" /\ todo # {}
    /\ parked' = TRUE
    /\ JobEnds
    /\ UNCHANGED <<files, romm, load, bounds, history>>

\* A press that is no longer owed once sent, whatever was pressed meanwhile.
Heard_Any == {o \in owed : o[1] = sending[1]}

\* One that is no longer owed: not when it was pressed again meanwhile.
Heard == {sending}

Answered ==
    /\ wpc = "answer"
    /\ owed' \in {owed \ Heard, owed}
    /\ sentSince' = IF owed' # owed THEN sentSince \cup {sending[1]} ELSE sentSince
    /\ wpc' = "send" /\ sending' = None
    /\ UNCHANGED <<list, romm, parked, todo, load, bounds, want, elsewhere, overtaken,
                   torn, lost>>

AllSent ==
    /\ wpc = "send" /\ todo = {}
    /\ JobEnds
    /\ UNCHANGED <<files, romm, parked, load, bounds, history>>

-----------------------------------------------------------------------------
(* The load of the library, on the frame thread or the reload's worker. *)

Fetch ==
    /\ lpc = "idle"
    /\ fetched' = Chosen(Titles, romm)
    /\ lpc' = "keep"
    /\ sentSince' = {}
    /\ UNCHANGED <<files, romm, parked, worker, bounds, want, elsewhere, overtaken,
                   torn, lost>>

OnServer == {fetched[n] : n \in 1 .. Len(fetched)}

\* The favourites that come before the ones the console had: owed but lost,
\* then made elsewhere, in RomM's order.
NewOnes ==
    LET missing == {g \in AllGames \ Listed : <<g, TRUE>> \in owed}
    IN  Chosen(Ids, missing) \o Chosen(fetched, Wanted(OnServer) \ (Listed \cup missing))

\* A list that takes RomM's as it is.
KeptList_Theirs == Chosen(fetched, Wanted(OnServer))

\* A list that asks RomM's of what was fetched, and forgets what is owed.
KeptList_Fetched == Chosen(fetched, AllGames \ Listed) \o Chosen(list, OnServer)

\* The rest keep their places.
KeptList == NewOnes \o Chosen(list, Wanted(OnServer))

\* keepFavorites.
Keep ==
    /\ lpc = "keep"
    /\ \/ list' = KeptList /\ overtaken' = sentSince /\ torn' = {}
       \/ UNCHANGED <<list, overtaken, torn>>
    /\ lpc' = "idle" /\ fetched' = <<>>
    /\ UNCHANGED <<owed, romm, parked, worker, bounds, want, elsewhere, sentSince, lost>>

-----------------------------------------------------------------------------

\* Another device of the person makes a favourite or unmakes one.
ElsewhereChanges(g) ==
    /\ changes < MaxElsewhere
    /\ changes' = changes + 1
    /\ romm' = IF g \in romm THEN romm \ {g} ELSE romm \cup {g}
    /\ elsewhere' = elsewhere \cup {g}
    /\ UNCHANGED <<files, parked, worker, load, presses, cuts, want, sentSince,
                   overtaken, torn, lost>>

\* The power goes after the writes of these two, in a press of these games.
PowerGoes(written, record, games) ==
    /\ cuts < MaxCuts
    /\ cuts' = cuts + 1
    /\ list' \in {written, <<>>} /\ owed' \in {record, {}}
    /\ torn' = torn \cup games \cup (Listed \ Listed')
    /\ lost' = lost \cup games \cup (OwedGames \ OwedGames')
    /\ parked' = FALSE
    /\ JobEnds
    /\ lpc' = "idle" /\ fetched' = <<>>
    /\ UNCHANGED <<romm, changes, elsewhere, sentSince, overtaken>>

Crash == PowerGoes(list, owed, {}) /\ UNCHANGED <<presses, want>>

\* The power goes in a press, with the list written and what is owed not.
TornPress(g, on) ==
    /\ presses < MaxPresses
    /\ presses' = presses + 1
    /\ PowerGoes(PressedList(g, on), owed, {g})
    /\ want' = [want EXCEPT ![g] = {on}]

Init ==
    /\ romm \in SUBSET AllGames
    /\ list = Chosen(Titles, romm)
    /\ owed = {}
    /\ parked = FALSE
    /\ wpc = "idle" /\ todo = {} /\ sending = None
    /\ lpc = "idle" /\ fetched = <<>>
    /\ presses = 0 /\ changes = 0 /\ cuts = 0
    /\ want = [g \in AllGames |-> {}]
    /\ elsewhere = {} /\ sentSince = {} /\ overtaken = {} /\ torn = {}
    /\ lost = {}

Worker == StartSending \/ Deliver \/ NotSent \/ Park \/ Answered \/ AllSent

Load == Fetch \/ Keep

Outside ==
    \/ Crash
    \/ \E g \in AllGames : ElsewhereChanges(g)
    \/ \E g \in AllGames, on \in BOOLEAN : TornPress(g, on)

Next ==
    \/ \E g \in AllGames, on \in BOOLEAN : PressHeart(g, on)
    \/ Worker \/ Load \/ Outside

Spec == Init /\ [][Next]_vars

-----------------------------------------------------------------------------
(* Properties. *)

\* Every variable holds what its declaration says; no game is twice in the
\* list, and no game owes two presses.
TypeOK ==
    /\ list \in Seq(AllGames) /\ IsInjective(list)
    /\ owed \subseteq Press /\ \A o, q \in owed : o[1] = q[1] => o = q
    /\ romm \subseteq AllGames /\ parked \in BOOLEAN
    /\ wpc \in {"idle", "send", "answer"} /\ lpc \in {"idle", "keep"}
    /\ todo \subseteq Press /\ sending \in Press \cup {None}
    /\ fetched \in Seq(AllGames)
    /\ presses \in Nat /\ changes \in Nat /\ cuts \in Nat
    /\ want \in [AllGames -> SUBSET BOOLEAN]
    /\ elsewhere \subseteq AllGames /\ sentSince \subseteq AllGames
    /\ overtaken \subseteq AllGames /\ torn \subseteq AllGames
    /\ lost \subseteq AllGames

\* A press RomM has not heard of is what the list shows, whatever a load writes
\* over the list meanwhile: only a write that failed or a power cut that parted
\* the press or emptied the list can part them, until the next load that writes
\* the list (favorites.cpp, pressFavorite and keepFavorites).
OwedIsShown == \A o \in owed : o[1] \in torn \/ (o[1] \in Listed <=> o[2])

\* Once a press is no longer owed RomM has what was pressed last, though the
\* worker sends a copy of what was owed and presses go on under it, though
\* answers are lost and though the record of what is owed cannot be written once
\* a press is sent (sendFavoritesAs): unless another device changed it since, or
\* the record of the press was lost, by a write that failed or by a power cut.
RommHeardLast ==
    \A g \in AllGames \ (elsewhere \cup lost) : \A on \in want[g] :
        g \notin OwedGames => (g \in romm <=> on)

\* The list shows each game as it was pressed last, unless another device
\* changed it, it was sent in the middle of a load, whose answer from before it
\* is then taken (keepFavorites, Answered), a power cut or a write that failed
\* left the list wrong (torn, until the next load), or RomM never heard the press
\* because its record was lost (lost), whose list the next load writes.
ListShowsLast ==
    \A g \in AllGames \ (elsewhere \cup overtaken \cup torn \cup lost) :
        \A on \in want[g] : g \in Listed <=> on

\* Where game g is in list s, which has it.
Place(s, g) == CHOOSE n \in 1 .. Len(s) : s[n] = g

\* Home's order is the console's: of two favourites that stay, only one hearted
\* now, to the front, overtakes the other (keepFavorites, #476).
OrderKept ==
    [][\A g, h \in Listed \cap Listed' :
          Place(list, g) < Place(list, h) /\ Place(list', h) < Place(list', g)
              => h = Head(list') /\ presses' # presses]_vars
=============================================================================
