-------------------------------- MODULE Pads --------------------------------
(***************************************************************************)
(* Which controller is which player: the seats of the console's own pads   *)
(* and of those that come through a stream (players.cpp), and the question *)
(* in Settings that gives a pad another's number (controllers.cpp). SDL    *)
(* says when a pad is on and off, under a new id each time; a pad is what  *)
(* its key says it is, and one with no key is not known when it is back.   *)
(***************************************************************************)
EXTENDS Lists, FiniteSetsExt

CONSTANTS
    Own, Streamed, \* the pads of each kind, none in both
    Keyless,    \* those with neither address, serial nor path
    Seats,      \* kMax
    None        \* no question

PadsAssumption == Seats \in Nat

VARIABLES
    on,         \* gOpen
    seats,      \* gSeats and gRemote: who is in each seat, or it is held for
    inGame, streaming,
    ask,        \* the question: the pad's, its number then, and the others'
    \* history
    had         \* the number a pad had that went off in this game

vars == <<on, seats, inGame, streaming, ask, had>>

Pads   == Own \cup Streamed
Kind   == {"own", "stream"}
Of(p)  == IF p \in Streamed THEN "stream" ELSE "own"
Active == IF streaming THEN "stream" ELSE "own"

Seat(p) == [pad |-> p, on |-> TRUE]
Held(s) == {n \in 1 .. Len(s) : ~s[n].on}

\* playerOf, from 1; 0 for a pad that has no seat.
PlayerOf(s, p) ==
    LET at == {n \in 1 .. Len(s) : s[n] = Seat(p)} IN IF at = {} THEN 0 ELSE Min(at)

Number(p) == PlayerOf(seats[Of(p)], p)

-----------------------------------------------------------------------------
(* The rules: Seats. *)

\* add: the pad's own seat, a new one, or one held for another; or none.
Add(s, p) ==
    LET own == {n \in Held(s) : s[n].pad = p /\ p \notin Keyless}
        at  == IF own # {} THEN own ELSE IF Len(s) < Seats THEN {} ELSE Held(s)
    IN  CASE at # {}                    -> [s EXCEPT ![Min(at)] = Seat(p)]
          [] at = {} /\ Len(s) < Seats  -> Append(s, Seat(p))
          [] OTHER                      -> s

\* closeUp: the seats left are those of pads that are on, but the one that goes off.
CloseUp(s, p) == Chosen(s, {Seat(q) : q \in Pads \ {p}})

\* remove that closes up in a game as well.
Remove_ClosesUp(s, p) == IF PlayerOf(s, p) = 0 THEN s ELSE CloseUp(s, p)

\* remove: in a game the seat is held, until nobody is in one.
Remove(s, p) ==
    LET n    == PlayerOf(s, p)
        left == [s EXCEPT ![n].on = FALSE]
    IN  CASE n = 0                                -> s
          [] n # 0 /\ ~inGame                     -> CloseUp(s, p)
          [] n # 0 /\ inGame /\ Held(left) = 1 .. Len(s) -> <<>>
          [] OTHER                                -> left

\* swap, of two seats with somebody in them and outside a game.
Swapped(s, a, b) ==
    IF ~inGame /\ {a, b} \subseteq 1 .. Len(s) \ Held(s)
    THEN [s EXCEPT ![a] = s[b], ![b] = s[a]]
    ELSE s

-----------------------------------------------------------------------------
(* The console's pads. *)

\* added.
PadOn(p) ==
    /\ p \notin on
    /\ on' = on \cup {p}
    /\ seats' = [seats EXCEPT ![Of(p)] = Add(@, p)]
    /\ had' = [q \in Pads |->
          IF q = p \/ (Of(q) = Of(p) /\ Len(seats[Of(p)]) = Seats
                       /\ had[q] = PlayerOf(seats'[Of(p)], p))
          THEN 0 ELSE had[q]]
    /\ UNCHANGED <<inGame, streaming, ask>>

\* removed.
PadOff(p) ==
    /\ p \in on
    /\ on' = on \ {p}
    /\ seats' = [seats EXCEPT ![Of(p)] = Remove(@, p)]
    /\ LET seated == {q \in on' : Of(q) = Of(p) /\ Number(q) # 0}
       IN  had' = [q \in Pads |->
              CASE q = p /\ inGame /\ q \notin Keyless /\ seated # {} -> Number(q)
                [] Of(q) = Of(p) /\ seated = {}                       -> 0
                [] OTHER                                              -> had[q]]
    /\ UNCHANGED <<inGame, streaming, ask>>

\* setInGame, each frame. A game is not begun over a question of Settings.
GameBegins ==
    /\ ~inGame /\ ask = None
    /\ inGame' = TRUE
    /\ UNCHANGED <<on, seats, streaming, ask, had>>

GameEnds ==
    /\ inGame
    /\ inGame' = FALSE
    /\ seats' = [k \in Kind |-> Chosen(seats[k], {Seat(p) : p \in Pads})]
    /\ had' = [p \in Pads |-> 0]
    /\ UNCHANGED <<on, streaming, ask>>

\* remotePlayHandover, setStreaming: a stream that begins closes the question.
StreamBegins ==
    /\ ~streaming
    /\ streaming' = TRUE
    /\ ask' = None
    /\ UNCHANGED <<on, seats, inGame, had>>

StreamEnds ==
    /\ streaming
    /\ streaming' = FALSE
    /\ UNCHANGED <<on, seats, inGame, ask, had>>

\* A pad picked in the Controllers panel (openPadsPanelAt): the numbers are those
\* of now, and the question stays as it is while pads come and go (followPads).
AskNumber(p) ==
    /\ ~inGame /\ ask = None
    /\ Of(p) = Active /\ Number(p) # 0
    /\ LET others == {Number(q) : q \in {r \in on : Of(r) = Active}} \ {0, Number(p)}
       IN  /\ others # {}
           /\ ask' = [pad |-> p, me |-> Number(p), numbers |-> others]
    /\ UNCHANGED <<on, seats, inGame, streaming, had>>

MakePlayer(n) ==
    /\ ask # None /\ n \in ask.numbers
    /\ seats' = [seats EXCEPT ![Active] = Swapped(@, ask.me, n)]
    /\ ask' = None
    /\ UNCHANGED <<on, inGame, streaming, had>>

Cancel ==
    /\ ask # None
    /\ ask' = None
    /\ UNCHANGED <<on, seats, inGame, streaming, had>>

-----------------------------------------------------------------------------
Init ==
    /\ on = {} /\ seats = [k \in Kind |-> <<>>]
    /\ inGame = FALSE /\ streaming = FALSE /\ ask = None
    /\ had = [p \in Pads |-> 0]

Next ==
    \/ \E p \in Pads : PadOn(p) \/ PadOff(p) \/ AskNumber(p)
    \/ \E n \in 1 .. Seats : MakePlayer(n)
    \/ GameBegins \/ GameEnds \/ StreamBegins \/ StreamEnds \/ Cancel

Spec == Init /\ [][Next]_vars

-----------------------------------------------------------------------------
\* The type invariant.
TypeOK ==
    /\ on \subseteq Pads
    /\ \A k \in Kind :
          /\ Len(seats[k]) <= Seats
          /\ \A n \in 1 .. Len(seats[k]) :
                /\ Of(seats[k][n].pad) = k
                /\ seats[k][n].on => seats[k][n].pad \in on
    /\ inGame \in BOOLEAN /\ streaming \in BOOLEAN
    /\ ask # None => ask.pad \in Pads /\ ask.numbers \subseteq 1 .. Seats \ {ask.me}
    /\ had \in [Pads -> 0 .. Seats]

\* The rules of players.h: in a game nobody's number changes while their pad is
\* on, whoever comes and goes, and a pad that goes off has its number back when
\* it returns, unless every seat was left or a pad too many was given its seat;
\* outside a game no seat is held. A stream, and a question answered late, change
\* nothing of it.
NumbersHold ==
    [][/\ inGame /\ inGame' => \A p \in on \cap on' : Number(p)' = Number(p)
       /\ inGame => \A p \in on' \ on : had[p] # 0 => Number(p)' = had[p]
       /\ ~inGame' => \A k \in Kind : Held(seats'[k]) = {}]_vars
=============================================================================
