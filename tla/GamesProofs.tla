---------------------------- MODULE GamesProofs ----------------------------
(***************************************************************************)
(* Proofs about the two parts of MCGames, for any people, games and        *)
(* bounds: Keeps, and GoneSaves as its instance Gone.                      *)
(***************************************************************************)
EXTENDS MCGames, FiniteSetTheorems, TLAPS

Disks == [Games -> [SlotSet -> {"none", "bad", "whole"}]]

-----------------------------------------------------------------------------
(* The slots, and what relocate and dedupe do with the copies in them.     *)

\* The slots of both drives, in the order findAll looks in.
LEMMA SlotsAre ==
    /\ Len(Slots) = 4
    /\ Slots[1] = <<"main", "roms">> /\ Slots[2] = <<"main", "cache">>
    /\ Slots[3] = <<"usb", "roms">> /\ Slots[4] = <<"usb", "cache">>
    /\ SlotSet = {<<"main", "roms">>, <<"main", "cache">>, <<"usb", "roms">>, <<"usb", "cache">>}
  <1>1. /\ Len(Slots) = 4
        /\ Slots[1] = <<"main", "roms">> /\ Slots[2] = <<"main", "cache">>
        /\ Slots[3] = <<"usb", "roms">> /\ Slots[4] = <<"usb", "cache">>
    BY DEF Slots
  <1>2. 1 .. 4 = {1, 2, 3, 4}
    OBVIOUS
  <1>3. SlotSet = {Slots[1], Slots[2], Slots[3], Slots[4]}
    BY <1>1, <1>2 DEF SlotSet
  <1> QED
    BY <1>1, <1>3

\* find gives the first copy: where that is in a cache half, the other half of
\* its drive has none.
LEMMA FindIs ==
    ASSUME NEW d \in Disks, NEW g \in Games, Copies(d, g) # {}
    PROVE  /\ Find(d, g) \in Copies(d, g) /\ Find(d, g) \in SlotSet
           /\ Find(d, g)[2] = "cache" => d[g][<<Find(d, g)[1], "roms">>] = "none"
  <1> DEFINE First(n) == /\ Slots[n] \in Copies(d, g)
                         /\ \A m \in 1 .. n - 1 : Slots[m] \notin Copies(d, g)
  <1>1. Copies(d, g) \subseteq {Slots[1], Slots[2], Slots[3], Slots[4]}
    BY SlotsAre DEF Copies, Here
  <1>2. \E n \in 1 .. 4 : First(n)
    <2>1. CASE Slots[1] \in Copies(d, g)
      <3>1. First(1)
        BY <2>1
      <3> QED
        BY <3>1
    <2>2. CASE Slots[1] \notin Copies(d, g) /\ Slots[2] \in Copies(d, g)
      <3>1. First(2)
        BY <2>2
      <3> QED
        BY <3>1
    <2>3. CASE Slots[1] \notin Copies(d, g) /\ Slots[2] \notin Copies(d, g)
               /\ Slots[3] \in Copies(d, g)
      <3>1. First(3)
        BY <2>3
      <3> QED
        BY <3>1
    <2>4. CASE Slots[1] \notin Copies(d, g) /\ Slots[2] \notin Copies(d, g)
               /\ Slots[3] \notin Copies(d, g) /\ Slots[4] \in Copies(d, g)
      <3>1. First(4)
        BY <2>4
      <3> QED
        BY <3>1
    <2> QED
      BY <1>1, <2>1, <2>2, <2>3, <2>4
  <1> DEFINE N == CHOOSE n \in 1 .. 4 : First(n)
  <1>3. N \in 1 .. 4 /\ First(N)
    BY <1>2
  <1>4. Find(d, g) = Slots[N]
    BY SlotsAre DEF Find
  <1> HIDE DEF N
  <1>5. CASE N = 1
    BY <1>3, <1>4, <1>5, SlotsAre
  <1>6. CASE N = 2
    <2>1. Slots[1] \notin Copies(d, g)
      BY <1>3, <1>6
    <2>2. <<"main", "roms">> \in Here
      BY SlotsAre DEF Here
    <2> QED
      BY <1>3, <1>4, <1>6, <2>1, <2>2, SlotsAre DEF Copies
  <1>7. CASE N = 3
    BY <1>3, <1>4, <1>7, SlotsAre
  <1>8. CASE N = 4
    <2>1. Slots[3] \notin Copies(d, g) /\ Slots[4] \in Copies(d, g)
      BY <1>3, <1>8
    <2>2. <<"usb", "roms">> \in Here
      BY <2>1, SlotsAre DEF Here, Copies
    <2> QED
      BY <1>3, <1>4, <1>8, <2>1, <2>2, SlotsAre DEF Copies
  <1> QED
    BY <1>3, <1>5, <1>6, <1>7, <1>8

\* Taking copies away touches nothing else.
LEMMA WithoutIs ==
    ASSUME NEW d \in Disks, NEW g \in Games, NEW S
    PROVE  /\ Without(d, g, S) \in Disks
           /\ \A h \in Games \ {g} : Without(d, g, S)[h] = d[h]
           /\ \A s \in SlotSet : Without(d, g, S)[g][s] = IF s \in S THEN "none" ELSE d[g][s]
  BY DEF Without, Disks

\* relocate writes no copy over another: one that was whole in a roms half
\* stays, and a game that had a whole copy has one.
LEMMA RelocatedIs ==
    ASSUME NEW d \in Disks, NEW g \in Games, NEW half \in {"roms", "cache"}
    PROVE  /\ Relocated(d, g, half) \in Disks
           /\ \A h \in Games \ {g} : Relocated(d, g, half)[h] = d[h]
           /\ half = "roms" =>
                 /\ \A s \in SlotSet : s[2] = "roms" /\ d[g][s] = "whole"
                                           => Relocated(d, g, half)[g][s] = "whole"
                 /\ Whole(d, g) => Whole(Relocated(d, g, half), g)
  <1>1. CASE Copies(d, g) = {} \/ Find(d, g)[2] = half
    BY <1>1 DEF Relocated
  <1>2. CASE ~(Copies(d, g) = {} \/ Find(d, g)[2] = half)
    <2> DEFINE f == Find(d, g)
               t == <<f[1], half>>
               r == Relocated(d, g, half)
    <2>1. /\ f \in SlotSet /\ f \in Copies(d, g)
          /\ f[2] = "cache" => d[g][<<f[1], "roms">>] = "none"
      BY <1>2, FindIs
    <2>2. t \in SlotSet /\ t # f /\ f[2] # half
      BY <1>2, <2>1, SlotsAre
    <2>3. r = [d EXCEPT ![g][t] = d[g][f], ![g][f] = "none"]
      BY <1>2 DEF Relocated
    <2> HIDE DEF f, t, r
    <2>4. /\ r \in Disks /\ \A h \in Games \ {g} : r[h] = d[h]
          /\ r[g][t] = d[g][f] /\ r[g][f] = "none"
          /\ \A s \in SlotSet \ {t, f} : r[g][s] = d[g][s]
      BY <2>1, <2>2, <2>3 DEF Disks
    <2>5. ASSUME half = "roms"
          PROVE  /\ \A s \in SlotSet : s[2] = "roms" /\ d[g][s] = "whole" => r[g][s] = "whole"
                 /\ Whole(d, g) => Whole(r, g)
      <3>1. f[2] = "cache" /\ t = <<f[1], "roms">> /\ t[2] = "roms" /\ d[g][t] = "none"
        BY <2>1, <2>2, <2>5, SlotsAre DEF t
      <3>2. \A s \in SlotSet : s[2] = "roms" /\ d[g][s] = "whole" => r[g][s] = "whole"
        BY <2>4, <3>1
      <3>3. f \in Here => t \in Here
        BY <2>1, <2>2, <3>1, SlotsAre DEF Here
      <3>4. Whole(d, g) => Whole(r, g)
        BY <2>1, <2>2, <2>4, <3>1, <3>3 DEF Whole, Copies, Here
      <3> QED
        BY <3>2, <3>4
    <2> QED
      BY <2>4, <2>5 DEF r
  <1> QED
    BY <1>1, <1>2

\* The copy dedupe leaves is whole and, of a game somebody keeps, in roms where
\* a whole one was.
LEMMA WinnerIs ==
    ASSUME NEW d \in Disks, NEW g \in Games, NEW k, Whole(d, g)
    PROVE  /\ Winner(d, k, g) \in Copies(d, g) /\ d[g][Winner(d, k, g)] = "whole"
           /\ Keepers(k, g) # {} =>
                 \A s \in Copies(d, g) : d[g][s] = "whole" /\ s[2] = "roms"
                     => Winner(d, k, g)[2] = "roms"
  <1> DEFINE whole == {s \in Copies(d, g) : d[g][s] = "whole"}
             Best(s) == \A t \in whole : Rank(k, g, s) <= Rank(k, g, t)
  <1>1. whole # {} /\ \A s \in whole : s \in SlotSet /\ Rank(k, g, s) \in {0, 1, 2, 3}
    BY SlotsAre DEF Whole, Copies, Here, Rank
  <1>2. \E s \in whole : Best(s)
    <2>1. CASE \E s \in whole : Rank(k, g, s) = 0
      BY <1>1, <2>1
    <2>2. CASE \E s \in whole : Rank(k, g, s) = 1 /\ \A t \in whole : Rank(k, g, t) # 0
      BY <1>1, <2>2
    <2>3. CASE \E s \in whole : /\ Rank(k, g, s) = 2
                              /\ \A t \in whole : Rank(k, g, t) \notin {0, 1}
      BY <1>1, <2>3
    <2>4. CASE \A t \in whole : Rank(k, g, t) = 3
      BY <1>1, <2>4
    <2> QED
      BY <1>1, <2>1, <2>2, <2>3, <2>4
  <1> DEFINE W == CHOOSE s \in whole : Best(s)
  <1>3. W \in whole /\ Best(W)
    BY <1>2
  <1>4. Winner(d, k, g) = W
    BY DEF Winner
  <1> HIDE DEF W
  <1>5. ASSUME Keepers(k, g) # {}, NEW s \in whole, s[2] = "roms" PROVE W[2] = "roms"
    <2>1. Rank(k, g, s) \in {0, 1} /\ W \in SlotSet
      BY <1>1, <1>3, <1>5, SlotsAre DEF Rank
    <2>2. Rank(k, g, W) <= Rank(k, g, s)
      BY <1>3, <1>5
    <2>3. W[2] = "cache" => Rank(k, g, W) \in {2, 3}
      BY <1>5 DEF Rank
    <2> QED
      BY <2>1, <2>2, <2>3, SlotsAre
  <1> QED
    BY <1>3, <1>4, <1>5

\* dedupe leaves a kept game a whole copy in roms if it had one, and one copy, a
\* whole one, to a game that had any.
LEMMA DedupedIs ==
    ASSUME NEW d \in Disks, NEW g \in Games, NEW k
    PROVE  /\ Deduped(d, k, g) \in Disks
           /\ \A h \in Games \ {g} : Deduped(d, k, g)[h] = d[h]
           /\ \A s \in SlotSet :
                 s[2] = "roms" /\ d[g][s] = "whole" /\ Keepers(k, g) # {}
                     => \E t \in SlotSet : t[2] = "roms" /\ Deduped(d, k, g)[g][t] = "whole"
           /\ Whole(d, g) => /\ Whole(Deduped(d, k, g), g)
                             /\ Cardinality(Copies(Deduped(d, k, g), g)) = 1
  <1> DEFINE e == Deduped(d, k, g)
  <1>0. IsFiniteSet(Copies(d, g))
    <2>1. IsFiniteSet({<<"main", "roms">>, <<"main", "cache">>, <<"usb", "roms">>, <<"usb", "cache">>})
      <3>1. IsFiniteSet({})
        BY FS_EmptySet
      <3>2. IsFiniteSet({} \cup {<<"main", "roms">>})
        BY <3>1, FS_AddElement
      <3>3. IsFiniteSet(({} \cup {<<"main", "roms">>}) \cup {<<"main", "cache">>})
        BY <3>2, FS_AddElement
      <3>4. IsFiniteSet((({} \cup {<<"main", "roms">>}) \cup {<<"main", "cache">>})
                            \cup {<<"usb", "roms">>})
        BY <3>3, FS_AddElement
      <3>5. IsFiniteSet(((({} \cup {<<"main", "roms">>}) \cup {<<"main", "cache">>})
                            \cup {<<"usb", "roms">>}) \cup {<<"usb", "cache">>})
        BY <3>4, FS_AddElement
      <3>6. {<<"main", "roms">>, <<"main", "cache">>, <<"usb", "roms">>, <<"usb", "cache">>}
              = ((({} \cup {<<"main", "roms">>}) \cup {<<"main", "cache">>})
                     \cup {<<"usb", "roms">>}) \cup {<<"usb", "cache">>}
        OBVIOUS
      <3> QED
        BY <3>5, <3>6
    <2>2. IsFiniteSet(SlotSet)
      BY <2>1, SlotsAre
    <2>3. Copies(d, g) \subseteq SlotSet
      BY DEF Copies, Here
    <2> QED
      BY <2>2, <2>3, FS_Subset
  <1>1. CASE Cardinality(Copies(d, g)) <= 1 \/ ~Whole(d, g)
    <2>1. e = d
      BY <1>1 DEF Deduped
    <2>2. ASSUME Whole(d, g) PROVE Cardinality(Copies(d, g)) = 1
      <3>1. Copies(d, g) # {}
        BY <2>2 DEF Whole
      <3>2. Cardinality(Copies(d, g)) # 0 /\ Cardinality(Copies(d, g)) \in Nat
        BY <1>0, <3>1, FS_EmptySet, FS_CardinalityType
      <3> QED
        BY <1>1, <2>2, <3>2
    <2> HIDE DEF e
    <2>3. \A s \in SlotSet : s[2] = "roms" /\ d[g][s] = "whole"
              => \E t \in SlotSet : t[2] = "roms" /\ d[g][t] = "whole"
      OBVIOUS
    <2> QED
      BY <2>1, <2>2, <2>3 DEF e
  <1>2. CASE Cardinality(Copies(d, g)) > 1 /\ Whole(d, g)
    <2> DEFINE W == Winner(d, k, g)
               S == Copies(d, g) \ {W}
    <2>1. e = Without(d, g, S)
      <3>1. ~(Cardinality(Copies(d, g)) <= 1)
        BY <1>0, <1>2, FS_CardinalityType
      <3> QED
        BY <1>2, <3>1 DEF Deduped
    <2>2. /\ W \in Copies(d, g) /\ W \in SlotSet /\ d[g][W] = "whole"
          /\ Keepers(k, g) # {} =>
                 \A s \in Copies(d, g) : d[g][s] = "whole" /\ s[2] = "roms" => W[2] = "roms"
      BY <1>2, WinnerIs DEF Copies, Here
    <2> HIDE DEF e, W
    <2>3. /\ e \in Disks /\ \A h \in Games \ {g} : e[h] = d[h]
          /\ \A s \in SlotSet : e[g][s] = IF s \in S THEN "none" ELSE d[g][s]
      BY <2>1, WithoutIs
    <2>4. e[g][W] = "whole" /\ \A s \in SlotSet \ Copies(d, g) : e[g][s] = d[g][s]
      BY <2>2, <2>3
    <2>5. Copies(e, g) = {W}
      BY <2>2, <2>3, <2>4 DEF Copies, Here
    <2>6. Whole(e, g) /\ Cardinality(Copies(e, g)) = 1
      BY <2>4, <2>5, FS_Singleton DEF Whole
    <2>7. ASSUME NEW s \in SlotSet, s[2] = "roms", d[g][s] = "whole", Keepers(k, g) # {}
          PROVE  \E t \in SlotSet : t[2] = "roms" /\ e[g][t] = "whole"
      BY <2>2, <2>3, <2>4, <2>7
    <2> QED
      BY <2>3, <2>6, <2>7 DEF e
  <1>3. Cardinality(Copies(d, g)) <= 1 \/ Cardinality(Copies(d, g)) > 1
    BY <1>0, FS_CardinalityType
  <1> QED
    BY <1>1, <1>2, <1>3

-----------------------------------------------------------------------------
(* The inductive invariant. *)

\* A job that is at work is somebody's.
JobIsSomebodys == job.stage # "idle" => job.who \in People

\* The sweep is at a game that RomM was found not to have.
SweepsGone == sweep # None => sweep \in gone

IInv == TypeOK /\ JobIsSomebodys /\ SweepsGone /\ FailedIsNoPromise

JobSet == [stage : Stages, game : Games \cup {None}, keep : BOOLEAN, play : BOOLEAN,
           at : SlotSet, who : People \cup {None}, cancel : BOOLEAN]

\* What a launch or a download does to the disk when it begins: of the copies
\* there were it leaves one whole one, a kept game's in roms, and that is the
\* one the job is about.
LEMMA BeginIs ==
    ASSUME TypeOK, NEW g \in Games, NEW play \in BOOLEAN, NEW keep \in BOOLEAN,
           Begin(g, play, keep)
    PROVE  /\ disk' \in Disks /\ \A h \in Games \ {g} : disk'[h] = disk[h]
           /\ \A s \in SlotSet :
                 s[2] = "roms" /\ disk[g][s] = "whole" /\ Keepers(kept', g) # {}
                     => \E t \in SlotSet : t[2] = "roms" /\ disk'[g][t] = "whole"
           /\ Whole(disk, g) => /\ Cardinality(Copies(disk', g)) = 1
                                /\ disk'[g][job'.at] = "whole"
           /\ job' \in JobSet /\ job'.stage = "asking" /\ job'.game = g /\ job'.who = user
  <1>1. disk \in Disks /\ user \in People
    BY DEF TypeOK, Disks
  <1>0. PICK d1 \in IF keep THEN MayMove(disk, g, "roms") ELSE {disk} :
            disk' = Deduped(d1, kept', g)
    BY DEF Begin
  <1>2. /\ d1 \in Disks /\ \A h \in Games \ {g} : d1[h] = disk[h]
        /\ \A s \in SlotSet : s[2] = "roms" /\ disk[g][s] = "whole" => d1[g][s] = "whole"
        /\ Whole(disk, g) => Whole(d1, g)
    <2>1. CASE keep
      <3>1. CASE d1 = disk
        BY <1>1, <3>1
      <3>2. CASE d1 = Relocated(disk, g, "roms")
        BY <1>1, <3>2, RelocatedIs
      <3> QED
        BY <1>0, <2>1, <3>1, <3>2 DEF MayMove
    <2>2. CASE ~keep
      BY <1>0, <1>1, <2>2
    <2> QED
      BY <2>1, <2>2
  <1>3. disk' = Deduped(d1, kept', g)
    BY <1>0
  <1>4. PICK s \in IF Copies(disk', g) # {}
                   THEN IF Whole(disk', g) THEN {Winner(disk', kept', g)} ELSE {Find(disk', g)}
                   ELSE IF keep THEN {t \in Here : t[2] = "roms"}
                   ELSE {<<"main", "cache">>} :
               job' = [stage |-> "asking", game |-> g, keep |-> keep, play |-> play,
                       at |-> s, who |-> user, cancel |-> FALSE]
    BY DEF Begin
  <1>5. /\ disk' \in Disks /\ \A h \in Games \ {g} : disk'[h] = d1[h]
        /\ \A t \in SlotSet :
              t[2] = "roms" /\ d1[g][t] = "whole" /\ Keepers(kept', g) # {}
                  => \E u \in SlotSet : u[2] = "roms" /\ disk'[g][u] = "whole"
        /\ Whole(d1, g) => Whole(disk', g) /\ Cardinality(Copies(disk', g)) = 1
    BY <1>2, <1>3, DedupedIs
  <1>6. s \in SlotSet /\ (Whole(disk', g) => disk'[g][s] = "whole")
    <2>1. CASE Whole(disk', g)
      <3>1. Copies(disk', g) # {}
        BY <2>1 DEF Whole
      <3>2. /\ Winner(disk', kept', g) \in Copies(disk', g)
            /\ disk'[g][Winner(disk', kept', g)] = "whole"
        BY <1>5, <2>1, WinnerIs
      <3> QED
        BY <1>4, <2>1, <3>1, <3>2 DEF Copies, Here
    <2>2. CASE ~Whole(disk', g) /\ Copies(disk', g) # {}
      BY <1>4, <1>5, <2>2, FindIs
    <2>3. CASE ~Whole(disk', g) /\ Copies(disk', g) = {}
      BY <1>4, <2>3, SlotsAre DEF Here
    <2> QED
      BY <2>1, <2>2, <2>3
  <1>7. job' \in JobSet /\ job'.stage = "asking" /\ job'.game = g /\ job'.who = user /\ job'.at = s
    BY <1>1, <1>4, <1>6 DEF JobSet, Stages
  <1> QED
    BY <1>2, <1>5, <1>6, <1>7

\* A release touches the copies of its game alone, and none while somebody
\* keeps the game.
LEMMA ReleasedIs ==
    ASSUME NEW d \in Disks, NEW g \in Games, NEW k, NEW keepTheBytes \in BOOLEAN
    PROVE  /\ Released(d, k, g, keepTheBytes) \in Disks
           /\ \A h \in Games \ {g} : Released(d, k, g, keepTheBytes)[h] = d[h]
           /\ Keepers(k, g) # {} => Released(d, k, g, keepTheBytes) = d
  <1>1. CASE Keepers(k, g) # {} \/ Copies(d, g) = {}
    BY <1>1 DEF Released
  <1>2. CASE ~(Keepers(k, g) # {} \/ Copies(d, g) = {}) /\ keepTheBytes
    BY <1>2, RelocatedIs DEF Released
  <1>3. CASE ~(Keepers(k, g) # {} \/ Copies(d, g) = {}) /\ ~keepTheBytes
    BY <1>3, WithoutIs DEF Released
  <1> QED
    BY <1>1, <1>2, <1>3

\* So does a release for everybody.
LEMMA ReleasedByAllIs ==
    ASSUME disk \in Disks, NEW g \in Games, NEW keepTheBytes \in BOOLEAN
    PROVE  /\ ReleasedByAll(disk, g, keepTheBytes) \in Disks
           /\ \A h \in Games \ {g} : ReleasedByAll(disk, g, keepTheBytes)[h] = disk[h]
  <1>1. CASE Keepers(kept, g) # {}
    BY <1>1, ReleasedIs DEF ReleasedByAll
  <1>2. CASE Keepers(kept, g) = {}
    BY <1>2, WithoutIs DEF ReleasedByAll
  <1> QED
    BY <1>1, <1>2

\* Keep records are a person's of a game, and copies are what a copy can be.
LEMMA DiskTypes ==
    ASSUME TypeOK, JobIsSomebodys, Next
    PROVE  kept' \subseteq People \X Games /\ disk' \in Disks
  <1> USE DEF drives, bounds, history
  <1>1. CASE UNCHANGED <<kept, disk>>
    BY <1>1 DEF TypeOK, Disks
  <1>2. CASE \E g \in Games : Play(g)
    <2>1. PICK g \in Games : Play(g)
      BY <1>2
    <2>2. Begin(g, TRUE, FALSE)
      BY <2>1 DEF Play
    <2>3. kept' \subseteq People \X Games
      <3>1. kept' \subseteq kept \cup {<<user, g>>}
        BY <2>2 DEF Begin
      <3> QED
        BY <3>1 DEF TypeOK
    <2>4. disk' \in Disks
      BY <2>2, BeginIs
    <2> QED
      BY <2>3, <2>4
  <1>3. CASE \E g \in Games : Download(g)
    <2>1. PICK g \in Games : Download(g)
      BY <1>3
    <2>2. Begin(g, FALSE, TRUE)
      BY <2>1 DEF Download
    <2>3. kept' \subseteq People \X Games
      <3>1. kept' \subseteq kept \cup {<<user, g>>}
        BY <2>2 DEF Begin
      <3> QED
        BY <3>1 DEF TypeOK
    <2>4. disk' \in Disks
      BY <2>2, BeginIs
    <2> QED
      BY <2>3, <2>4
  <1>4. CASE \E g \in Games : RemoveDownload(g)
    <2>1. PICK g \in Games : RemoveDownload(g)
      BY <1>4
    <2> QED
      <3>1. disk \in Disks /\ kept' = kept \ {<<user, g>>}
            /\ disk' = Released(disk, kept', g, FALSE)
        BY <2>1 DEF RemoveDownload, TypeOK, Disks
      <3>2. disk' \in Disks
        BY <3>1, ReleasedIs
      <3> QED
        BY <3>1, <3>2 DEF TypeOK
  <1>5. CASE \E g \in Games : RemoveDownloads(g)
    <2>1. PICK g \in Games : RemoveDownloads(g)
      BY <1>5
    <2> QED
      BY <2>1, ReleasedByAllIs DEF RemoveDownloads, KeptByNobody, TypeOK, Disks
  <1>6. CASE TakeFailed
    <2>1. job.game \in Games
      BY <1>6 DEF TakeFailed, TypeOK
    <2> QED
      <3>1. CASE job.keep
        <4>1. disk \in Disks /\ kept' = kept \ {<<user, job.game>>}
              /\ disk' \in {disk, Released(disk, kept', job.game, TRUE)}
          BY <1>6, <3>1 DEF TakeFailed, Undone, TypeOK, Disks
        <4>2. disk' \in Disks
          BY <2>1, <4>1, ReleasedIs
        <4> QED
          BY <4>1, <4>2 DEF TypeOK
      <3>2. CASE ~job.keep
        BY <1>6, <3>2 DEF TakeFailed, TypeOK, Disks
      <3> QED
        BY <3>1, <3>2
  <1>7. CASE MakeRoom
    BY <1>7, WithoutIs DEF MakeRoom, Candidates, Copies, TypeOK, Disks
  <1>8. CASE Fetched
    BY <1>8 DEF Fetched, Become, TypeOK, Disks
  <1>9. CASE Fail
    BY <1>9 DEF Fail, Become, TypeOK, Disks
  <1>10. CASE \E g \in Games : GameChanges(g)
    BY <1>10 DEF GameChanges, Event, TypeOK, Disks
  <1>11. CASE SweepRemoves
    <2>1. sweep \in Games
      BY <1>11 DEF SweepRemoves, TypeOK
    <2> QED
      BY <1>11, <2>1, WithoutIs DEF SweepRemoves, KeptByNobody, TypeOK, Disks
  <1> QED
    BY <1>1, <1>2, <1>3, <1>4, <1>5, <1>6, <1>7, <1>8, <1>9, <1>10, <1>11
       DEF Next, Frame, Worker, Outside, Switch, Join, Stop, TakeReady, Exit,
           Look, Finish, GameGoes, Unplug, Replug, Crash, SweepAsks

\* A job at work has a game and a person.
LEMMA JobTypes ==
    ASSUME TypeOK, JobIsSomebodys, Next
    PROVE  /\ job' \in JobSet
           /\ job'.stage # "idle" => job'.game \in Games /\ job'.who \in People
  <1> USE DEF drives, bounds, history
  <1>1. NoJob \in JobSet
    BY SlotsAre DEF NoJob, JobSet, Stages
  <1>2. CASE UNCHANGED <<job, user>>
    BY <1>2 DEF TypeOK, JobIsSomebodys, JobSet, Stages, Busy, NoJob
  <1>3. CASE \E g \in Games : Play(g)
    <2>1. PICK g \in Games : Play(g)
      BY <1>3
    <2>2. Begin(g, TRUE, FALSE)
      BY <2>1 DEF Play
    <2>3. job' \in JobSet /\ job'.stage = "asking" /\ job'.game = g /\ job'.who = user
      BY <2>2, BeginIs
    <2> QED
      BY <2>3 DEF TypeOK
  <1>4. CASE \E g \in Games : Download(g)
    <2>1. PICK g \in Games : Download(g)
      BY <1>4
    <2>2. Begin(g, FALSE, TRUE)
      BY <2>1 DEF Download
    <2>3. job' \in JobSet /\ job'.stage = "asking" /\ job'.game = g /\ job'.who = user
      BY <2>2, BeginIs
    <2> QED
      BY <2>3 DEF TypeOK
  <1>5. CASE \E p \in People : Switch(p)
    BY <1>1, <1>5 DEF Switch, Event, TypeOK, JobIsSomebodys, JobSet, Stages,
        Busy, NoJob
  <1>6. CASE Join
    BY <1>1, <1>6 DEF Join, TypeOK, JobIsSomebodys, JobSet, Stages, Busy,
        NoJob
  <1>7. CASE Stop
    BY <1>1, <1>7 DEF Stop, TypeOK, JobIsSomebodys, JobSet, Stages, Busy,
        NoJob
  <1>8. CASE TakeFailed
    BY <1>1, <1>8 DEF TakeFailed, NoJob
  <1>9. CASE TakeReady
    BY <1>1, <1>9 DEF TakeReady, NoJob
  <1>10. CASE Look
    BY <1>1, <1>10 DEF Look, Become, TypeOK, JobIsSomebodys, JobSet, Stages,
        Busy, NoJob
  <1>11. CASE Fetched
    BY <1>1, <1>11 DEF Fetched, Become, TypeOK, JobIsSomebodys, JobSet,
        Stages, Busy, NoJob
  <1>12. CASE Finish
    BY <1>1, <1>12 DEF Finish, Become, TypeOK, JobIsSomebodys, JobSet, Stages,
        Busy, NoJob
  <1>13. CASE Fail
    BY <1>1, <1>13 DEF Fail, Become, TypeOK, JobIsSomebodys, JobSet, Stages,
        Busy, NoJob
  <1>14. CASE Crash
    BY <1>1, <1>14 DEF Crash, NoJob
  <1> QED
    BY <1>2, <1>3, <1>4, <1>5, <1>6, <1>7, <1>8, <1>9, <1>10, <1>11, <1>12,
       <1>13, <1>14
       DEF Next, Frame, Worker, Outside, RemoveDownload, RemoveDownloads,
           Exit, MakeRoom, GameChanges, GameGoes, Unplug, Replug, SweepAsks,
           SweepRemoves

\* Promises that failed are a person's of a game.
LEMMA HistoryTypes ==
    ASSUME TypeOK, JobIsSomebodys, Next
    PROVE  undelivered' \subseteq People \X Games /\ crossed' \subseteq undelivered'
  <1> USE DEF drives, bounds, history
  <1>1. CASE UNCHANGED <<undelivered, crossed>>
    BY <1>1 DEF TypeOK, JobIsSomebodys
  <1>2. CASE \E g \in Games : Play(g)
    <2>1. PICK g \in Games : Play(g)
      BY <1>2
    <2>2. Begin(g, TRUE, FALSE)
      BY <2>1 DEF Play
    <2> QED
      BY <2>2, BeginIs DEF Begin, TypeOK
  <1>3. CASE \E g \in Games : Download(g)
    <2>1. PICK g \in Games : Download(g)
      BY <1>3
    <2>2. Begin(g, FALSE, TRUE)
      BY <2>1 DEF Download
    <2> QED
      BY <2>2, BeginIs DEF Begin, TypeOK
  <1>4. CASE TakeFailed
    <2>1. <<job.who, job.game>> \in People \X Games
      BY <1>4 DEF TakeFailed, TypeOK, JobIsSomebodys
    <2>2. CASE job.keep
      BY <1>4, <2>1, <2>2 DEF TakeFailed, TypeOK
    <2>3. CASE ~job.keep
      BY <1>4, <2>3 DEF TakeFailed, TypeOK
    <2> QED
      BY <2>2, <2>3
  <1> QED
    BY <1>1, <1>2, <1>3, <1>4
       DEF Next, Frame, Worker, Outside, RemoveDownload, RemoveDownloads,
           Switch, Join, Stop, TakeReady, Exit, Look, MakeRoom, Fetched,
           Finish, Fail, GameChanges, GameGoes, Unplug, Replug, Crash,
           SweepAsks, SweepRemoves

\* What is on the screen, what RomM was found not to have, and the counters.
LEMMA FrameTypes ==
    ASSUME TypeOK, JobIsSomebodys, Next
    PROVE  /\ user' \in People /\ away' \in BOOLEAN /\ gone' \subseteq Games
           /\ playing' \in Games \cup {None} /\ sweep' \in Games \cup {None}
           /\ jobs' \in Nat /\ events' \in Nat
  <1> USE DEF drives, bounds, history
  <1>1. CASE UNCHANGED <<user, away, gone, playing, sweep, jobs, events>>
    BY <1>1 DEF TypeOK
  <1>2. CASE \E g \in Games : Play(g)
    <2>1. PICK g \in Games : Play(g)
      BY <1>2
    <2>2. Begin(g, TRUE, FALSE)
      BY <2>1 DEF Play
    <2> QED
      BY <2>2, BeginIs DEF Begin, TypeOK
  <1>3. CASE \E g \in Games : Download(g)
    <2>1. PICK g \in Games : Download(g)
      BY <1>3
    <2>2. Begin(g, FALSE, TRUE)
      BY <2>1 DEF Download
    <2> QED
      BY <2>2, BeginIs DEF Begin, TypeOK
  <1>4. CASE \E g \in Games : RemoveDownload(g)
    BY <1>4 DEF RemoveDownload, Event, TypeOK
  <1>5. CASE \E g \in Games : RemoveDownloads(g)
    BY <1>5 DEF RemoveDownloads, Event, TypeOK
  <1>6. CASE \E p \in People : Switch(p)
    BY <1>6 DEF Switch, Event, TypeOK
  <1>7. CASE TakeReady
    BY <1>7 DEF TakeReady, TypeOK
  <1>8. CASE Exit
    BY <1>8 DEF Exit, TypeOK
  <1>9. CASE \E g \in Games : GameChanges(g)
    BY <1>9 DEF GameChanges, Event, TypeOK
  <1>10. CASE \E g \in Games : GameGoes(g)
    BY <1>10 DEF GameGoes, Event, TypeOK
  <1>11. CASE Unplug
    BY <1>11 DEF Unplug, Event, TypeOK
  <1>12. CASE Replug
    BY <1>12 DEF Replug, TypeOK
  <1>13. CASE Crash
    BY <1>13 DEF Crash, Event, TypeOK
  <1>14. CASE \E g \in Games : SweepAsks(g)
    BY <1>14 DEF SweepAsks, TypeOK
  <1>15. CASE SweepRemoves
    BY <1>15 DEF SweepRemoves, TypeOK
  <1> QED
    BY <1>1, <1>2, <1>3, <1>4, <1>5, <1>6, <1>7, <1>8, <1>9, <1>10, <1>11,
       <1>12, <1>13, <1>14, <1>15
       DEF Next, Frame, Worker, Outside, Join, Stop, TakeFailed, Look,
           MakeRoom, Fetched, Finish, Fail

LEMMA TypeStep == ASSUME TypeOK, JobIsSomebodys, Next PROVE TypeOK' /\ JobIsSomebodys'
  <1>1. kept' \subseteq People \X Games /\ disk' \in Disks
    BY DiskTypes
  <1>2. /\ job' \in JobSet
        /\ job'.stage # "idle" => job'.game \in Games /\ job'.who \in People
    BY JobTypes
  <1>3. undelivered' \subseteq People \X Games /\ crossed' \subseteq undelivered'
    BY HistoryTypes
  <1>4. /\ user' \in People /\ away' \in BOOLEAN /\ gone' \subseteq Games
        /\ playing' \in Games \cup {None} /\ sweep' \in Games \cup {None}
        /\ jobs' \in Nat /\ events' \in Nat
    BY FrameTypes
  <1> QED
    BY <1>1, <1>2, <1>3, <1>4 DEF TypeOK, JobIsSomebodys, Disks, JobSet

\* The sweep asks about a game that is gone, and a game that is gone stays so.
LEMMA SweepsGoneStep ==
    ASSUME TypeOK, SweepsGone, Next
    PROVE  SweepsGone'
  <1> USE DEF drives, bounds, history
  <1>1. CASE UNCHANGED <<gone, sweep>>
    BY <1>1 DEF TypeOK, SweepsGone
  <1>2. CASE \E g \in Games : GameGoes(g)
    BY <1>2 DEF GameGoes, Event, TypeOK, SweepsGone
  <1>3. CASE Crash
    BY <1>3 DEF Crash, Event, TypeOK, SweepsGone
  <1>4. CASE \E g \in Games : SweepAsks(g)
    BY <1>4 DEF SweepAsks, TypeOK, SweepsGone
  <1>5. CASE SweepRemoves
    BY <1>5 DEF SweepRemoves, TypeOK, SweepsGone
  <1> QED
    BY <1>1, <1>2, <1>3, <1>4, <1>5
       DEF Next, Frame, Worker, Outside, Play, Download, RemoveDownload,
           RemoveDownloads, Switch, Join, Stop, TakeFailed, TakeReady, Exit,
           Look, MakeRoom, Fetched, Finish, Fail, GameChanges, Unplug, Replug,
           Begin

\* A new download takes its game out of the promises that failed; the failure of one
\* takes out its person's record, or it is another person's and counts as crossed.
LEMMA FailedStep ==
    ASSUME TypeOK, JobIsSomebodys, FailedIsNoPromise, Next
    PROVE  FailedIsNoPromise'
  <1> USE DEF drives, bounds, history
  <1>1. CASE UNCHANGED <<kept, undelivered, crossed>>
    BY <1>1 DEF FailedIsNoPromise
  <1>2. CASE \E g \in Games : Play(g)
    <2>1. PICK g \in Games : Play(g)
      BY <1>2
    <2>2. Begin(g, TRUE, FALSE)
      BY <2>1 DEF Play
    <2> QED
      BY <2>2 DEF Begin, FailedIsNoPromise
  <1>3. CASE \E g \in Games : Download(g)
    <2>1. PICK g \in Games : Download(g)
      BY <1>3
    <2>2. Begin(g, FALSE, TRUE)
      BY <2>1 DEF Download
    <2>3. /\ kept' = kept \cup {<<user, g>>}
          /\ undelivered' = undelivered \ {<<user, g>>}
          /\ crossed' = crossed \ {<<user, g>>}
      BY <2>2 DEF Begin
    <2> QED
      BY <2>3 DEF FailedIsNoPromise
  <1>4. CASE \E g \in Games : RemoveDownload(g)
    BY <1>4 DEF RemoveDownload, FailedIsNoPromise
  <1>5. CASE \E g \in Games : RemoveDownloads(g)
    BY <1>5 DEF RemoveDownloads, KeptByNobody, FailedIsNoPromise
  <1>6. CASE TakeFailed
    <2>1. CASE job.keep
      <3>1. /\ kept' = kept \ {<<user, job.game>>}
            /\ undelivered' = undelivered \cup {<<job.who, job.game>>}
            /\ crossed' = IF user # job.who THEN crossed \cup {<<job.who, job.game>>}
                                             ELSE crossed
        BY <1>6, <2>1 DEF TakeFailed, Undone
      <3> QED
        BY <3>1 DEF FailedIsNoPromise
    <2>2. CASE ~job.keep
      BY <1>6, <2>2 DEF TakeFailed, FailedIsNoPromise
    <2> QED
      BY <2>1, <2>2
  <1>7. CASE SweepRemoves
    BY <1>7 DEF SweepRemoves, KeptByNobody, FailedIsNoPromise
  <1> QED
    BY <1>1, <1>2, <1>3, <1>4, <1>5, <1>6, <1>7
       DEF Next, Frame, Worker, Outside, Switch, Join, Stop, TakeReady, Exit,
           Look, MakeRoom, Fetched, Finish, Fail, GameChanges, GameGoes,
           Unplug, Replug, Crash, SweepAsks

\* What KeptCopyStays says of one copy.
KeptStays(g, s) ==
    s[2] = "roms" /\ disk[g][s] = "whole" /\ disk'[g][s] = "none" /\ Keepers(kept', g) # {}
        => \E t \in SlotSet : t[2] = "roms" /\ disk'[g][t] = "whole"

\* A release by one person leaves the disk alone while another keeps the game, and
\* with none that does there is nothing to ask; eviction empties caches alone.
LEMMA KeptStaysStep ==
    ASSUME TypeOK, JobIsSomebodys, SweepsGone, Next
    PROVE  \A h \in Games \ gone : \A s \in SlotSet : KeptStays(h, s)
  <1> USE DEF drives, bounds, history
  <1>1. CASE UNCHANGED <<kept, disk>>
    BY <1>1 DEF KeptStays
  <1>2. CASE \E g \in Games : Play(g)
    <2>1. PICK g \in Games : Play(g)
      BY <1>2
    <2>2. Begin(g, TRUE, FALSE)
      BY <2>1 DEF Play
    <2>3. /\ \A h \in Games \ {g} : disk'[h] = disk[h]
          /\ \A s \in SlotSet :
                s[2] = "roms" /\ disk[g][s] = "whole" /\ Keepers(kept', g) # {}
                    => \E t \in SlotSet : t[2] = "roms" /\ disk'[g][t] = "whole"
      BY <2>2, BeginIs
    <2> QED
      BY <2>3 DEF KeptStays
  <1>3. CASE \E g \in Games : Download(g)
    <2>1. PICK g \in Games : Download(g)
      BY <1>3
    <2>2. Begin(g, FALSE, TRUE)
      BY <2>1 DEF Download
    <2>3. /\ \A h \in Games \ {g} : disk'[h] = disk[h]
          /\ \A s \in SlotSet :
                s[2] = "roms" /\ disk[g][s] = "whole" /\ Keepers(kept', g) # {}
                    => \E t \in SlotSet : t[2] = "roms" /\ disk'[g][t] = "whole"
      BY <2>2, BeginIs
    <2> QED
      BY <2>3 DEF KeptStays
  <1>4. CASE \E g \in Games : RemoveDownload(g)
    <2>1. PICK g \in Games : RemoveDownload(g)
      BY <1>4
    <2>2. disk \in Disks /\ disk' = Released(disk, kept', g, FALSE)
      BY <2>1 DEF RemoveDownload, TypeOK, Disks
    <2>3. /\ \A h \in Games \ {g} : disk'[h] = disk[h]
          /\ Keepers(kept', g) # {} => disk' = disk
      BY <2>2, ReleasedIs
    <2> QED
      BY <2>3 DEF KeptStays
  <1>5. CASE \E g \in Games : RemoveDownloads(g)
    <2>1. PICK g \in Games : RemoveDownloads(g)
      BY <1>5
    <2>2. disk \in Disks /\ disk' = ReleasedByAll(disk, g, FALSE)
      BY <2>1 DEF RemoveDownloads, TypeOK, Disks
    <2>3. \A h \in Games \ {g} : disk'[h] = disk[h]
      BY <2>2, ReleasedByAllIs
    <2>4. Keepers(kept', g) = {}
      BY <2>1 DEF RemoveDownloads, KeptByNobody, Keepers
    <2> QED
      BY <2>3, <2>4 DEF KeptStays
  <1>6. CASE TakeFailed
    <2>1. CASE job.keep
      <3>1. /\ disk \in Disks /\ job.game \in Games
            /\ disk' \in {disk, Released(disk, kept', job.game, TRUE)}
        BY <1>6, <2>1 DEF TakeFailed, Undone, TypeOK, Disks
      <3>2. /\ \A h \in Games \ {job.game} : disk'[h] = disk[h]
            /\ Keepers(kept', job.game) # {} => disk' = disk
        <4>1. CASE disk' = disk
          BY <4>1
        <4>2. CASE disk' = Released(disk, kept', job.game, TRUE)
          BY <3>1, <4>2, ReleasedIs
        <4> QED
          BY <3>1, <4>1, <4>2
      <3> QED
        BY <3>2 DEF KeptStays
    <2>2. CASE ~job.keep
      BY <1>6, <2>2 DEF TakeFailed, KeptStays
    <2> QED
      BY <2>1, <2>2
  <1>7. CASE MakeRoom
    <2>1. PICK g \in Games : \E s \in Candidates(job.at[1]) : disk' = Without(disk, g, {s})
      BY <1>7 DEF MakeRoom
    <2>2. disk' = Without(disk, g, {<<job.at[1], "cache">>}) /\ disk \in Disks
      BY <2>1 DEF Candidates, TypeOK, Disks
    <2>3. /\ \A h \in Games \ {g} : disk'[h] = disk[h]
          /\ \A s \in SlotSet : s[2] = "roms" => disk'[g][s] = disk[g][s]
      BY <2>2, WithoutIs
    <2> QED
      BY <2>3 DEF KeptStays
  <1>8. CASE Fetched
    BY <1>8 DEF Fetched, Become, KeptStays, TypeOK
  <1>9. CASE Fail
    BY <1>9 DEF Fail, Become, KeptStays, TypeOK
  <1>10. CASE \E g \in Games : GameChanges(g)
    BY <1>10 DEF GameChanges, Event, KeptStays, TypeOK
  <1>11. CASE SweepRemoves
    <2>1. /\ sweep \in gone /\ sweep \in Games /\ disk \in Disks
          /\ disk' = Without(disk, sweep, Swept(sweep) \cup {s \in Here : s[2] = "cache"})
      BY <1>11 DEF SweepRemoves, SweepsGone, TypeOK, Disks
    <2>2. \A h \in Games \ {sweep} : disk'[h] = disk[h]
      BY <2>1, WithoutIs
    <2> QED
      BY <2>1, <2>2 DEF KeptStays
  <1> QED
    BY <1>1, <1>2, <1>3, <1>4, <1>5, <1>6, <1>7, <1>8, <1>9, <1>10, <1>11
       DEF Next, Frame, Worker, Outside, Switch, Join, Stop, TakeReady, Exit,
           Look, Finish, GameGoes, Unplug, Replug, Crash, SweepAsks

\* What OneCopy says of a step.
OneWhole ==
    job.stage = "idle" /\ job'.stage = "asking" /\ Whole(disk, job'.game)
        => /\ Cardinality(Copies(disk', job'.game)) = 1
           /\ disk'[job'.game][job'.at] = "whole"

\* Only a launch and a download begin a job, and dedupe has been by then.
LEMMA OneCopyStep ==
    ASSUME TypeOK, JobIsSomebodys, Next
    PROVE  OneWhole
  <1> USE DEF drives, bounds, history
  <1>1. CASE UNCHANGED job
    BY <1>1 DEF OneWhole
  <1>2. CASE \E g \in Games : Play(g)
    <2>1. PICK g \in Games : Play(g)
      BY <1>2
    <2>2. Begin(g, TRUE, FALSE)
      BY <2>1 DEF Play
    <2> QED
      BY <2>2, BeginIs DEF OneWhole
  <1>3. CASE \E g \in Games : Download(g)
    <2>1. PICK g \in Games : Download(g)
      BY <1>3
    <2>2. Begin(g, FALSE, TRUE)
      BY <2>1 DEF Download
    <2> QED
      BY <2>2, BeginIs DEF OneWhole
  <1>4. CASE Join
    BY <1>4 DEF Join, OneWhole, Busy
  <1>5. CASE Stop
    BY <1>5 DEF Stop, OneWhole, Busy
  <1>6. CASE TakeFailed
    BY <1>6 DEF TakeFailed, NoJob, OneWhole
  <1>7. CASE TakeReady
    BY <1>7 DEF TakeReady, NoJob, OneWhole
  <1>8. CASE Look
    BY <1>8 DEF Look, Become, OneWhole, Busy
  <1>9. CASE Fetched
    BY <1>9 DEF Fetched, Become, OneWhole, Busy
  <1>10. CASE Finish
    BY <1>10 DEF Finish, Become, OneWhole, Busy
  <1>11. CASE Fail
    BY <1>11 DEF Fail, Become, OneWhole, Busy
  <1>12. CASE Crash
    BY <1>12 DEF Crash, NoJob, OneWhole
  <1> QED
    BY <1>1, <1>2, <1>3, <1>4, <1>5, <1>6, <1>7, <1>8, <1>9, <1>10, <1>11,
       <1>12
       DEF Next, Frame, Worker, Outside, RemoveDownload, RemoveDownloads,
           Switch, Exit, MakeRoom, GameChanges, GameGoes, Unplug, Replug,
           SweepAsks, SweepRemoves

\* The first states.
LEMMA First == ASSUME KeepsAssumption, Init PROVE IInv
  <1>1. disk \in Disks
    <2>1. PICK at \in [Games -> {{}} \cup {{t} : t \in SlotSet \ {<<"usb", "cache">>}}] :
             disk = [g \in Games |-> [s \in SlotSet |-> IF s \in at[g] THEN "whole" ELSE "none"]]
      BY DEF Init, Start
    <2> QED
      BY <2>1 DEF Disks
  <1>2. job \in JobSet /\ job.stage = "idle"
    BY SlotsAre DEF Init, Start, NoJob, JobSet, Stages
  <1>3. away \in BOOLEAN
    BY DEF Init, Start
  <1>4. TypeOK
    BY <1>1, <1>2, <1>3 DEF Init, Start, TypeOK, Disks, JobSet
  <1> QED
    BY <1>2, <1>4 DEF IInv, Init, Start, JobIsSomebodys, SweepsGone, FailedIsNoPromise

\* Every step, and a step of another part.
LEMMA Step == ASSUME IInv, [Next]_vars PROVE IInv'
  <1>1. CASE Next
    BY <1>1, TypeStep, SweepsGoneStep, FailedStep DEF IInv
  <1>2. CASE UNCHANGED vars
    BY <1>2 DEF vars, drives, bounds, history, IInv, TypeOK, JobIsSomebodys, SweepsGone,
       FailedIsNoPromise
  <1> QED
    BY <1>1, <1>2

-----------------------------------------------------------------------------
(* Theorems. *)

\* The inductive invariant holds of every state of the games on the drives.
THEOREM KeepsInvariant == ASSUME KeepsAssumption PROVE Spec => []IInv
  BY First, Step, PTL DEF Spec

\* Every variable holds what its declaration says; a job at work has a game.
THEOREM KeepsTypes == ASSUME KeepsAssumption PROVE Spec => []TypeOK
  <1>1. IInv => TypeOK
    BY DEF IInv
  <1> QED
    BY <1>1, KeepsInvariant, PTL

\* A promise the console could not deliver is not a promise: a download that
\* failed leaves no keep, if its person is still signed in (takeFinishedJob).
THEOREM FailedLeavesNoKeep == ASSUME KeepsAssumption PROVE Spec => []FailedIsNoPromise
  <1>1. IInv => FailedIsNoPromise
    BY DEF IInv
  <1> QED
    BY <1>1, KeepsInvariant, PTL

\* A whole kept copy of a game somebody still keeps goes only for another whole
\* kept one, whatever the steps of the people, the job, eviction and the sweep.
THEOREM KeptCopiesStay == ASSUME KeepsAssumption PROVE Spec => KeptCopyStays
  <1> DEFINE Stays == \A g \in Games \ gone : \A s \in SlotSet :
          s[2] = "roms" /\ disk[g][s] = "whole" /\ disk'[g][s] = "none"
                        /\ Keepers(kept', g) # {}
              => \E t \in SlotSet : t[2] = "roms" /\ disk'[g][t] = "whole"
  <1>1. IInv /\ [Next]_vars => [Stays]_<<kept, disk>>
    <2> SUFFICES ASSUME IInv, [Next]_vars, ~UNCHANGED <<kept, disk>> PROVE Stays
      OBVIOUS
    <2>1. Next
      BY DEF vars, drives
    <2> QED
      BY <2>1, KeptStaysStep DEF IInv, KeptStays
  <1> QED
    BY <1>1, KeepsInvariant, PTL DEF Spec, KeptCopyStays

\* A launch or a download that finds a whole copy of its game leaves that or
\* another whole one, and no second, on the drives that are here.
THEOREM OneCopyLeft == ASSUME KeepsAssumption PROVE Spec => OneCopy
  <1>1. IInv /\ [Next]_vars => [OneWhole]_<<job, disk, away>>
    <2> SUFFICES ASSUME IInv, [Next]_vars, ~UNCHANGED <<job, disk, away>> PROVE OneWhole
      OBVIOUS
    <2>1. Next
      BY DEF vars, drives
    <2> QED
      BY <2>1, OneCopyStep DEF IInv
  <1> QED
    BY <1>1, KeepsInvariant, PTL DEF Spec, OneCopy, OneWhole
-----------------------------------------------------------------------------
(* A game RomM no longer has (GoneSaves, as MCGames has it: Gone).         *)

FillSet == [at : {"off", "list", "entry", "copy", "wait", "saves"},
            who : People \cup {Nobody}, person : People \cup {Nobody}]

\* Whom the backfill has still to see to is on this console.
GoneTypes ==
    /\ Gone!TypeOK
    /\ goneFill \in FillSet
    /\ goneLeft \subseteq gonePeople /\ goneFill.person \in gonePeople \cup {Nobody}
    /\ goneFill.at = "entry" => goneFill.person # Nobody
    /\ goneFill.at \notin {"entry", "saves"} => goneFill.person = Nobody

\* While it asks, who is not to be asked any more was answered 404, or came after;
Asking ==
    goneFill.at \in {"list", "entry"} =>
        gonePeople \subseteq goneAnswered \cup goneSince \cup goneLeft

\* so everybody was where the answer is that the game is gone,
AllAnswered == goneGone => gonePeople \subseteq goneAnswered \cup goneSince

\* and only then does anything wait to be removed.
Removing == goneFill.at \in {"wait", "saves"} => goneGone

\* Nobody plays it under the removal, unless it was begun since inUse was asked;
NotInUse == goneFill.at = "saves" /\ ~goneBegun => ~gonePlaying

\* then what the queue sends for is still refused when it is deleted.
TriedOwn ==
    goneFill.at = "saves" /\ ~goneBegun /\ goneFill.person # Nobody
    /\ goneFill.person = goneFill.who /\ goneOwed[goneFill.person]
        => goneFill.person \in goneRefused

GoneInv == GoneTypes /\ Asking /\ AllAnswered /\ Removing /\ NotInUse /\ TriedOwn

LEMMA GoneFirst == ASSUME Gone!GoneAssumption, Gone!Init PROVE GoneInv
  <1> USE DEF Gone!Init, Gone!Start
  <1>1. GoneTypes
    <2>1. PICK had \in SUBSET gonePeople, owe \in SUBSET gonePeople :
            goneSave = [p \in People |-> p \in had] /\ goneOwed = [p \in People |-> p \in owe]
      OBVIOUS
    <2>2. goneSave \in [People -> BOOLEAN] /\ goneOwed \in [People -> BOOLEAN]
      BY <2>1
    <2>3. goneFill \in FillSet /\ goneFill.person = Nobody
      BY DEF FillSet, Gone!Off
    <2>4. goneFill.at = "off" /\ goneFill.who = Nobody
      BY DEF Gone!Off
    <2>5. {goneCopy, gonePlaying, goneAsked, goneGone} \subseteq BOOLEAN
      OBVIOUS
    <2> QED
      BY <2>2, <2>3, <2>4, <2>5 DEF GoneTypes, Gone!TypeOK
  <1>2. Asking /\ AllAnswered /\ Removing /\ NotInUse /\ TriedOwn
    BY DEF Asking, AllAnswered, Removing, NotInUse, TriedOwn, Gone!Off
  <1> QED
    BY <1>1, <1>2 DEF GoneInv

\* Every step of the backfill, the uploader and the frame thread keeps it.
LEMMA GoneStep ==
    ASSUME Gone!GoneAssumption, GoneInv, [Gone!Next]_(Gone!vars)
    PROVE  GoneInv'
  <1> USE DEF Gone!GoneAssumption, GoneInv, GoneTypes, Gone!TypeOK, FillSet, Asking, AllAnswered, Removing,
          NotInUse, TriedOwn, Gone!home, Gone!files, Gone!queue, Gone!answer, Gone!bounds
  <1>1. CASE Gone!Backfill
    BY <1>1 DEF Gone!Backfill, Gone!Off
  <1>2. CASE Gone!AskEntry
    <2>1. PICK reply \in {"other", "here", "404"} :
            /\ goneAnswered' = goneAnswered \cup IF reply = "404" THEN {goneFill.person} ELSE {}
            /\ IF ~Gone!NotFound(reply) THEN Gone!Decided(FALSE)
               ELSE IF goneLeft = {goneFill.person} THEN Gone!Decided(TRUE)
               ELSE /\ goneFill' = [goneFill EXCEPT !.at = "list", !.person = Nobody]
                    /\ goneLeft' = goneLeft \ {goneFill.person}
                    /\ UNCHANGED <<goneAsked, goneGone>>
      BY <1>2 DEF Gone!AskEntry
    <2>2. /\ goneFill.at = "entry"
          /\ UNCHANGED <<gonePeople, goneMe, goneCopy, gonePlaying, goneNoted, goneSees, goneSave,
                         goneOwed, goneJobs, goneRefused, goneSince, goneBegun>>
      BY <1>2 DEF Gone!AskEntry
    <2>3. CASE reply # "404"
      <3>1. Gone!Decided(FALSE) /\ goneAnswered' = goneAnswered
        BY <2>1, <2>3 DEF Gone!NotFound
      <3>2. goneFill' \in FillSet /\ goneFill'.at = "copy" /\ goneFill'.person = Nobody
        BY <3>1 DEF Gone!Decided
      <3> QED
        BY <2>2, <3>1, <3>2 DEF Gone!Decided
    <2>4. CASE reply = "404"
      <3>1. goneAnswered' = goneAnswered \cup {goneFill.person}
        BY <2>1, <2>4
      <3>2. CASE goneLeft = {goneFill.person}
        <4>1. Gone!Decided(TRUE)
          BY <2>1, <2>4, <3>2 DEF Gone!NotFound
        <4>2. goneFill' \in FillSet /\ goneFill'.at = "copy" /\ goneFill'.person = Nobody
          BY <4>1 DEF Gone!Decided
        <4> QED
          BY <2>2, <3>1, <3>2, <4>1, <4>2 DEF Gone!Decided
      <3>3. CASE goneLeft # {goneFill.person}
        <4>1. /\ goneFill' = [goneFill EXCEPT !.at = "list", !.person = Nobody]
              /\ goneLeft' = goneLeft \ {goneFill.person}
              /\ UNCHANGED <<goneAsked, goneGone>>
          BY <2>1, <2>4, <3>3 DEF Gone!NotFound
        <4>2. goneFill' \in FillSet /\ goneFill'.at = "list" /\ goneFill'.person = Nobody
          BY <4>1
        <4> QED
          BY <2>2, <3>1, <4>1, <4>2
      <3> QED
        BY <3>2, <3>3
    <2> QED
      BY <2>3, <2>4
  <1>3. CASE Gone!RemoveCopy
    BY <1>3 DEF Gone!RemoveCopy, Gone!Off
  <1>4. CASE Gone!Waited
    <2>1. CASE gonePlaying
      BY <1>4, <2>1 DEF Gone!Waited, Gone!Off
    <2>2. CASE ~gonePlaying
      BY <1>4, <2>2 DEF Gone!Waited
    <2> QED
      BY <2>1, <2>2
  <1>5. CASE Gone!GivesUp
    BY <1>5 DEF Gone!GivesUp, Gone!Off
  <1>6. CASE Gone!Deletes
    BY <1>6 DEF Gone!Deletes
  <1>7. CASE Gone!FillEnds
    BY <1>7 DEF Gone!FillEnds, Gone!Off
  <1>8. ASSUME NEW p \in People, Gone!AskList(p) PROVE GoneInv'
    <2>1. UNCHANGED <<gonePeople, goneMe, goneCopy, gonePlaying, goneNoted, goneSees, goneSave,
                      goneOwed, goneJobs, goneRefused, goneSince, goneBegun, goneAnswered>>
          /\ goneFill.at = "list" /\ p \in goneLeft
      BY <1>8 DEF Gone!AskList
    <2>2. CASE goneFill' = Gone!Off /\ goneLeft' = {} /\ UNCHANGED <<goneAsked, goneGone>>
      <3>1. goneFill' \in FillSet /\ goneFill'.at = "off" /\ goneFill'.person = Nobody
        BY <2>2 DEF Gone!Off
      <3> QED
        BY <2>1, <2>2, <3>1
    <2>3. CASE Gone!Decided(FALSE)
      <3>1. goneFill' \in FillSet /\ goneFill'.at = "copy" /\ goneFill'.person = Nobody
        BY <2>3 DEF Gone!Decided
      <3> QED
        BY <2>1, <2>3, <3>1 DEF Gone!Decided
    <2>4. CASE /\ goneFill' = [goneFill EXCEPT !.at = "entry", !.person = p]
               /\ UNCHANGED <<goneLeft, goneAsked, goneGone>>
      <3>1. goneFill' \in FillSet /\ goneFill'.at = "entry" /\ goneFill'.person = p
        BY <2>4
      <3> QED
        BY <2>1, <2>4, <3>1
    <2> QED
      BY <1>8, <2>2, <2>3, <2>4 DEF Gone!AskList
  <1>9. ASSUME NEW p \in People, Gone!LooksAt(p) PROVE GoneInv'
    BY <1>9 DEF Gone!LooksAt, Gone!NotYetTried
  <1>10. CASE Gone!Resend
    BY <1>10 DEF Gone!Resend
  <1>11. CASE Gone!Play
    BY <1>11 DEF Gone!Play
  <1>12. CASE Gone!SaveInGame
    BY <1>12 DEF Gone!SaveInGame
  <1>13. CASE Gone!Exit
    BY <1>13 DEF Gone!Exit
  <1>14. CASE Gone!RommChanges
    BY <1>14 DEF Gone!RommChanges, Gone!Change
  <1>15. CASE Gone!Restart
    BY <1>15 DEF Gone!Restart, Gone!Off
  <1>16. ASSUME NEW p \in People, Gone!Send(p) PROVE GoneInv'
    BY <1>16 DEF Gone!Send
  <1>17. ASSUME NEW p \in People, Gone!Switch(p) PROVE GoneInv'
    BY <1>17 DEF Gone!Switch
  <1>18. ASSUME NEW p \in People, Gone!Pair(p) PROVE GoneInv'
    BY <1>18 DEF Gone!Pair, Gone!Change
  <1>19. CASE UNCHANGED Gone!vars
    BY <1>19 DEF Gone!vars
  <1> QED
    BY <1>1, <1>2, <1>3, <1>4, <1>5, <1>6, <1>7, <1>8, <1>9, <1>10, <1>11, <1>12, <1>13, <1>14, <1>15, <1>16, <1>17, <1>18, <1>19 DEF Gone!Next, Gone!Fill
\* Only the backfill removes the copy, and a save.
LEMMA OnlyTheFill ==
    ASSUME GoneTypes, Gone!Next
    PROVE  /\ goneCopy' = goneCopy \/ Gone!RemoveCopy
           /\ \A p \in People : goneSave[p] /\ ~goneSave'[p] =>
                 Gone!Deletes /\ p = goneFill.person
  <1> USE DEF Gone!home, Gone!files, GoneTypes, Gone!TypeOK
  <1>1. CASE Gone!Deletes
    BY <1>1 DEF Gone!Deletes
  <1>2. CASE Gone!SaveInGame
    BY <1>2 DEF Gone!SaveInGame
  <1>3. CASE Gone!RemoveCopy
    <2>1. UNCHANGED goneSave
      BY <1>3 DEF Gone!RemoveCopy
    <2> QED
      BY <1>3, <2>1
  <1>4. CASE UNCHANGED <<goneCopy, goneSave>>
    BY <1>4
  <1> QED
    BY <1>1, <1>2, <1>3, <1>4
       DEF Gone!Next, Gone!Fill, Gone!Backfill, Gone!AskEntry, Gone!Waited,
           Gone!GivesUp, Gone!FillEnds, Gone!AskList, Gone!LooksAt, Gone!Resend, Gone!Play,
           Gone!Exit, Gone!RommChanges, Gone!Restart, Gone!Send, Gone!Switch, Gone!Pair

\* The invariant of the backfill's answer and of what it removes.
THEOREM GoneInvariant == ASSUME Gone!GoneAssumption PROVE Gone!Spec => []GoneInv
  BY GoneFirst, GoneStep, PTL DEF Gone!Spec

\* A game's copy, and anybody's save of it, goes only when RomM answered 404 to
\* everybody on this console, but to who was paired, or was shown it, since.
THEOREM GoneOnlyToEveryone == ASSUME Gone!GoneAssumption PROVE Gone!Spec => GoneToEveryone
  <1>1. ASSUME GoneInv, [Gone!Next]_(Gone!vars),
               (goneCopy /\ ~goneCopy') \/ (\E p \in People : goneSave[p] /\ ~goneSave'[p])
        PROVE  gonePeople \subseteq goneAnswered \cup goneSince
    <2>1. GoneTypes /\ AllAnswered /\ Removing
      BY <1>1 DEF GoneInv
    <2>2. CASE UNCHANGED Gone!vars
      BY <1>1, <2>2 DEF Gone!vars, Gone!home, Gone!files
    <2>3. CASE Gone!Next
      <3>1. Gone!RemoveCopy \/ Gone!Deletes
        BY <1>1, <2>1, <2>3, OnlyTheFill
      <3>2. goneGone
        BY <1>1, <2>1, <2>3, <3>1, OnlyTheFill DEF Gone!RemoveCopy, Gone!Deletes, Removing
      <3> QED
        BY <2>1, <3>2 DEF AllAnswered
    <2> QED
      BY <1>1, <2>2, <2>3
  <1>2. GoneInv /\ [Gone!Next]_(Gone!vars)
          => [(goneCopy /\ ~goneCopy') \/ (\E p \in People : goneSave[p] /\ ~goneSave'[p])
                => gonePeople \subseteq goneAnswered \cup goneSince]_(Gone!vars)
    BY <1>1
  <1> QED
    BY <1>2, GoneInvariant, PTL DEF Gone!Spec, GoneToEveryone, Gone!GoneToEveryone

\* A save marked as owed is not deleted untried: the signed-in person's goes
\* once RomM has refused it, another's once they were answered 404, but for a
\* game begun under the removal.
THEOREM OnlyWhatWasTried == ASSUME Gone!GoneAssumption PROVE Gone!Spec => TriedFirst
  <1>1. ASSUME GoneInv, [Gone!Next]_(Gone!vars), NEW p \in People \ goneSince,
               goneOwed[p], goneSave[p], ~goneSave'[p], ~goneBegun
        PROVE  p \in goneRefused \/ (p # goneFill.who /\ p \in goneAnswered)
    <2>1. GoneTypes /\ AllAnswered /\ Removing /\ TriedOwn
      BY <1>1 DEF GoneInv
    <2>2. CASE UNCHANGED Gone!vars
      BY <1>1, <2>2 DEF Gone!vars, Gone!files
    <2>3. CASE Gone!Next
      <3>1. Gone!Deletes /\ p = goneFill.person
        BY <1>1, <2>1, <2>3, OnlyTheFill
      <3>2. goneFill.at = "saves" /\ p # Nobody
        BY <3>1 DEF Gone!Deletes
      <3>3. p \in goneAnswered
        BY <2>1, <3>1, <3>2 DEF GoneTypes, AllAnswered, Removing
      <3>4. p = goneFill.who => p \in goneRefused
        BY <1>1, <2>1, <3>1, <3>2 DEF TriedOwn
      <3> QED
        BY <3>3, <3>4
    <2> QED
      BY <1>1, <2>2, <2>3
  <1>2. GoneInv /\ [Gone!Next]_(Gone!vars)
          => [\A p \in People \ goneSince :
                goneOwed[p] /\ goneSave[p] /\ ~goneSave'[p] /\ ~goneBegun
                    => p \in goneRefused
                       \/ (p # goneFill.who /\ p \in goneAnswered)]_(Gone!vars)
    BY <1>1
  <1> QED
    BY <1>2, GoneInvariant, PTL DEF Gone!Spec, TriedFirst, Gone!TriedFirst

-----------------------------------------------------------------------------
(* The specification that Games_all checks.                                *)

\* A behaviour of MCGames is one of the part at work, and the other stands still.
LEMMA PartsAre ==
    GamesSpec =>
        \/ [](part = "keeps") /\ Spec /\ Gone!Start /\ [][FALSE]_goneVars
        \/ [](part = "gone") /\ Gone!Spec /\ Start /\ [][FALSE]_vars
  <1>1. GamesInit => \/ part = "keeps" /\ Init /\ Gone!Start
                     \/ part = "gone" /\ Gone!Init /\ Start
    BY DEF GamesInit, Init, Gone!Init
  <1>2. part = "keeps" /\ [GamesNext]_<<part, vars, goneVars>>
          => (part = "keeps")' /\ [Next]_vars /\ [FALSE]_goneVars
    BY DEF GamesNext
  <1>3. UNCHANGED goneVars => UNCHANGED Gone!vars
    BY DEF goneVars, Gone!vars, Gone!home, Gone!files, Gone!queue, Gone!answer, Gone!bounds
  <1>4. part = "gone" /\ [GamesNext]_<<part, vars, goneVars>>
          => (part = "gone")' /\ [Gone!Next]_(Gone!vars) /\ [FALSE]_vars
    BY <1>3 DEF GamesNext
  <1> QED
    BY <1>1, <1>2, <1>4, PTL DEF GamesSpec, Spec, Gone!Spec

\* Every variable of the part at work holds what its declaration says.
THEOREM GamesTypes ==
    ASSUME KeepsAssumption, Gone!GoneAssumption PROVE GamesSpec => []Types
  <1>1. GoneInv => Gone!TypeOK
    BY DEF GoneInv, GoneTypes
  <1>2. (part = "keeps") => (TypeOK => Types)
    BY DEF Types
  <1>3. (part = "gone") => (Gone!TypeOK => Types)
    BY DEF Types
  <1> QED
    BY <1>1, <1>2, <1>3, PartsAre, KeepsTypes, GoneInvariant, PTL

\* What Keeps promises of the copies and of a failed download, where either part is
\* at work.
THEOREM GamesKeep ==
    ASSUME KeepsAssumption
    PROVE  GamesSpec => []FailedIsNoPromise /\ KeptCopyStays /\ OneCopy
  <1>1. Start => FailedIsNoPromise
    BY DEF Start, FailedIsNoPromise
  <1>2. FailedIsNoPromise /\ [FALSE]_vars => FailedIsNoPromise'
    <2> SUFFICES ASSUME FailedIsNoPromise, UNCHANGED vars PROVE FailedIsNoPromise'
      OBVIOUS
    <2>1. UNCHANGED <<kept, undelivered, crossed>>
      BY DEF vars, history
    <2> QED
      BY <2>1 DEF FailedIsNoPromise
  <1>3. [FALSE]_vars => UNCHANGED <<kept, disk>> /\ UNCHANGED <<job, disk, away>>
    BY DEF vars, drives
  <1>4. Start /\ [][FALSE]_vars => []FailedIsNoPromise
    BY <1>1, <1>2, PTL
  <1>5. [][FALSE]_vars => KeptCopyStays
    BY <1>3, PTL DEF KeptCopyStays
  <1>6. [][FALSE]_vars => OneCopy
    BY <1>3, PTL DEF OneCopy
  <1> QED
    BY <1>4, <1>5, <1>6, PartsAre, FailedLeavesNoKeep, KeptCopiesStay, OneCopyLeft, PTL

\* What GoneSaves promises of a game that is gone, where either part is at work.
THEOREM GamesGo ==
    ASSUME Gone!GoneAssumption PROVE GamesSpec => GoneToEveryone /\ TriedFirst
  <1>1. [FALSE]_goneVars => UNCHANGED Gone!vars
    BY DEF goneVars, Gone!vars, Gone!home, Gone!files, Gone!queue, Gone!answer, Gone!bounds
  <1>2. [][FALSE]_goneVars => GoneToEveryone
    BY <1>1, PTL DEF GoneToEveryone, Gone!GoneToEveryone
  <1>3. [][FALSE]_goneVars => TriedFirst
    BY <1>1, PTL DEF TriedFirst, Gone!TriedFirst
  <1> QED
    BY <1>2, <1>3, PartsAre, GoneOnlyToEveryone, OnlyWhatWasTried, PTL
=============================================================================
