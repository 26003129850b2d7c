------------------------- MODULE GameAdaptersProofs -------------------------
(***************************************************************************)
(* The games of GameAdapters, proved for any number of players and any     *)
(* rules their assumptions allow.  Each game has an invariant of its own   *)
(* (KazhuthaSound, BluffSound, LudoSound, ShipSound), kept by each of its  *)
(* steps; GamesInv puts them together, and the theorems at the end follow. *)
(* An instance's operators are symbols of their own to the prover, so each *)
(* game begins with a lemma that they are those of the modules above.      *)
(***************************************************************************)
EXTENDS GameAdapters, FilterProofs, FiniteSetTheorems, TLAPS

-----------------------------------------------------------------------------
(* Ludo's names *)

\* What Ludo takes from the modules above is what the registry takes.
LEMMA SameLudo ==
    /\ \A s : LudoGame!ToSet(s) = ToSet(s)
    /\ \A s, e : LudoGame!Contains(s, e) <=> Contains(s, e)
    /\ \A s, e : LudoGame!IndexOf(s, e) = IndexOf(s, e)
    /\ \A m : LudoGame!Turn(m) = Turn(m)
    /\ \A m : LudoGame!NextTurn(m) = NextTurn(m)
    /\ \A m, p : LudoGame!RequireTurn(m, p) <=> RequireTurn(m, p)
    /\ \A m : LudoGame!StartMatch(m) = StartMatch(m)
    /\ \A S : LudoGame!SetToSeqs(S) = SetToSeqs(S)
    /\ \A S : LudoGame!CreateMatch(S) = CreateMatch(S)
    /\ \A S : LudoGame!Cardinality(S) = Cardinality(S)
<1>1. \A s : LudoGame!ToSet(s) = ToSet(s)
  BY DEF LudoGame!ToSet, ToSet
<1>2. \A s, e : LudoGame!Contains(s, e) <=> Contains(s, e)
  BY DEF LudoGame!Contains, Contains
<1>3. \A s, e : LudoGame!IndexOf(s, e) = IndexOf(s, e)
  BY DEF LudoGame!IndexOf, IndexOf, LudoGame!Contains, Contains
<1>4. \A m : LudoGame!Turn(m) = Turn(m)
  BY DEF LudoGame!Turn, Turn
<1>5. \A m : LudoGame!NextTurn(m) = NextTurn(m)
  BY DEF LudoGame!NextTurn, NextTurn
<1>6. \A m, p : LudoGame!RequireTurn(m, p) <=> RequireTurn(m, p)
  BY <1>4 DEF LudoGame!RequireTurn, RequireTurn
<1>7. \A m : LudoGame!StartMatch(m) = StartMatch(m)
  BY DEF LudoGame!StartMatch, StartMatch
<1>8. \A S : LudoGame!SetToSeqs(S) = SetToSeqs(S)
  BY DEF LudoGame!SetToSeqs, SetToSeqs, LudoGame!Cardinality, Cardinality
<1>9. \A S : LudoGame!CreateMatch(S) = CreateMatch(S)
  BY <1>1, <1>8 DEF LudoGame!CreateMatch, CreateMatch
<1>10. \A S : LudoGame!Cardinality(S) = Cardinality(S)
  BY DEF LudoGame!Cardinality, Cardinality
<1> QED BY <1>1, <1>2, <1>3, <1>4, <1>5, <1>6, <1>7, <1>8, <1>9, <1>10

-----------------------------------------------------------------------------
(* Numbers round a ring *)

\* Division with remainder, in one formula.
LEMMA DivMod ==
  ASSUME NEW x \in Nat, NEW n \in Nat \ {0}
  PROVE  /\ x = n * (x \div n) + (x % n)
         /\ x % n \in 0 .. n - 1 /\ x \div n \in Nat
OBVIOUS

\* There is one quotient and one remainder.
LEMMA ModUnique ==
  ASSUME NEW n \in Nat \ {0}, NEW a \in Nat, NEW c \in Nat,
         NEW b \in 0 .. n - 1, NEW d \in 0 .. n - 1, n * a + b = n * c + d
  PROVE  b = d
<1>1. CASE a = c
  BY <1>1
<1>2. CASE a < c
  <2>1. n * c >= n * (a + 1) /\ n * (a + 1) = n * a + n
    BY <1>2
  <2> QED BY <2>1
<1>3. CASE a > c
  <2>1. n * a >= n * (c + 1) /\ n * (c + 1) = n * c + n
    BY <1>3
  <2> QED BY <2>1
<1> QED BY <1>1, <1>2, <1>3

\* So the remainder is known from any way to write the number.
LEMMA ModIs ==
  ASSUME NEW n \in Nat \ {0}, NEW q \in Nat, NEW r \in 0 .. n - 1
  PROVE  (n * q + r) % n = r
<1> DEFINE x == n * q + r
<1>1. x \in Nat
  OBVIOUS
<1>2. /\ x = n * (x \div n) + (x % n)
      /\ x % n \in 0 .. n - 1 /\ x \div n \in Nat
  BY <1>1, DivMod
<1>3. n * (x \div n) + (x % n) = n * q + r
  BY <1>2
<1> HIDE DEF x
<1>4. x % n = r
  BY <1>2, <1>3, ModUnique
<1> QED BY <1>4 DEF x

\* A number on the ring is its own remainder.
LEMMA ModSmall ==
  ASSUME NEW n \in Nat \ {0}, NEW r \in 0 .. n - 1
  PROVE  r % n = r
<1>1. n * 0 + r = r
  OBVIOUS
<1> QED BY <1>1, ModIs

\* To go on from a cell of the ring is to go on from the squares it counts.
LEMMA ModShift ==
  ASSUME NEW n \in Nat \ {0}, NEW x \in Nat, NEW s \in Nat
  PROVE  ((x % n) + s) % n = (x + s) % n
<1> DEFINE q == x \div n
           r == x % n
           p == (r + s) \div n
           t == (r + s) % n
<1>1. x = n * q + r /\ r \in 0 .. n - 1 /\ q \in Nat
  BY DivMod
<1>2. r + s \in Nat
  BY <1>1
<1>3. r + s = n * p + t /\ t \in 0 .. n - 1 /\ p \in Nat
  BY <1>2, DivMod
<1> HIDE DEF q, r, p, t
<1>4. x + s = n * (q + p) + t
  <2>1. n * (q + p) = n * q + n * p
    BY <1>1, <1>3
  <2>2. n * q \in Nat /\ n * p \in Nat
    BY <1>1, <1>3
  <2> QED BY <1>1, <1>3, <2>1, <2>2
<1>5. (n * (q + p) + t) % n = t
  <2>1. q + p \in Nat /\ t \in 0 .. n - 1
    BY <1>1, <1>3
  <2> QED BY <2>1, ModIs
<1> QED BY <1>4, <1>5 DEF r, t

-----------------------------------------------------------------------------
(* Rotations *)

\* A sequence of players none of whom is there twice.
Rotation(o, S) ==
    o \in Seq(S) /\ \A i, j \in 1 .. Len(o) : o[i] = o[j] => i = j

\* Who is in a rotation, by place.
LEMMA ToSetIs == ASSUME NEW S, NEW o \in Seq(S) PROVE ToSet(o) = {o[i] : i \in 1 .. Len(o)}
BY DEF ToSet

\* Any shuffle createMatch leaves is a rotation of everybody.
LEMMA SeqsAreRotations ==
  ASSUME NEW S, IsFiniteSet(S), NEW o \in SetToSeqs(S)
  PROVE  Rotation(o, S) /\ ToSet(o) = S /\ Len(o) = Cardinality(S)
<1> DEFINE n == Cardinality(S)
<1>1. n \in Nat
  BY FS_CardinalityType
<1>2. o \in [1 .. n -> S] /\ \A i, j \in 1 .. n : i # j => o[i] # o[j]
  BY DEF SetToSeqs
<1>3. o \in Seq(S) /\ Len(o) = n
  BY <1>1, <1>2
<1>4. o \in Injection(1 .. n, S)
  BY <1>2 DEF Injection, IsInjective
<1>5. Cardinality(1 .. n) = n
  <2>1. 1 \in Int /\ n \in Int
    BY <1>1
  <2>2. Cardinality(1 .. n) = IF 1 > n THEN 0 ELSE n - 1 + 1
    BY <2>1, FS_Interval
  <2> QED BY <1>1, <2>2
<1>6. o \in Surjection(1 .. n, S)
  BY <1>4, <1>5, FS_Injection
<1>7. ToSet(o) = S
  <2>1. ToSet(o) = {o[i] : i \in 1 .. n}
    BY <1>3, ToSetIs
  <2>2. \A e \in S : \E i \in 1 .. n : o[i] = e
    BY <1>6 DEF Surjection
  <2> QED BY <1>2, <2>1, <2>2
<1> QED BY <1>2, <1>3, <1>7 DEF Rotation

\* A rotation is as long as the players in it are many.
LEMMA RotationCounts ==
  ASSUME NEW S, NEW o, Rotation(o, S)
  PROVE  /\ IsFiniteSet(ToSet(o)) /\ Cardinality(ToSet(o)) = Len(o) /\ Len(o) \in Nat
         /\ ToSet(o) \in SUBSET S
<1>1. o \in Seq(S) /\ Len(o) \in Nat /\ ToSet(o) = {o[i] : i \in 1 .. Len(o)}
  BY ToSetIs DEF Rotation
<1>2. o \in [1 .. Len(o) -> ToSet(o)]
  BY <1>1
<1>3. o \in Bijection(1 .. Len(o), ToSet(o))
  <2>1. o \in Injection(1 .. Len(o), ToSet(o))
    BY <1>2 DEF Rotation, Injection, IsInjective
  <2>2. \A e \in ToSet(o) : \E i \in 1 .. Len(o) : o[i] = e
    BY <1>1
  <2>3. o \in Surjection(1 .. Len(o), ToSet(o))
    BY <1>2, <2>2 DEF Surjection
  <2> QED BY <2>1, <2>3 DEF Bijection
<1>4. IsFiniteSet(1 .. Len(o)) /\ Cardinality(1 .. Len(o)) = Len(o)
  <2>1. 1 \in Int /\ Len(o) \in Int
    BY <1>1
  <2>2. /\ IsFiniteSet(1 .. Len(o))
        /\ Cardinality(1 .. Len(o)) = IF 1 > Len(o) THEN 0 ELSE Len(o) - 1 + 1
    BY <2>1, FS_Interval
  <2> QED BY <1>1, <2>2
<1> QED BY <1>1, <1>3, <1>4, FS_Bijection DEF ExistsBijection

\* A player's place in a rotation, counted from 0.
LEMMA IndexFound ==
  ASSUME NEW S, NEW o, Rotation(o, S), NEW i \in 1 .. Len(o)
  PROVE  IndexOf(o, o[i]) = i - 1 /\ Contains(o, o[i])
<1>1. Contains(o, o[i])
  BY DEF Contains
<1>2. DOMAIN o = 1 .. Len(o)
  BY DEF Rotation
<1>3. (CHOOSE j \in DOMAIN o : o[j] = o[i]) = i
  BY <1>2 DEF Rotation
<1> QED BY <1>1, <1>3 DEF IndexOf

\* indexOf is -1 for whoever is not in the rotation.
LEMMA IndexMissing ==
  ASSUME NEW S, NEW o \in Seq(S), NEW p, p \notin ToSet(o)
  PROVE  IndexOf(o, p) = -1 /\ ~Contains(o, p)
BY ToSetIs DEF IndexOf, Contains

\* An index inside the rotation is somebody's turn.
LEMMA TurnIs ==
  ASSUME NEW S, NEW m, Rotation(m.order, S), m.turnIndex \in 0 .. Len(m.order) - 1
  PROVE  Turn(m) = m.order[m.turnIndex + 1] /\ Turn(m) \in ToSet(m.order)
<1>1. m.turnIndex + 1 \in 1 .. Len(m.order) /\ m.order \in Seq(S)
  BY DEF Rotation
<1> QED BY <1>1, ToSetIs DEF Turn

-----------------------------------------------------------------------------
(* Ludo *)

LudoPlayers == ToSet(LudoSeats)

Square == -1 .. Home

LudoMatch ==
  [status : {"waiting", "playing", "completed"}, order : SetToSeqs(LudoPlayers),
   turnIndex : 0 .. Cardinality(LudoPlayers) - 1,
   positions : [LudoPlayers -> [1 .. Tokens -> Square]],
   dice : 0 .. Six, winner : LudoPlayers \cup {NoOne}]

Movable(m, p, dice) == \E t \in 1 .. Tokens : LudoGame!CanMove(m.positions[p][t], dice)

AllHome(m) == {p \in LudoPlayers : \A t \in 1 .. Tokens : m.positions[p][t] = Home}

\* Off the safe cells no cell of the ring holds tokens of two players.
Apart(m) ==
    \A p, q \in LudoPlayers : \A t, u \in 1 .. Tokens :
        LET a == m.positions[p][t]
            b == m.positions[q][u]
        IN  (/\ p # q
             /\ LudoGame!OnRing(a) /\ LudoGame!OnRing(b)
             /\ LudoGame!Cell(m, p, a) = LudoGame!Cell(m, q, b)) => a \in Safe

\* A roll on the table can be answered by whoever is on turn.
LudoSound(m) ==
    /\ m \in LudoMatch
    /\ m.status = "waiting" => m.dice = 0
    /\ m.status = "playing" /\ m.dice # 0 => Movable(m, Turn(m), m.dice)
    /\ Apart(m)
    /\ AllHome(m) = IF m.status = "completed" THEN {m.winner} ELSE {}

\* The rules of the board, as assumed.
LEMMA LudoFacts ==
    /\ LudoSeats \in Seq(LudoPlayers) /\ IsFiniteSet(LudoPlayers)
    /\ Cardinality(LudoPlayers) \in Nat /\ Cardinality(LudoPlayers) >= 2
    /\ Tokens \in Nat \ {0} /\ Lap \in Nat \ {0} /\ Spread \in Nat \ {0}
    /\ Home \in Nat \ {0} /\ Six \in Nat \ {0}
    /\ Lap < Home /\ Cardinality(LudoPlayers) <= Len(LudoSeats)
    /\ Len(LudoSeats) \in Nat /\ Len(LudoSeats) * Spread <= Lap
    /\ \A c \in 0 .. Lap - 1 : c \in Safe <=> (c + Spread) % Lap \in Safe
    /\ 0 \in Safe /\ Safe \subseteq 0 .. Lap - 1
    /\ NoOne \notin LudoPlayers
<1>1. LudoGame!BoardAssumption
  BY GamesAssumption DEF GamesAssumption
<1>2. /\ LudoSeats \in Seq(LudoPlayers) /\ Cardinality(LudoPlayers) >= 2
      /\ Tokens \in Nat \ {0} /\ Lap \in Nat \ {0} /\ Spread \in Nat \ {0}
      /\ Home \in Nat \ {0} /\ Six \in Nat \ {0}
      /\ Lap < Home /\ Len(LudoSeats) * Spread <= Lap
      /\ \A c \in 0 .. Lap - 1 : c \in Safe <=> (c + Spread) % Lap \in Safe
      /\ 0 \in Safe /\ Safe \subseteq 0 .. Lap - 1
      /\ NoOne \notin LudoPlayers
  BY <1>1, SameLudo DEF LudoGame!BoardAssumption, LudoGame!Players, LudoPlayers
<1>3. Len(LudoSeats) \in Nat
  BY <1>2
<1>4. LudoSeats \in Surjection(1 .. Len(LudoSeats), LudoPlayers)
  <2>1. LudoPlayers = {LudoSeats[i] : i \in 1 .. Len(LudoSeats)}
    BY <1>2, ToSetIs DEF LudoPlayers
  <2>2. \A e \in LudoPlayers : \E i \in 1 .. Len(LudoSeats) : LudoSeats[i] = e
    BY <2>1
  <2>3. LudoSeats \in [1 .. Len(LudoSeats) -> LudoPlayers]
    BY <1>2
  <2> QED BY <2>2, <2>3 DEF Surjection
<1>5. /\ IsFiniteSet(1 .. Len(LudoSeats))
      /\ Cardinality(1 .. Len(LudoSeats)) = Len(LudoSeats)
  <2>1. 1 \in Int /\ Len(LudoSeats) \in Int
    BY <1>3
  <2>2. /\ IsFiniteSet(1 .. Len(LudoSeats))
        /\ Cardinality(1 .. Len(LudoSeats)) =
             IF 1 > Len(LudoSeats) THEN 0 ELSE Len(LudoSeats) - 1 + 1
    BY <2>1, FS_Interval
  <2> QED BY <1>3, <2>2
<1>6. IsFiniteSet(LudoPlayers) /\ Cardinality(LudoPlayers) <= Len(LudoSeats)
  BY <1>4, <1>5, FS_Surjection
<1>7. Cardinality(LudoPlayers) \in Nat
  BY <1>6, FS_CardinalityType
<1> QED BY <1>2, <1>3, <1>6, <1>7

\* What the type of a match says of each field.
LEMMA LudoFields ==
  ASSUME NEW m \in LudoMatch
  PROVE  /\ m.status \in {"waiting", "playing", "completed"}
         /\ m.order \in SetToSeqs(LudoPlayers)
         /\ Rotation(m.order, LudoPlayers) /\ ToSet(m.order) = LudoPlayers
         /\ Len(m.order) = Cardinality(LudoPlayers)
         /\ m.turnIndex \in 0 .. Len(m.order) - 1
         /\ m.positions \in [LudoPlayers -> [1 .. Tokens -> Square]]
         /\ m.dice \in 0 .. Six
         /\ Turn(m) \in LudoPlayers
<1>1. /\ m.status \in {"waiting", "playing", "completed"}
      /\ m.order \in SetToSeqs(LudoPlayers)
      /\ m.turnIndex \in 0 .. Cardinality(LudoPlayers) - 1
      /\ m.positions \in [LudoPlayers -> [1 .. Tokens -> Square]]
      /\ m.dice \in 0 .. Six
  BY DEF LudoMatch
<1>2. /\ Rotation(m.order, LudoPlayers) /\ ToSet(m.order) = LudoPlayers
      /\ Len(m.order) = Cardinality(LudoPlayers)
  BY <1>1, LudoFacts, SeqsAreRotations
<1>3. Turn(m) \in LudoPlayers
  BY <1>1, <1>2, TurnIs
<1> QED BY <1>1, <1>2, <1>3

\* One start further on, any number of times, a cell is still safe or still not.
LEMMA SafeAllRound ==
  ASSUME NEW k \in Nat, NEW c \in 0 .. Lap - 1
  PROVE  c \in Safe <=> (c + k * Spread) % Lap \in Safe
<1> DEFINE Same(j) == \A d \in 0 .. Lap - 1 : d \in Safe <=> (d + j * Spread) % Lap \in Safe
           T == {j \in Nat : ~Same(j)}
<1>a. Spread \in Nat /\ Lap \in Nat \ {0}
  BY LudoFacts
<1>1. T \in SUBSET Nat
  OBVIOUS
<1> SUFFICES ASSUME T # {} PROVE FALSE
  OBVIOUS
<1>2. PICK j \in T : \A i \in T : ~(i < j)
  <2> HIDE DEF T
  <2> QED BY <1>1, LeastNumber
<1>3. CASE j = 0
  <2>1. ASSUME NEW d \in 0 .. Lap - 1 PROVE (d + 0 * Spread) % Lap = d
    <3>1. d + 0 * Spread = d
      BY <1>a
    <3> QED BY <1>a, <3>1, ModSmall
  <2> QED BY <1>2, <1>3, <2>1
<1>4. CASE j # 0
  <2>1. j - 1 \in Nat /\ j - 1 < j
    BY <1>4
  <2>2. Same(j - 1)
    BY <1>2, <2>1
  <2>3. ASSUME NEW d \in 0 .. Lap - 1
        PROVE  d \in Safe <=> (d + j * Spread) % Lap \in Safe
    <3> DEFINE x == d + (j - 1) * Spread
               e == x % Lap
    <3>1. j * Spread = (j - 1) * Spread + Spread /\ (j - 1) * Spread \in Nat
      BY <1>a, <2>1
    <3>2. x \in Nat /\ x + Spread = d + j * Spread
      BY <1>a, <3>1
    <3>3. e \in 0 .. Lap - 1
      BY <1>a, <3>2, DivMod
    <3>4. d \in Safe <=> e \in Safe
      BY <2>2
    <3>5. e \in Safe <=> (e + Spread) % Lap \in Safe
      BY <3>3, LudoFacts
    <3>6. (e + Spread) % Lap = (x + Spread) % Lap
      <4> HIDE DEF x
      <4> QED BY <1>a, <3>2, ModShift
    <3> QED BY <3>2, <3>4, <3>5, <3>6
  <2> QED BY <1>2, <2>3
<1> QED BY <1>3, <1>4

\* Of two tokens on one cell of the ring, both are safe there or neither is.
LEMMA SafeTogether ==
  ASSUME NEW m \in LudoMatch, NEW p \in LudoPlayers, NEW q \in LudoPlayers,
         NEW a \in 0 .. Lap - 1, NEW b \in 0 .. Lap - 1,
         LudoGame!Cell(m, p, a) = LudoGame!Cell(m, q, b)
  PROVE  a \in Safe <=> b \in Safe
<1>1. ASSUME NEW r \in LudoPlayers, NEW c \in 0 .. Lap - 1
      PROVE  c \in Safe <=> LudoGame!Cell(m, r, c) \in Safe
  <2>0. m.order \in Seq(LudoPlayers) /\ ToSet(m.order) = LudoPlayers
    BY LudoFields DEF Rotation
  <2>1. PICK i \in 1 .. Len(m.order) : m.order[i] = r
    BY <2>0, ToSetIs
  <2>2. IndexOf(m.order, r) = i - 1 /\ i - 1 \in Nat
    BY <2>1, LudoFields, IndexFound
  <2> DEFINE k == i - 1
  <2>3. LudoGame!Cell(m, r, c) = (((k * Spread) % Lap) + c) % Lap
    BY <2>2, SameLudo DEF LudoGame!Cell
  <2>4. k \in Nat
    BY <2>2
  <2> HIDE DEF k
  <2>5. Spread \in Nat /\ Lap \in Nat \ {0} /\ c \in Nat
    BY LudoFacts
  <2>6. k * Spread \in Nat
    BY <2>4, <2>5
  <2>7. (((k * Spread) % Lap) + c) % Lap = (k * Spread + c) % Lap
    BY <2>5, <2>6, ModShift
  <2>8. k * Spread + c = c + k * Spread
    BY <2>5, <2>6
  <2> QED BY <2>3, <2>4, <2>7, <2>8, SafeAllRound
<1> QED BY <1>1

\* A match of Ludo is created sound, and waits.
LEMMA LudoBegins == ASSUME LudoGame!Init PROVE LudoSound(state) /\ state.status = "waiting"
<1> DEFINE yards == [p \in LudoPlayers |-> [t \in 1 .. Tokens |-> -1]]
<1>1. PICK order \in SetToSeqs(LudoPlayers) :
        state = [status |-> "waiting", order |-> order, turnIndex |-> 0,
                 positions |-> yards, dice |-> 0, winner |-> NoOne]
  <2>1. LudoGame!Players = LudoPlayers
    BY SameLudo DEF LudoGame!Players, LudoPlayers
  <2> QED BY <2>1, SameLudo
          DEF LudoGame!Init, LudoGame!Create, LudoGame!Yard, LudoGame!NoDice, CreateMatch,
              LudoPlayers
<1>2. yards \in [LudoPlayers -> [1 .. Tokens -> Square]] /\ 0 \in 0 .. Six
      /\ 0 \in 0 .. Cardinality(LudoPlayers) - 1
  BY LudoFacts DEF Square
<1>3. state \in LudoMatch
  <2> HIDE DEF yards
  <2> QED BY <1>1, <1>2 DEF LudoMatch
<1>4. \A p \in LudoPlayers : \A t \in 1 .. Tokens : state.positions[p][t] = -1
  BY <1>1
<1>5. Apart(state)
  <2>1. ~LudoGame!OnRing(-1)
    BY DEF LudoGame!OnRing
  <2> QED BY <1>4, <2>1 DEF Apart
<1>6. AllHome(state) = {}
  <2>1. 1 \in 1 .. Tokens /\ Home # -1
    BY LudoFacts
  <2> QED BY <1>4, <2>1 DEF AllHome
<1> QED BY <1>1, <1>3, <1>5, <1>6 DEF LudoSound

\* A turn that passes puts no token anywhere.
LEMMA TurnPassed ==
  ASSUME NEW m \in LudoMatch
  PROVE  /\ NextTurn(m) \in LudoMatch
         /\ NextTurn(m).status = m.status /\ NextTurn(m).order = m.order
         /\ NextTurn(m).positions = m.positions /\ NextTurn(m).dice = m.dice
         /\ NextTurn(m).winner = m.winner
<1>1. Len(m.order) \in Nat \ {0} /\ m.turnIndex + 1 \in Nat
      /\ Len(m.order) = Cardinality(LudoPlayers)
  BY LudoFields, LudoFacts
<1>2. m.order # << >>
  BY <1>1
<1>3. (m.turnIndex + 1) % Len(m.order) \in 0 .. Cardinality(LudoPlayers) - 1
  BY <1>1, DivMod
<1>4. NextTurn(m) = [m EXCEPT !.turnIndex = (m.turnIndex + 1) % Len(m.order)]
  BY <1>2 DEF NextTurn
<1> QED BY <1>3, <1>4 DEF LudoMatch

\* The board says what it says wherever the turn and the dice are.
LEMMA SamePlaces ==
  ASSUME NEW m, NEW n, n.positions = m.positions, n.order = m.order
  PROVE  (Apart(m) => Apart(n)) /\ AllHome(n) = AllHome(m)
BY DEF Apart, AllHome, LudoGame!Cell

\* A throw keeps the match sound: it stays to be used only if it can be.
LEMMA RollKeeps ==
  ASSUME LudoSound(state), NEW p \in LudoPlayers, LudoGame!Roll(p)
  PROVE  LudoSound(state') /\ state'.status = "playing"
<1>1. /\ state \in LudoMatch /\ state.status = "playing" /\ Turn(state) = p
      /\ state.dice = 0
  BY SameLudo DEF LudoSound, LudoGame!Roll, RequireTurn, LudoGame!NoDice
<1>2. PICK dice \in 1 .. Six :
        state' = IF Movable(state, p, dice) THEN [state EXCEPT !.dice = dice]
                 ELSE NextTurn(state)
  BY SameLudo DEF LudoGame!Roll, Movable
<1>3. CASE Movable(state, p, dice)
  <2>1. state' = [state EXCEPT !.dice = dice] /\ dice \in 0 .. Six
    BY <1>2, <1>3, LudoFacts
  <2>2. /\ state' \in LudoMatch /\ state'.status = "playing" /\ state'.order = state.order
        /\ state'.positions = state.positions /\ state'.dice = dice
        /\ state'.turnIndex = state.turnIndex
    BY <1>1, <2>1 DEF LudoMatch
  <2>3. Turn(state') = p
    BY <1>1, <2>2 DEF Turn
  <2>4. Movable(state', p, dice)
    BY <1>3, <2>2 DEF Movable
  <2> QED BY <1>1, <2>2, <2>3, <2>4, SamePlaces DEF LudoSound
<1>4. CASE ~Movable(state, p, dice)
  <2>1. state' = NextTurn(state)
    BY <1>2, <1>4
  <2>2. /\ state' \in LudoMatch /\ state'.status = "playing" /\ state'.order = state.order
        /\ state'.positions = state.positions /\ state'.dice = 0
    BY <1>1, <2>1, TurnPassed
  <2> QED BY <1>1, <2>2, SamePlaces DEF LudoSound
<1> QED BY <1>3, <1>4

\* A token moved and what stood on its cell sent home to the yard.
Landed(m, p, t, after) ==
    LudoGame!CaptureTokens([m EXCEPT !.positions[p][t] = after], p, after)

\* A token that lands, with whatever it captures, leaves no cell to two.
LEMMA LandingKeeps ==
  ASSUME NEW m \in LudoMatch, NEW p \in LudoPlayers, NEW t \in 1 .. Tokens,
         NEW after \in Square, Apart(m)
  PROVE  LET n == Landed(m, p, t, after)
         IN  /\ n \in LudoMatch /\ Apart(n)
             /\ n.status = m.status /\ n.order = m.order /\ n.turnIndex = m.turnIndex
             /\ n.dice = m.dice /\ n.winner = m.winner
             /\ AllHome(n) \ {p} = AllHome(m) \ {p}
<1> DEFINE k == [m EXCEPT !.positions[p][t] = after]
           n == Landed(m, p, t, after)
           Hit(q, u) == /\ q # p
                        /\ LudoGame!OnRing(k.positions[q][u])
                        /\ LudoGame!Cell(k, q, k.positions[q][u]) = LudoGame!Cell(k, p, after)
           swept == [q \in LudoPlayers |-> [u \in 1 .. Tokens |->
                        IF Hit(q, u) THEN -1 ELSE k.positions[q][u]]]
           idle == ~LudoGame!OnRing(after) \/ after \in Safe
<1>1. k \in LudoMatch /\ k.order = m.order
  BY DEF LudoMatch
<1>2. m.positions \in [LudoPlayers -> [1 .. Tokens -> Square]]
  BY LudoFields
<1>3. \A q \in LudoPlayers : \A u \in 1 .. Tokens :
        k.positions[q][u] = IF q = p /\ u = t THEN after ELSE m.positions[q][u]
  BY <1>2 DEF LudoMatch
<1>4. n = IF idle THEN k ELSE [k EXCEPT !.positions = swept]
  <2>1. LudoGame!Players = LudoPlayers
    BY SameLudo DEF LudoGame!Players, LudoPlayers
  <2> QED BY <2>1 DEF Landed, LudoGame!CaptureTokens, LudoGame!Yard
<1>5. k.positions \in [LudoPlayers -> [1 .. Tokens -> Square]]
  BY <1>1, LudoFields
<1>6. /\ k.status = m.status /\ k.turnIndex = m.turnIndex /\ k.dice = m.dice
      /\ k.winner = m.winner
  BY DEF LudoMatch
<1>7. swept \in [LudoPlayers -> [1 .. Tokens -> Square]]
  <2>1. -1 \in Square
    BY LudoFacts DEF Square
  <2>2. \A q \in LudoPlayers : [u \in 1 .. Tokens |->
                        IF Hit(q, u) THEN -1 ELSE k.positions[q][u]] \in [1 .. Tokens -> Square]
    <3> HIDE DEF Hit, k
    <3> QED BY <2>1, <1>5
  <2> QED BY <2>2
<1>8. \A q \in LudoPlayers : \A u \in 1 .. Tokens :
        swept[q][u] = IF Hit(q, u) THEN -1 ELSE k.positions[q][u]
  OBVIOUS
<1> HIDE DEF swept, k, n
<1>9. /\ n \in LudoMatch /\ n.status = m.status /\ n.order = m.order
      /\ n.turnIndex = m.turnIndex /\ n.dice = m.dice /\ n.winner = m.winner
      /\ n.positions = IF idle THEN k.positions ELSE swept
  <2> HIDE DEF idle
  <2> QED BY <1>1, <1>4, <1>6, <1>7 DEF LudoMatch
<1>10. \A q \in LudoPlayers : \A u \in 1 .. Tokens :
         n.positions[q][u] \in {k.positions[q][u], -1}
  BY <1>8, <1>9
<1>11. \A q, c : LudoGame!Cell(k, q, c) = LudoGame!Cell(n, q, c)
                /\ LudoGame!Cell(n, q, c) = LudoGame!Cell(m, q, c)
  BY <1>1, <1>9 DEF LudoGame!Cell
<1>12. \A q \in LudoPlayers \ {p} : \A u \in 1 .. Tokens :
         /\ n.positions[q][u] = IF ~idle /\ Hit(q, u) THEN -1 ELSE m.positions[q][u]
         /\ k.positions[q][u] = m.positions[q][u]
  BY <1>3, <1>8, <1>9
<1>13. \A u \in 1 .. Tokens :
         n.positions[p][u] = IF u = t THEN after ELSE m.positions[p][u]
  BY <1>3, <1>8, <1>9
<1>14. \A x : LudoGame!OnRing(x) <=> x \in 0 .. Lap - 1
  BY DEF LudoGame!OnRing
<1>15. AllHome(n) \ {p} = AllHome(m) \ {p}
  <2>1. ~LudoGame!OnRing(Home) /\ Home # -1
    BY <1>14, LudoFacts
  <2>2. ASSUME NEW q \in LudoPlayers \ {p}, NEW u \in 1 .. Tokens
        PROVE  n.positions[q][u] = Home <=> m.positions[q][u] = Home
    BY <1>12, <2>1
  <2> QED BY <2>2 DEF AllHome
<1>16. ASSUME NEW q \in LudoPlayers, NEW u \in 1 .. Tokens, q # p,
              LudoGame!OnRing(n.positions[q][u]), LudoGame!OnRing(after), after \notin Safe
       PROVE  LudoGame!Cell(n, q, n.positions[q][u]) # LudoGame!Cell(n, p, after)
  <2>1. ~idle /\ ~LudoGame!OnRing(-1)
    BY <1>14, <1>16
  <2>2. ~Hit(q, u) /\ n.positions[q][u] = k.positions[q][u]
    BY <1>12, <1>16, <2>1
  <2> QED BY <1>11, <1>16, <2>2
<1>17. Apart(n)
  <2> SUFFICES ASSUME NEW q \in LudoPlayers, NEW r \in LudoPlayers,
                      NEW u \in 1 .. Tokens, NEW v \in 1 .. Tokens,
                      q # r, LudoGame!OnRing(n.positions[q][u]),
                      LudoGame!OnRing(n.positions[r][v]),
                      LudoGame!Cell(n, q, n.positions[q][u])
                        = LudoGame!Cell(n, r, n.positions[r][v])
               PROVE  n.positions[q][u] \in Safe
    BY DEF Apart
  <2>1. CASE q = p /\ u = t
    BY <1>13, <1>16, <2>1
  <2>2. CASE r = p /\ v = t
    <3>1. after \in Safe /\ n.positions[r][v] = after
      BY <1>13, <1>16, <2>2
    <3> QED BY <1>9, <1>14, <3>1, SafeTogether
  <2>3. CASE ~(q = p /\ u = t) /\ ~(r = p /\ v = t)
    <3>1. ~LudoGame!OnRing(-1)
      BY <1>14
    <3>2. /\ n.positions[q][u] = m.positions[q][u]
          /\ n.positions[r][v] = m.positions[r][v]
      BY <1>12, <1>13, <2>3, <3>1
    <3> QED BY <1>11, <3>2 DEF Apart
  <2> QED BY <2>1, <2>2, <2>3
<1> QED BY <1>9, <1>15, <1>17 DEF n

\* A move keeps the match sound, also when it wins.
LEMMA MoveKeeps ==
  ASSUME LudoSound(state), NEW p \in LudoPlayers, NEW t \in 1 .. Tokens, LudoGame!Move(p, t)
  PROVE  LudoSound(state') /\ state'.status \in {"playing", "completed"}
<1> DEFINE before == state.positions[p][t]
           after == IF before = -1 THEN 0 ELSE before + state.dice
           n == Landed(state, p, t, after)
           moved == [n EXCEPT !.dice = 0]
<1>1. /\ state \in LudoMatch /\ state.status = "playing" /\ Turn(state) = p
      /\ LudoGame!CanMove(before, state.dice) /\ Apart(state) /\ AllHome(state) = {}
  BY SameLudo DEF LudoSound, LudoGame!Move, LudoGame!MayMove, RequireTurn
<1>2. state' = IF \A u \in 1 .. Tokens : moved.positions[p][u] = Home
               THEN [moved EXCEPT !.status = "completed", !.winner = p]
               ELSE IF state.dice = Six THEN moved ELSE NextTurn(moved)
  <2>1. state' = IF \A u \in 1 .. Tokens : moved.positions[p][u] = Home
                 THEN [moved EXCEPT !.status = "completed", !.winner = p]
                 ELSE IF state.dice = Six THEN moved ELSE LudoGame!NextTurn(moved)
    BY DEF LudoGame!Move, Landed, LudoGame!Yard, LudoGame!NoDice
  <2> HIDE DEF moved
  <2> QED BY <2>1, SameLudo
<1>3. after \in Square
  <2>a. /\ state.positions \in [LudoPlayers -> [1 .. Tokens -> Square]]
        /\ state.dice \in 0 .. Six
    BY <1>1, LudoFields
  <2>1. before \in Square /\ state.dice \in 0 .. Six
    BY <2>a
  <2>2. before = -1 \/ before + state.dice <= Home
    BY <1>1 DEF LudoGame!CanMove, LudoGame!Yard
  <2> QED BY <2>1, <2>2, LudoFacts DEF Square
<1> HIDE DEF n, after
<1>4. /\ n \in LudoMatch /\ Apart(n) /\ n.status = "playing" /\ n.winner = state.winner
      /\ n.order = state.order /\ AllHome(n) \ {p} = {}
  BY <1>1, <1>3, LandingKeeps DEF n
<1>5. /\ moved \in LudoMatch /\ moved.status = "playing" /\ moved.dice = 0
      /\ moved.positions = n.positions /\ moved.order = n.order
  <2>1. 0 \in 0 .. Six
    BY LudoFacts
  <2> QED BY <1>4, <2>1 DEF LudoMatch
<1> HIDE DEF moved
<1>6. Apart(moved) /\ AllHome(moved) \ {p} = {}
  BY <1>4, <1>5, SamePlaces
<1>7. CASE \A u \in 1 .. Tokens : moved.positions[p][u] = Home
  <2>1. state' = [moved EXCEPT !.status = "completed", !.winner = p]
    BY <1>2, <1>7
  <2>2. /\ state' \in LudoMatch /\ state'.status = "completed" /\ state'.winner = p
        /\ state'.positions = moved.positions /\ state'.order = moved.order
    BY <1>5, <2>1 DEF LudoMatch
  <2>3. AllHome(moved) = {p}
    BY <1>6, <1>7 DEF AllHome
  <2> QED BY <1>6, <2>2, <2>3, SamePlaces DEF LudoSound
<1>8. CASE ~\A u \in 1 .. Tokens : moved.positions[p][u] = Home
  <2>1. AllHome(moved) = {}
    BY <1>6, <1>8 DEF AllHome
  <2>2. CASE state.dice = Six
    BY <1>2, <1>5, <1>6, <1>8, <2>1, <2>2 DEF LudoSound
  <2>3. CASE state.dice # Six
    <3>1. state' = NextTurn(moved)
      BY <1>2, <1>8, <2>3
    <3>2. /\ state' \in LudoMatch /\ state'.status = "playing" /\ state'.dice = 0
          /\ state'.positions = moved.positions /\ state'.order = moved.order
      BY <1>5, <3>1, TurnPassed
    <3> QED BY <1>6, <2>1, <3>2, SamePlaces DEF LudoSound
  <2> QED BY <2>2, <2>3
<1> QED BY <1>7, <1>8

\* What a turn-based match may do next, as GameContract has it.
LudoStep == /\ LudoSound(state')
            /\ \/ state.status = "waiting" /\ state'.status = "playing"
               \/ state.status = "playing" /\ state'.status \in {"playing", "completed"}

\* Every step of Ludo keeps it sound and goes forward.
LEMMA LudoNext == ASSUME LudoSound(state), LudoGame!Next PROVE LudoStep
<1>1. LudoGame!Players = LudoPlayers
  BY SameLudo DEF LudoGame!Players, LudoPlayers
<1>2. CASE LudoGame!Start
  <2>1. /\ state \in LudoMatch /\ state.status = "waiting"
        /\ state' = [state EXCEPT !.status = "playing"]
    BY <1>2, SameLudo DEF LudoSound, LudoGame!Start, StartMatch
  <2>2. /\ state' \in LudoMatch /\ state'.status = "playing" /\ state'.dice = state.dice
        /\ state'.positions = state.positions /\ state'.order = state.order
    BY <2>1 DEF LudoMatch
  <2> QED BY <2>1, <2>2, SamePlaces DEF LudoSound, LudoStep
<1>3. ASSUME NEW p \in LudoPlayers, LudoGame!Roll(p) PROVE LudoStep
  <2>1. state.status = "playing"
    BY <1>3, SameLudo DEF LudoGame!Roll, RequireTurn
  <2> QED BY <1>3, <2>1, RollKeeps DEF LudoStep
<1>4. ASSUME NEW p \in LudoPlayers, NEW t \in 1 .. Tokens, LudoGame!Move(p, t) PROVE LudoStep
  <2>1. state.status = "playing"
    BY <1>4, SameLudo DEF LudoGame!Move, LudoGame!MayMove, RequireTurn
  <2> QED BY <1>4, <2>1, MoveKeeps DEF LudoStep
<1> QED BY <1>1, <1>2, <1>3, <1>4 DEF LudoGame!Next

\* What the invariant says in the words of the module.
LEMMA LudoSays ==
  ASSUME LudoSound(state)
  PROVE  LudoGame!CanAct /\ LudoGame!CellsAreHeld /\ LudoGame!FairlyLost
<1>0. LudoGame!Players = LudoPlayers
  BY SameLudo DEF LudoGame!Players, LudoPlayers
<1>1. LudoGame!CanAct
  <2> SUFFICES ASSUME state.status = "playing"
               PROVE  \E p \in LudoPlayers :
                        /\ RequireTurn(state, p)
                        /\ \/ state.dice = 0
                           \/ \E t \in 1 .. Tokens : LudoGame!MayMove(p, t)
    BY <1>0, SameLudo DEF LudoGame!CanAct, LudoGame!NoDice
  <2>1. Turn(state) \in LudoPlayers /\ RequireTurn(state, Turn(state))
    BY LudoFields DEF LudoSound, RequireTurn
  <2>2. state.dice = 0 \/ \E t \in 1 .. Tokens : LudoGame!MayMove(Turn(state), t)
    BY <2>1, SameLudo DEF LudoSound, Movable, LudoGame!MayMove
  <2> QED BY <2>1, <2>2
<1>2. LudoGame!CellsAreHeld
  BY <1>0 DEF LudoSound, Apart, LudoGame!CellsAreHeld
<1>3. LudoGame!FairlyLost
  BY <1>0 DEF LudoSound, AllHome, LudoGame!FairlyLost
<1> QED BY <1>1, <1>2, <1>3

-----------------------------------------------------------------------------
(* Kazhutha *)

\* What Kazhutha takes from the modules above is what the registry takes.
LEMMA SameKazhutha ==
    /\ \A s : KazhuthaGame!ToSet(s) = ToSet(s)
    /\ \A s, e : KazhuthaGame!Contains(s, e) <=> Contains(s, e)
    /\ \A s, e : KazhuthaGame!IndexOf(s, e) = IndexOf(s, e)
    /\ \A m : KazhuthaGame!Turn(m) = Turn(m)
    /\ \A m : KazhuthaGame!NextTurn(m) = NextTurn(m)
    /\ \A m, p : KazhuthaGame!RequireTurn(m, p) <=> RequireTurn(m, p)
    /\ \A m : KazhuthaGame!StartMatch(m) = StartMatch(m)
    /\ \A S : KazhuthaGame!CreateMatch(S) = CreateMatch(S)
    /\ \A S : KazhuthaGame!Cardinality(S) = Cardinality(S)
    /\ \A S : KazhuthaGame!IsFiniteSet(S) = IsFiniteSet(S)
    /\ \A s, e : KazhuthaGame!Without(s, e) = Without(s, e)
<1>1. \A s : KazhuthaGame!ToSet(s) = ToSet(s)
  BY DEF KazhuthaGame!ToSet, ToSet
<1>2. \A s, e : KazhuthaGame!Contains(s, e) <=> Contains(s, e)
  BY DEF KazhuthaGame!Contains, Contains
<1>3. \A s, e : KazhuthaGame!IndexOf(s, e) = IndexOf(s, e)
  BY DEF KazhuthaGame!IndexOf, IndexOf, KazhuthaGame!Contains, Contains
<1>4. \A m : KazhuthaGame!Turn(m) = Turn(m)
  BY DEF KazhuthaGame!Turn, Turn
<1>5. \A m : KazhuthaGame!NextTurn(m) = NextTurn(m)
  BY DEF KazhuthaGame!NextTurn, NextTurn
<1>6. \A m, p : KazhuthaGame!RequireTurn(m, p) <=> RequireTurn(m, p)
  BY <1>4 DEF KazhuthaGame!RequireTurn, RequireTurn
<1>7. \A m : KazhuthaGame!StartMatch(m) = StartMatch(m)
  BY DEF KazhuthaGame!StartMatch, StartMatch
<1>8. \A S : KazhuthaGame!SetToSeqs(S) = SetToSeqs(S)
  BY DEF KazhuthaGame!SetToSeqs, SetToSeqs, KazhuthaGame!Cardinality, Cardinality
<1>9. \A S : KazhuthaGame!CreateMatch(S) = CreateMatch(S)
  BY <1>1, <1>8 DEF KazhuthaGame!CreateMatch, CreateMatch
<1>10. \A S : KazhuthaGame!Cardinality(S) = Cardinality(S)
  BY DEF KazhuthaGame!Cardinality, Cardinality
<1>11. \A S : KazhuthaGame!IsFiniteSet(S) = IsFiniteSet(S)
  BY DEF KazhuthaGame!IsFiniteSet, IsFiniteSet
<1>12. \A s, K : KazhuthaGame!Filter(s, K) = Filter(s, K)
  BY DEF KazhuthaGame!Filter, Filter
<1>13. \A s, e : KazhuthaGame!Without(s, e) = Without(s, e)
  BY <1>1, <1>12 DEF KazhuthaGame!Without, Without
<1> QED BY <1>1, <1>2, <1>3, <1>4, <1>5, <1>6, <1>7, <1>9, <1>10, <1>11, <1>13

\* Whoever leaves a rotation is gone from it, and those behind close up.
LEMMA WithoutDrops ==
  ASSUME NEW S, NEW o, Rotation(o, S), NEW k \in 1 .. Len(o)
  PROVE  /\ Rotation(Without(o, o[k]), S)
         /\ Len(Without(o, o[k])) = Len(o) - 1
         /\ ToSet(Without(o, o[k])) = ToSet(o) \ {o[k]}
<1> DEFINE keep == ToSet(o) \ {o[k]}
           w == Without(o, o[k])
<1>1. o \in Seq(S) /\ ToSet(o) = {o[i] : i \in 1 .. Len(o)} /\ Len(o) \in Nat
  BY ToSetIs DEF Rotation
<1>2. \A i \in 1 .. Len(o) \ {k} : o[i] \in keep
  BY <1>1 DEF Rotation
<1>3. o[k] \notin keep /\ w = Filter(o, keep)
  BY DEF Without
<1> HIDE DEF keep, w
<1>4. /\ w \in Seq(S) /\ Len(w) = Len(o) - 1
      /\ \A i \in 1 .. (Len(o) - 1) : w[i] = IF i < k THEN o[i] ELSE o[i + 1]
  BY <1>1, <1>2, <1>3, FilterDrops
<1>5. \A i, j \in 1 .. Len(w) : w[i] = w[j] => i = j
  <2> SUFFICES ASSUME NEW i \in 1 .. Len(w), NEW j \in 1 .. Len(w), w[i] = w[j]
               PROVE  i = j
    OBVIOUS
  <2> DEFINE a == IF i < k THEN i ELSE i + 1
             b == IF j < k THEN j ELSE j + 1
  <2>1. a \in 1 .. Len(o) /\ b \in 1 .. Len(o) /\ o[a] = w[i] /\ o[b] = w[j]
    BY <1>1, <1>4
  <2>2. a = b
    BY <2>1 DEF Rotation
  <2> QED BY <2>2
<1>6. ToSet(w) = ToSet(o) \ {o[k]}
  <2>1. ToSet(w) = {w[i] : i \in 1 .. Len(w)}
    BY <1>4, ToSetIs
  <2>2. \A e : (\E i \in 1 .. Len(w) : w[i] = e) <=> e \in keep /\ \E i \in 1 .. Len(o) : o[i] = e
    BY <1>1, <1>3, FilterKeeps
  <2>3. \A e : e \in ToSet(w) <=> e \in keep /\ e \in ToSet(o)
    BY <1>1, <2>1, <2>2
  <2> QED BY <2>3 DEF keep
<1> QED BY <1>4, <1>5, <1>6 DEF Rotation, w

KPlayers == ToSet(KazhuthaSeats)

Cards == Ranks \cup {Donkey}

KazhuthaMatch ==
  [status : {"waiting", "playing", "completed"}, order : Seq(KPlayers), turnIndex : Nat,
   hands : [KPlayers -> SUBSET Cards], finishOrder : Seq(KPlayers),
   loser : KPlayers \cup {NoOne}]

Holding(hands, r) == {p \in KPlayers : r \in hands[p]}

Matched(hands) ==
    /\ \A r \in Ranks : Cardinality(Holding(hands, r)) % 2 = 0
    /\ Cardinality(Holding(hands, Donkey)) = 1

\* Everybody is in the rotation or has a place, and whoever has one has no card.
Lined(m) ==
    /\ m \in KazhuthaMatch
    /\ Rotation(m.order, KPlayers) /\ Rotation(m.finishOrder, KPlayers)
    /\ ToSet(m.finishOrder) = KPlayers \ ToSet(m.order)
    /\ \A p \in ToSet(m.finishOrder) : m.hands[p] = {}
    /\ m.turnIndex \in 0 .. Len(m.order)

KazhuthaSound(m) ==
    /\ Lined(m)
    /\ Matched(m.hands)
    /\ m.status = "waiting" => m.turnIndex = 0
    /\ m.status = "playing" =>
          /\ Len(m.order) >= 2
          /\ m.turnIndex < Len(m.order)
          /\ \A p \in ToSet(m.order) : m.hands[p] # {}
    /\ m.status = "completed" => ToSet(m.order) = {m.loser} /\ m.loser # NoOne

\* The deck and the seats, as assumed.
LEMMA KazhuthaFacts ==
    /\ KazhuthaSeats \in Seq(KPlayers) /\ IsFiniteSet(KPlayers)
    /\ Cardinality(KPlayers) \in Nat /\ Cardinality(KPlayers) >= 2
    /\ NoOne \notin KPlayers /\ Donkey \notin Ranks
    /\ KazhuthaGame!Players = KPlayers
    /\ \A h, r : KazhuthaGame!Holders(h, r) = Holding(h, r)
<1>1. KazhuthaGame!RanksAssumption
  BY GamesAssumption DEF GamesAssumption
<1>2. KazhuthaGame!Players = KPlayers
  BY SameKazhutha DEF KazhuthaGame!Players, KPlayers
<1>3. /\ KazhuthaSeats \in Seq(KPlayers) /\ Cardinality(KPlayers) >= 2
      /\ NoOne \notin KPlayers /\ Donkey \notin Ranks
  BY <1>1, <1>2, SameKazhutha DEF KazhuthaGame!RanksAssumption
<1>4. IsFiniteSet(KPlayers)
  <2>1. KPlayers = {KazhuthaSeats[i] : i \in 1 .. Len(KazhuthaSeats)}
    BY <1>3, ToSetIs DEF KPlayers
  <2>2. KazhuthaSeats \in Surjection(1 .. Len(KazhuthaSeats), KPlayers)
    <3>1. \A e \in KPlayers : \E i \in 1 .. Len(KazhuthaSeats) : KazhuthaSeats[i] = e
      BY <2>1
    <3>2. KazhuthaSeats \in [1 .. Len(KazhuthaSeats) -> KPlayers]
      BY <1>3
    <3> QED BY <3>1, <3>2 DEF Surjection
  <2>3. IsFiniteSet(1 .. Len(KazhuthaSeats))
    BY <1>3, FS_Interval
  <2> QED BY <2>2, <2>3, FS_Surjection
<1>5. Cardinality(KPlayers) \in Nat
  BY <1>4, FS_CardinalityType
<1>6. \A h, r : KazhuthaGame!Holders(h, r) = Holding(h, r)
  BY <1>2 DEF KazhuthaGame!Holders, Holding
<1> QED BY <1>2, <1>3, <1>4, <1>5, <1>6

\* What the type of a match says of each field.
LEMMA LinedFields ==
  ASSUME NEW m, Lined(m)
  PROVE  /\ m.order \in Seq(KPlayers) /\ m.finishOrder \in Seq(KPlayers)
         /\ Len(m.order) \in Nat /\ Len(m.finishOrder) \in Nat
         /\ m.turnIndex \in Nat /\ m.hands \in [KPlayers -> SUBSET Cards]
         /\ ToSet(m.order) \subseteq KPlayers /\ ToSet(m.finishOrder) \subseteq KPlayers
         /\ ToSet(m.order) = {m.order[i] : i \in 1 .. Len(m.order)}
<1>1. m.order \in Seq(KPlayers) /\ m.finishOrder \in Seq(KPlayers)
  BY DEF Lined, KazhuthaMatch
<1>2. m.turnIndex \in Nat /\ m.hands \in [KPlayers -> SUBSET Cards]
  BY DEF Lined, KazhuthaMatch
<1>3. ToSet(m.order) \subseteq KPlayers /\ ToSet(m.finishOrder) \subseteq KPlayers
  BY RotationCounts DEF Lined
<1> QED BY <1>1, <1>2, <1>3, ToSetIs

\* The end of a sequence of players, one more of them put there.
LEMMA RotationGrows ==
  ASSUME NEW S, NEW o, Rotation(o, S), NEW p \in S, p \notin ToSet(o)
  PROVE  Rotation(Append(o, p), S) /\ ToSet(Append(o, p)) = ToSet(o) \cup {p}
<1> DEFINE a == Append(o, p)
<1>1. o \in Seq(S) /\ Len(o) \in Nat /\ ToSet(o) = {o[i] : i \in 1 .. Len(o)}
  BY ToSetIs DEF Rotation
<1>2. /\ a \in Seq(S) /\ Len(a) = Len(o) + 1 /\ a[Len(o) + 1] = p
      /\ \A i \in 1 .. Len(o) : a[i] = o[i]
  BY <1>1
<1>3. ToSet(a) = {a[i] : i \in 1 .. Len(a)}
  BY <1>2, ToSetIs
<1> HIDE DEF a
<1>4. \A i \in 1 .. Len(a) : i \in 1 .. Len(o) \/ i = Len(o) + 1
  BY <1>1, <1>2
<1>5. \A i \in 1 .. Len(o) : a[i] # p /\ i \in 1 .. Len(a)
  BY <1>1, <1>2
<1>6. \A i, j \in 1 .. Len(a) : a[i] = a[j] => i = j
  BY <1>2, <1>4, <1>5 DEF Rotation
<1>7. Len(o) + 1 \in 1 .. Len(a)
  BY <1>1, <1>2
<1>8. ToSet(a) = ToSet(o) \cup {p}
  BY <1>1, <1>2, <1>3, <1>4, <1>5, <1>7
<1> QED BY <1>2, <1>6, <1>8 DEF Rotation, a

\* Going out takes whoever holds nothing out of the rotation, nobody else and
\* no card.
LEMMA RetireKeeps ==
  ASSUME NEW m, Lined(m), NEW p \in KPlayers
  PROVE  LET n == KazhuthaGame!RetireIfEmpty(m, p)
         IN  /\ Lined(n)
             /\ n.hands = m.hands /\ n.status = m.status /\ n.loser = m.loser
             /\ ToSet(n.order) = IF m.hands[p] = {} THEN ToSet(m.order) \ {p} ELSE ToSet(m.order)
             /\ m.turnIndex = 0 => n.turnIndex = 0
<1> DEFINE n == KazhuthaGame!RetireIfEmpty(m, p)
<1>1. CASE m.hands[p] # {}
  BY <1>1 DEF KazhuthaGame!RetireIfEmpty
<1>2. CASE m.hands[p] = {} /\ p \notin ToSet(m.order)
  <2>1. IndexOf(m.order, p) = -1
    BY <1>2, LinedFields, IndexMissing
  <2>2. n = m
    BY <1>2, <2>1, SameKazhutha DEF KazhuthaGame!RetireIfEmpty, KazhuthaGame!Retire
  <2> QED BY <1>2, <2>2
<1>3. CASE m.hands[p] = {} /\ p \in ToSet(m.order)
  <2>1. PICK k \in 1 .. Len(m.order) : m.order[k] = p
    <3>1. ToSet(m.order) = {m.order[i] : i \in 1 .. Len(m.order)}
      BY LinedFields
    <3> QED BY <1>3, <3>1
  <2>2. IndexOf(m.order, p) = k - 1 /\ k - 1 >= 0
    <3>1. Rotation(m.order, KPlayers)
      BY DEF Lined
    <3>2. IndexOf(m.order, m.order[k]) = k - 1
      BY <3>1, IndexFound
    <3> QED BY <2>1, <3>2
  <2> DEFINE w == Without(m.order, p)
             f == Append(m.finishOrder, p)
             t == IF k - 1 < m.turnIndex THEN m.turnIndex - 1 ELSE m.turnIndex
  <2>3. n = [m EXCEPT !.order = w, !.turnIndex = t, !.finishOrder = f]
    <3>1. n = KazhuthaGame!Retire(m, p)
      BY <1>3 DEF KazhuthaGame!RetireIfEmpty
    <3>2. KazhuthaGame!IndexOf(m.order, p) = k - 1 /\ ~(k - 1 < 0)
      BY <2>2, SameKazhutha
    <3>3. KazhuthaGame!Without(m.order, p) = w
      BY SameKazhutha
    <3> QED BY <3>1, <3>2, <3>3 DEF KazhuthaGame!Retire
  <2>4. Rotation(w, KPlayers) /\ Len(w) = Len(m.order) - 1 /\ ToSet(w) = ToSet(m.order) \ {p}
    BY <2>1, WithoutDrops DEF Lined
  <2>5. Rotation(f, KPlayers) /\ ToSet(f) = ToSet(m.finishOrder) \cup {p}
    <3>1. p \notin ToSet(m.finishOrder)
      BY <1>3 DEF Lined
    <3> QED BY <3>1, RotationGrows DEF Lined
  <2>6. t \in 0 .. Len(m.order) - 1 /\ t \in Nat /\ (m.turnIndex = 0 => t = 0)
    <3>1. m.turnIndex \in 0 .. Len(m.order) /\ Len(m.order) \in Nat /\ k \in 1 .. Len(m.order)
      BY LinedFields DEF Lined
    <3> QED BY <3>1
  <2>7. w \in Seq(KPlayers) /\ f \in Seq(KPlayers)
    BY <2>4, <2>5 DEF Rotation
  <2> HIDE DEF w, f, t
  <2>8. /\ n \in KazhuthaMatch /\ n.order = w /\ n.finishOrder = f /\ n.turnIndex = t
        /\ n.hands = m.hands /\ n.status = m.status /\ n.loser = m.loser
    BY <2>3, <2>6, <2>7 DEF Lined, KazhuthaMatch
  <2>9. ToSet(f) = KPlayers \ ToSet(w)
    BY <2>4, <2>5 DEF Lined
  <2>10. \A q \in ToSet(f) : n.hands[q] = {}
    BY <1>3, <2>5, <2>8 DEF Lined
  <2> QED BY <1>3, <2>4, <2>5, <2>6, <2>8, <2>9, <2>10 DEF Lined
<1> QED BY <1>1, <1>2, <1>3

\* The queen is in some hand, so the rotation is never empty.
LEMMA SomebodyHolds ==
  ASSUME NEW m, Lined(m), Matched(m.hands)
  PROVE  /\ Len(m.order) >= 1
         /\ \E p \in ToSet(m.order) : Holding(m.hands, Donkey) = {p}
<1>1. PICK p : Holding(m.hands, Donkey) = {p}
  <2>1. IsFiniteSet(Holding(m.hands, Donkey))
    <3>1. Holding(m.hands, Donkey) \in SUBSET KPlayers
      BY DEF Holding
    <3> QED BY <3>1, KazhuthaFacts, FS_Subset
  <2> QED BY <2>1, FS_Singleton DEF Matched
<1>2. p \in KPlayers /\ m.hands[p] # {}
  BY <1>1 DEF Holding
<1>3. p \in ToSet(m.order)
  BY <1>2 DEF Lined
<1>4. Len(m.order) >= 1
  <2>1. ToSet(m.order) = {m.order[i] : i \in 1 .. Len(m.order)} /\ Len(m.order) \in Nat
    BY LinedFields
  <2>2. PICK i \in 1 .. Len(m.order) : m.order[i] = p
    BY <1>3, <2>1
  <2> QED BY <2>1, <2>2
<1> QED BY <1>1, <1>3, <1>4

\* Settling a sound position: over once at most one is left, who holds the queen.
LEMMA ResolveKeeps ==
  ASSUME NEW m, Lined(m), Matched(m.hands), m.status = "playing",
         \A p \in ToSet(m.order) : m.hands[p] # {}
  PROVE  LET n == KazhuthaGame!Resolve(m)
         IN  /\ Lined(n) /\ Matched(n.hands) /\ n.order = m.order
             /\ n.hands = m.hands /\ n.turnIndex = m.turnIndex
             /\ \/ n.status = "playing" /\ Len(n.order) >= 2
                \/ n.status = "completed" /\ KazhuthaSound(n)
<1> DEFINE n == KazhuthaGame!Resolve(m)
<1>1. Len(m.order) = 1 \/ Len(m.order) >= 2
  <2>1. Len(m.order) >= 1
    BY SomebodyHolds
  <2>2. Len(m.order) \in Nat
    BY LinedFields
  <2>3. \A k \in Nat : k >= 1 => k = 1 \/ k >= 2
    OBVIOUS
  <2> QED BY <2>1, <2>2, <2>3, Zenon
<1>2. CASE Len(m.order) >= 2
  <2>1. n = m
    <3>1. Len(m.order) \in Nat
      BY LinedFields
    <3>2. Len(m.order) > 1
      BY <1>2, <3>1
    <3> QED BY <3>2 DEF KazhuthaGame!Resolve
  <2> QED BY <1>2, <2>1
<1>3. CASE Len(m.order) = 1
  <2>1. Len(m.order) = 1 /\ ~(Len(m.order) > 1)
    BY <1>3
  <2> DEFINE l == m.order[1]
  <2>2. l \in KPlayers /\ ToSet(m.order) = {l} /\ m.order # << >>
    <3>1. m.order \in Seq(KPlayers) /\ ToSet(m.order) = {m.order[i] : i \in 1 .. Len(m.order)}
      BY LinedFields
    <3> QED BY <2>1, <3>1
  <2>3. n = [m EXCEPT !.status = "completed", !.loser = l]
    BY <2>1, <2>2 DEF KazhuthaGame!Resolve
  <2> HIDE DEF l
  <2>4. /\ n \in KazhuthaMatch /\ n.status = "completed" /\ n.loser = l /\ n.order = m.order
        /\ n.hands = m.hands /\ n.turnIndex = m.turnIndex /\ n.finishOrder = m.finishOrder
    BY <2>2, <2>3 DEF Lined, KazhuthaMatch
  <2>5. Lined(n)
    BY <2>4 DEF Lined
  <2>6. ToSet(n.order) = {n.loser} /\ n.loser # NoOne
    BY <2>2, <2>4, KazhuthaFacts
  <2> QED BY <2>4, <2>5, <2>6 DEF KazhuthaSound
<1> QED BY <1>1, <1>2, <1>3

\* The turn goes to somebody who is still in.
LEMMA AdvanceKeeps ==
  ASSUME NEW m, Lined(m), Len(m.order) >= 2, NEW p \in KPlayers
  PROVE  LET n == KazhuthaGame!AdvanceFrom(m, p)
         IN  /\ Lined(n) /\ n.turnIndex < Len(n.order) /\ n.order = m.order
             /\ n.hands = m.hands /\ n.status = m.status
<1> DEFINE n == KazhuthaGame!AdvanceFrom(m, p)
           index == IndexOf(m.order, p)
           t == (IF index < 0 THEN m.turnIndex ELSE index + 1) % Len(m.order)
<1>1. Len(m.order) \in Nat \ {0} /\ m.turnIndex \in Nat /\ m.order # << >>
  <2>1. Len(m.order) \in Nat /\ m.turnIndex \in Nat
    BY LinedFields
  <2> QED BY <2>1
<1>2. index \in Nat \/ index = -1
  <2>1. CASE p \notin ToSet(m.order)
    <3>1. m.order \in Seq(KPlayers)
      BY LinedFields
    <3> QED BY <2>1, <3>1, IndexMissing
  <2>2. CASE p \in ToSet(m.order)
    <3>1. ToSet(m.order) = {m.order[i] : i \in 1 .. Len(m.order)}
      BY LinedFields
    <3>2. PICK k \in 1 .. Len(m.order) : m.order[k] = p
      BY <2>2, <3>1
    <3>3. Rotation(m.order, KPlayers)
      BY DEF Lined
    <3>4. IndexOf(m.order, m.order[k]) = k - 1
      BY <3>3, IndexFound
    <3> QED BY <3>2, <3>4
  <2> QED BY <2>1, <2>2
<1>3. n = [m EXCEPT !.turnIndex = t]
  <2>1. KazhuthaGame!IndexOf(m.order, p) = index
    BY SameKazhutha
  <2> HIDE DEF index
  <2>2. CASE index < 0
    BY <1>1, <2>1, <2>2 DEF KazhuthaGame!AdvanceFrom
  <2>3. CASE ~(index < 0)
    <3> DEFINE k == [m EXCEPT !.turnIndex = index]
    <3>1. n = KazhuthaGame!NextTurn(k)
      BY <1>1, <2>1, <2>3 DEF KazhuthaGame!AdvanceFrom
    <3>2. n = NextTurn(k)
      BY <3>1, SameKazhutha
    <3>3. k.order = m.order /\ k.turnIndex = index
      BY DEF Lined, KazhuthaMatch
    <3>4. n = [k EXCEPT !.turnIndex = (index + 1) % Len(m.order)]
      <4> HIDE DEF k
      <4> QED BY <1>1, <3>2, <3>3 DEF NextTurn
    <3>5. [k EXCEPT !.turnIndex = (index + 1) % Len(m.order)]
            = [m EXCEPT !.turnIndex = (index + 1) % Len(m.order)]
      BY DEF Lined, KazhuthaMatch
    <3> QED BY <2>3, <3>4, <3>5
  <2> QED BY <2>2, <2>3
<1>4. t \in 0 .. Len(m.order) - 1
  <2>1. (IF index < 0 THEN m.turnIndex ELSE index + 1) \in Nat
    BY <1>1, <1>2
  <2> QED BY <1>1, <2>1, DivMod
<1> HIDE DEF t
<1>5. t \in Nat /\ t < Len(m.order) /\ t \in 0 .. Len(m.order)
  BY <1>1, <1>4
<1>6. /\ n \in KazhuthaMatch /\ n.order = m.order /\ n.turnIndex = t /\ n.hands = m.hands
      /\ n.status = m.status /\ n.finishOrder = m.finishOrder
  BY <1>3, <1>5 DEF Lined, KazhuthaMatch
<1> QED BY <1>5, <1>6 DEF Lined

\* The loop of the start, after n seats.
IsSettled(g, n, m) ==
  g = [i \in 0 .. n |-> IF i = 0 THEN KazhuthaGame!StartMatch(m)
                        ELSE KazhuthaGame!RetireIfEmpty(g[i - 1], m.order[i])]

\* The loop of startMatch over the first n seats has a result.
LEMMA SettledExists ==
  ASSUME NEW n \in Nat, NEW m
  PROVE  \E g : IsSettled(g, n, m)
<1> DEFINE T == {k \in Nat : ~\E g : IsSettled(g, k, m)}
<1> SUFFICES ASSUME T # {} PROVE FALSE
  OBVIOUS
<1>1. T \in SUBSET Nat
  OBVIOUS
<1> HIDE DEF T
<1>2. PICK k \in T : \A j \in T : ~(j < k)
  BY <1>1, LeastNumber
<1> USE DEF T
<1>3. CASE k = 0
  <2>1. IsSettled([i \in 0 .. 0 |-> KazhuthaGame!StartMatch(m)], 0, m)
    BY DEF IsSettled
  <2> QED BY <1>3, <2>1
<1>4. CASE k # 0
  <2>1. k - 1 \in Nat /\ k - 1 < k /\ k \in Nat
    BY <1>4
  <2>2. PICK g : IsSettled(g, k - 1, m)
    BY <1>2, <2>1
  <2> DEFINE h == [i \in 0 .. k |-> IF i = k THEN KazhuthaGame!RetireIfEmpty(g[k - 1], m.order[k])
                                   ELSE g[i]]
  <2>3. \A i \in 0 .. (k - 1) :
          g[i] = IF i = 0 THEN KazhuthaGame!StartMatch(m)
                 ELSE KazhuthaGame!RetireIfEmpty(g[i - 1], m.order[i])
    BY <2>2 DEF IsSettled
  <2>4. \A i \in 0 .. k :
          h[i] = IF i = 0 THEN KazhuthaGame!StartMatch(m)
                 ELSE KazhuthaGame!RetireIfEmpty(h[i - 1], m.order[i])
    <3>1. ASSUME NEW i \in 0 .. k PROVE i \in 0 .. (k - 1) \/ i = k
      BY <2>1
    <3>2. ASSUME NEW i \in 0 .. k, i # 0 PROVE h[i - 1] = g[i - 1]
      BY <2>1, <3>2
    <3> QED BY <1>4, <2>1, <2>3, <3>1, <3>2
  <2>5. IsSettled(h, k, m)
    <3> HIDE DEF h
    <3>1. h = [i \in 0 .. k |-> h[i]]
      BY DEF h
    <3> QED BY <2>4, <3>1 DEF IsSettled
  <2> QED BY <2>5
<1> QED BY <1>3, <1>4

\* The start lets whoever was dealt pairs only go out, and may end the match.
LEMMA KazhuthaStarts ==
  ASSUME KazhuthaSound(state), KazhuthaGame!Start
  PROVE  /\ KazhuthaSound(state') /\ ToSet(state'.order) \subseteq ToSet(state.order)
         /\ state'.status \in {"playing", "completed"}
<1> DEFINE n == Len(state.order)
           g == CHOOSE f : IsSettled(f, n, state)
           gone(i) == {state.order[j] : j \in 1 .. i}
           Holds(i) == /\ Lined(g[i]) /\ g[i].hands = state.hands
                       /\ g[i].status = "playing" /\ g[i].turnIndex = 0
                       /\ ToSet(g[i].order) =
                            {p \in ToSet(state.order) : p \in gone(i) => state.hands[p] # {}}
           T == {i \in 0 .. n : ~Holds(i)}
<1>0. /\ n \in Nat /\ state.order \in Seq(KPlayers) /\ Lined(state) /\ Matched(state.hands)
      /\ ToSet(state.order) = {state.order[i] : i \in 1 .. n}
      /\ ToSet(state.order) \subseteq KPlayers
  BY LinedFields DEF KazhuthaSound
<1>1. IsSettled(g, n, state)
  BY <1>0, SettledExists
<1>2. state.status = "waiting" /\ state' = KazhuthaGame!Resolve(g[n])
  BY DEF KazhuthaGame!Start, IsSettled
<1>3. /\ g[0] = StartMatch(state)
      /\ \A i \in 1 .. n : g[i] = KazhuthaGame!RetireIfEmpty(g[i - 1], state.order[i])
  <2>1. \A i \in 0 .. n :
          g[i] = IF i = 0 THEN KazhuthaGame!StartMatch(state)
                 ELSE KazhuthaGame!RetireIfEmpty(g[i - 1], state.order[i])
    <3> HIDE DEF g
    <3> QED BY <1>0, <1>1 DEF IsSettled
  <2> HIDE DEF g
  <2>2. 0 \in 0 .. n /\ \A i \in 1 .. n : i \in 0 .. n /\ i # 0
    BY <1>0
  <2>3. g[0] = KazhuthaGame!StartMatch(state)
    BY <2>1, <2>2
  <2>4. \A i \in 1 .. n : g[i] = KazhuthaGame!RetireIfEmpty(g[i - 1], state.order[i])
    BY <2>1, <2>2
  <2> QED BY <2>3, <2>4, SameKazhutha
<1> HIDE DEF g
<1>4. T = {}
  <2> SUFFICES ASSUME T # {} PROVE FALSE
    OBVIOUS
  <2>1. T \in SUBSET Nat
    BY <1>0
  <2> HIDE DEF T
  <2>2. PICK k \in T : \A j \in T : ~(j < k)
    BY <2>1, LeastNumber
  <2>3. k \in 0 .. n /\ ~Holds(k)
    BY DEF T
  <2>4. CASE k = 0
    <3>1. g[0] = [state EXCEPT !.status = "playing"]
      BY <1>3 DEF StartMatch
    <3>2. PICK a : a = g[0]
      OBVIOUS
    <3>3. /\ a \in KazhuthaMatch /\ a.status = "playing" /\ a.order = state.order
          /\ a.hands = state.hands /\ a.turnIndex = state.turnIndex
          /\ a.finishOrder = state.finishOrder
      BY <1>0, <3>1, <3>2 DEF Lined, KazhuthaMatch
    <3>4. Lined(a)
      BY <1>0, <3>3 DEF Lined
    <3>5. state.turnIndex = 0
      BY <1>2 DEF KazhuthaSound
    <3>6. gone(0) = {}
      OBVIOUS
    <3> QED BY <2>3, <2>4, <3>2, <3>3, <3>4, <3>5, <3>6
  <2>5. CASE k # 0
    <3>1. k \in 1 .. n /\ k - 1 \in 0 .. n /\ k - 1 < k
      BY <1>0, <2>3, <2>5
    <3>2. Holds(k - 1)
      BY <2>2, <3>1 DEF T
    <3> DEFINE q == state.order[k]
               before == g[k - 1]
    <3>3. q \in KPlayers /\ g[k] = KazhuthaGame!RetireIfEmpty(before, q)
      BY <1>0, <1>3, <3>1
    <3> HIDE DEF Holds
    <3>4. /\ Lined(before) /\ before.hands = state.hands /\ before.status = "playing"
          /\ before.turnIndex = 0
          /\ ToSet(before.order) =
               {p \in ToSet(state.order) : p \in gone(k - 1) => state.hands[p] # {}}
      BY <3>2 DEF Holds
    <3>5. PICK b : b = before
      OBVIOUS
    <3>6. gone(k) = gone(k - 1) \cup {q}
      <4>1. \A j \in 1 .. k : j \in 1 .. (k - 1) \/ j = k
        BY <3>1
      <4>2. \A j \in 1 .. (k - 1) : j \in 1 .. k
        BY <3>1
      <4>3. k \in 1 .. k
        BY <3>1
      <4> QED BY <4>1, <4>2, <4>3
    <3> HIDE DEF q, before, gone
    <3>7. LET c == KazhuthaGame!RetireIfEmpty(b, q)
          IN  /\ Lined(c) /\ c.hands = b.hands /\ c.status = b.status /\ c.turnIndex = 0
              /\ ToSet(c.order) = IF b.hands[q] = {} THEN ToSet(b.order) \ {q} ELSE ToSet(b.order)
      BY <3>3, <3>4, <3>5, RetireKeeps
    <3>8. Holds(k)
      BY <3>3, <3>4, <3>5, <3>6, <3>7 DEF Holds
    <3> QED BY <2>3, <3>8
  <2> QED BY <2>4, <2>5
<1>5. Holds(n)
  <2>1. n \in 0 .. n
    BY <1>0
  <2>2. n \notin T
    BY <1>4
  <2> HIDE DEF Holds
  <2> QED BY <2>1, <2>2
<1> DEFINE m == g[n]
<1>6. gone(n) = ToSet(state.order)
  BY <1>0
<1>7. /\ Lined(m) /\ Matched(m.hands) /\ m.status = "playing" /\ m.turnIndex = 0
      /\ \A p \in ToSet(m.order) : m.hands[p] # {}
      /\ ToSet(m.order) \subseteq ToSet(state.order)
  BY <1>0, <1>5, <1>6
<1> HIDE DEF m, Holds, T, gone
<1>8. state' = KazhuthaGame!Resolve(m)
  BY <1>2 DEF m
<1>9. /\ Lined(state') /\ Matched(state'.hands) /\ state'.order = m.order
      /\ state'.hands = m.hands /\ state'.turnIndex = m.turnIndex
      /\ \/ state'.status = "playing" /\ Len(state'.order) >= 2
         \/ state'.status = "completed" /\ KazhuthaSound(state')
  BY <1>7, <1>8, ResolveKeeps
<1>10. CASE state'.status = "playing"
  <2>1. state'.turnIndex = 0 /\ Len(state'.order) >= 2
    BY <1>7, <1>9, <1>10
  <2>2. state'.turnIndex < Len(state'.order)
    <3>1. Len(state'.order) \in Nat
      BY <1>9, LinedFields
    <3> QED BY <2>1, <3>1
  <2> QED BY <1>7, <1>9, <1>10, <2>1, <2>2 DEF KazhuthaSound
<1>11. CASE state'.status # "playing"
  BY <1>7, <1>9, <1>11
<1> QED BY <1>10, <1>11

\* A draw loses no card and copies none.
LEMMA DrawMatches ==
  ASSUME NEW hands \in [KPlayers -> SUBSET Cards], Matched(hands),
         NEW target \in KPlayers, NEW player \in KPlayers, target # player,
         NEW card \in hands[target]
  PROVE  LET after == KazhuthaGame!Drawn(hands, target, player, card)
         IN  after \in [KPlayers -> SUBSET Cards] /\ Matched(after)
<1> DEFINE after == KazhuthaGame!Drawn(hands, target, player, card)
<1>1. card \in Cards
  OBVIOUS
<1>2. /\ after \in [KPlayers -> SUBSET Cards]
      /\ \A q \in KPlayers : after[q] =
            IF q = target THEN hands[q] \ {card}
            ELSE IF q = player THEN IF card \in hands[q] THEN hands[q] \ {card}
                                                        ELSE hands[q] \cup {card}
            ELSE hands[q]
  BY <1>1 DEF KazhuthaGame!Drawn, KazhuthaGame!LayPairs
<1> HIDE DEF after
<1>3. \A r : r # card => Holding(after, r) = Holding(hands, r)
  BY <1>2 DEF Holding
<1>4. Holding(after, card) = IF card \in hands[player]
                             THEN (Holding(hands, card) \ {target}) \ {player}
                             ELSE (Holding(hands, card) \ {target}) \cup {player}
  BY <1>2 DEF Holding
<1> DEFINE H == Holding(hands, card)
<1>5. IsFiniteSet(H) /\ Cardinality(H) \in Nat /\ target \in H
  <2>1. H \in SUBSET KPlayers /\ target \in H
    BY DEF Holding
  <2>2. IsFiniteSet(H)
    BY <2>1, KazhuthaFacts, FS_Subset
  <2> QED BY <2>1, <2>2, FS_CardinalityType
<1>6. IsFiniteSet(H \ {target}) /\ Cardinality(H \ {target}) = Cardinality(H) - 1
  BY <1>5, FS_RemoveElement
<1>7. player \in H <=> card \in hands[player]
  BY DEF Holding
<1>8. CASE card \in hands[player]
  <2>1. player \in H \ {target}
    BY <1>7, <1>8
  <2>2. Cardinality((H \ {target}) \ {player}) = Cardinality(H \ {target}) - 1
    BY <1>6, <2>1, FS_RemoveElement
  <2>3. Cardinality(Holding(after, card)) = Cardinality(H) - 2
    BY <1>4, <1>5, <1>6, <1>8, <2>2
  <2>4. card # Donkey
    <3>1. \A x : {x} # {target, player} \/ target = player
      OBVIOUS
    <3>2. CASE card = Donkey
      <4>1. PICK x : H = {x}
        BY <1>5, <3>2, FS_Singleton DEF Matched
      <4> QED BY <1>5, <2>1, <4>1
    <3> QED BY <3>2
  <2>5. card \in Ranks /\ Cardinality(H) % 2 = 0
    BY <1>1, <2>4 DEF Cards, Matched
  <2>6. (Cardinality(H) - 2) % 2 = 0
    BY <1>5, <2>5
  <2>7. \A x \in Ranks : Cardinality(Holding(after, x)) % 2 = 0
    <3> SUFFICES ASSUME NEW x \in Ranks PROVE Cardinality(Holding(after, x)) % 2 = 0
      OBVIOUS
    <3>1. CASE x = card
      BY <2>3, <2>6, <3>1
    <3>2. CASE x # card
      <4>1. Holding(after, x) = Holding(hands, x)
        BY <1>3, <3>2
      <4> QED BY <4>1 DEF Matched
    <3> QED BY <3>1, <3>2
  <2>8. Cardinality(Holding(after, Donkey)) = 1
    <3>1. Holding(after, Donkey) = Holding(hands, Donkey)
      BY <1>3, <2>4
    <3> QED BY <3>1 DEF Matched
  <2>9. Matched(after)
    BY <2>7, <2>8 DEF Matched
  <2> QED BY <1>2, <2>9 DEF after
<1>9. CASE card \notin hands[player]
  <2>1. player \notin H \ {target}
    BY <1>7, <1>9
  <2>2. Cardinality((H \ {target}) \cup {player}) = Cardinality(H \ {target}) + 1
    BY <1>6, <2>1, FS_AddElement
  <2>3. Cardinality(Holding(after, card)) = Cardinality(H)
    BY <1>4, <1>5, <1>6, <1>9, <2>2
  <2>4. \A x : Cardinality(Holding(after, x)) = Cardinality(Holding(hands, x))
    BY <1>3, <2>3
  <2>5. Matched(after)
    BY <2>4 DEF Matched
  <2> QED BY <1>2, <2>5 DEF after
<1> QED BY <1>8, <1>9

\* A draw, with all that follows from it, keeps the match sound.
LEMMA KazhuthaDraws ==
  ASSUME KazhuthaSound(state), NEW player \in KPlayers, NEW target \in KPlayers,
         KazhuthaGame!Draw(player, target)
  PROVE  /\ KazhuthaSound(state') /\ ToSet(state'.order) \subseteq ToSet(state.order)
         /\ state'.status \in {"playing", "completed"}
<1>1. /\ state.status = "playing" /\ Turn(state) = player /\ target # player
      /\ Contains(state.order, target) /\ state.hands[target] # {}
  BY SameKazhutha DEF KazhuthaGame!Draw, KazhuthaGame!MayDraw, RequireTurn
<1>2. /\ Lined(state) /\ Matched(state.hands)
      /\ \A p \in ToSet(state.order) : state.hands[p] # {}
      /\ state.turnIndex < Len(state.order)
  BY <1>1 DEF KazhuthaSound
<1>3. /\ state.hands \in [KPlayers -> SUBSET Cards] /\ ToSet(state.order) \subseteq KPlayers
      /\ ToSet(state.order) = {state.order[i] : i \in 1 .. Len(state.order)}
      /\ state.order \in Seq(KPlayers) /\ Len(state.order) \in Nat /\ state.turnIndex \in Nat
  BY <1>2, LinedFields
<1>4. player \in ToSet(state.order)
  <2>1. Rotation(state.order, KPlayers) /\ state.turnIndex \in 0 .. Len(state.order) - 1
    BY <1>2, <1>3 DEF Lined
  <2> QED BY <1>1, <2>1, TurnIs
<1>5. target \in ToSet(state.order)
  BY <1>1, <1>3 DEF Contains
<1> DEFINE drawn(card) == [state EXCEPT !.hands = KazhuthaGame!Drawn(state.hands, target, player, card)]
           first(card) == KazhuthaGame!RetireIfEmpty(drawn(card), target)
           second(card) == KazhuthaGame!RetireIfEmpty(first(card), player)
           settled(card) == KazhuthaGame!Resolve(second(card))
<1>6. PICK card \in state.hands[target] :
        state' = IF settled(card).status = "playing"
                 THEN KazhuthaGame!AdvanceFrom(settled(card), player) ELSE settled(card)
  BY Zenon DEF KazhuthaGame!Draw
<1> DEFINE hands == KazhuthaGame!Drawn(state.hands, target, player, card)
           d == drawn(card)
           f == first(card)
           s == second(card)
           r == settled(card)
<1>7. hands \in [KPlayers -> SUBSET Cards] /\ Matched(hands)
  BY <1>1, <1>2, <1>3, DrawMatches
<1>8. \A q \in KPlayers : q # target /\ q # player => hands[q] = state.hands[q]
  BY <1>3 DEF KazhuthaGame!Drawn
<1> HIDE DEF hands
<1>9. /\ d \in KazhuthaMatch /\ d.order = state.order /\ d.finishOrder = state.finishOrder
      /\ d.turnIndex = state.turnIndex /\ d.status = "playing" /\ d.hands = hands
  <2>1. d = [state EXCEPT !.hands = hands]
    BY DEF hands
  <2> QED BY <1>1, <1>2, <1>7, <2>1 DEF Lined, KazhuthaMatch
<1>10. f = KazhuthaGame!RetireIfEmpty(d, target) /\ s = KazhuthaGame!RetireIfEmpty(f, player)
       /\ r = KazhuthaGame!Resolve(s)
       /\ state' = IF r.status = "playing" THEN KazhuthaGame!AdvanceFrom(r, player) ELSE r
  BY <1>6
<1> HIDE DEF d, f, s, r, drawn, first, second, settled
<1>11. Lined(d)
  <2>1. \A q \in ToSet(d.finishOrder) : d.hands[q] = {}
    <3>1. \A q \in ToSet(d.finishOrder) : q \in KPlayers \ ToSet(state.order)
      BY <1>2, <1>9 DEF Lined
    <3>2. \A q \in ToSet(d.finishOrder) : q # target /\ q # player /\ state.hands[q] = {}
      BY <1>2, <1>4, <1>5, <1>9, <3>1 DEF Lined
    <3> QED BY <1>8, <1>9, <3>1, <3>2
  <2> QED BY <1>2, <1>9, <2>1 DEF Lined
<1>12. /\ Lined(f) /\ f.hands = hands /\ f.status = "playing"
       /\ ToSet(f.order) = IF hands[target] = {} THEN ToSet(state.order) \ {target}
                           ELSE ToSet(state.order)
  <2>1. /\ Lined(f) /\ f.hands = d.hands /\ f.status = d.status
        /\ ToSet(f.order) = IF d.hands[target] = {} THEN ToSet(d.order) \ {target}
                            ELSE ToSet(d.order)
    BY <1>10, <1>11, RetireKeeps
  <2> QED BY <1>9, <2>1
<1>13. /\ Lined(s) /\ s.hands = hands /\ s.status = "playing"
       /\ ToSet(s.order) = IF hands[player] = {} THEN ToSet(f.order) \ {player}
                           ELSE ToSet(f.order)
  <2>1. /\ Lined(s) /\ s.hands = f.hands /\ s.status = f.status
        /\ ToSet(s.order) = IF f.hands[player] = {} THEN ToSet(f.order) \ {player}
                            ELSE ToSet(f.order)
    BY <1>10, <1>12, RetireKeeps
  <2> QED BY <1>12, <2>1
<1>14. ToSet(s.order) \subseteq ToSet(state.order)
  BY <1>12, <1>13
<1>15. \A q \in ToSet(s.order) : s.hands[q] # {}
  <2> SUFFICES ASSUME NEW q \in ToSet(s.order) PROVE hands[q] # {}
    BY <1>13
  <2>1. q \in ToSet(state.order) /\ q \in KPlayers
    BY <1>3, <1>14
  <2>2. CASE q = target
    BY <1>12, <1>13, <2>2
  <2>3. CASE q = player
    BY <1>13, <2>3
  <2>4. CASE q # target /\ q # player
    BY <1>2, <1>8, <2>1, <2>4
  <2> QED BY <2>2, <2>3, <2>4
<1>16. /\ Lined(r) /\ Matched(r.hands) /\ r.order = s.order /\ r.hands = s.hands
       /\ \/ r.status = "playing" /\ Len(r.order) >= 2
          \/ r.status = "completed" /\ KazhuthaSound(r)
  BY <1>7, <1>10, <1>13, <1>15, ResolveKeeps
<1>17. CASE r.status = "playing"
  <2>1. state' = KazhuthaGame!AdvanceFrom(r, player) /\ Len(r.order) >= 2
    BY <1>10, <1>16, <1>17
  <2>2. /\ Lined(state') /\ state'.turnIndex < Len(state'.order) /\ state'.order = r.order
        /\ state'.hands = r.hands /\ state'.status = r.status
    BY <1>16, <2>1, AdvanceKeeps
  <2>3. \A q \in ToSet(state'.order) : state'.hands[q] # {}
    BY <1>15, <1>16, <2>2
  <2>4. Matched(state'.hands) /\ state'.status = "playing" /\ Len(state'.order) >= 2
    BY <1>16, <1>17, <2>1, <2>2
  <2>5. ToSet(state'.order) \subseteq ToSet(state.order)
    BY <1>14, <1>16, <2>2
  <2> QED BY <2>2, <2>3, <2>4, <2>5 DEF KazhuthaSound
<1>18. CASE r.status # "playing"
  <2>1. state' = r /\ KazhuthaSound(r) /\ r.status = "completed"
    BY <1>10, <1>16, <1>18
  <2> QED BY <1>14, <1>16, <2>1
<1> QED BY <1>17, <1>18

\* A match of Kazhutha is created sound, and waits.
LEMMA KazhuthaBegins ==
  ASSUME KazhuthaGame!Init
  PROVE  KazhuthaSound(state) /\ state.status = "waiting"
<1>1. PICK order \in SetToSeqs(KPlayers), hands \in KazhuthaGame!Hands :
        state = [status |-> "waiting", order |-> order, turnIndex |-> 0,
                 hands |-> hands, finishOrder |-> << >>, loser |-> NoOne]
  <2>1. PICK match \in CreateMatch(KazhuthaSeats) : \E hands \in KazhuthaGame!Hands :
          state = [status |-> match.status, order |-> match.order,
                   turnIndex |-> match.turnIndex,
                   hands |-> hands, finishOrder |-> << >>, loser |-> NoOne]
    BY SameKazhutha DEF KazhuthaGame!Init, KazhuthaGame!Create
  <2>2. PICK order \in SetToSeqs(KPlayers) :
          match = [status |-> "waiting", order |-> order, turnIndex |-> 0]
    BY DEF CreateMatch, KPlayers
  <2> QED BY <2>1, <2>2
<1>2. hands \in [KPlayers -> SUBSET Cards] /\ Matched(hands)
  BY KazhuthaFacts, SameKazhutha
     DEF KazhuthaGame!Hands, KazhuthaGame!Even, Matched, Cards
<1>3. Rotation(order, KPlayers) /\ ToSet(order) = KPlayers
  BY KazhuthaFacts, SeqsAreRotations
<1>4. order \in Seq(KPlayers) /\ Len(order) \in Nat
  BY <1>3 DEF Rotation
<1> HIDE DEF KPlayers
<1>5. << >> \in Seq(KPlayers) /\ Rotation(<< >>, KPlayers) /\ ToSet(<< >>) = {}
  <2>1. << >> \in Seq(KPlayers) /\ Len(<< >>) = 0
    OBVIOUS
  <2>2. ToSet(<< >>) = {}
    <3>1. DOMAIN << >> = {}
      BY <2>1
    <3> QED BY <3>1 DEF ToSet
  <2> QED BY <2>1, <2>2 DEF Rotation
<1>6. /\ state \in KazhuthaMatch /\ state.order = order /\ state.finishOrder = << >>
      /\ state.turnIndex = 0 /\ state.hands = hands /\ state.status = "waiting"
  BY <1>1, <1>2, <1>4, <1>5 DEF KazhuthaMatch
<1>7. Lined(state)
  BY <1>3, <1>4, <1>5, <1>6 DEF Lined
<1> QED BY <1>2, <1>6, <1>7 DEF KazhuthaSound

\* Out stays out, and a match goes forward.
KazhuthaStep ==
    /\ KazhuthaSound(state')
    /\ ToSet(state'.order) \subseteq ToSet(state.order)
    /\ state.status \in {"waiting", "playing"}
    /\ state'.status \in {"playing", "completed"}

\* Every step of Kazhutha keeps it sound and goes forward.
LEMMA KazhuthaNext == ASSUME KazhuthaSound(state), KazhuthaGame!Next PROVE KazhuthaStep
<1>1. CASE KazhuthaGame!Start
  <2>1. state.status = "waiting"
    BY <1>1 DEF KazhuthaGame!Start
  <2> QED BY <1>1, <2>1, KazhuthaStarts DEF KazhuthaStep
<1>2. ASSUME NEW player \in KPlayers, NEW target \in KPlayers,
             KazhuthaGame!Draw(player, target)
      PROVE  KazhuthaStep
  <2>1. state.status = "playing"
    BY <1>2, SameKazhutha DEF KazhuthaGame!Draw, KazhuthaGame!MayDraw, RequireTurn
  <2> QED BY <1>2, <2>1, KazhuthaDraws DEF KazhuthaStep
<1> QED BY <1>1, <1>2, KazhuthaFacts DEF KazhuthaGame!Next

\* While it is played the turn is somebody's who is in, and somebody else is.
LEMMA KazhuthaTurn ==
  ASSUME NEW m, KazhuthaSound(m), m.status = "playing"
  PROVE  Turn(m) \in ToSet(m.order) /\ \E q \in ToSet(m.order) : q # Turn(m)
<1>1. /\ Rotation(m.order, KPlayers) /\ Len(m.order) \in Nat /\ m.turnIndex \in Nat
      /\ Len(m.order) >= 2 /\ m.turnIndex < Len(m.order)
      /\ ToSet(m.order) = {m.order[i] : i \in 1 .. Len(m.order)}
  BY LinedFields DEF KazhuthaSound, Lined
<1>2. Turn(m) \in ToSet(m.order)
  BY <1>1, TurnIs
<1>3. 1 \in 1 .. Len(m.order) /\ 2 \in 1 .. Len(m.order) /\ m.order[1] # m.order[2]
  BY <1>1 DEF Rotation
<1> QED BY <1>1, <1>2, <1>3

\* What the invariant says in the words of the module.
LEMMA KazhuthaSays ==
  ASSUME KazhuthaSound(state)
  PROVE  KazhuthaGame!CanAct /\ KazhuthaGame!DeckIsWhole /\ KazhuthaGame!FairlyLost
<1>1. KazhuthaGame!CanAct
  <2> SUFFICES ASSUME state.status = "playing"
               PROVE  \E player, target \in KPlayers : KazhuthaGame!MayDraw(player, target)
    BY KazhuthaFacts DEF KazhuthaGame!CanAct
  <2>1. Turn(state) \in ToSet(state.order) /\ \E q \in ToSet(state.order) : q # Turn(state)
    BY KazhuthaTurn
  <2>2. PICK q \in ToSet(state.order) : q # Turn(state)
    BY <2>1
  <2>3. /\ ToSet(state.order) \subseteq KPlayers
        /\ ToSet(state.order) = {state.order[i] : i \in 1 .. Len(state.order)}
    BY LinedFields DEF KazhuthaSound
  <2>a. DOMAIN state.order = 1 .. Len(state.order)
    <3>1. state.order \in Seq(KPlayers)
      BY LinedFields DEF KazhuthaSound
    <3> QED BY <3>1
  <2>4. Contains(state.order, q) /\ state.hands[q] # {}
    BY <2>3, <2>a DEF KazhuthaSound, Contains
  <2>5. KazhuthaGame!MayDraw(Turn(state), q)
    BY <2>2, <2>4, SameKazhutha DEF KazhuthaGame!MayDraw, RequireTurn
  <2> QED BY <2>1, <2>3, <2>5
<1>2. KazhuthaGame!DeckIsWhole
  BY KazhuthaFacts, SameKazhutha
     DEF KazhuthaSound, Matched, KazhuthaGame!DeckIsWhole, KazhuthaGame!Even
<1>3. KazhuthaGame!FairlyLost
  <2> SUFFICES ASSUME state.status = "completed"
               PROVE  /\ state.loser # NoOne /\ state.hands[state.loser] = {Donkey}
                      /\ ToSet(state.finishOrder) = KPlayers \ {state.loser}
                      /\ Len(state.finishOrder) = Cardinality(KPlayers) - 1
    BY KazhuthaFacts, SameKazhutha DEF KazhuthaGame!FairlyLost
  <2> DEFINE l == state.loser
  <2>1. /\ Lined(state) /\ Matched(state.hands) /\ ToSet(state.order) = {l} /\ l # NoOne
        /\ state.hands \in [KPlayers -> SUBSET Cards] /\ ToSet(state.order) \subseteq KPlayers
    BY LinedFields DEF KazhuthaSound
  <2>2. l \in KPlayers /\ ToSet(state.finishOrder) = KPlayers \ {l}
    BY <2>1 DEF Lined
  <2>3. \A q \in KPlayers \ {l} : state.hands[q] = {}
    BY <2>1, <2>2 DEF Lined
  <2> HIDE DEF l
  <2>4. Donkey \in state.hands[l]
    <3>1. \E p \in ToSet(state.order) : Holding(state.hands, Donkey) = {p}
      BY <2>1, SomebodyHolds
    <3> QED BY <2>1, <3>1 DEF Holding
  <2>5. ASSUME NEW r \in Ranks, r \in state.hands[l] PROVE FALSE
    <3>1. Holding(state.hands, r) = {l}
      BY <2>2, <2>3, <2>5 DEF Holding
    <3>2. Cardinality(Holding(state.hands, r)) = 1
      BY <3>1, FS_Singleton
    <3>3. 1 % 2 # 0
      OBVIOUS
    <3> QED BY <2>1, <3>2, <3>3 DEF Matched
  <2>6. state.hands[l] = {Donkey}
    BY <2>1, <2>2, <2>4, <2>5 DEF Cards
  <2>7. Len(state.finishOrder) = Cardinality(KPlayers) - 1
    <3>1. Cardinality(ToSet(state.finishOrder)) = Len(state.finishOrder)
      BY <2>1, RotationCounts DEF Lined
    <3>2. Cardinality(KPlayers \ {l}) = Cardinality(KPlayers) - 1
      BY <2>2, KazhuthaFacts, FS_RemoveElement
    <3> QED BY <2>2, <3>1, <3>2
  <2> QED BY <2>1, <2>2, <2>6, <2>7 DEF l
<1> QED BY <1>1, <1>2, <1>3

-----------------------------------------------------------------------------
(* Bluff Bar *)

\* What Bluff Bar takes from the modules above is what the registry takes.
LEMMA SameBluff ==
    /\ \A s : BluffBarGame!ToSet(s) = ToSet(s)
    /\ \A s, e : BluffBarGame!Contains(s, e) <=> Contains(s, e)
    /\ \A s, e : BluffBarGame!IndexOf(s, e) = IndexOf(s, e)
    /\ \A m : BluffBarGame!Turn(m) = Turn(m)
    /\ \A m, p : BluffBarGame!RequireTurn(m, p) <=> RequireTurn(m, p)
    /\ \A m : BluffBarGame!StartMatch(m) = StartMatch(m)
    /\ \A S : BluffBarGame!CreateMatch(S) = CreateMatch(S)
    /\ \A S : BluffBarGame!Cardinality(S) = Cardinality(S)
    /\ \A s, K : BluffBarGame!Filter(s, K) = Filter(s, K)
    /\ \A s, e : BluffBarGame!Without(s, e) = Without(s, e)
<1>1. \A s : BluffBarGame!ToSet(s) = ToSet(s)
  BY DEF BluffBarGame!ToSet, ToSet
<1>2. \A s, e : BluffBarGame!Contains(s, e) <=> Contains(s, e)
  BY DEF BluffBarGame!Contains, Contains
<1>3. \A s, e : BluffBarGame!IndexOf(s, e) = IndexOf(s, e)
  BY DEF BluffBarGame!IndexOf, IndexOf, BluffBarGame!Contains, Contains
<1>4. \A m : BluffBarGame!Turn(m) = Turn(m)
  BY DEF BluffBarGame!Turn, Turn
<1>6. \A m, p : BluffBarGame!RequireTurn(m, p) <=> RequireTurn(m, p)
  BY <1>4 DEF BluffBarGame!RequireTurn, RequireTurn
<1>7. \A m : BluffBarGame!StartMatch(m) = StartMatch(m)
  BY DEF BluffBarGame!StartMatch, StartMatch
<1>8. \A S : BluffBarGame!SetToSeqs(S) = SetToSeqs(S)
  BY DEF BluffBarGame!SetToSeqs, SetToSeqs, BluffBarGame!Cardinality, Cardinality
<1>9. \A S : BluffBarGame!CreateMatch(S) = CreateMatch(S)
  BY <1>1, <1>8 DEF BluffBarGame!CreateMatch, CreateMatch
<1>10. \A S : BluffBarGame!Cardinality(S) = Cardinality(S)
  BY DEF BluffBarGame!Cardinality, Cardinality
<1>12. \A s, K : BluffBarGame!Filter(s, K) = Filter(s, K)
  BY DEF BluffBarGame!Filter, Filter
<1>13. \A s, e : BluffBarGame!Without(s, e) = Without(s, e)
  BY <1>1, <1>12 DEF BluffBarGame!Without, Without
<1> QED BY <1>1, <1>2, <1>3, <1>4, <1>6, <1>7, <1>9, <1>10, <1>12, <1>13

BPlayers == ToSet(BluffSeats)

Alive(m) == BluffBarGame!Alive(m)

Size(hand) == hand.true + hand.false

\* As many cards as f counts in the hands of S.
OneByOne(f, S) == {card \in S \X (1 .. HandSize) : card[2] <= f[card[1]]}

\* The table, as assumed.
LEMMA BluffFacts ==
    /\ BluffSeats \in Seq(BPlayers) /\ Rotation(BluffSeats, BPlayers)
    /\ IsFiniteSet(BPlayers) /\ Cardinality(BPlayers) = Len(BluffSeats)
    /\ Len(BluffSeats) \in Nat /\ Len(BluffSeats) >= 2
    /\ NoOne \notin BPlayers
    /\ HandSize \in Nat \ {0} /\ TraySize \in Nat \ {0}
    /\ BluffBarGame!Players = BPlayers
    /\ \A m : Alive(m) = Filter(BluffSeats, BPlayers \ ToSet(m.eliminated))
    /\ \A f, S : BluffBarGame!SumOf(f, S) = Cardinality(OneByOne(f, S))
    /\ \A h : BluffBarGame!Size(h) = Size(h)
<1>1. BluffBarGame!BarAssumption
  BY GamesAssumption DEF GamesAssumption
<1>2. BluffBarGame!Players = BPlayers
  BY SameBluff DEF BluffBarGame!Players, BPlayers
<1>3. /\ BluffSeats \in Seq(BPlayers)
      /\ \A i, j \in DOMAIN BluffSeats : BluffSeats[i] = BluffSeats[j] => i = j
      /\ Len(BluffSeats) >= 2 /\ NoOne \notin BPlayers
      /\ HandSize \in Nat \ {0} /\ TraySize \in Nat \ {0}
  BY <1>1, <1>2 DEF BluffBarGame!BarAssumption
<1>4. Rotation(BluffSeats, BPlayers)
  <2>1. DOMAIN BluffSeats = 1 .. Len(BluffSeats)
    BY <1>3
  <2> QED BY <1>3, <2>1 DEF Rotation
<1>5. /\ IsFiniteSet(BPlayers) /\ Cardinality(BPlayers) = Len(BluffSeats)
      /\ Len(BluffSeats) \in Nat
  BY <1>4, RotationCounts DEF BPlayers
<1>6. \A m : Alive(m) = Filter(BluffSeats, BPlayers \ ToSet(m.eliminated))
  BY <1>2, SameBluff DEF Alive, BluffBarGame!Alive
<1>7. \A f, S : BluffBarGame!SumOf(f, S) = Cardinality(OneByOne(f, S))
  BY SameBluff DEF BluffBarGame!SumOf, OneByOne
<1>8. \A h : BluffBarGame!Size(h) = Size(h)
  BY DEF BluffBarGame!Size, Size
<1> QED BY <1>2, <1>3, <1>4, <1>5, <1>6, <1>7, <1>8

\* Cards in hands are finitely many.
LEMMA CardsAreCounted ==
  ASSUME NEW f, NEW S, IsFiniteSet(S)
  PROVE  IsFiniteSet(OneByOne(f, S)) /\ Cardinality(OneByOne(f, S)) \in Nat
<1>1. IsFiniteSet(1 .. HandSize)
  <2>1. 1 \in Int /\ HandSize \in Int
    BY BluffFacts
  <2> QED BY <2>1, FS_Interval
<1>2. IsFiniteSet(S \X (1 .. HandSize))
  BY <1>1, FS_Product
<1>3. OneByOne(f, S) \in SUBSET (S \X (1 .. HandSize))
  BY DEF OneByOne
<1>4. IsFiniteSet(OneByOne(f, S))
  BY <1>2, <1>3, FS_Subset
<1> QED BY <1>4, FS_CardinalityType

\* k cards less in one hand are k cards less in all.
LEMMA CardsGoDown ==
  ASSUME NEW S, IsFiniteSet(S), NEW f \in [S -> 0 .. HandSize], NEW p \in S,
         NEW k \in 0 .. f[p], NEW g \in [S -> 0 .. HandSize],
         \A q \in S : g[q] = IF q = p THEN f[p] - k ELSE f[q]
  PROVE  Cardinality(OneByOne(g, S)) = Cardinality(OneByOne(f, S)) - k
<1> DEFINE low == f[p] - k + 1
           block == {p} \X (low .. f[p])
<1>1. /\ f[p] \in Nat /\ f[p] <= HandSize /\ k \in Nat /\ k <= f[p] /\ HandSize \in Nat
      /\ low \in Nat /\ low >= 1
  BY BluffFacts
<1>2. IsFiniteSet(block) /\ Cardinality(block) = k
  <2>1. IsFiniteSet(low .. f[p]) /\ Cardinality(low .. f[p]) = k
    <3>1. low \in Int /\ f[p] \in Int
      BY <1>1
    <3>2. /\ IsFiniteSet(low .. f[p])
          /\ Cardinality(low .. f[p]) = IF low > f[p] THEN 0 ELSE f[p] - low + 1
      <4> HIDE DEF low
      <4> QED BY <3>1, FS_Interval
    <3> QED BY <1>1, <3>2
  <2>2. IsFiniteSet({p}) /\ Cardinality({p}) = 1
    BY FS_Singleton
  <2>3. IsFiniteSet(block) /\ Cardinality(block) = 1 * k
    BY <2>1, <2>2, FS_Product
  <2> QED BY <1>1, <2>3
<1>3. OneByOne(f, S) \cap block = block
  <2> SUFFICES ASSUME NEW c \in block PROVE c \in OneByOne(f, S)
    OBVIOUS
  <2>1. c[1] = p /\ c[2] \in low .. f[p] /\ c = <<c[1], c[2]>>
    OBVIOUS
  <2>2. c[2] \in 1 .. HandSize /\ c[2] <= f[c[1]]
    BY <1>1, <2>1
  <2> QED BY <2>1, <2>2 DEF OneByOne
<1>4. OneByOne(g, S) = OneByOne(f, S) \ block
  <2>1. ASSUME NEW c \in S \X (1 .. HandSize)
        PROVE  c[2] <= g[c[1]] <=> c[2] <= f[c[1]] /\ c \notin block
    <3>1. c[1] \in S /\ c[2] \in 1 .. HandSize /\ c = <<c[1], c[2]>>
      OBVIOUS
    <3>2. c \in block <=> c[1] = p /\ c[2] \in low .. f[p]
      BY <3>1
    <3>3. f[c[1]] \in 0 .. HandSize
      BY <3>1
    <3> HIDE DEF block
    <3>4. CASE c[1] = p
      BY <1>1, <3>1, <3>2, <3>4
    <3>5. CASE c[1] # p
      BY <3>1, <3>2, <3>5
    <3> QED BY <3>4, <3>5
  <2> HIDE DEF block
  <2> QED BY <2>1 DEF OneByOne
<1> HIDE DEF block
<1>5. Cardinality(OneByOne(g, S)) = Cardinality(OneByOne(f, S)) - Cardinality(block)
  <2>1. IsFiniteSet(OneByOne(f, S))
    BY CardsAreCounted
  <2>2. Cardinality(OneByOne(f, S) \ block)
          = Cardinality(OneByOne(f, S)) - Cardinality(OneByOne(f, S) \cap block)
    BY <2>1, FS_Difference
  <2> QED BY <1>3, <1>4, <2>2
<1> QED BY <1>2, <1>5

BarHands == [true : 0 .. HandSize, false : 0 .. HandSize]

BarMatch ==
  [status : {"waiting", "playing", "completed"}, order : Seq(BPlayers), turnIndex : Nat,
   hands : [BPlayers -> BarHands], glasses : [BPlayers -> Nat],
   eliminated : Seq(BPlayers), supply : Nat, pile : Seq(BOOLEAN),
   lastClaim : [by : BPlayers \cup {NoOne}, count : Nat], winners : SUBSET BPlayers]

Standing(m) == BPlayers \ ToSet(m.eliminated)

HonestCards(m) == Cardinality(OneByOne([p \in BPlayers |-> m.hands[p].true], BPlayers))
HeldCards(m) == Cardinality(OneByOne([p \in BPlayers |-> Size(m.hands[p])], BPlayers))
HonestDown(m) == Cardinality({i \in DOMAIN m.pile : m.pile[i]})

Seated(m) ==
    /\ m \in BarMatch
    /\ Rotation(m.eliminated, BPlayers)
    /\ \A p \in Standing(m) : m.glasses[p] > 0

\* A round that goes on: whoever is on turn holds cards, a claim is by somebody
\* still at the table, and the shoe is all there.
Dealt(m) ==
    /\ m.order = Alive(m) /\ Len(Alive(m)) >= 2
    /\ m.turnIndex \in 0 .. Len(m.order) - 1
    /\ \A p \in BPlayers : Size(m.hands[p]) <= HandSize
    /\ Size(m.hands[Turn(m)]) > 0
    /\ m.lastClaim.by \in Standing(m) \cup {NoOne}
    /\ HonestCards(m) + HonestDown(m) = m.supply
    /\ HeldCards(m) + Len(m.pile) = HandSize * Len(Alive(m))

BluffSound(m) ==
    /\ Seated(m)
    /\ m.status = "waiting" => m.eliminated = << >>
    /\ m.status = "playing" => Dealt(m)
    /\ m.status = "completed" => m.winners = Standing(m) /\ Cardinality(m.winners) = 1

\* The drinkers still standing are a rotation of their own.
LEMMA AliveIs ==
  ASSUME NEW m, m.eliminated \in Seq(BPlayers)
  PROVE  /\ Rotation(Alive(m), BPlayers) /\ ToSet(Alive(m)) = Standing(m)
         /\ Len(Alive(m)) \in Nat /\ Len(Alive(m)) = Cardinality(Standing(m))
         /\ Alive(m) \in Seq(BPlayers)
<1> DEFINE a == Alive(m)
           keep == BPlayers \ ToSet(m.eliminated)
<1>1. a = Filter(BluffSeats, keep)
  BY BluffFacts
<1>2. BluffSeats \in Seq(BPlayers) /\ BPlayers = {BluffSeats[i] : i \in 1 .. Len(BluffSeats)}
  BY BluffFacts, ToSetIs DEF BPlayers
<1> HIDE DEF a, keep
<1>3. /\ a \in Seq(BPlayers)
      /\ \A e : (\E i \in 1 .. Len(a) : a[i] = e)
                  <=> e \in keep /\ \E i \in 1 .. Len(BluffSeats) : BluffSeats[i] = e
  <2>1. BluffSeats \in Seq(BPlayers)
    BY <1>2
  <2> QED BY <1>1, <2>1, FilterKeeps
<1>4. \A i, j \in 1 .. Len(a) : a[i] = a[j] => i = j
  <2>1. \A i, j \in 1 .. Len(BluffSeats) : BluffSeats[i] = BluffSeats[j] => i = j
    BY BluffFacts DEF Rotation
  <2> QED BY <1>1, <1>2, <2>1, FilterInjects
<1>5. Rotation(a, BPlayers)
  BY <1>3, <1>4 DEF Rotation
<1>6. ToSet(a) = {a[i] : i \in 1 .. Len(a)}
  BY <1>3, ToSetIs
<1>7. ToSet(a) = Standing(m)
  <2>1. \A e : e \in ToSet(a) <=> e \in keep
    BY <1>2, <1>3, <1>6 DEF keep
  <2> QED BY <2>1 DEF keep, Standing
<1>8. Len(a) \in Nat /\ Cardinality(ToSet(a)) = Len(a)
  BY <1>5, RotationCounts
<1> QED BY <1>3, <1>5, <1>6, <1>7, <1>8 DEF a

\* A fresh shoe is dealt out whole, and whoever leads holds a full hand.
LEMMA FreshRound ==
  ASSUME NEW m, Seated(m), m.status = "playing", Len(Alive(m)) >= 2, NEW lead,
         NEW n \in BluffBarGame!Deal(m, lead)
  PROVE  BluffSound(n) /\ n.status = "playing" /\ n.eliminated = m.eliminated
<1>0. PICK alive : alive = Alive(m)
  OBVIOUS
<1> DEFINE first == IF Contains(alive, lead) THEN lead ELSE alive[1]
           hands(honest) == [p \in BPlayers |->
                               IF Contains(alive, p)
                               THEN [true |-> honest[p], false |-> HandSize - honest[p]]
                               ELSE [true |-> 0, false |-> 0]]
           turn == IndexOf(alive, first)
           unclaimed == [by |-> NoOne, count |-> 0]
<1>1. /\ Rotation(alive, BPlayers) /\ ToSet(alive) = Standing(m) /\ Len(alive) \in Nat
      /\ Len(alive) = Cardinality(Standing(m)) /\ alive \in Seq(BPlayers)
      /\ m \in BarMatch
  <2>1. m.eliminated \in Seq(BPlayers)
    BY DEF Seated, BarMatch
  <2> QED BY <1>0, <2>1, AliveIs DEF Seated
<1>s. PICK size \in Nat : size = Len(alive) /\ size >= 2 /\ ~(size <= 1)
  BY <1>0, <1>1
<1>e. Standing(m) = {alive[i] : i \in 1 .. Len(alive)}
  BY <1>1, ToSetIs
<1>2. \A p : Contains(alive, p) <=> p \in Standing(m)
  <2>1. DOMAIN alive = 1 .. Len(alive)
    BY <1>1
  <2> QED BY <1>e, <2>1 DEF Contains
<1> DEFINE a == BluffBarGame!Alive(m)
           head == IF BluffBarGame!Contains(a, lead) THEN lead ELSE a[1]
           dealing(honest) == [p \in BluffBarGame!Players |->
                                 IF BluffBarGame!Contains(a, p)
                                 THEN [true |-> honest[p], false |-> HandSize - honest[p]]
                                 ELSE BluffBarGame!Empty]
           round(honest, supply) ==
             [m EXCEPT !.hands = dealing(honest), !.supply = supply, !.pile = << >>,
                       !.lastClaim = unclaimed, !.order = a,
                       !.turnIndex = BluffBarGame!IndexOf(a, head)]
<1>3. PICK supply :
        \E honest \in BluffBarGame!Splits(BluffBarGame!ToSet(a), supply) : n = round(honest, supply)
  <2>1. ~(m.status # "playing") /\ ~(Len(BluffBarGame!Alive(m)) <= 1)
    BY <1>0, <1>s DEF Alive
  <2> DEFINE supplies == {BluffBarGame!Supply(Len(a), rank) : rank \in 1 .. NumRanks}
             rounds(supply) == {round(honest, supply) :
                                  honest \in BluffBarGame!Splits(BluffBarGame!ToSet(a), supply)}
  <2>2. n \in UNION {rounds(supply) : supply \in supplies}
    BY <2>1, Zenon DEF BluffBarGame!Deal
  <2> HIDE DEF supplies, round, a
  <2>3. PICK supply \in supplies : n \in rounds(supply)
    BY <2>2
  <2> QED BY <2>3
<1>4. PICK honest \in BluffBarGame!Splits(ToSet(alive), supply) :
        n = [m EXCEPT !.hands = hands(honest), !.supply = supply, !.pile = << >>,
                      !.lastClaim = unclaimed, !.order = alive, !.turnIndex = turn]
  <2>1. PICK honest \in BluffBarGame!Splits(BluffBarGame!ToSet(a), supply) :
          n = round(honest, supply)
    BY <1>3
  <2>2. a = alive /\ BluffBarGame!ToSet(a) = ToSet(alive)
    BY <1>0, SameBluff DEF Alive
  <2>3. \A p : BluffBarGame!Contains(a, p) <=> Contains(alive, p)
    BY <2>2, SameBluff
  <2>4. head = first
    BY <2>2, <2>3
  <2>5. BluffBarGame!IndexOf(a, head) = turn
    BY <2>2, <2>4, SameBluff
  <2>6. dealing(honest) = hands(honest)
    <3>1. BluffBarGame!Players = BPlayers
      BY BluffFacts
    <3> QED BY <2>3, <3>1 DEF BluffBarGame!Empty
  <2> HIDE DEF head, dealing, hands, first, turn, a
  <2> QED BY <2>1, <2>2, <2>5, <2>6
<1>5. honest \in [Standing(m) -> 0 .. HandSize]
      /\ Cardinality(OneByOne(honest, Standing(m))) = supply
  <2>1. /\ honest \in [Standing(m) -> 0 .. HandSize]
        /\ BluffBarGame!SumOf(honest, Standing(m)) = supply
    BY <1>1, <1>4 DEF BluffBarGame!Splits
  <2> QED BY <2>1, BluffFacts
<1> DEFINE h == hands(honest)
<1>6. /\ h \in [BPlayers -> BarHands]
      /\ \A p \in Standing(m) : h[p].true = honest[p] /\ Size(h[p]) = HandSize
      /\ \A p \in BPlayers \ Standing(m) : h[p].true = 0 /\ Size(h[p]) = 0
  <2>1. HandSize \in Nat
    BY BluffFacts
  <2>2. ASSUME NEW p \in Standing(m)
        PROVE  h[p] \in BarHands /\ h[p].true = honest[p] /\ Size(h[p]) = HandSize
    <3>1. p \in BPlayers
      BY DEF Standing
    <3>2. h[p] = [true |-> honest[p], false |-> HandSize - honest[p]]
      BY <1>2, <3>1
    <3>3. honest[p] \in 0 .. HandSize
      BY <1>5
    <3>4. PICK k \in 0 .. HandSize : k = honest[p]
      BY <3>3
    <3> HIDE DEF h
    <3>5. h[p] = [true |-> k, false |-> HandSize - k]
      BY <3>2, <3>4
    <3>6. HandSize - k \in 0 .. HandSize /\ k + (HandSize - k) = HandSize
      BY <2>1
    <3> QED BY <3>4, <3>5, <3>6 DEF BarHands, Size
  <2>3. \A p \in BPlayers \ Standing(m) : h[p] = [true |-> 0, false |-> 0]
    BY <1>2
  <2>4. DOMAIN h = BPlayers /\ h = [p \in BPlayers |-> h[p]]
    OBVIOUS
  <2> HIDE DEF h
  <2>5. \A p \in BPlayers : h[p] \in BarHands
    <3>1. \A p \in BPlayers \ Standing(m) : h[p] \in BarHands
      BY <2>1, <2>3 DEF BarHands
    <3> QED BY <2>2, <3>1
  <2>6. \A p \in Standing(m) : h[p].true = honest[p] /\ Size(h[p]) = HandSize
    BY <2>2
  <2>7. \A p \in BPlayers \ Standing(m) : h[p].true = 0 /\ Size(h[p]) = 0
    BY <2>3 DEF Size
  <2> QED BY <2>4, <2>5, <2>6, <2>7
<1>7. supply \in Nat
  <2>1. IsFiniteSet(Standing(m))
    <3>1. Standing(m) \in SUBSET BPlayers
      BY DEF Standing
    <3> QED BY <3>1, BluffFacts, FS_Subset
  <2> QED BY <1>5, <2>1, CardsAreCounted
<1>8. turn \in 0 .. Len(alive) - 1 /\ turn \in Nat
  <2>1. 1 \in 1 .. Len(alive)
    BY <1>s
  <2>2. \E i \in 1 .. Len(alive) : first = alive[i]
    BY <1>e, <1>2, <2>1
  <2>3. PICK i \in 1 .. Len(alive) : first = alive[i]
    BY <2>2
  <2> HIDE DEF first
  <2>4. IndexOf(alive, alive[i]) = i - 1
    BY <1>1, IndexFound
  <2> QED BY <1>1, <2>3, <2>4
<1> HIDE DEF h, hands, turn, first
<1>9. /\ n \in BarMatch /\ n.status = "playing" /\ n.hands = h /\ n.supply = supply
      /\ n.pile = << >> /\ n.lastClaim = unclaimed /\ n.order = alive /\ n.turnIndex = turn
      /\ n.eliminated = m.eliminated /\ n.glasses = m.glasses
  <2>1. << >> \in Seq(BOOLEAN) /\ unclaimed \in [by : BPlayers \cup {NoOne}, count : Nat]
    OBVIOUS
  <2> HIDE DEF unclaimed
  <2>2. n = [m EXCEPT !.hands = h, !.supply = supply, !.pile = << >>,
                      !.lastClaim = unclaimed, !.order = alive, !.turnIndex = turn]
    BY <1>4 DEF h
  <2> QED BY <1>1, <1>6, <1>7, <1>8, <2>1, <2>2 DEF BarMatch
<1>10. Alive(n) = alive /\ Standing(n) = Standing(m)
  BY <1>0, <1>9, BluffFacts DEF Standing
<1>11. Seated(n)
  BY <1>9, <1>10 DEF Seated
<1>12. Turn(n) \in Standing(n)
  <2>1. Rotation(n.order, BPlayers) /\ n.turnIndex \in 0 .. Len(n.order) - 1
    BY <1>1, <1>8, <1>9
  <2>2. Turn(n) \in ToSet(n.order)
    BY <2>1, TurnIs
  <2> QED BY <1>1, <1>9, <1>10, <2>2
<1>13. \A p \in BPlayers : Size(n.hands[p]) <= HandSize
  BY <1>6, <1>9, BluffFacts
<1>14. HonestCards(n) + HonestDown(n) = n.supply
  <2> DEFINE f == [p \in BPlayers |-> n.hands[p].true]
  <2>1. OneByOne(f, BPlayers) = OneByOne(honest, Standing(m))
    <3>1. Standing(m) \subseteq BPlayers
      BY DEF Standing
    <3>2. \A p \in BPlayers : f[p] = IF p \in Standing(m) THEN honest[p] ELSE 0
      BY <1>6, <1>9
    <3>3. \A i \in 1 .. HandSize : ~(i <= 0)
      BY BluffFacts
    <3> HIDE DEF f
    <3> QED BY <3>1, <3>2, <3>3 DEF OneByOne
  <2>2. HonestCards(n) = supply
    BY <1>5, <2>1 DEF HonestCards
  <2>3. HonestDown(n) = 0
    <3>1. {i \in DOMAIN n.pile : n.pile[i]} = {}
      BY <1>9
    <3> QED BY <3>1, FS_EmptySet DEF HonestDown
  <2> QED BY <1>7, <1>9, <2>2, <2>3
<1>15. HeldCards(n) + Len(n.pile) = HandSize * Len(Alive(n))
  <2> DEFINE f == [p \in BPlayers |-> Size(n.hands[p])]
  <2>1. OneByOne(f, BPlayers) = Standing(m) \X (1 .. HandSize)
    <3>1. Standing(m) \subseteq BPlayers
      BY DEF Standing
    <3>2. \A p \in BPlayers : f[p] = IF p \in Standing(m) THEN HandSize ELSE 0
      BY <1>6, <1>9
    <3>3. \A i \in 1 .. HandSize : ~(i <= 0) /\ i <= HandSize
      BY BluffFacts
    <3> HIDE DEF f
    <3> QED BY <3>1, <3>2, <3>3 DEF OneByOne
  <2>2. IsFiniteSet(1 .. HandSize) /\ Cardinality(1 .. HandSize) = HandSize
    <3>1. HandSize \in Nat \ {0} /\ 1 \in Int /\ HandSize \in Int
      BY BluffFacts
    <3>2. /\ IsFiniteSet(1 .. HandSize)
          /\ Cardinality(1 .. HandSize) = IF 1 > HandSize THEN 0 ELSE HandSize - 1 + 1
      BY <3>1, FS_Interval
    <3> QED BY <3>1, <3>2
  <2>3. IsFiniteSet(Standing(m))
    <3>1. Standing(m) \in SUBSET BPlayers
      BY DEF Standing
    <3> QED BY <3>1, BluffFacts, FS_Subset
  <2>4. Cardinality(OneByOne(f, BPlayers)) = Cardinality(Standing(m)) * HandSize
    BY <2>1, <2>2, <2>3, FS_Product
  <2>5. HeldCards(n) = Len(alive) * HandSize
    BY <1>1, <2>4 DEF HeldCards
  <2>6. Len(n.pile) = 0
    BY <1>9
  <2>7. Len(alive) * HandSize \in Nat /\ Len(alive) * HandSize = HandSize * Len(alive)
    BY <1>1, BluffFacts
  <2> QED BY <1>10, <2>5, <2>6, <2>7
<1>16. Size(n.hands[Turn(n)]) > 0
  BY <1>6, <1>9, <1>10, <1>12, BluffFacts
<1>17. n.lastClaim.by \in Standing(n) \cup {NoOne}
  BY <1>9
<1>18. n.turnIndex \in 0 .. Len(n.order) - 1 /\ n.order = Alive(n) /\ Len(Alive(n)) >= 2
  BY <1>0, <1>8, <1>9, <1>10
<1>19. Dealt(n)
  BY <1>13, <1>14, <1>15, <1>16, <1>17, <1>18 DEF Dealt
<1> QED BY <1>9, <1>11, <1>19 DEF BluffSound

\* Math.max of two.
LEMMA GreaterOfTwo ==
  ASSUME NEW a \in Int, NEW b \in Int, a <= b
  PROVE  BluffBarGame!Max({a, b}) = b
<1>1. b \in {a, b} /\ \A y \in {a, b} : b >= y
  OBVIOUS
<1>2. \A x \in {a, b} : (\A y \in {a, b} : x >= y) => x = b
  OBVIOUS
<1> QED BY <1>1, <1>2 DEF BluffBarGame!Max

\* A glass less, or a player less; with one left the match is over.
LEMMA PourKeeps ==
  ASSUME NEW m, Seated(m), m.status = "playing", Len(Alive(m)) >= 2,
         NEW p \in Standing(m), NEW n \in BluffBarGame!PourShot(m, p)
  PROVE  /\ Seated(n) /\ ToSet(m.eliminated) \subseteq ToSet(n.eliminated)
         /\ \/ n.status = "playing" /\ Len(Alive(n)) >= 2
            \/ n.status = "completed" /\ BluffSound(n)
<1>1. /\ m \in BarMatch /\ p \in BPlayers /\ m.glasses \in [BPlayers -> Nat]
      /\ m.eliminated \in Seq(BPlayers) /\ Rotation(m.eliminated, BPlayers)
      /\ m.order \in Seq(BPlayers) /\ p \notin ToSet(m.eliminated)
      /\ \A q \in Standing(m) : m.glasses[q] > 0
  BY DEF Seated, BarMatch, Standing
<1> DEFINE before == m.glasses[p]
           drunk == [m EXCEPT !.glasses[p] = before - 1]
           out == [drunk EXCEPT !.eliminated = Append(@, p), !.order = Without(@, p)]
<1>2. before \in Nat /\ before >= 1 /\ before - 1 \in Nat
  BY <1>1
<1>3. BluffBarGame!Max({1, m.glasses[p]}) = before
  BY <1>2, GreaterOfTwo
<1>4. n = BluffBarGame!Resolve(out) \/ (n = drunk /\ before # 1)
  <2>1. BluffBarGame!PourShot(m, p) =
          {BluffBarGame!Resolve(out)} \cup (IF before = 1 THEN {} ELSE {drunk})
    <3> HIDE DEF before
    <3>1. \A s, e : BluffBarGame!Without(s, e) = Without(s, e)
      BY SameBluff
    <3> QED BY <1>3, <3>1 DEF BluffBarGame!PourShot
  <2> HIDE DEF drunk, out, before
  <2> QED BY <2>1
<1>5. /\ drunk \in BarMatch /\ drunk.status = "playing" /\ drunk.eliminated = m.eliminated
      /\ drunk.order = m.order
      /\ drunk.glasses = [m.glasses EXCEPT ![p] = before - 1]
  BY <1>1, <1>2 DEF BarMatch
<1> HIDE DEF drunk, before
<1>6. CASE n = drunk /\ before # 1
  <2>1. Standing(n) = Standing(m) /\ Alive(n) = Alive(m)
    BY <1>5, <1>6, BluffFacts DEF Standing
  <2>2. before - 1 > 0
    BY <1>2, <1>6
  <2>3. \A q \in Standing(n) : n.glasses[q] > 0
    <3> SUFFICES ASSUME NEW q \in Standing(n) PROVE n.glasses[q] > 0
      OBVIOUS
    <3>1. q \in BPlayers
      BY DEF Standing
    <3> QED BY <1>1, <1>5, <1>6, <2>1, <2>2, <3>1
  <2>4. Seated(n)
    BY <1>1, <1>5, <1>6, <2>3 DEF Seated
  <2> QED BY <1>5, <1>6, <2>1, <2>4
<1>7. CASE n = BluffBarGame!Resolve(out)
  <2> DEFINE gone == Append(m.eliminated, p)
             left == Without(m.order, p)
  <2>1. Rotation(gone, BPlayers) /\ ToSet(gone) = ToSet(m.eliminated) \cup {p}
    BY <1>1, RotationGrows
  <2>2. gone \in Seq(BPlayers)
    BY <2>1 DEF Rotation
  <2>3. left \in Seq(BPlayers)
    BY <1>1, FilterKeeps DEF Without
  <2>4. out = [drunk EXCEPT !.eliminated = gone, !.order = left]
    BY <1>5
  <2> HIDE DEF gone, left, out
  <2>5. /\ out \in BarMatch /\ out.status = "playing" /\ out.eliminated = gone
        /\ out.glasses = drunk.glasses
    BY <1>5, <2>2, <2>3, <2>4 DEF BarMatch
  <2>6. Standing(out) = Standing(m) \ {p}
    BY <2>1, <2>5 DEF Standing
  <2>7. \A q \in Standing(out) : out.glasses[q] > 0
    <3> SUFFICES ASSUME NEW q \in Standing(out) PROVE out.glasses[q] > 0
      OBVIOUS
    <3>1. q \in Standing(m) /\ q # p
      BY <2>6
    <3> QED BY <1>1, <1>5, <2>5, <3>1
  <2>8. Seated(out)
    BY <2>1, <2>5, <2>7 DEF Seated
  <2>9. PICK k \in Nat : k = Len(Alive(out)) /\ k >= 1 /\ Cardinality(Standing(out)) = k
    <3>1. Len(Alive(m)) = Cardinality(Standing(m)) /\ Len(Alive(m)) \in Nat
      BY <1>1, AliveIs
    <3>2. out.eliminated \in Seq(BPlayers)
      BY <2>2, <2>5
    <3>3. Len(Alive(out)) = Cardinality(Standing(out)) /\ Len(Alive(out)) \in Nat
      BY <3>2, AliveIs
    <3>4. Cardinality(Standing(m) \ {p}) = Cardinality(Standing(m)) - 1
      <4>1. Standing(m) \in SUBSET BPlayers
        BY DEF Standing
      <4>2. IsFiniteSet(Standing(m))
        BY <4>1, BluffFacts, FS_Subset
      <4> QED BY <4>2, FS_RemoveElement
    <3> QED BY <2>6, <3>1, <3>3, <3>4
  <2>10. BluffBarGame!Alive(out) = Alive(out)
    BY DEF Alive
  <2>11. CASE k > 1
    <3>1. n = out /\ Len(Alive(out)) >= 2
      BY <1>7, <2>9, <2>10, <2>11 DEF BluffBarGame!Resolve
    <3> QED BY <2>1, <2>5, <2>8, <3>1
  <2>12. CASE ~(k > 1)
    <3>1. k = 1
      BY <2>9, <2>12
    <3> DEFINE won == Standing(out)
    <3>2. n = [out EXCEPT !.status = "completed", !.winners = won]
      <4>1. out.eliminated \in Seq(BPlayers)
        BY <2>2, <2>5
      <4>2. BluffBarGame!ToSet(Alive(out)) = won
        BY <4>1, AliveIs, SameBluff
      <4>3. ~(Len(Alive(out)) > 1)
        BY <2>9, <2>12
      <4> QED BY <1>7, <2>10, <4>2, <4>3 DEF BluffBarGame!Resolve
    <3>3. won \in SUBSET BPlayers
      BY DEF Standing
    <3> HIDE DEF won
    <3>4. /\ n \in BarMatch /\ n.status = "completed" /\ n.winners = won
          /\ n.eliminated = out.eliminated /\ n.glasses = out.glasses
      BY <2>5, <3>2, <3>3 DEF BarMatch
    <3>5. Standing(n) = Standing(out)
      BY <3>4 DEF Standing
    <3>6. Seated(n)
      BY <2>8, <3>4, <3>5 DEF Seated
    <3>7. n.winners = Standing(n) /\ Cardinality(n.winners) = 1
      BY <2>9, <3>1, <3>4, <3>5 DEF won
    <3> QED BY <2>1, <2>5, <3>4, <3>6, <3>7 DEF BluffSound
  <2> QED BY <2>11, <2>12
<1> QED BY <1>4, <1>6, <1>7

\* Some step round the table reaches every seat.
LEMMA LapReaches ==
  ASSUME NEW n \in Nat \ {0}, NEW start \in 0 .. n - 1, NEW j \in 0 .. n - 1
  PROVE  \E step \in 1 .. n : (start + step) % n = j
<1>1. CASE start < j
  <2>1. j - start \in 1 .. n /\ start + (j - start) = j
    BY <1>1
  <2>2. j % n = j
    BY ModSmall
  <2> QED BY <2>1, <2>2
<1>2. CASE ~(start < j)
  <2>1. n + j - start \in 1 .. n /\ start + (n + j - start) = n * 1 + j
    BY <1>2
  <2>2. (n * 1 + j) % n = j
    BY ModIs
  <2> QED BY <2>1, <2>2
<1> QED BY <1>1, <1>2

Holders(m) == {p \in Standing(m) : Size(m.hands[p]) > 0}

\* While somebody holds cards, passTurn gives the turn to such a one.
LEMMA PassReaches ==
  ASSUME NEW m \in BarMatch, Rotation(m.order, BPlayers), ToSet(m.order) = Standing(m),
         NEW p \in Standing(m), Holders(m) # {}
  PROVE  \E t \in 0 .. Len(m.order) - 1 :
            /\ BluffBarGame!PassTurn(m, p) = [m EXCEPT !.turnIndex = t]
            /\ m.order[t + 1] \in Holders(m)
<1>1. PICK o : o = m.order
  OBVIOUS
<1>2. Rotation(o, BPlayers) /\ o \in Seq(BPlayers)
  BY <1>1 DEF Rotation
<1>3. ToSet(o) = {o[i] : i \in 1 .. Len(o)}
  BY <1>2, ToSetIs
<1>4. PICK k \in 1 .. Len(o) : o[k] = p
  BY <1>1, <1>3
<1>5. PICK size \in Nat \ {0} : size = Len(o)
  <2>1. Len(o) \in Nat
    BY <1>2
  <2> QED BY <1>4, <2>1
<1> DEFINE start == k - 1
<1>6. start \in 0 .. size - 1
  BY <1>5
<1>7. BluffBarGame!Max({0, BluffBarGame!IndexOf(m.order, p)}) = start
  <2>1. IndexOf(o, o[k]) = start
    BY <1>2, IndexFound
  <2>2. BluffBarGame!IndexOf(m.order, p) = start
    BY <1>1, <1>4, <2>1, SameBluff
  <2>3. start \in Int /\ 0 <= start
    BY <1>6
  <2> HIDE DEF start
  <2>4. BluffBarGame!Max({0, start}) = start
    BY <2>3, GreaterOfTwo
  <2> QED BY <2>2, <2>4
<1> HIDE DEF start
<1>8. BluffBarGame!RemainingHolders(m) = Holders(m)
  <2>1. m.eliminated \in Seq(BPlayers)
    BY DEF BarMatch
  <2>2. ToSet(Alive(m)) = Standing(m)
    BY <2>1, AliveIs
  <2>3. BluffBarGame!ToSet(BluffBarGame!Alive(m)) = Standing(m)
    BY <2>2, SameBluff DEF Alive
  <2> QED BY <2>3, BluffFacts DEF BluffBarGame!RemainingHolders, Holders
<1> DEFINE laps == {step \in 1 .. Len(o) : o[((start + step) % Len(o)) + 1] \in Holders(m)}
<1>9. laps # {}
  <2>1. PICK q : q \in Holders(m)
    OBVIOUS
  <2>2. q \in ToSet(o)
    BY <1>1, <2>1 DEF Holders
  <2>3. PICK i \in 1 .. Len(o) : o[i] = q
    BY <1>3, <2>2
  <2>4. i - 1 \in 0 .. size - 1 /\ (i - 1) + 1 = i
    BY <1>5
  <2>5. PICK step \in 1 .. size : (start + step) % size = i - 1
    BY <1>6, <2>4, LapReaches
  <2>6. o[((start + step) % Len(o)) + 1] = q
    BY <1>5, <2>3, <2>4, <2>5
  <2>7. step \in laps
    BY <1>5, <2>1, <2>5, <2>6
  <2> QED BY <2>7
<1>10. BluffBarGame!Min(laps) \in laps
  <2>1. laps \in SUBSET Nat
    BY <1>5
  <2>2. PICK x \in laps : \A y \in laps : ~(y < x)
    BY <1>9, <2>1, LeastNumber
  <2>3. \A y \in laps : x <= y
    BY <2>1, <2>2
  <2> HIDE DEF laps
  <2> QED BY <2>3 DEF BluffBarGame!Min
<1> DEFINE t == (start + BluffBarGame!Min(laps)) % Len(o)
<1>11. BluffBarGame!PassTurn(m, p) = [m EXCEPT !.turnIndex = t]
  <2> DEFINE far == {step \in 1 .. Len(m.order) :
                       m.order[((start + step) % Len(m.order)) + 1]
                         \in BluffBarGame!RemainingHolders(m)}
  <2>1. far = laps
    BY <1>1, <1>8
  <2>2. BluffBarGame!PassTurn(m, p) =
          IF far = {} THEN m
          ELSE [m EXCEPT !.turnIndex = (start + BluffBarGame!Min(far)) % Len(m.order)]
    BY <1>7 DEF BluffBarGame!PassTurn
  <2> HIDE DEF far, laps
  <2> QED BY <1>1, <1>9, <2>1, <2>2
<1>12. t \in 0 .. Len(o) - 1
  <2>1. start + BluffBarGame!Min(laps) \in Nat
    <3>1. BluffBarGame!Min(laps) \in Nat
      BY <1>5, <1>10
    <3> QED BY <1>6, <3>1
  <2> HIDE DEF laps
  <2> QED BY <1>5, <2>1, DivMod
<1>13. o[t + 1] \in Holders(m)
  BY <1>10
<1> QED BY <1>1, <1>11, <1>12, <1>13

\* What is put on the pile is counted there, honest or not.
LEMMA PileGrows ==
  ASSUME NEW pile \in Seq(BOOLEAN), NEW k \in Nat, NEW t \in 0 .. k
  PROVE  LET q == pile \o [i \in 1 .. k |-> i <= t]
         IN  /\ q \in Seq(BOOLEAN) /\ Len(q) = Len(pile) + k
             /\ Cardinality({i \in DOMAIN q : q[i]})
                  = Cardinality({i \in DOMAIN pile : pile[i]}) + t
<1> DEFINE add == [i \in 1 .. k |-> i <= t]
           q == pile \o add
           old == {i \in DOMAIN pile : pile[i]}
           new == (Len(pile) + 1) .. (Len(pile) + t)
<1>1. add \in Seq(BOOLEAN) /\ Len(add) = k /\ \A i \in 1 .. k : add[i] = (i <= t)
  OBVIOUS
<1> HIDE DEF add
<1>2. /\ q \in Seq(BOOLEAN) /\ Len(q) = Len(pile) + k
      /\ \A i \in 1 .. Len(pile) : q[i] = pile[i]
      /\ \A i \in 1 .. k : q[Len(pile) + i] = add[i]
  BY <1>1
<1>3. DOMAIN q = 1 .. (Len(pile) + k) /\ DOMAIN pile = 1 .. Len(pile) /\ Len(pile) \in Nat
  BY <1>2
<1> HIDE DEF q
<1>4. {i \in DOMAIN q : q[i]} = old \cup new
  <2>1. ASSUME NEW i \in 1 .. (Len(pile) + k) PROVE q[i] <=> i \in old \/ i \in new
    <3>1. CASE i \in 1 .. Len(pile)
      BY <1>2, <1>3, <3>1
    <3>2. CASE i \notin 1 .. Len(pile)
      <4> DEFINE j == i - Len(pile)
      <4>1. j \in 1 .. k /\ i = Len(pile) + j /\ i \notin old
        BY <1>3, <3>2
      <4>2. q[i] = (j <= t)
        BY <1>1, <1>2, <4>1
      <4>3. i \in new <=> j <= t
        BY <1>3, <4>1
      <4> QED BY <4>1, <4>2, <4>3
    <3> QED BY <3>1, <3>2
  <2>2. old \subseteq 1 .. (Len(pile) + k) /\ new \subseteq 1 .. (Len(pile) + k)
    BY <1>3
  <2> QED BY <1>3, <2>1, <2>2
<1>5. IsFiniteSet(old) /\ Cardinality(old) \in Nat
  <2>1. IsFiniteSet(1 .. Len(pile))
    BY <1>3, FS_Interval
  <2>2. old \in SUBSET (1 .. Len(pile))
    BY <1>3
  <2>3. IsFiniteSet(old)
    BY <2>1, <2>2, FS_Subset
  <2> QED BY <2>3, FS_CardinalityType
<1>6. IsFiniteSet(new) /\ Cardinality(new) = t
  <2> DEFINE a == Len(pile) + 1
             b == Len(pile) + t
  <2>1. a \in Int /\ b \in Int
    BY <1>3
  <2>2. IsFiniteSet(a .. b) /\ Cardinality(a .. b) = IF a > b THEN 0 ELSE b - a + 1
    <3> HIDE DEF a, b
    <3> QED BY <2>1, FS_Interval
  <2> QED BY <1>3, <2>2
<1>7. old \cap new = {}
  BY <1>3
<1>8. Cardinality(old \cup new) = Cardinality(old) + t
  <2>1. Cardinality(old \cap new) = 0
    BY <1>7, FS_EmptySet
  <2>2. Cardinality(old \cup new) = Cardinality(old) + Cardinality(new) - Cardinality(old \cap new)
    BY <1>5, <1>6, FS_Union
  <2> QED BY <1>5, <1>6, <2>1, <2>2
<1> QED BY <1>2, <1>4, <1>8 DEF q, add

\* What Declare makes of the match before anybody else acts.
PutDown(m, p, cards) ==
    [m EXCEPT !.hands[p] = [true |-> @.true - cards.true, false |-> @.false - cards.false],
              !.pile = @ \o [i \in 1 .. Size(cards) |-> i <= cards.true],
              !.lastClaim = [by |-> p, count |-> Size(cards)]]

\* Cards put down: what leaves the hand is on the pile, honest or not.
LEMMA CardsGoToThePile ==
  ASSUME NEW m, Seated(m), Dealt(m), m.status = "playing", NEW p \in Standing(m),
         NEW cards \in [true : Nat, false : Nat],
         cards.true <= m.hands[p].true, cards.false <= m.hands[p].false,
         NEW n, n = PutDown(m, p, cards)
  PROVE  /\ Seated(n) /\ n.status = "playing" /\ n.order = m.order
         /\ n.eliminated = m.eliminated
         /\ \A q \in BPlayers : Size(n.hands[q]) <= HandSize
         /\ n.lastClaim.by = p /\ Alive(n) = Alive(m) /\ Standing(n) = Standing(m)
         /\ HonestCards(n) + HonestDown(n) = n.supply
         /\ HeldCards(n) + Len(n.pile) = HandSize * Len(Alive(n))
<1>0. m \in BarMatch /\ p \in BPlayers
  BY DEF Seated, Standing
<1>1. PICK a : a = m.hands[p]
  OBVIOUS
<1>2. m.hands \in [BPlayers -> BarHands] /\ m.pile \in Seq(BOOLEAN)
  BY <1>0 DEF BarMatch
<1>3. /\ a \in BarHands /\ Size(a) <= HandSize /\ HandSize \in Nat
      /\ a.true \in Nat /\ a.false \in Nat /\ a.true <= HandSize /\ a.false <= HandSize
  <2>1. a \in BarHands /\ Size(a) <= HandSize /\ HandSize \in Nat
    BY <1>0, <1>1, <1>2, BluffFacts DEF Dealt
  <2> QED BY <2>1 DEF BarHands
<1>4. PICK t \in Nat, f \in Nat : t = cards.true /\ f = cards.false
  OBVIOUS
<1>5. t <= a.true /\ f <= a.false /\ Size(cards) = t + f
  BY <1>1, <1>4 DEF Size
<1> DEFINE kept == [true |-> a.true - t, false |-> a.false - f]
           q == m.pile \o [i \in 1 .. (t + f) |-> i <= t]
           claim == [by |-> p, count |-> t + f]
<1>6. n = [m EXCEPT !.hands = [m.hands EXCEPT ![p] = kept], !.pile = q, !.lastClaim = claim]
  <2>1. n = [m EXCEPT !.hands[p] = [true |-> m.hands[p].true - cards.true,
                                    false |-> m.hands[p].false - cards.false],
                      !.pile = m.pile \o [i \in 1 .. Size(cards) |-> i <= cards.true],
                      !.lastClaim = [by |-> p, count |-> Size(cards)]]
    BY DEF PutDown
  <2>2. kept = [true |-> m.hands[p].true - cards.true, false |-> m.hands[p].false - cards.false]
    BY <1>1, <1>4
  <2>3. q = m.pile \o [i \in 1 .. Size(cards) |-> i <= cards.true]
    BY <1>4, <1>5
  <2>4. claim = [by |-> p, count |-> Size(cards)]
    BY <1>5
  <2>5. n = [m EXCEPT !.hands[p] = kept, !.pile = q, !.lastClaim = claim]
    <3> HIDE DEF kept, q, claim
    <3> QED BY <2>1, <2>2, <2>3, <2>4
  <2> HIDE DEF kept, q, claim
  <2> QED BY <1>0, <2>5 DEF BarMatch
<1>7. /\ kept \in BarHands /\ Size(kept) = Size(a) - (t + f) /\ kept.true = a.true - t
      /\ Size(kept) \in Nat /\ Size(kept) <= HandSize
  <2>1. a.true - t \in 0 .. HandSize /\ a.false - f \in 0 .. HandSize
    BY <1>3, <1>5
  <2>2. Size(a) = a.true + a.false
    BY DEF Size
  <2>3. Size(kept) = (a.true - t) + (a.false - f)
    BY DEF Size
  <2>4. Size(kept) = Size(a) - (t + f) /\ Size(kept) \in Nat
    BY <1>3, <1>5, <2>1, <2>2, <2>3
  <2>5. Size(kept) <= HandSize
    BY <1>3, <1>4, <1>5, <2>1, <2>2, <2>3
  <2> QED BY <2>1, <2>4, <2>5 DEF BarHands
<1>8. /\ q \in Seq(BOOLEAN) /\ Len(q) = Len(m.pile) + (t + f)
      /\ Cardinality({i \in DOMAIN q : q[i]}) = HonestDown(m) + t
  <2>1. t + f \in Nat /\ t \in 0 .. (t + f)
    OBVIOUS
  <2> QED BY <1>2, <2>1, PileGrows DEF HonestDown
<1>9. claim \in [by : BPlayers \cup {NoOne}, count : Nat] /\ claim.by = p
  BY <1>0
<1> HIDE DEF kept, q, claim
<1>10. /\ n \in BarMatch /\ n.status = "playing" /\ n.order = m.order
       /\ n.eliminated = m.eliminated /\ n.glasses = m.glasses /\ n.supply = m.supply
       /\ n.pile = q /\ n.lastClaim = claim /\ n.hands = [m.hands EXCEPT ![p] = kept]
  <2>1. [m.hands EXCEPT ![p] = kept] \in [BPlayers -> BarHands]
    BY <1>2, <1>7
  <2> QED BY <1>0, <1>6, <1>8, <1>9, <2>1 DEF BarMatch
<1>11. Standing(n) = Standing(m) /\ Alive(n) = Alive(m)
  BY <1>10, BluffFacts DEF Standing
<1>12. Seated(n)
  BY <1>10, <1>11 DEF Seated
<1>13. \A r \in BPlayers : n.hands[r] = IF r = p THEN kept ELSE m.hands[r]
  BY <1>2, <1>10
<1>14. \A r \in BPlayers : Size(n.hands[r]) <= HandSize
  BY <1>7, <1>13 DEF Dealt
<1>15. HonestCards(n) = HonestCards(m) - t
  <2> DEFINE before == [r \in BPlayers |-> m.hands[r].true]
             after == [r \in BPlayers |-> n.hands[r].true]
  <2>1. \A r \in BPlayers : m.hands[r].true \in 0 .. HandSize
    BY <1>2 DEF BarHands
  <2>2. kept.true \in 0 .. HandSize
    BY <1>7 DEF BarHands
  <2>3. before \in [BPlayers -> 0 .. HandSize]
    BY <2>1
  <2>4. after \in [BPlayers -> 0 .. HandSize]
    BY <1>13, <2>1, <2>2
  <2>5. before[p] = a.true /\ t \in 0 .. before[p]
    BY <1>0, <1>1, <1>3, <1>5
  <2>6. \A r \in BPlayers : after[r] = IF r = p THEN before[p] - t ELSE before[r]
    BY <1>7, <1>13, <2>5
  <2> HIDE DEF before, after
  <2>7. Cardinality(OneByOne(after, BPlayers)) = Cardinality(OneByOne(before, BPlayers)) - t
    <3>1. IsFiniteSet(BPlayers) /\ p \in BPlayers
      BY <1>0, BluffFacts
    <3> QED BY <2>3, <2>4, <2>5, <2>6, <3>1, CardsGoDown
  <2> QED BY <2>7 DEF HonestCards, before, after
<1>16. HeldCards(n) = HeldCards(m) - (t + f)
  <2> DEFINE before == [r \in BPlayers |-> Size(m.hands[r])]
             after == [r \in BPlayers |-> Size(n.hands[r])]
  <2>1. \A r \in BPlayers : Size(m.hands[r]) \in 0 .. HandSize
    <3> SUFFICES ASSUME NEW r \in BPlayers PROVE Size(m.hands[r]) \in 0 .. HandSize
      OBVIOUS
    <3>1. m.hands[r].true \in Nat /\ m.hands[r].false \in Nat
      <4>1. m.hands[r] \in BarHands
        BY <1>2
      <4> QED BY <4>1 DEF BarHands
    <3>2. Size(m.hands[r]) \in Nat
      BY <3>1 DEF Size
    <3>3. Size(m.hands[r]) <= HandSize
      BY DEF Dealt
    <3> QED BY <1>3, <3>2, <3>3
  <2>2. Size(kept) \in 0 .. HandSize
    BY <1>3, <1>7
  <2>3. before \in [BPlayers -> 0 .. HandSize]
    BY <2>1
  <2>4. after \in [BPlayers -> 0 .. HandSize]
    <3>1. \A r \in BPlayers : Size(n.hands[r]) \in 0 .. HandSize
      BY <1>13, <2>1, <2>2
    <3> QED BY <3>1
  <2>5. before[p] = Size(a) /\ t + f \in 0 .. before[p]
    <3>1. before[p] = Size(a)
      BY <1>0, <1>1
    <3>2. Size(a) = a.true + a.false
      BY DEF Size
    <3> HIDE DEF before
    <3> QED BY <1>3, <1>5, <3>1, <3>2
  <2>6. \A r \in BPlayers : after[r] = IF r = p THEN before[p] - (t + f) ELSE before[r]
    BY <1>7, <1>13, <2>5
  <2> HIDE DEF before, after
  <2>7. Cardinality(OneByOne(after, BPlayers))
          = Cardinality(OneByOne(before, BPlayers)) - (t + f)
    <3>1. IsFiniteSet(BPlayers) /\ p \in BPlayers
      BY <1>0, BluffFacts
    <3> QED BY <2>3, <2>4, <2>5, <2>6, <3>1, CardsGoDown
  <2> QED BY <2>7 DEF HeldCards, before, after
<1>17. /\ HonestCards(m) \in Nat /\ HeldCards(m) \in Nat /\ HonestDown(m) \in Nat
       /\ Len(m.pile) \in Nat
  <2>1. HonestCards(m) \in Nat /\ HeldCards(m) \in Nat
    BY BluffFacts, CardsAreCounted DEF HonestCards, HeldCards
  <2>2. Len(m.pile) \in Nat /\ DOMAIN m.pile = 1 .. Len(m.pile)
    BY <1>2
  <2>3. IsFiniteSet(1 .. Len(m.pile))
    <3>1. 1 \in Int /\ Len(m.pile) \in Int
      BY <2>2
    <3> QED BY <3>1, FS_Interval
  <2>4. {i \in DOMAIN m.pile : m.pile[i]} \in SUBSET (1 .. Len(m.pile))
    BY <2>2
  <2>5. IsFiniteSet({i \in DOMAIN m.pile : m.pile[i]})
    BY <2>3, <2>4, FS_Subset
  <2>6. HonestDown(m) \in Nat
    BY <2>5, FS_CardinalityType DEF HonestDown
  <2> QED BY <2>1, <2>2, <2>6
<1>18. HonestDown(n) = HonestDown(m) + t /\ Len(n.pile) = Len(m.pile) + (t + f)
  BY <1>8, <1>10 DEF HonestDown
<1>19. HonestCards(n) + HonestDown(n) = n.supply
  <2>1. HonestCards(m) + HonestDown(m) = m.supply
    BY DEF Dealt
  <2> QED BY <1>10, <1>15, <1>17, <1>18, <2>1
<1>20. HeldCards(n) + Len(n.pile) = HandSize * Len(Alive(n))
  <2>1. HeldCards(m) + Len(m.pile) = HandSize * Len(Alive(m))
    BY DEF Dealt
  <2>2. HeldCards(n) + Len(n.pile) = HeldCards(m) + Len(m.pile)
    <3>1. t + f \in Nat
      BY <1>4
    <3>2. PICK x \in Nat : x = HeldCards(m)
      BY <1>17, Zenon
    <3>3. PICK y \in Nat : y = Len(m.pile)
      BY <1>17, Zenon
    <3>4. PICK d \in Nat : d = t + f
      BY <3>1, Zenon
    <3>5. HeldCards(n) = x - d
      BY <1>16, <3>2, <3>4, Zenon
    <3>6. Len(n.pile) = y + d
      BY <1>18, <3>3, <3>4, Zenon
    <3>7. (x - d) + (y + d) = x + y
      OBVIOUS
    <3> QED BY <3>2, <3>3, <3>5, <3>6, <3>7, Zenon
  <2> QED BY <1>11, <2>1, <2>2
<1> QED BY <1>9, <1>10, <1>11, <1>12, <1>14, <1>19, <1>20

\* A claim keeps the match sound, whether the round goes on or dies.
LEMMA BluffDeclares ==
  ASSUME BluffSound(state), NEW p \in BPlayers, NEW cards \in BluffBarGame!CardChoices,
         BluffBarGame!Declare(p, cards)
  PROVE  /\ BluffSound(state') /\ state'.status \in {"playing", "completed"}
         /\ ToSet(state.eliminated) \subseteq ToSet(state'.eliminated)
<1>1. /\ state.status = "playing" /\ Turn(state) = p
      /\ ~Contains(state.eliminated, p)
      /\ cards.true <= state.hands[p].true /\ cards.false <= state.hands[p].false
  BY SameBluff DEF BluffBarGame!Declare, BluffBarGame!MayDeclare, RequireTurn
<1>2. /\ Seated(state) /\ Dealt(state) /\ state \in BarMatch
      /\ state.eliminated \in Seq(BPlayers)
  BY <1>1 DEF BluffSound, Seated, BarMatch
<1>3. p \in Standing(state)
  <2>1. ToSet(state.eliminated) = {state.eliminated[i] : i \in DOMAIN state.eliminated}
    BY DEF ToSet
  <2> QED BY <1>1, <2>1 DEF Contains, Standing
<1>4. cards \in [true : Nat, false : Nat]
  BY DEF BluffBarGame!CardChoices, BluffBarGame!MaxClaim
<1> DEFINE down == [state EXCEPT
                      !.hands[p] = [true |-> @.true - cards.true,
                                    false |-> @.false - cards.false],
                      !.pile = @ \o [i \in 1 .. Size(cards) |-> i <= cards.true],
                      !.lastClaim = [by |-> p, count |-> Size(cards)]]
<1>5. IF Cardinality(BluffBarGame!RemainingHolders(down)) <= 1
      THEN state' \in BluffBarGame!Deal(down, p)
      ELSE state' = BluffBarGame!PassTurn(down, p)
  <2>1. \A S : BluffBarGame!Cardinality(S) = Cardinality(S)
    BY SameBluff
  <2>2. BluffBarGame!Size(cards) = Size(cards)
    BY BluffFacts
  <2> DEFINE there == [state EXCEPT
                      !.hands[p] = [true |-> @.true - cards.true,
                                    false |-> @.false - cards.false],
                      !.pile = @ \o [i \in 1 .. BluffBarGame!Size(cards) |-> i <= cards.true],
                      !.lastClaim = [by |-> p, count |-> BluffBarGame!Size(cards)]]
  <2>3. IF BluffBarGame!Cardinality(BluffBarGame!RemainingHolders(there)) <= 1
        THEN state' \in BluffBarGame!Deal(there, p)
        ELSE state' = BluffBarGame!PassTurn(there, p)
    BY Zenon DEF BluffBarGame!Declare
  <2>4. there = down
    BY <2>2
  <2> HIDE DEF there, down
  <2> QED BY <2>1, <2>3, <2>4
<1>6. /\ Seated(down) /\ down.status = "playing" /\ down.order = state.order
      /\ down.eliminated = state.eliminated
      /\ \A q \in BPlayers : Size(down.hands[q]) <= HandSize
      /\ down.lastClaim.by = p /\ Alive(down) = Alive(state) /\ Standing(down) = Standing(state)
      /\ HonestCards(down) + HonestDown(down) = down.supply
      /\ HeldCards(down) + Len(down.pile) = HandSize * Len(Alive(down))
  <2>1. PICK d : d = down
    OBVIOUS
  <2>2. /\ Seated(d) /\ d.status = "playing" /\ d.order = state.order
        /\ d.eliminated = state.eliminated
        /\ \A q \in BPlayers : Size(d.hands[q]) <= HandSize
        /\ d.lastClaim.by = p /\ Alive(d) = Alive(state) /\ Standing(d) = Standing(state)
        /\ HonestCards(d) + HonestDown(d) = d.supply
        /\ HeldCards(d) + Len(d.pile) = HandSize * Len(Alive(d))
    <3>1. /\ state.status = "playing" /\ p \in Standing(state)
          /\ cards.true <= state.hands[p].true /\ cards.false <= state.hands[p].false
      BY <1>1, <1>3
    <3>2. d = PutDown(state, p, cards)
      BY <2>1, Zenon DEF PutDown
    <3> HIDE DEF down
    <3> QED BY <1>2, <1>4, <3>1, <3>2, CardsGoToThePile
  <2> HIDE DEF down
  <2> QED BY <2>1, <2>2
<1> HIDE DEF down
<1>7. Len(Alive(down)) >= 2
  BY <1>2, <1>6 DEF Dealt
<1>8. CASE Cardinality(BluffBarGame!RemainingHolders(down)) <= 1
  <2>1. state' \in BluffBarGame!Deal(down, p)
    BY <1>5, <1>8
  <2>2. /\ BluffSound(state') /\ state'.status = "playing"
        /\ state'.eliminated = down.eliminated
    BY <1>6, <1>7, <2>1, FreshRound
  <2> QED BY <1>6, <2>2
<1>9. CASE ~(Cardinality(BluffBarGame!RemainingHolders(down)) <= 1)
  <2>1. state' = BluffBarGame!PassTurn(down, p)
    BY <1>5, <1>9
  <2>2. /\ down \in BarMatch /\ down.eliminated \in Seq(BPlayers)
        /\ Rotation(Alive(down), BPlayers) /\ ToSet(Alive(down)) = Standing(down)
    <3>1. down \in BarMatch /\ down.eliminated \in Seq(BPlayers)
      BY <1>6 DEF Seated, BarMatch
    <3> QED BY <3>1, AliveIs
  <2>3. down.order = Alive(down)
    BY <1>2, <1>6 DEF Dealt
  <2>4. Holders(down) # {}
    <3>1. BluffBarGame!RemainingHolders(down) = Holders(down)
      <4>1. BluffBarGame!ToSet(BluffBarGame!Alive(down)) = Standing(down)
        BY <2>2, SameBluff DEF Alive
      <4> QED BY <4>1, BluffFacts DEF BluffBarGame!RemainingHolders, Holders
    <3>2. Cardinality({}) = 0
      BY FS_EmptySet
    <3>3. 0 <= 1
      OBVIOUS
    <3> QED BY <1>9, <3>1, <3>2, <3>3, Zenon
  <2>5. PICK t \in 0 .. Len(down.order) - 1 :
          /\ state' = [down EXCEPT !.turnIndex = t]
          /\ down.order[t + 1] \in Holders(down)
    BY <1>3, <1>6, <2>1, <2>2, <2>3, <2>4, PassReaches
  <2>6. t \in Nat
    OBVIOUS
  <2>7. /\ state' \in BarMatch /\ state'.turnIndex = t /\ state'.order = down.order
        /\ state'.status = "playing" /\ state'.hands = down.hands /\ state'.pile = down.pile
        /\ state'.eliminated = down.eliminated /\ state'.glasses = down.glasses
        /\ state'.supply = down.supply /\ state'.lastClaim = down.lastClaim
    BY <1>6, <2>2, <2>5, <2>6 DEF BarMatch
  <2>8. Standing(state') = Standing(down) /\ Alive(state') = Alive(down)
    BY <2>7, BluffFacts DEF Standing
  <2>9. Seated(state')
    BY <1>6, <2>7, <2>8 DEF Seated
  <2>10. Turn(state') = down.order[t + 1]
    <3>1. Rotation(state'.order, BPlayers) /\ state'.turnIndex \in 0 .. Len(state'.order) - 1
      BY <2>2, <2>3, <2>5, <2>7
    <3> QED BY <2>7, <3>1, TurnIs
  <2>11. Size(state'.hands[Turn(state')]) > 0
    BY <2>5, <2>7, <2>10 DEF Holders
  <2>12. HonestCards(state') = HonestCards(down) /\ HonestDown(state') = HonestDown(down)
         /\ HeldCards(state') = HeldCards(down)
    BY <2>7 DEF HonestCards, HonestDown, HeldCards
  <2>13. Dealt(state')
    <3>1. state'.turnIndex \in 0 .. Len(state'.order) - 1
      BY <2>5, <2>7
    <3>2. state'.order = Alive(state') /\ Len(Alive(state')) >= 2
      BY <1>7, <2>3, <2>7, <2>8
    <3>3. state'.lastClaim.by \in Standing(state') \cup {NoOne}
      BY <1>3, <1>6, <2>7, <2>8
    <3>4. \A q \in BPlayers : Size(state'.hands[q]) <= HandSize
      BY <1>6, <2>7
    <3>5. HonestCards(state') + HonestDown(state') = state'.supply
      BY <1>6, <2>7, <2>12
    <3>6. HeldCards(state') + Len(state'.pile) = HandSize * Len(Alive(state'))
      BY <1>6, <2>7, <2>8, <2>12
    <3> QED BY <2>11, <3>1, <3>2, <3>3, <3>4, <3>5, <3>6 DEF Dealt
  <2> QED BY <1>6, <2>7, <2>9, <2>13 DEF BluffSound
<1> QED BY <1>8, <1>9

\* A challenge keeps the match sound: one drinks, and is out or leads.
LEMMA BluffChallenges ==
  ASSUME BluffSound(state), NEW p \in BPlayers, BluffBarGame!Challenge(p)
  PROVE  /\ BluffSound(state') /\ state'.status \in {"playing", "completed"}
         /\ ToSet(state.eliminated) \subseteq ToSet(state'.eliminated)
<1>1. /\ state.status = "playing" /\ ~Contains(state.eliminated, p)
      /\ state.lastClaim.by # NoOne
  BY SameBluff DEF BluffBarGame!Challenge, BluffBarGame!MayChallenge,
                   BluffBarGame!RequireTurn
<1>2. /\ Seated(state) /\ Dealt(state) /\ Len(Alive(state)) >= 2
      /\ state.lastClaim.by \in Standing(state)
  BY <1>1 DEF BluffSound, Dealt
<1>3. p \in Standing(state)
  <2>1. ToSet(state.eliminated) = {state.eliminated[i] : i \in DOMAIN state.eliminated}
    BY DEF ToSet
  <2> QED BY <1>1, <2>1 DEF Contains, Standing
<1> DEFINE loser == IF BluffBarGame!Honest(state) THEN p ELSE state.lastClaim.by
<1>4. PICK poured \in BluffBarGame!PourShot(state, loser) :
        IF poured.status = "playing" THEN state' \in BluffBarGame!Deal(poured, loser)
                                     ELSE state' = poured
  <2>1. \E poured \in BluffBarGame!PourShot(state, loser) :
          state' \in (IF poured.status = "playing" THEN BluffBarGame!Deal(poured, loser)
                                                   ELSE {poured})
    BY Zenon DEF BluffBarGame!Challenge
  <2> HIDE DEF loser
  <2> QED BY <2>1
<1>5. loser \in Standing(state)
  BY <1>2, <1>3
<1> HIDE DEF loser
<1>6. /\ Seated(poured) /\ ToSet(state.eliminated) \subseteq ToSet(poured.eliminated)
      /\ \/ poured.status = "playing" /\ Len(Alive(poured)) >= 2
         \/ poured.status = "completed" /\ BluffSound(poured)
  BY <1>1, <1>2, <1>4, <1>5, PourKeeps
<1>7. CASE poured.status = "playing"
  <2>1. state' \in BluffBarGame!Deal(poured, loser) /\ Len(Alive(poured)) >= 2
    BY <1>4, <1>6, <1>7
  <2>2. /\ BluffSound(state') /\ state'.status = "playing"
        /\ state'.eliminated = poured.eliminated
    BY <1>6, <1>7, <2>1, FreshRound
  <2> QED BY <1>6, <2>2
<1>8. CASE poured.status # "playing"
  <2>1. state' = poured
    BY <1>4, <1>8
  <2> QED BY <1>6, <1>8, <2>1
<1> QED BY <1>7, <1>8

\* Nobody is in an empty rotation.
LEMMA EmptyRotation ==
  ASSUME NEW S
  PROVE  << >> \in Seq(S) /\ Rotation(<< >>, S) /\ ToSet(<< >>) = {}
<1>1. << >> \in Seq(S) /\ Len(<< >>) = 0
  OBVIOUS
<1>2. ToSet(<< >>) = {}
  <2>1. DOMAIN << >> = {}
    BY <1>1
  <2> QED BY <2>1 DEF ToSet
<1> QED BY <1>1, <1>2 DEF Rotation

\* A match of Bluff Bar is created sound, and waits.
LEMMA BluffBegins ==
  ASSUME BluffBarGame!Init
  PROVE  BluffSound(state) /\ state.status = "waiting"
<1>1. PICK order \in SetToSeqs(BPlayers) :
        state = [status |-> "waiting", order |-> order, turnIndex |-> 0,
                 hands |-> [p \in BPlayers |-> [true |-> 0, false |-> 0]],
                 glasses |-> [p \in BPlayers |-> TraySize],
                 eliminated |-> << >>, supply |-> 0, pile |-> << >>,
                 lastClaim |-> [by |-> NoOne, count |-> 0], winners |-> {}]
  <2>1. PICK match \in CreateMatch(BluffSeats) :
          state = [status |-> match.status, order |-> match.order,
                   turnIndex |-> match.turnIndex,
                   hands |-> [p \in BPlayers |-> [true |-> 0, false |-> 0]],
                   glasses |-> [p \in BPlayers |-> TraySize],
                   eliminated |-> << >>, supply |-> 0, pile |-> << >>,
                   lastClaim |-> [by |-> NoOne, count |-> 0], winners |-> {}]
    BY SameBluff, BluffFacts DEF BluffBarGame!Init, BluffBarGame!Create, BluffBarGame!Empty
  <2>2. PICK order \in SetToSeqs(BPlayers) :
          match = [status |-> "waiting", order |-> order, turnIndex |-> 0]
    BY DEF CreateMatch, BPlayers
  <2> QED BY <2>1, <2>2
<1>2. order \in Seq(BPlayers)
  <2>1. Rotation(order, BPlayers)
    BY BluffFacts, SeqsAreRotations
  <2> QED BY <2>1 DEF Rotation
<1>3. /\ << >> \in Seq(BPlayers) /\ Rotation(<< >>, BPlayers) /\ ToSet(<< >>) = {}
      /\ << >> \in Seq(BOOLEAN)
  BY EmptyRotation
<1>4. /\ [p \in BPlayers |-> [true |-> 0, false |-> 0]] \in [BPlayers -> BarHands]
      /\ [p \in BPlayers |-> TraySize] \in [BPlayers -> Nat] /\ TraySize > 0
  BY BluffFacts DEF BarHands
<1>5. /\ state \in BarMatch /\ state.status = "waiting" /\ state.eliminated = << >>
      /\ state.glasses = [p \in BPlayers |-> TraySize]
  BY <1>1, <1>2, <1>3, <1>4 DEF BarMatch
<1>6. Seated(state)
  BY <1>3, <1>4, <1>5 DEF Seated, Standing
<1> QED BY <1>5, <1>6 DEF BluffSound

\* The start deals the first round.
LEMMA BluffStarts ==
  ASSUME BluffSound(state), BluffBarGame!Start
  PROVE  /\ BluffSound(state') /\ state.status = "waiting" /\ state'.status = "playing"
         /\ ToSet(state.eliminated) \subseteq ToSet(state'.eliminated)
<1>1. PICK m : m = StartMatch(state)
  OBVIOUS
<1>2. state.status = "waiting" /\ state' \in BluffBarGame!Deal(m, NoOne)
  BY <1>1, SameBluff DEF BluffBarGame!Start
<1>3. state \in BarMatch /\ Seated(state) /\ state.eliminated = << >>
  BY <1>2 DEF BluffSound, Seated
<1>4. /\ m \in BarMatch /\ m.status = "playing" /\ m.eliminated = << >>
      /\ m.glasses = state.glasses
  BY <1>1, <1>3 DEF StartMatch, BarMatch
<1>5. Seated(m)
  BY <1>3, <1>4 DEF Seated, Standing
<1>6. Len(Alive(m)) >= 2
  <2>1. Standing(m) = BPlayers
    BY <1>4, EmptyRotation DEF Standing
  <2>2. m.eliminated \in Seq(BPlayers)
    BY <1>4, EmptyRotation
  <2>3. Len(Alive(m)) = Cardinality(Standing(m))
    BY <2>2, AliveIs
  <2>4. Cardinality(BPlayers) >= 2
    BY BluffFacts
  <2> QED BY <2>1, <2>3, <2>4
<1>7. /\ BluffSound(state') /\ state'.status = "playing" /\ state'.eliminated = m.eliminated
  BY <1>2, <1>4, <1>5, <1>6, FreshRound
<1>8. state'.eliminated = state.eliminated
  BY <1>3, <1>4, <1>7
<1> QED BY <1>2, <1>7, <1>8

\* Out stays out, and a match goes forward.
BluffStep ==
    /\ BluffSound(state')
    /\ ToSet(state.eliminated) \subseteq ToSet(state'.eliminated)
    /\ state.status \in {"waiting", "playing"}
    /\ state'.status \in {"playing", "completed"}

\* Every step of Bluff Bar keeps it sound and goes forward.
LEMMA BluffNext == ASSUME BluffSound(state), BluffBarGame!Next PROVE BluffStep
<1>1. CASE BluffBarGame!Start
  BY <1>1, BluffStarts DEF BluffStep
<1>2. ASSUME NEW player \in BPlayers, NEW cards \in BluffBarGame!CardChoices,
             BluffBarGame!Declare(player, cards)
      PROVE  BluffStep
  <2>1. state.status = "playing"
    BY <1>2, SameBluff DEF BluffBarGame!Declare, BluffBarGame!MayDeclare, RequireTurn
  <2> QED BY <1>2, <2>1, BluffDeclares DEF BluffStep
<1>3. ASSUME NEW player \in BPlayers, BluffBarGame!Challenge(player) PROVE BluffStep
  <2>1. state.status = "playing"
    BY <1>3, SameBluff DEF BluffBarGame!Challenge, BluffBarGame!MayChallenge, RequireTurn
  <2> QED BY <1>3, <2>1, BluffChallenges DEF BluffStep
<1>4. BluffBarGame!Players = BPlayers
  BY BluffFacts
<1> QED BY <1>1, <1>2, <1>3, <1>4 DEF BluffBarGame!Next

\* While it is played the turn is a drinker's, and another one is left.
LEMMA BluffTurn ==
  ASSUME NEW m, BluffSound(m), m.status = "playing"
  PROVE  Turn(m) \in Standing(m) /\ \E q \in Standing(m) : q # Turn(m)
<1>1. /\ m.eliminated \in Seq(BPlayers) /\ m.order = Alive(m) /\ Len(m.order) >= 2
      /\ m.turnIndex \in 0 .. Len(m.order) - 1
  BY DEF BluffSound, Seated, Dealt, BarMatch
<1>2. /\ Rotation(m.order, BPlayers) /\ ToSet(m.order) = Standing(m)
      /\ Len(m.order) \in Nat
  BY <1>1, AliveIs
<1>3. Turn(m) \in Standing(m)
  BY <1>1, <1>2, TurnIs
<1>4. 1 \in 1 .. Len(m.order) /\ 2 \in 1 .. Len(m.order) /\ m.order[1] # m.order[2]
  BY <1>1, <1>2 DEF Rotation
<1>5. m.order[1] \in Standing(m) /\ m.order[2] \in Standing(m)
  <2>1. m.order \in Seq(BPlayers)
    BY <1>2 DEF Rotation
  <2>2. ToSet(m.order) = {m.order[i] : i \in 1 .. Len(m.order)}
    BY <2>1, ToSetIs
  <2> QED BY <1>2, <1>4, <2>2
<1> QED BY <1>3, <1>4, <1>5

\* What the invariant says in the words of the module.
LEMMA BluffSays ==
  ASSUME BluffSound(state)
  PROVE  BluffBarGame!CanAct /\ BluffBarGame!DeckIsWhole /\ BluffBarGame!FairlyLost
<1>0. /\ state \in BarMatch /\ state.eliminated \in Seq(BPlayers)
      /\ ToSet(Alive(state)) = Standing(state)
  <2>1. state \in BarMatch /\ state.eliminated \in Seq(BPlayers)
    BY DEF BluffSound, Seated, BarMatch
  <2> QED BY <2>1, AliveIs
<1>1. BluffBarGame!CanAct
  <2> SUFFICES ASSUME state.status = "playing"
               PROVE  \E p \in BPlayers, cards \in BluffBarGame!CardChoices :
                         BluffBarGame!MayDeclare(p, cards)
    BY BluffFacts DEF BluffBarGame!CanAct
  <2>1. PICK p : p = Turn(state)
    OBVIOUS
  <2>2. p \in Standing(state) /\ Size(state.hands[p]) > 0
    BY <2>1, BluffTurn DEF BluffSound, Dealt
  <2>3. /\ p \in BPlayers /\ state.hands[p] \in BarHands
        /\ BluffBarGame!RequireTurn(state, p) /\ ~BluffBarGame!Contains(state.eliminated, p)
    <3>1. p \in BPlayers /\ p \notin ToSet(state.eliminated)
      BY <2>2 DEF Standing
    <3>2. state.hands[p] \in BarHands
      BY <1>0, <3>1 DEF BarMatch
    <3>3. ~Contains(state.eliminated, p)
      BY <3>1 DEF Contains, ToSet
    <3> QED BY <2>1, <3>1, <3>2, <3>3, SameBluff DEF RequireTurn
  <2>4. PICK t \in Nat, f \in Nat :
          t = state.hands[p].true /\ f = state.hands[p].false /\ t + f > 0
    <3>1. state.hands[p].true \in Nat /\ state.hands[p].false \in Nat
      BY <2>3 DEF BarHands
    <3> QED BY <2>2, <3>1 DEF Size
  <2>5. \A x, y \in {0, 1} : x + y = 1 => [true |-> x, false |-> y] \in BluffBarGame!CardChoices
    BY DEF BluffBarGame!CardChoices, BluffBarGame!MaxClaim
  <2>6. ASSUME NEW x \in {0, 1}, NEW y \in {0, 1}, x + y = 1, x <= t, y <= f
        PROVE  \E cards \in BluffBarGame!CardChoices : BluffBarGame!MayDeclare(p, cards)
    <3>1. PICK c : c = [true |-> x, false |-> y]
      OBVIOUS
    <3>2. c \in BluffBarGame!CardChoices /\ c.true = x /\ c.false = y
      BY <2>5, <2>6, <3>1
    <3>3. BluffBarGame!Size(c) \in 1 .. BluffBarGame!MaxClaim
      BY <2>6, <3>2 DEF BluffBarGame!Size, BluffBarGame!MaxClaim
    <3>4. c.true <= state.hands[p].true /\ c.false <= state.hands[p].false
      BY <2>4, <2>6, <3>2
    <3>5. BluffBarGame!MayDeclare(p, c)
      BY <2>3, <3>3, <3>4 DEF BluffBarGame!MayDeclare
    <3> QED BY <3>2, <3>5
  <2>7. CASE t > 0
    <3>1. 1 <= t /\ 0 <= f
      BY <2>7
    <3> QED BY <2>3, <2>6, <3>1
  <2>8. CASE ~(t > 0)
    <3>1. 0 <= t /\ 1 <= f
      BY <2>4, <2>8
    <3> QED BY <2>3, <2>6, <3>1
  <2> QED BY <2>7, <2>8
<1>2. BluffBarGame!DeckIsWhole
  <2> SUFFICES ASSUME state.status = "playing"
               PROVE  /\ HonestCards(state) + HonestDown(state) = state.supply
                      /\ HeldCards(state) + Len(state.pile) = HandSize * Len(Alive(state))
    BY BluffFacts, SameBluff
       DEF BluffBarGame!DeckIsWhole, HonestCards, HonestDown, HeldCards, Alive
  <2> QED BY DEF BluffSound, Dealt
<1>3. BluffBarGame!FairlyLost
  <2>1. \A p \in BluffBarGame!ToSet(BluffBarGame!Alive(state)) : state.glasses[p] > 0
    BY <1>0, SameBluff DEF BluffSound, Seated, Alive
  <2>2. state.status = "completed" =>
          /\ state.winners = BluffBarGame!Players \ BluffBarGame!ToSet(state.eliminated)
          /\ BluffBarGame!Cardinality(state.winners) = 1
    BY BluffFacts, SameBluff DEF BluffSound, Standing
  <2> QED BY <2>1, <2>2 DEF BluffBarGame!FairlyLost
<1> QED BY <1>1, <1>2, <1>3

-----------------------------------------------------------------------------
(* Space Mystery *)

Roster == SUBSET ShipSeats
Flags == [ShipSeats -> BOOLEAN]
Consoles == Stations \cup {NoOne}
Ballots == [ShipSeats -> ShipSeats \cup {NoOne, SpaceGame!Unvoted}]

ShipMatch ==
  [status : {"playing", "completed"}, ticking : BOOLEAN, pending : Roster,
   traitors : Roster, alive : Flags, place : [ShipSeats -> Places],
   tasks : [ShipSeats -> SUBSET Stations], completed : [ShipSeats -> SUBSET Stations],
   working : [ShipSeats -> Consoles], cooling : Flags, vent : Flags,
   bodies : SUBSET Places, sabotage : {"none", "breach", "lights"},
   meeting : [phase : {"none", "discussion", "voting"}, votes : Ballots],
   emergencies : [ShipSeats -> Nat], taskDone : Nat,
   result : [team : {"none", "crew", "traitors"}, survivors : Roster]]

Traitors(m) == Cardinality(SpaceGame!LivingTraitors(m))
Crew(m) == Cardinality(SpaceGame!Living(m)) - Traitors(m)
Repaired(m) == SpaceGame!TaskTotal(m) > 0 /\ m.taskDone = SpaceGame!TaskTotal(m)

\* A repair is one of the player's own tasks and is counted once.
Repairs(m) == {r \in (ShipSeats \ m.traitors) \X Stations : r[2] \in m.completed[r[1]]}

Counted(m) ==
    /\ \A p \in ShipSeats :
          /\ Cardinality(m.tasks[p]) = TasksEach
          /\ m.completed[p] \subseteq m.tasks[p]
          /\ m.working[p] \in (m.tasks[p] \ m.completed[p]) \cup {NoOne}
    /\ m.taskDone = Cardinality(Repairs(m))

\* A meeting freezes the ship, and somebody is still to vote.
Convened(m) ==
    /\ m.meeting.phase # "none" =>
          /\ \A p \in ShipSeats : ~m.vent[p] /\ m.working[p] = NoOne
          /\ m.sabotage = "none"
          /\ m.bodies = {}
          /\ \A p \in ShipSeats : m.meeting.votes[p] # SpaceGame!Unvoted =>
                /\ m.alive[p]
                /\ m.meeting.votes[p] \in SpaceGame!Living(m) \cup {NoOne}
    /\ m.meeting.phase = "discussion" =>
          \A p \in ShipSeats : m.meeting.votes[p] = SpaceGame!Unvoted
    /\ m.meeting.phase = "voting" /\ m.status = "playing" =>
          \E p \in SpaceGame!Living(m) : m.meeting.votes[p] = SpaceGame!Unvoted

Solid(m) ==
    /\ m \in ShipMatch
    /\ Counted(m)
    /\ Convened(m)
    /\ ~m.ticking => m.pending = {}

\* Within a tick the last repair decides only when the loop is through, and a
\* reactor only then.
Decided(m) ==
    /\ m.status = "playing" =>
          /\ Traitors(m) > 0 /\ Traitors(m) < Crew(m)
          /\ ~m.ticking => ~Repaired(m)
    /\ m.status = "completed" =>
          /\ m.result.survivors = SpaceGame!Living(m)
          /\ m.result.team = "crew" => Traitors(m) = 0 \/ Repaired(m)
          /\ m.result.team = "traitors" =>
                Traitors(m) >= Crew(m) \/ (m.sabotage = "breach" /\ ~m.ticking)

\* What the ship counts with is what the theorems about finite sets count with.
LEMMA SameCount ==
    /\ \A S : SpaceGame!Cardinality(S) = Cardinality(S)
    /\ \A S : SpaceGame!IsFiniteSet(S) <=> IsFiniteSet(S)
BY DEF SpaceGame!Cardinality, Cardinality, SpaceGame!IsFiniteSet, IsFiniteSet

\* The ship and its crew, as assumed.
LEMMA ShipFacts ==
    /\ IsFiniteSet(ShipSeats) /\ IsFiniteSet(Stations) /\ Stations \subseteq Places
    /\ VentPlaces \subseteq Places /\ Table \in Places
    /\ TraitorCount \in Nat /\ TraitorCount > 0
    /\ 2 * TraitorCount < Cardinality(ShipSeats) /\ Cardinality(ShipSeats) \in Nat
    /\ TasksEach \in Nat /\ EmergenciesEach \in Nat
    /\ NoOne \notin ShipSeats /\ NoOne \notin Places
    /\ SpaceGame!Unvoted \notin ShipSeats /\ SpaceGame!Unvoted # NoOne
<1>a. SpaceGame!ShipAssumption
  BY GamesAssumption DEF GamesAssumption
<1>1. IsFiniteSet(ShipSeats) /\ IsFiniteSet(Places) /\ Stations \subseteq Places
  BY <1>a, SameCount DEF SpaceGame!ShipAssumption
<1>b. /\ VentPlaces \subseteq Places /\ Table \in Places
      /\ TraitorCount \in 1 .. Cardinality(ShipSeats)
      /\ 2 * TraitorCount < Cardinality(ShipSeats)
      /\ TasksEach \in 0 .. Cardinality(Stations) /\ EmergenciesEach \in Nat
      /\ NoOne \notin ShipSeats /\ NoOne \notin Places
      /\ SpaceGame!Unvoted \notin ShipSeats /\ SpaceGame!Unvoted # NoOne
  BY <1>a, SameCount DEF SpaceGame!ShipAssumption
<1>2. IsFiniteSet(Stations) /\ Cardinality(Stations) \in Nat
  BY <1>1, FS_Subset, FS_CardinalityType
<1>3. Cardinality(ShipSeats) \in Nat
  BY <1>1, FS_CardinalityType
<1> QED BY <1>1, <1>2, <1>3, <1>b

\* The fields of a match, one by one.
LEMMA ShipFields ==
  ASSUME NEW m \in ShipMatch
  PROVE  /\ m.status \in {"playing", "completed"} /\ m.ticking \in BOOLEAN
         /\ m.pending \in Roster /\ m.traitors \in Roster /\ m.alive \in Flags
         /\ m.place \in [ShipSeats -> Places]
         /\ m.tasks \in [ShipSeats -> SUBSET Stations]
         /\ m.completed \in [ShipSeats -> SUBSET Stations]
         /\ m.working \in [ShipSeats -> Consoles] /\ m.cooling \in Flags
         /\ m.vent \in Flags /\ m.bodies \in SUBSET Places
         /\ m.sabotage \in {"none", "breach", "lights"}
         /\ m.meeting \in [phase : {"none", "discussion", "voting"}, votes : Ballots]
         /\ m.meeting.phase \in {"none", "discussion", "voting"}
         /\ m.meeting.votes \in Ballots
         /\ m.emergencies \in [ShipSeats -> Nat] /\ m.taskDone \in Nat
         /\ m.result \in [team : {"none", "crew", "traitors"}, survivors : Roster]
BY DEF ShipMatch

\* The living, and the living traitors, are finite sets of seats.
LEMMA ShipCounts ==
  ASSUME NEW m \in ShipMatch
  PROVE  /\ SpaceGame!Living(m) \in Roster /\ IsFiniteSet(SpaceGame!Living(m))
         /\ IsFiniteSet(SpaceGame!LivingTraitors(m))
         /\ Cardinality(SpaceGame!Living(m)) \in Nat /\ Traitors(m) \in Nat
         /\ Traitors(m) <= Cardinality(SpaceGame!Living(m)) /\ Crew(m) \in Nat
         /\ SpaceGame!TaskTotal(m) \in Nat
<1>1. SpaceGame!Living(m) \in Roster
  BY DEF SpaceGame!Living, Roster
<1>2. IsFiniteSet(SpaceGame!Living(m)) /\ Cardinality(SpaceGame!Living(m)) \in Nat
  BY <1>1, ShipFacts, FS_Subset, FS_CardinalityType DEF Roster
<1>3. SpaceGame!LivingTraitors(m) \in SUBSET SpaceGame!Living(m)
  BY DEF SpaceGame!LivingTraitors
<1>4. /\ IsFiniteSet(SpaceGame!LivingTraitors(m)) /\ Traitors(m) \in Nat
      /\ Traitors(m) <= Cardinality(SpaceGame!Living(m))
  BY <1>2, <1>3, FS_Subset, FS_CardinalityType DEF Traitors
<1>5. Cardinality(ShipSeats \ m.traitors) \in Nat
  BY ShipFacts, FS_Difference, FS_CardinalityType
<1>6. SpaceGame!TaskTotal(m) \in Nat
  BY <1>5, ShipFacts, SameCount DEF SpaceGame!TaskTotal
<1> QED BY <1>1, <1>2, <1>4, <1>6 DEF Crew

\* Nobody repairs more than they were given.
LEMMA RepairsBounded ==
  ASSUME NEW m \in ShipMatch, Counted(m)
  PROVE  /\ IsFiniteSet(Repairs(m)) /\ m.taskDone <= SpaceGame!TaskTotal(m)
<1> DEFINE crew == ShipSeats \ m.traitors
           given == {r \in crew \X Stations : r[2] \in m.tasks[r[1]]}
           grid == crew \X (1 .. TasksEach)
<1>1. IsFiniteSet(crew) /\ Cardinality(crew) \in Nat
  BY ShipFacts, FS_Difference, FS_CardinalityType
<1>2. IsFiniteSet(1 .. TasksEach) /\ Cardinality(1 .. TasksEach) = TasksEach
  <2>1. 1 \in Int /\ TasksEach \in Int /\ TasksEach >= 0
    BY ShipFacts
  <2>2. IsFiniteSet(1 .. TasksEach)
    BY <2>1, FS_Interval
  <2>3. Cardinality(1 .. TasksEach) = IF 1 > TasksEach THEN 0 ELSE TasksEach - 1 + 1
    BY <2>1, FS_Interval
  <2> QED BY <2>1, <2>2, <2>3
<1>3. IsFiniteSet(grid) /\ Cardinality(grid) = Cardinality(crew) * TasksEach
  BY <1>1, <1>2, FS_Product
<1>4. \A p \in crew : \E f : f \in Bijection(1 .. TasksEach, m.tasks[p])
  <2> TAKE p \in crew
  <2>1. m.tasks[p] \in SUBSET Stations /\ Cardinality(m.tasks[p]) = TasksEach
    BY ShipFields DEF Counted
  <2>2. IsFiniteSet(m.tasks[p])
    BY <2>1, ShipFacts, FS_Subset
  <2> QED BY <2>1, <2>2, FS_CardinalityType DEF ExistsBijection
<1> DEFINE list == [p \in crew |-> CHOOSE f : f \in Bijection(1 .. TasksEach, m.tasks[p])]
           at(c) == <<c[1], list[c[1]][c[2]]>>
           entry == [c \in grid |-> at(c)]
<1>5. \A p \in crew : list[p] \in Bijection(1 .. TasksEach, m.tasks[p])
  BY <1>4
<1>6. entry \in Surjection(grid, given)
  <2>1. ASSUME NEW c \in grid PROVE entry[c] \in given
    <3>1. c[1] \in crew /\ c[2] \in 1 .. TasksEach
      OBVIOUS
    <3>2. list[c[1]][c[2]] \in m.tasks[c[1]]
      BY <3>1, <1>5 DEF Bijection, Injection
    <3>3. m.tasks[c[1]] \subseteq Stations
      BY <3>1, ShipFields
    <3> QED BY <3>1, <3>2, <3>3
  <2>2. ASSUME NEW r \in given PROVE \E c \in grid : entry[c] = r
    <3>1. r[1] \in crew /\ r[2] \in m.tasks[r[1]] /\ r = <<r[1], r[2]>>
      OBVIOUS
    <3>2. PICK i \in 1 .. TasksEach : list[r[1]][i] = r[2]
      BY <3>1, <1>5 DEF Bijection, Surjection
    <3>3. <<r[1], i>> \in grid
      BY <3>1
    <3>4. entry[<<r[1], i>>] = r
      BY <3>1, <3>2, <3>3
    <3> QED BY <3>3, <3>4
  <2>3. entry \in [grid -> given]
    <3>1. \A c \in grid : at(c) \in given
      BY <2>1
    <3> HIDE DEF at, given, grid
    <3> QED BY <3>1
  <2> HIDE DEF entry, given, grid
  <2> QED BY <2>2, <2>3 DEF Surjection
<1>7. IsFiniteSet(given) /\ Cardinality(given) <= Cardinality(grid)
  BY <1>3, <1>6, FS_Surjection
<1>8. Repairs(m) \in SUBSET given
  BY DEF Repairs, Counted
<1>9. IsFiniteSet(Repairs(m)) /\ Cardinality(Repairs(m)) <= Cardinality(given)
  BY <1>7, <1>8, FS_Subset
<1>10. /\ Cardinality(Repairs(m)) \in Nat /\ Cardinality(given) \in Nat
       /\ Cardinality(grid) \in Nat
  BY <1>3, <1>7, <1>9, FS_CardinalityType
<1>11. SpaceGame!TaskTotal(m) = Cardinality(grid)
  BY <1>1, <1>3, ShipFacts, SameCount DEF SpaceGame!TaskTotal
<1> QED BY <1>7, <1>9, <1>10, <1>11 DEF Counted

-----------------------------------------------------------------------------
(* What a player's input, or turn in a tick, may do *)

ShipSound(m) == Solid(m) /\ Decided(m)

\* What the rest of the platform sees of a match.
View(m) == <<m.status = "completed", SpaceGame!Living(m), SpaceGame!InMeeting(m)>>

OneLess(m, n) ==
    \E p \in SpaceGame!Living(m) : SpaceGame!Living(n) = SpaceGame!Living(m) \ {p}

\* A step of ShipMeetings, or none.
MeetStep(m, n) ==
    \/ View(n) = View(m)
    \/ /\ m.status = "playing"
       /\ \/ /\ ~SpaceGame!InMeeting(m) /\ SpaceGame!InMeeting(n)
             /\ SpaceGame!Living(n) = SpaceGame!Living(m) /\ n.status = "playing"
          \/ ~SpaceGame!InMeeting(m) /\ ~SpaceGame!InMeeting(n) /\ OneLess(m, n)
          \/ /\ SpaceGame!InMeeting(m) /\ ~SpaceGame!InMeeting(n)
             /\ SpaceGame!Living(n) = SpaceGame!Living(m) \/ OneLess(m, n)
          \/ /\ SpaceGame!InMeeting(m) <=> SpaceGame!InMeeting(n)
             /\ SpaceGame!Living(n) = SpaceGame!Living(m) /\ n.status = "completed"

\* A step of one player leaves the loop of the tick where it is.
Does(m, n) ==
    /\ ShipSound(n) /\ MeetStep(m, n)
    /\ n.ticking = m.ticking /\ n.pending = m.pending

\* A step that opens, kills, decides and repairs nothing.
Kept(m, n) ==
    /\ n.status = m.status /\ n.ticking = m.ticking /\ n.pending = m.pending
    /\ n.traitors = m.traitors /\ n.alive = m.alive /\ n.tasks = m.tasks
    /\ n.completed = m.completed /\ n.taskDone = m.taskDone /\ n.bodies = m.bodies
    /\ n.meeting = m.meeting /\ n.result = m.result

Moves(m, n) ==
    /\ n \in ShipMatch /\ Kept(m, n)
    /\ \A p \in ShipSeats :
          n.working[p] \in {m.working[p], NoOne} \cup (m.tasks[p] \ m.completed[p])
    /\ m.meeting.phase # "none" =>
          n.vent = m.vent /\ n.working = m.working /\ n.sabotage = m.sabotage
    /\ m.status = "playing" \/ m.ticking \/ n.sabotage = m.sabotage

\* Who lives and who is a traitor decide what the match is counted by.
LEMMA SameCrew ==
  ASSUME NEW m, NEW n, n.alive = m.alive, n.traitors = m.traitors
  PROVE  /\ SpaceGame!Living(n) = SpaceGame!Living(m)
         /\ Traitors(n) = Traitors(m) /\ Crew(n) = Crew(m)
         /\ SpaceGame!TaskTotal(n) = SpaceGame!TaskTotal(m)
<1>1. SpaceGame!Living(n) = SpaceGame!Living(m)
  BY DEF SpaceGame!Living
<1>2. Traitors(n) = Traitors(m)
  BY <1>1 DEF Traitors, SpaceGame!LivingTraitors
<1> QED BY <1>1, <1>2 DEF Crew, SpaceGame!TaskTotal

\* A step that opens, kills, decides and repairs nothing keeps the ship sound.
LEMMA MovesAreSound ==
  ASSUME NEW m, NEW n, ShipSound(m), Moves(m, n)
  PROVE  Does(m, n) /\ View(n) = View(m)
<1>1. m \in ShipMatch /\ n \in ShipMatch /\ Kept(m, n)
  BY DEF ShipSound, Solid, Moves
<1>2. /\ SpaceGame!Living(n) = SpaceGame!Living(m)
      /\ Traitors(n) = Traitors(m) /\ Crew(n) = Crew(m)
      /\ SpaceGame!TaskTotal(n) = SpaceGame!TaskTotal(m)
  BY <1>1, SameCrew DEF Kept
<1>3. Counted(n)
  <2>1. Repairs(n) = Repairs(m)
    BY <1>1 DEF Repairs, Kept
  <2>2. \A p \in ShipSeats : n.working[p] \in (m.tasks[p] \ m.completed[p]) \cup {NoOne}
    BY DEF ShipSound, Solid, Counted, Moves
  <2> QED BY <1>1, <2>1, <2>2 DEF ShipSound, Solid, Counted, Kept
<1>4. Convened(n)
  BY <1>1, <1>2 DEF ShipSound, Solid, Convened, Kept, Moves
<1>5. Decided(n)
  BY <1>1, <1>2 DEF ShipSound, Decided, Kept, Moves, Repaired
<1>6. View(n) = View(m)
  BY <1>1, <1>2 DEF View, Kept, SpaceGame!InMeeting
<1> QED BY <1>1, <1>3, <1>4, <1>5, <1>6 DEF Does, ShipSound, Solid, MeetStep, Kept

\* To do nothing is such a step.
LEMMA StaysMoves == ASSUME NEW m \in ShipMatch PROVE Moves(m, m)
BY ShipFields DEF Moves, Kept

\* To begin a task is one.
LEMMA TaskMoves ==
  ASSUME NEW m \in ShipMatch, NEW p \in ShipSeats, NEW n \in SpaceGame!Task(m, p)
  PROVE  Moves(m, n)
<1>1. m.meeting.phase = "none"
  BY DEF SpaceGame!Task, SpaceGame!InMeeting
<1>2. PICK s \in m.tasks[p] \ m.completed[p] : n = [m EXCEPT !.working[p] = s]
  BY DEF SpaceGame!Task
<1>3. s \in Stations
  BY <1>2, ShipFields
<1>4. n \in ShipMatch /\ Kept(m, n)
  BY <1>2, <1>3 DEF ShipMatch, Consoles, Kept
<1>5. n.working = [m.working EXCEPT ![p] = s] /\ n.sabotage = m.sabotage
  BY <1>2 DEF ShipMatch
<1>6. m.working \in [ShipSeats -> Consoles]
  BY ShipFields
<1>7. \A q \in ShipSeats :
        n.working[q] \in {m.working[q], NoOne} \cup (m.tasks[q] \ m.completed[q])
  BY <1>2, <1>5, <1>6
<1> QED BY <1>1, <1>4, <1>5, <1>7 DEF Moves

\* To sabotage is one: what it breaks is not decided here.
LEMMA SabotageMoves ==
  ASSUME NEW m \in ShipMatch, NEW p \in ShipSeats, NEW n \in SpaceGame!Sabotage(m, p),
         m.status = "playing"
  PROVE  Moves(m, n)
<1>1. m.meeting.phase = "none"
  BY DEF SpaceGame!Sabotage, SpaceGame!InMeeting
<1>2. PICK kind \in {"breach", "lights"} :
        n = [m EXCEPT !.sabotage = kind, !.cooling[p] = TRUE]
  BY DEF SpaceGame!Sabotage, SpaceGame!SabotageKinds
<1>4. n \in ShipMatch /\ Kept(m, n) /\ n.working = m.working
  BY <1>2 DEF ShipMatch, Kept, Flags
<1> QED BY <1>1, <1>4 DEF Moves

\* To use a vent is one.
LEMMA VentMoves ==
  ASSUME NEW m \in ShipMatch, NEW p \in ShipSeats, NEW n \in SpaceGame!Vent(m, p)
  PROVE  Moves(m, n)
<1>1. m.meeting.phase = "none"
  BY DEF SpaceGame!Vent, SpaceGame!InMeeting
<1>2. \/ n = [m EXCEPT !.vent[p] = FALSE]
      \/ \E mouth \in VentPlaces : n = [m EXCEPT !.place[p] = mouth]
      \/ n = [m EXCEPT !.vent[p] = TRUE, !.working[p] = NoOne]
  BY DEF SpaceGame!Vent
<1>3. VentPlaces \subseteq Places
  BY ShipFacts
<1>4. n \in ShipMatch /\ Kept(m, n) /\ n.sabotage = m.sabotage
  <2>1. CASE n = [m EXCEPT !.vent[p] = FALSE]
    BY <2>1 DEF ShipMatch, Kept, Flags
  <2>2. CASE \E mouth \in VentPlaces : n = [m EXCEPT !.place[p] = mouth]
    BY <2>2, <1>3 DEF ShipMatch, Kept
  <2>3. CASE n = [m EXCEPT !.vent[p] = TRUE, !.working[p] = NoOne]
    BY <2>3 DEF ShipMatch, Kept, Flags, Consoles
  <2> QED BY <1>2, <2>1, <2>2, <2>3
<1>5. n.working = m.working \/ n.working = [m.working EXCEPT ![p] = NoOne]
  BY <1>2 DEF ShipMatch
<1>6. m.working \in [ShipSeats -> Consoles]
  BY ShipFields
<1> QED BY <1>1, <1>4, <1>5, <1>6 DEF Moves

\* To cool down is one.
LEMMA CooledMoves ==
  ASSUME NEW m \in ShipMatch, NEW p \in ShipSeats, NEW n \in SpaceGame!Cooled(m, p)
  PROVE  Moves(m, n)
<1>1. n = m \/ n = [m EXCEPT !.cooling[p] = FALSE]
  BY DEF SpaceGame!Cooled
<1>2. CASE n = [m EXCEPT !.cooling[p] = FALSE]
  <2>1. /\ n \in ShipMatch /\ Kept(m, n) /\ n.working = m.working /\ n.vent = m.vent
        /\ n.sabotage = m.sabotage
    BY <1>2 DEF ShipMatch, Kept, Flags
  <2> QED BY <2>1 DEF Moves
<1> QED BY <1>1, <1>2, StaysMoves

\* To walk is one.
LEMMA WalkedMoves ==
  ASSUME NEW m \in ShipMatch, NEW p \in ShipSeats, NEW n \in SpaceGame!Walked(m, p)
  PROVE  Moves(m, n)
<1>1. n = m \/ \E there \in Places : n = [m EXCEPT !.place[p] = there]
  BY DEF SpaceGame!Walked
<1>2. /\ n \in ShipMatch /\ Kept(m, n) /\ n.working = m.working /\ n.vent = m.vent
      /\ n.sabotage = m.sabotage
  BY <1>1 DEF ShipMatch, Kept
<1> QED BY <1>2 DEF Moves

\* A console done within a tick: one more of the player's own repairs.
LEMMA WorkedIsSound ==
  ASSUME NEW m, NEW p \in ShipSeats, NEW n \in SpaceGame!Worked(m, p),
         ShipSound(m), m.ticking
  PROVE  Does(m, n) /\ View(n) = View(m)
<1> DEFINE station == m.working[p]
           done == IF p \in m.traitors THEN 0 ELSE 1
<1>1. m \in ShipMatch
  BY DEF ShipSound, Solid
<1>2. \/ n = m
      \/ station # NoOne /\ n = [m EXCEPT !.working[p] = NoOne]
      \/ station # NoOne /\ n = [m EXCEPT !.working[p] = NoOne,
                                         !.completed[p] = @ \cup {station},
                                         !.taskDone = @ + done]
  BY DEF SpaceGame!Worked
<1>3. m.working \in [ShipSeats -> Consoles] /\ m.completed \in [ShipSeats -> SUBSET Stations]
  BY <1>1, ShipFields
<1>4. CASE n = m
  BY <1>1, <1>4, StaysMoves, MovesAreSound
<1>5. ASSUME station # NoOne PROVE m.meeting.phase = "none"
  BY <1>5 DEF ShipSound, Solid, Convened
<1>6. CASE station # NoOne /\ n = [m EXCEPT !.working[p] = NoOne]
  <2>1. n \in ShipMatch /\ Kept(m, n) /\ n.sabotage = m.sabotage
    BY <1>1, <1>6 DEF ShipMatch, Kept, Consoles
  <2>2. n.working = [m.working EXCEPT ![p] = NoOne]
    BY <1>1, <1>6 DEF ShipMatch
  <2>3. Moves(m, n)
    BY <1>3, <1>5, <1>6, <2>1, <2>2 DEF Moves
  <2> QED BY <2>3, MovesAreSound
<1>7. CASE station # NoOne /\ n = [m EXCEPT !.working[p] = NoOne,
                                            !.completed[p] = @ \cup {station},
                                            !.taskDone = @ + done]
  <2>1. /\ station \in m.tasks[p] \ m.completed[p]
        /\ station \in Stations
    BY <1>1, <1>3, <1>7, ShipFields DEF ShipSound, Solid, Counted, Consoles
  <2>2. m.taskDone \in Nat /\ done \in Nat
    BY <1>1, ShipFields
  <2>3. /\ n.status = m.status /\ n.ticking = m.ticking /\ n.pending = m.pending
        /\ n.traitors = m.traitors /\ n.alive = m.alive /\ n.tasks = m.tasks
        /\ n.meeting = m.meeting /\ n.result = m.result /\ n.sabotage = m.sabotage
        /\ n.working = [m.working EXCEPT ![p] = NoOne]
        /\ n.completed = [m.completed EXCEPT ![p] = m.completed[p] \cup {station}]
        /\ n.taskDone = m.taskDone + done
    BY <1>1, <1>7 DEF ShipMatch
  <2>4. n \in ShipMatch
    <3>1. [m.working EXCEPT ![p] = NoOne] \in [ShipSeats -> Consoles]
      BY <1>3 DEF Consoles
    <3>2. [m.completed EXCEPT ![p] = m.completed[p] \cup {station}]
            \in [ShipSeats -> SUBSET Stations]
      BY <1>3, <2>1
    <3>3. m.taskDone + done \in Nat
      BY <2>2
    <3> DEFINE w == [m.working EXCEPT ![p] = NoOne]
               c == [m.completed EXCEPT ![p] = m.completed[p] \cup {station}]
               d == m.taskDone + done
    <3>4. n = [m EXCEPT !.working = w, !.completed = c, !.taskDone = d]
      BY <1>1, <1>7
    <3>5. w \in [ShipSeats -> Consoles] /\ c \in [ShipSeats -> SUBSET Stations] /\ d \in Nat
      BY <3>1, <3>2, <3>3
    <3> HIDE DEF w, c, d
    <3> QED BY <1>1, <3>4, <3>5 DEF ShipMatch
  <2>5. /\ SpaceGame!Living(n) = SpaceGame!Living(m)
        /\ Traitors(n) = Traitors(m) /\ Crew(n) = Crew(m)
        /\ SpaceGame!TaskTotal(n) = SpaceGame!TaskTotal(m)
    BY <2>3, SameCrew
  <2>6. IsFiniteSet(Repairs(m)) /\ m.taskDone = Cardinality(Repairs(m))
    BY <1>1, RepairsBounded DEF ShipSound, Solid, Counted
  <2>7. n.taskDone = Cardinality(Repairs(n))
    <3>1. CASE p \in m.traitors
      <4>1. Repairs(n) = Repairs(m)
        BY <1>3, <2>3, <3>1 DEF Repairs
      <4> QED BY <2>2, <2>3, <2>6, <3>1, <4>1
    <3>2. CASE p \notin m.traitors
      <4>1. Repairs(n) = Repairs(m) \cup {<<p, station>>}
        BY <1>3, <2>1, <2>3, <3>2 DEF Repairs
      <4>2. <<p, station>> \notin Repairs(m)
        BY <2>1 DEF Repairs
      <4>3. Cardinality(Repairs(m) \cup {<<p, station>>}) = Cardinality(Repairs(m)) + 1
        BY <2>6, <4>2, FS_AddElement
      <4> QED BY <2>3, <2>6, <3>2, <4>1, <4>3
    <3> QED BY <3>1, <3>2
  <2>8. Counted(n)
    BY <1>3, <2>1, <2>3, <2>7 DEF ShipSound, Solid, Counted
  <2>9. Convened(n)
    BY <1>5, <1>7, <2>3 DEF Convened
  <2>10. Repaired(m) => Repaired(n)
    <3>1. n.taskDone <= SpaceGame!TaskTotal(n)
      BY <2>4, <2>8, RepairsBounded
    <3>2. SpaceGame!TaskTotal(m) \in Nat
      BY <1>1, ShipCounts
    <3> QED BY <2>2, <2>3, <2>5, <3>1, <3>2 DEF Repaired
  <2>11. Decided(n)
    BY <2>3, <2>5, <2>10 DEF ShipSound, Decided
  <2>12. View(n) = View(m)
    BY <2>3, <2>5 DEF View, SpaceGame!InMeeting
  <2> QED BY <2>3, <2>4, <2>8, <2>9, <2>11, <2>12 DEF Does, ShipSound, Solid, MeetStep
<1> QED BY <1>2, <1>4, <1>6, <1>7

\* What a decision changes, and what checkWin decides.
LEMMA Finished ==
  ASSUME NEW m, Solid(m), NEW team \in {"crew", "traitors"}, m.status = "playing"
  PROVE  LET n == SpaceGame!Finish(m, team)
         IN  /\ Solid(n) /\ n.status = "completed"
             /\ n.ticking = m.ticking /\ n.pending = m.pending
             /\ n.traitors = m.traitors /\ n.alive = m.alive /\ n.meeting = m.meeting
             /\ n.sabotage = m.sabotage /\ n.taskDone = m.taskDone
             /\ n.result.team = team /\ n.result.survivors = SpaceGame!Living(m)
<1> DEFINE n == SpaceGame!Finish(m, team)
           result == [team |-> team, survivors |-> SpaceGame!Living(m)]
<1>1. m \in ShipMatch
  BY DEF Solid
<1>2. result \in [team : {"none", "crew", "traitors"}, survivors : Roster]
  BY <1>1, ShipCounts
<1>3. n = [m EXCEPT !.status = "completed", !.result = result]
  BY DEF SpaceGame!Finish
<1> HIDE DEF n
<1>4. n \in ShipMatch /\ n.result = result /\ n.status = "completed"
  <2> HIDE DEF result
  <2> QED BY <1>1, <1>2, <1>3 DEF ShipMatch
<1>5. /\ n.ticking = m.ticking /\ n.pending = m.pending
      /\ n.traitors = m.traitors /\ n.alive = m.alive /\ n.tasks = m.tasks
      /\ n.completed = m.completed /\ n.working = m.working /\ n.vent = m.vent
      /\ n.bodies = m.bodies /\ n.sabotage = m.sabotage /\ n.meeting = m.meeting
      /\ n.taskDone = m.taskDone
  <2> HIDE DEF result
  <2> QED BY <1>1, <1>3 DEF ShipMatch
<1>6. SpaceGame!Living(n) = SpaceGame!Living(m)
  BY <1>5, SameCrew
<1>7. Repairs(n) = Repairs(m)
  BY <1>5 DEF Repairs
<1>8. Counted(n)
  BY <1>5, <1>7 DEF Solid, Counted
<1>9. Convened(n)
  BY <1>4, <1>5, <1>6 DEF Solid, Convened
<1>10. Solid(n)
  BY <1>4, <1>5, <1>8, <1>9 DEF Solid
<1> QED BY <1>4, <1>5, <1>10 DEF n

\* checkWin ends the match when its rules say and leaves it open otherwise.
LEMMA WinChecked ==
  ASSUME NEW m, Solid(m), m.status = "playing"
  PROVE  LET n == SpaceGame!CheckWin(m)
         IN  /\ Solid(n) /\ n.ticking = m.ticking /\ n.pending = m.pending
             /\ n.traitors = m.traitors /\ n.alive = m.alive /\ n.meeting = m.meeting
             /\ n.sabotage = m.sabotage /\ n.taskDone = m.taskDone
             /\ n.status = "playing" =>
                   Traitors(n) > 0 /\ Traitors(n) < Crew(n) /\ ~Repaired(n)
             /\ n.status = "completed" =>
                   /\ n.result.survivors = SpaceGame!Living(n)
                   /\ n.result.team = "crew" => Traitors(n) = 0 \/ Repaired(n)
                   /\ n.result.team = "traitors" => Traitors(n) >= Crew(n)
<1> DEFINE n == SpaceGame!CheckWin(m)
<1>1. m \in ShipMatch /\ Counted(m)
  BY DEF Solid
<1>2. /\ Traitors(m) \in Nat /\ Crew(m) \in Nat /\ SpaceGame!TaskTotal(m) \in Nat
      /\ m.taskDone \in Nat /\ m.taskDone <= SpaceGame!TaskTotal(m)
  BY <1>1, ShipCounts, ShipFields, RepairsBounded
<1>3. n = IF Traitors(m) = 0 THEN SpaceGame!Finish(m, "crew")
          ELSE IF SpaceGame!TaskTotal(m) > 0 /\ m.taskDone >= SpaceGame!TaskTotal(m)
               THEN SpaceGame!Finish(m, "crew")
          ELSE IF Traitors(m) >= Crew(m) THEN SpaceGame!Finish(m, "traitors")
          ELSE m
  BY SameCount DEF SpaceGame!CheckWin, Traitors, Crew
<1> HIDE DEF n
<1>4. n.traitors = m.traitors /\ n.alive = m.alive
  BY <1>3, Finished
<1>5. /\ SpaceGame!Living(n) = SpaceGame!Living(m)
      /\ Traitors(n) = Traitors(m) /\ Crew(n) = Crew(m)
      /\ SpaceGame!TaskTotal(n) = SpaceGame!TaskTotal(m)
  BY <1>4, SameCrew
<1>6. /\ Solid(n) /\ n.ticking = m.ticking /\ n.pending = m.pending
      /\ n.traitors = m.traitors /\ n.alive = m.alive /\ n.meeting = m.meeting
      /\ n.sabotage = m.sabotage /\ n.taskDone = m.taskDone
  BY <1>3, Finished
<1>7. CASE Traitors(m) = 0
  BY <1>3, <1>5, <1>6, <1>7, Finished DEF n
<1>8. CASE /\ Traitors(m) # 0
           /\ SpaceGame!TaskTotal(m) > 0 /\ m.taskDone >= SpaceGame!TaskTotal(m)
  <2>1. Repaired(n)
    BY <1>2, <1>5, <1>6, <1>8 DEF Repaired
  <2> QED BY <1>3, <1>5, <1>6, <1>8, <2>1, Finished DEF n
<1>9. CASE /\ Traitors(m) # 0 /\ Traitors(m) >= Crew(m)
           /\ ~(SpaceGame!TaskTotal(m) > 0 /\ m.taskDone >= SpaceGame!TaskTotal(m))
  BY <1>3, <1>5, <1>6, <1>9, Finished DEF n
<1>10. CASE /\ Traitors(m) # 0 /\ ~(Traitors(m) >= Crew(m))
            /\ ~(SpaceGame!TaskTotal(m) > 0 /\ m.taskDone >= SpaceGame!TaskTotal(m))
  <2>1. n = m
    BY <1>3, <1>10
  <2>2. ~Repaired(n)
    BY <1>2, <1>10, <2>1 DEF Repaired
  <2> QED BY <1>2, <1>6, <1>10, <2>1, <2>2 DEF n
<1> QED BY <1>7, <1>8, <1>9, <1>10

\* A meeting that opens stops all work and everybody's vote is still to come.
LEMMA MeetingOpens ==
  ASSUME NEW m, ShipSound(m), m.status = "playing", ~SpaceGame!InMeeting(m)
  PROVE  Does(m, SpaceGame!OpenMeeting(m))
<1> DEFINE n == SpaceGame!OpenMeeting(m)
           ballots == [p \in ShipSeats |-> SpaceGame!Unvoted]
           idle == [p \in ShipSeats |-> NoOne]
           out == [p \in ShipSeats |-> FALSE]
           round == [p \in ShipSeats |-> Table]
           opened == [phase |-> "discussion", votes |-> ballots]
<1>1. m \in ShipMatch
  BY DEF ShipSound, Solid
<1>2. /\ ballots \in Ballots /\ idle \in [ShipSeats -> Consoles] /\ out \in Flags
      /\ round \in [ShipSeats -> Places]
  BY ShipFacts DEF Ballots, Consoles, Flags
<1>3. n = [m EXCEPT !.meeting = opened, !.bodies = {}, !.working = idle, !.vent = out,
                    !.place = round, !.sabotage = "none"]
  BY DEF SpaceGame!OpenMeeting, SpaceGame!NoMeeting
<1>4. \A p \in ShipSeats : ballots[p] = SpaceGame!Unvoted /\ idle[p] = NoOne /\ ~out[p]
  OBVIOUS
<1> HIDE DEF n, ballots, idle, out, round
<1>5. n \in ShipMatch
  BY <1>1, <1>2, <1>3 DEF ShipMatch
<1>6. /\ n.status = m.status /\ n.ticking = m.ticking /\ n.pending = m.pending
      /\ n.traitors = m.traitors /\ n.alive = m.alive /\ n.tasks = m.tasks
      /\ n.completed = m.completed /\ n.taskDone = m.taskDone /\ n.result = m.result
      /\ n.working = idle /\ n.vent = out /\ n.bodies = {} /\ n.sabotage = "none"
      /\ n.meeting.phase = "discussion" /\ n.meeting.votes = ballots
  BY <1>1, <1>3 DEF ShipMatch
<1>7. /\ SpaceGame!Living(n) = SpaceGame!Living(m)
      /\ Traitors(n) = Traitors(m) /\ Crew(n) = Crew(m)
      /\ SpaceGame!TaskTotal(n) = SpaceGame!TaskTotal(m)
  BY <1>6, SameCrew
<1>8. Counted(n)
  <2>1. Repairs(n) = Repairs(m)
    BY <1>6 DEF Repairs
  <2> QED BY <1>4, <1>6, <2>1 DEF ShipSound, Solid, Counted
<1>9. Convened(n)
  BY <1>4, <1>6 DEF Convened
<1>10. Decided(n)
  BY <1>6, <1>7 DEF ShipSound, Decided, Repaired
<1>11. MeetStep(m, n)
  BY <1>6, <1>7 DEF MeetStep, SpaceGame!InMeeting
<1>12. Does(m, n)
  BY <1>5, <1>6, <1>8, <1>9, <1>10, <1>11 DEF Does, ShipSound, Solid
<1> QED BY <1>12 DEF n

\* A report opens a meeting or does nothing.
LEMMA ReportDoes ==
  ASSUME NEW m, NEW p \in ShipSeats, NEW n \in SpaceGame!Report(m, p),
         ShipSound(m), m.status = "playing"
  PROVE  Does(m, n)
<1>1. ~SpaceGame!InMeeting(m) /\ n = SpaceGame!OpenMeeting(m)
  BY DEF SpaceGame!Report
<1> QED BY <1>1, MeetingOpens

\* A step that only moves may come before or after another.
LEMMA MovesThenDoes ==
  ASSUME NEW m, NEW k, NEW n, ShipSound(m), Moves(m, k), Does(k, n)
  PROVE  Does(m, n)
<1>1. Does(m, k) /\ View(k) = View(m) /\ k.status = m.status
  BY MovesAreSound DEF Moves, Kept
<1>2. /\ SpaceGame!Living(k) = SpaceGame!Living(m)
      /\ SpaceGame!InMeeting(k) <=> SpaceGame!InMeeting(m)
  BY <1>1 DEF View
<1>3. MeetStep(m, n)
  BY <1>1, <1>2 DEF Does, MeetStep, OneLess
<1> QED BY <1>1, <1>3 DEF Does

\* A step followed by one that shows nothing is one step.
LEMMA DoesThenSame ==
  ASSUME NEW m, NEW k, NEW n, Does(m, k), Does(k, n), View(n) = View(k)
  PROVE  Does(m, n)
<1>1. /\ k.status \in {"playing", "completed"} /\ n.status \in {"playing", "completed"}
  BY ShipFields DEF Does, ShipSound, Solid
<1>2. /\ SpaceGame!Living(n) = SpaceGame!Living(k)
      /\ SpaceGame!InMeeting(n) <=> SpaceGame!InMeeting(k)
      /\ (n.status = "completed") <=> (k.status = "completed")
      /\ n.status = k.status
  BY <1>1 DEF View
<1>3. MeetStep(m, n)
  BY <1>2 DEF Does, MeetStep, OneLess
<1> QED BY <1>3 DEF Does

\* An alarm opens a meeting or does nothing.
LEMMA EmergencyDoes ==
  ASSUME NEW m, NEW p \in ShipSeats, NEW n \in SpaceGame!Emergency(m, p),
         ShipSound(m), m.status = "playing"
  PROVE  Does(m, n)
<1> DEFINE k == [m EXCEPT !.emergencies[p] = @ - 1]
<1>1. m \in ShipMatch
  BY DEF ShipSound, Solid
<1>2. /\ ~SpaceGame!InMeeting(m) /\ m.emergencies[p] > 0
      /\ n = SpaceGame!OpenMeeting(k)
  BY DEF SpaceGame!Emergency
<1>3. m.emergencies[p] - 1 \in Nat
  BY <1>1, <1>2, ShipFields
<1>4. Moves(m, k)
  <2>1. k \in ShipMatch
    BY <1>1, <1>3 DEF ShipMatch
  <2>2. Kept(m, k) /\ k.working = m.working /\ k.vent = m.vent /\ k.sabotage = m.sabotage
    BY <1>1 DEF ShipMatch, Kept
  <2> HIDE DEF k
  <2> QED BY <2>1, <2>2 DEF Moves
<1> HIDE DEF k
<1>5. ShipSound(k) /\ k.status = "playing" /\ ~SpaceGame!InMeeting(k)
  BY <1>2, <1>4, MovesAreSound DEF Does, Moves, Kept, SpaceGame!InMeeting
<1> QED BY <1>2, <1>4, <1>5, MeetingOpens, MovesThenDoes

\* An elimination: one of the living crew, outside a meeting, and then checkWin.
LEMMA EliminateDoes ==
  ASSUME NEW m, NEW p \in ShipSeats, NEW n \in SpaceGame!Eliminate(m, p),
         ShipSound(m), m.status = "playing"
  PROVE  Does(m, n) /\ n.meeting = m.meeting
<1>1. m \in ShipMatch /\ m.meeting.phase = "none" /\ p \in ShipSeats
  BY DEF ShipSound, Solid, SpaceGame!Eliminate, SpaceGame!InMeeting
<1>2. PICK t \in SpaceGame!Living(m) \ m.traitors :
        n = SpaceGame!CheckWin([m EXCEPT !.alive[t] = FALSE,
                                         !.working[t] = NoOne,
                                         !.bodies = @ \cup {m.place[t]},
                                         !.place[t] = Table,
                                         !.cooling[p] = TRUE])
  BY DEF SpaceGame!Eliminate
<1> DEFINE k == [m EXCEPT !.alive[t] = FALSE,
                          !.working[t] = NoOne,
                          !.bodies = @ \cup {m.place[t]},
                          !.place[t] = Table,
                          !.cooling[p] = TRUE]
<1>3. t \in ShipSeats
  BY <1>1, <1>2, ShipCounts DEF Roster
<1>4. k \in ShipMatch
  <2>1. m.place[t] \in Places /\ Table \in Places
    BY <1>1, <1>3, ShipFields, ShipFacts
  <2> QED BY <1>1, <1>3, <2>1 DEF ShipMatch, Flags, Consoles
<1>5. /\ k.status = m.status /\ k.ticking = m.ticking /\ k.pending = m.pending
      /\ k.traitors = m.traitors /\ k.tasks = m.tasks
      /\ k.completed = m.completed /\ k.taskDone = m.taskDone /\ k.result = m.result
      /\ k.meeting = m.meeting
      /\ k.alive = [m.alive EXCEPT ![t] = FALSE]
      /\ k.working = [m.working EXCEPT ![t] = NoOne]
  BY <1>1 DEF ShipMatch
<1> HIDE DEF k
<1>6. /\ m.alive \in Flags /\ m.working \in [ShipSeats -> Consoles]
  BY <1>1, ShipFields
<1>7. Counted(k)
  <2>1. Repairs(k) = Repairs(m)
    BY <1>5 DEF Repairs
  <2> QED BY <1>5, <1>6, <2>1 DEF ShipSound, Solid, Counted
<1>8. Convened(k)
  BY <1>1, <1>5 DEF Convened
<1>9. Solid(k) /\ k.status = "playing"
  BY <1>4, <1>5, <1>7, <1>8 DEF ShipSound, Solid
<1>10. SpaceGame!Living(k) = SpaceGame!Living(m) \ {t}
  BY <1>3, <1>5, <1>6 DEF SpaceGame!Living, Flags
<1>11. n = SpaceGame!CheckWin(k)
  BY <1>2 DEF k
<1>12. /\ Solid(n) /\ n.alive = k.alive /\ n.traitors = k.traitors
       /\ n.ticking = k.ticking /\ n.pending = k.pending /\ n.meeting = k.meeting
  BY <1>9, <1>11, WinChecked
<1>13. SpaceGame!Living(n) = SpaceGame!Living(k)
  BY <1>12, SameCrew
<1>14. Decided(n)
  BY <1>9, <1>11, WinChecked DEF Decided
<1>15. MeetStep(m, n)
  BY <1>1, <1>2, <1>5, <1>10, <1>12, <1>13 DEF MeetStep, OneLess, SpaceGame!InMeeting
<1> QED BY <1>5, <1>12, <1>14, <1>15 DEF Does, ShipSound

\* No two can both have the most votes.
LEMMA OneEjected ==
  ASSUME NEW m, NEW p \in SpaceGame!Ejected(m), NEW q \in SpaceGame!Ejected(m)
  PROVE  p = q
<1> DEFINE Count(c) == Cardinality({r \in ShipSeats : m.meeting.votes[r] = c})
<1>1. SpaceGame!Ejected(m) =
        {r \in ShipSeats : /\ Count(r) > Count(NoOne)
                           /\ \A s \in ShipSeats \ {r} : Count(r) > Count(s)}
  BY SameCount DEF SpaceGame!Ejected
<1>2. \A c : Count(c) \in Nat
  <2> TAKE c
  <2>1. {r \in ShipSeats : m.meeting.votes[r] = c} \in SUBSET ShipSeats
    OBVIOUS
  <2> QED BY <2>1, ShipFacts, FS_Subset, FS_CardinalityType
<1> HIDE DEF Count
<1> SUFFICES ASSUME p # q PROVE FALSE
  OBVIOUS
<1>3. Count(p) > Count(q) /\ Count(q) > Count(p)
  BY <1>1
<1> QED BY <1>2, <1>3

\* The count ejects one at most, and may decide the match.
LEMMA CloseDoes ==
  ASSUME NEW m \in ShipMatch, Counted(m), ~m.ticking => m.pending = {},
         m.status = "playing", SpaceGame!InMeeting(m)
  PROVE  Does(m, SpaceGame!CloseMeeting(m))
<1> DEFINE n == SpaceGame!CloseMeeting(m)
           alive == [p \in ShipSeats |-> m.alive[p] /\ p \notin SpaceGame!Ejected(m)]
           cooling == [p \in ShipSeats |-> m.cooling[p] \/ p \in m.traitors]
           ballots == [p \in ShipSeats |-> SpaceGame!Unvoted]
           over == [phase |-> "none", votes |-> ballots]
           k == [m EXCEPT !.alive = alive, !.meeting = over, !.bodies = {},
                          !.cooling = cooling]
<1>1. n = SpaceGame!CheckWin(k)
  BY DEF SpaceGame!CloseMeeting, SpaceGame!NoMeeting
<1>2. alive \in Flags /\ cooling \in Flags /\ ballots \in Ballots
  BY DEF Flags, Ballots
<1>3. \A p \in ShipSeats : alive[p] <=> m.alive[p] /\ p \notin SpaceGame!Ejected(m)
  OBVIOUS
<1> HIDE DEF n, alive, cooling, ballots
<1>4. k \in ShipMatch
  BY <1>2 DEF ShipMatch
<1>5. /\ k.status = m.status /\ k.ticking = m.ticking /\ k.pending = m.pending
      /\ k.traitors = m.traitors /\ k.tasks = m.tasks
      /\ k.completed = m.completed /\ k.taskDone = m.taskDone
      /\ k.working = m.working /\ k.alive = alive /\ k.meeting.phase = "none"
  BY DEF ShipMatch
<1> HIDE DEF k
<1>6. Counted(k)
  <2>1. Repairs(k) = Repairs(m)
    BY <1>5 DEF Repairs
  <2> QED BY <1>5, <2>1 DEF Counted
<1>7. Convened(k)
  BY <1>5 DEF Convened
<1>8. Solid(k) /\ k.status = "playing"
  BY <1>4, <1>5, <1>6, <1>7 DEF Solid
<1>9. SpaceGame!Living(k) = SpaceGame!Living(m) \ SpaceGame!Ejected(m)
  BY <1>3, <1>5 DEF SpaceGame!Living
<1>10. SpaceGame!Living(k) = SpaceGame!Living(m) \/ OneLess(m, k)
  <2>1. CASE SpaceGame!Living(m) \cap SpaceGame!Ejected(m) = {}
    BY <1>9, <2>1
  <2>2. CASE SpaceGame!Living(m) \cap SpaceGame!Ejected(m) # {}
    <3>1. PICK p \in SpaceGame!Living(m) : p \in SpaceGame!Ejected(m)
      BY <2>2
    <3>2. SpaceGame!Ejected(m) = {p}
      BY <3>1, OneEjected
    <3> QED BY <1>9, <3>1, <3>2 DEF OneLess
  <2> QED BY <2>1, <2>2
<1>11. /\ Solid(n) /\ n.alive = k.alive /\ n.traitors = k.traitors
       /\ n.ticking = k.ticking /\ n.pending = k.pending /\ n.meeting = k.meeting
  BY <1>1, <1>8, WinChecked
<1>12. SpaceGame!Living(n) = SpaceGame!Living(k)
  BY <1>11, SameCrew
<1>13. Decided(n)
  BY <1>1, <1>8, WinChecked DEF Decided
<1>14. MeetStep(m, n)
  BY <1>5, <1>10, <1>11, <1>12 DEF MeetStep, OneLess, SpaceGame!InMeeting
<1>15. Does(m, n)
  BY <1>5, <1>11, <1>13, <1>14 DEF Does, ShipSound
<1> QED BY <1>15 DEF n

\* A vote is counted once, and the last one closes the meeting.
LEMMA VoteDoes ==
  ASSUME NEW m, NEW p \in ShipSeats, NEW n \in SpaceGame!Vote(m, p),
         ShipSound(m), m.status = "playing"
  PROVE  Does(m, n)
<1>1. /\ m \in ShipMatch /\ m.meeting.phase = "voting" /\ m.alive[p]
  BY DEF ShipSound, Solid, SpaceGame!Vote
<1>2. PICK choice \in SpaceGame!Living(m) \cup {NoOne} :
        n = LET voted == [m EXCEPT !.meeting.votes[p] = choice]
            IN  IF \A q \in SpaceGame!Living(m) : voted.meeting.votes[q] # SpaceGame!Unvoted
                THEN SpaceGame!CloseMeeting(voted) ELSE voted
  BY DEF SpaceGame!Vote
<1> DEFINE k == [m EXCEPT !.meeting.votes[p] = choice]
<1>3. choice \in ShipSeats \cup {NoOne}
  BY <1>1, <1>2, ShipCounts DEF Roster
<1>4. k \in ShipMatch
  BY <1>1, <1>3 DEF ShipMatch, Ballots
<1>5. /\ k.status = m.status /\ k.ticking = m.ticking /\ k.pending = m.pending
      /\ k.traitors = m.traitors /\ k.alive = m.alive /\ k.tasks = m.tasks
      /\ k.completed = m.completed /\ k.taskDone = m.taskDone /\ k.result = m.result
      /\ k.working = m.working /\ k.vent = m.vent /\ k.bodies = m.bodies
      /\ k.sabotage = m.sabotage /\ k.meeting.phase = "voting"
      /\ k.meeting.votes = [m.meeting.votes EXCEPT ![p] = choice]
  BY <1>1 DEF ShipMatch
<1>6. n = IF \A q \in SpaceGame!Living(m) : k.meeting.votes[q] # SpaceGame!Unvoted
          THEN SpaceGame!CloseMeeting(k) ELSE k
  BY <1>2
<1> HIDE DEF k
<1>7. /\ SpaceGame!Living(k) = SpaceGame!Living(m)
      /\ Traitors(k) = Traitors(m) /\ Crew(k) = Crew(m)
      /\ SpaceGame!TaskTotal(k) = SpaceGame!TaskTotal(m)
  BY <1>5, SameCrew
<1>8. Counted(k)
  <2>1. Repairs(k) = Repairs(m)
    BY <1>5 DEF Repairs
  <2> QED BY <1>5, <2>1 DEF ShipSound, Solid, Counted
<1>9. View(k) = View(m)
  BY <1>1, <1>5, <1>7 DEF View, SpaceGame!InMeeting
<1>10. CASE \A q \in SpaceGame!Living(m) : k.meeting.votes[q] # SpaceGame!Unvoted
  <2>1. Does(k, n)
    BY <1>4, <1>5, <1>6, <1>8, <1>10, CloseDoes DEF ShipSound, Solid, SpaceGame!InMeeting
  <2>2. MeetStep(m, n)
    BY <1>1, <1>5, <1>7, <1>9, <2>1 DEF Does, MeetStep, OneLess, SpaceGame!InMeeting
  <2> QED BY <1>5, <2>1, <2>2 DEF Does
<1>11. CASE ~\A q \in SpaceGame!Living(m) : k.meeting.votes[q] # SpaceGame!Unvoted
  <2>1. n = k
    BY <1>6, <1>11
  <2>2. m.meeting.votes \in Ballots
    BY <1>1, ShipFields
  <2>3. Convened(k)
    BY <1>1, <1>2, <1>5, <1>7, <1>11, <2>2 DEF ShipSound, Solid, Convened, Ballots
  <2>4. Decided(k)
    BY <1>5, <1>7 DEF ShipSound, Decided, Repaired
  <2> QED BY <1>4, <1>5, <1>8, <1>9, <2>1, <2>3, <2>4 DEF Does, ShipSound, Solid, MeetStep
<1> QED BY <1>10, <1>11

\* A Stupid's step, of whichever kind.
LEMMA BotActsDoes ==
  ASSUME NEW m, NEW p \in ShipSeats, NEW n \in SpaceGame!BotActs(m, p), ShipSound(m)
  PROVE  Does(m, n)
<1>1. m \in ShipMatch
  BY DEF ShipSound, Solid
<1>2. \/ n = m
      \/ /\ m.status = "playing"
         /\ \/ n \in SpaceGame!Sabotage(m, p)
            \/ n \in SpaceGame!Task(m, p)
            \/ n \in SpaceGame!Report(m, p)
            \/ n \in SpaceGame!Vent(m, p)
            \/ n \in SpaceGame!Eliminate(m, p)
            \/ \E k \in SpaceGame!Eliminate(m, p) : n \in SpaceGame!Vent(k, p)
  BY DEF SpaceGame!BotActs
<1>3. CASE n = m
  BY <1>1, <1>3, StaysMoves, MovesAreSound
<1>4. CASE m.status = "playing" /\ n \in SpaceGame!Sabotage(m, p)
  BY <1>1, <1>4, SabotageMoves, MovesAreSound
<1>5. CASE m.status = "playing" /\ n \in SpaceGame!Task(m, p)
  BY <1>1, <1>5, TaskMoves, MovesAreSound
<1>6. CASE m.status = "playing" /\ n \in SpaceGame!Report(m, p)
  BY <1>6, ReportDoes
<1>7. CASE m.status = "playing" /\ n \in SpaceGame!Eliminate(m, p)
  BY <1>7, EliminateDoes
<1>8. ASSUME m.status = "playing", NEW k \in SpaceGame!Eliminate(m, p),
             n \in SpaceGame!Vent(k, p)
      PROVE  Does(m, n)
  <2>1. Does(m, k)
    BY <1>8, EliminateDoes
  <2>2. k \in ShipMatch /\ ShipSound(k)
    BY <2>1 DEF Does, ShipSound, Solid
  <2>3. Does(k, n) /\ View(n) = View(k)
    BY <1>8, <2>2, VentMoves, MovesAreSound
  <2> QED BY <2>1, <2>3, DoesThenSame
<1>9. CASE m.status = "playing" /\ n \in SpaceGame!Vent(m, p)
  BY <1>1, <1>9, VentMoves, MovesAreSound
<1> QED BY <1>2, <1>3, <1>4, <1>5, <1>6, <1>7, <1>8, <1>9

-----------------------------------------------------------------------------
(* The ship *)

\* Whatever an input, a tick or the meeting's clock does to the match, it stays
\* sound, and the platform sees a step of ShipMeetings or none.
ShipStep == ShipSound(state') /\ MeetStep(state, state')

\* A ship departs sound, with no meeting on.
LEMMA ShipBegins == ASSUME SpaceGame!Init PROVE ShipSound(state) /\ ~SpaceGame!InMeeting(state)
                                /\ SpaceGame!Living(state) = ShipSeats
                                /\ state.status = "playing"
<1>1. PICK traitors \in SpaceGame!kSubset(TraitorCount, ShipSeats),
           tasks \in [ShipSeats -> SpaceGame!kSubset(TasksEach, Stations)] :
        state = [status |-> "playing", ticking |-> FALSE, pending |-> {},
                 traitors |-> traitors,
                 alive |-> [p \in ShipSeats |-> TRUE],
                 place |-> [p \in ShipSeats |-> Table],
                 tasks |-> tasks,
                 completed |-> [p \in ShipSeats |-> {}],
                 working |-> [p \in ShipSeats |-> NoOne],
                 cooling |-> [p \in ShipSeats |-> p \in traitors],
                 vent |-> [p \in ShipSeats |-> FALSE],
                 bodies |-> {}, sabotage |-> "none", meeting |-> SpaceGame!NoMeeting,
                 emergencies |-> [p \in ShipSeats |-> EmergenciesEach],
                 taskDone |-> 0, result |-> SpaceGame!NoResult]
  BY DEF SpaceGame!Init, SpaceGame!Create
<1>2. traitors \in SUBSET ShipSeats /\ Cardinality(traitors) = TraitorCount
  BY SameCount DEF SpaceGame!kSubset
<1>3. \A p \in ShipSeats : tasks[p] \in SUBSET Stations /\ Cardinality(tasks[p]) = TasksEach
  BY SameCount DEF SpaceGame!kSubset
<1>4. tasks \in [ShipSeats -> SUBSET Stations]
  BY <1>3
<1>5. /\ state.status = "playing" /\ ~state.ticking /\ state.pending = {}
      /\ state.traitors = traitors /\ state.tasks = tasks
      /\ state.alive = [p \in ShipSeats |-> TRUE]
      /\ state.completed = [p \in ShipSeats |-> {}]
      /\ state.working = [p \in ShipSeats |-> NoOne]
      /\ state.taskDone = 0 /\ state.meeting = SpaceGame!NoMeeting
  BY <1>1
<1>6. state \in ShipMatch
  <2>1. /\ [p \in ShipSeats |-> TRUE] \in Flags /\ [p \in ShipSeats |-> FALSE] \in Flags
        /\ [p \in ShipSeats |-> p \in traitors] \in Flags
    BY DEF Flags
  <2>2. /\ [p \in ShipSeats |-> Table] \in [ShipSeats -> Places]
        /\ [p \in ShipSeats |-> {}] \in [ShipSeats -> SUBSET Stations]
        /\ [p \in ShipSeats |-> NoOne] \in [ShipSeats -> Consoles]
        /\ [p \in ShipSeats |-> EmergenciesEach] \in [ShipSeats -> Nat]
    BY ShipFacts DEF Consoles
  <2>3. SpaceGame!NoMeeting \in [phase : {"none", "discussion", "voting"}, votes : Ballots]
    BY DEF SpaceGame!NoMeeting, Ballots
  <2>4. SpaceGame!NoResult \in [team : {"none", "crew", "traitors"}, survivors : Roster]
    BY DEF SpaceGame!NoResult, Roster
  <2> QED BY <1>1, <1>2, <1>4, <2>1, <2>2, <2>3, <2>4 DEF ShipMatch, Roster
<1>7. state.meeting.phase = "none"
  BY <1>5 DEF SpaceGame!NoMeeting
<1>8. SpaceGame!Living(state) = ShipSeats
  BY <1>5 DEF SpaceGame!Living
<1>9. Counted(state)
  <2>1. Repairs(state) = {}
    BY <1>5 DEF Repairs
  <2> QED BY <1>3, <1>5, <2>1, FS_EmptySet DEF Counted
<1>10. Convened(state)
  BY <1>7 DEF Convened
<1>11. Traitors(state) = TraitorCount
  <2>1. SpaceGame!LivingTraitors(state) = traitors
    BY <1>2, <1>5, <1>8 DEF SpaceGame!LivingTraitors
  <2> QED BY <1>2, <2>1 DEF Traitors
<1>12. Decided(state)
  <2>1. Traitors(state) > 0 /\ Traitors(state) < Crew(state)
    BY <1>8, <1>11, ShipFacts DEF Crew
  <2>2. ~Repaired(state)
    BY <1>5 DEF Repaired
  <2> QED BY <1>5, <2>1, <2>2 DEF Decided
<1>13. ~SpaceGame!InMeeting(state)
  BY <1>7 DEF SpaceGame!InMeeting
<1> QED BY <1>5, <1>6, <1>8, <1>9, <1>10, <1>12, <1>13 DEF ShipSound, Solid

\* Whatever a player sends between ticks keeps the ship sound.
LEMMA InputKeeps ==
  ASSUME ShipSound(state), NEW p \in ShipSeats,
         \/ SpaceGame!Input(p, SpaceGame!Task(state, p))
         \/ SpaceGame!Input(p, SpaceGame!Eliminate(state, p))
         \/ SpaceGame!Input(p, SpaceGame!Report(state, p))
         \/ SpaceGame!Input(p, SpaceGame!Emergency(state, p))
         \/ SpaceGame!Input(p, SpaceGame!Vote(state, p))
         \/ SpaceGame!Input(p, SpaceGame!Sabotage(state, p))
         \/ SpaceGame!Input(p, SpaceGame!Vent(state, p))
         \/ SpaceGame!BotVotes(p)
  PROVE  ShipStep
<1>1. state.status = "playing" /\ state \in ShipMatch
  BY DEF SpaceGame!Input, SpaceGame!BotVotes, SpaceGame!Between, ShipSound, Solid
<1>2. \/ state' \in SpaceGame!Task(state, p)
      \/ state' \in SpaceGame!Eliminate(state, p)
      \/ state' \in SpaceGame!Report(state, p)
      \/ state' \in SpaceGame!Emergency(state, p)
      \/ state' \in SpaceGame!Vote(state, p)
      \/ state' \in SpaceGame!Sabotage(state, p)
      \/ state' \in SpaceGame!Vent(state, p)
  BY DEF SpaceGame!Input, SpaceGame!BotVotes
<1>3. CASE \/ state' \in SpaceGame!Task(state, p)
           \/ state' \in SpaceGame!Sabotage(state, p)
           \/ state' \in SpaceGame!Vent(state, p)
  <2>1. Moves(state, state')
    BY <1>1, <1>3, TaskMoves, SabotageMoves, VentMoves
  <2> QED BY <2>1, MovesAreSound DEF Does, ShipStep
<1>4. CASE state' \in SpaceGame!Eliminate(state, p)
  BY <1>1, <1>4, EliminateDoes DEF Does, ShipStep
<1>5. CASE state' \in SpaceGame!Report(state, p)
  BY <1>1, <1>5, ReportDoes DEF Does, ShipStep
<1>6. CASE state' \in SpaceGame!Emergency(state, p)
  BY <1>1, <1>6, EmergencyDoes DEF Does, ShipStep
<1>7. CASE state' \in SpaceGame!Vote(state, p)
  BY <1>1, <1>7, VoteDoes DEF Does, ShipStep
<1> QED BY <1>2, <1>3, <1>4, <1>5, <1>6, <1>7

\* The clock of a meeting keeps it too.
LEMMA TimerKeeps == ASSUME ShipSound(state), SpaceGame!MeetingTimer PROVE ShipStep
<1>1. /\ state.status = "playing" /\ state \in ShipMatch /\ state.meeting.phase # "none"
      /\ ~state.ticking
  BY DEF SpaceGame!MeetingTimer, SpaceGame!Between, SpaceGame!InMeeting, ShipSound, Solid
<1>2. CASE state.meeting.phase = "discussion"
  <2>1. state' = [state EXCEPT !.meeting.phase = "voting"]
    BY <1>2 DEF SpaceGame!MeetingTimer
  <2>2. /\ state'.status = state.status /\ state'.ticking = state.ticking
        /\ state'.pending = state.pending /\ state'.traitors = state.traitors
        /\ state'.alive = state.alive /\ state'.tasks = state.tasks
        /\ state'.completed = state.completed /\ state'.taskDone = state.taskDone
        /\ state'.result = state.result /\ state'.working = state.working
        /\ state'.vent = state.vent /\ state'.bodies = state.bodies
        /\ state'.sabotage = state.sabotage /\ state'.meeting.phase = "voting"
        /\ state'.meeting.votes = state.meeting.votes
    BY <1>1, <2>1 DEF ShipMatch
  <2>3. state' \in ShipMatch
    BY <1>1, <2>1 DEF ShipMatch
  <2>4. /\ SpaceGame!Living(state') = SpaceGame!Living(state)
        /\ Traitors(state') = Traitors(state) /\ Crew(state') = Crew(state)
        /\ SpaceGame!TaskTotal(state') = SpaceGame!TaskTotal(state)
    BY <2>2, SameCrew
  <2>5. Counted(state')
    <3>1. Repairs(state') = Repairs(state)
      BY <2>2 DEF Repairs
    <3> QED BY <2>2, <3>1 DEF ShipSound, Solid, Counted
  <2>6. \E p \in SpaceGame!Living(state) : TRUE
    <3>1. Traitors(state) > 0
      BY <1>1 DEF ShipSound, Decided
    <3>2. SpaceGame!LivingTraitors(state) # {}
      BY <3>1, FS_EmptySet DEF Traitors
    <3> QED BY <3>2 DEF SpaceGame!LivingTraitors
  <2>7. Convened(state')
    <3>1. SpaceGame!Living(state) \subseteq ShipSeats
      BY <1>1, ShipCounts DEF Roster
    <3> QED BY <1>2, <2>2, <2>4, <2>6, <3>1 DEF ShipSound, Solid, Convened
  <2>8. Decided(state')
    BY <2>2, <2>4 DEF ShipSound, Decided, Repaired
  <2>9. View(state') = View(state)
    BY <1>1, <2>2, <2>4 DEF View, SpaceGame!InMeeting
  <2> QED BY <2>2, <2>3, <2>5, <2>7, <2>8, <2>9 DEF ShipStep, ShipSound, Solid, MeetStep
<1>3. CASE state.meeting.phase # "discussion"
  <2>1. state' = SpaceGame!CloseMeeting(state)
    BY <1>3 DEF SpaceGame!MeetingTimer
  <2>2. Does(state, state')
    BY <1>1, <2>1, CloseDoes DEF ShipSound, Solid, SpaceGame!InMeeting
  <2> QED BY <2>2 DEF Does, ShipStep
<1> QED BY <1>2, <1>3

\* The bounds of the loop decide nothing by themselves.
LEMMA LoopMoves ==
  ASSUME NEW m, NEW t \in BOOLEAN, NEW q \in Roster, ~t => q = {}, Solid(m),
         m.status = "playing" =>
            /\ Traitors(m) > 0 /\ Traitors(m) < Crew(m)
            /\ ~t => ~Repaired(m),
         m.status = "completed" =>
            /\ m.result.survivors = SpaceGame!Living(m)
            /\ m.result.team = "crew" => Traitors(m) = 0 \/ Repaired(m)
            /\ m.result.team = "traitors" =>
                  Traitors(m) >= Crew(m) \/ (m.sabotage = "breach" /\ ~t)
  PROVE  LET n == [m EXCEPT !.ticking = t, !.pending = q] IN ShipSound(n) /\ View(n) = View(m)
<1> DEFINE n == [m EXCEPT !.ticking = t, !.pending = q]
<1>1. m \in ShipMatch
  BY DEF Solid
<1>2. n \in ShipMatch
  BY <1>1 DEF ShipMatch
<1>3. /\ n.status = m.status /\ n.ticking = t /\ n.pending = q
      /\ n.traitors = m.traitors /\ n.alive = m.alive /\ n.tasks = m.tasks
      /\ n.completed = m.completed /\ n.taskDone = m.taskDone
      /\ n.result = m.result /\ n.working = m.working
      /\ n.vent = m.vent /\ n.bodies = m.bodies
      /\ n.sabotage = m.sabotage /\ n.meeting = m.meeting
  BY <1>1 DEF ShipMatch
<1> HIDE DEF n
<1>4. /\ SpaceGame!Living(n) = SpaceGame!Living(m)
      /\ Traitors(n) = Traitors(m) /\ Crew(n) = Crew(m)
      /\ SpaceGame!TaskTotal(n) = SpaceGame!TaskTotal(m)
  BY <1>3, SameCrew
<1>5. Counted(n)
  <2>1. Repairs(n) = Repairs(m)
    BY <1>3 DEF Repairs
  <2> QED BY <1>3, <2>1 DEF Solid, Counted
<1>6. Convened(n)
  BY <1>3, <1>4 DEF Solid, Convened
<1>7. Decided(n)
  BY <1>3, <1>4 DEF Decided, Repaired
<1>8. View(n) = View(m)
  BY <1>3, <1>4 DEF View, SpaceGame!InMeeting
<1>9. ShipSound(n)
  BY <1>2, <1>3, <1>5, <1>6, <1>7 DEF ShipSound, Solid
<1> QED BY <1>8, <1>9 DEF n

\* A tick that begins has everybody still to go through.
LEMMA TickBeginsKeeps == ASSUME ShipSound(state), SpaceGame!TickBegins PROVE ShipStep
<1>1. state.status = "playing"
  BY DEF SpaceGame!TickBegins, SpaceGame!Between
<1>2. state' = [state EXCEPT !.ticking = TRUE, !.pending = ShipSeats]
  BY DEF SpaceGame!TickBegins
<1>3. ShipSound(state') /\ View(state') = View(state)
  <2>1. ShipSeats \in Roster
    BY DEF Roster
  <2> QED BY <1>1, <1>2, <2>1, LoopMoves DEF ShipSound, Decided
<1> QED BY <1>3 DEF ShipStep, MeetStep

\* A tick's turn of one player keeps the ship sound.
LEMMA TickPlayerKeeps == ASSUME ShipSound(state), SpaceGame!TickPlayer PROVE ShipStep
<1>1. PICK p \in state.pending :
      \E cooled \in SpaceGame!Cooled(state, p) :
      \E acted \in (IF p \in Bots THEN SpaceGame!BotActs(cooled, p) ELSE {cooled}) :
      \E worked \in SpaceGame!Worked(acted, p) :
      \E walked \in SpaceGame!Walked(worked, p) :
          state' = [walked EXCEPT !.pending = @ \ {p}]
  BY DEF SpaceGame!TickPlayer
<1>2. PICK cooled \in SpaceGame!Cooled(state, p) :
      \E acted \in (IF p \in Bots THEN SpaceGame!BotActs(cooled, p) ELSE {cooled}) :
      \E worked \in SpaceGame!Worked(acted, p) :
      \E walked \in SpaceGame!Walked(worked, p) :
          state' = [walked EXCEPT !.pending = @ \ {p}]
  BY <1>1
<1>3. PICK acted \in (IF p \in Bots THEN SpaceGame!BotActs(cooled, p) ELSE {cooled}) :
      \E worked \in SpaceGame!Worked(acted, p) :
      \E walked \in SpaceGame!Walked(worked, p) :
          state' = [walked EXCEPT !.pending = @ \ {p}]
  BY <1>2
<1>w. PICK worked \in SpaceGame!Worked(acted, p) :
      \E walked \in SpaceGame!Walked(worked, p) :
          state' = [walked EXCEPT !.pending = @ \ {p}]
  BY <1>3
<1>4. PICK walked \in SpaceGame!Walked(worked, p) :
          state' = [walked EXCEPT !.pending = @ \ {p}]
  BY <1>w
<1>5. state \in ShipMatch /\ p \in ShipSeats /\ state.ticking
  BY <1>1, ShipFields DEF ShipSound, Solid, Roster
<1>6. Does(state, cooled)
  BY <1>5, CooledMoves, MovesAreSound
<1>7. cooled \in ShipMatch /\ Moves(state, cooled) /\ ShipSound(cooled) /\ cooled.ticking
  BY <1>5, <1>6, CooledMoves DEF Does, Moves
<1>8. Does(cooled, acted)
  <2>1. CASE p \in Bots
    BY <1>3, <1>5, <1>7, <2>1, BotActsDoes
  <2>2. CASE p \notin Bots
    BY <1>3, <1>7, <2>2, StaysMoves, MovesAreSound
  <2> QED BY <2>1, <2>2
<1>9. Does(state, acted)
  BY <1>7, <1>8, MovesThenDoes
<1>10. ShipSound(acted) /\ acted.ticking
  BY <1>5, <1>9 DEF Does
<1>11. Does(acted, worked) /\ View(worked) = View(acted)
  BY <1>w, <1>5, <1>10, WorkedIsSound
<1>12. Does(state, worked)
  BY <1>9, <1>11, DoesThenSame
<1>13. ShipSound(worked) /\ worked \in ShipMatch
  BY <1>11 DEF Does, ShipSound, Solid
<1>14. Does(worked, walked) /\ View(walked) = View(worked)
  BY <1>4, <1>5, <1>13, WalkedMoves, MovesAreSound
<1>15. Does(state, walked)
  BY <1>12, <1>14, DoesThenSame
<1>16. ShipSound(walked) /\ walked.ticking /\ walked \in ShipMatch
  BY <1>5, <1>15 DEF Does, ShipSound, Solid
<1> DEFINE q == walked.pending \ {p}
           n == [walked EXCEPT !.ticking = TRUE, !.pending = q]
<1>17. state' = n
  BY <1>4, <1>16 DEF ShipMatch
<1>18. q \in Roster
  BY <1>16, ShipFields DEF Roster
<1>19. ShipSound(state') /\ View(state') = View(walked)
  <2> HIDE DEF q
  <2>1. Solid(walked)
    BY <1>16 DEF ShipSound
  <2>2. walked.status = "playing" => Traitors(walked) > 0 /\ Traitors(walked) < Crew(walked)
    BY <1>16 DEF ShipSound, Decided
  <2>3. walked.status = "completed" =>
          /\ walked.result.survivors = SpaceGame!Living(walked)
          /\ walked.result.team = "crew" => Traitors(walked) = 0 \/ Repaired(walked)
          /\ walked.result.team = "traitors" => Traitors(walked) >= Crew(walked)
    BY <1>16 DEF ShipSound, Decided
  <2> QED BY <1>17, <1>18, <2>1, <2>2, <2>3, LoopMoves
<1>20. MeetStep(state, state')
  <2>1. /\ SpaceGame!Living(state') = SpaceGame!Living(walked)
        /\ SpaceGame!InMeeting(state') <=> SpaceGame!InMeeting(walked)
        /\ (state'.status = "completed") <=> (walked.status = "completed")
    BY <1>19 DEF View
  <2>2. state'.status = walked.status
    BY <1>17, <1>16 DEF ShipMatch
  <2> QED BY <1>15, <1>19, <2>1, <2>2 DEF Does, MeetStep, OneLess
<1> QED BY <1>19, <1>20 DEF ShipStep

\* The end of a tick, with the reactor and the rules, keeps it too.
LEMMA TickEndsKeeps == ASSUME ShipSound(state), SpaceGame!TickEnds PROVE ShipStep
<1>1. state \in ShipMatch /\ state.ticking /\ state.pending = {}
  BY DEF SpaceGame!TickEnds, ShipSound, Solid
<1>2. PICK advanced \in SpaceGame!AdvanceSabotage(state) :
        state' = [SpaceGame!CheckWin(advanced) EXCEPT !.ticking = FALSE]
  BY DEF SpaceGame!TickEnds
<1> DEFINE fixed == [state EXCEPT !.sabotage = "none"]
           n == SpaceGame!CheckWin(advanced)
<1>3. \/ advanced = state \/ advanced = fixed
      \/ state.sabotage = "breach" /\ advanced = SpaceGame!Finish(state, "traitors")
  BY <1>1, ShipFields DEF SpaceGame!AdvanceSabotage
<1>4. Moves(state, fixed)
  <2>1. /\ fixed \in ShipMatch /\ Kept(state, fixed) /\ fixed.working = state.working
        /\ fixed.vent = state.vent /\ fixed.sabotage = "none"
    BY <1>1 DEF ShipMatch, Kept
  <2> HIDE DEF fixed
  <2> QED BY <1>1, <2>1 DEF Moves, ShipSound, Solid, Convened
<1>5. Moves(state, state)
  BY <1>1, StaysMoves
<1> HIDE DEF fixed
\* What the end of the loop needs of the decision.
<1> DEFINE Done(k) ==
      /\ Solid(k) /\ k.pending = {} /\ k.alive = state.alive /\ k.meeting = state.meeting
      /\ state.status = "completed" => k.status = "completed"
      /\ k.status = "playing" =>
            /\ Traitors(k) > 0 /\ Traitors(k) < Crew(k) /\ ~Repaired(k)
      /\ k.status = "completed" =>
            /\ k.result.survivors = SpaceGame!Living(k)
            /\ k.result.team = "crew" => Traitors(k) = 0 \/ Repaired(k)
            /\ k.result.team = "traitors" => Traitors(k) >= Crew(k) \/ k.sabotage = "breach"
<1>6. ASSUME NEW k, k.status = "completed" PROVE SpaceGame!CheckWin(k) = k
  BY <1>6 DEF SpaceGame!CheckWin, SpaceGame!Finish
<1>7. Done(n)
  <2>1. CASE advanced = state \/ advanced = fixed
    <3>1. Moves(state, advanced)
      BY <1>4, <1>5, <2>1
    <3>2. ShipSound(advanced) /\ Kept(state, advanced)
      BY <3>1, MovesAreSound DEF Does, Moves
    <3>3. CASE advanced.status = "playing"
      <4>1. Solid(advanced)
        BY <3>2 DEF ShipSound
      <4> QED BY <1>1, <3>2, <3>3, <4>1, WinChecked DEF Kept
    <3>4. CASE advanced.status = "completed"
      <4>1. n = advanced
        BY <1>6, <3>4
      <4> QED BY <1>1, <3>2, <3>4, <4>1 DEF ShipSound, Decided, Kept
    <3>5. advanced.status \in {"playing", "completed"}
      BY <3>2, ShipFields DEF ShipSound, Solid
    <3> QED BY <3>3, <3>4, <3>5
  <2>2. CASE /\ state.sabotage = "breach" /\ state.status = "playing"
             /\ advanced = SpaceGame!Finish(state, "traitors")
    <3>1. Solid(state)
      BY DEF ShipSound
    <3>2. /\ Solid(advanced) /\ advanced.status = "completed"
          /\ advanced.pending = {} /\ advanced.alive = state.alive
          /\ advanced.meeting = state.meeting /\ advanced.sabotage = "breach"
          /\ advanced.result.team = "traitors"
          /\ advanced.result.survivors = SpaceGame!Living(state)
      BY <1>1, <2>2, <3>1, Finished
    <3>3. SpaceGame!Living(advanced) = SpaceGame!Living(state)
      BY <3>2 DEF SpaceGame!Living
    <3>4. n = advanced
      BY <1>6, <3>2
    <3> QED BY <3>2, <3>3, <3>4
  <2>3. CASE /\ state.status # "playing"
             /\ advanced = SpaceGame!Finish(state, "traitors")
    <3>1. advanced = state
      BY <2>3 DEF SpaceGame!Finish
    <3> QED BY <2>1, <3>1
  <2> QED BY <1>3, <2>1, <2>2, <2>3
<1> HIDE DEF n
<1>8. n \in ShipMatch
  BY <1>7 DEF Solid
<1>9. state' = [n EXCEPT !.ticking = FALSE, !.pending = {}]
  BY <1>2, <1>7, <1>8 DEF n, ShipMatch
<1>10. ShipSound(state') /\ View(state') = View(n)
  <2>1. {} \in Roster
    BY DEF Roster
  <2> QED BY <1>7, <1>9, <2>1, LoopMoves
<1>11. MeetStep(state, state')
  <2>1. SpaceGame!Living(n) = SpaceGame!Living(state)
    BY <1>7 DEF SpaceGame!Living
  <2>2. /\ SpaceGame!Living(state') = SpaceGame!Living(state)
        /\ SpaceGame!InMeeting(state') <=> SpaceGame!InMeeting(state)
        /\ (state'.status = "completed") <=> (n.status = "completed")
    BY <1>7, <1>10, <2>1 DEF View, SpaceGame!InMeeting
  <2>3. /\ state.status \in {"playing", "completed"}
        /\ n.status \in {"playing", "completed"}
    BY <1>1, <1>8, ShipFields
  <2>4. CASE state.status = "playing" /\ n.status = "completed"
    BY <2>2, <2>4 DEF MeetStep
  <2>5. CASE ~(state.status = "playing" /\ n.status = "completed")
    <3>1. (state'.status = "completed") = (state.status = "completed")
      BY <1>7, <2>2, <2>3, <2>5
    <3>2. SpaceGame!InMeeting(state') = SpaceGame!InMeeting(state)
      BY <2>2 DEF SpaceGame!InMeeting
    <3>3. View(state') = View(state)
      BY <2>2, <3>1, <3>2 DEF View
    <3> QED BY <3>3 DEF MeetStep
  <2> QED BY <2>4, <2>5
<1> QED BY <1>10, <1>11 DEF ShipStep

\* Every step of the ship keeps it sound and is one of ShipMeetings, or none.
LEMMA ShipNext == ASSUME ShipSound(state), SpaceGame!Next PROVE ShipStep
<1>1. CASE \E p \in ShipSeats :
             \/ SpaceGame!Input(p, SpaceGame!Task(state, p))
             \/ SpaceGame!Input(p, SpaceGame!Eliminate(state, p))
             \/ SpaceGame!Input(p, SpaceGame!Report(state, p))
             \/ SpaceGame!Input(p, SpaceGame!Emergency(state, p))
             \/ SpaceGame!Input(p, SpaceGame!Vote(state, p))
             \/ SpaceGame!Input(p, SpaceGame!Sabotage(state, p))
             \/ SpaceGame!Input(p, SpaceGame!Vent(state, p))
             \/ SpaceGame!BotVotes(p)
  BY <1>1, InputKeeps
<1>2. CASE SpaceGame!MeetingTimer
  BY <1>2, TimerKeeps
<1>3. CASE SpaceGame!TickBegins
  BY <1>3, TickBeginsKeeps
<1>4. CASE SpaceGame!TickPlayer
  BY <1>4, TickPlayerKeeps
<1>5. CASE SpaceGame!TickEnds
  BY <1>5, TickEndsKeeps
<1> QED BY <1>1, <1>2, <1>3, <1>4, <1>5 DEF SpaceGame!Next

-----------------------------------------------------------------------------
(* The registry *)

\* What the invariant says in the words of the module.
LEMMA ShipSays ==
  ASSUME ShipSound(state)
  PROVE  SpaceGame!VoteIsAwaited /\ SpaceGame!MeetingIsOrderly /\ SpaceGame!FairlyWon
<1>1. SpaceGame!VoteIsAwaited
  BY DEF SpaceGame!VoteIsAwaited, ShipSound, Solid, Convened
<1>2. SpaceGame!MeetingIsOrderly
  BY DEF SpaceGame!MeetingIsOrderly, SpaceGame!InMeeting, ShipSound, Solid, Convened
<1>3. /\ Traitors(state) = SpaceGame!Cardinality(SpaceGame!LivingTraitors(state))
      /\ Crew(state) = SpaceGame!Cardinality(SpaceGame!Living(state)) - Traitors(state)
  BY SameCount DEF Traitors, Crew
<1>4. /\ SpaceGame!Between =>
            Traitors(state) > 0 /\ Traitors(state) < Crew(state) /\ ~Repaired(state)
      /\ state.status = "completed" =>
            /\ state.result.survivors = SpaceGame!Living(state)
            /\ state.result.team = "crew" => Traitors(state) = 0 \/ Repaired(state)
            /\ state.result.team = "traitors" =>
                  Traitors(state) >= Crew(state) \/ state.sabotage = "breach"
  BY DEF SpaceGame!Between, ShipSound, Decided
<1>5. SpaceGame!FairlyWon
  BY <1>3, <1>4 DEF SpaceGame!FairlyWon, Repaired
<1> QED BY <1>1, <1>2, <1>5

\* Whatever the room plays, its record is sound in the sense of its own game.
GamesInv ==
    /\ gameId \in {"KAZHUTHA", "BLUFF_BAR", "LUDO", "SPACE_MYSTERY"}
    /\ gameId = "KAZHUTHA" => KazhuthaSound(state)
    /\ gameId = "BLUFF_BAR" => BluffSound(state)
    /\ gameId = "LUDO" => LudoSound(state)
    /\ gameId = "SPACE_MYSTERY" => ShipSound(state)

\* A move is one of the game being played, and keeps it sound.
LEMMA GamesInvStep ==
  ASSUME GamesInv, Next
  PROVE  /\ gameId' = gameId /\ GamesInv'
         /\ gameId = "KAZHUTHA" => KazhuthaStep
         /\ gameId = "BLUFF_BAR" => BluffStep
         /\ gameId = "LUDO" => LudoStep
         /\ gameId = "SPACE_MYSTERY" => SpaceGame!Next /\ ShipStep
<1>1. CASE PlayKazhutha
  <2>1. gameId = "KAZHUTHA" /\ gameId' = gameId /\ KazhuthaStep
    BY <1>1, KazhuthaNext DEF PlayKazhutha, GamesInv
  <2> QED BY <2>1 DEF GamesInv, KazhuthaStep
<1>2. CASE PlayBluffBar
  <2>1. gameId = "BLUFF_BAR" /\ gameId' = gameId /\ BluffStep
    BY <1>2, BluffNext DEF PlayBluffBar, GamesInv
  <2> QED BY <2>1 DEF GamesInv, BluffStep
<1>3. CASE PlayLudo
  <2>1. gameId = "LUDO" /\ gameId' = gameId /\ LudoStep
    BY <1>3, LudoNext DEF PlayLudo, GamesInv
  <2> QED BY <2>1 DEF GamesInv, LudoStep
<1>4. CASE PlaySpaceMystery
  <2>1. gameId = "SPACE_MYSTERY" /\ gameId' = gameId /\ SpaceGame!Next /\ ShipStep
    BY <1>4, ShipNext DEF PlaySpaceMystery, GamesInv
  <2> QED BY <2>1 DEF GamesInv, ShipStep
<1> QED BY <1>1, <1>2, <1>3, <1>4 DEF Next

\* So every match the platform hosts is sound in every state.
LEMMA GamesInvHolds == Spec => []GamesInv
<1>1. Init => GamesInv
  BY KazhuthaBegins, BluffBegins, LudoBegins, ShipBegins DEF Init, GamesInv
<1>2. GamesInv /\ [Next]_vars => GamesInv'
  <2>1. ASSUME GamesInv, UNCHANGED vars PROVE GamesInv'
    BY <2>1 DEF vars, GamesInv
  <2> QED BY <2>1, GamesInvStep
<1> QED BY <1>1, <1>2, PTL DEF Spec

\* Whoever is on turn always has a legal action, and an open vote waits for
\* somebody living: no table of any size is stranded by a player who goes out,
\* retires or is skipped (retire, advanceFrom, passTurn, deal, Engine.vote).
THEOREM MatchesNeverStall == Spec => []NeverStalls
<1>1. GamesInv => NeverStalls
  BY KazhuthaSays, BluffSays, LudoSays, ShipSays DEF GamesInv, NeverStalls
<1> QED BY <1>1, GamesInvHolds, PTL

\* Nothing on the table is lost, copied or in two hands: cards by rank in
\* Kazhutha, honest cards against the published composition in Bluff Bar, cells
\* of the Ludo board, and on the ship everything while a meeting is open.
THEOREM TablesStayWhole == Spec => []TableIsWhole
<1>1. GamesInv => TableIsWhole
  BY KazhuthaSays, BluffSays, LudoSays, ShipSays DEF GamesInv, TableIsWhole
<1> QED BY <1>1, GamesInvHolds, PTL

\* A match of any game ends exactly when its rules say, and its result names
\* the players the final position does.
THEOREM ResultsAreFair == Spec => []FairlyDecided
<1>1. GamesInv => FairlyDecided
  BY KazhuthaSays, BluffSays, LudoSays, ShipSays DEF GamesInv, FairlyDecided
<1> QED BY <1>1, GamesInvHolds, PTL

\* What the three lifecycles have in common, as GameContract words it.
LEMMA AnyTurnBasedStep ==
  ASSUME Status \in {"waiting", "playing"}, Status' \in {"playing", "completed"},
         Out \subseteq Out', Out' \subseteq Seats,
         Status' = "playing" => /\ Holder' \in Seats \ Out'
                                /\ \E q \in Seats \ Out' : q # Holder',
         Status' = "completed" => Holder' = NoOne
  PROVE  Contract!Next
<1>1. Status' = "playing" => Holder' \in Seats /\ Contract!Playable(Out', Holder')
  BY DEF Contract!Playable
<1> QED BY <1>1 DEF Contract!Next, Contract!Start, Contract!Play, Contract!Finish

\* Every turn-based game implements GameContract: a match goes from waiting to
\* playing to completed and stays there, who is out stays out, and while it is
\* played the turn is one of at least two players still in.
THEOREM GamesKeepTheContract == Spec => KeepsContract
<1>1. Init => Contract!Init
  <2> SUFFICES ASSUME Init PROVE Status = "waiting" /\ Out \in SUBSET Seats /\ Holder = NoOne
    BY DEF Contract!Init
  <2>1. CASE gameId = "KAZHUTHA" /\ KazhuthaGame!Init
    <3>1. KazhuthaGame!Out \subseteq Seats
      BY KazhuthaFacts DEF KazhuthaGame!Out, Seats, KPlayers
    <3> QED BY <2>1, <3>1, KazhuthaBegins DEF Status, Out, Holder, TurnBased
  <2>2. CASE gameId = "BLUFF_BAR" /\ BluffBarGame!Init
    <3>1. BluffBarGame!Out \subseteq Seats
      BY <2>2, BluffBegins, EmptyRotation, SameBluff DEF BluffBarGame!Out, BluffSound
    <3> QED BY <2>2, <3>1, BluffBegins DEF Status, Out, Holder, TurnBased
  <2>3. CASE gameId = "LUDO" /\ LudoGame!Init
    BY <2>3, LudoBegins DEF Status, Out, Holder, TurnBased
  <2>4. CASE gameId = "SPACE_MYSTERY"
    BY <2>4 DEF Status, Out, Holder, TurnBased
  <2> QED BY <2>1, <2>2, <2>3, <2>4 DEF Init
<1>2. GamesInv /\ [Next]_vars => [Contract!Next]_(Contract!vars)
  <2> SUFFICES ASSUME GamesInv, [Next]_vars PROVE [Contract!Next]_(Contract!vars)
    OBVIOUS
  <2>1. CASE UNCHANGED vars
    BY <2>1 DEF vars, Contract!vars, Status, Out, Holder, TurnBased, KazhuthaGame!Out,
                BluffBarGame!Out, Turn
  <2>2. CASE Next
    <3>1. gameId' = gameId /\ GamesInv'
      BY <2>2, GamesInvStep
    <3>2. CASE gameId = "KAZHUTHA"
      <4>1. KazhuthaStep
        BY <2>2, <3>2, GamesInvStep
      <4>2. /\ Status = state.status /\ Status' = state'.status
            /\ Out = Seats \ ToSet(state.order) /\ Out' = Seats \ ToSet(state'.order)
            /\ ToSet(state.order) \subseteq Seats /\ ToSet(state'.order) \subseteq Seats
            /\ Holder' = IF state'.status = "playing" THEN Turn(state') ELSE NoOne
        <5>1. ToSet(state.order) \subseteq KPlayers /\ ToSet(state'.order) \subseteq KPlayers
          BY <3>1, <3>2, LinedFields DEF GamesInv, KazhuthaSound
        <5>2. KPlayers \subseteq Seats
          BY DEF KPlayers, Seats
        <5>3. /\ Status = state.status /\ Status' = state'.status
              /\ Out = (Seats \ KPlayers) \cup (KPlayers \ ToSet(state.order))
              /\ Out' = (Seats \ KPlayers) \cup (KPlayers \ ToSet(state'.order))
              /\ Holder' = IF state'.status = "playing" THEN Turn(state') ELSE NoOne
          BY <3>1, <3>2, KazhuthaFacts, SameKazhutha
             DEF Status, Out, Holder, TurnBased, KazhuthaGame!Out, KPlayers
        <5> QED BY <5>1, <5>2, <5>3
      <4>3. state'.status = "playing" =>
              /\ Turn(state') \in ToSet(state'.order)
              /\ \E q \in ToSet(state'.order) : q # Turn(state')
        BY <4>1, KazhuthaTurn DEF KazhuthaStep
      <4> QED BY <4>1, <4>2, <4>3, AnyTurnBasedStep DEF KazhuthaStep
    <3>3. CASE gameId = "BLUFF_BAR"
      <4>1. BluffStep
        BY <2>2, <3>3, GamesInvStep
      <4>2. /\ Status = state.status /\ Status' = state'.status
            /\ Out = Seats \ Standing(state) /\ Out' = Seats \ Standing(state')
            /\ Standing(state) \subseteq Seats /\ Standing(state') \subseteq Seats
            /\ Standing(state') \subseteq Standing(state)
            /\ Holder' = IF state'.status = "playing" THEN Turn(state') ELSE NoOne
        <5>1. ToSet(state.eliminated) \subseteq BPlayers /\ ToSet(state'.eliminated) \subseteq BPlayers
          BY <3>1, <3>3, RotationCounts DEF GamesInv, BluffSound, Seated
        <5>2. BPlayers \subseteq Seats
          BY DEF BPlayers, Seats
        <5>3. /\ Status = state.status /\ Status' = state'.status
              /\ Out = (Seats \ BPlayers) \cup ToSet(state.eliminated)
              /\ Out' = (Seats \ BPlayers) \cup ToSet(state'.eliminated)
              /\ Holder' = IF state'.status = "playing" THEN Turn(state') ELSE NoOne
          BY <3>1, <3>3, SameBluff
             DEF Status, Out, Holder, TurnBased, BluffBarGame!Out, BPlayers
        <5> QED BY <4>1, <5>1, <5>2, <5>3 DEF Standing, BluffStep
      <4>3. state'.status = "playing" =>
              /\ Turn(state') \in Standing(state')
              /\ \E q \in Standing(state') : q # Turn(state')
        BY <4>1, BluffTurn DEF BluffStep
      <4> QED BY <4>1, <4>2, <4>3, AnyTurnBasedStep DEF BluffStep
    <3>4. CASE gameId = "LUDO"
      <4>1. LudoStep
        BY <2>2, <3>4, GamesInvStep
      <4>2. /\ Status = state.status /\ Status' = state'.status
            /\ Out = Seats \ LudoPlayers /\ Out' = Seats \ LudoPlayers
            /\ LudoPlayers \subseteq Seats
            /\ Holder' = IF state'.status = "playing" THEN Turn(state') ELSE NoOne
        BY <3>1, <3>4 DEF Status, Out, Holder, TurnBased, LudoPlayers, Seats
      <4>3. Turn(state') \in LudoPlayers /\ \E q \in LudoPlayers : q # Turn(state')
        <5>1. PICK h : h = Turn(state')
          OBVIOUS
        <5>2. h \in LudoPlayers
          BY <4>1, <5>1, LudoFields DEF LudoStep, LudoSound
        <5>3. LudoPlayers # {h}
          <6>1. Cardinality({h}) = 1
            BY FS_Singleton
          <6>2. Cardinality(LudoPlayers) >= 2
            BY LudoFacts
          <6> QED BY <6>1, <6>2
        <5>4. \E q \in LudoPlayers : q # h
          BY <5>2, <5>3
        <5> QED BY <5>1, <5>2, <5>4
      <4>4. Status \in {"waiting", "playing"} /\ Status' \in {"playing", "completed"}
        BY <4>1, <4>2 DEF LudoStep
      <4>5. Out \subseteq Out' /\ Out' \subseteq Seats /\ Seats \ Out' = LudoPlayers
        BY <4>2
      <4>6. Status' = "playing" => /\ Holder' \in Seats \ Out'
                                   /\ \E q \in Seats \ Out' : q # Holder'
        BY <4>2, <4>3, <4>5
      <4>7. Status' = "completed" => Holder' = NoOne
        BY <4>2
      <4> QED BY <4>4, <4>5, <4>6, <4>7, AnyTurnBasedStep
    <3>5. CASE gameId = "SPACE_MYSTERY"
      <4>1. ~TurnBased /\ ~TurnBased'
        BY <3>1, <3>5 DEF TurnBased
      <4>2. Status' = Status /\ Holder' = Holder
        BY <4>1 DEF Status, Holder
      <4>3. Out = {} /\ Out' = {}
        BY <3>1, <3>5 DEF Out
      <4> QED BY <4>2, <4>3 DEF Contract!vars
    <3> QED BY <3>2, <3>3, <3>4, <3>5 DEF GamesInv
  <2> QED BY <2>1, <2>2
<1> QED BY <1>1, <1>2, GamesInvHolds, PTL DEF Spec, KeepsContract, Contract!Spec

\* A ship implements ShipMeetings: one death at a time and never in a meeting,
\* at most one ejection and only by closing one, nothing after the end.
THEOREM ShipImplementsMeetings == Spec => KeepsMeetings
<1>1. Init => Meetings!Init
  <2> SUFFICES ASSUME Init PROVE Meetings!Init
    OBVIOUS
  <2>1. CASE TurnBased
    BY <2>1 DEF Meetings!Init
  <2>2. CASE ~TurnBased
    <3>1. SpaceGame!Init
      BY <2>2 DEF Init, TurnBased
    <3> QED BY <2>2, <3>1, ShipBegins DEF Meetings!Init
  <2> QED BY <2>1, <2>2
<1>2. GamesInv /\ [Next]_vars => [Meetings!Next]_(Meetings!vars)
  <2> SUFFICES ASSUME GamesInv, [Next]_vars PROVE [Meetings!Next]_(Meetings!vars)
    OBVIOUS
  <2>1. CASE UNCHANGED vars
    BY <2>1 DEF vars, Meetings!vars, TurnBased, SpaceGame!Living, SpaceGame!InMeeting
  <2>2. CASE Next /\ TurnBased
    <3>1. ~TurnBased' => FALSE
      BY <2>2, GamesInvStep DEF TurnBased
    <3> QED BY <2>2, <3>1 DEF Meetings!vars
  <2>3. CASE Next /\ ~TurnBased
    <3>1. SpaceGame!Next /\ ~TurnBased' /\ gameId = "SPACE_MYSTERY"
      BY <2>3, GamesInvStep DEF TurnBased
    <3>2. MeetStep(state, state') /\ ShipSound(state) /\ ShipSound(state')
      BY <3>1, ShipNext DEF GamesInv, ShipStep
    <3>3. CASE View(state') = View(state)
      BY <2>3, <3>1, <3>3 DEF View, Meetings!vars
    <3>4. CASE View(state') # View(state)
      BY <2>3, <3>1, <3>2, <3>4
         DEF MeetStep, OneLess, Meetings!Next, Meetings!Open, Meetings!Die, Meetings!Close,
             Meetings!Decide
    <3> QED BY <3>3, <3>4
  <2> QED BY <2>1, <2>2, <2>3 DEF Next
<1> QED BY <1>1, <1>2, GamesInvHolds, PTL DEF Spec, KeepsMeetings, Meetings!Spec
=============================================================================
