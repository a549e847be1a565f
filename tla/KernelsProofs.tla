--------------------------- MODULE KernelsProofs ---------------------------
(***************************************************************************)
(* Proofs about programs of am-kernels, for every size of them: each keeps *)
(* two accounts of one thing, and an inductive invariant says that the two *)
(* agree.  BoxInv, AntInv and SnakeInv are of module Demos, ShaInv of      *)
(* Sha256, ChainInv of Blockchain; TowersInv, which says what the calls on *)
(* the stack of move are still going to do, is here.  MCMachines           *)
(* instantiates this module, and MachinesProofs puts the programs together.*)
(***************************************************************************)
EXTENDS Demos, Sha256, Blockchain, FiniteSetTheorems, SequenceTheorems,
        WellFoundedInduction, TLAPS

-----------------------------------------------------------------------------
(* Sequences                                                                *)

\* Sequences of anything: their places and their members.
LEMMA Members ==
  ASSUME NEW S, NEW q \in Seq(S)
  PROVE  Len(q) \in Nat /\ DOMAIN q = 1 .. Len(q) /\ \A k \in 1 .. Len(q) : q[k] \in S
  OBVIOUS

\* One place of a sequence changed.
LEMMA Changed ==
  ASSUME NEW S, NEW q \in Seq(S), NEW k \in 1 .. Len(q), NEW v \in S
  PROVE  /\ [q EXCEPT ![k] = v] \in Seq(S) /\ Len([q EXCEPT ![k] = v]) = Len(q)
         /\ \A l \in 1 .. Len(q) : [q EXCEPT ![k] = v][l] = IF l = k THEN v ELSE q[l]
  OBVIOUS

\* One place more.
LEMMA Appended ==
  ASSUME NEW S, NEW q \in Seq(S), NEW v \in S
  PROVE  /\ Append(q, v) \in Seq(S) /\ Len(Append(q, v)) = Len(q) + 1
         /\ \A l \in 1 .. Len(q) + 1 : Append(q, v)[l] = IF l = Len(q) + 1 THEN v ELSE q[l]
  OBVIOUS

\* The empty sequence has members of any kind.
LEMMA NoMembers == \A S : <<>> \in Seq(S)
  OBVIOUS

-----------------------------------------------------------------------------
(* The Galton box: board and balls are two accounts of the same places.     *)

BallPlaces == {p \in Places : board[p] = "ball"}

\* The box has a place at its top, and finitely many.
LEMMA BoxPlaces ==
  ASSUME GaltonAssumption
  PROVE  /\ Top \in Places /\ W \in Nat /\ H \in Nat /\ <<-1, -1>> \notin Places
         /\ IsFiniteSet(BallPlaces)
  <1>1. N \in Nat \ {0} /\ H \in Nat /\ H > 2 * N
    BY DEF GaltonAssumption
  <1>2. W = 2 * N + 1 BY DEF W
  <1>3. W \in Nat /\ W \div 2 \in 0 .. W - 1 /\ 0 \in 0 .. H - 1
    BY <1>1, <1>2
  <1>4. Top \in Places BY <1>3 DEF Top, Places
  <1>5. IsFiniteSet(Places)
    <2>1. IsFiniteSet(0 .. H - 1) /\ IsFiniteSet(0 .. W - 1)
      <3>1. 0 \in Int /\ H - 1 \in Int /\ W - 1 \in Int BY <1>1, <1>3
      <3> QED BY <3>1, FS_Interval
    <2> QED BY <2>1, FS_Product DEF Places
  <1>6. IsFiniteSet(BallPlaces) BY <1>5, FS_Subset DEF BallPlaces
  <1>7. <<-1, -1>> \notin Places BY DEF Places
  <1> QED BY <1>1, <1>3, <1>4, <1>6, <1>7

\* The box is empty at the start.
LEMMA InitBox == ASSUME GaltonAssumption, GaltonInit PROVE BoxInv
  <1>1. board = [p \in Places |-> IF p \in Pegs THEN "peg" ELSE "blank"] /\ ball = <<>> /\ next = 1
    BY DEF GaltonInit, Peg, Blank
  <1>2. BoxTypes
    <2>1. board \in [Places -> {"blank", "peg", "ball"}] BY <1>1
    <2>2. ball \in Seq(Places \cup {NoBall}) BY <1>1, NoMembers, Zenon
    <2>3. next \in Nat \ {0} BY <1>1
    <2> QED BY <2>1, <2>2, <2>3, Zenon DEF BoxTypes, Peg, Blank, Ball
  <1>3. BallPlaces = {} BY <1>1 DEF BallPlaces
  <1>4. Cardinality(BallPlaces) = 0 BY <1>3, FS_EmptySet
  <1>5. Live = {} /\ Len(ball) = 0
    <2>1. DOMAIN <<>> = {} /\ Len(<<>>) = 0 OBVIOUS
    <2> QED BY <2>1, <1>1 DEF Live
  <1>6. \A p \in Places : board[p] = "peg" <=> p \in Pegs BY <1>1
  <1> QED BY <1>2, <1>4, <1>5, <1>6
          DEF BoxInv, BallsConserved, BallPlaces, Peg, Ball

\* A ball that is taken from its place and put into a free one, or the same.
LEMMA LandsKeeps ==
  ASSUME GaltonAssumption, BoxInv, Moves, ball[next] # NoBall,
         NEW q \in Places, board[q] = "blank" \/ q = ball[next],
         NEW rests \in BOOLEAN, Lands(ball[next], q, rests)
  PROVE  BoxInv'
  <1> DEFINE p == ball[next]
             Seen == {"peg", "blank", "ball"}
  <1>1. /\ next \in 1 .. Len(ball) /\ next' = next + 1
        /\ board \in [Places -> Seen] /\ ball \in Seq(Places \cup {NoBall})
    <2>1. /\ next <= Len(ball) /\ next' = next + 1 /\ next \in Nat \ {0}
          /\ board \in [Places -> Seen] /\ ball \in Seq(Places \cup {NoBall})
      BY DEF Moves, BoxInv, BoxTypes, Peg, Blank, Ball
    <2>2. Len(ball) \in Nat BY <2>1, Members, Zenon
    <2>3. next \in 1 .. Len(ball)
      <3> HIDE DEF Seen
      <3>1. next <= Len(ball) /\ next \in Nat \ {0} BY <2>1
      <3> QED BY <3>1, <2>2
    <2> QED BY <2>1, <2>3
  <1>s. ball \in Seq(Places \cup {NoBall}) BY <1>1
  <1>0. Len(ball) \in Nat /\ DOMAIN ball = 1 .. Len(ball) BY <1>1, Members
  <1>2. /\ Cardinality(BallPlaces) = Len(ball)
        /\ \A k \in Live : board[ball[k]] = "ball"
        /\ \A k, l \in Live : ball[k] = ball[l] => k = l
        /\ \A z \in Places : board[z] = "peg" <=> z \in Pegs
    BY DEF BoxInv, BallsConserved, BallPlaces, Peg, Ball
  <1>3. p \in Places /\ next \in Live /\ board[p] = "ball"
    <2>1. next \in DOMAIN ball /\ ball[next] \in Places \cup {NoBall} BY <1>1, Members
    <2>2. next \in Live BY <2>1 DEF Live
    <2> QED BY <2>1, <2>2, <1>2
  <1>4. /\ board' = [board EXCEPT ![p] = "blank", ![q] = "ball"]
        /\ ball' = [ball EXCEPT ![next] = IF rests THEN NoBall ELSE q]
    BY <1>3 DEF Lands, Blank
  <1>5. /\ board' \in [Places -> Seen] /\ board'[q] = "ball"
        /\ \A z \in Places : z # p /\ z # q => board'[z] = board[z]
        /\ p # q => board'[p] = "blank" /\ board[q] = "blank"
    BY <1>1, <1>3, <1>4
  <1>6. /\ ball' \in Seq(Places \cup {NoBall}) /\ Len(ball') = Len(ball)
        /\ \A k \in DOMAIN ball : ball'[k] = IF k = next THEN IF rests THEN NoBall ELSE q ELSE ball[k]
        /\ DOMAIN ball' = DOMAIN ball
    <2> DEFINE v == IF rests THEN NoBall ELSE q
    <2>1. v \in Places \cup {NoBall} OBVIOUS
    <2> HIDE DEF v
    <2>2. ball' = [ball EXCEPT ![next] = v] BY <1>4 DEF v
    <2>3. /\ ball' \in Seq(Places \cup {NoBall}) /\ Len(ball') = Len(ball)
          /\ \A l \in 1 .. Len(ball) : ball'[l] = IF l = next THEN v ELSE ball[l]
      <3>1. next \in 1 .. Len(ball) BY <1>1
      <3> QED BY <2>1, <2>2, <1>s, <3>1, Changed
    <2>4. DOMAIN ball' = DOMAIN ball BY <2>2
    <2> QED BY <2>3, <2>4, <1>0 DEF v
  <1> HIDE DEF p
  <1>7. BoxTypes'
    <2>1. next' \in Nat \ {0}
      <3>1. next \in 1 .. Len(ball) /\ next' = next + 1 BY <1>1
      <3> QED BY <1>0, <3>1
    <2> QED BY <2>1, <1>5, <1>6 DEF BoxTypes, Peg, Blank, Ball
  <1>8. Cardinality(BallPlaces') = Len(ball')
    <2>1. CASE p = q
      <3>1. BallPlaces' = BallPlaces BY <2>1, <1>3, <1>5 DEF BallPlaces
      <3> QED BY <3>1, <1>2, <1>6
    <2>2. CASE p # q
      <3>1. BallPlaces' = (BallPlaces \ {p}) \cup {q} /\ p \in BallPlaces /\ q \notin BallPlaces
        BY <2>2, <1>3, <1>5 DEF BallPlaces
      <3>2. IsFiniteSet(BallPlaces) BY BoxPlaces
      <3>3. IsFiniteSet(BallPlaces \ {p}) /\ Cardinality(BallPlaces \ {p}) = Cardinality(BallPlaces) - 1
        BY <3>1, <3>2, FS_RemoveElement
      <3>4. Cardinality(BallPlaces') = Cardinality(BallPlaces \ {p}) + 1
        BY <3>1, <3>3, FS_AddElement
      <3>5. Cardinality(BallPlaces) = Len(ball) /\ Len(ball') = Len(ball) BY <1>2, <1>6
      <3> QED BY <3>3, <3>4, <3>5, <1>0
    <2> QED BY <2>1, <2>2
  <1>9. \A z \in Places : board'[z] = "peg" <=> z \in Pegs
    BY <1>2, <1>3, <1>5
  <1>10. Live' \subseteq Live /\ (next \in Live' => ball'[next] = q)
    <2>1. \A k \in DOMAIN ball : ball'[k] # NoBall => ball[k] # NoBall
      BY <1>3, <1>6 DEF Live
    <2> QED BY <2>1, <1>1, <1>6 DEF Live
  <1>11. \A k \in Live : k # next => ball[k] # p /\ ball[k] # q /\ ball[k] \in Places
    <2> TAKE k \in Live
    <2> HAVE k # next
    <2>1. ball[k] # p BY <1>2, <1>3 DEF p
    <2>2. board[ball[k]] = "ball" BY <1>2
    <2>3. ball[k] # q BY <2>1, <2>2, <1>5
    <2>4. k \in DOMAIN ball /\ ball[k] # NoBall BY DEF Live
    <2>5. ball[k] \in Places \cup {NoBall} BY <2>4, <1>0, <1>1, Members
    <2> QED BY <2>1, <2>3, <2>4, <2>5
  <1>12. \A k \in Live' : board'[ball'[k]] = "ball"
    <2> TAKE k \in Live'
    <2>1. CASE k = next BY <2>1, <1>5, <1>10
    <2>2. CASE k # next
      <3>1. k \in Live /\ k \in DOMAIN ball BY <1>10 DEF Live
      <3>2. ball'[k] = ball[k] BY <2>2, <3>1, <1>6
      <3>3. board'[ball[k]] = board[ball[k]] BY <2>2, <3>1, <1>5, <1>11
      <3> QED BY <3>1, <3>2, <3>3, <1>2
    <2> QED BY <2>1, <2>2
  <1>13. \A k, l \in Live' : ball'[k] = ball'[l] => k = l
    <2> TAKE k \in Live', l \in Live'
    <2> HAVE ball'[k] = ball'[l]
    <2>1. k \in Live /\ k \in DOMAIN ball /\ l \in Live /\ l \in DOMAIN ball
      BY <1>10 DEF Live
    <2>2. CASE k = next
      <3>1. ball'[l] = q BY <2>2, <1>10
      <3>2. l # next => ball'[l] = ball[l] /\ ball[l] # q BY <2>1, <1>6, <1>11
      <3> QED BY <3>1, <3>2, <2>2
    <2>3. CASE l = next
      <3>1. ball'[k] = q BY <2>3, <1>10
      <3>2. k # next => ball'[k] = ball[k] /\ ball[k] # q BY <2>1, <1>6, <1>11
      <3> QED BY <3>1, <3>2, <2>3
    <2>4. CASE k # next /\ l # next
      <3>1. ball'[k] = ball[k] /\ ball'[l] = ball[l] BY <2>1, <2>4, <1>6
      <3>2. ball[k] = ball[l] BY <3>1, Zenon
      <3>3. \A i, o \in Live : ball[i] = ball[o] => i = o BY <1>2
      <3> QED BY <3>2, <3>3, <2>1, Zenon
    <2> QED BY <2>2, <2>3, <2>4
  <1> QED
    <2>1. BallsConserved'
      BY <1>8, <1>9, <1>12, <1>13
      DEF BallsConserved, BallPlaces, Peg, Ball
    <2> QED BY <2>1, <1>7 DEF BoxInv

\* Every step of the box keeps its invariant.
LEMMA BoxKeeps == ASSUME GaltonAssumption, BoxInv, [GaltonNext]_galtonVars
                  PROVE  BoxInv'
  <1>1. /\ next \in Nat \ {0}
        /\ board \in [Places -> {"peg", "blank", "ball"}] /\ ball \in Seq(Places \cup {NoBall})
        /\ BallsConserved
    BY DEF BoxInv, BoxTypes, Peg, Blank, Ball
  <1>s. ball \in Seq(Places \cup {NoBall}) BY <1>1
  <1>n. ASSUME Moves PROVE next \in 1 .. Len(ball) /\ next' \in Nat \ {0}
    <2>1. next <= Len(ball) /\ next' = next + 1 BY <1>n DEF Moves
    <2>2. next \in Nat \ {0} BY <1>1
    <2>3. Len(ball) \in Nat BY <1>s, Members, Zenon
    <2> QED BY <2>1, <2>2, <2>3
  <1>2. /\ Len(ball) \in Nat /\ DOMAIN ball = 1 .. Len(ball)
        /\ \A k \in 1 .. Len(ball) : ball[k] \in Places \cup {NoBall}
    BY <1>s, Members
  <1>3. H \in Nat /\ W \in Nat BY BoxPlaces
  <1>4. ASSUME board' = board, ball' = ball, next' \in Nat \ {0} PROVE BoxInv'
    <2>1. BallsConserved' BY <1>1, <1>4 DEF BallsConserved, Live
    <2> QED BY <1>1, <1>4, <2>1 DEF BoxInv, BoxTypes, Peg, Blank, Ball
  <1>5. CASE Forgotten
    <2>1. next' \in Nat \ {0} /\ board' = board /\ ball' = ball
      BY <1>n, <1>5 DEF Forgotten
    <2> QED BY <2>1, <1>4
  <1>6. CASE AtBottom
    <2>1. /\ next \in 1 .. Len(ball) /\ next' \in Nat \ {0} /\ board' = board
          /\ ball' = [ball EXCEPT ![next] = NoBall]
      BY <1>n, <1>6 DEF AtBottom
    <2>2. NoBall \in Places \cup {NoBall} OBVIOUS
    <2>3. /\ ball' \in Seq(Places \cup {NoBall}) /\ Len(ball') = Len(ball)
          /\ \A l \in 1 .. Len(ball) : ball'[l] = IF l = next THEN NoBall ELSE ball[l]
      <3>1. next \in 1 .. Len(ball) /\ ball' = [ball EXCEPT ![next] = NoBall] BY <2>1
      <3> QED BY <2>2, <3>1, <1>s, Changed
    <2>4. DOMAIN ball' = DOMAIN ball BY <2>1
    <2>5. \A k \in Live' : k \in Live /\ ball'[k] = ball[k]
      BY <1>2, <2>3, <2>4 DEF Live
    <2>6. BallsConserved'
      BY <1>1, <2>1, <2>3, <2>5 DEF BallsConserved
    <2> QED BY <1>1, <2>1, <2>3, <2>6
            DEF BoxInv, BoxTypes, Peg, Blank, Ball
  <1>7. ASSUME Moves, ball[next] # NoBall, ball[next][1] < H - 1
        PROVE  /\ ball[next] \in Places /\ ball[next] = <<ball[next][1], ball[next][2]>>
               /\ ball[next][1] \in 0 .. H - 2 /\ ball[next][2] \in 0 .. W - 1
    <2>1. ball[next] \in Places BY <1>n, <1>2, <1>7
    <2>2. PICK a \in 0 .. H - 1, b \in 0 .. W - 1 : ball[next] = <<a, b>>
      BY <2>1 DEF Places
    <2> QED BY <2>1, <2>2, <1>3, <1>7
  <1>8. CASE Falls
    <2>1. /\ Moves /\ ball[next] # NoBall /\ ball[next][1] < H - 1
          /\ board[<<ball[next][1] + 1, ball[next][2]>>] = "blank"
          /\ Lands(ball[next], <<ball[next][1] + 1, ball[next][2]>>, FALSE)
      BY <1>8 DEF Falls, IsFree, Blank
    <2>2. <<ball[next][1] + 1, ball[next][2]>> \in Places
      <3>1. ball[next][1] + 1 \in 0 .. H - 1 /\ ball[next][2] \in 0 .. W - 1
        <4>1. ball[next][1] \in 0 .. H - 2 /\ ball[next][2] \in 0 .. W - 1 BY <1>7, <2>1
        <4> QED BY <4>1, <1>3
      <3> QED BY <3>1 DEF Places
    <2> QED BY <2>1, <2>2, LandsKeeps
  <1>9. CASE Bumps
    <2>1. PICK o \in Bounces(ball[next][1], ball[next][2]) :
             /\ Moves /\ ball[next] # NoBall /\ ball[next][1] < H - 1
             /\ Lands(ball[next], <<ball[next][1], ball[next][2] + o>>, o = 0)
      BY <1>9 DEF Bumps
    <2> DEFINE q == <<ball[next][1], ball[next][2] + o>>
    <2>2. q \in Places /\ (board[q] = "blank" \/ q = ball[next])
      <3>1. CASE o = 0
        <4>1. ball[next][2] + o = ball[next][2] BY <3>1, <1>3, <1>7, <2>1
        <4>2. q = ball[next] BY <4>1, <1>7, <2>1
        <4> QED BY <4>2, <1>7, <2>1
      <3>2. CASE o # 0
        <4>1. o \in Sides(ball[next][1], ball[next][2]) BY <3>2, <2>1 DEF Bounces
        <4>2. ball[next][2] + o \in 0 .. W - 1 /\ board[q] = "blank"
          BY <4>1 DEF Sides, IsFree, Blank
        <4>3. ball[next][1] \in 0 .. H - 1 BY <1>3, <1>7, <2>1
        <4> QED BY <4>2, <4>3 DEF Places
      <3> QED BY <3>1, <3>2
    <2> HIDE DEF q
    <2>3. Lands(ball[next], q, o = 0) /\ (o = 0) \in BOOLEAN BY <2>1 DEF q
    <2> QED BY <2>1, <2>2, <2>3, LandsKeeps
  <1>10. CASE run
    <2>1. next' \in Nat \ {0} BY <1>10 DEF run
    <2>2. CASE board' = board /\ ball' = ball BY <1>4, <2>1, <2>2
    <2>3. CASE ~(board' = board /\ ball' = ball)
      <3>1. /\ board[Top] = "blank" /\ board' = [board EXCEPT ![Top] = "ball"]
            /\ ball' = Append(ball, Top)
        BY <1>10, <2>3 DEF run, Enter, Blank, Ball
      <3>2. Top \in Places /\ Top # NoBall /\ IsFiniteSet(BallPlaces)
        BY BoxPlaces DEF NoBall
      <3>3. /\ board' \in [Places -> {"peg", "blank", "ball"}] /\ board'[Top] = "ball"
            /\ \A z \in Places : z # Top => board'[z] = board[z]
        BY <1>1, <3>1, <3>2
      <3>4. /\ ball' \in Seq(Places \cup {NoBall}) /\ Len(ball') = Len(ball) + 1
            /\ \A l \in 1 .. Len(ball) + 1 : ball'[l] = IF l = Len(ball) + 1 THEN Top ELSE ball[l]
        <4>1. Top \in Places \cup {NoBall} BY <3>2
        <4>2. ball' = Append(ball, Top) BY <3>1
        <4> QED BY <4>1, <4>2, <1>s, Appended
      <3>5. DOMAIN ball' = 1 .. Len(ball) + 1 BY <3>4, Members
      <3>6. /\ Cardinality(BallPlaces) = Len(ball)
            /\ \A k \in Live : board[ball[k]] = "ball"
            /\ \A k, l \in Live : ball[k] = ball[l] => k = l
            /\ \A z \in Places : board[z] = "peg" <=> z \in Pegs
        BY <1>1 DEF BallsConserved, BallPlaces, Peg, Ball
      <3>7. Cardinality(BallPlaces') = Len(ball')
        <4>1. BallPlaces' = BallPlaces \cup {Top} /\ Top \notin BallPlaces
          BY <3>1, <3>2, <3>3 DEF BallPlaces
        <4>2. Cardinality(BallPlaces) = Len(ball) /\ Len(ball') = Len(ball) + 1 BY <3>4, <3>6
        <4>3. Cardinality(BallPlaces') = Cardinality(BallPlaces) + 1
          BY <4>1, <3>2, FS_AddElement
        <4> QED BY <4>2, <4>3
      <3>8. \A k \in Live' : \/ k = Len(ball) + 1 /\ ball'[k] = Top
                             \/ /\ k # Len(ball) + 1 /\ k \in Live /\ ball'[k] = ball[k]
                                /\ ball[k] \in Places /\ ball[k] # Top
        <4> TAKE k \in Live'
        <4>1. k \in 1 .. Len(ball) + 1 /\ ball'[k] # NoBall BY <3>5 DEF Live
        <4>2. CASE k # Len(ball) + 1
          <5>1. k \in 1 .. Len(ball) /\ ball'[k] = ball[k] BY <4>1, <4>2, <1>2, <3>4
          <5>2. k \in Live BY <5>1, <4>1, <1>2 DEF Live
          <5>3. board[ball[k]] = "ball" BY <5>2, <3>6
          <5>4. ball[k] # Top BY <5>3, <3>1
          <5> QED BY <5>1, <5>2, <5>4, <4>1, <4>2, <1>2
        <4> QED BY <4>1, <4>2, <3>4
      <3>9. \A k \in Live' : board'[ball'[k]] = "ball"
        <4> TAKE k \in Live'
        <4>1. CASE ball'[k] = Top BY <4>1, <3>3
        <4>2. CASE k \in Live /\ ball'[k] = ball[k] /\ ball[k] \in Places /\ ball[k] # Top
          <5>1. board[ball[k]] = "ball" BY <4>2, <3>6
          <5>2. board'[ball[k]] = board[ball[k]] BY <4>2, <3>3
          <5> QED BY <4>2, <5>1, <5>2
        <4> QED BY <4>1, <4>2, <3>8
      <3>10. \A k, l \in Live' : ball'[k] = ball'[l] => k = l BY <3>6, <3>8
      <3>11. \A z \in Places : board'[z] = "peg" <=> z \in Pegs
        BY <3>1, <3>2, <3>3, <3>6
      <3>12. BallsConserved'
        BY <3>7, <3>9, <3>10, <3>11
        DEF BallsConserved, BallPlaces, Peg, Ball
      <3> QED BY <2>1, <3>3, <3>4, <3>12
              DEF BoxInv, BoxTypes, Peg, Blank, Ball
    <2> QED BY <2>2, <2>3
  <1>11. CASE UNCHANGED galtonVars BY <1>1, <1>4, <1>11 DEF galtonVars
  <1> QED BY <1>5, <1>6, <1>8, <1>9, <1>10, <1>11 DEF GaltonNext

-----------------------------------------------------------------------------
(* The towers: the calls that are on the stack do, one after the other,     *)
(* what is left to do, and nothing that they may not.                       *)

Disk  == 1 .. DISKS
Where == [Disk -> Towers]
Calls == {c \in [n : -1 .. DISKS, from : Towers, to : Towers, via : Towers] :
             c.from # c.to /\ c.from # c.via /\ c.to # c.via}

\* The disk that a call for one of them moves: the smaller ones are out of the way.
Carries(c, A, m) == A[m] = c.from /\ \A d \in Disk : d < m => A[d] = c.via

\* What a call does with the disks, from A to B.
Does(c, A, B) ==
    IF c.n = -1 THEN \E m \in Disk : Carries(c, A, m) /\ B = [A EXCEPT ![m] = c.to]
    ELSE /\ \A d \in Disk : d <= c.n => A[d] = c.from
         /\ B = [d \in Disk |-> IF d <= c.n THEN c.to ELSE A[d]]

\* The towers stand as A says, but for the disk in hand: each in order, and with room
\* for the smaller disks.
Stands(tw, hd, A) ==
    \A i \in Towers :
       /\ tw[i].n \in 0 .. DISKS
       /\ \A k \in 1 .. tw[i].n : tw[i].x[k] \in Disk /\ tw[i].x[k] <= DISKS - k + 1
       /\ \A k, l \in 1 .. tw[i].n : k < l => tw[i].x[k] > tw[i].x[l]
       /\ \A d \in Disk : A[d] = i /\ d # hd <=> \E k \in 1 .. tw[i].n : tw[i].x[k] = d

\* While the disks are put on the first tower, and after that: there are states of the
\* disks between the calls that are still to be done, and the last has the smallest at
\* its end.
Rising == /\ stack = <<>> /\ hand = 0 /\ t[0].n < DISKS /\ t[1].n = 0 /\ t[2].n = 0
          /\ \A k \in 1 .. t[0].n : t[0].x[k] = DISKS - k + 1
Playing == \E L \in [1 .. Len(stack) + 1 -> Where] :
              /\ Stands(t, hand, L[1])
              /\ \A k \in 1 .. Len(stack) : Does(stack[k], L[k], L[k + 1])
              /\ L[Len(stack) + 1][1] = 2
              /\ hand # 0 => stack # <<>> /\ stack[1].n = -1 /\ Carries(stack[1], L[1], hand)
TowersInv ==
    /\ t \in [Towers -> [x : [Disk -> 0 .. DISKS], n : 0 .. DISKS]]
    /\ screen \in [Rows \X Columns -> {"disk", "blank"}]
    /\ stack \in Seq(Calls) /\ hand \in 0 .. DISKS
    /\ ScreenShowsTowers
    /\ Rising \/ Playing

\* The invariant says more than that the disks are in order.
LEMMA InOrder == ASSUME HanoiAssumption, TowersInv PROVE DisksInOrder
  <1>1. DISKS \in Nat \ {0} BY DEF HanoiAssumption
  <1>2. hand \in 0 .. DISKS /\ t \in [Towers -> [x : [Disk -> 0 .. DISKS], n : 0 .. DISKS]]
    BY DEF TowersInv
  <1>3. CASE Rising
    <2>1. hand = 0 /\ t[1].n = 0 /\ t[2].n = 0 /\ t[0].n \in 0 .. DISKS
          /\ \A k \in 1 .. t[0].n : t[0].x[k] = DISKS - k + 1
      BY <1>1, <1>2, <1>3 DEF Rising, Towers
    <2>2. ASSUME NEW i \in Towers
          PROVE  t[i].n \in 0 .. DISKS /\ \A k \in 1 .. t[i].n - 1 : t[i].x[k] > t[i].x[k + 1]
      <3>1. i = 0 \/ i = 1 \/ i = 2 BY DEF Towers
      <3>2. CASE i = 0
        <4>1. ASSUME NEW k \in 1 .. t[0].n - 1 PROVE t[0].x[k] > t[0].x[k + 1]
          <5>1. k \in 1 .. t[0].n /\ k + 1 \in 1 .. t[0].n BY <2>1
          <5>2. t[0].x[k] = DISKS - k + 1 /\ t[0].x[k + 1] = DISKS - (k + 1) + 1 BY <2>1, <5>1
          <5> QED BY <5>1, <5>2, <1>1
        <4> QED BY <2>1, <3>2, <4>1
      <3>3. CASE i # 0 BY <2>1, <3>1, <3>3, <1>1
      <3> QED BY <3>2, <3>3
    <2> QED BY <2>1, <2>2 DEF DisksInOrder, None
  <1>4. CASE Playing
    <2>1. PICK L \in [1 .. Len(stack) + 1 -> Where] :
             /\ Stands(t, hand, L[1])
             /\ hand # 0 => stack # <<>> /\ stack[1].n = -1 /\ Carries(stack[1], L[1], hand)
      BY <1>4 DEF Playing
    <2>2. \A i \in Towers : /\ t[i].n \in 0 .. DISKS
                            /\ \A k \in 1 .. t[i].n - 1 : t[i].x[k] > t[i].x[k + 1]
      <3> TAKE i \in Towers
      <3>1. t[i].n \in 0 .. DISKS /\ \A k, l \in 1 .. t[i].n : k < l => t[i].x[k] > t[i].x[l]
        BY <2>1 DEF Stands
      <3>2. \A k \in 1 .. t[i].n - 1 : k \in 1 .. t[i].n /\ k + 1 \in 1 .. t[i].n /\ k < k + 1
        BY <3>1
      <3> QED BY <3>1, <3>2
    <2>3. ASSUME hand # 0, t[stack[1].to].n # 0
          PROVE  t[stack[1].to].x[t[stack[1].to].n] > hand
      <3> DEFINE c == stack[1]
                 d == t[c.to].x[t[c.to].n]
      <3>1. stack # <<>> /\ Carries(c, L[1], hand) /\ c \in Calls
        <4>1. stack \in Seq(Calls) BY DEF TowersInv
        <4> QED BY <4>1, <2>1, <2>3
      <3>2. c.to \in Towers /\ c.to # c.via BY <3>1 DEF Calls
      <3> HIDE DEF c
      <3>3. t[c.to].n \in 1 .. t[c.to].n /\ t[c.to].n \in 0 .. DISKS
        <4>1. t[c.to].n \in 0 .. DISKS BY <3>2, <2>1 DEF Stands
        <4> QED BY <4>1, <2>3, <1>1 DEF c
      <3>4. d \in Disk /\ L[1][d] = c.to /\ d # hand
        <4>1. d \in Disk BY <3>2, <3>3, <2>1 DEF Stands
        <4>2. \E k \in 1 .. t[c.to].n : t[c.to].x[k] = d BY <3>3
        <4> HIDE DEF d
        <4> QED BY <4>1, <4>2, <3>2, <2>1 DEF Stands
      <3> HIDE DEF d
      <3>5. ~(d < hand) BY <3>1, <3>2, <3>4 DEF Carries
      <3>6. d > hand BY <3>4, <3>5, <1>1, <1>2 DEF Disk
      <3> QED BY <3>6 DEF c, d
    <2> QED BY <2>2, <2>3 DEF DisksInOrder, None
  <1> QED BY <1>3, <1>4 DEF TowersInv

\* The places of two disks have nothing in common, on one tower or on two.
LEMMA UnderApart ==
  ASSUME HanoiAssumption, NEW i \in Towers, NEW j \in Towers, NEW q \in Disk, NEW z \in Disk,
         NEW d \in Disk, NEW e \in Disk, NEW p, p \in Under(q, i, d), p \in Under(z, j, e)
  PROVE  q = z /\ i = j
  <1>1. DISKS \in Nat \ {0} BY DEF HanoiAssumption
  <1>2. PICK k \in 0 .. 2 * d - 1 : p = <<DISKS - q + 1, (DISKS + 1) * (2 * i + 1) - d + k>>
    BY DEF Under
  <1>3. PICK l \in 0 .. 2 * e - 1 : p = <<DISKS - z + 1, (DISKS + 1) * (2 * j + 1) - e + l>>
    BY DEF Under
  <1>4. /\ DISKS - q + 1 = DISKS - z + 1
        /\ (DISKS + 1) * (2 * i + 1) - d + k = (DISKS + 1) * (2 * j + 1) - e + l
    BY <1>2, <1>3
  <1>5. q = z BY <1>1, <1>4 DEF Disk
  <1>6. ASSUME NEW a \in Towers
        PROVE  (DISKS + 1) * (2 * a + 1) = IF a = 0 THEN DISKS + 1 ELSE IF a = 1 THEN 3 * (DISKS + 1)
                                           ELSE 5 * (DISKS + 1)
    <2>1. CASE a = 0 BY <1>1, <2>1
    <2>2. CASE a = 1 BY <1>1, <2>2
    <2>3. CASE a = 2 BY <1>1, <2>3
    <2> QED BY <2>1, <2>2, <2>3 DEF Towers
  <1>7. PICK u \in Int, v \in Int : u = (DISKS + 1) * (2 * i + 1) /\ v = (DISKS + 1) * (2 * j + 1)
    BY <1>1 DEF Towers
  <1>8. /\ u = IF i = 0 THEN DISKS + 1 ELSE IF i = 1 THEN 3 * (DISKS + 1) ELSE 5 * (DISKS + 1)
        /\ v = IF j = 0 THEN DISKS + 1 ELSE IF j = 1 THEN 3 * (DISKS + 1) ELSE 5 * (DISKS + 1)
    BY <1>6, <1>7
  <1>9. u - d + k = v - e + l BY <1>4, <1>7
  <1>10. i = j
    <2>1. i \in 0 .. 2 /\ j \in 0 .. 2 BY DEF Towers
    <2> QED BY <2>1, <1>1, <1>8, <1>9 DEF Disk
  <1> QED BY <1>5, <1>10

TowerSet == [x : [Disk -> 0 .. DISKS], n : 0 .. DISKS]

\* A disk on top of a tower, and its place of the screen.
LEMMA Added ==
  ASSUME HanoiAssumption, t \in [Towers -> TowerSet],
         screen \in [Rows \X Columns -> {"disk", "blank"}], ScreenShowsTowers,
         NEW i \in Towers, NEW d \in Disk, t[i].n < DISKS, add_disk(i, d)
  PROVE  /\ t' \in [Towers -> TowerSet]
         /\ screen' \in [Rows \X Columns -> {"disk", "blank"}] /\ ScreenShowsTowers'
         /\ t'[i].n = t[i].n + 1 /\ t'[i].x[t[i].n + 1] = d
         /\ \A k \in 1 .. t[i].n : t'[i].x[k] = t[i].x[k]
         /\ \A j \in Towers : j # i => t'[j] = t[j]
  <1>1. DISKS \in Nat \ {0} BY DEF HanoiAssumption
  <1>2. PICK c \in Nat : c = t[i].n /\ c + 1 \in Disk /\ c + 1 \in 0 .. DISKS
    <2>1. t[i].n \in 0 .. DISKS BY DEF TowerSet
    <2> QED BY <2>1, <1>1 DEF Disk
  <1>3. /\ t' = [t EXCEPT ![i].x[c + 1] = d, ![i].n = c + 1]
        /\ screen' = [p \in Rows \X Columns |-> IF p \in Under(c + 1, i, d) THEN "disk" ELSE screen[p]]
    BY <1>2 DEF add_disk, text
  <1>4. t[i] \in TowerSet /\ t[i].x \in [Disk -> 0 .. DISKS] BY DEF TowerSet
  <1>5. t'[i] = [t[i] EXCEPT !.x[c + 1] = d, !.n = c + 1] BY <1>3
  <1>6. t'[i].x = [t[i].x EXCEPT ![c + 1] = d] /\ t'[i].n = c + 1 BY <1>4, <1>5 DEF TowerSet
  <1>7. \A j \in Towers : j # i => t'[j] = t[j] BY <1>3
  <1>8. t' \in [Towers -> TowerSet]
    <2>1. t'[i] \in TowerSet
      <3>1. d \in 0 .. DISKS BY <1>1 DEF Disk
      <3>2. [t[i].x EXCEPT ![c + 1] = d] \in [Disk -> 0 .. DISKS] BY <1>4, <3>1
      <3>3. t'[i] = [x |-> [t[i].x EXCEPT ![c + 1] = d], n |-> c + 1] BY <1>4, <1>5 DEF TowerSet
      <3> QED BY <3>2, <3>3, <1>2 DEF TowerSet
    <2>2. \A j \in Towers : t'[j] \in TowerSet BY <2>1, <1>7
    <2>3. t' = [j \in Towers |-> t'[j]] BY <1>3
    <2> QED BY <2>2, <2>3
  <1>9. t'[i].x[c + 1] = d /\ \A k \in 1 .. c : t'[i].x[k] = t[i].x[k]
    <2>1. \A k \in 1 .. c : k # c + 1 /\ k \in Disk BY <1>1, <1>2 DEF Disk
    <2> QED BY <2>1, <1>2, <1>4, <1>6
  <1>10. screen' \in [Rows \X Columns -> {"disk", "blank"}] BY <1>3
  <1>11. ASSUME NEW p \in Rows \X Columns
         PROVE  screen'[p] = "disk" <=> \E j \in Towers : \E k \in 1 .. t'[j].n :
                                      p \in Under(k, j, t'[j].x[k])
    <2>1. screen[p] = "disk" <=> \E j \in Towers : \E k \in 1 .. t[j].n :
                                    p \in Under(k, j, t[j].x[k])
      BY DEF ScreenShowsTowers
    <2>2. screen'[p] = "disk" <=> p \in Under(c + 1, i, d) \/ screen[p] = "disk" BY <1>3
    <2>3. ASSUME p \in Under(c + 1, i, d)
          PROVE  \E j \in Towers : \E k \in 1 .. t'[j].n : p \in Under(k, j, t'[j].x[k])
      <3>1. c + 1 \in 1 .. t'[i].n BY <1>6
      <3> QED BY <2>3, <3>1, <1>9
    <2>4. ASSUME NEW j \in Towers, NEW k \in 1 .. t[j].n, p \in Under(k, j, t[j].x[k])
          PROVE  \E l \in 1 .. t'[j].n : p \in Under(l, j, t'[j].x[l])
      <3>1. CASE j = i
        <4>1. k \in 1 .. c /\ k \in 1 .. c + 1 BY <3>1, <1>2
        <4> QED BY <4>1, <3>1, <2>4, <1>6, <1>9
      <3>2. CASE j # i BY <3>2, <2>4, <1>7
      <3> QED BY <3>1, <3>2
    <2>5. ASSUME NEW j \in Towers, NEW k \in 1 .. t'[j].n, p \in Under(k, j, t'[j].x[k])
          PROVE  p \in Under(c + 1, i, d) \/ \E l \in 1 .. t[j].n : p \in Under(l, j, t[j].x[l])
      <3>1. CASE j = i /\ k = c + 1 BY <3>1, <2>5, <1>9
      <3>2. CASE j = i /\ k # c + 1
        <4>1. k \in 1 .. c BY <3>2, <1>2, <1>6
        <4> QED BY <4>1, <3>2, <2>5, <1>2, <1>9
      <3>3. CASE j # i BY <3>3, <2>5, <1>7
      <3> QED BY <3>1, <3>2, <3>3
    <2> QED BY <2>1, <2>2, <2>3, <2>4, <2>5
  <1>12. ScreenShowsTowers'
    BY <1>11 DEF ScreenShowsTowers, Rows, Columns, Towers, Under
  <1> QED BY <1>2, <1>6, <1>7, <1>8, <1>9, <1>10, <1>12

\* The top disk of a tower gone, and its place of the screen.
LEMMA Removed ==
  ASSUME HanoiAssumption, t \in [Towers -> TowerSet],
         screen \in [Rows \X Columns -> {"disk", "blank"}], ScreenShowsTowers,
         \A j \in Towers, k \in Disk : k <= t[j].n => t[j].x[k] \in Disk,
         NEW i \in Towers, t[i].n > 0, remove_disk(i)
  PROVE  /\ t' \in [Towers -> TowerSet]
         /\ screen' \in [Rows \X Columns -> {"disk", "blank"}] /\ ScreenShowsTowers'
         /\ t'[i].n = t[i].n - 1 /\ t'[i].x = t[i].x
         /\ \A j \in Towers : j # i => t'[j] = t[j]
  <1>1. DISKS \in Nat \ {0} BY DEF HanoiAssumption
  <1>2. PICK c \in Nat : c = t[i].n /\ c \in Disk /\ c - 1 \in 0 .. DISKS
    <2>1. t[i].n \in 0 .. DISKS BY DEF TowerSet
    <2> QED BY <2>1, <1>1 DEF Disk
  <1> DEFINE d == t[i].x[c]
  <1>3. /\ t' = [t EXCEPT ![i].n = c - 1]
        /\ screen' = [p \in Rows \X Columns |-> IF p \in Under(c, i, d) THEN "blank" ELSE screen[p]]
    BY <1>2 DEF remove_disk, text
  <1>4. t[i] \in TowerSet OBVIOUS
  <1>5. t'[i] = [t[i] EXCEPT !.n = c - 1] BY <1>3
  <1>6. t'[i].x = t[i].x /\ t'[i].n = c - 1 BY <1>4, <1>5 DEF TowerSet
  <1>7. \A j \in Towers : j # i => t'[j] = t[j] BY <1>3
  <1>8. t' \in [Towers -> TowerSet]
    <2>1. t'[i] \in TowerSet
      <3>1. t'[i] = [x |-> t[i].x, n |-> c - 1] BY <1>4, <1>5 DEF TowerSet
      <3> QED BY <3>1, <1>2, <1>4 DEF TowerSet
    <2>2. \A j \in Towers : t'[j] \in TowerSet BY <2>1, <1>7
    <2>3. t' = [j \in Towers |-> t'[j]] BY <1>3
    <2> QED BY <2>2, <2>3
  <1>9. d \in Disk BY <1>2
  <1> HIDE DEF d
  <1>10. screen' \in [Rows \X Columns -> {"disk", "blank"}] BY <1>3
  <1>11. ASSUME NEW j \in Towers, NEW k \in 1 .. t[j].n, NEW p,
                p \in Under(c, i, d), p \in Under(k, j, t[j].x[k])
         PROVE  j = i /\ k = c
    <2>1. t[j].n \in 0 .. DISKS BY DEF TowerSet
    <2>2. k \in Disk /\ k <= t[j].n BY <2>1, <1>1 DEF Disk
    <2>3. PICK e \in Disk : e = t[j].x[k] BY <2>2
    <2>4. c \in Disk /\ p \in Under(c, i, d) /\ p \in Under(k, j, e) BY <2>3, <1>2, <1>11
    <2>5. k \in Disk BY <2>2
    <2> QED BY <2>4, <2>5, <1>9, UnderApart, Zenon
  <1>12. ASSUME NEW p \in Rows \X Columns
         PROVE  screen'[p] = "disk" <=> \E j \in Towers : \E k \in 1 .. t'[j].n :
                                      p \in Under(k, j, t'[j].x[k])
    <2>1. screen[p] = "disk" <=> \E j \in Towers : \E k \in 1 .. t[j].n :
                                    p \in Under(k, j, t[j].x[k])
      BY DEF ScreenShowsTowers
    <2>2. screen'[p] = "disk" <=> p \notin Under(c, i, d) /\ screen[p] = "disk" BY <1>3
    <2>3. ASSUME p \notin Under(c, i, d),
                 NEW j \in Towers, NEW k \in 1 .. t[j].n, p \in Under(k, j, t[j].x[k])
          PROVE  \E l \in 1 .. t'[j].n : p \in Under(l, j, t'[j].x[l])
      <3>1. CASE j = i
        <4>1. k # c BY <2>3, <3>1 DEF d
        <4>2. k \in 1 .. c - 1 BY <3>1, <4>1, <1>2
        <4> QED BY <4>2, <3>1, <2>3, <1>6
      <3>2. CASE j # i BY <3>2, <2>3, <1>7
      <3> QED BY <3>1, <3>2
    <2>4. ASSUME NEW j \in Towers, NEW k \in 1 .. t'[j].n, p \in Under(k, j, t'[j].x[k])
          PROVE  /\ p \notin Under(c, i, d)
                 /\ \E l \in 1 .. t[j].n : p \in Under(l, j, t[j].x[l])
      <3>1. k \in 1 .. t[j].n /\ t'[j].x = t[j].x /\ (j = i => k # c)
        <4>1. CASE j = i
          <5>1. k \in 1 .. c - 1 BY <4>1, <1>6
          <5> QED BY <4>1, <5>1, <1>2, <1>6
        <4>2. CASE j # i BY <4>2, <1>7
        <4> QED BY <4>1, <4>2
      <3>2. p \in Under(k, j, t[j].x[k]) BY <2>4, <3>1
      <3> QED BY <3>1, <3>2, <1>11
    <2> QED BY <2>1, <2>2, <2>3, <2>4
  <1>13. ScreenShowsTowers'
    BY <1>12 DEF ScreenShowsTowers, Rows, Columns, Towers, Under
  <1> QED BY <1>2, <1>6, <1>7, <1>8, <1>10, <1>13

\* A disk that is smaller than those of a tower has room on it.
LEMMA RoomFor ==
  ASSUME HanoiAssumption, t \in [Towers -> TowerSet],
         NEW A \in Where, NEW m \in Disk, NEW i \in Towers,
         Stands(t, m, A), \A d \in Disk : d < m => A[d] # i
  PROVE  /\ t[i].n < DISKS /\ m <= DISKS - t[i].n
         /\ \A k \in 1 .. t[i].n : t[i].x[k] > m
  <1>1. DISKS \in Nat \ {0} BY DEF HanoiAssumption
  <1>2. /\ t[i].n \in 0 .. DISKS
        /\ \A k \in 1 .. t[i].n : t[i].x[k] \in Disk /\ t[i].x[k] <= DISKS - k + 1
        /\ \A d \in Disk : A[d] = i /\ d # m <=> \E k \in 1 .. t[i].n : t[i].x[k] = d
    BY DEF Stands
  <1>3. ASSUME NEW k \in 1 .. t[i].n PROVE t[i].x[k] > m
    <2>1. PICK e \in Disk : e = t[i].x[k] BY <1>2
    <2>2. A[e] = i /\ e # m BY <2>1, <1>2
    <2>3. ~(e < m) BY <2>2
    <2>4. e > m BY <2>2, <2>3 DEF Disk
    <2> QED BY <2>1, <2>4
  <1>4. CASE t[i].n = 0 BY <1>1, <1>3, <1>4 DEF Disk
  <1>5. CASE t[i].n # 0
    <2>1. PICK n \in Nat : n = t[i].n /\ n \in 1 .. DISKS BY <1>1, <1>2, <1>5
    <2>2. n \in 1 .. t[i].n BY <2>1
    <2>3. PICK e \in Disk : e = t[i].x[n] /\ e <= DISKS - n + 1 BY <2>2, <1>2
    <2>4. e > m BY <2>2, <2>3, <1>3
    <2>5. n < DISKS /\ m <= DISKS - n BY <2>1, <2>3, <2>4, <1>1 DEF Disk
    <2> QED BY <2>1, <2>5, <1>3
  <1> QED BY <1>4, <1>5

\* The towers with the disk in hand put on one of them.
LEMMA StandsAdded ==
  ASSUME HanoiAssumption, t \in [Towers -> TowerSet],
         NEW A \in Where, NEW m \in Disk, NEW i \in Towers,
         Stands(t, m, A), \A d \in Disk : d < m => A[d] # i,
         t'[i].n = t[i].n + 1, t'[i].x[t[i].n + 1] = m,
         \A k \in 1 .. t[i].n : t'[i].x[k] = t[i].x[k],
         \A j \in Towers : j # i => t'[j] = t[j]
  PROVE  Stands(t', 0, [A EXCEPT ![m] = i])
  <1>1. DISKS \in Nat \ {0} BY DEF HanoiAssumption
  <1>2. /\ t[i].n < DISKS /\ m <= DISKS - t[i].n
        /\ \A k \in 1 .. t[i].n : t[i].x[k] > m
    BY RoomFor
  <1> DEFINE B == [A EXCEPT ![m] = i]
  <1>3. B[m] = i /\ \A d \in Disk : d # m => B[d] = A[d] BY DEF Where
  <1> HIDE DEF B
  <1>4. ASSUME NEW j \in Towers
        PROVE  /\ t'[j].n \in 0 .. DISKS
               /\ \A k \in 1 .. t'[j].n : t'[j].x[k] \in Disk /\ t'[j].x[k] <= DISKS - k + 1
               /\ \A k, l \in 1 .. t'[j].n : k < l => t'[j].x[k] > t'[j].x[l]
               /\ \A d \in Disk : B[d] = j /\ d # 0 <=> \E k \in 1 .. t'[j].n : t'[j].x[k] = d
    <2>1. /\ t[j].n \in 0 .. DISKS
          /\ \A k \in 1 .. t[j].n : t[j].x[k] \in Disk /\ t[j].x[k] <= DISKS - k + 1
          /\ \A k, l \in 1 .. t[j].n : k < l => t[j].x[k] > t[j].x[l]
          /\ \A d \in Disk : A[d] = j /\ d # m <=> \E k \in 1 .. t[j].n : t[j].x[k] = d
      BY DEF Stands
    <2>2. \A d \in Disk : d # 0 BY DEF Disk
    <2>3. CASE j # i
      <3>1. t'[j] = t[j] BY <2>3
      <3>2. \A d \in Disk : B[d] = j <=> A[d] = j /\ d # m BY <1>3, <2>3
      <3> QED BY <2>1, <2>2, <3>1, <3>2
    <2>4. CASE j = i
      <3>1. PICK n \in Nat : n = t[i].n /\ t'[i].n = n + 1 /\ n + 1 <= DISKS
        BY <2>1, <2>4, <1>1, <1>2
      <3>2. t'[i].x[n + 1] = m /\ \A k \in 1 .. n : t'[i].x[k] = t[i].x[k] BY <3>1
      <3>3. \A k \in 1 .. n + 1 : k \in 1 .. n \/ k = n + 1 BY <3>1
      <3>4. ASSUME NEW k \in 1 .. n + 1
            PROVE  t'[i].x[k] \in Disk /\ t'[i].x[k] <= DISKS - k + 1
        <4>1. CASE k \in 1 .. n BY <4>1, <2>1, <2>4, <3>1, <3>2
        <4>2. CASE k = n + 1
          <5>1. m <= DISKS - (n + 1) + 1 BY <1>1, <1>2, <3>1 DEF Disk
          <5> QED BY <5>1, <4>2, <3>2
        <4> QED BY <3>3, <4>1, <4>2
      <3>5. ASSUME NEW k \in 1 .. n + 1, NEW l \in 1 .. n + 1, k < l
            PROVE  t'[i].x[k] > t'[i].x[l]
        <4>1. k \in 1 .. n BY <3>5
        <4>2. CASE l \in 1 .. n BY <4>1, <4>2, <3>5, <2>1, <2>4, <3>1, <3>2
        <4>3. CASE l = n + 1
          <5>1. t[i].x[k] > m BY <4>1, <3>1, <1>2
          <5> QED BY <5>1, <4>1, <4>3, <3>2
        <4> QED BY <3>3, <4>2, <4>3
      <3>6. ASSUME NEW d \in Disk PROVE B[d] = i <=> \E k \in 1 .. n + 1 : t'[i].x[k] = d
        <4>1. CASE d = m
          <5>1. n + 1 \in 1 .. n + 1 BY <3>1
          <5> QED BY <4>1, <5>1, <1>3, <3>2
        <4>2. CASE d # m
          <5>1. B[d] = i <=> \E k \in 1 .. n : t[i].x[k] = d BY <4>2, <1>3, <2>1, <2>4, <3>1
          <5>2. ASSUME NEW k \in 1 .. n + 1, t'[i].x[k] = d PROVE k \in 1 .. n /\ t[i].x[k] = d
            BY <5>2, <4>2, <3>2, <3>3
          <5>3. ASSUME NEW k \in 1 .. n, t[i].x[k] = d PROVE k \in 1 .. n + 1 /\ t'[i].x[k] = d
            <6>1. k \in 1 .. n + 1 BY <3>1
            <6> QED BY <6>1, <5>3, <3>2
          <5> QED BY <5>1, <5>2, <5>3
        <4> QED BY <4>1, <4>2
      <3>7. t'[i].n = n + 1 /\ n + 1 \in 0 .. DISKS BY <3>1, <1>1
      <3> QED BY <3>4, <3>5, <3>6, <3>7, <2>2, <2>4
    <2> QED BY <2>3, <2>4
  <1> QED BY <1>4 DEF Stands, B

\* The smallest disk of a tower is the one on its top.
LEMMA StandsRemoved ==
  ASSUME HanoiAssumption, t \in [Towers -> TowerSet],
         NEW A \in Where, NEW m \in Disk, NEW i \in Towers,
         Stands(t, 0, A), A[m] = i, \A d \in Disk : d < m => A[d] # i
  PROVE  /\ t[i].n > 0 /\ t[i].x[t[i].n] = m
         /\ \A k \in 1 .. t[i].n - 1 : t[i].x[k] # m
  <1>1. DISKS \in Nat \ {0} BY DEF HanoiAssumption
  <1>2. /\ t[i].n \in 0 .. DISKS
        /\ \A k \in 1 .. t[i].n : t[i].x[k] \in Disk
        /\ \A k, l \in 1 .. t[i].n : k < l => t[i].x[k] > t[i].x[l]
        /\ \A d \in Disk : A[d] = i /\ d # 0 <=> \E k \in 1 .. t[i].n : t[i].x[k] = d
    BY DEF Stands
  <1>3. PICK n \in Nat : n = t[i].n BY <1>1, <1>2
  <1>4. m # 0 BY DEF Disk
  <1>5. PICK k \in 1 .. n : t[i].x[k] = m BY <1>2, <1>3, <1>4
  <1>6. n \in 1 .. n BY <1>5
  <1>7. k = n
    <2>1. SUFFICES ASSUME k < n PROVE FALSE BY <1>5, <1>6
    <2>2. PICK e \in Disk : e = t[i].x[n] BY <1>2, <1>3, <1>6
    <2>3. m > e BY <2>1, <2>2, <1>2, <1>3, <1>5, <1>6
    <2>4. A[e] = i BY <2>2, <1>2, <1>3, <1>6
    <2> QED BY <2>3, <2>4 DEF Disk
  <1>8. ASSUME NEW l \in 1 .. n - 1 PROVE t[i].x[l] # m
    <2>1. l \in 1 .. n /\ l < n BY <1>6
    <2>2. PICK e \in Disk : e = t[i].x[l] BY <2>1, <1>2, <1>3
    <2>3. e > m BY <2>1, <2>2, <1>2, <1>3, <1>5, <1>6, <1>7
    <2> QED BY <2>2, <2>3 DEF Disk
  <1> QED BY <1>3, <1>5, <1>6, <1>7, <1>8

\* The towers with that disk taken into the hand.
LEMMA StandsTaken ==
  ASSUME HanoiAssumption, t \in [Towers -> TowerSet],
         NEW A \in Where, NEW m \in Disk, NEW i \in Towers,
         Stands(t, 0, A), A[m] = i, \A d \in Disk : d < m => A[d] # i,
         t'[i].n = t[i].n - 1, t'[i].x = t[i].x,
         \A j \in Towers : j # i => t'[j] = t[j]
  PROVE  Stands(t', m, A)
  <1>1. DISKS \in Nat \ {0} BY DEF HanoiAssumption
  <1>2. /\ t[i].n > 0 /\ t[i].x[t[i].n] = m
        /\ \A k \in 1 .. t[i].n - 1 : t[i].x[k] # m
    BY StandsRemoved
  <1>3. ASSUME NEW j \in Towers
        PROVE  /\ t'[j].n \in 0 .. DISKS
               /\ \A k \in 1 .. t'[j].n : t'[j].x[k] \in Disk /\ t'[j].x[k] <= DISKS - k + 1
               /\ \A k, l \in 1 .. t'[j].n : k < l => t'[j].x[k] > t'[j].x[l]
               /\ \A d \in Disk : A[d] = j /\ d # m <=> \E k \in 1 .. t'[j].n : t'[j].x[k] = d
    <2>1. /\ t[j].n \in 0 .. DISKS
          /\ \A k \in 1 .. t[j].n : t[j].x[k] \in Disk /\ t[j].x[k] <= DISKS - k + 1
          /\ \A k, l \in 1 .. t[j].n : k < l => t[j].x[k] > t[j].x[l]
          /\ \A d \in Disk : A[d] = j /\ d # 0 <=> \E k \in 1 .. t[j].n : t[j].x[k] = d
      BY DEF Stands
    <2>2. \A d \in Disk : d # 0 BY DEF Disk
    <2>3. CASE j # i
      <3>1. t'[j] = t[j] BY <2>3
      <3>2. \A d \in Disk : A[d] = j => d # m BY <2>3
      <3> QED BY <2>1, <2>2, <3>1, <3>2
    <2>4. CASE j = i
      <3>1. PICK n \in Nat \ {0} : n = t[i].n /\ t'[i].n = n - 1 /\ n <= DISKS
        BY <2>1, <2>4, <1>1, <1>2
      <3>2. t'[i].n \in 0 .. DISKS /\ \A k \in 1 .. n - 1 : k \in 1 .. n BY <3>1, <1>1
      <3>3. \A k \in 1 .. n : k \in 1 .. n - 1 \/ k = n BY <3>1
      <3>4. ASSUME NEW d \in Disk PROVE A[d] = i /\ d # m <=> \E k \in 1 .. n - 1 : t[i].x[k] = d
        <4>1. A[d] = i <=> \E k \in 1 .. n : t[i].x[k] = d BY <2>1, <2>2, <2>4, <3>1
        <4>2. t[i].x[n] = m /\ \A k \in 1 .. n - 1 : t[i].x[k] # m BY <1>2, <3>1
        <4> QED BY <4>1, <4>2, <3>2, <3>3
      <3>5. /\ \A k \in 1 .. n : t[i].x[k] \in Disk /\ t[i].x[k] <= DISKS - k + 1
            /\ \A k, l \in 1 .. n : k < l => t[i].x[k] > t[i].x[l]
        BY <2>1, <2>4, <3>1
      <3> QED BY <3>1, <3>2, <3>4, <3>5, <2>4
    <2> QED BY <2>3, <2>4
  <1> QED BY <1>3 DEF Stands

\* What shows that the calls after a step still do what is left.
LEMMA PlayingNext ==
  ASSUME NEW K \in [1 .. Len(stack') + 1 -> Where], Stands(t', hand', K[1]),
         \A k \in 1 .. Len(stack') : Does(stack'[k], K[k], K[k + 1]),
         K[Len(stack') + 1][1] = 2,
         hand' # 0 => stack' # <<>> /\ stack'[1].n = -1 /\ Carries(stack'[1], K[1], hand')
  PROVE  Playing'
  BY DEF Playing, Stands, Does, Carries, Where, Disk, Towers

\* The towers are empty at the start.
LEMMA InitTowers == ASSUME HanoiAssumption, HanoiInit PROVE TowersInv
  <1>1. DISKS \in Nat \ {0} BY DEF HanoiAssumption
  <1>2. /\ t = [i \in Towers |-> [x |-> [k \in Disk |-> 0], n |-> 0]]
        /\ screen = [p \in Rows \X Columns |-> "blank"] /\ stack = <<>> /\ hand = 0
    BY DEF HanoiInit, None, Disk
  <1>3. t \in [Towers -> [x : [Disk -> 0 .. DISKS], n : 0 .. DISKS]] BY <1>1, <1>2
  <1>4. screen \in [Rows \X Columns -> {"disk", "blank"}] BY <1>2
  <1>5. ScreenShowsTowers
    <2>1. \A i \in Towers : t[i].n = 0 BY <1>2
    <2>2. \A p \in Rows \X Columns : screen[p] # "disk" BY <1>2
    <2>3. \A i \in Towers : \A k \in 1 .. t[i].n : FALSE BY <2>1
    <2> QED BY <2>2, <2>3 DEF ScreenShowsTowers
  <1>6. Rising
    <2>1. 0 \in Towers /\ 1 \in Towers /\ 2 \in Towers BY DEF Towers
    <2> QED BY <1>1, <1>2, <2>1 DEF Rising
  <1>7. stack \in Seq(Calls) /\ hand \in 0 .. DISKS BY <1>1, <1>2
  <1> QED BY <1>3, <1>4, <1>5, <1>6, <1>7 DEF TowersInv

\* The disks are put on the first tower, and then its largest call of move is due.
LEMMA SetUpKeeps == ASSUME HanoiAssumption, TowersInv, SetUp PROVE TowersInv'
  <1>1. DISKS \in Nat \ {0} BY DEF HanoiAssumption
  <1>2. 0 \in Towers /\ 1 \in Towers /\ 2 \in Towers BY DEF Towers
  <1>3. /\ t \in [Towers -> TowerSet] /\ hand \in 0 .. DISKS
        /\ screen \in [Rows \X Columns -> {"disk", "blank"}] /\ ScreenShowsTowers
    BY DEF TowersInv, TowerSet
  <1>4. /\ stack = <<>> /\ t[0].n < DISKS /\ t[1].n = 0 /\ t[2].n = 0
        /\ add_disk(0, DISKS - t[0].n) /\ hand' = hand
        /\ stack' = IF t[0].n + 1 = DISKS THEN <<Call(DISKS, 0, 2, 1)>> ELSE <<>>
    BY DEF SetUp
  <1>5. Rising
    <2>1. SUFFICES ASSUME Playing PROVE FALSE BY DEF TowersInv
    <2>2. PICK L \in [1 .. Len(stack) + 1 -> Where] :
             /\ Stands(t, hand, L[1]) /\ L[Len(stack) + 1][1] = 2
             /\ hand # 0 => stack # <<>>
      BY <2>1 DEF Playing
    <2>3. hand = 0 /\ Len(stack) = 0 BY <1>4, <2>2
    <2>4. L[1][1] = 2 /\ 1 \in Disk BY <1>1, <2>2, <2>3 DEF Disk
    <2>5. \E k \in 1 .. t[2].n : t[2].x[k] = 1
      <3>1. \A d \in Disk : L[1][d] = 2 /\ d # hand <=> \E k \in 1 .. t[2].n : t[2].x[k] = d
        BY <1>2, <2>2 DEF Stands
      <3> QED BY <2>3, <2>4, <3>1
    <2> QED BY <2>5, <1>4
  <1>6. PICK n \in Nat : n = t[0].n /\ n < DISKS /\ DISKS - n \in Disk
    <2>1. t[0].n \in 0 .. DISKS BY <1>2, <1>3 DEF TowerSet
    <2> QED BY <2>1, <1>1, <1>4 DEF Disk
  <1>7. /\ t' \in [Towers -> TowerSet]
        /\ screen' \in [Rows \X Columns -> {"disk", "blank"}] /\ ScreenShowsTowers'
        /\ t'[0].n = n + 1 /\ t'[0].x[n + 1] = DISKS - n
        /\ \A k \in 1 .. n : t'[0].x[k] = t[0].x[k]
        /\ \A j \in Towers : j # 0 => t'[j] = t[j]
    <2>1. t[0].n < DISKS /\ DISKS - t[0].n \in Disk BY <1>4, <1>6
    <2> QED BY <1>2, <1>3, <1>4, <1>6, <2>1, Added
  <1>8. \A k \in 1 .. n + 1 : t'[0].x[k] = DISKS - k + 1
    <2>1. \A k \in 1 .. n : t[0].x[k] = DISKS - k + 1 BY <1>5, <1>6 DEF Rising
    <2>2. DISKS - (n + 1) + 1 = DISKS - n BY <1>1, <1>6
    <2>3. \A k \in 1 .. n + 1 : k \in 1 .. n \/ k = n + 1 BY <1>6
    <2> QED BY <1>7, <2>1, <2>2, <2>3
  <1>9. t'[1].n = 0 /\ t'[2].n = 0 BY <1>2, <1>4, <1>7
  <1>10. hand = 0 BY <1>5 DEF Rising
  <1>11. CASE n + 1 # DISKS
    <2>1. stack' = <<>> /\ t'[0].n < DISKS BY <1>1, <1>4, <1>6, <1>7, <1>11
    <2>2. Rising' BY <1>4, <1>7, <1>8, <1>9, <1>10, <2>1 DEF Rising
    <2>3. stack' \in Seq(Calls) /\ hand' \in 0 .. DISKS BY <1>3, <1>4, <2>1
    <2> QED BY <1>7, <2>2, <2>3 DEF TowersInv, TowerSet, Calls, Disk, Towers, Rows, Columns
  <1>12. CASE n + 1 = DISKS
    <2> DEFINE c == Call(DISKS, 0, 2, 1)
               K == <<[d \in Disk |-> 0], [d \in Disk |-> 2]>>
    <2>1. stack' = <<c>> /\ Len(stack') = 1 /\ stack'[1] = c BY <1>4, <1>6, <1>12
    <2>2. c \in Calls /\ c.n = DISKS /\ c.from = 0 /\ c.to = 2 /\ c.via = 1
      BY <1>1, <1>2 DEF Calls, Call
    <2> HIDE DEF c
    <2>3. stack' \in Seq(Calls) BY <2>1, <2>2
    <2>4. /\ K \in [1 .. 2 -> Where] /\ K[1] = [d \in Disk |-> 0] /\ K[2] = [d \in Disk |-> 2]
      BY <1>2 DEF Where
    <2> HIDE DEF K
    <2>5. Stands(t', hand', K[1])
      <3>1. ASSUME NEW j \in Towers
            PROVE  /\ t'[j].n \in 0 .. DISKS
                   /\ \A k \in 1 .. t'[j].n : t'[j].x[k] \in Disk /\ t'[j].x[k] <= DISKS - k + 1
                   /\ \A k, l \in 1 .. t'[j].n : k < l => t'[j].x[k] > t'[j].x[l]
                   /\ \A d \in Disk : K[1][d] = j /\ d # 0 <=> \E k \in 1 .. t'[j].n : t'[j].x[k] = d
        <4>1. \A d \in Disk : d # 0 /\ K[1][d] = 0 BY <2>4 DEF Disk
        <4>2. CASE j = 0
          <5>1. t'[0].n = DISKS BY <1>7, <1>12
          <5>2. \A k \in 1 .. DISKS : t'[0].x[k] = DISKS - k + 1 BY <1>8, <1>12
          <5>3. \A k \in 1 .. DISKS : DISKS - k + 1 \in Disk BY <1>1 DEF Disk
          <5>4. \A d \in Disk : \E k \in 1 .. DISKS : t'[0].x[k] = d
            <6> TAKE d \in Disk
            <6>1. DISKS - d + 1 \in 1 .. DISKS /\ DISKS - (DISKS - d + 1) + 1 = d BY <1>1 DEF Disk
            <6> QED BY <6>1, <5>2
          <5>5. \A k, l \in 1 .. DISKS : k < l => t'[0].x[k] > t'[0].x[l]
            <6> TAKE k, l \in 1 .. DISKS
            <6>1. t'[0].x[k] = DISKS - k + 1 /\ t'[0].x[l] = DISKS - l + 1 BY <5>2
            <6>2. k < l => DISKS - k + 1 > DISKS - l + 1 BY <1>1
            <6> QED BY <6>1, <6>2
          <5>6. \A k \in 1 .. DISKS : t'[0].x[k] \in Disk /\ t'[0].x[k] <= DISKS - k + 1
            <6> TAKE k \in 1 .. DISKS
            <6>1. t'[0].x[k] = DISKS - k + 1 BY <5>2
            <6> QED BY <6>1, <5>3, <1>1
          <5>7. DISKS \in 0 .. DISKS BY <1>1
          <5> QED BY <4>1, <4>2, <5>1, <5>4, <5>5, <5>6, <5>7
        <4>3. CASE j # 0
          <5>1. t'[j].n = 0 BY <4>3, <1>9 DEF Towers
          <5> QED BY <5>1, <4>1, <4>3, <1>1
        <4> QED BY <4>2, <4>3
      <3> QED BY <3>1, <1>4, <1>10 DEF Stands
    <2>6. Does(c, K[1], K[2])
      <3>1. c.n # -1 BY <1>1, <2>2
      <3>2. \A d \in Disk : d <= DISKS BY <1>1 DEF Disk
      <3>3. K[2] = [d \in Disk |-> IF d <= c.n THEN c.to ELSE K[1][d]] BY <2>2, <2>4, <3>2
      <3>4. \A d \in Disk : d <= c.n => K[1][d] = c.from BY <2>2, <2>4
      <3> QED BY <3>1, <3>3, <3>4 DEF Does
    <2>7. K[Len(stack') + 1][1] = 2
      <3>1. 1 \in Disk BY <1>1 DEF Disk
      <3> QED BY <2>1, <2>4, <3>1
    <2>8. Playing'
      <3>1. K \in [1 .. Len(stack') + 1 -> Where] BY <2>1, <2>4
      <3>2. \A k \in 1 .. Len(stack') : Does(stack'[k], K[k], K[k + 1])
        <4>1. \A k \in 1 .. Len(stack') : k = 1 BY <2>1
        <4>2. Does(stack'[1], K[1], K[1 + 1]) BY <2>1, <2>6
        <4> QED BY <4>1, <4>2
      <3>3. hand' = 0 BY <1>4, <1>10
      <3> QED BY <3>1, <3>2, <3>3, <2>5, <2>7, PlayingNext
    <2>9. hand' \in 0 .. DISKS BY <1>3, <1>4
    <2> QED BY <1>7, <2>3, <2>8, <2>9 DEF TowersInv, TowerSet, Calls, Disk, Towers, Rows, Columns
  <1> QED BY <1>11, <1>12

\* A call of move is replaced by its two calls and the move between them, or, with no
\* disk left for it, by nothing.
LEMMA MoveStackKeeps == ASSUME HanoiAssumption, TowersInv, move PROVE TowersInv'
  <1>1. DISKS \in Nat \ {0} BY DEF HanoiAssumption
  <1>2. stack # <<>> /\ stack \in Seq(Calls) /\ hand \in 0 .. DISKS /\ t' = t /\ screen' = screen /\ hand' = hand
    BY DEF TowersInv, move
  <1> DEFINE c == stack[1]
  <1>3. c \in Calls /\ c.n >= 0 BY <1>2 DEF move
  <1>4. stack' = (IF c.n = 0 THEN <<>> ELSE Expanded(c)) \o Tail(stack) BY DEF move
  <1>5. Playing BY <1>2 DEF TowersInv, Rising
  <1>6. PICK L \in [1 .. Len(stack) + 1 -> Where] :
           /\ Stands(t, hand, L[1])
           /\ \A k \in 1 .. Len(stack) : Does(stack[k], L[k], L[k + 1])
           /\ L[Len(stack) + 1][1] = 2
           /\ hand # 0 => stack # <<>> /\ stack[1].n = -1 /\ Carries(stack[1], L[1], hand)
    BY <1>5 DEF Playing
  <1>7. hand = 0 BY <1>3, <1>6
  <1>8. PICK n \in Nat \ {0} : n = Len(stack) BY <1>2
  <1>9. /\ Tail(stack) \in Seq(Calls) /\ Len(Tail(stack)) = n - 1
        /\ \A k \in 1 .. n - 1 : Tail(stack)[k] = stack[k + 1]
    BY <1>2, <1>8
  <1>10. Does(c, L[1], L[2])
    <2>1. 1 \in 1 .. Len(stack) BY <1>8
    <2>2. Does(stack[1], L[1], L[1 + 1]) BY <2>1, <1>6
    <2> QED BY <2>2
  <1>11. L[1] \in Where /\ L[2] \in Where /\ L[n + 1] \in Where
    <2>1. 1 \in 1 .. Len(stack) + 1 /\ 2 \in 1 .. Len(stack) + 1 /\ n + 1 \in 1 .. Len(stack) + 1 BY <1>8
    <2> QED BY <2>1, <1>6
  <1> HIDE DEF c
  <1>12. ASSUME stack' \in Seq(Calls), Playing' PROVE TowersInv'
    BY <1>2, <1>12 DEF TowersInv, Calls, Disk, Towers, Rows, Columns, ScreenShowsTowers, Under
  <1>13. CASE c.n = 0
    <2>1. stack' = Tail(stack) BY <1>4, <1>9, <1>13
    <2>2. stack' \in Seq(Calls) /\ Len(stack') = n - 1 /\ \A k \in 1 .. n - 1 : stack'[k] = stack[k + 1]
      BY <2>1, <1>9
    <2> DEFINE K == [k \in 1 .. n |-> L[k + 1]]
    <2>3. K \in [1 .. n -> Where]
      <3>1. \A k \in 1 .. n : k + 1 \in 1 .. Len(stack) + 1 BY <1>8
      <3> QED BY <3>1, <1>6
    <2>4. L[2] = L[1]
      <3>1. \A d \in Disk : ~(d <= c.n) BY <1>13 DEF Disk
      <3>2. L[2] = [d \in Disk |-> L[1][d]] BY <3>1, <1>10, <1>13 DEF Does
      <3> QED BY <3>2, <1>11 DEF Where
    <2>5. K[1] = L[1] /\ K[n] = L[n + 1] /\ \A k \in 1 .. n - 1 : K[k] = L[k + 1] /\ K[k + 1] = L[k + 1 + 1]
      BY <2>4, <1>8
    <2> HIDE DEF K
    <2>6. \A k \in 1 .. Len(stack') : Does(stack'[k], K[k], K[k + 1])
      <3> SUFFICES ASSUME NEW k \in 1 .. n - 1 PROVE Does(stack'[k], K[k], K[k + 1]) BY <2>2
      <3>1. k + 1 \in 1 .. Len(stack) BY <1>8
      <3>2. Does(stack[k + 1], L[k + 1], L[k + 1 + 1]) BY <3>1, <1>6
      <3> QED BY <3>2, <2>2, <2>5
    <2>7. Stands(t', hand', K[1]) BY <1>2, <1>6, <2>5
    <2>8. K \in [1 .. Len(stack') + 1 -> Where] /\ K[Len(stack') + 1][1] = 2
      <3>1. Len(stack') + 1 = n BY <2>2, <1>8
      <3> QED BY <3>1, <2>3, <2>5, <1>6, <1>8
    <2>9. Playing' BY <2>6, <2>7, <2>8, <1>2, <1>7, PlayingNext
    <2> QED BY <2>2, <2>9, <1>12
  <1>14. CASE c.n # 0
    <2>1. PICK g \in Disk : g = c.n /\ g >= 1
      <3>1. c.n \in -1 .. DISKS BY <1>3 DEF Calls
      <3> QED BY <3>1, <1>1, <1>3, <1>14 DEF Disk
    <2> DEFINE a == Call(g - 1, c.from, c.via, c.to)
               b == Call(-1, c.from, c.to, c.via)
               e == Call(g - 1, c.via, c.to, c.from)
    <2>2. /\ c.from \in Towers /\ c.to \in Towers /\ c.via \in Towers
          /\ c.from # c.to /\ c.from # c.via /\ c.to # c.via
      BY <1>3 DEF Calls
    <2>3. a \in Calls /\ b \in Calls /\ e \in Calls
      <3>1. g - 1 \in -1 .. DISKS /\ -1 \in -1 .. DISKS BY <1>1 DEF Disk
      <3> QED BY <2>2, <3>1 DEF Calls, Call
    <2>4. /\ a.n = g - 1 /\ a.from = c.from /\ a.to = c.via /\ a.via = c.to
          /\ b.n = -1 /\ b.from = c.from /\ b.to = c.to /\ b.via = c.via
          /\ e.n = g - 1 /\ e.from = c.via /\ e.to = c.to /\ e.via = c.from
      BY DEF Call
    <2>5. stack' = <<a, b, e>> \o Tail(stack) BY <1>4, <1>14, <2>1 DEF Expanded
    <2> HIDE DEF a, b, e
    <2>6. /\ stack' \in Seq(Calls) /\ Len(stack') = n + 2 /\ stack'[1] = a /\ stack'[2] = b /\ stack'[3] = e
          /\ \A k \in 4 .. n + 2 : stack'[k] = stack[k - 2]
      <3>1. <<a, b, e>> \in Seq(Calls) /\ Len(<<a, b, e>>) = 3 BY <2>3
      <3>2. stack' \in Seq(Calls) /\ Len(stack') = n + 2 BY <2>5, <3>1, <1>8, <1>9
      <3>3. stack'[1] = a /\ stack'[2] = b /\ stack'[3] = e BY <2>5, <3>1, <1>8, <1>9
      <3>4. ASSUME NEW k \in 4 .. n + 2 PROVE stack'[k] = stack[k - 2]
        <4>1. stack'[k] = Tail(stack)[k - 3] BY <2>5, <3>1, <1>8, <1>9
        <4>2. PICK l \in Int : l = k - 3 BY <1>8
        <4>3. l \in 1 .. n - 1 /\ l + 1 = k - 2 BY <4>2, <1>8
        <4>4. Tail(stack)[l] = stack[l + 1] BY <4>3, <1>9
        <4> QED BY <4>1, <4>2, <4>3, <4>4
      <3> QED BY <3>2, <3>3, <3>4
    <2> DEFINE A == [d \in Disk |-> IF d <= g - 1 THEN c.via ELSE L[1][d]]
               B == [A EXCEPT ![g] = c.to]
               K == [k \in 1 .. n + 3 |-> IF k = 1 THEN L[1] ELSE IF k = 2 THEN A
                                          ELSE IF k = 3 THEN B ELSE L[k - 2]]
    <2>7. /\ \A d \in Disk : d <= g => L[1][d] = c.from
          /\ L[2] = [d \in Disk |-> IF d <= g THEN c.to ELSE L[1][d]]
      <3>1. c.n # -1 BY <1>3
      <3> QED BY <3>1, <2>1, <1>10 DEF Does
    <2>8. A \in Where /\ \A d \in Disk : A[d] = IF d <= g - 1 THEN c.via ELSE L[1][d]
      BY <2>2, <1>11 DEF Where
    <2>9. B \in Where /\ B[g] = c.to /\ \A d \in Disk : d # g => B[d] = A[d]
      BY <2>2, <2>8 DEF Where
    <2>10. Does(a, L[1], A)
      <3>1. a.n # -1 BY <2>1, <2>4
      <3>2. \A d \in Disk : d <= g - 1 => L[1][d] = c.from BY <2>7 DEF Disk
      <3> QED BY <3>1, <3>2, <2>4 DEF Does
    <2>11. Does(b, A, B)
      <3>1. A[g] = c.from
        <4>1. g <= g /\ ~(g <= g - 1) BY DEF Disk
        <4> QED BY <4>1, <2>7, <2>8
      <3>2. \A d \in Disk : d < g => A[d] = c.via
        <4>1. \A d \in Disk : d < g => d <= g - 1 BY DEF Disk
        <4> QED BY <4>1, <2>8
      <3>3. Carries(b, A, g) BY <3>1, <3>2, <2>4 DEF Carries
      <3>4. B = [A EXCEPT ![g] = b.to] BY <2>4
      <3> HIDE DEF A, B
      <3> QED BY <3>3, <3>4, <2>4 DEF Does
    <2>12. Does(e, B, L[2])
      <3>1. e.n # -1 BY <2>1, <2>4
      <3>2. \A d \in Disk : d <= g - 1 => d # g BY DEF Disk
      <3>3. \A d \in Disk : d <= g - 1 => B[d] = c.via BY <3>2, <2>8, <2>9
      <3>4. ASSUME NEW d \in Disk
            PROVE  (IF d <= g THEN c.to ELSE L[1][d]) = IF d <= g - 1 THEN c.to ELSE B[d]
        <4>1. CASE d <= g - 1
          <5>1. d <= g BY <4>1 DEF Disk
          <5> QED BY <4>1, <5>1
        <4>2. CASE d = g
          <5>1. d <= g /\ ~(d <= g - 1) BY <4>2 DEF Disk
          <5> QED BY <4>2, <5>1, <2>9
        <4>3. CASE ~(d <= g)
          <5>1. d # g /\ ~(d <= g - 1) BY <4>3 DEF Disk
          <5> QED BY <4>3, <5>1, <2>8, <2>9
        <4>4. d <= g => d <= g - 1 \/ d = g BY DEF Disk
        <4> QED BY <4>1, <4>2, <4>3, <4>4
      <3>5. L[2] = [d \in Disk |-> IF d <= g - 1 THEN c.to ELSE B[d]] BY <2>7, <3>4
      <3> HIDE DEF B, A
      <3> QED BY <3>1, <3>3, <3>5, <2>4 DEF Does
    <2> HIDE DEF A, B
    <2>13. K \in [1 .. n + 3 -> Where]
      <3>1. \A k \in 4 .. n + 3 : k - 2 \in 1 .. Len(stack) + 1 BY <1>8
      <3>2. ASSUME NEW k \in 1 .. n + 3 PROVE K[k] \in Where
        <4>1. k \in {1, 2, 3} \/ k \in 4 .. n + 3 BY <1>8
        <4>2. CASE k \in {1, 2, 3} BY <4>2, <1>11, <2>8, <2>9
        <4>3. CASE k \in 4 .. n + 3
          <5>1. L[k - 2] \in Where BY <4>3, <3>1, <1>6
          <5>2. k # 1 /\ k # 2 /\ k # 3 BY <4>3
          <5> QED BY <5>1, <5>2
        <4> QED BY <4>1, <4>2, <4>3
      <3> QED BY <3>2
    <2>14. /\ K[1] = L[1] /\ K[2] = A /\ K[3] = B
           /\ \A k \in 4 .. n + 3 : K[k] = L[k - 2]
      <3>1. 1 \in 1 .. n + 3 /\ 2 \in 1 .. n + 3 /\ 3 \in 1 .. n + 3 BY <1>8
      <3>2. \A k \in 4 .. n + 3 : k \in 1 .. n + 3 /\ k # 1 /\ k # 2 /\ k # 3 BY <1>8
      <3> QED BY <3>1, <3>2
    <2> HIDE DEF K
    <2>15. \A k \in 1 .. Len(stack') : Does(stack'[k], K[k], K[k + 1])
      <3> SUFFICES ASSUME NEW k \in 1 .. n + 2 PROVE Does(stack'[k], K[k], K[k + 1]) BY <2>6
      <3>1. CASE k = 1 BY <3>1, <2>6, <2>10, <2>14
      <3>2. CASE k = 2 BY <3>2, <2>6, <2>11, <2>14
      <3>3. CASE k = 3
        <4>1. 4 \in 4 .. n + 3 BY <1>8
        <4>2. K[4] = L[4 - 2] BY <4>1, <2>14
        <4>3. K[3 + 1] = L[2] BY <4>2
        <4> QED BY <3>3, <4>3, <2>6, <2>12, <2>14
      <3>4. CASE k \in 4 .. n + 2
        <4>1. PICK l \in Int : l = k - 2 BY <1>8
        <4>2. l \in 1 .. Len(stack) /\ k + 1 - 2 = l + 1 /\ k \in 4 .. n + 3 /\ k + 1 \in 4 .. n + 3
          BY <3>4, <4>1, <1>8
        <4>3. K[k] = L[l] /\ K[k + 1] = L[l + 1] BY <4>1, <4>2, <2>14
        <4>4. stack'[k] = stack[l] BY <3>4, <4>1, <2>6
        <4>5. Does(stack[l], L[l], L[l + 1]) BY <4>2, <1>6
        <4> QED BY <4>3, <4>4, <4>5
      <3> QED BY <3>1, <3>2, <3>3, <3>4, <1>8
    <2>16. Stands(t', hand', K[1]) BY <1>2, <1>6, <2>14
    <2>17. K \in [1 .. Len(stack') + 1 -> Where] /\ K[Len(stack') + 1][1] = 2
      <3>1. Len(stack') + 1 = n + 3 /\ n + 3 \in 4 .. n + 3 /\ (n + 3) - 2 = Len(stack) + 1 BY <2>6, <1>8
      <3>2. K[n + 3] = L[Len(stack) + 1] BY <3>1, <2>14
      <3> QED BY <3>1, <3>2, <2>13, <1>6
    <2>18. Playing' BY <2>15, <2>16, <2>17, <1>2, <1>7, PlayingNext
    <2> QED BY <2>6, <2>18, <1>12
  <1> QED BY <1>13, <1>14

\* The disk of a call is the top of its tower.
LEMMA TakeKeeps == ASSUME HanoiAssumption, TowersInv, Take PROVE TowersInv'
  <1>1. DISKS \in Nat \ {0} BY DEF HanoiAssumption
  <1>2. /\ t \in [Towers -> TowerSet] /\ stack # <<>> /\ stack \in Seq(Calls)
        /\ screen \in [Rows \X Columns -> {"disk", "blank"}] /\ ScreenShowsTowers
    BY DEF TowersInv, TowerSet, Take
  <1> DEFINE c == stack[1]
  <1>3. c \in Calls /\ c.n = -1 /\ hand = 0 /\ stack' = stack /\ remove_disk(c.from)
        /\ hand' = t[c.from].x[t[c.from].n]
    BY <1>2 DEF Take, None
  <1>4. PICK L \in [1 .. Len(stack) + 1 -> Where] :
           /\ Stands(t, hand, L[1])
           /\ \A k \in 1 .. Len(stack) : Does(stack[k], L[k], L[k + 1])
           /\ L[Len(stack) + 1][1] = 2
    BY <1>2 DEF TowersInv, Rising, Playing
  <1>5. 1 \in 1 .. Len(stack) /\ 1 \in 1 .. Len(stack) + 1 BY <1>2
  <1>6. Does(c, L[1], L[2])
    <2>1. Does(stack[1], L[1], L[1 + 1]) BY <1>4, <1>5
    <2> QED BY <2>1
  <1>7. PICK A \in Where : A = L[1] BY <1>4, <1>5
  <1> HIDE DEF c
  <1>8. PICK m \in Disk : Carries(c, A, m) BY <1>3, <1>6, <1>7 DEF Does
  <1>9. PICK i \in Towers : i = c.from BY <1>3 DEF Calls
  <1>10. A[m] = i /\ \A d \in Disk : d < m => A[d] # i
    <2>1. c.from # c.via BY <1>3 DEF Calls
    <2> QED BY <2>1, <1>8, <1>9 DEF Carries
  <1>11. Stands(t, 0, A) BY <1>3, <1>4, <1>7
  <1>12. t[i].n > 0 /\ t[i].x[t[i].n] = m BY <1>2, <1>10, <1>11, StandsRemoved
  <1>13. \A j \in Towers, k \in Disk : k <= t[j].n => t[j].x[k] \in Disk
    <2> TAKE j \in Towers, k \in Disk
    <2>1. t[j].n \in 0 .. DISKS /\ \A l \in 1 .. t[j].n : t[j].x[l] \in Disk BY <1>11 DEF Stands
    <2>2. k <= t[j].n => k \in 1 .. t[j].n BY <2>1, <1>1 DEF Disk
    <2> QED BY <2>1, <2>2
  <1>14. remove_disk(i) /\ hand' = m BY <1>3, <1>9, <1>12
  <1>15. /\ t' \in [Towers -> TowerSet]
         /\ screen' \in [Rows \X Columns -> {"disk", "blank"}] /\ ScreenShowsTowers'
         /\ t'[i].n = t[i].n - 1 /\ t'[i].x = t[i].x
         /\ \A j \in Towers : j # i => t'[j] = t[j]
    BY <1>2, <1>12, <1>13, <1>14, Removed
  <1>16. Stands(t', m, A) BY <1>2, <1>10, <1>11, <1>15, StandsTaken
  <1>17. Playing'
    <2>1. L \in [1 .. Len(stack') + 1 -> Where] /\ L[Len(stack') + 1][1] = 2 BY <1>3, <1>4
    <2>2. Stands(t', hand', L[1]) BY <1>7, <1>14, <1>16
    <2>3. \A k \in 1 .. Len(stack') : Does(stack'[k], L[k], L[k + 1]) BY <1>3, <1>4
    <2>4. stack' # <<>> /\ stack'[1].n = -1 /\ Carries(stack'[1], L[1], hand')
      BY <1>2, <1>3, <1>7, <1>8, <1>14 DEF c
    <2> QED BY <2>1, <2>2, <2>3, <2>4, PlayingNext
  <1>18. stack' \in Seq(Calls) /\ hand' \in 0 .. DISKS
    <2>1. m \in 0 .. DISKS BY <1>1 DEF Disk
    <2> QED BY <2>1, <1>2, <1>3, <1>14
  <1> QED BY <1>15, <1>17, <1>18 DEF TowersInv, TowerSet, Calls, Disk, Towers, Rows, Columns

\* The disk in hand is the one that the call is for, and there is room for it.
LEMMA PutKeeps == ASSUME HanoiAssumption, TowersInv, Put PROVE TowersInv'
  <1>1. DISKS \in Nat \ {0} BY DEF HanoiAssumption
  <1>2. /\ t \in [Towers -> TowerSet] /\ stack # <<>> /\ stack \in Seq(Calls)
        /\ screen \in [Rows \X Columns -> {"disk", "blank"}] /\ ScreenShowsTowers
    BY DEF TowersInv, TowerSet, Put
  <1> DEFINE c == stack[1]
  <1>3. c \in Calls /\ c.n = -1 /\ hand # 0 /\ stack' = Tail(stack) /\ add_disk(c.to, hand) /\ hand' = 0
    BY <1>2 DEF Put, None
  <1>4. PICK L \in [1 .. Len(stack) + 1 -> Where] :
           /\ Stands(t, hand, L[1])
           /\ \A k \in 1 .. Len(stack) : Does(stack[k], L[k], L[k + 1])
           /\ L[Len(stack) + 1][1] = 2
           /\ hand # 0 => stack # <<>> /\ stack[1].n = -1 /\ Carries(stack[1], L[1], hand)
    BY <1>2 DEF TowersInv, Rising, Playing
  <1>5. PICK n \in Nat \ {0} : n = Len(stack) BY <1>2
  <1>6. 1 \in 1 .. Len(stack) /\ 1 \in 1 .. Len(stack) + 1 BY <1>5
  <1>7. Does(c, L[1], L[2])
    <2>1. Does(stack[1], L[1], L[1 + 1]) BY <1>4, <1>6
    <2> QED BY <2>1
  <1>8. PICK A \in Where : A = L[1] BY <1>4, <1>6
  <1>9. PICK m \in Disk : m = hand
    <2>1. hand \in 0 .. DISKS BY DEF TowersInv
    <2> QED BY <2>1, <1>1, <1>3 DEF Disk
  <1>10. Carries(c, A, m) BY <1>3, <1>4, <1>8, <1>9
  <1> HIDE DEF c
  <1>11. PICK i \in Towers : i = c.to BY <1>3 DEF Calls
  <1>12. L[2] = [A EXCEPT ![m] = i]
    <2>1. PICK l \in Disk : Carries(c, A, l) /\ L[2] = [A EXCEPT ![l] = c.to] BY <1>3, <1>7, <1>8 DEF Does
    <2>2. c.from # c.via BY <1>3 DEF Calls
    <2>3. ~(m < l) /\ ~(l < m) BY <2>1, <2>2, <1>10 DEF Carries
    <2>4. m = l BY <2>1, <2>3 DEF Disk
    <2> QED BY <2>1, <2>4, <1>11
  <1>13. \A d \in Disk : d < m => A[d] # i
    <2>1. c.to # c.via BY <1>3 DEF Calls
    <2> QED BY <2>1, <1>10, <1>11 DEF Carries
  <1>14. Stands(t, m, A) BY <1>4, <1>8, <1>9
  <1>15. t[i].n < DISKS BY <1>2, <1>13, <1>14, RoomFor
  <1>16. add_disk(i, m) BY <1>3, <1>9, <1>11
  <1>17. /\ t' \in [Towers -> TowerSet]
         /\ screen' \in [Rows \X Columns -> {"disk", "blank"}] /\ ScreenShowsTowers'
         /\ t'[i].n = t[i].n + 1 /\ t'[i].x[t[i].n + 1] = m
         /\ \A k \in 1 .. t[i].n : t'[i].x[k] = t[i].x[k]
         /\ \A j \in Towers : j # i => t'[j] = t[j]
    BY <1>2, <1>15, <1>16, Added
  <1>18. Stands(t', 0, [A EXCEPT ![m] = i]) BY <1>2, <1>13, <1>14, <1>17, StandsAdded
  <1>19. stack' \in Seq(Calls) /\ Len(stack') = n - 1 /\ \A k \in 1 .. n - 1 : stack'[k] = stack[k + 1]
    BY <1>2, <1>3, <1>5
  <1> DEFINE K == [k \in 1 .. n |-> L[k + 1]]
  <1>20. K \in [1 .. n -> Where]
    <2>1. \A k \in 1 .. n : k + 1 \in 1 .. Len(stack) + 1 BY <1>5
    <2> QED BY <2>1, <1>4
  <1>21. K[1] = L[2] /\ K[n] = L[n + 1] /\ \A k \in 1 .. n - 1 : K[k] = L[k + 1] /\ K[k + 1] = L[k + 1 + 1]
    BY <1>5
  <1> HIDE DEF K
  <1>22. \A k \in 1 .. Len(stack') : Does(stack'[k], K[k], K[k + 1])
    <2> SUFFICES ASSUME NEW k \in 1 .. n - 1 PROVE Does(stack'[k], K[k], K[k + 1]) BY <1>19
    <2>1. k + 1 \in 1 .. Len(stack) BY <1>5
    <2>2. Does(stack[k + 1], L[k + 1], L[k + 1 + 1]) BY <2>1, <1>4
    <2> QED BY <2>2, <1>19, <1>21
  <1>23. Stands(t', hand', K[1]) BY <1>3, <1>12, <1>18, <1>21
  <1>24. K \in [1 .. Len(stack') + 1 -> Where] /\ K[Len(stack') + 1][1] = 2
    <2>1. Len(stack') + 1 = n BY <1>19, <1>5
    <2> QED BY <2>1, <1>20, <1>21, <1>4, <1>5
  <1>25. Playing' BY <1>3, <1>22, <1>23, <1>24, PlayingNext
  <1>26. hand' \in 0 .. DISKS BY <1>1, <1>3
  <1> QED BY <1>17, <1>19, <1>25, <1>26
          DEF TowersInv, TowerSet, Calls, Disk, Towers, Rows, Columns

\* Every step of the towers keeps their invariant.
LEMMA TowersKeeps == ASSUME HanoiAssumption, TowersInv, [HanoiNext]_hanoiVars PROVE TowersInv'
  <1>1. CASE HanoiNext BY <1>1, SetUpKeeps, MoveStackKeeps, TakeKeeps, PutKeeps DEF HanoiNext
  <1>2. CASE UNCHANGED hanoiVars
    <2>1. t' = t /\ screen' = screen /\ stack' = stack /\ hand' = hand BY <1>2 DEF hanoiVars
    <2>2. CASE Rising
      <3>1. Rising' BY <2>1, <2>2 DEF Rising
      <3> QED BY <2>1, <3>1
              DEF TowersInv, Calls, Disk, Towers, Rows, Columns, ScreenShowsTowers, Under
    <2>3. CASE Playing
      <3>1. PICK L \in [1 .. Len(stack) + 1 -> Where] :
               /\ Stands(t, hand, L[1])
               /\ \A k \in 1 .. Len(stack) : Does(stack[k], L[k], L[k + 1])
               /\ L[Len(stack) + 1][1] = 2
               /\ hand # 0 => stack # <<>> /\ stack[1].n = -1 /\ Carries(stack[1], L[1], hand)
        BY <2>3 DEF Playing
      <3>2. Playing'
        <4>1. L \in [1 .. Len(stack') + 1 -> Where] /\ L[Len(stack') + 1][1] = 2 BY <2>1, <3>1
        <4>2. Stands(t', hand', L[1]) BY <2>1, <3>1
        <4>3. \A k \in 1 .. Len(stack') : Does(stack'[k], L[k], L[k + 1]) BY <2>1, <3>1
        <4>4. hand' # 0 => stack' # <<>> /\ stack'[1].n = -1 /\ Carries(stack'[1], L[1], hand') BY <2>1, <3>1
        <4> QED BY <4>1, <4>2, <4>3, <4>4, PlayingNext
      <3> QED BY <2>1, <3>2
              DEF TowersInv, Calls, Disk, Towers, Rows, Columns, ScreenShowsTowers, Under
    <2> QED BY <2>2, <2>3 DEF TowersInv
  <1> QED BY <1>1, <1>2

\* What the run checks of the towers follows.
LEMMA TowersEnough == ASSUME HanoiAssumption, TowersInv
                      PROVE  DisksInOrder /\ ScreenShowsTowers
  BY InOrder DEF TowersInv

\* Quotient and remainder are the only ones that there are.
LEMMA Divides ==
  ASSUME NEW d \in Nat \ {0}, NEW q \in Int, NEW r \in 0 .. d - 1
  PROVE  (d * q + r) \div d = q /\ (d * q + r) % d = r
  <1>1. PICK a \in Int : a = d * q + r OBVIOUS
  <1>2. PICK n \in Int, s \in 0 .. d - 1 : n = a \div d /\ s = a % d OBVIOUS
  <1>3. a = d * n + s BY <1>2
  <1>4. n = q
    <2>1. CASE n > q
      <3>1. d * n >= d * (q + 1) BY <2>1
      <3>2. d * (q + 1) = d * q + d OBVIOUS
      <3> QED BY <1>1, <1>3, <3>1, <3>2
    <2>2. CASE n < q
      <3>1. d * q >= d * (n + 1) BY <2>2
      <3>2. d * (n + 1) = d * n + d OBVIOUS
      <3> QED BY <1>1, <1>3, <3>1, <3>2
    <2> QED BY <2>1, <2>2
  <1>5. d * q \in Int OBVIOUS
  <1>6. s = r BY <1>1, <1>3, <1>4, <1>5
  <1> QED BY <1>1, <1>2, <1>4, <1>6

-----------------------------------------------------------------------------
(* The ant: the array is the part of the plane in the window.               *)

\* Places of an array of g rows of v places, by their index, row and column.
LEMMA Cells ==
  ASSUME NEW v \in Nat \ {0}, NEW g \in Nat \ {0}
  PROVE  /\ \A a \in 0 .. v - 1, b \in 0 .. g - 1 :
               b * v + a \in 0 .. v * g - 1 /\ (b * v + a) % v = a /\ (b * v + a) \div v = b
         /\ \A i \in 0 .. v * g - 1 :
               i % v \in 0 .. v - 1 /\ i \div v \in 0 .. g - 1 /\ i = (i \div v) * v + (i % v)
  <1>1. ASSUME NEW a \in 0 .. v - 1, NEW b \in 0 .. g - 1
        PROVE  b * v + a \in 0 .. v * g - 1 /\ (b * v + a) % v = a /\ (b * v + a) \div v = b
    <2>1. b * v = v * b /\ v * b \in Nat /\ v * g \in Nat OBVIOUS
    <2>2. (v * b + a) \div v = b /\ (v * b + a) % v = a
      <3>1. b \in Int OBVIOUS
      <3> QED BY <3>1, Divides, Zenon
    <2>3. v * b + v <= v * g
      <3>1. v * (b + 1) <= v * g OBVIOUS
      <3>2. v * (b + 1) = v * b + v OBVIOUS
      <3> QED BY <3>1, <3>2
    <2> QED BY <2>1, <2>2, <2>3
  <1>2. ASSUME NEW i \in 0 .. v * g - 1
        PROVE  i % v \in 0 .. v - 1 /\ i \div v \in 0 .. g - 1 /\ i = (i \div v) * v + (i % v)
    <2>1. i \in Int /\ v * g \in Int OBVIOUS
    <2>2. PICK q \in Int, r \in 0 .. v - 1 : q = i \div v /\ r = i % v /\ i = v * q + r BY <2>1
    <2>3. q < g
      <3>1. q >= g => v * q >= v * g BY <2>2
      <3> QED BY <2>1, <2>2, <3>1
    <2>4. q >= 0
      <3>1. q <= -1 => v * q <= v * (-1) BY <2>2
      <3>2. v * (-1) = -v OBVIOUS
      <3> QED BY <2>1, <2>2, <3>1, <3>2
    <2>5. v * q = q * v BY <2>2
    <2> QED BY <2>2, <2>3, <2>4, <2>5
  <1> QED BY <1>1, <1>2

\* The same of the window, place by place.
LEMMA WindowByPlace ==
  ASSUME NEW v \in Nat \ {0}, NEW g \in Nat \ {0}, NEW p, NEW S, NEW n, NEW o
  PROVE  (\A i \in 0 .. v * g - 1 : p[i] = 1 <=> <<n + (i % v), o + (i \div v)>> \in S)
           <=> \A a \in 0 .. v - 1, b \in 0 .. g - 1 :
                  p[b * v + a] = 1 <=> <<n + a, o + b>> \in S
  <1>1. ASSUME \A i \in 0 .. v * g - 1 : p[i] = 1 <=> <<n + (i % v), o + (i \div v)>> \in S,
               NEW a \in 0 .. v - 1, NEW b \in 0 .. g - 1
        PROVE  p[b * v + a] = 1 <=> <<n + a, o + b>> \in S
    <2>1. PICK i \in 0 .. v * g - 1 : i = b * v + a /\ i % v = a /\ i \div v = b
      <3>1. b * v + a \in 0 .. v * g - 1 /\ (b * v + a) % v = a /\ (b * v + a) \div v = b
        <4>1. \A c \in 0 .. v - 1, d \in 0 .. g - 1 :
                 d * v + c \in 0 .. v * g - 1 /\ (d * v + c) % v = c /\ (d * v + c) \div v = d
          BY Cells, Zenon
        <4> QED BY <4>1, Zenon
      <3> QED BY <3>1, Zenon
    <2> QED BY <1>1, <2>1, Zenon
  <1>2. ASSUME \A a \in 0 .. v - 1, b \in 0 .. g - 1 :
                  p[b * v + a] = 1 <=> <<n + a, o + b>> \in S,
               NEW i \in 0 .. v * g - 1
        PROVE  p[i] = 1 <=> <<n + (i % v), o + (i \div v)>> \in S
    <2>1. /\ i % v \in 0 .. v - 1 /\ i \div v \in 0 .. g - 1
          /\ i = (i \div v) * v + (i % v)
      BY Cells, Zenon
    <2>2. PICK a \in 0 .. v - 1, b \in 0 .. g - 1 :
             a = i % v /\ b = i \div v /\ i = b * v + a
      BY <2>1, Zenon
    <2>3. p[b * v + a] = 1 <=> <<n + a, o + b>> \in S BY <1>2, <2>2, Zenon
    <2> QED BY <2>2, <2>3, Zenon
  <1> QED BY <1>1, <1>2, Zenon

\* A window that moves shows what it showed, and nothing where it comes to.
LEMMA WalkKeeps == ASSUME AntInv, walk PROVE AntInv'
  <1> DEFINE F  == Flipped(<<ox + x, oy + y>>)
             p1 == [pix EXCEPT ![y * w + x] = 1 - @]
             tx == Turned[1]
             ty == Turned[2]
             nx == x + tx
             ny == y + ty
             Rest(p, X, Y) == \A a \in 0 .. w - 1, b \in 0 .. h - 1 :
                                 p[b * w + a] = 1 <=> <<X + a, Y + b>> \in F
  <1>1. /\ w \in Nat \ {0} /\ h \in Nat \ {0} /\ pix \in [0 .. w * h - 1 -> {0, 1}]
        /\ x \in 0 .. w - 1 /\ y \in 0 .. h - 1 /\ ox \in Int /\ oy \in Int
        /\ \A q \in plane : InWindow(q, ox, oy)
        /\ \A i \in 0 .. w * h - 1 : pix[i] = 1 <=> <<ox + (i % w), oy + (i \div w)>> \in plane
    BY DEF AntInv, AntTypes, All, WindowIsPlane
  <1>2. <<tx, ty>> \in {<<0, 1>>, <<0, -1>>, <<1, 0>>, <<-1, 0>>}
    BY DEF AntInv, AntTypes, Turned
  <1>3. /\ pix' = Scrolled(p1, nx, ny)
        /\ x' = Clamped(nx, w) /\ y' = Clamped(ny, h)
        /\ ox' = ox + Moved(nx, w) /\ oy' = oy + Moved(ny, h)
        /\ dx' = tx /\ dy' = ty /\ w' = w /\ h' = h
        /\ plane' = {q \in F : InWindow(q, ox', oy')}
    BY DEF walk
  <1>4. \A a \in 0 .. w - 1, b \in 0 .. h - 1 :
           /\ b * w + a \in 0 .. w * h - 1 /\ (b * w + a) % w = a /\ (b * w + a) \div w = b
    <2>1. w \in Nat \ {0} /\ h \in Nat \ {0} BY <1>1
    <2> QED BY <2>1, Cells, Zenon
  <1>5. \A i \in 0 .. w * h - 1 :
           i % w \in 0 .. w - 1 /\ i \div w \in 0 .. h - 1 /\ i = (i \div w) * w + (i % w)
    <2>1. w \in Nat \ {0} /\ h \in Nat \ {0} BY <1>1
    <2> QED BY <2>1, Cells, Zenon
  <1>6. \A q \in F : InWindow(q, ox, oy)
    <2>1. InWindow(<<ox + x, oy + y>>, ox, oy) BY <1>1 DEF InWindow
    <2> QED BY <2>1, <1>1 DEF Flipped
  <1>7. p1 \in [0 .. w * h - 1 -> {0, 1}] /\ Rest(p1, ox, oy)
    <2>1. y * w + x \in 0 .. w * h - 1 BY <1>1, <1>4
    <2>2. p1 \in [0 .. w * h - 1 -> {0, 1}]
      <3>1. pix[y * w + x] \in {0, 1} BY <1>1, <2>1
      <3>2. 1 - pix[y * w + x] \in {0, 1} BY <3>1
      <3> QED BY <1>1, <3>2, Zenon
    <2>3. ASSUME NEW a \in 0 .. w - 1, NEW b \in 0 .. h - 1
          PROVE  p1[b * w + a] = 1 <=> <<ox + a, oy + b>> \in F
      <3> DEFINE i == b * w + a
                 m == y * w + x
                 q == <<ox + a, oy + b>>
                 e == <<ox + x, oy + y>>
      <3>1. /\ i \in 0 .. w * h - 1 /\ i % w = a /\ i \div w = b
            /\ m \in 0 .. w * h - 1 /\ m % w = x /\ m \div w = y
        BY <1>1, <1>4
      <3> HIDE DEF i, m
      <3>2. pix[i] = 1 <=> q \in plane BY <1>1, <3>1
      <3>3. i = m <=> q = e BY <1>1, <3>1
      <3>4. p1[i] = IF i = m THEN 1 - pix[i] ELSE pix[i] BY <1>1, <3>1 DEF m
      <3>5. pix[i] \in {0, 1} BY <1>1, <3>1
      <3>6. q \in F <=> IF q = e THEN q \notin plane ELSE q \in plane BY DEF Flipped
      <3> HIDE DEF q, e, p1, F
      <3>7. p1[i] = 1 <=> q \in F BY <3>2, <3>3, <3>4, <3>5, <3>6
      <3> QED BY <3>7 DEF i, q
    <2> QED BY <2>2, <2>3
  <1> HIDE DEF F, p1, tx, ty
  <1>8. /\ pix' \in [0 .. w * h - 1 -> {0, 1}] /\ ox' \in Int /\ oy' \in Int
        /\ x' \in 0 .. w - 1 /\ y' \in 0 .. h - 1
        /\ Rest(pix', ox', oy')
    <2>1. CASE nx \in 0 .. w - 1 /\ ny \in 0 .. h - 1
      <3>1. pix' = p1 /\ ox' = ox /\ oy' = oy /\ x' = nx /\ y' = ny
        BY <2>1, <1>1, <1>3 DEF Scrolled, Clamped, Moved
      <3> QED BY <3>1, <2>1, <1>1, <1>7
    <2>2. CASE nx < 0
      <3>1. nx = -1 /\ ny = y BY <2>2, <1>1, <1>2
      <3>2. /\ pix' = ColumnBefore(p1) /\ ox' = ox - 1 /\ oy' = oy /\ x' = 0 /\ y' = y
        BY <3>1, <1>1, <1>3 DEF Scrolled, Clamped, Moved
      <3>3. pix' \in [0 .. w * h - 1 -> {0, 1}]
            /\ \A i \in 0 .. w * h - 1 : pix'[i] = IF i % w = 0 THEN 0 ELSE p1[i - 1]
        <4>1. \A i \in 0 .. w * h - 1 : i % w # 0 => i - 1 \in 0 .. w * h - 1
          <5> TAKE i \in 0 .. w * h - 1
          <5>1. 0 % w = 0 BY <1>1
          <5>2. w * h \in Int BY <1>1
          <5> QED BY <5>1, <5>2
        <4>2. pix' = [i \in 0 .. w * h - 1 |-> IF i % w = 0 THEN 0 ELSE p1[i - 1]]
          BY <3>2 DEF ColumnBefore, All
        <4> QED BY <4>1, <4>2, <1>7
      <3>4. ASSUME NEW a \in 0 .. w - 1, NEW b \in 0 .. h - 1
            PROVE  pix'[b * w + a] = 1 <=> <<ox' + a, oy' + b>> \in F
        <4>1. PICK i \in 0 .. w * h - 1 : i = b * w + a /\ i % w = a BY <1>4, Zenon
        <4>2. pix'[i] = IF a = 0 THEN 0 ELSE p1[i - 1] BY <3>3, <4>1
        <4>3. CASE a = 0
          <5>1. <<ox' + a, oy' + b>> \notin F
            <6>1. ~InWindow(<<ox' + a, oy' + b>>, ox, oy)
              BY <4>3, <3>2, <1>1 DEF InWindow
            <6> QED BY <6>1, <1>6
          <5>2. pix'[i] # 1 BY <4>2, <4>3
          <5> QED BY <4>1, <5>1, <5>2, Zenon
        <4>4. CASE a # 0
          <5>1. PICK c \in 0 .. w - 1 : c = a - 1 BY <4>4, <1>1
          <5>2. PICK k \in 0 .. w * h - 1 : k = b * w + c BY <5>1, <1>4, Zenon
          <5>3. k = i - 1
            <6>1. b * w \in Int BY <1>1
            <6> QED BY <5>1, <5>2, <4>1, <6>1, <1>1
          <5>4. p1[k] = 1 <=> <<ox + c, oy + b>> \in F BY <5>2, <1>7
          <5>5. ox' + a = ox + c /\ oy' = oy BY <5>1, <3>2, <1>1
          <5>6. pix'[i] = p1[k] BY <4>2, <4>4, <5>3
          <5>7. pix'[i] = 1 <=> <<ox' + a, oy' + b>> \in F BY <5>4, <5>5, <5>6
          <5> HIDE DEF F, p1
          <5> QED BY <4>1, <5>7, Zenon
        <4> QED BY <4>3, <4>4
      <3>5. 0 \in 0 .. w - 1 /\ ox' \in Int /\ oy' \in Int BY <1>1, <3>2
      <3> QED BY <1>1, <3>2, <3>3, <3>4, <3>5
    <2>3. CASE nx >= w
      <3>1. nx = w /\ ny = y BY <2>3, <1>1, <1>2
      <3>2. pix' = ColumnAfter(p1) /\ ox' = ox + 1 /\ oy' = oy /\ x' = w - 1 /\ y' = y
        BY <3>1, <1>1, <1>3 DEF Scrolled, Clamped, Moved
      <3>3. pix' \in [0 .. w * h - 1 -> {0, 1}]
            /\ \A i \in 0 .. w * h - 1 : pix'[i] = IF i % w = w - 1 THEN 0 ELSE p1[i + 1]
        <4>1. \A i \in 0 .. w * h - 1 : i % w # w - 1 => i + 1 \in 0 .. w * h - 1
          <5> TAKE i \in 0 .. w * h - 1
          <5> HAVE i % w # w - 1
          <5>1. (i % w) + 1 \in 0 .. w - 1 /\ i \div w \in 0 .. h - 1
            <6>1. i % w \in 0 .. w - 1 /\ i \div w \in 0 .. h - 1 BY <1>5, Zenon
            <6>2. PICK u \in 0 .. w - 1 : u = i % w BY <6>1, Zenon
            <6>3. u # w - 1 BY <6>2
            <6>4. w \in Int BY <1>1
            <6>5. u \in Int /\ 0 =< u /\ u =< w - 1 BY <6>2, <6>4
            <6>6. u + 1 \in Int /\ 0 =< u + 1 /\ u + 1 =< w - 1 BY <6>3, <6>4, <6>5
            <6>7. u + 1 \in 0 .. w - 1 BY <6>4, <6>6
            <6> QED BY <6>1, <6>2, <6>7, Zenon
          <5>2. PICK a \in 0 .. w - 1, b \in 0 .. h - 1 : a = (i % w) + 1 /\ b = i \div w
            BY <5>1, Zenon
          <5>3. b * w + a \in 0 .. w * h - 1 BY <1>4, <5>2, Zenon
          <5>4. i = b * w + (i % w) BY <1>5, <5>2
          <5>5. i + 1 = b * w + a
            <6>1. b * w \in Int /\ i % w \in Int BY <1>1, <5>2
            <6> QED BY <5>2, <5>4, <6>1
          <5> QED BY <5>3, <5>5
        <4>2. pix' = [i \in 0 .. w * h - 1 |-> IF i % w = w - 1 THEN 0 ELSE p1[i + 1]]
          BY <3>2 DEF ColumnAfter, All
        <4> QED BY <4>1, <4>2, <1>7
      <3>4. ASSUME NEW a \in 0 .. w - 1, NEW b \in 0 .. h - 1
            PROVE  pix'[b * w + a] = 1 <=> <<ox' + a, oy' + b>> \in F
        <4>1. pix'[b * w + a] = IF a = w - 1 THEN 0 ELSE p1[b * w + a + 1] BY <1>4, <3>3
        <4>2. CASE a = w - 1
          <5>1. <<ox' + a, oy' + b>> \notin F
            <6>1. ~InWindow(<<ox' + a, oy' + b>>, ox, oy)
              BY <4>2, <3>2, <1>1 DEF InWindow
            <6> QED BY <6>1, <1>6
          <5> QED BY <5>1, <4>1, <4>2
        <4>3. CASE a # w - 1
          <5>1. a + 1 \in 0 .. w - 1 /\ b * w + a + 1 = b * w + (a + 1) BY <4>3, <1>1
          <5>2. p1[b * w + (a + 1)] = 1 <=> <<ox + (a + 1), oy + b>> \in F
            BY <5>1, <1>7
          <5>3. ox' + a = ox + (a + 1) /\ oy' = oy BY <3>2, <1>1
          <5> QED BY <5>1, <5>2, <5>3, <4>1, <4>3
        <4> QED BY <4>2, <4>3
      <3>5. w - 1 \in 0 .. w - 1 /\ ox' \in Int /\ oy' \in Int BY <1>1, <3>2
      <3> QED BY <1>1, <3>2, <3>3, <3>4, <3>5
    <2>4. CASE ny < 0
      <3>1. ny = -1 /\ nx = x BY <2>4, <1>1, <1>2
      <3>2. pix' = RowBefore(p1) /\ ox' = ox /\ oy' = oy - 1 /\ x' = x /\ y' = 0
        BY <3>1, <1>1, <1>3 DEF Scrolled, Clamped, Moved
      <3>3. pix' \in [0 .. w * h - 1 -> {0, 1}]
            /\ \A i \in 0 .. w * h - 1 : pix'[i] = IF i < w THEN 0 ELSE p1[i - w]
        <4>1. \A i \in 0 .. w * h - 1 : ~(i < w) => i - w \in 0 .. w * h - 1
          <5>1. w * h \in Int BY <1>1
          <5> QED BY <5>1, <1>1
        <4>2. pix' = [i \in 0 .. w * h - 1 |-> IF i < w THEN 0 ELSE p1[i - w]]
          BY <3>2 DEF RowBefore, All
        <4> QED BY <4>1, <4>2, <1>7
      <3>4. ASSUME NEW a \in 0 .. w - 1, NEW b \in 0 .. h - 1
            PROVE  pix'[b * w + a] = 1 <=> <<ox' + a, oy' + b>> \in F
        <4>0. b * w + a < w <=> b = 0
          <5>1. b # 0 => b * w >= 1 * w BY <1>1
          <5>2. b = 0 => b * w = 0 BY <1>1
          <5>3. b * w \in Int BY <1>1
          <5> QED BY <1>1, <5>1, <5>2, <5>3
        <4>1. PICK i \in 0 .. w * h - 1 : i = b * w + a BY <1>4, Zenon
        <4>2. i < w <=> b = 0 BY <4>0, <4>1
        <4>3. pix'[i] = IF b = 0 THEN 0 ELSE p1[i - w] BY <3>3, <4>2
        <4>4. CASE b = 0
          <5>1. <<ox' + a, oy' + b>> \notin F
            <6>1. ~InWindow(<<ox' + a, oy' + b>>, ox, oy)
              BY <4>4, <3>2, <1>1 DEF InWindow
            <6> QED BY <6>1, <1>6
          <5>2. pix'[i] # 1 BY <4>3, <4>4
          <5> QED BY <4>1, <5>1, <5>2, Zenon
        <4>5. CASE b # 0
          <5>1. PICK c \in 0 .. h - 1 : c = b - 1 BY <4>5, <1>1
          <5>2. PICK k \in 0 .. w * h - 1 : k = c * w + a BY <5>1, <1>4, Zenon
          <5>3. k = i - w
            <6>1. (b - 1) * w = b * w - w /\ b * w \in Int BY <1>1
            <6> QED BY <5>1, <5>2, <4>1, <6>1, <1>1
          <5>4. p1[k] = 1 <=> <<ox + a, oy + c>> \in F BY <5>2, <1>7
          <5>5. oy' + b = oy + c /\ ox' = ox BY <5>1, <3>2, <1>1
          <5>6. pix'[i] = p1[k] BY <4>3, <4>5, <5>3
          <5>7. pix'[i] = 1 <=> <<ox' + a, oy' + b>> \in F BY <5>4, <5>5, <5>6
          <5> HIDE DEF F, p1
          <5> QED BY <4>1, <5>7, Zenon
        <4> QED BY <4>4, <4>5
      <3>5. 0 \in 0 .. h - 1 /\ ox' \in Int /\ oy' \in Int BY <1>1, <3>2
      <3> QED BY <1>1, <3>2, <3>3, <3>4, <3>5
    <2>5. CASE ny >= h
      <3>a. PICK u \in Int, v \in Int : u = tx /\ v = ty
        BY <1>2
      <3>1. ny = h /\ nx = x
        <4>1. <<u, v>> \in {<<0, 1>>, <<0, -1>>, <<1, 0>>, <<-1, 0>>} BY <1>2, <3>a
        <4>2. y + v >= h BY <2>5, <3>a
        <4>3. v = 1 /\ u = 0 /\ y = h - 1 BY <4>1, <4>2, <3>a, <1>1
        <4> QED BY <4>3, <3>a, <1>1
      <3>2. pix' = RowAfter(p1) /\ ox' = ox /\ oy' = oy + 1 /\ x' = x /\ y' = h - 1
        BY <3>1, <1>1, <1>3 DEF Scrolled, Clamped, Moved
      <3>0. w * (h - 1) = w * h - w /\ w * h \in Int BY <1>1
      <3>3. pix' \in [0 .. w * h - 1 -> {0, 1}]
            /\ \A i \in 0 .. w * h - 1 : pix'[i] = IF i >= w * (h - 1) THEN 0 ELSE p1[i + w]
        <4>1. \A i \in 0 .. w * h - 1 : ~(i >= w * (h - 1)) => i + w \in 0 .. w * h - 1
          BY <3>0, <1>1
        <4>2. pix' = [i \in 0 .. w * h - 1 |-> IF i >= w * (h - 1) THEN 0 ELSE p1[i + w]]
          BY <3>2 DEF RowAfter, All
        <4> QED BY <4>1, <4>2, <1>7
      <3>4. ASSUME NEW a \in 0 .. w - 1, NEW b \in 0 .. h - 1
            PROVE  pix'[b * w + a] = 1 <=> <<ox' + a, oy' + b>> \in F
        <4>0. b * w + a >= w * (h - 1) <=> b = h - 1
          <5>1. b # h - 1 => w * (b + 1) <= w * (h - 1) BY <1>1
          <5>2. w * (b + 1) = b * w + w /\ b * w \in Int /\ w * (h - 1) \in Int BY <1>1
          <5>3. b = h - 1 => b * w = w * (h - 1) BY <1>1
          <5> QED BY <1>1, <5>1, <5>2, <5>3
        <4>1. pix'[b * w + a] = IF b = h - 1 THEN 0 ELSE p1[b * w + a + w] BY <1>4, <3>3, <4>0
        <4>2. CASE b = h - 1
          <5>1. <<ox' + a, oy' + b>> \notin F
            <6>1. ~InWindow(<<ox' + a, oy' + b>>, ox, oy)
              BY <4>2, <3>2, <1>1 DEF InWindow
            <6> QED BY <6>1, <1>6
          <5> QED BY <5>1, <4>1, <4>2
        <4>3. CASE b # h - 1
          <5>1. b + 1 \in 0 .. h - 1 /\ b * w + a + w = (b + 1) * w + a
            <6>1. (b + 1) * w = b * w + w /\ b * w \in Int BY <1>1
            <6> QED BY <4>3, <1>1, <6>1
          <5>2. p1[(b + 1) * w + a] = 1 <=> <<ox + a, oy + (b + 1)>> \in F
            BY <5>1, <1>7
          <5>3. oy' + b = oy + (b + 1) /\ ox' = ox BY <3>2, <1>1
          <5> QED BY <5>1, <5>2, <5>3, <4>1, <4>3
        <4> QED BY <4>2, <4>3
      <3>5. h - 1 \in 0 .. h - 1 /\ ox' \in Int /\ oy' \in Int BY <1>1, <3>2
      <3> QED BY <1>1, <3>2, <3>3, <3>4, <3>5
    <2>6. nx \in Int /\ ny \in Int
      <3>1. tx \in Int /\ ty \in Int BY <1>2
      <3> QED BY <1>1, <3>1
    <2> HIDE DEF nx, ny, Rest
    <2>7. nx < 0 \/ nx >= w \/ ny < 0 \/ ny >= h \/ (nx \in 0 .. w - 1 /\ ny \in 0 .. h - 1)
      BY <1>1, <2>6
    <2> QED BY <2>1, <2>2, <2>3, <2>4, <2>5, <2>7, Zenon
  <1>9. \A a \in 0 .. w - 1, b \in 0 .. h - 1 :
           pix'[b * w + a] = 1 <=> <<ox' + a, oy' + b>> \in plane'
    <2> TAKE a \in 0 .. w - 1, b \in 0 .. h - 1
    <2>1. pix'[b * w + a] = 1 <=> <<ox' + a, oy' + b>> \in F BY <1>8
    <2>2. PICK u \in Int, v \in Int : u = ox' /\ v = oy' BY <1>8
    <2>3. InWindow(<<u + a, v + b>>, u, v) BY <1>1 DEF InWindow
    <2> QED BY <2>1, <2>2, <2>3, <1>3, Zenon
  <1>10. WindowIsPlane'
    <2>1. w \in Nat \ {0} /\ h \in Nat \ {0} /\ w' = w /\ h' = h BY <1>1, <1>3
    <2>2. \A i \in 0 .. w * h - 1 :
             pix'[i] = 1 <=> <<ox' + (i % w), oy' + (i \div w)>> \in plane'
      <3>1. (\A i \in 0 .. w * h - 1 :
                pix'[i] = 1 <=> <<ox' + (i % w), oy' + (i \div w)>> \in plane')
              <=> \A a \in 0 .. w - 1, b \in 0 .. h - 1 :
                     pix'[b * w + a] = 1 <=> <<ox' + a, oy' + b>> \in plane'
        BY <2>1, WindowByPlace
      <3> QED BY <1>9, <3>1, Zenon
    <2> QED BY <2>1, <2>2 DEF WindowIsPlane, All
  <1>11. (\A q \in plane : InWindow(q, ox, oy))'
    <2>1. \A q \in plane' : InWindow(q, ox', oy') BY <1>3, Zenon
    <2> QED BY <2>1, <1>3 DEF InWindow
  <1>12. AntTypes'
    BY <1>1, <1>2, <1>3, <1>8 DEF AntTypes, All
  <1> QED BY <1>10, <1>11, <1>12 DEF AntInv

\* Array and plane are blank at the start.
LEMMA InitWalk == ASSUME AntAssumption, AntInit PROVE AntInv
  <1>1. PICK z \in Windows :
           /\ w = z.w /\ h = z.h /\ x = z.w \div 2 /\ y = z.h \div 2
           /\ pix = [i \in 0 .. z.w * z.h - 1 |-> 0]
           /\ dx = 0 /\ dy = 1 /\ plane = {} /\ ox = 0 /\ oy = 0
    BY DEF AntInit
  <1>2. w \in Nat \ {0} /\ h \in Nat \ {0}
    <2>1. {z.w, z.h} \subseteq Nat \ {0} BY <1>1 DEF AntAssumption
    <2> QED BY <1>1, <2>1
  <1>3. x = w \div 2 /\ y = h \div 2 /\ pix = [i \in 0 .. w * h - 1 |-> 0]
    BY <1>1
  <1>4. x \in 0 .. w - 1 /\ y \in 0 .. h - 1 BY <1>2, <1>3
  <1>5. AntTypes BY <1>1, <1>2, <1>3, <1>4 DEF AntTypes, All
  <1>6. WindowIsPlane BY <1>1, <1>3 DEF WindowIsPlane, All
  <1> QED BY <1>1, <1>5, <1>6 DEF AntInv

\* Every step of the ant keeps its invariant.
LEMMA AntKeeps == ASSUME AntInv, [AntNext]_antVars PROVE AntInv'
  <1>1. CASE AntNext BY <1>1, WalkKeeps DEF AntNext
  <1>2. CASE UNCHANGED antVars
    BY <1>2 DEF antVars, AntInv, AntTypes, WindowIsPlane, All, InWindow
  <1> QED BY <1>1, <1>2

-----------------------------------------------------------------------------
(* The snake: the tiles are the ring, and the head is never drawn over.     *)

\* One place further in the ring, and one move longer ago, is the same point.
LEMMA RingSteps ==
  ASSUME NEW M \in Nat, M >= 3, NEW i \in 0 .. M - 1
  PROVE  /\ (i + 1) % M \in 0 .. M - 1 /\ (i + 1) % M # i
         /\ \A n \in 0 .. M - 1 : (i - n) % M \in 0 .. M - 1
         /\ \A n \in 0 .. M - 2 : /\ (((i + 1) % M) - (n + 1)) % M = (i - n) % M
                                  /\ (i - n) % M # (i + 1) % M
         /\ (i - 0) % M = i
  <1>1. (i + 1) % M = IF i = M - 1 THEN 0 ELSE i + 1
    <2>1. CASE i = M - 1
      <3>1. M % M = 0 OBVIOUS
      <3> QED BY <2>1, <3>1
    <2>2. CASE i # M - 1 BY <2>2
    <2> QED BY <2>1, <2>2
  <1>2. \A n \in 0 .. M - 1 : (i - n) % M = IF n <= i THEN i - n ELSE i - n + M
    <2> TAKE n \in 0 .. M - 1
    <2>1. CASE n <= i BY <2>1
    <2>2. CASE n > i
      <3>0. i - n + M \in Int
        <4>1. i \in Int /\ n \in Int /\ M \in Int OBVIOUS
        <4> QED BY <4>1
      <3>1. PICK z \in Int : z = i - n + M BY <3>0, Zenon
      <3>2. z \in 0 .. M - 1 BY <2>2, <3>1
      <3>3. (z - M) % M = z BY <3>2
      <3> QED BY <2>2, <3>1, <3>3
    <2> QED BY <2>1, <2>2
  <1>3. \A n \in 0 .. M - 2 : (((i + 1) % M) - (n + 1)) % M = (i - n) % M
    <2> TAKE n \in 0 .. M - 2
    <2>1. CASE i = M - 1
      <3>1. (0 - (n + 1)) % M = M - (n + 1)
        <4>1. PICK z \in Int : z = M - (n + 1) OBVIOUS
        <4>2. z \in 0 .. M - 1 BY <4>1
        <4>3. (z - M) % M = z BY <4>2
        <4> QED BY <4>1, <4>3
      <3> QED BY <2>1, <3>1, <1>1, <1>2
    <2>2. CASE i # M - 1 BY <2>2, <1>1
    <2> QED BY <2>1, <2>2
  <1>4. \A n \in 0 .. M - 2 : (i - n) % M # (i + 1) % M
    <2> TAKE n \in 0 .. M - 2
    <2>1. (i - n) % M = IF n <= i THEN i - n ELSE i - n + M BY <1>2
    <2>2. (IF n <= i THEN i - n ELSE i - n + M) # IF i = M - 1 THEN 0 ELSE i + 1 OBVIOUS
    <2> QED BY <2>1, <2>2, <1>1
  <1>5. \A n \in 0 .. M - 1 : (i - n) % M \in 0 .. M - 1
    <2> TAKE n \in 0 .. M - 1
    <2>1. (i - n) % M = IF n <= i THEN i - n ELSE i - n + M BY <1>2
    <2>2. (IF n <= i THEN i - n ELSE i - n + M) \in 0 .. M - 1 OBVIOUS
    <2> QED BY <2>1, <2>2
  <1>6. (i + 1) % M \in 0 .. M - 1 /\ (i + 1) % M # i BY <1>1
  <1>7. (i - 0) % M = i OBVIOUS
  <1> QED BY <1>3, <1>4, <1>5, <1>6, <1>7

\* The snake that main puts on the board, nothing of it drawn yet.
LEMMA InitTurns == ASSUME SnakeAssumption, SnakeInit PROVE SnakeInv
  <1>1. /\ Width \in Nat \ {0} /\ Height \in Nat \ {0, 1, 2} /\ MAX_LENGTH \in Nat
        /\ Longest \in 2 .. MAX_LENGTH - 1
    BY DEF SnakeAssumption
  <1>2. /\ Width \div 2 \in 0 .. Width - 1 /\ Height \div 2 \in 0 .. Height - 1
        /\ Height \div 2 + 1 \in 0 .. Height - 1
    BY <1>1
  <1>3. \A n \in Ring : body[n] \in Field
    <2> TAKE n \in Ring
    <2>0. \A a \in 0 .. Width - 1, b \in 0 .. Height - 1 : <<a, b>> \in Field BY DEF Field
    <2>1. 0 \in 0 .. Width - 1 /\ 0 \in 0 .. Height - 1 BY <1>1
    <2>2. CASE n = 0
      <3>1. body[n] = <<Width \div 2, Height \div 2>> BY <2>2 DEF SnakeInit
      <3> QED BY <3>1, <1>2, <2>0, Zenon
    <2>3. CASE n = 1
      <3>1. body[n] = <<Width \div 2, Height \div 2 + 1>> BY <2>3 DEF SnakeInit
      <3> QED BY <3>1, <1>2, <2>0, Zenon
    <2>4. CASE n # 0 /\ n # 1
      <3>1. body[n] = <<0, 0>> BY <2>4 DEF SnakeInit
      <3> QED BY <3>1, <2>0, <2>1, Zenon
    <2> QED BY <2>2, <2>3, <2>4
  <1>4. Field \subseteq Int \X Int BY DEF Field
  <1>5. body \in [Ring -> Int \X Int] BY <1>3, <1>4 DEF SnakeInit
  <1>6. tile \in [Board -> {Wall, Food, Red, Bare}] BY DEF SnakeInit
  <1>7. index \in Ring /\ length \in 2 .. Longest BY <1>1 DEF SnakeInit, Ring
  <1>8. SnakeTypes
    BY <1>3, <1>5, <1>6, <1>7 DEF SnakeTypes, SnakeInit, Dirs
  <1>9. /\ \A p \in Board \ Field : tile[p] = Wall
        /\ \A p \in Field : tile[p] # Red
    <2>1. Field \subseteq Board BY <1>1 DEF Field, Board
    <2> QED BY <2>1 DEF SnakeInit, Wall, Food, Bare, Red
  <1> QED BY <1>8, <1>9 DEF SnakeInv, DrawnWhereItIs, SnakeInit

\* Drawing paints the head and clears the tail, which is where the ring says.
LEMMA DrawKeeps ==
  ASSUME SnakeAssumption, SnakeInv, draw
  PROVE  SnakeInv'
  <1>1. /\ body \in [Ring -> Int \X Int] /\ index \in Ring /\ length \in 2 .. Longest
        /\ tile \in [Board -> {Wall, Food, Red, Bare}]
        /\ \A n \in Ring : body[n] \in Field
        /\ \A p \in Board \ Field : tile[p] = Wall
        /\ \A p \in Field : tile[p] = Red => \E n \in 1 .. length : p = Ago(n)
    BY DEF SnakeInv, SnakeTypes, DrawnWhereItIs, draw
  <1>2. /\ tile' = [tile EXCEPT ![Ago(0)] = Red, ![Left] = Bare]
        /\ turn' = "move" /\ UNCHANGED <<body, length, index, dead, dir, food>>
    BY DEF draw
  <1>3. MAX_LENGTH \in Nat /\ MAX_LENGTH >= 3 /\ index \in 0 .. MAX_LENGTH - 1 /\ length \in 0 .. MAX_LENGTH - 1
    BY <1>1 DEF SnakeAssumption, Ring
  <1>4. \A n \in 0 .. MAX_LENGTH - 1 : (index - n) % MAX_LENGTH \in Ring
    BY <1>3, RingSteps DEF Ring
  <1>5. \A n \in 0 .. length : Ago(n) \in Field BY <1>1, <1>3, <1>4 DEF Ago
  <1>6. Ago(0) \in Field /\ Left \in Field BY <1>3, <1>5 DEF Left
  <1>7. tile' \in [Board -> {Wall, Food, Red, Bare}] BY <1>1, <1>2
  <1>8. SnakeTypes'
    BY <1>1, <1>2, <1>7 DEF SnakeTypes, SnakeInv, Ring, Board, Field,
       Wall, Food, Red, Bare, Dirs
  <1>9. \A p \in Board \ Field : tile'[p] = Wall BY <1>1, <1>2, <1>6
  <1>10. \A n \in 0 .. length - 1 : Ago(n)' = Ago(n) BY <1>2 DEF Ago
  <1>11. ASSUME NEW p \in Field, tile'[p] = Red PROVE \E n \in 0 .. length - 1 : p = Ago(n)
    <2>1. Field \subseteq Board
      BY DEF Field, Board, SnakeAssumption
    <2>2. p # Left BY <1>1, <1>2, <1>6, <1>11, <2>1 DEF Red, Bare
    <2>3. CASE p = Ago(0) BY <2>3, <1>1
    <2>4. CASE p # Ago(0)
      <3>1. tile[p] = Red BY <2>1, <2>2, <2>4, <1>1, <1>2, <1>11
      <3>2. PICK n \in 1 .. length : p = Ago(n) BY <3>1, <1>1
      <3>3. n # length BY <2>2, <3>2 DEF Left
      <3> QED BY <3>2, <3>3, <1>1
    <2> QED BY <2>3, <2>4
  <1>12. DrawnWhereItIs'
    <2>1. \A p \in Field' : tile'[p] = Red' => p \in Body'
      BY <1>2, <1>10, <1>11 DEF Body, Field, Red
    <2> QED BY <2>1, <1>9 DEF DrawnWhereItIs, Board, Field, Wall
  <1> QED BY <1>2, <1>8, <1>12 DEF SnakeInv

\* A move writes the next place of the ring, which is not one of the body.
LEMMA MoveKeeps ==
  ASSUME SnakeAssumption, SnakeInv,
         NEW key, NEW f \in Field, move_snake(key, f)
  PROVE  SnakeInv'
  <1> DEFINE p == Ahead(Ago(0), dir')
  <1>1. /\ body \in [Ring -> Int \X Int] /\ index \in Ring /\ length \in 2 .. Longest
        /\ tile \in [Board -> {Wall, Food, Red, Bare}]
        /\ food \in Field /\ dir \in Dirs
        /\ \A n \in Ring : body[n] \in Field
        /\ \A q \in Board \ Field : tile[q] = Wall
        /\ \A q \in Field : tile[q] = Red => q \in Body
    BY DEF SnakeInv, SnakeTypes, DrawnWhereItIs, move_snake
  <1>2. /\ dir' = steered(key) /\ index' = (index + 1) % MAX_LENGTH
        /\ body' = [body EXCEPT ![index'] = p] /\ dead' = is_dead(p, index')
        /\ length' = Grown(p) /\ length' =< Longest
        /\ \/ food' = f /\ tile' = [tile EXCEPT ![f] = Food]
           \/ food' = food /\ tile' = tile
        /\ turn' = IF dead' THEN "over" ELSE "draw"
    BY DEF move_snake
  <1>3. MAX_LENGTH \in Nat /\ MAX_LENGTH >= 3 /\ index \in 0 .. MAX_LENGTH - 1
        /\ Longest \in Nat /\ Longest <= MAX_LENGTH - 1
    BY <1>1 DEF SnakeAssumption, Ring
  <1>4. /\ index' \in Ring
        /\ \A n \in 0 .. MAX_LENGTH - 1 : (index - n) % MAX_LENGTH \in Ring
        /\ \A n \in 0 .. MAX_LENGTH - 2 :
              /\ (index' - (n + 1)) % MAX_LENGTH = (index - n) % MAX_LENGTH
              /\ (index - n) % MAX_LENGTH # index'
    BY <1>2, <1>3, RingSteps DEF Ring
  <1>5. dir' \in Dirs BY <1>1, <1>2 DEF steered
  <1>6. p \in Int \X Int
    <2>1. Ago(0) \in Field BY <1>1, <1>3, <1>4 DEF Ago
    <2>2. PICK a \in Int, b \in Int : Ago(0) = <<a, b>> BY <2>1 DEF Field
    <2>3. CASE dir' = "LEFT" BY <2>2, <2>3 DEF Ahead
    <2>4. CASE dir' = "RIGHT" BY <2>2, <2>4 DEF Ahead
    <2>5. CASE dir' = "UP" BY <2>2, <2>5 DEF Ahead
    <2>6. CASE dir' = "DOWN" BY <2>2, <2>6 DEF Ahead
    <2> QED BY <1>5, <2>3, <2>4, <2>5, <2>6 DEF Dirs
  <1> HIDE DEF p
  <1>7. body' \in [Ring -> Int \X Int] BY <1>1, <1>2, <1>4, <1>6
  <1>8. length' \in 2 .. Longest /\ length' >= length BY <1>1, <1>2, <1>3 DEF Grown
  <1>9. tile' \in [Board -> {Wall, Food, Red, Bare}] /\ food' \in Field
    BY <1>1, <1>2
  <1>10. dead' \in BOOLEAN BY <1>2 DEF is_dead
  <1>11. ~dead' => \A n \in Ring : body'[n] \in Field
    <2>1. ~dead' => p \in Field BY <1>2 DEF is_dead
    <2> QED BY <2>1, <1>1, <1>2, <1>4
  <1>12. SnakeTypes'
    BY <1>2, <1>4, <1>5, <1>7, <1>8, <1>9, <1>10, <1>11 DEF SnakeTypes, Ring, Board,
       Field, Wall, Food, Red, Bare, Dirs
  <1>13. \A q \in Board \ Field : tile'[q] = Wall BY <1>1, <1>2
  <1>14. \A n \in 0 .. length - 1 : Ago(n) = Ago(n + 1)'
    <2> TAKE n \in 0 .. length - 1
    <2>1. n \in 0 .. MAX_LENGTH - 2 /\ n \in 0 .. MAX_LENGTH - 1 BY <1>1, <1>3
    <2>2. body'[(index - n) % MAX_LENGTH] = body[(index - n) % MAX_LENGTH] BY <2>1, <1>1, <1>2, <1>4
    <2> QED BY <2>1, <2>2, <1>4 DEF Ago
  <1>15. ASSUME NEW q \in Field, tile'[q] = Red PROVE \E n \in 1 .. length' : q = Ago(n)'
    <2>1. Field \subseteq Board
      BY DEF Field, Board, SnakeAssumption
    <2>2. tile[q] = Red BY <2>1, <1>1, <1>2, <1>15 DEF Red, Food
    <2>3. PICK n \in 0 .. length - 1 : q = Ago(n) BY <2>2, <1>1 DEF Body
    <2>4. q = Ago(n + 1)' /\ n + 1 \in 1 .. length' BY <2>3, <1>1, <1>8, <1>14
    <2> QED BY <2>4
  <1>16. DrawnWhereItIs'
    BY <1>2, <1>13 DEF DrawnWhereItIs, Board, Field, Wall
  <1> QED BY <1>12, <1>15, <1>16 DEF SnakeInv, Field, Red

\* Every step of the snake keeps its invariant.
LEMMA SnakeKeeps ==
  ASSUME SnakeAssumption, SnakeInv, [SnakeNext]_snakeVars PROVE SnakeInv'
  <1>1. CASE SnakeNext BY <1>1, DrawKeeps, MoveKeeps DEF SnakeNext
  <1>2. CASE UNCHANGED snakeVars
    BY <1>2 DEF snakeVars, SnakeInv, SnakeTypes, DrawnWhereItIs, Body, Ago,
       Ring, Board, Field, Wall, Food, Red, Bare, Dirs
  <1> QED BY <1>1, <1>2

\* A product grows with its factor.
LEMMA TimesMore ==
  ASSUME NEW d \in Nat, NEW u \in Int, NEW v \in Int, u <= v
  PROVE  d * u <= d * v
  <1>1. PICK e \in Nat : v = u + e
    <2>1. v - u \in Nat /\ v = u + (v - u) OBVIOUS
    <2> QED BY <2>1, Zenon
  <1>2. d * (u + e) = d * u + d * e OBVIOUS
  <1>3. d * e \in Nat /\ d * u \in Int OBVIOUS
  <1> QED BY <1>1, <1>2, <1>3

\* A number by its quotient and its remainder.
LEMMA Halved ==
  ASSUME NEW d \in Nat \ {0}, NEW m \in Int
  PROVE  \E a \in Int, b \in 0 .. d - 1 : a = m \div d /\ b = m % d /\ m = d * a + b
  OBVIOUS

-----------------------------------------------------------------------------
(* The digest: the blocks that are transformed are those of the message,    *)
(* cut at any places into calls, and padded once at its end.                *)

\* A piece of a sequence, place by place.
LEMMA Pieces ==
  ASSUME NEW X, NEW s \in Seq(X), NEW a \in Nat, NEW c \in Nat, a + c <= Len(s)
  PROVE  /\ SubSeq(s, a + 1, a + c) \in Seq(X) /\ Len(SubSeq(s, a + 1, a + c)) = c
         /\ \A k \in 1 .. c : SubSeq(s, a + 1, a + c)[k] = s[a + k]
  <1>0. Len(s) \in Nat /\ \A k \in 1 .. Len(s) : s[k] \in X BY Members, Zenon
  <1>1. \A i \in a + 1 .. a + c : s[i] \in X
    <2> TAKE i \in a + 1 .. a + c
    <2>1. i \in 1 .. Len(s) BY <1>0
    <2> QED BY <1>0, <2>1, Zenon
  <1>2. a + 1 \in Int /\ a + c \in Int OBVIOUS
  <1>3. /\ SubSeq(s, a + 1, a + c) \in Seq(X)
        /\ Len(SubSeq(s, a + 1, a + c)) = IF a + 1 <= a + c THEN a + c - (a + 1) + 1 ELSE 0
        /\ \A i \in 1 .. a + c - (a + 1) + 1 : SubSeq(s, a + 1, a + c)[i] = s[a + 1 + i - 1]
    BY <1>1, <1>2, SubSeqProperties
  <1>4. (IF a + 1 <= a + c THEN a + c - (a + 1) + 1 ELSE 0) = c /\ a + c - (a + 1) + 1 = c
    OBVIOUS
  <1>5. ASSUME NEW k \in 1 .. c PROVE SubSeq(s, a + 1, a + c)[k] = s[a + k]
    <2>1. k \in 1 .. a + c - (a + 1) + 1 /\ a + 1 + k - 1 = a + k BY <1>4
    <2>2. SubSeq(s, a + 1, a + c)[k] = s[a + 1 + k - 1] BY <2>1, <1>3
    <2> QED BY <2>1, <2>2, Zenon
  <1>6. SubSeq(s, a + 1, a + c) \in Seq(X) /\ Len(SubSeq(s, a + 1, a + c)) = c BY <1>3, <1>4, Zenon
  <1> QED BY <1>5, <1>6, Zenon

\* The first of them.
LEMMA FirstPiece ==
  ASSUME NEW X, NEW s \in Seq(X), NEW c \in Nat, c <= Len(s)
  PROVE  /\ SubSeq(s, 1, c) \in Seq(X) /\ Len(SubSeq(s, 1, c)) = c
         /\ \A k \in 1 .. c : SubSeq(s, 1, c)[k] = s[k]
  <1>1. 0 + 1 = 1 /\ 0 + c = c /\ 0 \in Nat /\ \A k \in 1 .. c : 0 + k = k OBVIOUS
  <1>2. /\ SubSeq(s, 0 + 1, 0 + c) \in Seq(X) /\ Len(SubSeq(s, 0 + 1, 0 + c)) = c
        /\ \A k \in 1 .. c : SubSeq(s, 0 + 1, 0 + c)[k] = s[0 + k]
    BY <1>1, Pieces
  <1> QED BY <1>1, <1>2

\* A function of the first numbers is a sequence.
LEMMA Listed ==
  ASSUME NEW X, NEW n \in Nat, NEW f \in [1 .. n -> X]
  PROVE  f \in Seq(X) /\ Len(f) = n
  OBVIOUS

\* Two sequences one after the other, place by place.
LEMMA Joined ==
  ASSUME NEW X, NEW s \in Seq(X), NEW e \in Seq(X)
  PROVE  /\ s \o e \in Seq(X) /\ Len(s \o e) = Len(s) + Len(e)
         /\ \A i \in 1 .. Len(s) + Len(e) : (s \o e)[i] = IF i <= Len(s) THEN s[i] ELSE e[i - Len(s)]
  OBVIOUS

\* The blocks of a sequence, place by place.
LEMMA Cut ==
  ASSUME BLOCK_SIZE \in Nat \ {0}, NEW X, NEW s \in Seq(X)
  PROVE  /\ Blocks(s) \in Seq([1 .. BLOCK_SIZE -> X])
         /\ Len(Blocks(s)) = Len(s) \div BLOCK_SIZE
         /\ \A b \in 1 .. Len(s) \div BLOCK_SIZE, k \in 1 .. BLOCK_SIZE :
               Blocks(s)[b][k] = s[(b - 1) * BLOCK_SIZE + k]
  <1>0. PICK q \in Nat, r \in 0 .. BLOCK_SIZE - 1 :
           q = Len(s) \div BLOCK_SIZE /\ Len(s) = BLOCK_SIZE * q + r
    <2>1. PICK m \in Nat : m = Len(s) OBVIOUS
    <2>2. PICK q \in Int, r \in 0 .. BLOCK_SIZE - 1 :
             q = m \div BLOCK_SIZE /\ m = BLOCK_SIZE * q + r
      OBVIOUS
    <2>3. q >= 0
      <3>1. q <= -1 => BLOCK_SIZE * q <= BLOCK_SIZE * (-1) BY <2>2
      <3>2. BLOCK_SIZE * (-1) = -BLOCK_SIZE OBVIOUS
      <3> QED BY <2>1, <2>2, <3>1, <3>2
    <2>4. q \in Nat BY <2>2, <2>3
    <2> QED BY <2>1, <2>2, <2>4, Zenon
  <1>1. Len(s) \div BLOCK_SIZE = q BY <1>0
  <1>2. ASSUME NEW b \in 1 .. q
        PROVE  SubSeq(s, (b - 1) * BLOCK_SIZE + 1, b * BLOCK_SIZE)
                 = [k \in 1 .. BLOCK_SIZE |-> s[(b - 1) * BLOCK_SIZE + k]]
    <2>1. PICK a \in Nat : a = (b - 1) * BLOCK_SIZE
      <3>1. (b - 1) * BLOCK_SIZE \in Nat OBVIOUS
      <3> QED BY <3>1, Zenon
    <2>2. b * BLOCK_SIZE = a + BLOCK_SIZE BY <2>1
    <2>3. a + BLOCK_SIZE <= Len(s)
      <3>1. BLOCK_SIZE * b <= BLOCK_SIZE * q OBVIOUS
      <3>2. BLOCK_SIZE * b = b * BLOCK_SIZE /\ BLOCK_SIZE * q \in Int OBVIOUS
      <3> QED BY <3>1, <3>2, <2>2, <1>0
    <2>4. SubSeq(s, a + 1, a + BLOCK_SIZE) = [k \in 1 .. BLOCK_SIZE |-> s[a + k]]
      <3> DEFINE u == SubSeq(s, a + 1, a + BLOCK_SIZE)
      <3>1. u \in Seq(X) /\ Len(u) = BLOCK_SIZE /\ \A k \in 1 .. BLOCK_SIZE : u[k] = s[a + k]
        BY <2>3, Pieces
      <3> HIDE DEF u
      <3>2. u = [k \in 1 .. BLOCK_SIZE |-> u[k]] BY <3>1
      <3>3. u = [k \in 1 .. BLOCK_SIZE |-> s[a + k]] BY <3>1, <3>2
      <3> QED BY <3>3 DEF u
    <2> QED BY <2>1, <2>2, <2>4
  <1>3. ASSUME NEW b \in 1 .. q, NEW k \in 1 .. BLOCK_SIZE
        PROVE  (b - 1) * BLOCK_SIZE + k \in 1 .. Len(s)
    <2>1. BLOCK_SIZE * b <= BLOCK_SIZE * q OBVIOUS
    <2>2. BLOCK_SIZE * b = (b - 1) * BLOCK_SIZE + BLOCK_SIZE /\ (b - 1) * BLOCK_SIZE \in Nat
          /\ BLOCK_SIZE * q \in Int
      OBVIOUS
    <2>3. PICK z \in Nat : z = (b - 1) * BLOCK_SIZE BY <2>2, Zenon
    <2>4. z + BLOCK_SIZE <= Len(s) BY <2>1, <2>2, <2>3, <1>0
    <2>5. z + k \in 1 .. Len(s) BY <2>4
    <2> QED BY <2>3, <2>5
  <1>4. Blocks(s) = [b \in 1 .. q |-> SubSeq(s, (b - 1) * BLOCK_SIZE + 1, b * BLOCK_SIZE)]
    BY <1>1 DEF Blocks
  <1> DEFINE e == Blocks(s)
  <1>5. \A b \in 1 .. q, k \in 1 .. BLOCK_SIZE : e[b][k] = s[(b - 1) * BLOCK_SIZE + k]
    BY <1>2, <1>4
  <1>6. \A b \in 1 .. q : e[b] \in [1 .. BLOCK_SIZE -> X]
    <2> TAKE b \in 1 .. q
    <2>1. e[b] = [k \in 1 .. BLOCK_SIZE |-> s[(b - 1) * BLOCK_SIZE + k]] BY <1>2, <1>4
    <2>2. \A k \in 1 .. BLOCK_SIZE : s[(b - 1) * BLOCK_SIZE + k] \in X
      <3> TAKE k \in 1 .. BLOCK_SIZE
      <3>1. PICK i \in 1 .. Len(s) : i = (b - 1) * BLOCK_SIZE + k BY <1>3, Zenon
      <3>2. s[i] \in X OBVIOUS
      <3> QED BY <3>1, <3>2, Zenon
    <2> HIDE DEF e
    <2> QED BY <2>1, <2>2
  <1>7. e = [b \in 1 .. q |-> e[b]] BY <1>4
  <1> DEFINE Y == [1 .. BLOCK_SIZE -> X]
  <1> HIDE DEF e, Y
  <1>8. e \in [1 .. q -> Y] BY <1>6, <1>7 DEF Y
  <1>9. e \in Seq(Y) /\ Len(e) = q BY <1>8, Listed
  <1> QED BY <1>1, <1>5, <1>9 DEF e, Y

\* Lists of blocks are the same when their bytes are.
LEMMA SameBlocks ==
  ASSUME NEW X, NEW s \in Seq([1 .. BLOCK_SIZE -> X]), NEW e \in Seq([1 .. BLOCK_SIZE -> X]),
         Len(s) = Len(e), \A b \in 1 .. Len(s), k \in 1 .. BLOCK_SIZE : s[b][k] = e[b][k]
  PROVE  s = e
  <1> DEFINE Y == [1 .. BLOCK_SIZE -> X]
  <1>1. s \in Seq(Y) /\ e \in Seq(Y) OBVIOUS
  <1>2. \A b \in 1 .. Len(s) : s[b] \in Y /\ e[b] \in Y
    <2> HIDE DEF Y
    <2> QED BY <1>1
  <1>3. ASSUME NEW b \in 1 .. Len(s) PROVE s[b] = e[b]
    <2>1. PICK f \in [1 .. BLOCK_SIZE -> X], g \in [1 .. BLOCK_SIZE -> X] : f = s[b] /\ g = e[b]
      BY <1>2, Zenon
    <2>2. \A k \in 1 .. BLOCK_SIZE : f[k] = g[k] BY <2>1
    <2>3. f = [k \in 1 .. BLOCK_SIZE |-> f[k]] /\ g = [k \in 1 .. BLOCK_SIZE |-> g[k]] OBVIOUS
    <2>4. [k \in 1 .. BLOCK_SIZE |-> f[k]] = [k \in 1 .. BLOCK_SIZE |-> g[k]] BY <2>2
    <2> QED BY <2>1, <2>3, <2>4, Zenon
  <1> HIDE DEF Y
  <1> QED BY <1>1, <1>3, SeqEqual

\* The first blocks of the message.
FirstBlocks(n) == [b \in 1 .. n |-> [k \in 1 .. BLOCK_SIZE |-> (b - 1) * BLOCK_SIZE + k]]

\* The blocks of the first bytes of a message are the first blocks.
LEMMA Counted ==
  ASSUME BLOCK_SIZE \in Nat \ {0}, NEW n \in Nat
  PROVE  /\ Blocks([k \in 1 .. BLOCK_SIZE * n |-> k]) = FirstBlocks(n)
         /\ FirstBlocks(n) \in Seq([1 .. BLOCK_SIZE -> Int]) /\ Len(FirstBlocks(n)) = n
         /\ \A b \in 1 .. n, k \in 1 .. BLOCK_SIZE : FirstBlocks(n)[b][k] = (b - 1) * BLOCK_SIZE + k
  <1>1. PICK m \in Nat : m = BLOCK_SIZE * n
    <2>1. BLOCK_SIZE * n \in Nat OBVIOUS
    <2> QED BY <2>1, Zenon
  <1> DEFINE msg == [k \in 1 .. m |-> k]
  <1>2. msg \in Seq(Int) /\ Len(msg) = m
    <2>1. msg \in [1 .. m -> Int] OBVIOUS
    <2> HIDE DEF msg
    <2> QED BY <2>1, Listed
  <1>3. \A b \in 1 .. n, k \in 1 .. BLOCK_SIZE :
           (b - 1) * BLOCK_SIZE + k \in 1 .. m
    <2> TAKE b \in 1 .. n, k \in 1 .. BLOCK_SIZE
    <2>1. BLOCK_SIZE * b <= BLOCK_SIZE * n OBVIOUS
    <2>2. BLOCK_SIZE * b = (b - 1) * BLOCK_SIZE + BLOCK_SIZE /\ (b - 1) * BLOCK_SIZE \in Nat OBVIOUS
    <2> QED BY <2>1, <2>2, <1>1
  <1>4. /\ Blocks(msg) \in Seq([1 .. BLOCK_SIZE -> Int]) /\ Len(Blocks(msg)) = n
        /\ \A b \in 1 .. n, k \in 1 .. BLOCK_SIZE :
              Blocks(msg)[b][k] = msg[(b - 1) * BLOCK_SIZE + k]
    <2>1. PICK l \in Int, z \in 0 .. BLOCK_SIZE - 1 : l = n /\ z = 0 OBVIOUS
    <2>2. (BLOCK_SIZE * l + z) \div BLOCK_SIZE = l BY Divides, Zenon
    <2>3. BLOCK_SIZE * l + z = Len(msg)
      <3>1. BLOCK_SIZE * n \in Int OBVIOUS
      <3> QED BY <1>1, <1>2, <2>1, <3>1
    <2>4. Len(msg) \div BLOCK_SIZE = n BY <2>1, <2>2, <2>3, Zenon
    <2> HIDE DEF msg
    <2> QED BY <1>2, <2>4, Cut
  <1>5. \A b \in 1 .. n, k \in 1 .. BLOCK_SIZE : msg[(b - 1) * BLOCK_SIZE + k] = (b - 1) * BLOCK_SIZE + k
    BY <1>3
  <1> DEFINE Y == [1 .. BLOCK_SIZE -> Int]
             u == FirstBlocks(n)
  <1>6. u \in [1 .. n -> Y] /\ \A b \in 1 .. n, k \in 1 .. BLOCK_SIZE : u[b][k] = (b - 1) * BLOCK_SIZE + k
    BY <1>3 DEF FirstBlocks
  <1> HIDE DEF Y, u
  <1>7. u \in Seq(Y) /\ Len(u) = n BY <1>6, Listed
  <1>8. Blocks(msg) = u
    <2> DEFINE v == Blocks(msg)
    <2>1. v \in Seq([1 .. BLOCK_SIZE -> Int]) /\ Len(v) = n BY <1>4
    <2> HIDE DEF v, msg
    <2>2. \A b \in 1 .. n, k \in 1 .. BLOCK_SIZE : v[b][k] = u[b][k]
      <3> TAKE b \in 1 .. n, k \in 1 .. BLOCK_SIZE
      <3>1. v[b][k] = msg[(b - 1) * BLOCK_SIZE + k] BY <1>4 DEF v
      <3>2. msg[(b - 1) * BLOCK_SIZE + k] = (b - 1) * BLOCK_SIZE + k BY <1>5
      <3>3. u[b][k] = (b - 1) * BLOCK_SIZE + k BY <1>6
      <3> QED BY <3>1, <3>2, <3>3, Zenon
    <2>3. v = u BY <2>1, <2>2, <1>7, SameBlocks DEF Y
    <2> QED BY <2>3 DEF v
  <1> QED BY <1>1, <1>6, <1>7, <1>8 DEF u, Y

\* More blocks of the message behind the first ones.
LEMMA JoinBlocks ==
  ASSUME BLOCK_SIZE \in Nat \ {0}, NEW n \in Nat, NEW m \in Nat
  PROVE  FirstBlocks(n) \o [b \in 1 .. m |-> [k \in 1 .. BLOCK_SIZE |->
                                               BLOCK_SIZE * n + (b - 1) * BLOCK_SIZE + k]]
           = FirstBlocks(n + m)
  <1> DEFINE X == [1 .. BLOCK_SIZE -> Int]
             e == [b \in 1 .. m |-> [k \in 1 .. BLOCK_SIZE |-> BLOCK_SIZE * n + (b - 1) * BLOCK_SIZE + k]]
             u == FirstBlocks(n)
             v == FirstBlocks(n + m)
  <1>1. u \in Seq(X) /\ Len(u) = n BY Counted
  <1>2. e \in Seq(X) /\ Len(e) = m
    <2>1. e \in [1 .. m -> X] OBVIOUS
    <2> HIDE DEF e, X
    <2> QED BY <2>1, Listed
  <1>3. v \in Seq(X) /\ Len(v) = n + m
    <2>1. n + m \in Nat OBVIOUS
    <2> QED BY <2>1, Counted
  <1>4. ASSUME NEW i \in 1 .. n + m
        PROVE  v[i] = IF i <= n THEN u[i] ELSE e[i - n]
    <2>1. CASE i <= n BY <2>1 DEF FirstBlocks
    <2>2. CASE i > n
      <3>1. i - n \in 1 .. m BY <2>2
      <3>2. e[i - n] = [k \in 1 .. BLOCK_SIZE |-> BLOCK_SIZE * n + (i - n - 1) * BLOCK_SIZE + k] BY <3>1
      <3>3. BLOCK_SIZE * n + (i - n - 1) * BLOCK_SIZE = (i - 1) * BLOCK_SIZE OBVIOUS
      <3>4. v[i] = [k \in 1 .. BLOCK_SIZE |-> (i - 1) * BLOCK_SIZE + k] BY DEF FirstBlocks
      <3> HIDE DEF X, e, u, v
      <3>5. e[i - n] = v[i] BY <3>2, <3>3, <3>4, Zenon
      <3>6. ~(i <= n) BY <2>2
      <3> QED BY <3>5, <3>6, Zenon
    <2> QED BY <2>1, <2>2
  <1> HIDE DEF X, e, u, v
  <1>5. /\ u \o e \in Seq(X) /\ Len(u \o e) = n + m
        /\ \A i \in 1 .. n + m : (u \o e)[i] = IF i <= n THEN u[i] ELSE e[i - n]
    BY <1>1, <1>2, Joined
  <1>6. u \o e = v BY <1>3, <1>4, <1>5, SeqEqual
  <1> QED BY <1>6 DEF u, v, e

\* What is copied, and what stays.
LEMMA Copied ==
  ASSUME NEW n \in Nat, NEW X, NEW block \in [1 .. n -> X], NEW bytes \in Seq(X), NEW p \in Nat
  PROVE  Copy(block, p, bytes) \in [1 .. n -> X]
  <1>1. DOMAIN block = 1 .. n OBVIOUS
  <1>2. \A k \in 1 .. n : k > p /\ k <= p + Len(bytes) => bytes[k - p] \in X
    <2> TAKE k \in 1 .. n
    <2> HAVE k > p /\ k <= p + Len(bytes)
    <2>1. k - p \in 1 .. Len(bytes) OBVIOUS
    <2> QED BY <2>1, ElementOfSeq
  <1>3. Copy(block, p, bytes)
          = [k \in 1 .. n |-> IF k > p /\ k <= p + Len(bytes) THEN bytes[k - p] ELSE block[k]]
    BY <1>1 DEF Copy
  <1> QED BY <1>2, <1>3

\* Before init there is no message.
LEMMA InitDigest == ASSUME ShaInit PROVE ShaInv
  BY DEF ShaInit, ShaInv, BlocksOfStandard

\* init forgets all that was fed before.
LEMMA StartKeeps ==
  ASSUME ShaAssumption, ShaInv, init
  PROVE  ShaInv'
  <1>1. /\ at' = "update" /\ m_len' = 0 /\ m_tot_len' = 0 /\ transformed' = <<>> /\ fed' = 0
        /\ m_block' = [k \in 1 .. 2 * BLOCK_SIZE |-> -1]
    BY DEF init, Bytes, Garbage
  <1>2. BLOCK_SIZE \in Nat \ {0} BY DEF ShaAssumption
  <1>3. ShaTypes' BY <1>1, <1>2 DEF ShaTypes
  <1>4. Len(transformed') = 0 /\ m_tot_len' = BLOCK_SIZE * Len(transformed')
    <2>1. Len(<<>>) = 0 OBVIOUS
    <2> QED BY <1>1, <1>2, <2>1
  <1>5. transformed' = Blocks([k \in 1 .. m_tot_len' |-> k])
    <2>1. 0 \in Nat /\ BLOCK_SIZE * 0 = 0 BY <1>2
    <2>2. /\ Blocks([k \in 1 .. BLOCK_SIZE * 0 |-> k]) = FirstBlocks(0)
          /\ FirstBlocks(0) \in Seq([1 .. BLOCK_SIZE -> Int]) /\ Len(FirstBlocks(0)) = 0
      BY <1>2, <2>1, Counted
    <2>3. FirstBlocks(0) = <<>> BY <2>2
    <2>4. [k \in 1 .. m_tot_len' |-> k] = [k \in 1 .. BLOCK_SIZE * 0 |-> k] BY <1>1, <2>1, Zenon
    <2> QED BY <1>1, <2>2, <2>3, <2>4, Zenon
  <1>6. \A k \in 1 .. m_len' : m_block'[k] = m_tot_len' + k BY <1>1
  <1> QED BY <1>1, <1>3, <1>4, <1>5, <1>6 DEF ShaInv, BlocksOfStandard, Blocks

\* The state while the message comes, with the number of its blocks.
LEMMA FedNext ==
  ASSUME ShaAssumption, ShaInv, at = "update"
  PROVE  /\ BLOCK_SIZE \in Nat \ {0} /\ BLOCK_SIZE > 9
         /\ m_block \in [1 .. 2 * BLOCK_SIZE -> Int] /\ m_len \in 0 .. BLOCK_SIZE - 1 /\ fed \in Nat
         /\ \E q \in Nat : m_tot_len = BLOCK_SIZE * q /\ transformed = FirstBlocks(q)
         /\ m_tot_len \in Nat /\ fed = m_tot_len + m_len /\ \A k \in 1 .. m_len : m_block[k] = m_tot_len + k
  <1>1. BLOCK_SIZE \in Nat \ {0} /\ BLOCK_SIZE > 9 BY DEF ShaAssumption
  <1>2. /\ m_block \in [1 .. 2 * BLOCK_SIZE -> Int] /\ m_len \in 0 .. BLOCK_SIZE - 1 /\ fed \in Nat
        /\ fed = m_tot_len + m_len /\ \A k \in 1 .. m_len : m_block[k] = m_tot_len + k
        /\ m_tot_len = BLOCK_SIZE * Len(transformed) /\ transformed = Blocks([k \in 1 .. m_tot_len |-> k])
    BY DEF ShaInv, ShaTypes
  <1>3. PICK q \in Nat : q = Len(transformed) BY DEF ShaInv, ShaTypes
  <1>4. m_tot_len = BLOCK_SIZE * q /\ BLOCK_SIZE * q \in Nat BY <1>1, <1>2, <1>3
  <1>5. transformed = FirstBlocks(q)
    <2>1. Blocks([k \in 1 .. BLOCK_SIZE * q |-> k]) = FirstBlocks(q) BY <1>1, Counted
    <2>2. [k \in 1 .. m_tot_len |-> k] = [k \in 1 .. BLOCK_SIZE * q |-> k] BY <1>4, Zenon
    <2> QED BY <1>2, <2>1, <2>2, Zenon
  <1> QED BY <1>1, <1>2, <1>4, <1>5

\* And back: such a state is one of the invariant.
LEMMA FedAgain ==
  ASSUME BLOCK_SIZE \in Nat \ {0}, NEW q \in Nat, m_tot_len' = BLOCK_SIZE * q, transformed' = FirstBlocks(q),
         at' = "update", m_block' \in [1 .. 2 * BLOCK_SIZE -> Int], m_len' \in 0 .. BLOCK_SIZE - 1,
         fed' \in Nat, fed' = m_tot_len' + m_len', \A k \in 1 .. m_len' : m_block'[k] = m_tot_len' + k
  PROVE  ShaInv'
  <1>1. /\ Blocks([k \in 1 .. BLOCK_SIZE * q |-> k]) = FirstBlocks(q)
        /\ Len(FirstBlocks(q)) = q
    BY Counted
  <1>2. [k \in 1 .. m_tot_len' |-> k] = [k \in 1 .. BLOCK_SIZE * q |-> k] BY Zenon
  <1>3. transformed' = Blocks([k \in 1 .. m_tot_len' |-> k]) BY <1>1, <1>2, Zenon
  <1>4. Len(transformed') = q /\ Len(transformed') \in Nat /\ m_tot_len' = BLOCK_SIZE * Len(transformed') BY <1>1
  <1> QED BY <1>3, <1>4
          DEF ShaInv, ShaTypes, BlocksOfStandard, Blocks

\* What the next call is fed, byte by byte.
LEMMA MessageOf ==
  ASSUME NEW len \in Nat, NEW f \in Nat
  PROVE  /\ [k \in 1 .. len |-> f + k] \in Seq(Int) /\ Len([k \in 1 .. len |-> f + k]) = len
         /\ \A k \in 1 .. len : [l \in 1 .. len |-> f + l][k] = f + k
  <1>1. [k \in 1 .. len |-> f + k] \in [1 .. len -> Int] OBVIOUS
  <1> QED BY <1>1, Listed

\* An update that does not fill the block keeps its bytes.
LEMMA KeepsKeeps ==
  ASSUME ShaAssumption, ShaInv, at = "update", NEW len \in Nat,
         Keeps([k \in 1 .. len |-> fed + k]), fed' = fed + len, at' = at
  PROVE  ShaInv'
  <1>1. /\ BLOCK_SIZE \in Nat \ {0} /\ BLOCK_SIZE > 9
        /\ m_block \in [1 .. 2 * BLOCK_SIZE -> Int] /\ m_len \in 0 .. BLOCK_SIZE - 1 /\ fed \in Nat
        /\ m_tot_len \in Nat /\ fed = m_tot_len + m_len /\ \A k \in 1 .. m_len : m_block[k] = m_tot_len + k
    BY FedNext
  <1>2. PICK q \in Nat : m_tot_len = BLOCK_SIZE * q /\ transformed = FirstBlocks(q) BY FedNext
  <1> DEFINE msg == [k \in 1 .. len |-> fed + k]
  <1>3. msg \in Seq(Int) /\ Len(msg) = len /\ \A k \in 1 .. len : msg[k] = fed + k
    BY <1>1, MessageOf
  <1>4. m_len + len < BLOCK_SIZE /\ m_block' = Copy(m_block, m_len, msg) /\ m_len' = m_len + len
        /\ transformed' = transformed /\ m_tot_len' = m_tot_len
    BY <1>3 DEF Keeps
  <1> HIDE DEF msg
  <1>5. /\ m_block' \in [1 .. 2 * BLOCK_SIZE -> Int]
        /\ \A k \in 1 .. 2 * BLOCK_SIZE : m_block'[k] =
              IF k > m_len /\ k <= m_len + Len(msg) THEN msg[k - m_len] ELSE m_block[k]
    <2>1. 2 * BLOCK_SIZE \in Nat /\ m_len \in Nat BY <1>1
    <2>2. PICK n \in Nat : n = 2 * BLOCK_SIZE BY <2>1, Zenon
    <2>3. m_block \in [1 .. n -> Int] /\ msg \in Seq(Int) BY <1>1, <1>3, <2>2
    <2>4. Copy(m_block, m_len, msg) \in [1 .. n -> Int] BY <2>1, <2>3, Copied
    <2>5. \A k \in 1 .. n : Copy(m_block, m_len, msg)[k] =
             IF k > m_len /\ k <= m_len + Len(msg) THEN msg[k - m_len] ELSE m_block[k]
      BY <2>1, <2>3 DEF Copy
    <2> QED BY <1>4, <2>2, <2>4, <2>5
  <1>6. ASSUME NEW k \in 1 .. m_len' PROVE m_block'[k] = m_tot_len' + k
    <2>1. k \in 1 .. 2 * BLOCK_SIZE /\ k <= m_len + len BY <1>1, <1>4
    <2>2. CASE k > m_len
      <3>1. k - m_len \in 1 .. len BY <2>1, <2>2, <1>1
      <3>2. m_block'[k] = msg[k - m_len] BY <2>1, <2>2, <1>3, <1>5
      <3>3. msg[k - m_len] = fed + (k - m_len) BY <3>1, <1>3
      <3>4. fed + (k - m_len) = m_tot_len + k BY <1>1
      <3> QED BY <3>2, <3>3, <3>4, <1>4
    <2>3. CASE k <= m_len
      <3>1. m_block'[k] = m_block[k] BY <2>1, <2>3, <1>1, <1>5
      <3>2. k \in 1 .. m_len BY <2>3, <1>1
      <3> QED BY <3>1, <3>2, <1>1, <1>4
    <2> QED BY <2>2, <2>3, <1>1
  <1>7. m_len' \in 0 .. BLOCK_SIZE - 1 /\ fed' \in Nat /\ fed' = m_tot_len' + m_len' BY <1>1, <1>4
  <1>8. m_tot_len' = BLOCK_SIZE * q /\ transformed' = FirstBlocks(q) /\ at' = "update" BY <1>2, <1>4
  <1> QED BY <1>1, <1>5, <1>6, <1>7, <1>8, FedAgain

\* An update that fills the block passes it on, with the whole blocks behind it.
LEMMA PassesKeeps ==
  ASSUME ShaAssumption, ShaInv, at = "update", NEW len \in Nat,
         Passes([k \in 1 .. len |-> fed + k]), fed' = fed + len, at' = at
  PROVE  ShaInv'
  <1>1. /\ BLOCK_SIZE \in Nat \ {0} /\ BLOCK_SIZE > 9
        /\ m_block \in [1 .. 2 * BLOCK_SIZE -> Int] /\ m_len \in 0 .. BLOCK_SIZE - 1 /\ fed \in Nat
        /\ m_tot_len \in Nat /\ fed = m_tot_len + m_len /\ \A k \in 1 .. m_len : m_block[k] = m_tot_len + k
    BY FedNext
  <1>2. PICK q \in Nat : m_tot_len = BLOCK_SIZE * q /\ transformed = FirstBlocks(q) BY FedNext
  <1> DEFINE msg     == [k \in 1 .. len |-> fed + k]
             rem     == BLOCK_SIZE - m_len
             shifted == SubSeq(msg, rem + 1, Len(msg))
             head    == SubSeq(msg, 1, rem)
             full    == SubSeq(m_block, 1, m_len) \o head
  <1>3. msg \in Seq(Int) /\ Len(msg) = len /\ \A k \in 1 .. len : msg[k] = fed + k
    BY <1>1, MessageOf
  <1>4. /\ m_len + len >= BLOCK_SIZE
        /\ transformed' = transformed \o <<full>> \o Blocks(shifted)
        /\ m_len' = Len(shifted) % BLOCK_SIZE
        /\ m_block' = Copy(Copy(m_block, m_len, head), 0,
                             SubSeq(shifted, Len(shifted) - m_len' + 1, Len(shifted)))
        /\ m_tot_len' = m_tot_len + BLOCK_SIZE * (Len(shifted) \div BLOCK_SIZE + 1)
    BY <1>3 DEF Passes
  <1> HIDE DEF msg
  <1>5. rem \in Nat /\ rem >= 1 /\ rem <= len /\ m_len + rem = BLOCK_SIZE BY <1>1, <1>4
  <1>6. head \in Seq(Int) /\ Len(head) = rem /\ \A k \in 1 .. rem : head[k] = fed + k
    <2> HIDE DEF rem
    <2>1. 0 + 1 = 1 /\ 0 + rem = rem /\ 0 \in Nat /\ \A k \in 1 .. rem : 0 + k = k BY <1>5
    <2>2. /\ SubSeq(msg, 0 + 1, 0 + rem) \in Seq(Int) /\ Len(SubSeq(msg, 0 + 1, 0 + rem)) = rem
          /\ \A k \in 1 .. rem : SubSeq(msg, 0 + 1, 0 + rem)[k] = msg[0 + k]
      BY <1>3, <1>5, <2>1, Pieces
    <2>3. \A k \in 1 .. rem : k \in 1 .. len BY <1>5
    <2> QED BY <2>1, <2>2, <2>3, <1>3
  <1>7. /\ shifted \in Seq(Int) /\ Len(shifted) = len - rem
        /\ \A k \in 1 .. len - rem : shifted[k] = fed + (rem + k)
    <2> HIDE DEF rem
    <2>1. PICK c \in Nat : c = len - rem /\ rem + c = len BY <1>5
    <2>2. /\ SubSeq(msg, rem + 1, rem + c) \in Seq(Int) /\ Len(SubSeq(msg, rem + 1, rem + c)) = c
          /\ \A k \in 1 .. c : SubSeq(msg, rem + 1, rem + c)[k] = msg[rem + k]
      BY <1>3, <1>5, <2>1, Pieces
    <2>3. \A k \in 1 .. c : rem + k \in 1 .. len BY <1>5, <2>1
    <2> QED BY <2>1, <2>2, <2>3, <1>3
  <1>8. PICK q2 \in Nat, r2 \in 0 .. BLOCK_SIZE - 1 :
           /\ q2 = Len(shifted) \div BLOCK_SIZE /\ r2 = Len(shifted) % BLOCK_SIZE
           /\ Len(shifted) = BLOCK_SIZE * q2 + r2
    <2>1. PICK m \in Nat : m = Len(shifted) BY <1>5, <1>7
    <2>2. PICK a \in Int, b \in 0 .. BLOCK_SIZE - 1 :
             a = m \div BLOCK_SIZE /\ b = m % BLOCK_SIZE /\ m = BLOCK_SIZE * a + b
      <3>1. BLOCK_SIZE \in Nat \ {0} /\ m \in Int BY <1>1
      <3> QED BY <3>1, Halved, Zenon
    <2>3. a >= 0
      <3>1. a <= -1 => BLOCK_SIZE * a <= BLOCK_SIZE * (-1)
        <4>1. BLOCK_SIZE \in Nat /\ a \in Int /\ -1 \in Int BY <2>2, <1>1
        <4> QED BY <4>1, TimesMore
      <3>2. BLOCK_SIZE * (-1) = -BLOCK_SIZE BY <1>1
      <3>3. m \in Nat /\ BLOCK_SIZE \in Int /\ BLOCK_SIZE > 0 BY <2>1, <1>1
      <3> QED BY <2>2, <3>1, <3>2, <3>3
    <2>4. a \in Nat BY <2>2, <2>3
    <2> HIDE DEF shifted
    <2> QED BY <2>1, <2>2, <2>4, Zenon
  <1> HIDE DEF shifted, head
  <1>9. full = [k \in 1 .. BLOCK_SIZE |-> m_tot_len + k]
    <2>1. m_block \in Seq(Int) /\ Len(m_block) = 2 * BLOCK_SIZE
      <3>1. PICK n \in Nat : n = 2 * BLOCK_SIZE
        <4>1. 2 * BLOCK_SIZE \in Nat BY <1>1
        <4> QED BY <4>1, Zenon
      <3>2. m_block \in [1 .. n -> Int] BY <1>1, <3>1
      <3>3. m_block \in Seq(Int) /\ Len(m_block) = n BY <3>2, Listed
      <3> QED BY <3>1, <3>3
    <2> DEFINE old == SubSeq(m_block, 1, m_len)
    <2>2. old \in Seq(Int) /\ Len(old) = m_len /\ \A k \in 1 .. m_len : old[k] = m_block[k]
      <3>1. m_len \in Nat /\ m_len <= Len(m_block) BY <1>1, <2>1
      <3> QED BY <2>1, <3>1, FirstPiece, Zenon
    <2> HIDE DEF old, rem
    <2>3. /\ old \o head \in Seq(Int) /\ Len(old \o head) = m_len + rem
          /\ \A i \in 1 .. m_len + rem : (old \o head)[i] = IF i <= m_len THEN old[i] ELSE head[i - m_len]
      <3>1. old \in Seq(Int) /\ head \in Seq(Int) BY <1>6, <2>2
      <3>2. /\ old \o head \in Seq(Int) /\ Len(old \o head) = Len(old) + Len(head)
            /\ \A i \in 1 .. Len(old) + Len(head) :
                  (old \o head)[i] = IF i <= Len(old) THEN old[i] ELSE head[i - Len(old)]
        BY <3>1, Joined, Zenon
      <3>3. Len(old) = m_len /\ Len(head) = rem BY <1>6, <2>2
      <3> QED BY <3>2, <3>3, Zenon
    <2>4. full = old \o head BY DEF old
    <2> HIDE DEF full
    <2>5. ASSUME NEW k \in 1 .. BLOCK_SIZE PROVE full[k] = m_tot_len + k
      <3>1. full[k] = IF k <= m_len THEN old[k] ELSE head[k - m_len] BY <1>5, <2>3, <2>4
      <3>2. CASE k <= m_len
        <4>1. k \in 1 .. m_len BY <3>2, <1>1
        <4> QED BY <4>1, <3>1, <3>2, <2>2, <1>1
      <3>3. CASE k > m_len
        <4>1. k - m_len \in 1 .. rem BY <3>3, <1>1, <1>5
        <4>2. head[k - m_len] = fed + (k - m_len) BY <4>1, <1>6
        <4>3. fed + (k - m_len) = m_tot_len + k BY <1>1
        <4>4. full[k] = head[k - m_len] BY <3>1, <3>3, <1>1
        <4> QED BY <4>2, <4>3, <4>4
      <3> QED BY <3>2, <3>3, <1>1
    <2>6. full \in Seq(Int) /\ Len(full) = BLOCK_SIZE BY <1>5, <2>3, <2>4
    <2>7. full = [k \in 1 .. BLOCK_SIZE |-> full[k]] BY <2>6
    <2> QED BY <2>5, <2>7
  <1> HIDE DEF full
  <1>10. transformed' = FirstBlocks(q + 1 + q2)
    <2> DEFINE X == [1 .. BLOCK_SIZE -> Int]
               more == [b \in 1 .. q2 |-> [k \in 1 .. BLOCK_SIZE |->
                                             BLOCK_SIZE * (q + 1) + (b - 1) * BLOCK_SIZE + k]]
               one  == [b \in 1 .. 1 |-> [k \in 1 .. BLOCK_SIZE |->
                                            BLOCK_SIZE * q + (b - 1) * BLOCK_SIZE + k]]
    <2>1. FirstBlocks(q) \o one = FirstBlocks(q + 1) BY <1>1, JoinBlocks
    <2>2. FirstBlocks(q + 1) \o more = FirstBlocks(q + 1 + q2)
      <3>1. q + 1 \in Nat OBVIOUS
      <3> QED BY <3>1, <1>1, JoinBlocks
    <2>3. <<full>> = one
      <3>1. \A k \in 1 .. BLOCK_SIZE : BLOCK_SIZE * q + (1 - 1) * BLOCK_SIZE + k = m_tot_len + k
        BY <1>1, <1>2
      <3>2. one = [b \in 1 .. 1 |-> full] BY <3>1, <1>9
      <3>3. [b \in 1 .. 1 |-> full] = <<full>> OBVIOUS
      <3> QED BY <3>2, <3>3
    <2>4. Blocks(shifted) = more
      <3> DEFINE v == Blocks(shifted)
      <3>1. /\ v \in Seq([1 .. BLOCK_SIZE -> Int]) /\ Len(v) = q2
            /\ \A b \in 1 .. q2, k \in 1 .. BLOCK_SIZE : v[b][k] = shifted[(b - 1) * BLOCK_SIZE + k]
        <4>1. BLOCK_SIZE \in Nat \ {0} /\ shifted \in Seq(Int) BY <1>1, <1>7
        <4>2. /\ v \in Seq([1 .. BLOCK_SIZE -> Int]) /\ Len(v) = Len(shifted) \div BLOCK_SIZE
              /\ \A b \in 1 .. Len(shifted) \div BLOCK_SIZE, k \in 1 .. BLOCK_SIZE :
                    v[b][k] = shifted[(b - 1) * BLOCK_SIZE + k]
          BY <4>1, Cut, Zenon
        <4>3. q2 = Len(shifted) \div BLOCK_SIZE BY <1>8
        <4> HIDE DEF v
        <4> QED BY <4>2, <4>3, Zenon
      <3>2. more \in Seq([1 .. BLOCK_SIZE -> Int]) /\ Len(more) = q2
        <4>1. more \in [1 .. q2 -> X]
          <5>1. BLOCK_SIZE * (q + 1) \in Int /\ \A b \in 1 .. q2 : (b - 1) * BLOCK_SIZE \in Int
            BY <1>1
          <5> QED BY <5>1
        <4> HIDE DEF more, X
        <4>2. more \in Seq(X) /\ Len(more) = q2 BY <4>1, Listed
        <4> QED BY <4>2 DEF X
      <3>3. ASSUME NEW b \in 1 .. q2, NEW k \in 1 .. BLOCK_SIZE PROVE v[b][k] = more[b][k]
        <4>1. PICK a \in Nat : a = (b - 1) * BLOCK_SIZE
          <5>1. (b - 1) * BLOCK_SIZE \in Nat BY <1>1
          <5> QED BY <5>1, Zenon
        <4>2. a + k \in 1 .. len - rem
          <5>1. BLOCK_SIZE * b <= BLOCK_SIZE * q2 BY <1>1
          <5>2. BLOCK_SIZE * b = a + BLOCK_SIZE /\ BLOCK_SIZE * q2 \in Int BY <4>1, <1>1
          <5> QED BY <5>1, <5>2, <1>1, <1>5, <1>7, <1>8
        <4>3. v[b][k] = shifted[a + k] BY <3>1, <4>1
        <4>4. shifted[a + k] = fed + (rem + (a + k)) BY <4>2, <1>7
        <4>5. fed + rem = BLOCK_SIZE * (q + 1)
          <5>1. BLOCK_SIZE * (q + 1) = BLOCK_SIZE * q + BLOCK_SIZE /\ BLOCK_SIZE * q \in Int BY <1>1
          <5> QED BY <5>1, <1>1, <1>2, <1>5
        <4>6. more[b][k] = BLOCK_SIZE * (q + 1) + a + k BY <4>1
        <4>7. fed + (rem + (a + k)) = BLOCK_SIZE * (q + 1) + a + k BY <4>5, <1>1, <1>5
        <4> QED BY <4>3, <4>4, <4>6, <4>7
      <3> HIDE DEF v, more
      <3>4. v = more BY <3>1, <3>2, <3>3, SameBlocks
      <3> QED BY <3>4 DEF v
    <2> HIDE DEF one, more
    <2>5. transformed' = (transformed \o <<full>>) \o Blocks(shifted) BY <1>4
    <2> QED BY <2>1, <2>2, <2>3, <2>4, <2>5, <1>2, Zenon
  <1>11. m_tot_len' = BLOCK_SIZE * (q + 1 + q2) /\ fed' = m_tot_len' + m_len' /\ m_len' = r2 /\ m_tot_len' \in Nat
    <2>1. BLOCK_SIZE * (q + 1 + q2) = BLOCK_SIZE * q + BLOCK_SIZE * q2 + BLOCK_SIZE
          /\ BLOCK_SIZE * (q2 + 1) = BLOCK_SIZE * q2 + BLOCK_SIZE
          /\ BLOCK_SIZE * q \in Nat /\ BLOCK_SIZE * q2 \in Nat
      BY <1>1
    <2>2. m_tot_len' = m_tot_len + BLOCK_SIZE * (q2 + 1) /\ m_len' = r2 BY <1>4, <1>8
    <2>3. BLOCK_SIZE * q2 + r2 = len - rem BY <1>7, <1>8
    <2> QED BY <2>1, <2>2, <2>3, <1>1, <1>2, <1>5
  <1>12. /\ m_block' \in [1 .. 2 * BLOCK_SIZE -> Int]
         /\ \A k \in 1 .. m_len' : m_block'[k] = m_tot_len' + k
    <2> DEFINE lasts == SubSeq(shifted, Len(shifted) - m_len' + 1, Len(shifted))
               c1    == Copy(m_block, m_len, head)
    <2>1. lasts \in Seq(Int) /\ Len(lasts) = r2
          /\ \A k \in 1 .. r2 : lasts[k] = shifted[Len(shifted) - r2 + k]
      <3>1. BLOCK_SIZE * q2 \in Nat BY <1>1
      <3>2. PICK a \in Nat, c \in Nat : a = Len(shifted) - r2 /\ c = r2 /\ a + c = Len(shifted)
        BY <3>1, <1>1, <1>8
      <3>3. shifted \in Seq(Int) /\ a + c <= Len(shifted) BY <3>2, <1>7
      <3>4. /\ SubSeq(shifted, a + 1, a + c) \in Seq(Int) /\ Len(SubSeq(shifted, a + 1, a + c)) = c
            /\ \A k \in 1 .. c : SubSeq(shifted, a + 1, a + c)[k] = shifted[a + k]
        <4>1. a \in Nat /\ c \in Nat OBVIOUS
        <4> QED BY <3>3, <4>1, Pieces
      <3>5. lasts = SubSeq(shifted, a + 1, a + c) BY <3>2, <1>11
      <3> HIDE DEF lasts
      <3> QED BY <3>2, <3>4, <3>5
    <2> HIDE DEF lasts
    <2>2. PICK n \in Nat : n = 2 * BLOCK_SIZE
      <3>1. 2 * BLOCK_SIZE \in Nat BY <1>1
      <3> QED BY <3>1, Zenon
    <2>3. m_block \in [1 .. n -> Int] /\ m_len \in Nat /\ 0 \in Nat /\ head \in Seq(Int)
      BY <1>1, <1>6, <2>2
    <2>4. c1 \in [1 .. n -> Int] BY <2>3, Copied
    <2> HIDE DEF c1
    <2>5. m_block' = Copy(c1, 0, lasts) BY <1>4 DEF c1, lasts
    <2>6. m_block' \in [1 .. n -> Int]
      <3>1. Copy(c1, 0, lasts) \in [1 .. n -> Int] BY <2>1, <2>3, <2>4, Copied
      <3> QED BY <3>1, <2>5
    <2>7. ASSUME NEW k \in 1 .. m_len' PROVE m_block'[k] = m_tot_len' + k
      <3>1. k \in 1 .. n /\ k \in 1 .. r2 /\ k > 0 /\ k <= 0 + Len(lasts) /\ k - 0 = k
        BY <1>1, <1>11, <2>1, <2>2
      <3>2. m_block'[k] = lasts[k] BY <3>1, <2>4, <2>5 DEF Copy
      <3>3. PICK i \in Int : i = Len(shifted) - r2 + k
        <4>1. Len(shifted) - r2 + k \in Int BY <1>5, <1>7
        <4> QED BY <4>1, Zenon
      <3>4. i \in 1 .. len - rem
        <4>1. BLOCK_SIZE * q2 \in Nat BY <1>1
        <4>2. PICK u \in Nat, l \in Nat : u = BLOCK_SIZE * q2 /\ l = Len(shifted) /\ l = u + r2
          BY <4>1, <1>5, <1>7, <1>8
        <4>3. k >= 1 /\ k <= r2 /\ i = l - r2 + k BY <3>1, <3>3, <4>2
        <4>4. i >= 1 /\ i <= l BY <4>2, <4>3, <1>8, <1>1
        <4>5. l = len - rem BY <4>2, <1>7
        <4> QED BY <4>4, <4>5
      <3>5. shifted[i] = fed + (rem + i) BY <3>4, <1>7
      <3>6. fed + (rem + i) = m_tot_len' + k
        <4>1. fed' = fed + len OBVIOUS
        <4>2. i = len - rem - r2 + k BY <3>3, <1>7
        <4>3. m_tot_len' = fed + len - r2
          <5>1. fed \in Int /\ m_tot_len' \in Int /\ r2 \in Int BY <1>1, <1>8, <1>11
          <5> QED BY <4>1, <5>1, <1>11
        <4>4. rem \in Int /\ r2 \in Int /\ k \in Int /\ m_tot_len' \in Int /\ fed \in Int
          BY <1>1, <1>5, <1>8, <1>11, <3>1
        <4> HIDE DEF rem
        <4> QED BY <4>2, <4>3, <4>4
      <3> QED BY <2>1, <3>1, <3>2, <3>3, <3>5, <3>6
    <2> QED BY <2>2, <2>6, <2>7
  <1>13. m_len' \in 0 .. BLOCK_SIZE - 1 /\ fed' \in Nat /\ at' = "update" /\ q + 1 + q2 \in Nat
    <2>1. m_len' \in 0 .. BLOCK_SIZE - 1 /\ q + 1 + q2 \in Nat
      <3>1. m_len' = r2 BY <1>11
      <3>2. q + 1 + q2 \in Nat BY <1>8
      <3> QED BY <3>1, <3>2
    <2>2. fed' \in Nat BY <2>1, <1>1, <1>11
    <2> QED BY <2>1, <2>2
  <1> QED BY <1>1, <1>10, <1>11, <1>12, <1>13, FedAgain

\* final passes on what the block holds, padded, and with it the length.
LEMMA FinalKeeps ==
  ASSUME ShaAssumption, ShaInv, final
  PROVE  ShaInv'
  <1> DEFINE Byte == Int \cup (Int \X Int)
  <1>1. /\ BLOCK_SIZE \in Nat \ {0} /\ BLOCK_SIZE > 9
        /\ m_block \in [1 .. 2 * BLOCK_SIZE -> Int] /\ m_len \in 0 .. BLOCK_SIZE - 1 /\ fed \in Nat
        /\ m_tot_len \in Nat /\ fed = m_tot_len + m_len /\ \A k \in 1 .. m_len : m_block[k] = m_tot_len + k
    BY FedNext DEF final
  <1>2. PICK q \in Nat : m_tot_len = BLOCK_SIZE * q /\ transformed = FirstBlocks(q) BY FedNext DEF final
  <1>3. m_len % BLOCK_SIZE = m_len BY <1>1
  <1>4. PICK P \in {1, 2} : P = Padding /\ P = IF BLOCK_SIZE - 9 < m_len THEN 2 ELSE 1
    BY <1>3 DEF Padding
  <1>5. PICK n \in Nat, pm \in Nat, len_b \in Int :
           n = 2 * BLOCK_SIZE /\ pm = P * BLOCK_SIZE /\ len_b = 8 * fed
    <2>1. 2 * BLOCK_SIZE \in Nat /\ P * BLOCK_SIZE \in Nat /\ 8 * fed \in Int BY <1>1, <1>4
    <2> QED BY <2>1, Zenon
  <1>6. pm <= n /\ m_len + 9 <= pm /\ pm - m_len - 9 <= BLOCK_SIZE - 1 /\ pm >= BLOCK_SIZE
    <2>1. CASE P = 1 BY <2>1, <1>1, <1>4, <1>5
    <2>2. CASE P = 2 BY <2>2, <1>1, <1>4, <1>5
    <2> QED BY <2>1, <2>2
  <1>7. /\ m_block' = PaddedBlock(pm, len_b) /\ at' = "final" /\ fed' = fed
        /\ transformed' = transformed \o Blocks(SubSeq(m_block', 1, pm))
    BY <1>1, <1>4, <1>5 DEF final
  <1> DEFINE zeros  == Bytes(pm - m_len, 0)
             zeroed == Copy(m_block, m_len, zeros)
             marked == Copy(zeroed, m_len, <<-128>>)
             tail   == [k \in 1 .. 4 |-> LengthByte(len_b, k)]
  <1>8. m_block' = Copy(marked, pm - 4, tail)
    BY <1>7 DEF PaddedBlock, Zero, Mark
  <1>9. zeros \in Seq(Byte) /\ Len(zeros) = pm - m_len /\ \A k \in 1 .. pm - m_len : zeros[k] = 0
    <2>1. PICK c \in Nat : c = pm - m_len BY <1>1, <1>6
    <2>2. zeros = [k \in 1 .. c |-> 0] BY <2>1 DEF Bytes
    <2>3. zeros \in [1 .. c -> Byte] BY <2>2
    <2> HIDE DEF zeros, Byte
    <2>4. zeros \in Seq(Byte) /\ Len(zeros) = c BY <2>3, Listed
    <2> QED BY <2>1, <2>2, <2>4
  <1>10. tail \in Seq(Byte) /\ Len(tail) = 4 /\ \A k \in 1 .. 4 : tail[k] = <<len_b, k>>
    <2>1. tail = [k \in 1 .. 4 |-> <<len_b, k>>] BY DEF LengthByte
    <2>2. tail \in [1 .. 4 -> Byte] BY <2>1
    <2> HIDE DEF tail, Byte
    <2>3. tail \in Seq(Byte) /\ Len(tail) = 4
      <3>1. PICK c \in Nat : c = 4 OBVIOUS
      <3>2. tail \in [1 .. c -> Byte] BY <2>2, <3>1
      <3>3. tail \in Seq(Byte) /\ Len(tail) = c BY <3>2, Listed
      <3> QED BY <3>1, <3>3
    <2> QED BY <2>1, <2>3
  <1>11. <<-128>> \in Seq(Byte) /\ Len(<<-128>>) = 1 /\ <<-128>>[1] = -128 OBVIOUS
  <1>12. m_block \in [1 .. n -> Byte] /\ m_len \in Nat /\ pm - 4 \in Nat BY <1>1, <1>5, <1>6
  <1> HIDE DEF zeros, tail, Byte
  <1>0. PICK c \in Nat : c = BLOCK_SIZE * q
    <2>1. BLOCK_SIZE * q \in Nat BY <1>1
    <2> QED BY <2>1, Zenon
  <1>13. zeroed \in [1 .. n -> Byte] BY <1>9, <1>12, Copied
  <1> HIDE DEF zeroed
  <1>14. marked \in [1 .. n -> Byte] BY <1>11, <1>12, <1>13, Copied
  <1> HIDE DEF marked
  <1>15. m_block' \in [1 .. n -> Byte]
    <2>1. Copy(marked, pm - 4, tail) \in [1 .. n -> Byte] BY <1>10, <1>12, <1>14, Copied
    <2> QED BY <2>1, <1>8
  \* What is in the padded blocks.
  <1>16. ASSUME NEW j \in 1 .. pm
         PROVE  m_block'[j] = IF j <= m_len THEN m_tot_len + j ELSE IF j = m_len + 1 THEN -128
                              ELSE IF j <= pm - 4 THEN 0 ELSE <<len_b, j - (pm - 4)>>
    <2>1. j \in 1 .. n /\ j \in Int BY <1>6
    <2>2. zeroed[j] = IF j > m_len /\ j <= m_len + Len(zeros) THEN zeros[j - m_len] ELSE m_block[j]
      BY <2>1, <1>12 DEF zeroed, Copy
    <2>3. marked[j] = IF j > m_len /\ j <= m_len + 1 THEN <<-128>>[j - m_len] ELSE zeroed[j]
      BY <2>1, <1>11, <1>13 DEF marked, Copy
    <2>4. m_block'[j] = IF j > pm - 4 /\ j <= pm - 4 + 4 THEN tail[j - (pm - 4)] ELSE marked[j]
      BY <2>1, <1>8, <1>10, <1>14 DEF Copy
    <2>5. CASE j <= m_len
      <3>1. m_block'[j] = m_block[j] BY <2>2, <2>3, <2>4, <2>5, <1>6, <1>12
      <3> QED BY <3>1, <2>5, <1>1
    <2>6. CASE j = m_len + 1
      <3>1. m_block'[j] = <<-128>>[j - m_len] BY <2>3, <2>4, <2>6, <1>6, <1>12
      <3>2. j - m_len = 1 BY <2>6, <1>12
      <3> QED BY <3>1, <3>2, <1>11, <2>6, <1>12
    <2>7. CASE j > m_len + 1 /\ j <= pm - 4
      <3>1. j - m_len \in 1 .. pm - m_len BY <2>7, <1>12
      <3>2. m_block'[j] = zeros[j - m_len] BY <2>2, <2>3, <2>4, <2>7, <1>6, <1>9, <1>12
      <3> QED BY <3>1, <3>2, <1>9, <2>7, <1>12
    <2>8. CASE j > pm - 4
      <3>1. j - (pm - 4) \in 1 .. 4 BY <2>8
      <3>2. m_block'[j] = tail[j - (pm - 4)] BY <2>4, <2>8
      <3>3. PICK i \in 1 .. 4 : i = j - (pm - 4) BY <3>1, Zenon
      <3>4. tail[i] = <<len_b, i>> BY <1>10
      <3>5. m_block'[j] = <<len_b, j - (pm - 4)>> BY <3>2, <3>3, <3>4
      <3>6. ~(j <= m_len) /\ j # m_len + 1 /\ ~(j <= pm - 4) BY <1>6, <1>12, <2>8
      <3> QED BY <3>5, <3>6
    <2> QED BY <2>5, <2>6, <2>7, <2>8, <1>12
  <1> DEFINE last == SubSeq(m_block', 1, pm)
             std  == Padded(fed)
             len2 == BLOCK_SIZE * (q + P)
  <1>17. last \in Seq(Byte) /\ Len(last) = pm /\ \A j \in 1 .. pm : last[j] = m_block'[j]
    <2>1. m_block' \in Seq(Byte) /\ Len(m_block') = n BY <1>15, Listed
    <2>2. PICK z \in Nat : z = 0 /\ z + 1 = 1 /\ z + pm = pm /\ \A k \in 1 .. pm : z + k = k OBVIOUS
    <2>3. z + pm <= Len(m_block') BY <2>1, <2>2, <1>6
    <2>4. /\ SubSeq(m_block', z + 1, z + pm) \in Seq(Byte) /\ Len(SubSeq(m_block', z + 1, z + pm)) = pm
          /\ \A k \in 1 .. pm : SubSeq(m_block', z + 1, z + pm)[k] = m_block'[z + k]
      <3>1. PICK o \in Seq(Byte) : o = m_block' BY <2>1, Zenon
      <3>2. z + pm <= Len(o) BY <2>3, <3>1
      <3>3. /\ SubSeq(o, z + 1, z + pm) \in Seq(Byte) /\ Len(SubSeq(o, z + 1, z + pm)) = pm
            /\ \A k \in 1 .. pm : SubSeq(o, z + 1, z + pm)[k] = o[z + k]
        BY <3>2, Pieces
      <3> QED BY <3>1, <3>3, Zenon
    <2> QED BY <2>2, <2>4
  \* The standard's padding: as many zeros.
  <1>18. ZeroBytes(fed) = pm - m_len - 9
    <2> DEFINE z == pm - m_len - 9
    <2>1. z \in 0 .. BLOCK_SIZE - 1 BY <1>1, <1>6
    <2>2. ASSUME NEW u \in 0 .. BLOCK_SIZE - 1, (fed + 1 + u + 8) % BLOCK_SIZE = 0
          PROVE  u = z
      <3>1. PICK m \in Int : m = fed + 1 + u + 8 BY <1>1
      <3>2. PICK a \in Int, b \in 0 .. BLOCK_SIZE - 1 :
               a = m \div BLOCK_SIZE /\ b = m % BLOCK_SIZE /\ m = BLOCK_SIZE * a + b
        <4>1. BLOCK_SIZE \in Nat \ {0} BY <1>1
        <4> QED BY <4>1, Halved, Zenon
      <3>3. b = 0 BY <2>2, <3>1, <3>2
      <3>4. PICK d \in Int : d = a - q - P
        <4>1. a - q - P \in Int BY <1>4
        <4> QED BY <4>1, Zenon
      <3>5. BLOCK_SIZE * a = BLOCK_SIZE * d + c + pm
        <4>1. a = d + q + P BY <3>4, <1>4
        <4>2. BLOCK_SIZE * (d + q + P) = BLOCK_SIZE * d + BLOCK_SIZE * q + BLOCK_SIZE * P BY <1>1, <1>4
        <4>3. BLOCK_SIZE * P = pm BY <1>1, <1>4, <1>5
        <4> QED BY <4>1, <4>2, <4>3, <1>0
      <3>6. u - z = BLOCK_SIZE * d
        <4>1. BLOCK_SIZE * d \in Int BY <1>1
        <4> QED BY <4>1, <3>1, <3>2, <3>3, <3>5, <1>0, <1>1, <1>2
      <3>7. d = 0
        <4>1. d >= 1 => BLOCK_SIZE * d >= BLOCK_SIZE
          <5>1. BLOCK_SIZE \in Nat /\ 1 \in Int BY <1>1
          <5>2. d >= 1 => BLOCK_SIZE * 1 <= BLOCK_SIZE * d BY <5>1, TimesMore
          <5>3. BLOCK_SIZE * 1 = BLOCK_SIZE BY <5>1
          <5> QED BY <5>2, <5>3
        <4>2. d <= -1 => BLOCK_SIZE * d <= -BLOCK_SIZE
          <5>1. d <= -1 => BLOCK_SIZE * d <= BLOCK_SIZE * (-1)
            <6>1. BLOCK_SIZE \in Nat /\ -1 \in Int BY <1>1
            <6> QED BY <6>1, TimesMore
          <5>2. BLOCK_SIZE * (-1) = -BLOCK_SIZE BY <1>1
          <5> QED BY <5>1, <5>2
        <4>3. BLOCK_SIZE * d \in Int BY <1>1
        <4> HIDE DEF z
        <4> QED BY <4>1, <4>2, <4>3, <3>6, <2>1, <1>1
      <3>8. BLOCK_SIZE * d = 0 BY <3>7, <1>1
      <3> QED BY <3>6, <3>8, <2>1, <1>1
    <2>3. (fed + 1 + z + 8) % BLOCK_SIZE = 0
      <3>1. PICK a \in Int, b \in 0 .. BLOCK_SIZE - 1 : a = q + P /\ b = 0 BY <1>1, <1>4
      <3>2. (BLOCK_SIZE * a + b) % BLOCK_SIZE = b BY <1>1, Divides, Zenon
      <3>3. fed + 1 + z + 8 = BLOCK_SIZE * a + b
        <4>1. BLOCK_SIZE * (q + P) = BLOCK_SIZE * q + BLOCK_SIZE * P BY <1>1, <1>4
        <4>2. BLOCK_SIZE * P = pm BY <1>1, <1>4, <1>5
        <4> QED BY <4>1, <4>2, <3>1, <1>0, <1>1, <1>2
      <3> QED BY <3>1, <3>2, <3>3, Zenon
    <2> HIDE DEF z
    <2>4. ZeroBytes(fed) = CHOOSE u \in 0 .. BLOCK_SIZE - 1 : (fed + 1 + u + 8) % BLOCK_SIZE = 0
      BY DEF ZeroBytes
    <2>5. (CHOOSE u \in 0 .. BLOCK_SIZE - 1 : (fed + 1 + u + 8) % BLOCK_SIZE = 0) = z
      BY <2>1, <2>2, <2>3
    <2> QED BY <2>4, <2>5 DEF z
  <1>19. len2 = c + pm /\ len2 = fed + (pm - m_len) /\ len2 \in Nat
    <2>1. BLOCK_SIZE * (q + P) = BLOCK_SIZE * q + BLOCK_SIZE * P BY <1>1, <1>4
    <2>2. BLOCK_SIZE * P = pm BY <1>1, <1>4, <1>5
    <2>3. len2 = c + pm BY <2>1, <2>2, <1>0
    <2> QED BY <2>3, <1>0, <1>1, <1>2
  <1> HIDE DEF len2
  <1>20. /\ std \in Seq(Byte) /\ Len(std) = len2
         /\ \A i \in 1 .. len2 :
               std[i] = IF i <= fed THEN i ELSE IF i = fed + 1 THEN -128
                        ELSE IF i <= len2 - 4 THEN 0 ELSE <<len_b, i - (len2 - 4)>>
    <2> DEFINE message == [k \in 1 .. fed |-> k]
               filling == Bytes(ZeroBytes(fed) + 4, 0)
               one     == message \o <<-128>>
               two     == one \o filling
    <2>1. std = two \o tail BY <1>5 DEF Padded, Mark, Zero, tail
    <2>2. message \in Seq(Byte) /\ Len(message) = fed
      <3>1. message \in [1 .. fed -> Byte] BY <1>1 DEF Byte
      <3> HIDE DEF message
      <3> QED BY <3>1, <1>1, Listed
    <2>3. PICK l \in Nat : l = pm - m_len - 5 /\ l = ZeroBytes(fed) + 4 BY <1>1, <1>6, <1>18
    <2>4. filling \in Seq(Byte) /\ Len(filling) = l /\ \A k \in 1 .. l : filling[k] = 0
      <3>1. filling = [k \in 1 .. l |-> 0] BY <2>3 DEF Bytes
      <3>2. filling \in [1 .. l -> Byte] BY <3>1 DEF Byte
      <3> HIDE DEF filling
      <3>3. filling \in Seq(Byte) /\ Len(filling) = l BY <3>2, Listed
      <3> QED BY <3>1, <3>3
    <2>5. \A k \in 1 .. fed : message[k] = k OBVIOUS
    <2> HIDE DEF message, filling
    <2>6. /\ one \in Seq(Byte) /\ Len(one) = fed + 1
          /\ \A i \in 1 .. fed + 1 : one[i] = IF i <= fed THEN message[i] ELSE <<-128>>[i - fed]
      <3>1. /\ one \in Seq(Byte) /\ Len(one) = Len(message) + Len(<<-128>>)
            /\ \A i \in 1 .. Len(message) + Len(<<-128>>) :
                  one[i] = IF i <= Len(message) THEN message[i] ELSE <<-128>>[i - Len(message)]
        BY <2>2, <1>11, Joined
      <3> HIDE DEF one
      <3> QED BY <3>1, <2>2, <1>11
    <2> HIDE DEF one
    <2>7. /\ two \in Seq(Byte) /\ Len(two) = fed + 1 + l
          /\ \A i \in 1 .. fed + 1 + l : two[i] = IF i <= fed + 1 THEN one[i] ELSE filling[i - (fed + 1)]
      <3>1. /\ two \in Seq(Byte) /\ Len(two) = Len(one) + Len(filling)
            /\ \A i \in 1 .. Len(one) + Len(filling) :
                  two[i] = IF i <= Len(one) THEN one[i] ELSE filling[i - Len(one)]
        <4>1. one \in Seq(Byte) /\ filling \in Seq(Byte) BY <2>4, <2>6
        <4> QED BY <4>1, Joined, Zenon
      <3> HIDE DEF two
      <3> QED BY <3>1, <2>4, <2>6
    <2> HIDE DEF two
    <2>8. /\ std \in Seq(Byte) /\ Len(std) = fed + 1 + l + 4
          /\ \A i \in 1 .. fed + 1 + l + 4 :
                std[i] = IF i <= fed + 1 + l THEN two[i] ELSE tail[i - (fed + 1 + l)]
      <3>1. /\ two \o tail \in Seq(Byte) /\ Len(two \o tail) = Len(two) + Len(tail)
            /\ \A i \in 1 .. Len(two) + Len(tail) :
                  (two \o tail)[i] = IF i <= Len(two) THEN two[i] ELSE tail[i - Len(two)]
        BY <2>7, <1>10, Joined
      <3> HIDE DEF std
      <3> QED BY <3>1, <2>1, <2>7, <1>10
    <2> HIDE DEF std
    <2>9. fed + 1 + l + 4 = len2 BY <2>3, <1>1, <1>19
    <2>10. ASSUME NEW i \in 1 .. len2
           PROVE  std[i] = IF i <= fed THEN i ELSE IF i = fed + 1 THEN -128
                           ELSE IF i <= len2 - 4 THEN 0 ELSE <<len_b, i - (len2 - 4)>>
      <3>0. std[i] = IF i <= fed + 1 + l THEN two[i] ELSE tail[i - (fed + 1 + l)] BY <2>8, <2>9
      <3>1. CASE i <= fed
        <4>1. std[i] = two[i] BY <3>0, <3>1, <1>1, <2>3
        <4>2. two[i] = one[i] BY <3>1, <2>7, <1>1, <2>3
        <4>3. one[i] = message[i] BY <3>1, <2>6, <1>1
        <4> QED BY <4>1, <4>2, <4>3, <3>1, <2>5, <1>1
      <3>2. CASE i = fed + 1
        <4>1. std[i] = two[i] BY <3>0, <3>2, <1>1, <2>3
        <4>2. two[i] = one[i] BY <3>2, <2>7, <1>1, <2>3
        <4>3. one[i] = <<-128>>[i - fed] BY <3>2, <2>6, <1>1
        <4>4. i - fed = 1 /\ ~(i <= fed) BY <3>2, <1>1
        <4> QED BY <4>1, <4>2, <4>3, <4>4, <3>2, <1>11
      <3>3. CASE i > fed + 1 /\ i <= len2 - 4
        <4>1. std[i] = two[i] BY <3>0, <3>3, <2>9, <1>1, <2>3
        <4>2. two[i] = filling[i - (fed + 1)] BY <3>3, <2>7, <2>9, <1>1, <2>3
        <4>3. i - (fed + 1) \in 1 .. l BY <3>3, <2>9, <1>1, <2>3
        <4> QED BY <4>1, <4>2, <4>3, <3>3, <2>4, <1>1
      <3>4. CASE i > len2 - 4
        <4>1. PICK k \in 1 .. 4 : k = i - (len2 - 4) BY <3>4, <1>19
        <4>2. std[i] = tail[i - (fed + 1 + l)] BY <3>0, <3>4, <2>9, <1>1, <1>19, <2>3
        <4>3. i - (fed + 1 + l) = k BY <4>1, <2>9, <1>1, <2>3
        <4>4. tail[k] = <<len_b, k>> BY <1>10
        <4>5. ~(i <= fed) /\ i # fed + 1 /\ ~(i <= len2 - 4) BY <3>4, <2>9, <1>1, <1>19, <2>3
        <4> QED BY <4>1, <4>2, <4>3, <4>4, <4>5
      <3>5. i <= fed \/ i = fed + 1 \/ (i > fed + 1 /\ i <= len2 - 4) \/ i > len2 - 4 BY <1>1, <1>19
      <3> QED BY <3>1, <3>2, <3>3, <3>4, <3>5, Zenon
    <2> QED BY <2>8, <2>9, <2>10
  <1> HIDE DEF std, last
  <1>21. PICK M \in Nat : M = q + P /\ M = len2 \div BLOCK_SIZE
    <2>1. PICK a \in Int, b \in 0 .. BLOCK_SIZE - 1 : a = q + P /\ b = 0 BY <1>1, <1>4
    <2>2. (BLOCK_SIZE * a + b) \div BLOCK_SIZE = a BY <1>1, Divides, Zenon
    <2>3. BLOCK_SIZE * a + b = len2
      <3>1. BLOCK_SIZE * (q + P) \in Int BY <1>1, <1>4
      <3> QED BY <2>1, <3>1 DEF len2
    <2>4. q + P \in Nat BY <1>4
    <2>5. q + P = len2 \div BLOCK_SIZE BY <2>1, <2>2, <2>3, Zenon
    <2> QED BY <2>4, <2>5, Zenon
  <1> DEFINE Y == [1 .. BLOCK_SIZE -> Byte]
             stdBlocks == Blocks(std)
             lastBlocks == Blocks(last)
  <1>22. /\ stdBlocks \in Seq(Y) /\ Len(stdBlocks) = M
         /\ \A b \in 1 .. M, k \in 1 .. BLOCK_SIZE : stdBlocks[b][k] = std[(b - 1) * BLOCK_SIZE + k]
    <2>1. BLOCK_SIZE \in Nat \ {0} /\ std \in Seq(Byte) BY <1>1, <1>20
    <2>2. /\ stdBlocks \in Seq(Y) /\ Len(stdBlocks) = Len(std) \div BLOCK_SIZE
          /\ \A b \in 1 .. Len(std) \div BLOCK_SIZE, k \in 1 .. BLOCK_SIZE :
                stdBlocks[b][k] = std[(b - 1) * BLOCK_SIZE + k]
      BY <2>1, Cut, Zenon
    <2>3. M = Len(std) \div BLOCK_SIZE BY <1>20, <1>21
    <2> HIDE DEF stdBlocks, Y
    <2> QED BY <2>2, <2>3, Zenon
  <1>23. /\ lastBlocks \in Seq(Y) /\ Len(lastBlocks) = P
         /\ \A b \in 1 .. P, k \in 1 .. BLOCK_SIZE : lastBlocks[b][k] = last[(b - 1) * BLOCK_SIZE + k]
    <2>1. BLOCK_SIZE \in Nat \ {0} /\ last \in Seq(Byte) BY <1>1, <1>17
    <2>2. /\ lastBlocks \in Seq(Y) /\ Len(lastBlocks) = Len(last) \div BLOCK_SIZE
          /\ \A b \in 1 .. Len(last) \div BLOCK_SIZE, k \in 1 .. BLOCK_SIZE :
                lastBlocks[b][k] = last[(b - 1) * BLOCK_SIZE + k]
      BY <2>1, Cut, Zenon
    <2>3. P = Len(last) \div BLOCK_SIZE
      <3>1. PICK a \in Int, b \in 0 .. BLOCK_SIZE - 1 : a = P /\ b = 0 BY <1>1, <1>4
      <3>2. (BLOCK_SIZE * a + b) \div BLOCK_SIZE = a BY <1>1, Divides, Zenon
      <3>3. BLOCK_SIZE * a + b = pm
        <4>1. BLOCK_SIZE * P = P * BLOCK_SIZE /\ BLOCK_SIZE * P \in Int BY <1>1, <1>4
        <4> QED BY <3>1, <4>1, <1>5
      <3> QED BY <3>1, <3>2, <3>3, <1>17, Zenon
    <2> HIDE DEF lastBlocks, Y
    <2> QED BY <2>2, <2>3, Zenon
  <1>24. /\ transformed \in Seq(Y) /\ Len(transformed) = q
         /\ \A b \in 1 .. q, k \in 1 .. BLOCK_SIZE : transformed[b][k] = (b - 1) * BLOCK_SIZE + k
    <2>1. \A b \in 1 .. q, k \in 1 .. BLOCK_SIZE : (b - 1) * BLOCK_SIZE + k \in Int BY <1>1
    <2>2. transformed \in [1 .. q -> Y] /\ \A b \in 1 .. q, k \in 1 .. BLOCK_SIZE : transformed[b][k] = (b - 1) * BLOCK_SIZE + k
      BY <1>2, <2>1 DEF FirstBlocks, Byte
    <2> HIDE DEF Y
    <2> QED BY <2>2, Listed
  <1> HIDE DEF Y, stdBlocks, lastBlocks
  <1>25. /\ transformed' \in Seq(Y) /\ Len(transformed') = M
         /\ \A b \in 1 .. M : transformed'[b] = IF b <= q THEN transformed[b] ELSE lastBlocks[b - q]
    <2>1. transformed' = transformed \o lastBlocks BY <1>7 DEF lastBlocks, last
    <2>2. /\ transformed \o lastBlocks \in Seq(Y) /\ Len(transformed \o lastBlocks) = Len(transformed) + Len(lastBlocks)
          /\ \A b \in 1 .. Len(transformed) + Len(lastBlocks) :
                (transformed \o lastBlocks)[b] = IF b <= Len(transformed) THEN transformed[b] ELSE lastBlocks[b - Len(transformed)]
      <3>1. transformed \in Seq(Y) /\ lastBlocks \in Seq(Y) BY <1>23, <1>24
      <3> QED BY <3>1, Joined, Zenon
    <2> QED BY <2>1, <2>2, <1>21, <1>23, <1>24
  <1>26. ASSUME NEW b \in 1 .. M, NEW k \in 1 .. BLOCK_SIZE
         PROVE  transformed'[b][k] = stdBlocks[b][k]
    <2>1. stdBlocks[b][k] = std[(b - 1) * BLOCK_SIZE + k] BY <1>22
    <2>2. CASE b <= q
      <3>1. PICK a \in Nat : a = (b - 1) * BLOCK_SIZE
        <4>1. (b - 1) * BLOCK_SIZE \in Nat BY <1>1
        <4> QED BY <4>1, Zenon
      <3>2. BLOCK_SIZE * b <= BLOCK_SIZE * q BY <2>2, <1>1
      <3>3. BLOCK_SIZE * b = a + BLOCK_SIZE BY <3>1, <1>1
      <3>4. a + BLOCK_SIZE <= c BY <3>2, <3>3, <1>0
      <3>5. a + k \in 1 .. len2 /\ a + k <= fed BY <3>4, <1>0, <1>1, <1>2, <1>19
      <3>6. std[a + k] = a + k BY <3>5, <1>20
      <3>7. transformed'[b][k] = a + k BY <2>2, <3>1, <1>24, <1>25
      <3> QED BY <2>1, <3>1, <3>6, <3>7
    <2>3. CASE b > q
      <3>1. PICK d \in 1 .. P : d = b - q
        <4>1. b - q \in 1 .. P BY <2>3, <1>4, <1>21
        <4> QED BY <4>1, Zenon
      <3>2. PICK a \in Nat : a = (d - 1) * BLOCK_SIZE
        <4>1. (d - 1) * BLOCK_SIZE \in Nat BY <1>1, <1>4
        <4> QED BY <4>1, Zenon
      <3>3. a + BLOCK_SIZE <= pm
        <4>1. BLOCK_SIZE * d <= BLOCK_SIZE * P BY <1>1, <1>4
        <4>2. BLOCK_SIZE * d = a + BLOCK_SIZE BY <3>2, <1>1, <1>4
        <4>3. BLOCK_SIZE * P = pm BY <1>1, <1>4, <1>5
        <4> QED BY <4>1, <4>2, <4>3
      <3>4. PICK j \in 1 .. pm : j = a + k
        <4>1. a + k \in 1 .. pm BY <3>3, <1>1
        <4> QED BY <4>1, Zenon
      <3>5. PICK i \in 1 .. len2 : i = c + j /\ i = (b - 1) * BLOCK_SIZE + k
        <4>1. (b - 1) * BLOCK_SIZE = BLOCK_SIZE * q + (b - q - 1) * BLOCK_SIZE BY <1>1
        <4>2. (b - q - 1) * BLOCK_SIZE = a BY <3>1, <3>2
        <4>3. (b - 1) * BLOCK_SIZE = c + a BY <4>1, <4>2, <1>0
        <4>4. (b - 1) * BLOCK_SIZE + k = c + j BY <4>3, <3>4
        <4>5. c + j \in 1 .. len2 BY <1>19
        <4> QED BY <4>4, <4>5, Zenon
      <3>6. transformed'[b][k] = m_block'[j]
        <4>1. transformed'[b] = lastBlocks[d] BY <2>3, <3>1, <1>25
        <4>2. lastBlocks[d][k] = last[j] BY <3>2, <3>4, <1>23
        <4> QED BY <4>1, <4>2, <1>17
      <3>7. stdBlocks[b][k] = std[i] BY <2>1, <3>5
      <3>8. std[i] = m_block'[j]
        <4>1. std[i] = IF i <= fed THEN i ELSE IF i = fed + 1 THEN -128
                       ELSE IF i <= len2 - 4 THEN 0 ELSE <<len_b, i - (len2 - 4)>>
          BY <1>20
        <4>2. m_block'[j] = IF j <= m_len THEN m_tot_len + j ELSE IF j = m_len + 1 THEN -128
                            ELSE IF j <= pm - 4 THEN 0 ELSE <<len_b, j - (pm - 4)>>
          BY <1>16
        <4>3. /\ i <= fed <=> j <= m_len
              /\ i = fed + 1 <=> j = m_len + 1
              /\ i <= len2 - 4 <=> j <= pm - 4
              /\ i - (len2 - 4) = j - (pm - 4) /\ m_tot_len + j = i
          BY <3>5, <1>0, <1>1, <1>2, <1>19
        <4> QED BY <4>1, <4>2, <4>3, Zenon
      <3> QED BY <3>6, <3>7, <3>8
    <2> QED BY <2>2, <2>3
  <1>27. stdBlocks = transformed'
    <2> QED BY <1>22, <1>25, <1>26, SameBlocks DEF Y
  <1> QED BY <1>7, <1>27 DEF ShaInv, BlocksOfStandard, stdBlocks, std, Blocks, Padded

\* Every call of the digest keeps its invariant.
LEMMA DigestKeeps ==
  ASSUME ShaAssumption, ShaInv, [ShaNext]_shaVars PROVE ShaInv'
  <1>1. CASE init BY <1>1, StartKeeps
  <1>2. CASE \E len \in Lens : update(len)
    <2>1. PICK len \in Lens : update(len) BY <1>2
    <2>2. len \in Nat BY DEF ShaAssumption
    <2>3. at = "update" /\ fed' = fed + len /\ at' = at BY <2>1 DEF update
    <2>4. \/ Keeps([k \in 1 .. len |-> fed + k])
          \/ Passes([k \in 1 .. len |-> fed + k])
      BY <2>1 DEF update
    <2> QED BY <2>2, <2>3, <2>4, KeepsKeeps, PassesKeeps
  <1>3. CASE final BY <1>3, FinalKeeps
  <1>4. CASE UNCHANGED shaVars
    BY <1>4 DEF shaVars, ShaInv, ShaTypes, BlocksOfStandard, Blocks,
       Padded
  <1>5. ShaNext => init \/ (\E len \in Lens : update(len)) \/ final
    BY DEF ShaNext
  <1> QED BY <1>1, <1>2, <1>3, <1>4, <1>5

-----------------------------------------------------------------------------
(* The block chain: what is hashed of a block and of its predecessor does  *)
(* not change when later blocks are searched for.                          *)

\* There is the first block alone.
LEMMA InitChain == ASSUME ChainAssumption, ChainInit PROVE ChainInv
  <1>1. ChainTypes
    BY DEF ChainAssumption, ChainInit, ChainTypes, Block, Nobody
  <1>2. Searched /\ ChainHolds
    BY DEF ChainInit, Searched, ChainHolds
  <1> QED BY <1>1, <1>2 DEF ChainInv

\* Blocks that are the same as before, of the same function, hold as before.
LEMMA OthersHold ==
  ASSUME ChainTypes, ChainHolds,
         \A k \in 0 .. nrBlock - 1 : vChain'[k] = vChain[k],
         \A i \in DOMAIN known : i \in DOMAIN known' /\ known'[i] = known[i]
  PROVE  \A k \in 1 .. nrBlock - 1 :
            /\ vChain'[k].hash \in Zeros
            /\ Input(vChain', k) \in DOMAIN known' /\ known'[Input(vChain', k)] = vChain'[k].hash
            /\ vChain'[k].prev = k - 1
  <1> TAKE k \in 1 .. nrBlock - 1
  <1>1. k \in 0 .. nrBlock - 1 /\ k - 1 \in 0 .. nrBlock - 1 /\ k - 1 # -1
    BY DEF ChainTypes
  <1>2. vChain'[k] = vChain[k] /\ vChain'[k - 1] = vChain[k - 1]
    BY <1>1
  <1>3. /\ vChain[k].hash \in Zeros /\ vChain[k].prev = k - 1
        /\ Input(vChain, k) \in DOMAIN known /\ known[Input(vChain, k)] = vChain[k].hash
    BY DEF ChainHolds
  <1>4. Input(vChain', k) = Input(vChain, k)
    BY <1>1, <1>2, <1>3 DEF Input, Nobody
  <1> QED BY <1>2, <1>3, <1>4

\* A block is added behind the last one that was found.
LEMMA AddBlockKeeps ==
  ASSUME ChainAssumption, ChainInv, AddBlock
  PROVE  ChainInv'
  <1> USE DEF ChainAssumption, ChainInv, ChainTypes, Nobody
  <1>1. PICK u \in Times :
           vChain' = [vChain EXCEPT ![nrBlock] = Block(u, nrBlock - 1, -1, vChain[nrBlock].hash)]
    BY DEF AddBlock, Previous
  <1>2. /\ nrBlock \in 0 .. MAXBLOCK - 1 /\ nrBlock <= LAST /\ mining' = TRUE /\ nrBlock' = nrBlock /\ known' = known
    BY DEF AddBlock
  <1>3. ChainTypes'
    <2>1. nrBlock - 1 \in Int /\ -1 \in Int /\ nrBlock \in 0 .. MAXBLOCK - 1 BY <1>2
    <2>2. Block(u, nrBlock - 1, -1, vChain[nrBlock].hash)
            \in [time : Times, prev : Int, nonce : Int, hash : Hashes \cup {-1}]
      BY <2>1 DEF Block
    <2>3. vChain' \in [0 .. MAXBLOCK - 1 -> [time : Times, prev : Int, nonce : Int,
                                         hash : Hashes \cup {-1}]]
      BY <1>1, <2>2
    <2> QED BY <1>2, <2>3
  <1>4. Searched' BY <1>1, <1>2 DEF Block, Searched
  <1>5. \A k \in 0 .. nrBlock - 1 : vChain'[k] = vChain[k] BY <1>1, <1>2
  <1>6. ChainHolds'
    <2>1. \A i \in DOMAIN known : i \in DOMAIN known' /\ known'[i] = known[i] BY <1>2
    <2>2. \A k \in 1 .. nrBlock - 1 :
            /\ vChain'[k].hash \in Zeros
            /\ Input(vChain', k) \in DOMAIN known' /\ known'[Input(vChain', k)] = vChain'[k].hash
            /\ vChain'[k].prev = k - 1
      <3>1. ChainTypes /\ ChainHolds OBVIOUS
      <3> HIDE DEF ChainTypes, ChainInv
      <3> QED BY <3>1, <2>1, <1>5, OthersHold
    <2> QED BY <2>2, <1>2 DEF ChainHolds, Input
  <1> QED BY <1>3, <1>4, <1>6

\* A try changes the nonce and the hash of the last block only.
LEMMA MineBlockKeeps ==
  ASSUME ChainAssumption, ChainInv, MineBlock
  PROVE  ChainInv'
  <1> DEFINE tried == [vChain EXCEPT ![nrBlock].nonce = @ + 1]
             input == Input(tried, nrBlock)
             Chains == [0 .. MAXBLOCK - 1 -> [time : Times, prev : Int, nonce : Int,
                                              hash : Hashes \cup {-1}]]
  <1>1. PICK g \in Hashes :
           /\ input \in DOMAIN known => g = known[input]
           /\ known' = [j \in DOMAIN known \cup {input} |-> IF j = input THEN g ELSE known[j]]
           /\ vChain' = [tried EXCEPT ![nrBlock].hash = g]
           /\ \/ g \in Zeros /\ mining' = FALSE /\ nrBlock' = nrBlock + 1
              \/ nrBlock' = nrBlock /\ mining' = mining
    BY DEF MineBlock, Tried, Found
  <1>2. /\ nrBlock \in 1 .. MAXBLOCK - 1 /\ nrBlock <= LAST /\ LAST \in Nat /\ MAXBLOCK \in Nat
        /\ vChain[nrBlock].prev = nrBlock - 1 /\ mining
        /\ vChain \in Chains
    BY DEF MineBlock, Searched, ChainInv, ChainTypes, Nobody,
           ChainAssumption
  <1> HIDE DEF input
  <1>3. /\ tried \in Chains /\ tried[nrBlock].prev = nrBlock - 1
        /\ \A k \in 0 .. nrBlock - 1 : tried[k] = vChain[k]
    BY <1>2
  <1> HIDE DEF tried
  <1>4. /\ vChain' \in Chains
        /\ vChain'[nrBlock].prev = nrBlock - 1 /\ vChain'[nrBlock].hash = g
        /\ vChain'[nrBlock].time = tried[nrBlock].time /\ vChain'[nrBlock].nonce = tried[nrBlock].nonce
        /\ \A k \in 0 .. nrBlock - 1 : vChain'[k] = vChain[k]
    <2>1. nrBlock \in 0 .. MAXBLOCK - 1 /\ \A k \in 0 .. nrBlock - 1 : k \in 0 .. MAXBLOCK - 1 /\ k # nrBlock
      BY <1>2
    <2>2. vChain' = [tried EXCEPT ![nrBlock].hash = g] BY <1>1
    <2>3. /\ vChain' \in Chains /\ vChain'[nrBlock].hash = g
          /\ vChain'[nrBlock].prev = tried[nrBlock].prev
          /\ vChain'[nrBlock].time = tried[nrBlock].time /\ vChain'[nrBlock].nonce = tried[nrBlock].nonce
      BY <1>3, <2>1, <2>2
    <2>4. \A k \in 0 .. nrBlock - 1 : vChain'[k] = tried[k] BY <1>3, <2>1, <2>2
    <2> QED BY <1>3, <2>3, <2>4, Zenon
  <1>5. Input(vChain', nrBlock) = input
    <2>1. vChain'[nrBlock - 1] = tried[nrBlock - 1] /\ nrBlock - 1 # -1
      BY <1>2, <1>3, <1>4
    <2> QED BY <1>3, <1>4, <2>1 DEF Input, input
  <1>6. /\ input \in DOMAIN known' /\ known'[input] = g
        /\ \A i \in DOMAIN known : i \in DOMAIN known' /\ known'[i] = known[i]
    BY <1>1
  <1>u. nrBlock' = nrBlock \/ (g \in Zeros /\ nrBlock' = nrBlock + 1)
    BY <1>1
  <1>n. nrBlock \in Nat /\ nrBlock >= 1 /\ nrBlock <= LAST /\ LAST \in Nat
    BY <1>2
  <1>7. ChainTypes'
    <2>1. nrBlock' \in 1 .. LAST + 1
      <3>1. nrBlock \in 1 .. LAST + 1 /\ nrBlock + 1 \in 1 .. LAST + 1 BY <1>n
      <3> QED BY <3>1, <1>u, Zenon
    <2> QED BY <2>1, <1>4 DEF ChainTypes, Nobody
  <1>8. Searched'
    BY <1>1, <1>2, <1>4 DEF Searched
  <1>9. ChainHolds'
    <2>1. \A k \in 1 .. nrBlock - 1 :
            /\ vChain'[k].hash \in Zeros
            /\ Input(vChain', k) \in DOMAIN known' /\ known'[Input(vChain', k)] = vChain'[k].hash
            /\ vChain'[k].prev = k - 1
      BY <1>4, <1>6, OthersHold DEF ChainInv
    <2>2. ASSUME NEW k \in 1 .. nrBlock' - 1
          PROVE  /\ vChain'[k].hash \in Zeros
                 /\ Input(vChain', k) \in DOMAIN known' /\ known'[Input(vChain', k)] = vChain'[k].hash
                 /\ vChain'[k].prev = k - 1
      <3>1. CASE k = nrBlock
        BY <3>1, <1>u, <1>4, <1>5, <1>6, <2>2, <1>2
      <3>2. CASE k # nrBlock
        <4>1. k \in 1 .. nrBlock - 1 BY <3>2, <1>u, <1>n
        <4> QED BY <4>1, <2>1, Zenon
      <3> QED BY <3>1, <3>2
    <2> QED BY <2>2 DEF ChainHolds, Input
  <1> QED BY <1>7, <1>8, <1>9 DEF ChainInv

\* Every step of the block chain keeps its invariant.
LEMMA ChainKeeps ==
  ASSUME ChainAssumption, ChainInv, [ChainNext]_chainVars PROVE ChainInv'
  <1>1. CASE ChainNext BY <1>1, AddBlockKeeps, MineBlockKeeps DEF ChainNext
  <1>2. CASE UNCHANGED chainVars
    BY <1>2 DEF chainVars, ChainInv, ChainTypes, Searched, ChainHolds, Input, Nobody
  <1> QED BY <1>1, <1>2
=============================================================================
