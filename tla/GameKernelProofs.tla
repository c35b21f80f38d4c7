-------------------------- MODULE GameKernelProofs --------------------------
(***************************************************************************)
(* A game session.  A GameKernel implements GameLine, for every board,     *)
(* every variant, every snapshot window and whatever positions are set up: *)
(* that argument needs nothing of the rules, only that the two stacks are  *)
(* sequences.  The positions on the line carry the record of the game that *)
(* led to them, so that threefold repetition is drawn exactly when it has  *)
(* occurred: that one rests on what MillGameProofs shows of the rules.     *)
(***************************************************************************)
EXTENDS GameKernel, MillGameProofs

Elements(s) == {s[i] : i \in DOMAIN s}
IsStack(s) == s \in Seq(Elements(s))

StacksInv == IsStack(history) /\ IsStack(redo_stack)

(* A stack is the function of its indices.                                 *)
LEMMA StackShape ==
  ASSUME NEW s, IsStack(s)
  PROVE  /\ Len(s) \in Nat /\ DOMAIN s = 1..Len(s)
         /\ s = [i \in 1..Len(s) |-> s[i]]
         /\ (s = << >>) <=> (Len(s) = 0)
BY DEF IsStack

(* Any sequence is a stack.                                                *)
LEMMA SequenceIsStack ==
  ASSUME NEW T, NEW s \in Seq(T)
  PROVE  IsStack(s)
<1>1. Len(s) \in Nat /\ s \in [1..Len(s) -> Elements(s)]
  BY DEF Elements
<1>2. QED
  BY <1>1 DEF IsStack

(* The empty stack is one, and so is a stack with an element pushed, whose *)
(* elements below the top stay.                                            *)
LEMMA Push ==
  /\ IsStack(<< >>) /\ Len(<< >>) = 0
  /\ \A s, e : IsStack(s) =>
       /\ IsStack(Append(s, e)) /\ Len(Append(s, e)) = Len(s) + 1
       /\ \A i \in 1..Len(s) : Append(s, e)[i] = s[i]
       /\ Append(s, e)[Len(s) + 1] = e
<1>1. IsStack(<< >>) /\ Len(<< >>) = 0
  BY DEF IsStack
<1>2. ASSUME NEW s, NEW e, IsStack(s)
      PROVE  /\ IsStack(Append(s, e)) /\ Len(Append(s, e)) = Len(s) + 1
             /\ \A i \in 1..Len(s) : Append(s, e)[i] = s[i]
             /\ Append(s, e)[Len(s) + 1] = e
  <2> DEFINE T == Elements(s) \union {e}
  <2>1. s \in Seq(T) /\ e \in T
    BY <1>2 DEF IsStack
  <2>2. Append(s, e) \in Seq(T)
    BY <2>1
  <2>3. IsStack(Append(s, e))
    BY <2>2, SequenceIsStack
  <2>4. QED
    BY <2>1, <2>3
<1>3. QED
  BY <1>1, <1>2

(* A stack that is not empty without its top.                              *)
LEMMA Pop ==
  ASSUME NEW s, IsStack(s), s # << >>
  PROVE  /\ IsStack(Sq!Front(s)) /\ Len(Sq!Front(s)) = Len(s) - 1
         /\ Len(s) \in Nat \ {0}
         /\ \A i \in 1..(Len(s) - 1) : Sq!Front(s)[i] = s[i]
         /\ Sq!Last(s) = s[Len(s)]
<1>1. s \in Seq(Elements(s)) /\ Len(s) \in Nat \ {0}
  BY StackShape DEF IsStack
<1>2. Sq!Front(s) = SubSeq(s, 1, Len(s) - 1)
  BY DEF Sq!Front
<1>3. SubSeq(s, 1, Len(s) - 1) \in Seq(Elements(s))
  BY <1>1
<1>4. IsStack(Sq!Front(s))
  BY <1>2, <1>3, SequenceIsStack
<1>5. /\ Len(SubSeq(s, 1, Len(s) - 1)) = Len(s) - 1
      /\ \A i \in 1..(Len(s) - 1) : SubSeq(s, 1, Len(s) - 1)[i] = s[i]
  BY <1>1
<1>6. Sq!Last(s) = s[Len(s)]
  BY DEF Sq!Last
<1>7. QED
  BY <1>1, <1>2, <1>4, <1>5, <1>6

-----------------------------------------------------------------------------

(* Playing, undo, redo and starting afresh keep both stacks sequences.     *)
LEMMA StacksArePreserved ==
  ASSUME StacksInv, [KernelNext]_kvars
  PROVE  StacksInv'
<1> USE DEF StacksInv
<1>1. CASE apply
  BY <1>1, Push DEF apply
<1>2. CASE undo
  BY <1>2, Push, Pop DEF undo
<1>3. CASE redo
  BY <1>3, Push, Pop DEF redo
<1>4. CASE reset
  BY <1>4, Push DEF reset, start_from
<1>5. CASE replace_state
  BY <1>5, Push DEF replace_state, start_from
<1>6. CASE UNCHANGED kvars
  BY <1>6 DEF kvars
<1>7. QED
  BY <1>1, <1>2, <1>3, <1>4, <1>5, <1>6 DEF KernelNext

(* The inductive invariant of the refinement: both stacks are sequences.   *)
THEOREM StacksAreSequences == KernelSpec => []StacksInv
<1>1. KernelInit => StacksInv
  BY Push DEF KernelInit, StacksInv
<1>2. StacksInv /\ [KernelNext]_kvars => StacksInv'
  BY StacksArePreserved
<1>3. QED
  BY <1>1, <1>2, PTL DEF KernelSpec

-----------------------------------------------------------------------------
(* The refinement *)

(* The line point by point: the undo stack upwards, the current position,  *)
(* the redo stack downwards.                                               *)
LineAt(h, s, r, i) ==
  IF i <= Len(h) THEN h[i]
  ELSE IF i = Len(h) + 1 THEN s ELSE r[Len(r) + Len(h) + 2 - i]

LEMMA LineShape ==
  ASSUME NEW h, NEW s, NEW r, IsStack(h), IsStack(r)
  PROVE  LineOf(h, s, r)
           = [i \in 1..(Len(h) + 1 + Len(r)) |-> LineAt(h, s, r, i)]
<1> DEFINE T == Elements(h) \union {s} \union Elements(r)
           rev == [i \in 1..Len(r) |-> r[(Len(r) - i) + 1]]
<1>0. Len(h) \in Nat /\ Len(r) \in Nat
  BY StackShape
<1>1. h \in Seq(T) /\ r \in Seq(T) /\ <<s>> \in Seq(T)
  BY DEF IsStack
<1>2. Sq!Reverse(r) = rev
  BY DEF Sq!Reverse
<1>3. rev \in Seq(T) /\ Len(rev) = Len(r)
  BY <1>1
<1>4. h \o <<s>> \in Seq(T) /\ Len(h \o <<s>>) = Len(h) + 1
      /\ \A i \in 1..Len(h) : (h \o <<s>>)[i] = h[i]
      /\ (h \o <<s>>)[Len(h) + 1] = s
  BY <1>1
<1> DEFINE front == h \o <<s>>
<1> HIDE DEF rev, front
<1>5. front \in Seq(T) /\ Len(front) = Len(h) + 1
  BY <1>4 DEF front
<1>6. /\ front \o rev \in Seq(T)
      /\ Len(front \o rev) = Len(h) + 1 + Len(r)
      /\ \A i \in 1..(Len(h) + 1) : (front \o rev)[i] = front[i]
      /\ \A i \in 1..Len(r) : (front \o rev)[Len(h) + 1 + i] = rev[i]
  BY <1>1, <1>3, <1>5, SMTT(30)
<1>7. ASSUME NEW i \in 1..(Len(h) + 1 + Len(r))
      PROVE  (front \o rev)[i] = LineAt(h, s, r, i)
  <2>1. CASE i <= Len(h)
    BY <2>1, <1>1, <1>4, <1>6 DEF LineAt, front
  <2>2. CASE i = Len(h) + 1
    BY <2>2, <1>1, <1>4, <1>6 DEF LineAt, front
  <2>3. CASE i > Len(h) + 1
    <3>1. i - (Len(h) + 1) \in 1..Len(r)
      BY <2>3, <1>1
    <3>2. (front \o rev)[i] = rev[i - (Len(h) + 1)]
      BY <3>1, <1>1, <1>6, SMTT(30)
    <3>3. rev[i - (Len(h) + 1)] = r[Len(r) + Len(h) + 2 - i]
      BY <3>1, <1>1 DEF rev
    <3>4. QED
      BY <3>2, <3>3, <2>3, <1>1 DEF LineAt
  <2>4. i <= Len(h) \/ i = Len(h) + 1 \/ i > Len(h) + 1
    BY <1>0
  <2>5. QED
    BY <2>1, <2>2, <2>3, <2>4
<1>8. front \o rev = [i \in 1..(Len(h) + 1 + Len(r)) |-> (front \o rev)[i]]
  <2>1. IsStack(front \o rev)
    BY <1>6, SequenceIsStack
  <2>2. QED
    BY <2>1, <1>6, StackShape
<1>9. QED
  BY <1>2, <1>7, <1>8 DEF front, LineOf

(* A stack holds the line up to a point, and so does what is left of it.   *)
LEMMA LineLength ==
  ASSUME NEW h, NEW s, NEW r, IsStack(h), IsStack(r)
  PROVE  /\ Len(h) \in Nat /\ Len(r) \in Nat
         /\ Len(LineOf(h, s, r)) = Len(h) + 1 + Len(r)
         /\ \A i \in 1..(Len(h) + 1 + Len(r)) :
              (LineOf(h, s, r))[i] = LineAt(h, s, r, i)
<1>1. Len(h) \in Nat /\ Len(r) \in Nat
  BY StackShape
<1> DEFINE n == Len(h) + 1 + Len(r)
           L == [i \in 1..n |-> LineAt(h, s, r, i)]
<1>2. Len(L) = n /\ \A i \in 1..n : L[i] = LineAt(h, s, r, i)
  BY <1>1
<1>3. QED
  BY <1>1, <1>2, LineShape

(* Moving the cursor back leaves the line as it is.                        *)
LEMMA CursorBack ==
  ASSUME NEW h, NEW s, NEW r, IsStack(h), IsStack(r), h # << >>
  PROVE  LineOf(Sq!Front(h), Sq!Last(h), Append(r, s))
           = LineOf(h, s, r)
<1> DEFINE f == Sq!Front(h)
           l == Sq!Last(h)
           p == Append(r, s)
<1>1. /\ IsStack(f) /\ Len(h) \in Nat \ {0} /\ Len(f) = Len(h) - 1
      /\ \A i \in 1..(Len(h) - 1) : f[i] = h[i]
      /\ l = h[Len(h)]
  BY Pop
<1>2. /\ IsStack(p) /\ Len(p) = Len(r) + 1 /\ Len(r) \in Nat
      /\ \A i \in 1..Len(r) : p[i] = r[i]
      /\ p[Len(r) + 1] = s
  BY Push, StackShape
<1> HIDE DEF f, l, p
<1>3. Len(f) + 1 + Len(p) = Len(h) + 1 + Len(r)
  BY <1>1, <1>2
<1>4. ASSUME NEW i \in 1..(Len(h) + 1 + Len(r))
      PROVE  LineAt(f, l, p, i) = LineAt(h, s, r, i)
  <2>1. CASE i < Len(h)
    BY <2>1, <1>1, <1>2 DEF LineAt
  <2>2. CASE i = Len(h)
    BY <2>2, <1>1, <1>2 DEF LineAt
  <2>3. CASE i = Len(h) + 1
    BY <2>3, <1>1, <1>2 DEF LineAt
  <2>4. CASE i > Len(h) + 1
    BY <2>4, <1>1, <1>2 DEF LineAt
  <2>5. i < Len(h) \/ i = Len(h) \/ i = Len(h) + 1 \/ i > Len(h) + 1
    BY <1>1, <1>2
  <2>6. QED
    BY <2>1, <2>2, <2>3, <2>4, <2>5
<1>5. [i \in 1..(Len(f) + 1 + Len(p)) |-> LineAt(f, l, p, i)]
        = [i \in 1..(Len(h) + 1 + Len(r)) |-> LineAt(h, s, r, i)]
  BY <1>3, <1>4
<1>6. LineOf(f, l, p)
        = [i \in 1..(Len(f) + 1 + Len(p)) |-> LineAt(f, l, p, i)]
  BY <1>1, <1>2, LineShape, SMTT(30)
<1>7. LineOf(h, s, r)
        = [i \in 1..(Len(h) + 1 + Len(r)) |-> LineAt(h, s, r, i)]
  BY LineShape
<1>8. LineOf(f, l, p) = LineOf(h, s, r)
  BY <1>5, <1>6, <1>7
<1>9. QED
  BY <1>8 DEF f, l, p

(* And so does moving it forward, which undoes moving it back.             *)
LEMMA CursorForward ==
  ASSUME NEW h, NEW s, NEW r, IsStack(h), IsStack(r), r # << >>
  PROVE  LineOf(Append(h, s), Sq!Last(r), Sq!Front(r))
           = LineOf(h, s, r)
<1> DEFINE f == Sq!Front(r)
           l == Sq!Last(r)
           p == Append(h, s)
<1>1. /\ IsStack(f) /\ Len(r) \in Nat \ {0} /\ Len(f) = Len(r) - 1
      /\ \A i \in 1..(Len(r) - 1) : f[i] = r[i]
      /\ l = r[Len(r)]
  BY Pop
<1>2. /\ IsStack(p) /\ Len(p) = Len(h) + 1 /\ Len(h) \in Nat
      /\ \A i \in 1..Len(h) : p[i] = h[i]
      /\ p[Len(h) + 1] = s
  BY Push, StackShape
<1> HIDE DEF f, l, p
<1>3. Len(p) + 1 + Len(f) = Len(h) + 1 + Len(r)
  BY <1>1, <1>2
<1>4. ASSUME NEW i \in 1..(Len(h) + 1 + Len(r))
      PROVE  LineAt(p, l, f, i) = LineAt(h, s, r, i)
  <2>1. CASE i <= Len(h)
    BY <2>1, <1>1, <1>2 DEF LineAt
  <2>2. CASE i = Len(h) + 1
    BY <2>2, <1>1, <1>2 DEF LineAt
  <2>3. CASE i = Len(h) + 2
    BY <2>3, <1>1, <1>2 DEF LineAt
  <2>4. CASE i > Len(h) + 2
    BY <2>4, <1>1, <1>2 DEF LineAt
  <2>5. i <= Len(h) \/ i = Len(h) + 1 \/ i = Len(h) + 2 \/ i > Len(h) + 2
    BY <1>1, <1>2
  <2>6. QED
    BY <2>1, <2>2, <2>3, <2>4, <2>5
<1>5. [i \in 1..(Len(p) + 1 + Len(f)) |-> LineAt(p, l, f, i)]
        = [i \in 1..(Len(h) + 1 + Len(r)) |-> LineAt(h, s, r, i)]
  BY <1>3, <1>4
<1>6. LineOf(p, l, f)
        = [i \in 1..(Len(p) + 1 + Len(f)) |-> LineAt(p, l, f, i)]
  BY <1>1, <1>2, LineShape
<1>7. LineOf(h, s, r)
        = [i \in 1..(Len(h) + 1 + Len(r)) |-> LineAt(h, s, r, i)]
  BY LineShape
<1>8. LineOf(p, l, f) = LineOf(h, s, r)
  BY <1>5, <1>6, <1>7
<1>9. QED
  BY <1>8 DEF f, l, p

(* A session that has just begun is a line of one position.                *)
LEMMA OnePosition ==
  ASSUME NEW s
  PROVE  Len(LineOf(<< >>, s, << >>)) = 1 /\ Len(<< >>) + 1 = 1
<1>1. IsStack(<< >>) /\ Len(<< >>) = 0
  BY Push
<1>2. Len(LineOf(<< >>, s, << >>)) = Len(<< >>) + 1 + Len(<< >>)
  BY <1>1, LineLength
<1>3. QED
  BY <1>1, <1>2

(* GameKernel implements GameLine: playing cuts the line off and extends   *)
(* it, undo and redo only move the cursor, a new game and a position set   *)
(* up start a line of their own.                                           *)
THEOREM KernelImplementsGameLine == KernelSpec => ImplementsGameLine
<1>1. KernelInit => GL!Init
  BY OnePosition DEF KernelInit, GL!Init, Line
<1>2. StacksInv /\ [KernelNext]_kvars => [GL!Next]_<<Line, Len(history) + 1>>
  <2> SUFFICES ASSUME StacksInv, [KernelNext]_kvars
               PROVE  [GL!Next]_<<Line, Len(history) + 1>>
    OBVIOUS
  <2> USE DEF StacksInv
  <2>1. CASE apply
    <3> DEFINE h == Append(history, state)
    <3>1. history' = h /\ redo_stack' = << >>
      BY <2>1 DEF apply
    <3>2. /\ IsStack(h) /\ Len(h) = Len(history) + 1 /\ Len(history) \in Nat
          /\ \A i \in 1..Len(history) : h[i] = history[i]
          /\ h[Len(history) + 1] = state
          /\ IsStack(<< >>) /\ Len(<< >>) = 0
      BY Push, StackShape
    <3>3. Line' = LineOf(h, state', << >>)
      BY <3>1 DEF Line
    <3> HIDE DEF h
    <3>4. /\ Len(Line') = Len(history) + 2
          /\ \A i \in 1..(Len(history) + 2) :
               Line'[i] = LineAt(h, state', << >>, i)
      <4>1. /\ Len(Line') = Len(h) + 1 + Len(<< >>)
            /\ \A i \in 1..(Len(h) + 1 + Len(<< >>)) :
                 Line'[i] = LineAt(h, state', << >>, i)
        BY <3>2, <3>3, LineLength
      <4>2. Len(h) + 1 + Len(<< >>) = Len(history) + 2
        BY <3>2
      <4>3. QED
        BY <4>1, <4>2
    <3>5. \A i \in 1..(Len(history) + 1 + Len(redo_stack)) :
            Line[i] = LineAt(history, state, redo_stack, i)
      BY LineLength DEF Line
    <3>6. ASSUME NEW i \in 1..(Len(history) + 1)
          PROVE  Line'[i] = Line[i]
      <4>1. LineAt(h, state', << >>, i) = LineAt(history, state, redo_stack, i)
        BY <3>2 DEF LineAt
      <4>2. Len(redo_stack) \in Nat
        BY StackShape
      <4>3. QED
        BY <3>2, <3>4, <3>5, <4>1, <4>2
    <3>7. GL!Play
      BY <3>1, <3>2, <3>4, <3>6 DEF GL!Play
    <3>8. QED
      BY <3>7 DEF GL!Next
  <2>2. CASE undo
    <3>0. Line' = LineOf(Sq!Front(history), Sq!Last(history), Append(redo_stack, state))
      BY <2>2 DEF undo, Line
    <3>1. Line' = Line
      <4>1. history # << >>
        BY <2>2 DEF undo
      <4>2. QED
        BY <3>0, <4>1, CursorBack DEF Line
    <3>2. /\ Len(history) + 1 > 1
          /\ Len(history') + 1 = (Len(history) + 1) - 1
      BY <2>2, Pop DEF undo
    <3>3. QED
      BY <3>1, <3>2 DEF GL!Undo, GL!Next
  <2>3. CASE redo
    <3>0. Line' = LineOf(Append(history, state), Sq!Last(redo_stack), Sq!Front(redo_stack))
      BY <2>3 DEF redo, Line
    <3>1. Line' = Line
      <4>1. redo_stack # << >>
        BY <2>3 DEF redo
      <4>2. QED
        BY <3>0, <4>1, CursorForward DEF Line
    <3>2. Len(history') = Len(history) + 1 /\ Len(history) \in Nat
      BY <2>3, Push, StackShape DEF redo
    <3>3. Len(Line) = Len(history) + 1 + Len(redo_stack)
      BY LineLength DEF Line
    <3>4. Len(redo_stack) \in Nat \ {0}
      BY <2>3, Pop DEF redo
    <3>5. QED
      BY <3>1, <3>2, <3>3, <3>4 DEF GL!Redo, GL!Next
  <2>4. ASSUME NEW snapshot, start_from(snapshot)
        PROVE  GL!Restart
    BY <2>4, OnePosition DEF start_from, Line, GL!Restart
  <2>5. CASE reset \/ replace_state
    BY <2>4, <2>5 DEF reset, replace_state, GL!Next
  <2>6. CASE UNCHANGED kvars
    BY <2>6 DEF kvars, Line
  <2>7. QED
    BY <2>1, <2>2, <2>3, <2>5, <2>6 DEF KernelNext
<1>3. QED
  BY <1>1, <1>2, StacksAreSequences, PTL
     DEF KernelSpec, ImplementsGameLine, GL!Spec

-----------------------------------------------------------------------------
(* Indices in ascending order *)

Rank(S, i) == Cardinality({j \in S : j <= i})

(* The ranks of a finite set of numbers are 1, 2 and so on, each taken by  *)
(* one of them: Ascending lists every one of them once.                    *)
LEMMA RanksAreDistinct ==
  ASSUME NEW S \in SUBSET Nat, IsFiniteSet(S)
  PROVE  LET n == Cardinality(S)
         IN /\ n \in Nat
            /\ \A i \in S : Rank(S, i) \in 1..n
            /\ \A i, j \in S : Rank(S, i) = Rank(S, j) => i = j
            /\ \A k \in 1..n : \E i \in S : Rank(S, i) = k
<1> DEFINE n == Cardinality(S)
           Below(i) == {j \in S : j <= i}
           r == [i \in S |-> Rank(S, i)]
<1>1. n \in Nat
  BY FS_CardinalityType
<1>2. ASSUME NEW i \in S
      PROVE  /\ IsFiniteSet(Below(i)) /\ Cardinality(Below(i)) \in Nat
             /\ Cardinality(Below(i)) <= n /\ Cardinality(Below(i)) # 0
  <2>1. Below(i) \in SUBSET S /\ i \in Below(i)
    OBVIOUS
  <2> HIDE DEF Below
  <2>2. IsFiniteSet(Below(i)) /\ Cardinality(Below(i)) <= n
    BY <2>1, FS_Subset
  <2> QED BY <2>1, <2>2, FS_CardinalityType, FS_EmptySet
<1>3. ASSUME NEW i \in S, NEW j \in S, i < j
      PROVE  Cardinality(Below(i)) < Cardinality(Below(j))
  <2>1. Below(i) \in SUBSET Below(j) /\ j \in Below(j) /\ j \notin Below(i)
    <3>1. \A x \in S : x <= i => x <= j
      BY <1>3
    <3>2. ~(j <= i) /\ j <= j
      BY <1>3
    <3> QED BY <3>1, <3>2
  <2>2. /\ IsFiniteSet(Below(j)) /\ Cardinality(Below(j)) \in Nat
        /\ Cardinality(Below(i)) \in Nat
    BY <1>2
  <2> HIDE DEF Below
  <2>3. /\ Cardinality(Below(i)) <= Cardinality(Below(j))
        /\ Cardinality(Below(i)) = Cardinality(Below(j)) => Below(j) = Below(i)
    BY <2>1, <2>2, FS_Subset
  <2> QED BY <2>1, <2>2, <2>3
<1>4. \A i \in S : Rank(S, i) = Cardinality(Below(i))
  BY DEF Rank
<1> HIDE DEF Below
<1>5. \A i \in S : Rank(S, i) \in 1..n
  BY <1>1, <1>2, <1>4
<1>6. \A i, j \in S : Rank(S, i) = Rank(S, j) => i = j
  <2> SUFFICES ASSUME NEW i \in S, NEW j \in S, i # j
               PROVE  Rank(S, i) # Rank(S, j)
    OBVIOUS
  <2>1. i < j \/ j < i
    OBVIOUS
  <2>2. /\ Cardinality(Below(i)) \in Nat /\ Cardinality(Below(j)) \in Nat
    BY <1>2
  <2> QED BY <1>3, <1>4, <2>1, <2>2
<1>7. \A k \in 1..n : \E i \in S : Rank(S, i) = k
  <2>1. r \in [S -> 1..n]
    BY <1>5
  <2>2. r \in Injection(S, 1..n)
    BY <1>6, <2>1 DEF Injection, IsInjective
  <2>3. IsFiniteSet(1..n) /\ Cardinality(1..n) = n
    BY <1>1, FS_Interval
  <2>4. r \in Surjection(S, 1..n)
    BY <2>2, <2>3, FS_Injection
  <2>5. \A k \in 1..n : \E i \in S : r[i] = k
    BY <2>4 DEF Surjection
  <2> QED BY <2>5
<1> QED BY <1>1, <1>5, <1>6, <1>7

LEMMA AscendingLists ==
  ASSUME NEW S \in SUBSET Nat, IsFiniteSet(S)
  PROVE  LET n == Cardinality(S)
             f == Ascending(S)
         IN /\ n \in Nat /\ f \in [1..n -> S] /\ DOMAIN f = 1..n
            /\ \A k \in 1..n : Rank(S, f[k]) = k
            /\ \A i \in S : Rank(S, i) \in 1..n /\ f[Rank(S, i)] = i
<1> DEFINE n == Cardinality(S)
           f == Ascending(S)
<1>1. /\ n \in Nat
      /\ \A i \in S : Rank(S, i) \in 1..n
      /\ \A i, j \in S : Rank(S, i) = Rank(S, j) => i = j
      /\ \A k \in 1..n : \E i \in S : Rank(S, i) = k
  BY RanksAreDistinct
<1>2. f = [k \in 1..n |-> CHOOSE i \in S : Rank(S, i) = k]
  BY DEF Ascending, Rank
<1> HIDE DEF f, n
<1>3. \A k \in 1..n : f[k] \in S /\ Rank(S, f[k]) = k
  BY <1>1, <1>2
<1>4. f \in [1..n -> S] /\ DOMAIN f = 1..n
  BY <1>2, <1>3
<1>5. ASSUME NEW i \in S PROVE f[Rank(S, i)] = i
  <2> DEFINE k == Rank(S, i)
  <2>1. k \in 1..n
    BY <1>1
  <2> HIDE DEF k
  <2>2. f[k] \in S /\ Rank(S, f[k]) = k
    BY <1>3, <2>1
  <2> QED BY <1>1, <2>2 DEF k
<1> QED BY <1>1, <1>3, <1>4, <1>5 DEF f, n

(* An index beyond all others comes last.                                  *)
LEMMA AscendingGrows ==
  ASSUME NEW S \in SUBSET Nat, IsFiniteSet(S),
         NEW n \in Nat, \A i \in S : i < n
  PROVE  LET T == S \union {n}
             m == Cardinality(S)
         IN /\ T \in SUBSET Nat /\ IsFiniteSet(T) /\ Cardinality(T) = m + 1
            /\ \A k \in 1..m : Ascending(T)[k] = Ascending(S)[k]
            /\ Ascending(T)[m + 1] = n
<1> DEFINE T == S \union {n}
           m == Cardinality(S)
<1>1. T \in SUBSET Nat /\ IsFiniteSet(T) /\ Cardinality(T) = m + 1 /\ m \in Nat
  <2>1. n \notin S
    OBVIOUS
  <2> QED BY <2>1, FS_AddElement, FS_CardinalityType
<1>2. \A i \in S : Rank(T, i) = Rank(S, i)
  <2> SUFFICES ASSUME NEW i \in S PROVE Rank(T, i) = Rank(S, i)
    OBVIOUS
  <2>1. ~(n <= i)
    OBVIOUS
  <2>2. {j \in T : j <= i} = {j \in S : j <= i}
    BY <2>1
  <2> QED BY <2>2 DEF Rank
<1>3. Rank(T, n) = m + 1
  <2>1. \A j \in T : j <= n
    OBVIOUS
  <2>2. {j \in T : j <= n} = T
    BY <2>1
  <2> QED BY <1>1, <2>2 DEF Rank
<1>4. n \in T /\ S \subseteq T
  OBVIOUS
<1> HIDE DEF T
<1>5. \A i \in T : Ascending(T)[Rank(T, i)] = i
  BY <1>1, AscendingLists
<1>6. \A k \in 1..m : Ascending(S)[k] \in S /\ Rank(S, Ascending(S)[k]) = k
  BY AscendingLists
<1>7. \A k \in 1..m : Ascending(T)[k] = Ascending(S)[k]
  BY <1>2, <1>4, <1>5, <1>6
<1>8. Ascending(T)[m + 1] = n
  BY <1>3, <1>4, <1>5
<1> QED BY <1>1, <1>7, <1>8 DEF T

-----------------------------------------------------------------------------
(* What an observer of the positions played has recorded *)

ObservedAt(line, i) == Observation(line[i - 1], line[i])
Recorded(line, S) == [k \in 1..Cardinality(S) |-> ObservedAt(line, Ascending(S)[k])]

LEMMA RecordedShape ==
  ASSUME NEW S \in SUBSET Nat, IsFiniteSet(S), NEW line, NEW K,
         \A i \in S : ObservedAt(line, i) \in K
  PROVE  /\ Recorded(line, S) \in Seq(K)
         /\ Len(Recorded(line, S)) = Cardinality(S) /\ Cardinality(S) \in Nat
<1>1. /\ Cardinality(S) \in Nat
      /\ \A k \in 1..Cardinality(S) : Ascending(S)[k] \in S
  BY AscendingLists
<1>2. Recorded(line, S) \in [1..Cardinality(S) -> K]
  BY <1>1 DEF Recorded
<1>3. Recorded(line, S) \in Seq(K)
  BY <1>1, <1>2
<1>4. DOMAIN Recorded(line, S) = 1..Cardinality(S)
  BY <1>2
<1> QED BY <1>1, <1>3, <1>4

LEMMA RecordedNothing ==
  ASSUME NEW line
  PROVE  Recorded(line, {}) = << >>
<1>1. Cardinality({}) = 0
  BY FS_EmptySet
<1> QED BY <1>1 DEF Recorded

(* Another line with the same observations has the same record.            *)
LEMMA RecordedSame ==
  ASSUME NEW S \in SUBSET Nat, IsFiniteSet(S), NEW line, NEW other,
         \A i \in S : ObservedAt(other, i) = ObservedAt(line, i)
  PROVE  Recorded(other, S) = Recorded(line, S)
<1>1. \A k \in 1..Cardinality(S) : Ascending(S)[k] \in S
  BY AscendingLists
<1> QED BY <1>1 DEF Recorded

(* A new observation is recorded last.                                     *)
LEMMA RecordedGrows ==
  ASSUME NEW S \in SUBSET Nat, IsFiniteSet(S),
         NEW n \in Nat, \A i \in S : i < n, NEW line, NEW K,
         \A i \in S \union {n} : ObservedAt(line, i) \in K
  PROVE  Recorded(line, S \union {n}) = Append(Recorded(line, S), ObservedAt(line, n))
<1> DEFINE T == S \union {n}
           m == Cardinality(S)
           new == ObservedAt(line, n)
<1>1. /\ T \in SUBSET Nat /\ IsFiniteSet(T) /\ Cardinality(T) = m + 1
      /\ \A k \in 1..m : Ascending(T)[k] = Ascending(S)[k]
      /\ Ascending(T)[m + 1] = n
  BY AscendingGrows
<1>2. /\ Recorded(line, S) \in Seq(K) /\ Len(Recorded(line, S)) = m /\ m \in Nat
      /\ Recorded(line, T) \in Seq(K) /\ Len(Recorded(line, T)) = m + 1
      /\ new \in K
  <2> HIDE DEF m
  <2>1. \A i \in T : ObservedAt(line, i) \in K
    OBVIOUS
  <2> HIDE DEF T
  <2> QED BY <1>1, <2>1, RecordedShape DEF T, m
<1>3. /\ \A k \in 1..m : Recorded(line, T)[k] = Recorded(line, S)[k]
      /\ Recorded(line, T)[m + 1] = new
  <2>1. \A k \in 1..m : Recorded(line, S)[k] = ObservedAt(line, Ascending(S)[k])
    BY DEF Recorded
  <2>2. \A k \in 1..(m + 1) : Recorded(line, T)[k] = ObservedAt(line, Ascending(T)[k])
    BY <1>1 DEF Recorded
  <2> HIDE DEF T, m
  <2> QED BY <1>1, <1>2, <2>1, <2>2
<1> HIDE DEF T, new, m
<1> DEFINE a == Recorded(line, S)
           b == Recorded(line, T)
<1> HIDE DEF a, b
<1>4. /\ a \in Seq(K) /\ b \in Seq(K) /\ Len(a) = m /\ Len(b) = m + 1 /\ m \in Nat
      /\ \A k \in 1..m : b[k] = a[k]
      /\ b[m + 1] = new /\ new \in K
  BY <1>2, <1>3 DEF a, b
<1>5. b = Append(a, new)
  <2>1. /\ Append(a, new) \in Seq(K) /\ Len(Append(a, new)) = m + 1
        /\ \A k \in 1..m : Append(a, new)[k] = a[k]
        /\ Append(a, new)[m + 1] = new
    BY <1>4
  <2>2. \A k \in 1..(m + 1) : b[k] = Append(a, new)[k]
    BY <1>4, <2>1
  <2> QED BY <1>4, <2>1, <2>2, SeqEqual
<1> QED BY <1>5 DEF a, b, T, new

(* A position occurs in the record as often as it was observed.            *)
LEMMA OccurrencesCounted ==
  ASSUME NEW S \in SUBSET Nat, IsFiniteSet(S), NEW line, NEW key
  PROVE  Occurrences(Recorded(line, S), key)
           = Cardinality({i \in S : ObservedAt(line, i) = key})
<1> DEFINE n == Cardinality(S)
           f == Ascending(S)
           A == {k \in 1..n : ObservedAt(line, f[k]) = key}
           B == {i \in S : ObservedAt(line, i) = key}
           g == [k \in A |-> f[k]]
<1>1. /\ n \in Nat /\ f \in [1..n -> S]
      /\ \A k \in 1..n : Rank(S, f[k]) = k
      /\ \A i \in S : Rank(S, i) \in 1..n /\ f[Rank(S, i)] = i
  BY AscendingLists
<1>2. {k \in DOMAIN Recorded(line, S) : Recorded(line, S)[k] = key} = A
  BY DEF Recorded
<1> HIDE DEF f, n
<1>3. g \in [A -> B]
  BY <1>1
<1>4. \A a, b \in A : g[a] = g[b] => a = b
  BY <1>1
<1>5. \A b \in B : \E a \in A : g[a] = b
  BY <1>1
<1>6. IsFiniteSet(A)
  <2>1. IsFiniteSet(1..n) /\ A \in SUBSET (1..n)
    BY <1>1, FS_Interval
  <2> QED BY <2>1, FS_Subset
<1> HIDE DEF A, B
<1>7. g \in Bijection(A, B)
  BY <1>3, <1>4, <1>5 DEF Bijection, Injection, Surjection, IsInjective
<1>8. ExistsBijection(A, B)
  BY <1>7 DEF ExistsBijection
<1>9. Cardinality(B) = Cardinality(A)
  BY <1>6, <1>8, FS_Bijection
<1> QED BY <1>2, <1>9 DEF Occurrences, B

-----------------------------------------------------------------------------
(* Repetition keys decide nothing else *)

LEMMA LastKeysShape ==
  ASSUME NEW K, NEW s \in Seq(K)
  PROVE  LET t == LastKeys(s)
         IN /\ t \in Seq(K)
            /\ Len(t) = IF Len(s) <= SnapshotWindow THEN Len(s) ELSE SnapshotWindow
            /\ t = << >> <=> s = << >>
            /\ s # << >> => t[Len(t)] = s[Len(s)] /\ Len(t) \in 1..Len(s)
<1>1. SnapshotWindow \in Nat \ {0}
  BY KernelAssumption
<1>2. CASE Len(s) <= SnapshotWindow
  BY <1>2 DEF LastKeys
<1>3. CASE ~(Len(s) <= SnapshotWindow)
  <2> DEFINE t == SubSeq(s, Len(s) - SnapshotWindow + 1, Len(s))
  <2>1. LastKeys(s) = t
    BY <1>3 DEF LastKeys
  <2> DEFINE m == Len(s) - SnapshotWindow + 1
  <2>2. m \in 1..Len(s) /\ Len(s) \in Nat /\ (Len(s) - m) + 1 = SnapshotWindow
    BY <1>1, <1>3
  <2> HIDE DEF m
  <2>3. /\ SubSeq(s, m, Len(s)) \in Seq(K)
        /\ Len(SubSeq(s, m, Len(s))) = (Len(s) - m) + 1
        /\ \A i \in 1..((Len(s) - m) + 1) : SubSeq(s, m, Len(s))[i] = s[m + i - 1]
    BY <2>2
  <2>4. SnapshotWindow \in 1..((Len(s) - m) + 1) /\ m + SnapshotWindow - 1 = Len(s)
    BY <1>1, <2>2
  <2>5. t \in Seq(K) /\ Len(t) = SnapshotWindow /\ t[SnapshotWindow] = s[Len(s)]
    <3>1. t = SubSeq(s, m, Len(s))
      BY DEF m
    <3> QED BY <2>2, <2>3, <2>4, <3>1
  <2> HIDE DEF t
  <2>6. t # << >> /\ s # << >>
    BY <1>1, <1>3, <2>5
  <2> QED BY <1>1, <1>3, <2>1, <2>5, <2>6
<1> QED BY <1>2, <1>3

(* The actions that are legal do not depend on the repetition keys.        *)
LEMMA LegalWhateverKeys ==
  ASSUME NEW s, NEW t, DOMAIN s = Fields, Alters(s, t, {"key_history"}), NEW o
  PROVE  legal_actions(t, o) = legal_actions(s, o)
<1>1. /\ t.board = s.board /\ t.marked = s.marked
      /\ t.side_to_move = s.side_to_move /\ t.phase = s.phase /\ t.action = s.action
      /\ t.pieces_in_hand = s.pieces_in_hand /\ t.pieces_on_board = s.pieces_on_board
      /\ t.pending_removals = s.pending_removals
      /\ t.mill_available_at_removal = s.mill_available_at_removal
      /\ t.stalemate_removing = s.stalemate_removing
      /\ t.both_stalemate_removing = s.both_stalemate_removing
      /\ t.remove_own_piece = s.remove_own_piece
      /\ t.last_mill_from = s.last_mill_from /\ t.last_mill_to = s.last_mill_to
      /\ t.formed_mills = s.formed_mills
      /\ t.custodian_targets = s.custodian_targets
      /\ t.intervention_targets = s.intervention_targets
      /\ t.leap_targets = s.leap_targets
  BY DEF Alters, Fields
<1>2. \A k : piece_bitboard(t, k) = piece_bitboard(s, k)
  BY <1>1, SameBitboards
<1>3. empty_squares(t) = empty_squares(s) /\ board_occupied(t) = board_occupied(s)
  BY <1>1 DEF empty_squares, board_occupied
<1>4. \A n : empty_adjacent(t, o, n) = empty_adjacent(s, o, n)
  BY <1>3 DEF empty_adjacent
<1>5. \A k : /\ MillsOf(t, o, k) = MillsOf(s, o, k)
             /\ mill_members(t, o, k) = mill_members(s, o, k)
  BY <1>2 DEF MillsOf, mill_members
<1>6. \A to, k, gone :
        potential_mills_at(t, o, to, k, gone) = potential_mills_at(s, o, to, k, gone)
  BY <1>1, <1>2 DEF potential_mills_at, UsableFor
<1>7. \A k, from, to : is_restricted_repeated_mill(t, o, k, from, to)
                         <=> is_restricted_repeated_mill(s, o, k, from, to)
  BY <1>1, <1>6 DEF is_restricted_repeated_mill
<1>8. \A k : BelowFlyLimit(t, o, k) <=> BelowFlyLimit(s, o, k)
  BY <1>1 DEF BelowFlyLimit
<1>9. \A k, from : piece_is_stuck(t, o, k, from) <=> piece_is_stuck(s, o, k, from)
  BY <1>4, <1>7 DEF piece_is_stuck
<1>10. \A k : is_all_surrounded(t, o, k) <=> is_all_surrounded(s, o, k)
  BY <1>1, <1>2, <1>8, <1>9 DEF is_all_surrounded, OnBoard
<1>11. \A k, x : Unprotected(t, o, k, x) = Unprotected(s, o, k, x)
  BY <1>2, <1>5 DEF Unprotected
<1>12. \A n : leap_capture_target_is_removable(t, o, n)
                <=> leap_capture_target_is_removable(s, o, n)
  BY <1>1, <1>2, <1>11 DEF leap_capture_target_is_removable, filter_capture_targets
<1>13. leap_enabled(t, o) <=> leap_enabled(s, o)
  BY <1>1 DEF leap_enabled, capture_phase_allowed, capture_piece_count_allowed_leap
<1>14. leap_moves(t, o) = leap_moves(s, o)
  BY <1>1, <1>2, <1>3, <1>12 DEF leap_moves
<1>15. \A fly : generate_move_actions(t, o, fly) = generate_move_actions(s, o, fly)
  BY <1>1, <1>2, <1>3, <1>7, <1>8, <1>13, <1>14 DEF generate_move_actions
<1>16. is_stalemate_removal_context(t, o) <=> is_stalemate_removal_context(s, o)
  BY <1>1, <1>10 DEF is_stalemate_removal_context
<1>17. \A k : regular_remove_targets(t, o, k) = regular_remove_targets(s, o, k)
  BY <1>1, <1>2, <1>11, <1>16 DEF regular_remove_targets
<1>18. capture_targets(t) = capture_targets(s) /\ capture_total(t) = capture_total(s)
  BY <1>1 DEF capture_targets, capture_total
<1>19. generate_remove_actions(t, o) = generate_remove_actions(s, o)
  BY <1>1, <1>2, <1>17, <1>18 DEF generate_remove_actions
<1>20. action_for_legal_generation(t) = action_for_legal_generation(s)
  BY <1>1 DEF action_for_legal_generation, synced_action
<1>21. /\ t.side_to_move = s.side_to_move /\ t.phase = s.phase
       /\ t.pieces_in_hand = s.pieces_in_hand
       /\ t.pending_removals = s.pending_removals
       /\ empty_squares(t) = empty_squares(s)
       /\ generate_move_actions(t, o, TRUE) = generate_move_actions(s, o, TRUE)
       /\ generate_move_actions(t, o, FALSE) = generate_move_actions(s, o, FALSE)
  BY <1>1, <1>3, <1>15
<1> QED BY <1>19, <1>20, <1>21, Zenon DEF legal_actions

LEMMA RecordUnchanged ==
  ASSUME NEW s \in MillStates
  PROVE  [s EXCEPT !.key_history = s.key_history] = s
BY DEF MillStates

(* A good position stays one under any repetition keys.                    *)
LEMMA GoodWhateverKeys ==
  ASSUME NEW s, NEW o \in MillVariantOptions, Good(s, o),
         NEW keys \in Seq(Signatures)
  PROVE  LET t == [s EXCEPT !.key_history = keys]
         IN /\ Good(t, o) /\ Alters(s, t, {"key_history"}) /\ t.key_history = keys
            /\ DOMAIN s = Fields
            /\ legal_actions(t, o) = legal_actions(s, o)
            /\ keys = s.key_history => t = s
<1> DEFINE t == [s EXCEPT !.key_history = keys]
<1>1. s \in MillStates /\ DOMAIN s = Fields
  BY FieldsOfState DEF Good, Coherent
<1>2. t \in MillStates
  BY <1>1 DEF MillStates
<1>3. Alters(s, t, {"key_history"}) /\ t.key_history = keys
  BY <1>1 DEF Alters, Fields
<1>4. keys = s.key_history => t = s
  BY <1>1, RecordUnchanged
<1> HIDE DEF t
<1>5. /\ t.phase = s.phase /\ t.side_to_move = s.side_to_move
      /\ t.action = s.action /\ t.pending_removals = s.pending_removals
      /\ t.board = s.board /\ t.marked = s.marked
      /\ t.pieces_on_board = s.pieces_on_board
      /\ t.pieces_in_hand = s.pieces_in_hand
      /\ t.ply_since_capture = s.ply_since_capture
  BY <1>3 DEF Alters, Fields
<1>6. Coherent(t)
  BY <1>2, <1>5, SameTurnCoherent DEF Good
<1>7. Sound(t)
  <2>1. Alters(s, t, Notes)
    BY <1>3, AltersMore DEF Notes
  <2> QED BY <2>1, NotesAreSound DEF Good
<1>8. Counted(t, o)
  <2>1. \A k : piece_bitboard(t, k) = piece_bitboard(s, k)
    BY <1>5, SameBitboards
  <2> QED BY <1>5, <2>1 DEF Good, Counted
<1>9. Paced(t, o)
  <2>1. draw_threshold(t, o) = draw_threshold(s, o)
    BY <1>5, SameThreshold
  <2> QED BY <1>5, <2>1 DEF Good, Paced, Owes
<1>10. legal_actions(t, o) = legal_actions(s, o)
  BY <1>1, <1>3, LegalWhateverKeys
<1> QED BY <1>1, <1>3, <1>4, <1>6, <1>7, <1>8, <1>9, <1>10 DEF Good, t

-----------------------------------------------------------------------------
(* What the three kinds of action leave of the repetition keys *)

LEMMA ObservationRead ==
  ASSUME NEW p, NEW q, DOMAIN q = Fields
  PROVE  Observation(p, q) = [board |-> q.board, marked |-> q.marked,
                              side_to_move |-> Opp(p.side_to_move)]
BY DEF Observation, repetition_signature, Fields

(* The keys after a quiet move, and whether it was the third of its kind.  *)
PushedKeys(keys, key) ==
  Append(IF Len(keys) >= HistoryCap THEN Tail(keys) ELSE keys, key)

(* A move that owes its mover a removal keeps the keys; any other is quiet.*)
LEMMA MoveKeepsKeys ==
  ASSUME NEW s, Fresh(s), NEW o \in MillVariantOptions,
         NEW from \in Nodes, NEW to \in Nodes
  PROVE  LET moved == bump_ply_since_capture(move_live_piece(s, from, to), o)
             t == maybe_handle_stalemate(apply_move(s, o, from, to, TRUE), o)
         IN \/ t = maybe_handle_stalemate(move_quietly(moved, o, TRUE), o)
            \/ /\ t.action = "Remove" /\ t.side_to_move = s.side_to_move
               /\ Stays(moved, t) /\ t.key_history = moved.key_history
               /\ t.outcome_reason = "DrawThreefold" =>
                    moved.outcome_reason = "DrawThreefold"
<1> DEFINE c == s.side_to_move
           moved == bump_ply_since_capture(move_live_piece(s, from, to), o)
           t == maybe_handle_stalemate(apply_move(s, o, from, to, TRUE), o)
           custodian == IF o.custodian_capture.in_moving_phase
                          THEN detect_custodian_targets(moved, o, to) ELSE {}
           intervention == IF o.intervention_capture.in_moving_phase
                             THEN detect_intervention_targets(moved, o, to) ELSE {}
           leap == IF o.leap_capture.in_moving_phase
                     THEN detect_leap_targets(moved, o, from, to) ELSE {}
           lines == usable_mills(moved, o, formed_mills_at(moved, o, to, c))
           noisy == leap # {} \/ lines # {} \/ custodian \union intervention # {}
<1>1. noisy => /\ t.action = "Remove" /\ t.side_to_move = c /\ Stays(moved, t)
  BY MoveNotes
<1>2. (noisy /\ (leap # {} \/ lines = {})) => Recalls(moved, t)
  BY MoveNotes
<1>3. (leap = {} /\ lines # {}) =>
        \E m : /\ Recalls(moved, m)
               /\ Recalls(note_mill_formation(m, o, c, from, to, lines), t)
  BY MoveNotes
<1>4. ~noisy => t = maybe_handle_stalemate(move_quietly(moved, o, TRUE), o)
  BY MoveNotes
<1> HIDE DEF c, moved, t, lines, leap
<1>5. (leap = {} /\ lines # {}) =>
        /\ t.key_history = moved.key_history
        /\ t.outcome_reason = "DrawThreefold" => moved.outcome_reason = "DrawThreefold"
  <2> SUFFICES ASSUME leap = {}, lines # {}
               PROVE  /\ t.key_history = moved.key_history
                      /\ t.outcome_reason = "DrawThreefold" =>
                           moved.outcome_reason = "DrawThreefold"
    OBVIOUS
  <2>1. PICK m : /\ Recalls(moved, m)
                 /\ Recalls(note_mill_formation(m, o, c, from, to, lines), t)
    BY <1>3
  <2> DEFINE n == note_mill_formation(m, o, c, from, to, lines)
  <2>2. DOMAIN m = Fields /\ m.key_history = moved.key_history
        /\ (m.outcome_reason = "DrawThreefold" => moved.outcome_reason = "DrawThreefold")
    BY <2>1 DEF Recalls, Memory
  <2>3. Alters(m, n, {"last_mill_from", "last_mill_to", "formed_mills"})
    BY <2>2, NoteMemory
  <2>4. Recalls(n, t)
    BY <2>1
  <2> HIDE DEF n
  <2>5. n.key_history = m.key_history /\ n.outcome_reason = m.outcome_reason
    BY <2>3 DEF Alters, Fields
  <2> QED BY <2>2, <2>4, <2>5 DEF Recalls, Memory
<1>6. (noisy /\ (leap # {} \/ lines = {})) =>
        /\ t.key_history = moved.key_history
        /\ t.outcome_reason = "DrawThreefold" => moved.outcome_reason = "DrawThreefold"
  BY <1>2 DEF Recalls, Memory
<1> HIDE DEF noisy
<1>7. noisy => /\ t.key_history = moved.key_history
               /\ t.outcome_reason = "DrawThreefold" =>
                    moved.outcome_reason = "DrawThreefold"
  BY <1>5, <1>6
<1> QED BY <1>1, <1>4, <1>7 DEF c, moved, t

(* A move changes the board and no count.  Either its mover is to remove a *)
(* piece and the keys stay, or the position is recorded with the opponent  *)
(* to move and the draw declared at its third record.                      *)
LEMMA MoveRemembers ==
  ASSUME NEW s, NEW o \in MillVariantOptions, Good(s, o),
         NEW a \in legal_actions(s, o), a.kind = "Move",
         s.outcome_reason # "DrawThreefold"
  PROVE  LET t == apply_to_state(s, o, a, TRUE)
             key == Observation(s, t)
         IN /\ t.pieces_on_board = s.pieces_on_board
            /\ t.pieces_in_hand = s.pieces_in_hand
            /\ t.ply_since_capture = s.ply_since_capture + 1
            /\ t.board # s.board
            /\ t.outcome_reason = "DrawThreefold" =>
                 t.phase = "GameOver" /\ o.threefold_repetition_rule
            /\ \/ /\ t.action = "Remove" /\ t.side_to_move = s.side_to_move
                  /\ t.key_history = s.key_history
                  /\ t.outcome_reason # "DrawThreefold"
               \/ /\ ~(t.action = "Remove" /\ t.side_to_move = s.side_to_move)
                  /\ o.threefold_repetition_rule =>
                       /\ t.key_history = PushedKeys(s.key_history, key)
                       /\ t.outcome_reason = "DrawThreefold" <=>
                            Occurrences(t.key_history, key) >= 3
<1> DEFINE c == s.side_to_move
           moved == bump_ply_since_capture(move_live_piece(s, a.from, a.to), o)
           t == maybe_handle_stalemate(apply_move(s, o, a.from, a.to, TRUE), o)
           u == maybe_handle_stalemate(move_quietly(moved, o, TRUE), o)
<1>1. /\ Fresh(s) /\ MoveCounting(s, o) /\ c \in Sides
      /\ a.from \in piece_bitboard(s, c) /\ a.to \in empty_squares(s)
      /\ a.from \in Nodes /\ a.to \in Nodes /\ s.board \in [Nodes -> Sides \union {NONE}]
  BY LegalMove, OccupancyOnBoard DEF Good, Fresh, Live, MillStates
<1>2. apply_to_state(s, o, a, TRUE) = t
  BY DEF apply_to_state, apply_generally
<1>3. \/ t = u
      \/ /\ t.action = "Remove" /\ t.side_to_move = c
         /\ Stays(moved, t) /\ t.key_history = moved.key_history
         /\ t.outcome_reason = "DrawThreefold" => moved.outcome_reason = "DrawThreefold"
  BY <1>1, MoveKeepsKeys
<1> HIDE DEF t
<1>4. /\ Fresh(moved) /\ moved.side_to_move = c
      /\ Alters(s, moved, {"board", "ply_since_capture"})
      /\ moved.board = [s.board EXCEPT ![a.from] = NONE, ![a.to] = c]
      /\ moved.ply_since_capture = s.ply_since_capture + 1
  BY <1>1, MovedFresh
<1> HIDE DEF moved
<1>5. /\ moved.pieces_on_board = s.pieces_on_board
      /\ moved.pieces_in_hand = s.pieces_in_hand
      /\ moved.key_history = s.key_history
      /\ moved.outcome_reason # "DrawThreefold"
      /\ DOMAIN moved = Fields
  BY <1>4 DEF Alters, Fields
<1>6. moved.board # s.board
  <2>1. s.board[a.to] = NONE
    BY <1>1 DEF empty_squares, board_occupied
  <2>2. moved.board[a.to] = c
    BY <1>1, <1>4
  <2>3. c # NONE
    BY <1>1 DEF Sides, NONE
  <2> QED BY <2>1, <2>2, <2>3
<1>7. \A x : Stays(moved, x) =>
        /\ x.pieces_on_board = s.pieces_on_board
        /\ x.pieces_in_hand = s.pieces_in_hand
        /\ x.ply_since_capture = s.ply_since_capture + 1 /\ x.board # s.board
  BY <1>4, <1>5, <1>6 DEF Stays, BoardFields
<1>8. CASE t # u
  <2>1. /\ t.action = "Remove" /\ t.side_to_move = c
        /\ Stays(moved, t) /\ t.key_history = s.key_history
        /\ t.outcome_reason # "DrawThreefold"
    BY <1>3, <1>5, <1>8
  <2> QED BY <1>2, <1>7, <2>1 DEF c
<1>9. CASE t = u
  <2> DEFINE p == Passed(moved)
             k == push_key(p, o)
             key == repetition_signature(p)
  <2>1. /\ Stays(moved, u) /\ Stays(moved, p)
        /\ u.key_history = k.key_history
        /\ u.outcome_reason = "DrawThreefold" <=>
             /\ o.threefold_repetition_rule
             /\ Occurrences(k.key_history, key) >= 3
        /\ u.outcome_reason = "DrawThreefold" => u.phase = "GameOver"
        /\ ~(u.action = "Remove" /\ u.side_to_move = moved.side_to_move)
    BY <1>4, <1>5, QuietMoveRecorded
  <2>2. p.key_history = s.key_history /\ p.side_to_move = Opp(c) /\ DOMAIN p = Fields
    BY <1>4, <1>5, PassedEffect
  <2> HIDE DEF p, u
  <2>4. Observation(s, u) = key
    <3>1. DOMAIN u = Fields /\ u.board = p.board /\ u.marked = p.marked
      BY <2>1 DEF Stays, BoardFields
    <3> QED BY <2>2, <3>1, ObservationRead DEF repetition_signature
  <2>5. o.threefold_repetition_rule => k.key_history = PushedKeys(s.key_history, key)
    BY <2>2 DEF push_key, PushedKeys, Fields
  <2> HIDE DEF k, key
  <2>6. o.threefold_repetition_rule =>
          /\ u.key_history = PushedKeys(s.key_history, Observation(s, u))
          /\ u.outcome_reason = "DrawThreefold" <=>
               Occurrences(u.key_history, Observation(s, u)) >= 3
    BY <2>1, <2>4, <2>5
  <2> QED BY <1>2, <1>4, <1>7, <1>9, <2>1, <2>6 DEF c
<1> QED BY <1>8, <1>9

(* A move is made by a side that owes nothing; the n-move rule, in force,  *)
(* leaves fewer plies behind it than there is room for keys.               *)
LEMMA MovesAreBounded ==
  ASSUME NEW s, NEW o \in MillVariantOptions, Good(s, o),
         NEW a \in legal_actions(s, o), a.kind = "Move",
         o.n_move_rule \in 1..HistoryCap
  PROVE  /\ s.action # "Remove"
         /\ s.ply_since_capture \in Nat /\ s.ply_since_capture < HistoryCap
<1>1. Fresh(s) /\ Coherent(s) /\ Paced(s, o)
  BY LegalMove DEF Good
<1>2. /\ s.phase # "GameOver" /\ s.side_to_move \in Sides
      /\ s.pending_removals[s.side_to_move] = 0 /\ s.ply_since_capture \in Nat
  BY <1>1 DEF Fresh, Live, Clean, MillStates
<1>3. s.action # "Remove"
  BY <1>1, <1>2 DEF Coherent, Synced, synced_action
<1>4. /\ draw_threshold(s, o) > 0 /\ draw_threshold(s, o) <= o.n_move_rule
      /\ draw_threshold(s, o) \in Nat
  BY ThresholdNatural DEF draw_threshold, three_piece_endgame, MillVariantOptions
<1>5. ~Owes(s)
  BY <1>2 DEF Owes
<1> QED BY <1>1, <1>2, <1>3, <1>4, <1>5, BoardAssumption DEF Paced

(* Placing and removing forget the keys, and no count survives them.       *)
LEMMA OthersForget ==
  ASSUME NEW s, NEW o \in MillVariantOptions, Good(s, o),
         NEW a \in legal_actions(s, o), a.kind # "Move",
         s.outcome_reason # "DrawThreefold"
  PROVE  LET t == apply_to_state(s, o, a, TRUE)
         IN /\ t.key_history = << >> /\ t.pieces_on_board # s.pieces_on_board
            /\ t.outcome_reason # "DrawThreefold"
<1> DEFINE t == apply_to_state(s, o, a, TRUE)
           c == s.side_to_move
<1>1. /\ Live(s) /\ a.to \in Nodes /\ a.kind \in {"Place", "Remove"}
      /\ c \in Sides /\ s.pieces_on_board \in [Sides -> Int]
  BY LegalActionTyped DEF Good, Live, MillStates
<1>2. CASE a.kind = "Place"
  <2>1. /\ t.key_history = << >>
        /\ t.pieces_on_board = [s.pieces_on_board EXCEPT ![c] = @ + 1]
        /\ t.outcome_reason = "DrawThreefold" => s.outcome_reason = "DrawThreefold"
    BY <1>1, <1>2, PlaceForgets
  <2> HIDE DEF t
  <2>2. t.pieces_on_board[c] = s.pieces_on_board[c] + 1
    BY <1>1, <2>1
  <2>3. s.pieces_on_board[c] \in Int
    BY <1>1
  <2>4. t.pieces_on_board # s.pieces_on_board
    BY <2>2, <2>3
  <2> QED BY <2>1, <2>4 DEF t
<1>3. CASE a.kind = "Remove"
  <2>1. /\ t.key_history = << >>
        /\ t.outcome_reason = "DrawThreefold" => s.outcome_reason = "DrawThreefold"
        /\ \E target \in Sides :
             t.pieces_on_board[target] = s.pieces_on_board[target] - 1
    BY <1>3, RemoveForgets
  <2> HIDE DEF t
  <2>2. \A target \in Sides : s.pieces_on_board[target] \in Int
    BY <1>1
  <2>3. t.pieces_on_board # s.pieces_on_board
    BY <2>1, <2>2
  <2> QED BY <2>1, <2>3 DEF t
<1> QED BY <1>1, <1>2, <1>3

-----------------------------------------------------------------------------
(* The quiet steps since the last irreversible one *)

(* QuietSteps of the first n positions of a line.                          *)
QuietUntil(line, n) ==
  {i \in 2..n :
     /\ Quiet(line[i - 1], line[i])
     /\ \A j \in i..n : ~Irreversible(line[j - 1], line[j])}

FullKeys(line, n) == Recorded(line, QuietUntil(line, n))

LEMMA QuietIsFinite ==
  ASSUME NEW line, NEW n \in Nat
  PROVE  /\ QuietUntil(line, n) \in SUBSET (2..n)
         /\ QuietUntil(line, n) \in SUBSET Nat /\ IsFiniteSet(QuietUntil(line, n))
         /\ \A i \in QuietUntil(line, n) : i < n + 1
<1>1. QuietUntil(line, n) \in SUBSET (2..n)
  BY DEF QuietUntil
<1>2. IsFiniteSet(2..n)
  BY FS_Interval
<1>3. IsFiniteSet(QuietUntil(line, n))
  BY <1>1, <1>2, FS_Subset
<1> QED BY <1>1, <1>3

(* They are those of any line that begins with the same positions.         *)
LEMMA QuietOfPrefix ==
  ASSUME NEW line, NEW other, NEW n \in Nat,
         \A i \in 1..n : other[i] = line[i]
  PROVE  /\ QuietUntil(other, n) = QuietUntil(line, n)
         /\ \A i \in 2..n : ObservedAt(other, i) = ObservedAt(line, i)
         /\ FullKeys(other, n) = FullKeys(line, n)
<1>1. \A i \in 2..n : i - 1 \in 1..n /\ i \in 1..n
  OBVIOUS
<1>2. \A i \in 2..n : other[i] = line[i] /\ other[i - 1] = line[i - 1]
  BY <1>1
<1>3. \A i \in 2..n : ObservedAt(other, i) = ObservedAt(line, i)
  BY <1>2 DEF ObservedAt
<1>4. QuietUntil(other, n) = QuietUntil(line, n)
  <2>1. \A i \in 2..n : \A j \in i..n : j \in 2..n
    OBVIOUS
  <2> QED BY <1>2, <2>1 DEF QuietUntil
<1>5. FullKeys(other, n) = FullKeys(line, n)
  <2> DEFINE S == QuietUntil(line, n)
  <2>1. S \in SUBSET Nat /\ IsFiniteSet(S) /\ S \in SUBSET (2..n)
    BY QuietIsFinite
  <2>2. \A i \in S : ObservedAt(other, i) = ObservedAt(line, i)
    BY <1>3, <2>1
  <2> HIDE DEF S
  <2>3. Recorded(other, S) = Recorded(line, S)
    BY <2>1, <2>2, RecordedSame
  <2> QED BY <1>4, <2>3 DEF FullKeys, S
<1> QED BY <1>3, <1>4, <1>5

(* One step more: an irreversible one starts afresh, a quiet one is added. *)
LEMMA QuietGrows ==
  ASSUME NEW line, NEW n \in Nat \ {0}
  PROVE  QuietUntil(line, n + 1) =
           IF Irreversible(line[n], line[n + 1]) THEN {}
           ELSE IF Quiet(line[n], line[n + 1]) THEN QuietUntil(line, n) \union {n + 1}
           ELSE QuietUntil(line, n)
<1> DEFINE Q(i) == Quiet(line[i - 1], line[i])
           I(i) == Irreversible(line[i - 1], line[i])
           S == {i \in 2..n : Q(i) /\ \A j \in i..n : ~I(j)}
           T == {i \in 2..(n + 1) : Q(i) /\ \A j \in i..(n + 1) : ~I(j)}
<1>1. QuietUntil(line, n) = S /\ QuietUntil(line, n + 1) = T
  BY DEF QuietUntil
<1>2. (n + 1) - 1 = n /\ n + 1 \in 2..(n + 1) /\ n \in Nat
  OBVIOUS
<1>3. /\ Q(n + 1) <=> Quiet(line[n], line[n + 1])
      /\ I(n + 1) <=> Irreversible(line[n], line[n + 1])
  BY <1>2
<1>4. Q(n + 1) => ~I(n + 1)
  BY DEF Quiet
<1>5. /\ 2..(n + 1) = (2..n) \union {n + 1}
      /\ \A i \in 2..n : i..(n + 1) = (i..n) \union {n + 1}
      /\ (n + 1)..(n + 1) = {n + 1} /\ n + 1 \notin 2..n
  BY <1>2
<1> HIDE DEF Q, I
<1>6. T = IF I(n + 1) THEN {} ELSE IF Q(n + 1) THEN S \union {n + 1} ELSE S
  <2>1. CASE I(n + 1)
    <3>1. \A i \in 2..(n + 1) : n + 1 \in i..(n + 1)
      BY <1>2
    <3> QED BY <2>1, <3>1
  <2>2. CASE ~I(n + 1)
    <3>1. \A i \in 2..n : (i \in T) <=> (i \in S)
      BY <1>5, <2>2
    <3>2. (n + 1 \in T) <=> Q(n + 1)
      BY <1>2, <1>5, <2>2
    <3> QED BY <1>5, <2>2, <3>1, <3>2
  <2> QED BY <2>1, <2>2
<1> HIDE DEF S, T
<1> QED BY <1>1, <1>3, <1>6

(* What the keys of a snapshot say of the step that led to it: none after  *)
(* an irreversible one, a new one for the position just observed after a   *)
(* quiet one, the same ones when the mover is still to remove a piece.     *)
StepInv(p, s) ==
  /\ p.side_to_move \in Sides
  /\ Irreversible(p, s) => s.key_history = << >>
  /\ Quiet(p, s) => /\ s.key_history # << >> /\ s.key_history # p.key_history
                    /\ s.key_history[Len(s.key_history)] = Observation(p, s)
  /\ (~Irreversible(p, s) /\ ~Quiet(p, s)) => s.key_history = p.key_history

(* The record of the game up to a position: its snapshot carries the last  *)
(* keys of the full history, which never outgrows the plies since the last *)
(* capture nor the room there is for keys.                                 *)
RecordInv(line, i) ==
  LET s == line[i]
      keys == s.key_history
      full == FullKeys(line, i)
  IN /\ keys = LastKeys(full)
     /\ Len(full) <= s.ply_since_capture /\ Len(full) <= HistoryCap
     /\ (keys # << >> /\ s.action # "Remove") => keys[Len(keys)].board = s.board
     /\ (s.outcome_reason = "DrawThreefold") <=>
          /\ i \in QuietUntil(line, i)
          /\ Occurrences(full, ObservedAt(line, i)) >= 3
     /\ i > 1 => StepInv(line[i - 1], s)

PositionInv(line, i, o) ==
  /\ Good(line[i], o)
  /\ line[i].outcome_reason = "DrawThreefold" => line[i].phase = "GameOver"
  /\ o.threefold_repetition_rule => RecordInv(line, i)

(* It says nothing of what is played later.                                *)
LEMMA InvOfPrefix ==
  ASSUME NEW line, NEW other, NEW n \in Nat \ {0}, NEW o,
         \A i \in 1..n : other[i] = line[i], PositionInv(line, n, o)
  PROVE  PositionInv(other, n, o)
<1>1. /\ QuietUntil(other, n) = QuietUntil(line, n)
      /\ \A i \in 2..n : ObservedAt(other, i) = ObservedAt(line, i)
      /\ FullKeys(other, n) = FullKeys(line, n)
      /\ QuietUntil(line, n) \in SUBSET (2..n)
  <2>1. n \in Nat
    OBVIOUS
  <2> QED BY <2>1, QuietOfPrefix, QuietIsFinite
<1>2. other[n] = line[n] /\ (n > 1 => other[n - 1] = line[n - 1])
  BY SMT
<1>3. n \in QuietUntil(line, n) => ObservedAt(other, n) = ObservedAt(line, n)
  BY <1>1
<1> QED BY <1>1, <1>2, <1>3 DEF PositionInv, RecordInv

LEMMA ObservationTyped ==
  ASSUME NEW p, p.side_to_move \in Sides, NEW q \in MillStates
  PROVE  Observation(p, q) \in Signatures
<1>1. DOMAIN q = Fields /\ Opp(p.side_to_move) \in Sides
  BY FieldsOfState, OppIsSide
<1> QED BY <1>1, ObservationRead DEF Signatures, MillStates

(* The full history of a line of positions.                                *)
LEMMA FullKeysTyped ==
  ASSUME NEW line, NEW n \in Nat \ {0}, NEW o, o.threefold_repetition_rule,
         \A i \in 1..n : PositionInv(line, i, o)
  PROVE  /\ \A i \in QuietUntil(line, n) : ObservedAt(line, i) \in Signatures
         /\ FullKeys(line, n) \in Seq(Signatures)
         /\ Len(FullKeys(line, n)) = Cardinality(QuietUntil(line, n))
         /\ FullKeys(line, n) = << >> <=> QuietUntil(line, n) = {}
<1> DEFINE S == QuietUntil(line, n)
<1>1. S \in SUBSET (2..n) /\ S \in SUBSET Nat /\ IsFiniteSet(S)
  <2>1. n \in Nat
    OBVIOUS
  <2> QED BY <2>1, QuietIsFinite
<1>2. ASSUME NEW i \in S PROVE ObservedAt(line, i) \in Signatures
  <2>1. i \in 1..n /\ i > 1
    BY <1>1
  <2>2. line[i] \in MillStates /\ line[i - 1].side_to_move \in Sides
    BY <2>1 DEF PositionInv, RecordInv, StepInv, Good, Coherent
  <2> QED BY <2>2, ObservationTyped DEF ObservedAt
<1> HIDE DEF S
<1>3. /\ Recorded(line, S) \in Seq(Signatures)
      /\ Len(Recorded(line, S)) = Cardinality(S) /\ Cardinality(S) \in Nat
  BY <1>1, <1>2, RecordedShape
<1>4. Cardinality(S) = 0 <=> S = {}
  BY <1>1, FS_EmptySet
<1>5. \A q \in Seq(Signatures) : q = << >> <=> Len(q) = 0
  OBVIOUS
<1> QED BY <1>2, <1>3, <1>4, <1>5 DEF FullKeys, S

(* Scanning the snapshots backwards finds exactly the quiet steps since    *)
(* the last irreversible one.                                              *)
LEMMA ScanFindsQuiet ==
  ASSUME NEW line, NEW n \in Nat \ {0}, NEW o, o.threefold_repetition_rule,
         Len(line) = n, DOMAIN line = 1..n,
         \A i \in 1..n : PositionInv(line, i, o)
  PROVE  {i \in ScannedBack(line) : ObservesKey(line, i)} = QuietUntil(line, n)
<1>1. \A i \in 2..n : i \in 1..n /\ i - 1 \in 1..n /\ i > 1
  OBVIOUS
<1>2. \A i \in 2..n : StepInv(line[i - 1], line[i])
  BY <1>1 DEF PositionInv, RecordInv
<1>3. line[1].key_history = << >>
  <2>1. 1 \in 1..n
    OBVIOUS
  <2>2. QuietUntil(line, 1) = {}
    BY DEF QuietUntil
  <2>3. FullKeys(line, 1) = << >>
    BY <2>2, RecordedNothing DEF FullKeys
  <2>4. LastKeys(<< >>) = << >>
    <3>1. << >> \in Seq(Nat)
      OBVIOUS
    <3> QED BY <3>1, LastKeysShape
  <2> QED BY <2>1, <2>3, <2>4 DEF PositionInv, RecordInv
<1>4. ASSUME NEW i \in QuietUntil(line, n), NEW j \in i..n
      PROVE  line[j].key_history # << >>
  <2>1. i \in 2..n /\ j \in 1..n /\ j \in Nat \ {0} /\ i \in 2..j
    BY DEF QuietUntil
  <2>2. \A k \in i..j : k \in i..n
    BY <2>1
  <2>3. i \in QuietUntil(line, j)
    BY <2>1, <2>2 DEF QuietUntil
  <2>4. \A k \in 1..j : PositionInv(line, k, o)
    BY <2>1
  <2>5. FullKeys(line, j) \in Seq(Signatures) /\ FullKeys(line, j) # << >>
    BY <2>1, <2>3, <2>4, FullKeysTyped
  <2>6. LastKeys(FullKeys(line, j)) # << >>
    BY <2>5, LastKeysShape
  <2> QED BY <2>1, <2>6 DEF PositionInv, RecordInv
<1>5. \A p, s : ~Irreversible(p, s) => OnBoard(p) = OnBoard(s)
  BY DEF Irreversible, PiecesOf, OnBoard
<1>6. ASSUME NEW i \in QuietUntil(line, n)
      PROVE  i \in ScannedBack(line) /\ ObservesKey(line, i)
  <2>1. i \in 2..n /\ i \in 1..n /\ Quiet(line[i - 1], line[i])
        /\ \A j \in i..n : ~Irreversible(line[j - 1], line[j])
    BY DEF QuietUntil
  <2>2. i \in ScannedBack(line)
    BY <1>4, <1>5, <2>1 DEF ScannedBack
  <2>3. line[i - 1].key_history # line[i].key_history
    BY <1>2, <2>1 DEF StepInv
  <2> QED BY <2>2, <2>3 DEF ObservesKey
<1>7. ASSUME NEW i \in ScannedBack(line), ObservesKey(line, i)
      PROVE  i \in QuietUntil(line, n)
  <2>1. i \in 1..n /\ \A j \in i..n : line[j].key_history # << >>
    BY DEF ScannedBack
  <2>2. i # 1
    <3>1. i \in i..n
      BY <2>1
    <3> QED BY <1>3, <2>1, <3>1
  <2>3. i \in 2..n
    BY <2>1, <2>2
  <2>4. line[i - 1].key_history # line[i].key_history
    BY <1>7, <2>2 DEF ObservesKey
  <2>5. \A j \in i..n : ~Irreversible(line[j - 1], line[j])
    <3>1. \A j \in i..n : j \in 2..n
      BY <2>3
    <3> QED BY <1>2, <2>1, <3>1 DEF StepInv
  <2>6. Quiet(line[i - 1], line[i])
    <3>1. i \in i..n
      BY <2>3
    <3> QED BY <1>2, <2>3, <2>4, <2>5, <3>1 DEF StepInv
  <2> QED BY <2>3, <2>5, <2>6 DEF QuietUntil
<1> QED BY <1>6, <1>7

(* So what is rebuilt from the snapshots is the full history, whatever is  *)
(* left of it in each of them.                                             *)
LEMMA RebuiltIsFull ==
  ASSUME NEW past, NEW snap, NEW n \in Nat \ {0}, NEW o,
         o.threefold_repetition_rule,
         LET line == Append(past, snap)
         IN /\ Len(line) = n /\ DOMAIN line = 1..n /\ line[n] = snap
            /\ past = << >> => n = 1
            /\ \A i \in 1..n : PositionInv(line, i, o)
  PROVE  repetition_history_from_snapshots(snap, past) = FullKeys(Append(past, snap), n)
<1> DEFINE line == Append(past, snap)
           S == QuietUntil(line, n)
           f == Ascending(S)
           keys == [k \in DOMAIN f |-> Sq!Last(line[f[k]].key_history)]
<1>1. /\ Len(line) = n /\ DOMAIN line = 1..n /\ line[n] = snap
      /\ past = << >> => n = 1
      /\ \A i \in 1..n : PositionInv(line, i, o)
  OBVIOUS
<1>2. repetition_history_from_snapshots(snap, past) =
        IF past = << >> THEN snap.key_history
        ELSE IF Len(keys) <= HistoryCap THEN keys
        ELSE SubSeq(keys, Len(keys) - HistoryCap + 1, Len(keys))
  <2> HIDE DEF line
  <2>1. {i \in ScannedBack(line) : ObservesKey(line, i)} = S
    BY <1>1, ScanFindsQuiet
  <2> HIDE DEF S
  <2> QED BY <2>1 DEF repetition_history_from_snapshots, line
<1> HIDE DEF line
<1>3. /\ S \in SUBSET (2..n) /\ S \in SUBSET Nat /\ IsFiniteSet(S)
  <2>1. n \in Nat
    OBVIOUS
  <2> QED BY <2>1, QuietIsFinite
<1>4. /\ FullKeys(line, n) \in Seq(Signatures)
      /\ Len(FullKeys(line, n)) <= HistoryCap
      /\ snap.key_history = LastKeys(FullKeys(line, n))
  <2>1. n \in 1..n
    OBVIOUS
  <2> QED BY <1>1, <2>1, FullKeysTyped DEF PositionInv, RecordInv
<1>5. keys = FullKeys(line, n)
  <2>1. \A i \in S : Sq!Last(line[i].key_history) = ObservedAt(line, i)
    <3> SUFFICES ASSUME NEW i \in S
                 PROVE  Sq!Last(line[i].key_history) = ObservedAt(line, i)
      OBVIOUS
    <3>1. i \in 1..n /\ i > 1 /\ Quiet(line[i - 1], line[i])
      BY <1>3 DEF QuietUntil
    <3>2. line[i].key_history[Len(line[i].key_history)] = ObservedAt(line, i)
      BY <1>1, <3>1 DEF PositionInv, RecordInv, StepInv, ObservedAt
    <3> QED BY <3>2 DEF Sq!Last
  <2> HIDE DEF S
  <2>2. DOMAIN f = 1..Cardinality(S) /\ \A k \in 1..Cardinality(S) : f[k] \in S
    BY <1>3, AscendingLists
  <2> HIDE DEF f
  <2>3. keys = [k \in 1..Cardinality(S) |-> ObservedAt(line, f[k])]
    BY <2>1, <2>2
  <2> QED BY <2>3 DEF FullKeys, Recorded, f, S
<1> HIDE DEF keys
<1>6. CASE past # << >>
  BY <1>2, <1>4, <1>5, <1>6 DEF line
<1>7. CASE past = << >>
  <2>1. n = 1 /\ QuietUntil(line, 1) = {}
    BY <1>1, <1>7 DEF QuietUntil
  <2>2. FullKeys(line, n) = << >>
    BY <2>1, RecordedNothing DEF FullKeys
  <2>3. LastKeys(<< >>) = << >>
    <3>1. << >> \in Seq(Nat)
      OBVIOUS
    <3> QED BY <3>1, LastKeysShape
  <2> QED BY <1>2, <1>4, <1>7, <2>2, <2>3 DEF line
<1> QED BY <1>6, <1>7

-----------------------------------------------------------------------------
(* Playing on *)

(* The position a move is applied to: the snapshot with its full history.  *)
LEMMA HydratedIsFull ==
  ASSUME NEW past, NEW snap, NEW n \in Nat \ {0}, options \in MillVariantOptions,
         LET line == Append(past, snap)
         IN /\ Len(line) = n /\ DOMAIN line = 1..n /\ line[n] = snap
            /\ past = << >> => n = 1
            /\ \A i \in 1..n : PositionInv(line, i, options)
  PROVE  \E keys \in Seq(Signatures) :
           /\ hydrate_repetition_history_from_snapshots(snap, past)
                = [snap EXCEPT !.key_history = keys]
           /\ options.threefold_repetition_rule =>
                keys = FullKeys(Append(past, snap), n)
<1> DEFINE line == Append(past, snap)
           full == FullKeys(line, n)
           h == hydrate_repetition_history_from_snapshots(snap, past)
<1>0. \A i \in 1..n : PositionInv(line, i, options)
  OBVIOUS
<1>1. snap \in MillStates /\ snap.key_history \in Seq(Signatures)
      /\ PositionInv(line, n, options) /\ line[n] = snap
  <2>1. n \in 1..n
    OBVIOUS
  <2>2. PositionInv(line, n, options) /\ line[n] = snap
    BY <2>1
  <2> HIDE DEF line
  <2> QED BY <2>2 DEF PositionInv, Good, Coherent, MillStates
<1>2. [snap EXCEPT !.key_history = snap.key_history] = snap
  BY <1>1, RecordUnchanged
<1>3. CASE ~options.threefold_repetition_rule
  <2>1. h = snap
    BY <1>3 DEF hydrate_repetition_history_from_snapshots
  <2> QED BY <1>1, <1>2, <1>3, <2>1
<1>4. CASE options.threefold_repetition_rule
  <2>1. repetition_history_from_snapshots(snap, past) = full
    BY <1>4, RebuiltIsFull
  <2>2. full \in Seq(Signatures) /\ snap.key_history = LastKeys(full)
    <3> HIDE DEF line
    <3>1. full \in Seq(Signatures)
      BY <1>0, <1>4, FullKeysTyped
    <3> QED BY <1>1, <1>4, <3>1 DEF PositionInv, RecordInv
  <2> HIDE DEF full, line
  <2>3. h = IF Len(full) > Len(snap.key_history)
              THEN [snap EXCEPT !.key_history = full] ELSE snap
    BY <1>4, <2>1 DEF hydrate_repetition_history_from_snapshots
  <2>4. CASE Len(full) > Len(snap.key_history)
    BY <1>4, <2>2, <2>3, <2>4 DEF full, line
  <2>5. CASE ~(Len(full) > Len(snap.key_history))
    <3>1. Len(full) <= SnapshotWindow
      <4>1. /\ Len(full) \in Nat /\ SnapshotWindow \in Nat
            /\ Len(snap.key_history) = IF Len(full) <= SnapshotWindow
                                         THEN Len(full) ELSE SnapshotWindow
        BY <2>2, LastKeysShape, KernelAssumption
      <4> QED BY <2>5, <4>1
    <3>2. snap.key_history = full
      BY <2>2, <3>1 DEF LastKeys
    <3> QED BY <1>2, <1>4, <2>2, <2>3, <2>5, <3>2 DEF full, line
  <2> QED BY <2>4, <2>5
<1> QED BY <1>3, <1>4

(* A position with other keys.                                             *)
Rekeyed(s, keys) == [s EXCEPT !.key_history = keys]

(* A legal action extends the record as the observer does.                 *)
LEMMA StepExtendsRecord ==
  ASSUME NEW line, NEW n \in Nat \ {0}, NEW o \in MillVariantOptions,
         o.threefold_repetition_rule => o.n_move_rule \in 1..HistoryCap,
         \A i \in 1..n : PositionInv(line, i, o),
         NEW K \in Seq(Signatures),
         o.threefold_repetition_rule => K = FullKeys(line, n),
         NEW a \in legal_actions(line[n], o),
         line[n + 1] = encode(apply_to_state(Rekeyed(line[n], K), o, a, TRUE))
  PROVE  PositionInv(line, n + 1, o)
<1> DEFINE s == line[n]
           h == Rekeyed(s, K)
           t == apply_to_state(h, o, a, TRUE)
           q == line[n + 1]
           key == Observation(s, q)
<1>1. /\ PositionInv(line, n, o) /\ Good(s, o) /\ Live(s) /\ s.phase # "GameOver"
      /\ s.outcome_reason # "DrawThreefold" /\ s.side_to_move \in Sides
      /\ s \in MillStates /\ n \in Nat /\ s.ply_since_capture \in Nat
  <2>1. n \in 1..n
    OBVIOUS
  <2>2. PositionInv(line, n, o) /\ Coherent(s)
    BY <2>1 DEF PositionInv, Good
  <2>3. Live(s) /\ s.phase # "GameOver"
    BY <2>2, LegalActionTyped
  <2> QED BY <2>2, <2>3 DEF PositionInv, Live, MillStates
<1>2. /\ Good(h, o) /\ Alters(s, h, {"key_history"}) /\ h.key_history = K
      /\ a \in legal_actions(h, o)
  BY <1>1, GoodWhateverKeys DEF Rekeyed
<1> HIDE DEF h
<1>3. /\ h.outcome_reason = s.outcome_reason /\ h.side_to_move = s.side_to_move
      /\ h.board = s.board /\ h.marked = s.marked /\ h.action = s.action
      /\ h.pieces_on_board = s.pieces_on_board
      /\ h.pieces_in_hand = s.pieces_in_hand
      /\ h.ply_since_capture = s.ply_since_capture
  BY <1>2 DEF Alters, Fields
<1>4. Good(t, o)
  <2>1. a.kind \in {"Place", "Move", "Remove"}
    BY <1>2, LegalActionTyped DEF Good
  <2> QED BY <1>2, <2>1, PlaceGood, MoveGood, RemoveGood
<1>5. a.kind = "Move" =>
        /\ t.pieces_on_board = h.pieces_on_board
        /\ t.pieces_in_hand = h.pieces_in_hand
        /\ t.ply_since_capture = h.ply_since_capture + 1
        /\ t.board # h.board
        /\ t.outcome_reason = "DrawThreefold" =>
             t.phase = "GameOver" /\ o.threefold_repetition_rule
        /\ \/ /\ t.action = "Remove" /\ t.side_to_move = h.side_to_move
              /\ t.key_history = h.key_history
              /\ t.outcome_reason # "DrawThreefold"
           \/ /\ ~(t.action = "Remove" /\ t.side_to_move = h.side_to_move)
              /\ o.threefold_repetition_rule =>
                   /\ t.key_history = PushedKeys(h.key_history, Observation(h, t))
                   /\ t.outcome_reason = "DrawThreefold" <=>
                        Occurrences(t.key_history, Observation(h, t)) >= 3
  <2>1. h.outcome_reason # "DrawThreefold"
    BY <1>1, <1>3
  <2> QED BY <1>2, <2>1, MoveRemembers
<1>6. a.kind # "Move" =>
        /\ t.key_history = << >> /\ t.pieces_on_board # h.pieces_on_board
        /\ t.outcome_reason # "DrawThreefold"
  <2>1. h.outcome_reason # "DrawThreefold"
    BY <1>1, <1>3
  <2> QED BY <1>2, <2>1, OthersForget
<1> HIDE DEF t
<1>7. /\ t.key_history \in Seq(Signatures) /\ LastKeys(t.key_history) \in Seq(Signatures)
      /\ t \in MillStates /\ DOMAIN t = Fields
  <2>1. t.key_history \in Seq(Signatures) /\ t \in MillStates
    BY <1>4 DEF Good, Coherent, MillStates
  <2> QED BY <2>1, LastKeysShape, FieldsOfState
<1>8. /\ Good(q, o) /\ Alters(t, q, {"key_history"})
      /\ q.key_history = LastKeys(t.key_history)
  <2>1. q = [t EXCEPT !.key_history = LastKeys(t.key_history)]
    BY DEF encode, t, h
  <2> DEFINE keys == LastKeys(t.key_history)
  <2>2. keys \in Seq(Signatures)
    BY <1>7
  <2> HIDE DEF keys
  <2>3. /\ Good([t EXCEPT !.key_history = keys], o)
        /\ Alters(t, [t EXCEPT !.key_history = keys], {"key_history"})
        /\ [t EXCEPT !.key_history = keys].key_history = keys
    BY <1>4, <2>2, GoodWhateverKeys
  <2> QED BY <2>1, <2>3 DEF keys
<1>9. /\ q.outcome_reason = t.outcome_reason /\ q.side_to_move = t.side_to_move
      /\ q.board = t.board /\ q.marked = t.marked /\ q.action = t.action
      /\ q.pieces_on_board = t.pieces_on_board /\ q.phase = t.phase
      /\ q.pieces_in_hand = t.pieces_in_hand
      /\ q.ply_since_capture = t.ply_since_capture
      /\ q \in MillStates /\ DOMAIN q = Fields /\ q.ply_since_capture \in Nat
  <2>1. q \in MillStates
    BY <1>8 DEF Good, Coherent
  <2> HIDE DEF q
  <2>2. DOMAIN q = Fields /\ q.ply_since_capture \in Nat
    BY <2>1, FieldsOfState DEF MillStates
  <2> QED BY <1>8, <2>1, <2>2 DEF Alters, Fields
<1>10. Observation(h, t) = key /\ key.board = q.board /\ key \in Signatures
  <2>1. key = [board |-> q.board, marked |-> q.marked,
               side_to_move |-> Opp(s.side_to_move)]
    BY <1>9, ObservationRead
  <2>2. Observation(h, t) = [board |-> t.board, marked |-> t.marked,
                             side_to_move |-> Opp(h.side_to_move)]
    BY <1>7, ObservationRead
  <2>3. key \in Signatures
    BY <1>1, <1>9, ObservationTyped
  <2> HIDE DEF key, q
  <2>4. Observation(h, t) = key
    BY <1>3, <1>9, <2>1, <2>2
  <2>5. key.board = q.board
    BY <2>1
  <2> QED BY <2>3, <2>4, <2>5
<1>11. ObservedAt(line, n + 1) = key
  <2>1. (n + 1) - 1 = n
    BY <1>1
  <2> QED BY <2>1 DEF ObservedAt
<1>12. /\ Irreversible(s, q) <=> a.kind # "Move"
       /\ Quiet(s, q) <=> /\ a.kind = "Move"
                          /\ ~(t.action = "Remove" /\ t.side_to_move = s.side_to_move)
  <2> HIDE DEF q
  <2>1. CASE a.kind = "Move"
    <3>1. /\ q.pieces_on_board = s.pieces_on_board
          /\ q.pieces_in_hand = s.pieces_in_hand /\ q.board # s.board
      BY <1>3, <1>5, <1>9, <2>1
    <3>2. ~Irreversible(s, q)
      BY <3>1 DEF Irreversible, PiecesOf
    <3> QED BY <1>9, <2>1, <3>1, <3>2 DEF Quiet
  <2>2. CASE a.kind # "Move"
    <3>1. q.pieces_on_board # s.pieces_on_board
      BY <1>3, <1>6, <1>9, <2>2
    <3>2. Irreversible(s, q)
      BY <3>1 DEF Irreversible, PiecesOf
    <3> QED BY <2>2, <3>2 DEF Quiet
  <2> QED BY <2>1, <2>2
<1>13. QuietUntil(line, n + 1) =
         IF Irreversible(s, q) THEN {}
         ELSE IF Quiet(s, q) THEN QuietUntil(line, n) \union {n + 1}
         ELSE QuietUntil(line, n)
  BY QuietGrows
<1>14. /\ QuietUntil(line, n) \in SUBSET Nat /\ IsFiniteSet(QuietUntil(line, n))
       /\ \A i \in QuietUntil(line, n) : i < n + 1
  BY <1>1, QuietIsFinite
<1> HIDE DEF q, key
<1>15. q.outcome_reason = "DrawThreefold" => q.phase = "GameOver"
  BY <1>5, <1>6, <1>9
<1>16. ASSUME o.threefold_repetition_rule PROVE RecordInv(line, n + 1)
  <2> DEFINE full == FullKeys(line, n + 1)
  <2>1. /\ K = FullKeys(line, n) /\ s.key_history = LastKeys(K)
        /\ Len(K) <= s.ply_since_capture /\ Len(K) <= HistoryCap /\ Len(K) \in Nat
        /\ (s.key_history # << >> /\ s.action # "Remove") =>
             s.key_history[Len(s.key_history)].board = s.board
        /\ HistoryCap \in Nat \ {0}
    BY <1>1, <1>16, BoardAssumption DEF PositionInv, RecordInv
  <2>2. /\ n + 1 > 1 /\ line[(n + 1) - 1] = s /\ line[n + 1] = q
    BY <1>1 DEF q
  <2>3. CASE a.kind # "Move"
    <3>1. QuietUntil(line, n + 1) = {} /\ full = << >>
      BY <1>12, <1>13, <2>3, RecordedNothing DEF FullKeys
    <3>2. q.key_history = << >>
      <4>1. << >> \in Seq(Nat)
        OBVIOUS
      <4> QED BY <1>6, <1>8, <2>3, <4>1, LastKeysShape
    <3>3. LastKeys(<< >>) = << >> /\ Len(<< >>) = 0
      <4>1. << >> \in Seq(Nat)
        OBVIOUS
      <4> QED BY <4>1, LastKeysShape
    <3>4. StepInv(s, q)
      BY <1>1, <1>12, <2>3, <3>2 DEF StepInv
    <3>5. q.outcome_reason # "DrawThreefold"
      BY <1>6, <1>9, <2>3
    <3>6. /\ FullKeys(line, n + 1) = << >> /\ n + 1 \notin QuietUntil(line, n + 1)
          /\ 0 <= q.ply_since_capture /\ 0 <= HistoryCap
      BY <1>9, <2>1, <3>1
    <3> QED BY <2>2, <3>2, <3>3, <3>4, <3>5, <3>6 DEF RecordInv
  <2>4. CASE a.kind = "Move" /\ t.action = "Remove" /\ t.side_to_move = s.side_to_move
    <3>1. QuietUntil(line, n + 1) = QuietUntil(line, n) /\ full = K
      BY <1>12, <1>13, <2>1, <2>4 DEF FullKeys
    <3>2. /\ q.key_history = s.key_history /\ q.action = "Remove"
          /\ q.outcome_reason # "DrawThreefold"
          /\ q.ply_since_capture = s.ply_since_capture + 1
      <4>1. /\ t.key_history = K /\ t.outcome_reason # "DrawThreefold"
            /\ t.ply_since_capture = s.ply_since_capture + 1
        BY <1>2, <1>3, <1>5, <2>4
      <4> QED BY <1>8, <1>9, <2>1, <2>4, <4>1
    <3>3. StepInv(s, q)
      BY <1>1, <1>12, <2>4, <3>2 DEF StepInv
    <3>4. n + 1 \notin QuietUntil(line, n + 1)
      BY <1>1, <1>14, <3>1
    <3>5. Len(K) <= q.ply_since_capture
      BY <1>1, <2>1, <3>2
    <3> QED BY <2>1, <2>2, <3>1, <3>2, <3>3, <3>4, <3>5 DEF RecordInv
  <2>5. CASE a.kind = "Move" /\ ~(t.action = "Remove" /\ t.side_to_move = s.side_to_move)
    <3>1. s.action # "Remove" /\ s.ply_since_capture < HistoryCap
      BY <1>1, <1>16, <2>5, MovesAreBounded
    <3>2. PushedKeys(K, key) = Append(K, key)
      BY <1>1, <2>1, <3>1 DEF PushedKeys
    <3>3. /\ QuietUntil(line, n + 1) = QuietUntil(line, n) \union {n + 1}
          /\ n + 1 \in QuietUntil(line, n + 1)
      BY <1>12, <1>13, <2>5
    <3>4. full = Append(K, key)
      <4>1. \A i \in QuietUntil(line, n) : ObservedAt(line, i) \in Signatures
        BY <1>16, FullKeysTyped
      <4>2. \A i \in QuietUntil(line, n) \union {n + 1} :
              ObservedAt(line, i) \in Signatures
        BY <1>10, <1>11, <4>1
      <4>3. n + 1 \in Nat
        BY <1>1
      <4>4. Recorded(line, QuietUntil(line, n) \union {n + 1})
              = Append(Recorded(line, QuietUntil(line, n)), ObservedAt(line, n + 1))
        BY <1>14, <4>2, <4>3, RecordedGrows
      <4> QED BY <1>11, <2>1, <3>3, <4>4 DEF FullKeys
    <3>5. t.key_history = full /\ q.key_history = LastKeys(full)
      <4>1. t.key_history = PushedKeys(K, key)
        BY <1>2, <1>3, <1>5, <1>10, <1>16, <2>5
      <4> QED BY <1>8, <3>2, <3>4, <4>1
    <3>6. /\ full \in Seq(Signatures) /\ full # << >>
          /\ Len(full) = Len(K) + 1 /\ full[Len(full)] = key
      BY <1>10, <3>4
    <3> HIDE DEF full
    <3>7. /\ q.key_history # << >>
          /\ q.key_history[Len(q.key_history)] = key
      BY <3>5, <3>6, LastKeysShape
    <3>8. q.ply_since_capture = s.ply_since_capture + 1 /\ q.board # s.board
      BY <1>3, <1>5, <1>9, <2>5
    <3>9. q.key_history # s.key_history
      BY <1>10, <2>1, <3>1, <3>7, <3>8
    <3>10. StepInv(s, q)
      BY <1>1, <1>12, <2>5, <3>7, <3>9 DEF StepInv, key
    <3>11. Len(full) <= q.ply_since_capture /\ Len(full) <= HistoryCap
      BY <1>1, <2>1, <3>1, <3>6, <3>8
    <3>12. (q.outcome_reason = "DrawThreefold") <=> Occurrences(full, key) >= 3
      <4>1. t.outcome_reason = "DrawThreefold" <=>
              Occurrences(t.key_history, Observation(h, t)) >= 3
        BY <1>3, <1>5, <1>16, <2>5
      <4>2. Occurrences(t.key_history, Observation(h, t)) = Occurrences(full, key)
        BY <1>10, <3>5
      <4> QED BY <1>9, <4>1, <4>2
    <3> QED BY <1>10, <1>11, <2>2, <3>3, <3>5, <3>7, <3>10, <3>11, <3>12
            DEF RecordInv, full
  <2> QED BY <2>3, <2>4, <2>5
<1> QED BY <1>8, <1>15, <1>16 DEF PositionInv, q

-----------------------------------------------------------------------------
(* The game *)

(* What is set up is a position of the rules from which nothing was played.*)
SetupsArePositions ==
  \A o \in Variants : \A s \in SetupPositions :
    Good(s, o) /\ s.key_history = << >> /\ s.outcome_reason # "DrawThreefold"

(* The n-move rule ends a game before its keys outgrow their buffer.       *)
RepetitionFits ==
  \A o \in Variants : o.threefold_repetition_rule => o.n_move_rule \in 1..HistoryCap

(* The inductive invariant: every position of the line, those undone       *)
(* included, carries its record.                                           *)
KernelInv ==
  /\ options \in Variants
  /\ StacksInv
  /\ \A i \in 1..(Len(history) + 1 + Len(redo_stack)) : PositionInv(Line, i, options)

(* What has been played is the beginning of the line.                      *)
LEMMA PlayedShape ==
  ASSUME StacksInv
  PROVE  /\ Len(history) \in Nat /\ Len(Played) = Len(history) + 1
         /\ IsStack(Played) /\ DOMAIN Played = 1..(Len(history) + 1)
         /\ Played[Len(history) + 1] = state
         /\ history = << >> => Len(history) + 1 = 1
         /\ Len(redo_stack) \in Nat
         /\ \A i \in 1..(Len(history) + 1) : Played[i] = Line[i]
<1>1. /\ IsStack(history) /\ IsStack(redo_stack)
      /\ Len(history) \in Nat /\ Len(redo_stack) \in Nat
      /\ history = << >> <=> Len(history) = 0
  BY StackShape DEF StacksInv
<1>2. /\ IsStack(Played) /\ Len(Played) = Len(history) + 1
      /\ \A i \in 1..Len(history) : Played[i] = history[i]
      /\ Played[Len(history) + 1] = state
  BY <1>1, Push DEF Played
<1>3. DOMAIN Played = 1..(Len(history) + 1)
  BY <1>2, StackShape
<1>4. \A i \in 1..(Len(history) + 1 + Len(redo_stack)) :
        Line[i] = LineAt(history, state, redo_stack, i)
  BY <1>1, LineLength DEF Line
<1>5. ASSUME NEW i \in 1..(Len(history) + 1) PROVE Played[i] = Line[i]
  <2>1. i \in 1..(Len(history) + 1 + Len(redo_stack)) /\ i \in Nat
    BY <1>1
  <2>2. Line[i] = LineAt(history, state, redo_stack, i)
    BY <1>4, <2>1
  <2>3. CASE i <= Len(history)
    BY <1>1, <1>2, <2>2, <2>3 DEF LineAt
  <2>4. CASE i = Len(history) + 1
    BY <1>1, <1>2, <2>2, <2>4 DEF LineAt
  <2> QED BY <1>1, <2>3, <2>4
<1> QED BY <1>1, <1>2, <1>3, <1>5

LEMMA PlayedInv ==
  ASSUME KernelInv
  PROVE  \A i \in 1..(Len(history) + 1) : PositionInv(Played, i, options)
<1>1. StacksInv
  BY DEF KernelInv
<1> SUFFICES ASSUME NEW i \in 1..(Len(history) + 1)
             PROVE  PositionInv(Played, i, options)
  OBVIOUS
<1>2. /\ i \in Nat \ {0} /\ i \in 1..(Len(history) + 1 + Len(redo_stack))
      /\ \A j \in 1..i : j \in 1..(Len(history) + 1)
  BY <1>1, PlayedShape
<1>3. \A j \in 1..i : Played[j] = Line[j]
  BY <1>1, <1>2, PlayedShape
<1>4. PositionInv(Line, i, options)
  BY <1>2 DEF KernelInv
<1> QED BY <1>2, <1>3, <1>4, InvOfPrefix

(* A game that has just begun has nothing recorded.                        *)
LEMMA BeginningInv ==
  ASSUME NEW o, NEW s, Good(s, o), s.key_history = << >>,
         s.outcome_reason # "DrawThreefold",
         NEW line, line[1] = s
  PROVE  PositionInv(line, 1, o)
<1>1. QuietUntil(line, 1) = {}
  BY DEF QuietUntil
<1>2. FullKeys(line, 1) = << >>
  BY <1>1, RecordedNothing DEF FullKeys
<1>3. LastKeys(<< >>) = << >> /\ Len(<< >>) = 0
  <2>1. << >> \in Seq(Nat)
    OBVIOUS
  <2> QED BY <2>1, LastKeysShape
<1>4. s.ply_since_capture \in Nat /\ HistoryCap \in Nat
  BY BoardAssumption DEF Good, Coherent, MillStates
<1> QED BY <1>1, <1>2, <1>3, <1>4 DEF PositionInv, RecordInv

(* Playing extends it, whatever the undo stack has kept of the keys.       *)
LEMMA PlayExtends ==
  ASSUME options \in MillVariantOptions,
         options.threefold_repetition_rule => options.n_move_rule \in 1..HistoryCap,
         NEW n \in Nat \ {0},
         Len(Played) = n, DOMAIN Played = 1..n, Played[n] = state,
         history = << >> => n = 1,
         \A i \in 1..n : PositionInv(Played, i, options),
         NEW a \in legal_actions(state, options),
         NEW line, \A i \in 1..n : line[i] = Played[i],
         line[n + 1] = apply_with_history(state, a, history)
  PROVE  \A i \in 1..(n + 1) : PositionInv(line, i, options)
<1>1. PICK K \in Seq(Signatures) :
        /\ hydrate_repetition_history_from_snapshots(state, history)
             = Rekeyed(state, K)
        /\ options.threefold_repetition_rule => K = FullKeys(Played, n)
  BY HydratedIsFull DEF Played, Rekeyed
<1>2. n \in Nat /\ n \in 1..n
  OBVIOUS
<1>3. FullKeys(line, n) = FullKeys(Played, n)
  BY <1>2, QuietOfPrefix
<1>4. ASSUME NEW i \in 1..n PROVE PositionInv(line, i, options)
  <2>1. i \in Nat \ {0} /\ \A j \in 1..i : line[j] = Played[j]
    OBVIOUS
  <2>2. PositionInv(Played, i, options)
    OBVIOUS
  <2> QED BY <2>1, <2>2, InvOfPrefix
<1>5. line[n] = state
  BY <1>2
<1>6. line[n + 1] = encode(apply_to_state(Rekeyed(line[n], K), options, a, TRUE))
  BY <1>1, <1>5 DEF apply_with_history
<1>7. PositionInv(line, n + 1, options)
  BY <1>1, <1>3, <1>4, <1>5, <1>6, StepExtendsRecord
<1> QED BY <1>4, <1>7

(* The positions of a line are those of the game that led to it.           *)
LEMMA InvIsPreserved ==
  ASSUME SetupsArePositions, RepetitionFits, KernelInv, [KernelNext]_kvars
  PROVE  KernelInv'
<1>1. /\ options \in Variants /\ StacksInv /\ options \in MillVariantOptions
      /\ options.piece_count > 0
      /\ options.threefold_repetition_rule => options.n_move_rule \in 1..HistoryCap
      /\ Len(history) \in Nat
  BY PlayedShape, VariantsAssumption DEF KernelInv, RepetitionFits
<1>2. StacksInv'
  BY <1>1, StacksArePreserved
<1>3. CASE UNCHANGED kvars
  BY <1>3 DEF kvars, KernelInv, StacksInv, Line
<1>4. CASE KernelNext
  <2>1. options' = options
    BY <1>4 DEF KernelNext
  <2>2. CASE apply
    <3>1. PICK a \in legal_actions(state, options) :
            /\ state' = apply_with_history(state, a, history)
            /\ history' = Played /\ redo_stack' = << >>
      BY <2>2 DEF apply, Played
    <3> DEFINE n == Len(history) + 1
               line == Line'
    <3>2. line = LineOf(Played, state', << >>)
      BY <3>1 DEF Line
    <3>3. /\ n \in Nat \ {0} /\ Len(Played) = n /\ DOMAIN Played = 1..n
          /\ Played[n] = state /\ IsStack(Played)
          /\ history = << >> => n = 1
          /\ \A i \in 1..n : PositionInv(Played, i, options)
      BY <1>1, PlayedShape, PlayedInv
    <3>4. IsStack(<< >>) /\ Len(<< >>) = 0
      BY Push
    <3> HIDE DEF n, line
    <3>5. \A i \in 1..(n + 1) : line[i] = LineAt(Played, state', << >>, i)
      <4>1. \A i \in 1..(Len(Played) + 1 + Len(<< >>)) :
              line[i] = LineAt(Played, state', << >>, i)
        BY <3>2, <3>3, <3>4, LineLength
      <4>2. Len(Played) + 1 + Len(<< >>) = n + 1
        BY <3>3, <3>4
      <4> QED BY <4>1, <4>2
    <3>6. /\ \A i \in 1..n : line[i] = Played[i]
          /\ line[n + 1] = apply_with_history(state, a, history)
      BY <3>1, <3>3, <3>5 DEF LineAt
    <3>7. \A i \in 1..(n + 1) : PositionInv(line, i, options)
      BY <1>1, <3>3, <3>6, PlayExtends
    <3>8. Len(history') + 1 + Len(redo_stack') = n + 1
      BY <3>1, <3>3, <3>4
    <3> QED BY <1>1, <1>2, <2>1, <3>7, <3>8 DEF KernelInv, line
  <2>3. CASE undo
    <3>1. /\ history # << >> /\ state' = Sq!Last(history)
          /\ history' = Sq!Front(history) /\ redo_stack' = Append(redo_stack, state)
          /\ IsStack(history) /\ IsStack(redo_stack)
      BY <1>1, <2>3 DEF undo, StacksInv
    <3>2. Line' = Line
      BY <3>1, CursorBack DEF Line
    <3>3. Len(history') + 1 + Len(redo_stack') = Len(history) + 1 + Len(redo_stack)
      <4>1. Len(history') = Len(history) - 1 /\ Len(history) \in Nat
        BY <3>1, Pop
      <4>2. Len(redo_stack') = Len(redo_stack) + 1 /\ Len(redo_stack) \in Nat
        BY <3>1, Push, StackShape
      <4> QED BY <4>1, <4>2
    <3> QED BY <1>1, <1>2, <2>1, <3>2, <3>3 DEF KernelInv
  <2>4. CASE redo
    <3>1. /\ redo_stack # << >> /\ state' = Sq!Last(redo_stack)
          /\ redo_stack' = Sq!Front(redo_stack) /\ history' = Append(history, state)
          /\ IsStack(history) /\ IsStack(redo_stack)
      BY <1>1, <2>4 DEF redo, StacksInv
    <3>2. Line' = Line
      BY <3>1, CursorForward DEF Line
    <3>3. Len(history') + 1 + Len(redo_stack') = Len(history) + 1 + Len(redo_stack)
      <4>1. Len(redo_stack') = Len(redo_stack) - 1 /\ Len(redo_stack) \in Nat
        BY <3>1, Pop
      <4>2. Len(history') = Len(history) + 1 /\ Len(history) \in Nat
        BY <3>1, Push, StackShape
      <4> QED BY <4>1, <4>2
    <3> QED BY <1>1, <1>2, <2>1, <3>2, <3>3 DEF KernelInv
  <2>5. ASSUME NEW snapshot, start_from(snapshot), Good(snapshot, options),
               snapshot.key_history = << >>, snapshot.outcome_reason # "DrawThreefold"
        PROVE  KernelInv'
    <3>1. Line' = LineOf(<< >>, snapshot, << >>)
          /\ history' = << >> /\ redo_stack' = << >>
      BY <2>5 DEF start_from, Line
    <3>2. IsStack(<< >>) /\ Len(<< >>) = 0
      BY Push
    <3>3. LineOf(<< >>, snapshot, << >>)[1] = snapshot
      BY <3>2, LineLength DEF LineAt
    <3>4. PositionInv(Line', 1, options)
      BY <2>5, <3>1, <3>3, BeginningInv
    <3>5. Len(history') + 1 + Len(redo_stack') = 1
      BY <3>1, <3>2
    <3> QED BY <1>1, <1>2, <2>1, <3>4, <3>5 DEF KernelInv
  <2>6. CASE reset
    <3>1. Good(initial_state(options), options)
      BY <1>1, InitialGood
    <3>2. /\ initial_state(options).key_history = << >>
          /\ initial_state(options).outcome_reason # "DrawThreefold"
      BY DEF initial_state
    <3> QED BY <2>5, <2>6, <3>1, <3>2 DEF reset
  <2>7. CASE replace_state
    BY <1>1, <2>5, <2>7 DEF replace_state, SetupsArePositions
  <2> QED BY <1>4, <2>2, <2>3, <2>4, <2>6, <2>7 DEF KernelNext
<1> QED BY <1>3, <1>4

LEMMA InvHoldsAtFirst ==
  ASSUME KernelInit
  PROVE  KernelInv
<1>1. /\ options \in Variants /\ options \in MillVariantOptions
      /\ options.piece_count > 0 /\ state = initial_state(options)
      /\ history = << >> /\ redo_stack = << >>
  BY VariantsAssumption DEF KernelInit
<1>2. IsStack(<< >>) /\ Len(<< >>) = 0
  BY Push
<1>3. Line[1] = state
  BY <1>1, <1>2, LineLength DEF Line, LineAt
<1>4. /\ Good(state, options) /\ state.key_history = << >>
      /\ state.outcome_reason # "DrawThreefold"
  BY <1>1, InitialGood DEF initial_state
<1>5. PositionInv(Line, 1, options)
  BY <1>3, <1>4, BeginningInv
<1>6. Len(history) + 1 + Len(redo_stack) = 1
  BY <1>1, <1>2
<1> QED BY <1>1, <1>2, <1>5, <1>6 DEF KernelInv, StacksInv

(* What is recorded of a game is what was observed of it.                  *)
THEOREM LineCarriesItsRecord ==
  (SetupsArePositions /\ RepetitionFits) => (KernelSpec => []KernelInv)
<1> SUFFICES ASSUME SetupsArePositions, RepetitionFits
             PROVE  KernelSpec => []KernelInv
  OBVIOUS
<1>1. KernelInit => KernelInv
  BY InvHoldsAtFirst
<1>2. KernelInv /\ [KernelNext]_kvars => KernelInv'
  BY InvIsPreserved
<1> QED BY <1>1, <1>2, PTL DEF KernelSpec

LEMMA RecordDecides ==
  ASSUME KernelInv
  PROVE  ThreefoldIsDrawn
<1> DEFINE n == Len(history) + 1
           S == QuietUntil(Played, n)
<1>1. /\ StacksInv /\ n \in Nat \ {0} /\ Len(Played) = n /\ Played[n] = state
      /\ PositionInv(Played, n, options) /\ n \in Nat
  <2>1. StacksInv
    BY DEF KernelInv
  <2>2. n \in 1..n /\ n \in Nat \ {0}
    BY <2>1, PlayedShape
  <2> QED BY <2>1, <2>2, PlayedShape, PlayedInv
<1> HIDE DEF n
<1>2. QuietSteps(Played) = S /\ S \in SUBSET Nat /\ IsFiniteSet(S)
  BY <1>1, QuietIsFinite DEF QuietSteps, QuietUntil
<1> HIDE DEF S
<1>3. ObservedLike(Played, n) = {i \in S : ObservedAt(Played, i) = ObservedAt(Played, n)}
  BY <1>2 DEF ObservedLike, ObservedAt
<1>4. Occurrences(FullKeys(Played, n), ObservedAt(Played, n))
        = Cardinality(ObservedLike(Played, n))
  BY <1>2, <1>3, OccurrencesCounted DEF FullKeys, S
<1>5. options.threefold_repetition_rule =>
        ((state.outcome_reason = "DrawThreefold") <=>
           /\ n \in QuietSteps(Played) /\ Cardinality(ObservedLike(Played, n)) >= 3)
  BY <1>1, <1>2, <1>4 DEF PositionInv, RecordInv, S
<1> QED BY <1>1, <1>5 DEF ThreefoldIsDrawn

LEMMA RecordIsRebuilt ==
  ASSUME KernelInv
  PROVE  SearchSeesRepetitions
<1> DEFINE n == Len(history) + 1
           S == QuietUntil(Played, n)
<1>1. /\ n \in Nat \ {0} /\ Len(Played) = n /\ DOMAIN Played = 1..n
      /\ Played[n] = state /\ n \in Nat
      /\ history = << >> => n = 1
      /\ \A i \in 1..n : PositionInv(Played, i, options)
  <2>1. StacksInv
    BY DEF KernelInv
  <2>2. n \in Nat \ {0}
    BY <2>1, PlayedShape
  <2> QED BY <2>1, <2>2, PlayedShape, PlayedInv
<1> HIDE DEF n
<1>2. ASSUME options.threefold_repetition_rule
      PROVE  repetition_history_from_snapshots(state, history) = FullKeys(Played, n)
  BY <1>1, <1>2, RebuiltIsFull DEF Played
<1>3. QuietSteps(Played) = S /\ S \in SUBSET Nat /\ IsFiniteSet(S)
  BY <1>1, QuietIsFinite DEF QuietSteps, QuietUntil
<1>4. FullKeys(Played, n) = [k \in 1..Cardinality(S) |->
        Observation(Played[Ascending(S)[k] - 1], Played[Ascending(S)[k]])]
  BY DEF FullKeys, Recorded, ObservedAt
<1> HIDE DEF S
<1>5. DOMAIN Ascending(S) = 1..Cardinality(S)
  BY DEF Ascending
<1> QED BY <1>2, <1>3, <1>4, <1>5 DEF SearchSeesRepetitions

(* Threefold repetition is drawn at the third observation of a position    *)
(* and at no other time: however short the window of keys a snapshot keeps,*)
(* and wherever undo, redo and new branches have led.                      *)
THEOREM ThreefoldDrawnExactly ==
  (SetupsArePositions /\ RepetitionFits) => (KernelSpec => []ThreefoldIsDrawn)
<1>1. KernelInv => ThreefoldIsDrawn
  BY RecordDecides
<1> QED BY <1>1, LineCarriesItsRecord, PTL

(* A search is handed every observation since the last irreversible step.  *)
THEOREM SearchIsToldRepetitions ==
  (SetupsArePositions /\ RepetitionFits) => (KernelSpec => []SearchSeesRepetitions)
<1>1. KernelInv => SearchSeesRepetitions
  BY RecordIsRebuilt
<1> QED BY <1>1, LineCarriesItsRecord, PTL
=============================================================================
