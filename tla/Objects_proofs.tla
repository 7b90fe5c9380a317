--------------------------- MODULE Objects_proofs ---------------------------
(***************************************************************************)
(* Proofs about structures, the loader and generic instances, each a       *)
(* component of its own: the check that no structure contains itself and   *)
(* the order in which sizes become known (Structs), the deferred           *)
(* definitions and the initial values of a file (Loader), the cache of     *)
(* generic instances (Generic), and the instances and method tables of     *)
(* classes (Layout).                                                       *)
(***************************************************************************)
EXTENDS Structs, Loader, Generic, Layout, Induction, FiniteSetTheorems, SequenceTheorems, TLAPS

-----------------------------------------------------------------------------
(* Frames.                                                                 *)

NodeFrames == [node : Nodes, at : Nat \ {0}]

StructsTyped ==
  /\ shape \in Shapes /\ unchecked \subseteq Nodes /\ walked \subseteq Nodes /\ laid \subseteq Nodes
  /\ frames \in Seq(NodeFrames)
  /\ stage \in {"checking", "preparing"} => frames # <<>>

\* The parts that a frame is past are done, except the one that the next frame is about.
DoneIn(fs, D) ==
  \A i \in 1 .. Len(fs) : \A p \in 1 .. (fs[i].at - 1) :
    Parts(fs[i].node)[p] \in Nodes =>
      \/ Parts(fs[i].node)[p] \in D
      \/ i < Len(fs) /\ p = fs[i].at - 1 /\ Parts(fs[i].node)[p] = fs[i + 1].node

\* The declarations of a node.
LEMMA PartsAre ==
  ASSUME shape \in Shapes, NEW n \in Nodes
  PROVE  /\ Parts(n) \in Seq(Nodes \cup {"number"}) /\ Kind(n) \in Kinds
         /\ \A m \in Nodes : m \in Contained(n) <=> \E p \in 1 .. Len(Parts(n)) : Parts(n)[p] = m
         /\ Kind(n) = "UnionEnum" => \A p \in 1 .. Len(Parts(n)) : Parts(n)[p] \in Nodes
<1>1. Parts(n) \in Seq(Nodes \cup {"number"})
  BY StructsAssumption DEF Parts
<1>2. Range(Parts(n)) = {Parts(n)[p] : p \in 1 .. Len(Parts(n))}
  BY <1>1 DEF Range
<1>3. Kind(n) \in Kinds /\ (Kind(n) = "UnionEnum" => Range(Parts(n)) \subseteq Nodes)
  BY StructsAssumption DEF Parts, Kind
<1> QED BY <1>1, <1>2, <1>3 DEF Contained

\* The frame on top is about a node.
LEMMA CurIs ==
  ASSUME StructsTyped, frames # <<>>
  PROVE  /\ Len(frames) \in Nat \ {0} /\ Cur = frames[Len(frames)]
         /\ Cur \in NodeFrames /\ Cur.node \in Nodes /\ Cur.at \in Nat \ {0}
<1>1. frames \in Seq(NodeFrames) /\ Cur = frames[Len(frames)]
  BY DEF StructsTyped, Cur, Last
<1>2. Len(frames) \in Nat \ {0} /\ frames[Len(frames)] \in NodeFrames
  BY <1>1
<1> QED BY <1>1, <1>2 DEF NodeFrames

\* Advancing changes the frame on top only.
LEMMA AdvancedIs ==
  ASSUME StructsTyped, frames # <<>>, NEW fs, fs = Advanced(frames)
  PROVE  /\ fs \in Seq(NodeFrames) /\ Len(fs) = Len(frames)
         /\ fs[Len(fs)].node = Cur.node /\ fs[Len(fs)].at = Cur.at + 1
         /\ \A i \in 1 .. (Len(frames) - 1) : fs[i] = frames[i]
<1> DEFINE n == Len(frames)
           c == [frames[n] EXCEPT !.at = frames[n].at + 1]
<1>1. fs = [frames EXCEPT ![n] = c]
  BY DEF Advanced
<1>2. c \in NodeFrames /\ c.node = Cur.node /\ c.at = Cur.at + 1
  BY CurIs DEF NodeFrames
<1>3. n \in 1 .. n /\ frames \in Seq(NodeFrames)
  BY CurIs DEF StructsTyped
<1> HIDE DEF c
<1> QED BY <1>1, <1>2, <1>3

\* A frame for a node is added on top,
LEMMA PushedIs ==
  ASSUME NEW fs \in Seq(NodeFrames), NEW n \in Nodes, NEW gs, gs = Append(fs, Frame(n))
  PROVE  /\ gs \in Seq(NodeFrames) /\ gs # <<>> /\ Len(gs) = Len(fs) + 1
         /\ gs[Len(gs)].node = n /\ gs[Len(gs)].at = 1
         /\ \A i \in 1 .. Len(fs) : gs[i] = fs[i]
BY DEF Frame, NodeFrames

\* and taken away.
LEMMA FrontIs ==
  ASSUME NEW fs \in Seq(NodeFrames), fs # <<>>, NEW gs, gs = Front(fs)
  PROVE  /\ gs \in Seq(NodeFrames) /\ Len(gs) = Len(fs) - 1 /\ (gs = <<>> <=> Len(fs) = 1)
         /\ \A i \in 1 .. Len(gs) : gs[i] = fs[i]
<1> DEFINE m == Len(fs) - 1
<1>1. gs = SubSeq(fs, 1, m) /\ m \in Nat /\ 1 \in Int /\ m \in Int /\ m - 1 + 1 = m
  BY DEF Front
<1>2. \A i \in 1 .. m : fs[i] \in NodeFrames
  OBVIOUS
<1> HIDE DEF m
<1>3. gs \in Seq(NodeFrames) /\ Len(gs) = m /\ \A i \in 1 .. m : gs[i] = fs[1 + i - 1]
  BY <1>1, <1>2, SubSeqProperties
<1>4. \A i \in 1 .. m : 1 + i - 1 = i
  BY <1>1
<1>5. \A i \in 1 .. m : gs[i] = fs[i]
  BY <1>3, <1>4
<1>6. gs = <<>> <=> m = 0
  BY <1>1, <1>3
<1>7. m = Len(fs) - 1 /\ Len(fs) \in Nat
  BY DEF m
<1> QED BY <1>3, <1>5, <1>6, <1>7

-----------------------------------------------------------------------------
(* What is past has been dealt with.                                       *)

\* Whether frames are done depends on them and the declarations only.
LEMMA DoneNext ==
  ASSUME shape' = shape, NEW fs, NEW D
  PROVE  DoneIn(fs, D)' <=> DoneIn(fs', D')
BY DEF DoneIn, Parts

\* The first frame is past nothing.
LEMMA DoneStart ==
  ASSUME NEW n, NEW D
  PROVE  DoneIn(<<Frame(n)>>, D)
BY DEF DoneIn, Frame

\* More may have been dealt with.
LEMMA DoneGrows ==
  ASSUME NEW fs, NEW D, NEW E, D \subseteq E, DoneIn(fs, D)
  PROVE  DoneIn(fs, E)
BY DEF DoneIn

\* The part that a new frame is about may be passed,
LEMMA DonePush ==
  ASSUME StructsTyped, frames # <<>>, NEW D, DoneIn(frames, D), Parts(Cur.node)[Cur.at] \in Nodes,
         NEW gs, gs = Append(Advanced(frames), Frame(Parts(Cur.node)[Cur.at]))
  PROVE  DoneIn(gs, D)
<1> DEFINE fs == Advanced(frames)
           part == Parts(Cur.node)[Cur.at]
<1>1. /\ fs \in Seq(NodeFrames) /\ Len(fs) = Len(frames)
      /\ fs[Len(fs)].node = Cur.node /\ fs[Len(fs)].at = Cur.at + 1
      /\ \A i \in 1 .. (Len(frames) - 1) : fs[i] = frames[i]
  BY AdvancedIs
<1>2. /\ Len(gs) = Len(fs) + 1 /\ gs[Len(gs)].node = part /\ gs[Len(gs)].at = 1
      /\ \A i \in 1 .. Len(fs) : gs[i] = fs[i]
  <2> HIDE DEF fs, part
  <2> QED BY <1>1, PushedIs DEF part, fs
<1>3. Len(frames) \in Nat \ {0} /\ Cur = frames[Len(frames)] /\ Cur.at \in Nat \ {0}
  BY CurIs
<1> SUFFICES ASSUME NEW i \in 1 .. Len(gs), NEW p \in 1 .. (gs[i].at - 1), Parts(gs[i].node)[p] \in Nodes
    PROVE  \/ Parts(gs[i].node)[p] \in D
           \/ i < Len(gs) /\ p = gs[i].at - 1 /\ Parts(gs[i].node)[p] = gs[i + 1].node
  BY DEF DoneIn
<1> HIDE DEF fs
<1>4. CASE i < Len(frames)
  <2>a. i \in 1 .. Len(frames) /\ i \in 1 .. Len(fs) /\ i + 1 \in 1 .. Len(fs) /\ i \in 1 .. (Len(frames) - 1)
    BY <1>1, <1>3, <1>4
  <2>b. gs[i] = frames[i] /\ gs[i + 1] = fs[i + 1]
    BY <2>a, <1>1, <1>2
  <2>c. fs[i + 1].node = frames[i + 1].node
    <3>1. CASE i + 1 < Len(frames)
      BY <3>1, <2>a, <1>1, <1>3
    <3>2. CASE i + 1 = Len(frames)
      BY <3>2, <1>1, <1>3
    <3> QED BY <3>1, <3>2, <2>a, <1>1, <1>3
  <2>1. gs[i] = frames[i] /\ gs[i + 1].node = frames[i + 1].node /\ i \in 1 .. Len(frames)
    BY <2>a, <2>b, <2>c
  <2> QED BY <2>1, <1>1, <1>2, <1>3, <1>4 DEF DoneIn
<1>5. CASE i = Len(frames)
  <2>1. gs[i].node = Cur.node /\ gs[i].at = Cur.at + 1 /\ gs[i + 1].node = part /\ i < Len(gs)
    BY <1>1, <1>2, <1>3, <1>5
  <2>2. CASE p = Cur.at
    BY <2>1, <2>2, <1>3
  <2>3. CASE p # Cur.at
    <3>1. p \in 1 .. (frames[i].at - 1) /\ i \in 1 .. Len(frames) /\ ~ (i < Len(frames))
      BY <2>1, <2>3, <1>3, <1>5
    <3>2. gs[i].node = frames[i].node
      BY <2>1, <1>3, <1>5
    <3> QED BY <3>1, <3>2 DEF DoneIn
  <2> QED BY <2>2, <2>3
<1>6. CASE i = Len(frames) + 1
  BY <1>1, <1>2, <1>3, <1>6
<1> QED BY <1>1, <1>2, <1>3, <1>4, <1>5, <1>6

\* and so may a part that is no node.
LEMMA DoneSkip ==
  ASSUME StructsTyped, frames # <<>>, NEW D, DoneIn(frames, D), Parts(Cur.node)[Cur.at] \notin Nodes,
         NEW fs, fs = Advanced(frames)
  PROVE  DoneIn(fs, D)
<1>1. /\ Len(fs) = Len(frames) /\ fs[Len(fs)].node = Cur.node /\ fs[Len(fs)].at = Cur.at + 1
      /\ \A i \in 1 .. (Len(frames) - 1) : fs[i] = frames[i]
  BY AdvancedIs
<1>3. Len(frames) \in Nat \ {0} /\ Cur = frames[Len(frames)] /\ Cur.at \in Nat \ {0}
  BY CurIs
<1> SUFFICES ASSUME NEW i \in 1 .. Len(fs), NEW p \in 1 .. (fs[i].at - 1), Parts(fs[i].node)[p] \in Nodes
    PROVE  \/ Parts(fs[i].node)[p] \in D
           \/ i < Len(fs) /\ p = fs[i].at - 1 /\ Parts(fs[i].node)[p] = fs[i + 1].node
  BY DEF DoneIn
<1>4. CASE i < Len(frames)
  <2>1. fs[i] = frames[i] /\ fs[i + 1].node = frames[i + 1].node /\ i \in 1 .. Len(frames)
    BY <1>1, <1>3, <1>4
  <2> QED BY <2>1, <1>1, <1>4 DEF DoneIn
<1>5. CASE i = Len(frames)
  <2>1. p # Cur.at
    BY <1>1, <1>5
  <2>2. p \in 1 .. (frames[i].at - 1) /\ i \in 1 .. Len(frames) /\ ~ (i < Len(frames))
    BY <2>1, <1>1, <1>3, <1>5
  <2>3. fs[i].node = frames[i].node
    BY <1>1, <1>3, <1>5
  <2> QED BY <2>2, <2>3 DEF DoneIn
<1> QED BY <1>1, <1>3, <1>4, <1>5

\* A frame may be added without advancing the one below.
LEMMA DoneItem ==
  ASSUME NEW fs \in Seq(NodeFrames), NEW D, DoneIn(fs, D), NEW n \in Nodes, NEW gs, gs = Append(fs, Frame(n)),
         \A i \in 1 .. Len(fs) : i = Len(fs) => fs[i].at \in Nat
  PROVE  DoneIn(gs, D)
<1>1. /\ Len(gs) = Len(fs) + 1 /\ gs[Len(gs)].at = 1
      /\ \A i \in 1 .. Len(fs) : gs[i] = fs[i]
  BY PushedIs
<1> SUFFICES ASSUME NEW i \in 1 .. Len(gs), NEW p \in 1 .. (gs[i].at - 1), Parts(gs[i].node)[p] \in Nodes
    PROVE  \/ Parts(gs[i].node)[p] \in D
           \/ i < Len(gs) /\ p = gs[i].at - 1 /\ Parts(gs[i].node)[p] = gs[i + 1].node
  BY DEF DoneIn
<1>2. CASE i <= Len(fs)
  <2>1. gs[i] = fs[i] /\ i \in 1 .. Len(fs) /\ (i < Len(fs) => gs[i + 1] = fs[i + 1])
    BY <1>1, <1>2
  <2> QED BY <2>1, <1>1 DEF DoneIn
<1>3. CASE i = Len(fs) + 1
  BY <1>1, <1>3
<1> QED BY <1>1, <1>2, <1>3

\* A frame may be left when its node has been dealt with.
LEMMA DoneLeave ==
  ASSUME NEW fs \in Seq(NodeFrames), fs # <<>>, NEW D, DoneIn(fs, D), fs[Len(fs)].node \in D,
         NEW gs, gs = Front(fs)
  PROVE  DoneIn(gs, D)
<1>1. /\ Len(gs) = Len(fs) - 1 /\ Len(fs) \in Nat
      /\ \A i \in 1 .. Len(gs) : gs[i] = fs[i]
  BY FrontIs
<1> SUFFICES ASSUME NEW i \in 1 .. Len(gs), NEW p \in 1 .. (gs[i].at - 1), Parts(gs[i].node)[p] \in Nodes
    PROVE  \/ Parts(gs[i].node)[p] \in D
           \/ i < Len(gs) /\ p = gs[i].at - 1 /\ Parts(gs[i].node)[p] = gs[i + 1].node
  BY DEF DoneIn
<1>2. gs[i] = fs[i] /\ i \in 1 .. Len(fs) /\ i < Len(fs) /\ (i < Len(gs) => gs[i + 1] = fs[i + 1])
  BY <1>1
<1>3. i < Len(gs) \/ i + 1 = Len(fs)
  BY <1>1
<1> QED BY <1>2, <1>3 DEF DoneIn

\* At the end of a frame everything that its node contains has been dealt with.
LEMMA DoneAll ==
  ASSUME StructsTyped, frames # <<>>, NEW D, DoneIn(frames, D), AtEnd
  PROVE  Contained(Cur.node) \subseteq D
<1>1. Len(frames) \in Nat \ {0} /\ Cur = frames[Len(frames)] /\ Cur.node \in Nodes /\ Cur.at \in Nat \ {0}
  BY CurIs
<1> SUFFICES ASSUME NEW m \in Contained(Cur.node) PROVE m \in D
  OBVIOUS
<1>2. shape \in Shapes /\ m \in Nodes
  BY DEF StructsTyped, Contained
<1>3. PICK p \in 1 .. Len(Parts(Cur.node)) : Parts(Cur.node)[p] = m
  BY <1>1, <1>2, PartsAre
<1>4. Len(Parts(Cur.node)) \in Nat
  BY <1>1, <1>2, PartsAre
<1>5. p \in 1 .. (Cur.at - 1)
  BY <1>1, <1>4 DEF AtEnd
<1> QED BY <1>1, <1>2, <1>3, <1>5 DEF DoneIn

-----------------------------------------------------------------------------
(* Types of the variables.                                                 *)

\* Pushing a frame gives frames, or the end.
LEMMA PushKeepsType ==
  ASSUME StructsTyped, frames # <<>>, NEW n \in Nodes, Push(n)
  PROVE  /\ frames' \in Seq(NodeFrames)
         /\ stage' \in {"checking", "preparing"} => frames' # <<>>
<1> DEFINE fs == Advanced(frames)
<1>1. fs \in Seq(NodeFrames)
  BY AdvancedIs
<1>2. CASE Len(frames) < FrameMax
  <2>1. frames' = Append(fs, Frame(n))
    BY <1>2 DEF Push
  <2> HIDE DEF fs
  <2> QED BY <1>1, <2>1, PushedIs
<1>3. CASE ~ (Len(frames) < FrameMax)
  BY <1>3 DEF Push
<1> QED BY <1>2, <1>3

\* Every step keeps the types.
LEMMA TypedKept ==
  ASSUME StructsTyped, [StructsNext]_struct
  PROVE  StructsTyped'
<1>1. ASSUME NEW n \in Nodes, BeginCheck(n) \/ BeginPrepare(n) PROVE StructsTyped'
  <2>1. Frame(n) \in NodeFrames
    BY DEF Frame, NodeFrames
  <2>2. frames' = <<Frame(n)>> /\ shape' = shape /\ unchecked' = unchecked /\ walked' \subseteq walked /\ laid' = laid
    BY <1>1 DEF BeginCheck, BeginPrepare
  <2>3. frames' \in Seq(NodeFrames) /\ frames' # <<>>
    BY <2>1, <2>2
  <2> QED BY <2>2, <2>3 DEF StructsTyped
<1>2. CASE CheckRecursed \/ CheckEmpty \/ CheckItemField
  BY <1>2 DEF CheckRecursed, CheckEmpty, CheckItemField, CheckStops, StructsTyped
<1>3. CASE CheckField
  <2>1. frames # <<>> /\ Cur.node \in Nodes
    BY <1>3, CurIs DEF CheckField, StructsTyped
  <2>2. /\ frames' \in Seq(NodeFrames)
        /\ stage' \in {"checking", "preparing"} => frames' # <<>>
    <3> DEFINE part == Parts(Cur.node)[Cur.at]
    <3>1. CASE frames' = Advanced(frames)
      <4>1. Len(frames') # 0 /\ frames' \in Seq(NodeFrames)
        BY <2>1, <3>1, AdvancedIs, CurIs
      <4> QED BY <4>1
    <3>2. CASE part \in Nodes /\ Push(part)
      <4> HIDE DEF part
      <4> QED BY <2>1, <3>2, PushKeepsType
    <3> QED BY <1>3, <3>1, <3>2 DEF CheckField
  <2> QED BY <1>3, <2>1, <2>2 DEF CheckField, StructsTyped
<1>4. CASE CheckItem
  <2>1. frames # <<>> /\ Cur.node \in Nodes /\ Cur.at \in Nat \ {0}
    BY <1>4, CurIs DEF CheckItem, StructsTyped
  <2>2. Parts(Cur.node)[Cur.at] \in Nodes
    <3>1. Len(Parts(Cur.node)) \in Nat /\ \A p \in 1 .. Len(Parts(Cur.node)) : Parts(Cur.node)[p] \in Nodes
      BY <1>4, <2>1, PartsAre DEF CheckItem, StructsTyped
    <3>2. Cur.at \in 1 .. Len(Parts(Cur.node))
      BY <1>4, <2>1, <3>1 DEF CheckItem, AtEnd
    <3> QED BY <3>1, <3>2
  <2>3. /\ frames' \in Seq(NodeFrames)
        /\ stage' \in {"checking", "preparing"} => frames' # <<>>
    <3>1. CASE frames' = Append(frames, Frame(Parts(Cur.node)[Cur.at]))
      BY <2>2, <3>1, PushedIs DEF StructsTyped
    <3>2. CASE frames' = <<>> /\ stage' = "failed"
      BY <3>2
    <3> QED BY <1>4, <3>1, <3>2 DEF CheckItem
  <2> QED BY <1>4, <2>1, <2>3 DEF CheckItem, StructsTyped
<1>5. CASE CheckLeave
  <2>1. frames # <<>> /\ frames \in Seq(NodeFrames) /\ frames' = Front(frames)
    BY <1>5 DEF CheckLeave, StructsTyped
  <2>2. frames' \in Seq(NodeFrames) /\ (frames' = <<>> <=> Len(frames) = 1)
    BY <2>1, FrontIs
  <2> QED BY <1>5, <2>2 DEF CheckLeave, StructsTyped, Left
<1>6. CASE Loaded \/ DeclaredByHost
  BY <1>6 DEF Loaded, DeclaredByHost, StructsTyped
<1>7. CASE PreparePart
  <2>1. frames # <<>>
    BY <1>7 DEF PreparePart, StructsTyped
  <2> DEFINE part == Parts(Cur.node)[Cur.at]
  <2>2. CASE part \in Nodes
    <3>1. Push(part)
      BY <1>7, <2>2 DEF PreparePart
    <3> HIDE DEF part
    <3>2. /\ frames' \in Seq(NodeFrames)
          /\ stage' \in {"checking", "preparing"} => frames' # <<>>
      BY <2>1, <2>2, <3>1, PushKeepsType
    <3> QED BY <1>7, <3>2 DEF PreparePart, StructsTyped
  <2>3. CASE part \notin Nodes
    <3>1. frames' = Advanced(frames)
      BY <1>7, <2>3 DEF PreparePart
    <3>2. frames' \in Seq(NodeFrames) /\ Len(frames') # 0
      BY <2>1, <3>1, AdvancedIs, CurIs
    <3> QED BY <1>7, <3>2 DEF PreparePart, StructsTyped
  <2> QED BY <2>2, <2>3
<1>8. CASE PrepareSelf
  <2>1. frames # <<>> /\ frames \in Seq(NodeFrames) /\ Cur.node \in Nodes
    BY <1>8, CurIs DEF PrepareSelf, StructsTyped
  <2>2. CASE frames' = Front(frames) /\ laid' = laid \cup {Cur.node} /\ stage' = IF Len(frames) = 1 THEN "ready" ELSE stage
    <3>1. frames' \in Seq(NodeFrames) /\ (frames' = <<>> <=> Len(frames) = 1)
      BY <2>1, <2>2, FrontIs
    <3> QED BY <1>8, <2>1, <2>2, <3>1 DEF PrepareSelf, StructsTyped
  <2>3. CASE stage' = "stopped" /\ UNCHANGED <<laid, frames>>
    BY <1>8, <2>3 DEF PrepareSelf, StructsTyped
  <2> QED BY <1>8, <2>2, <2>3 DEF PrepareSelf
<1>9. CASE UNCHANGED struct
  BY <1>9 DEF struct, StructsTyped
<1> QED BY <1>1, <1>2, <1>3, <1>4, <1>5, <1>6, <1>7, <1>8, <1>9 DEF StructsNext

-----------------------------------------------------------------------------
(* Preparation.                                                            *)

SizesInv == StructsTyped /\ (stage = "preparing" => DoneIn(frames, laid))

\* For any declarations and any room for frames: when the layout of a structure is
\* made, or the maximal size of a union enum computed, what it contains has its own
\* (_prepare_struct_for_instantiation).
THEOREM SizesReady == StructsSpec => []SizesKnown
<1>1. StructsInit => SizesInv
  BY DEF StructsInit, SizesInv, StructsTyped
<1>2. SizesInv /\ [StructsNext]_struct => SizesInv'
  <2> SUFFICES ASSUME SizesInv, [StructsNext]_struct, stage' = "preparing" PROVE DoneIn(frames, laid)'
    BY TypedKept DEF SizesInv
  <2>0. StructsTyped /\ (stage = "preparing" => frames # <<>> /\ DoneIn(frames, laid))
    BY DEF SizesInv, StructsTyped
  <2>1. ASSUME NEW n \in Nodes, BeginPrepare(n) PROVE DoneIn(frames, laid)'
    <3>1. shape' = shape /\ frames' = <<Frame(n)>>
      BY <2>1 DEF BeginPrepare
    <3>2. DoneIn(frames', laid')
      BY <3>1, DoneStart
    <3> QED BY <3>1, <3>2, DoneNext
  <2>2. CASE PreparePart
    <3>1. shape' = shape /\ stage = "preparing" /\ laid' = laid
      BY <2>2 DEF PreparePart
    <3> DEFINE part == Parts(Cur.node)[Cur.at]
    <3>2. DoneIn(frames', laid)
      <4>1. CASE part \in Nodes
        <5>1. frames' = Append(Advanced(frames), Frame(part))
          BY <2>2, <4>1 DEF PreparePart, Push
        <5> QED BY <2>0, <3>1, <4>1, <5>1, DonePush
      <4>2. CASE part \notin Nodes
        <5>1. frames' = Advanced(frames)
          BY <2>2, <4>2 DEF PreparePart
        <5> QED BY <2>0, <3>1, <4>2, <5>1, DoneSkip
      <4> QED BY <4>1, <4>2
    <3> QED BY <3>1, <3>2, DoneNext
  <2>3. CASE PrepareSelf
    <3>1. shape' = shape /\ stage = "preparing" /\ frames' = Front(frames) /\ laid' = laid \cup {Cur.node}
      BY <2>3 DEF PrepareSelf
    <3>2. DoneIn(frames, laid')
      BY <2>0, <3>1, DoneGrows
    <3>3. frames \in Seq(NodeFrames) /\ frames[Len(frames)].node \in laid'
      BY <2>0, <3>1, CurIs DEF StructsTyped
    <3>4. DoneIn(frames', laid')
      BY <2>0, <3>1, <3>2, <3>3, DoneLeave
    <3> QED BY <3>1, <3>4, DoneNext
  <2>4. CASE UNCHANGED struct
    <3>1. shape' = shape /\ frames' = frames /\ laid' = laid /\ stage = "preparing"
      BY <2>4 DEF struct
    <3> QED BY <2>0, <3>1, DoneNext
  <2>5. ASSUME NEW n \in Nodes, BeginCheck(n) PROVE FALSE
    BY <2>5 DEF BeginCheck
  <2>6. ~ (CheckRecursed \/ CheckEmpty \/ CheckItemField \/ CheckItem \/ CheckLeave \/ Loaded \/ DeclaredByHost)
    BY DEF CheckRecursed, CheckEmpty, CheckItemField, CheckStops, CheckItem, CheckLeave, Loaded, DeclaredByHost
  <2>7. ~ CheckField
    BY DEF CheckField, Push
  <2> QED BY <2>1, <2>2, <2>3, <2>4, <2>5, <2>6, <2>7 DEF StructsNext
<1>3. SizesInv => SizesKnown
  <2> SUFFICES ASSUME SizesInv, stage = "preparing", AtEnd PROVE SizesCached
    BY DEF SizesKnown
  <2> QED BY DoneAll DEF SizesInv, StructsTyped, SizesCached
<1> QED BY <1>1, <1>2, <1>3, PTL DEF StructsSpec

-----------------------------------------------------------------------------
(* What a node contains at any depth.                                      *)

Levels(n) ==
  LET deep[k \in Nat] == IF k = 0 THEN Contained(n)
                         ELSE deep[k - 1] \cup UNION {Contained(m) : m \in deep[k - 1]}
  IN deep

\* What is within a node is what the last of the levels has.
LEMMA WithinIs == ASSUME NEW n PROVE Within(n) = Levels(n)[Cardinality(Nodes)]
BY DEF Within, Levels

\* The function that Within defines by recursion is what its equation says.
LEMMA LevelsAre ==
  ASSUME NEW n \in Nodes
  PROVE  /\ Levels(n) \in [Nat -> SUBSET Nodes] /\ Levels(n)[0] = Contained(n)
         /\ \A k \in Nat : Levels(n)[k + 1] = Levels(n)[k] \cup UNION {Contained(m) : m \in Levels(n)[k]}
<1> DEFINE Further(T) == T \cup UNION {Contained(m) : m \in T}
           G == [T \in SUBSET Nodes |-> Further(T)]
           Walk(f) == [k \in Nat |-> IF k = 0 THEN Contained(n) ELSE Further(f[k - 1])]
<1>1. G \in [SUBSET Nodes -> SUBSET Nodes]
  BY DEF Contained
<1>2. Contained(n) \in SUBSET Nodes
  BY DEF Contained
<1>3. PICK f \in [Nat -> SUBSET Nodes] : f[0] = Contained(n) /\ \A k \in Nat : f[k + 1] = G[f[k]]
  <2> DEFINE S == SUBSET Nodes
             a == Contained(n)
  <2>1. G \in [S -> S] /\ a \in S
    BY <1>1, <1>2
  <2> HIDE DEF G, S, a
  <2>2. \E f \in [Nat -> S] : IteratesAll(f, G, a)
    BY <2>1, IteratesForever
  <2> QED BY <2>2 DEF S, a, IteratesAll
<1>4. f = Walk(f)
  <2>1. ASSUME NEW k \in Nat
        PROVE  f[k] = IF k = 0 THEN Contained(n) ELSE Further(f[k - 1])
    <3>1. CASE k = 0
      BY <1>3, <3>1
    <3>2. CASE k # 0
      <4>1. k - 1 \in Nat /\ (k - 1) + 1 = k
        BY <3>2
      <4>2. f[k] = G[f[k - 1]] /\ f[k - 1] \in SUBSET Nodes
        BY <1>3, <4>1
      <4> HIDE DEF Further
      <4> QED BY <3>2, <4>2
    <3> QED BY <3>1, <3>2
  <2> HIDE DEF Further
  <2> QED BY <2>1
<1> DEFINE deep[k \in Nat] == IF k = 0 THEN Contained(n) ELSE Further(deep[k - 1])
<1>5. deep = Walk(deep)
  <2> HIDE DEF Further
  <2> QED BY <1>4
<1>6. Levels(n) = deep
  BY DEF Levels
<1>7. deep[0] = Contained(n) /\ \A k \in Nat : deep[k + 1] = Further(deep[k])
  <2> HIDE DEF Further, deep
  <2>1. \A k \in Nat : deep[k] = IF k = 0 THEN Contained(n) ELSE Further(deep[k - 1])
    BY <1>5
  <2>2. \A k \in Nat : k + 1 \in Nat /\ k + 1 # 0 /\ (k + 1) - 1 = k
    OBVIOUS
  <2> QED BY <2>1, <2>2
<1>8. \A k \in Nat : deep[k] \in SUBSET Nodes
  <2> DEFINE T == {k \in Nat : deep[k] \notin SUBSET Nodes}
  <2> HIDE DEF deep, Further
  <2>1. SUFFICES ASSUME T # {} PROVE FALSE
    OBVIOUS
  <2>2. PICK k \in T : \A y \in T : k <= y
    BY <2>1, NatMin
  <2>3. k # 0
    BY <2>2, <1>2, <1>7
  <2>4. k - 1 \in Nat /\ (k - 1) + 1 = k /\ k - 1 \notin T
    BY <2>2, <2>3
  <2>5. deep[k] = Further(deep[k - 1]) /\ deep[k - 1] \in SUBSET Nodes
    BY <2>4, <1>7
  <2>6. Further(deep[k - 1]) \in SUBSET Nodes
    BY <2>5 DEF Further, Contained
  <2> QED BY <2>2, <2>5, <2>6
<1>9. deep \in [Nat -> SUBSET Nodes]
  <2> HIDE DEF Further, deep
  <2> QED BY <1>5, <1>8
<1> QED
  <2>1. \A k \in Nat : deep[k + 1] = deep[k] \cup UNION {Contained(m) : m \in deep[k]}
    BY <1>7
  <2> HIDE DEF deep, Further
  <2> QED BY <1>6, <1>7, <1>9, <2>1

\* What is contained in what is within a node is within the node: the chain of
\* what is reached in so many steps has stopped growing.
LEMMA WithinCloses ==
  ASSUME NEW n \in Nodes, NEW m \in Within(n)
  PROVE  m \in Nodes /\ Contained(m) \subseteq Within(n)
<1> DEFINE L == Levels(n)
           Further(T) == T \cup UNION {Contained(x) : x \in T}
           N == Cardinality(Nodes)
           Closed(k) == Further(L[k]) = L[k]
           T == {k \in Nat : ~ (Closed(k) \/ Cardinality(L[k]) >= k)}
<1>1. L \in [Nat -> SUBSET Nodes] /\ \A k \in Nat : L[k + 1] = Further(L[k])
  BY LevelsAre
<1>2. N \in Nat /\ IsFiniteSet(Nodes)
  BY FS_CardinalityType, StructsAssumption
<1>3. \A k \in Nat : IsFiniteSet(L[k]) /\ Cardinality(L[k]) \in Nat
  <2> HIDE DEF L
  <2> SUFFICES ASSUME NEW k \in Nat PROVE IsFiniteSet(L[k]) /\ Cardinality(L[k]) \in Nat
    OBVIOUS
  <2>1. L[k] \in SUBSET Nodes
    BY <1>1
  <2>2. IsFiniteSet(L[k])
    BY <2>1, <1>2, FS_Subset
  <2> QED BY <2>2, FS_CardinalityType
<1> HIDE DEF L, Further, N
<1>4. T = {}
  <2>1. SUFFICES ASSUME T # {} PROVE FALSE
    OBVIOUS
  <2>2. PICK k \in T : \A y \in T : k <= y
    <3> HIDE DEF Closed
    <3> QED BY <2>1, NatMin
  <2>3. k # 0
    BY <2>2, <1>3
  <2>4. k - 1 \in Nat /\ (k - 1) + 1 = k /\ k - 1 \notin T
    <3> HIDE DEF T
    <3>1. k \in Nat
      BY <2>2 DEF T
    <3>2. k - 1 \in Nat /\ (k - 1) + 1 = k /\ ~ (k <= k - 1)
      BY <3>1, <2>3
    <3> QED BY <3>2, <2>2
  <2>5. L[k] = Further(L[k - 1])
    BY <1>1, <2>4
  <2>6. CASE Closed(k - 1)
    <3>1. L[k] = L[k - 1]
      BY <2>5, <2>6
    <3> QED BY <3>1, <2>2, <2>6
  <2>7. CASE ~ Closed(k - 1)
    <3>1. Cardinality(L[k - 1]) >= k - 1
      BY <2>4, <2>7
    <3>2. L[k - 1] \subseteq L[k] /\ L[k - 1] # L[k]
      BY <2>5, <2>7 DEF Further
    <3>3. k \in Nat
      BY <2>2
    <3>4. /\ Cardinality(L[k - 1]) <= Cardinality(L[k])
          /\ Cardinality(L[k]) = Cardinality(L[k - 1]) => L[k] = L[k - 1]
      BY <3>2, <3>3, <1>3, FS_Subset
    <3>5. Cardinality(L[k]) \in Nat /\ Cardinality(L[k - 1]) \in Nat
      BY <3>3, <2>4, <1>3
    <3>6. Cardinality(L[k]) >= k
      BY <3>1, <3>2, <3>3, <3>4, <3>5
    <3> QED BY <3>6, <2>2
  <2> QED BY <2>6, <2>7
<1>5. Closed(N)
  <2>1. CASE Cardinality(L[N]) >= N
    <3>1. L[N] \in SUBSET Nodes
      BY <1>1, <1>2
    <3>2. Cardinality(L[N]) <= N /\ (N = Cardinality(L[N]) => Nodes = L[N])
      BY <3>1, <1>2, FS_Subset DEF N
    <3>3. L[N] = Nodes
      BY <3>2, <2>1, <1>2, <1>3
    <3> QED BY <3>3 DEF Further, Contained
  <2> QED BY <2>1, <1>2, <1>4
<1>6. Within(n) = L[N]
  BY WithinIs DEF L, N
<1>7. m \in Nodes
  BY <1>1, <1>2, <1>6
<1> QED BY <1>5, <1>6, <1>7 DEF Further

\* Every level has what the node contains itself.
LEMMA LevelsGrow ==
  ASSUME NEW n \in Nodes, NEW j \in Nat
  PROVE  Contained(n) \subseteq Levels(n)[j]
<1> DEFINE T == {k \in Nat : ~ (Contained(n) \subseteq Levels(n)[k])}
<1>1. SUFFICES ASSUME T # {} PROVE FALSE
  OBVIOUS
<1>2. PICK k \in T : \A i \in T : k <= i
  BY <1>1, NatMin
<1>3. k # 0
  BY <1>2, LevelsAre
<1>4. k - 1 \in Nat /\ (k - 1) + 1 = k /\ k - 1 \notin T
  <2> HIDE DEF T
  <2>1. k \in Nat
    BY <1>2 DEF T
  <2>2. k - 1 \in Nat /\ (k - 1) + 1 = k /\ ~ (k <= k - 1)
    BY <2>1, <1>3
  <2> QED BY <2>2, <1>2
<1>5. Levels(n)[k - 1] \subseteq Levels(n)[k]
  BY <1>4, LevelsAre
<1> QED BY <1>2, <1>4, <1>5

\* What a node contains is within it.
LEMMA ContainedWithin ==
  ASSUME NEW n \in Nodes
  PROVE  Contained(n) \subseteq Within(n) /\ Contained(n) \subseteq Nodes
<1>1. Cardinality(Nodes) \in Nat
  BY FS_CardinalityType, StructsAssumption
<1> QED BY <1>1, LevelsGrow, WithinIs DEF Contained

\* A node is within another if it is contained in it, or within what is.
LEMMA WithinFrom ==
  ASSUME NEW n \in Nodes, NEW x \in Within(n)
  PROVE  \E p \in Contained(n) : x = p \/ x \in Within(p)
<1> DEFINE N == Cardinality(Nodes)
           Via(k, y) == \E p \in Contained(n) : y = p \/ y \in Levels(p)[k]
           T == {k \in Nat : ~ \A y \in Levels(n)[k] : Via(k, y)}
<1>1. N \in Nat
  BY FS_CardinalityType, StructsAssumption
<1>2. ASSUME NEW k \in Nat, NEW p \in Nodes
      PROVE  /\ Levels(p)[k] \subseteq Levels(p)[k + 1] /\ Levels(p)[0] = Contained(p)
             /\ \A y \in Levels(p)[k] : Contained(y) \subseteq Levels(p)[k + 1]
             /\ \A y \in Levels(p)[k + 1] : y \in Levels(p)[k] \/ \E z \in Levels(p)[k] : y \in Contained(z)
  BY LevelsAre
<1>3. T = {}
  <2>1. SUFFICES ASSUME T # {} PROVE FALSE
    OBVIOUS
  <2>2. PICK k \in T : \A y \in T : k <= y
    <3> HIDE DEF Via
    <3> QED BY <2>1, NatMin
  <2>3. k # 0
    BY <2>2, LevelsAre
  <2>4. k \in Nat /\ k - 1 \in Nat /\ (k - 1) + 1 = k /\ k - 1 \notin T
    <3> HIDE DEF T
    <3>1. k \in Nat
      BY <2>2 DEF T
    <3>2. k - 1 \in Nat /\ (k - 1) + 1 = k /\ ~ (k <= k - 1)
      BY <3>1, <2>3
    <3> QED BY <3>1, <3>2, <2>2
  <2>5. PICK y \in Levels(n)[k] : ~ Via(k, y)
    BY <2>2
  <2>6. \A z \in Levels(n)[k - 1] : Via(k - 1, z)
    <3> HIDE DEF Via
    <3> QED BY <2>4
  <2>7. \A z : Via(k - 1, z) => Via(k, z)
    <3>1. \A p \in Contained(n) : p \in Nodes /\ Levels(p)[k - 1] \subseteq Levels(p)[k]
      BY <1>2, <2>4 DEF Contained
    <3> QED BY <3>1
  <2>8. PICK z \in Levels(n)[k - 1] : y \in Contained(z)
    <3>1. y \in Levels(n)[k - 1] \/ \E z \in Levels(n)[k - 1] : y \in Contained(z)
      BY <1>2, <2>4, <2>5
    <3> HIDE DEF Via
    <3> QED BY <3>1, <2>5, <2>6, <2>7
  <2>9. PICK p \in Contained(n) : z = p \/ z \in Levels(p)[k - 1]
    BY <2>6, <2>8
  <2>10. p \in Nodes
    BY <2>9 DEF Contained
  <2>11. y \in Levels(p)[k]
    <3>1. CASE z = p
      BY <3>1, <2>4, <2>8, <2>10, LevelsGrow
    <3>2. CASE z \in Levels(p)[k - 1]
      BY <3>2, <2>4, <2>8, <2>10, <1>2
    <3> QED BY <2>9, <3>1, <3>2
  <2> QED BY <2>5, <2>9, <2>11
<1>4. Via(N, x)
  <2>1. x \in Levels(n)[N]
    BY WithinIs
  <2> HIDE DEF Via, N
  <2> QED BY <2>1, <1>1, <1>3
<1> QED BY <1>4, WithinIs

-----------------------------------------------------------------------------
(* The check.                                                              *)

Clean(n) == \A m \in {n} \cup Within(n) : ~ Recursive(m)
CleanNodes == {n \in Nodes : Clean(n)}

\* When nothing within the parts of a node contains itself, nothing within the node
\* does, the node included.
LEMMA CleanFrom ==
  ASSUME NEW n \in Nodes, Contained(n) \subseteq CleanNodes
  PROVE  n \in CleanNodes
<1> SUFFICES ASSUME NEW m \in {n} \cup Within(n), m \in Within(m) PROVE FALSE
  BY DEF Clean, CleanNodes, Recursive
<1>1. PICK p \in Contained(n) : m = p \/ m \in Within(p)
  BY WithinFrom
<1> QED BY <1>1 DEF Clean, CleanNodes, Recursive

Begun(f) == f.at > 1 \/ Kind(f.node) = "UnionEnum"

\* Each frame is about a part of what the frame before is about; what is walked
\* has a frame, and that frame is past its beginning.
ChainOK(fs, w) ==
  /\ \A i \in 1 .. (Len(fs) - 1) : fs[i + 1].node \in Contained(fs[i].node) /\ Begun(fs[i])
  /\ \A n \in w : \E i \in 1 .. Len(fs) : n = fs[i].node /\ Begun(fs[i])

\* Whether frames form a chain depends on them and the declarations only,
LEMMA ChainNext ==
  ASSUME shape' = shape, NEW fs, NEW w
  PROVE  ChainOK(fs, w)' <=> ChainOK(fs', w')
BY DEF ChainOK, Begun, Contained, Parts, Kind

\* and what is within a node on the declarations only,
LEMMA WithinNext ==
  ASSUME shape' = shape, NEW n
  PROVE  Within(n)' = Within(n)
BY DEF Within, Contained, Parts

\* and so does what is clean.
LEMMA CleanNext ==
  ASSUME shape' = shape
  PROVE  CleanNodes' = CleanNodes
BY WithinNext DEF CleanNodes, Clean, Recursive

\* What a higher frame is about is within what a lower one is about.
LEMMA ChainWithin ==
  ASSUME NEW fs \in Seq(NodeFrames), NEW w, ChainOK(fs, w), NEW i \in 1 .. Len(fs)
  PROVE  \A j \in 1 .. Len(fs) : i < j => fs[j].node \in Within(fs[i].node)
<1> DEFINE T == {j \in Nat : j <= Len(fs) /\ i < j /\ fs[j].node \notin Within(fs[i].node)}
<1>1. SUFFICES ASSUME T # {} PROVE FALSE
  OBVIOUS
<1>2. PICK j \in T : \A x \in T : j <= x
  BY <1>1, NatMin
<1>3. j - 1 \in 1 .. (Len(fs) - 1) /\ (j - 1) + 1 = j /\ i <= j - 1 /\ j - 1 \notin T
  BY <1>2
<1>4. fs[j].node \in Contained(fs[j - 1].node)
  BY <1>3 DEF ChainOK
<1>5. fs[i] \in NodeFrames /\ fs[i].node \in Nodes
  <2>1. fs[i] \in NodeFrames
    OBVIOUS
  <2> QED BY <2>1 DEF NodeFrames
<1>6. CASE j - 1 = i
  BY <1>2, <1>4, <1>5, <1>6, ContainedWithin
<1>7. CASE i < j - 1
  <2>1. fs[j - 1].node \in Within(fs[i].node)
    BY <1>3, <1>7
  <2> QED BY <1>2, <1>4, <1>5, <2>1, WithinCloses
<1> QED BY <1>3, <1>6, <1>7

\* A step of the check: the frame on top is past its beginning, and a frame for one
\* of its parts may have been added.
LEMMA ChainGrows ==
  ASSUME StructsTyped, frames # <<>>, ChainOK(frames, walked),
         NEW gs \in Seq(NodeFrames), Len(gs) \in {Len(frames), Len(frames) + 1},
         \A i \in 1 .. Len(frames) : gs[i].node = frames[i].node /\ (Begun(frames[i]) => Begun(gs[i])),
         Begun(gs[Len(frames)]),
         Len(gs) = Len(frames) + 1 => gs[Len(gs)].node \in Contained(Cur.node)
  PROVE  ChainOK(gs, walked \cup {Cur.node})
<1>1. Len(frames) \in Nat \ {0} /\ Cur = frames[Len(frames)] /\ Len(gs) \in Nat
  BY CurIs
<1>2. ASSUME NEW i \in 1 .. (Len(gs) - 1) PROVE gs[i + 1].node \in Contained(gs[i].node) /\ Begun(gs[i])
  <2>1. CASE i < Len(frames)
    <3>1. i \in 1 .. (Len(frames) - 1) /\ i \in 1 .. Len(frames) /\ i + 1 \in 1 .. Len(frames)
      BY <1>1, <2>1
    <3> QED BY <3>1 DEF ChainOK
  <2>2. CASE i = Len(frames)
    <3>1. gs[i].node = Cur.node /\ i + 1 = Len(gs) /\ Len(gs) = Len(frames) + 1
      BY <1>1, <2>2
    <3> QED BY <3>1, <2>2
  <2> QED BY <1>1, <2>1, <2>2
<1>3. ASSUME NEW n \in walked \cup {Cur.node} PROVE \E i \in 1 .. Len(gs) : n = gs[i].node /\ Begun(gs[i])
  <2>1. 1 .. Len(frames) \subseteq 1 .. Len(gs) /\ Len(frames) \in 1 .. Len(frames)
    BY <1>1
  <2>2. CASE n = Cur.node
    BY <1>1, <2>1, <2>2
  <2>3. CASE n \in walked
    BY <2>1, <2>3 DEF ChainOK
  <2> QED BY <2>2, <2>3
<1> QED BY <1>2, <1>3 DEF ChainOK

\* Leaving the frame on top keeps the chain, because its node is no longer walked.
LEMMA ChainLeaves ==
  ASSUME StructsTyped, frames # <<>>, ChainOK(frames, walked), NEW gs, gs = Front(frames)
  PROVE  ChainOK(gs, walked \ {Cur.node})
<1>1. Len(frames) \in Nat \ {0} /\ Cur = frames[Len(frames)]
  BY CurIs
<1>2. Len(gs) = Len(frames) - 1 /\ \A i \in 1 .. Len(gs) : gs[i] = frames[i]
  BY FrontIs DEF StructsTyped
<1>3. ASSUME NEW i \in 1 .. (Len(gs) - 1) PROVE gs[i + 1].node \in Contained(gs[i].node) /\ Begun(gs[i])
  <2>1. i \in 1 .. (Len(frames) - 1) /\ gs[i] = frames[i] /\ gs[i + 1] = frames[i + 1]
    BY <1>1, <1>2
  <2> QED BY <2>1 DEF ChainOK
<1>4. ASSUME NEW n \in walked, n # Cur.node PROVE \E i \in 1 .. Len(gs) : n = gs[i].node /\ Begun(gs[i])
  <2>1. PICK i \in 1 .. Len(frames) : n = frames[i].node /\ Begun(frames[i])
    BY DEF ChainOK
  <2>2. i \in 1 .. Len(gs)
    BY <1>1, <1>2, <1>4, <2>1
  <2> QED BY <1>2, <2>1, <2>2
<1> QED BY <1>3, <1>4 DEF ChainOK

\* What the end of the process is blamed on.
Blamed(n) ==
  \E m \in {n} \cup Within(n) : Recursive(m) \/ Kind(m) = "UnionEnum" \/ Parts(m) = <<>> \/ Kind(m) = "UnionEnumItem"

\* What the end of the process is blamed on does not change any more.
LEMMA BlamedNext ==
  ASSUME shape' = shape, frames' = frames, Blamed(frames[1].node)
  PROVE  Blamed(frames[1].node)'
BY WithinNext DEF Blamed, Recursive, Kind, Parts

\* The frame on top is about the structure checked or something within it.
LEMMA TopWithin ==
  ASSUME StructsTyped, frames # <<>>, ChainOK(frames, walked)
  PROVE  frames[1].node \in Nodes /\ Cur.node \in {frames[1].node} \cup Within(frames[1].node)
<1>1. Len(frames) \in Nat \ {0} /\ Cur = frames[Len(frames)] /\ frames \in Seq(NodeFrames)
  BY CurIs DEF StructsTyped
<1>2. 1 \in 1 .. Len(frames) /\ Len(frames) \in 1 .. Len(frames)
  BY <1>1
<1>3. frames[1] \in NodeFrames
  BY <1>1, <1>2
<1>4. 1 < Len(frames) => Cur.node \in Within(frames[1].node)
  BY <1>1, <1>2, ChainWithin
<1>5. Len(frames) = 1 => Cur.node = frames[1].node
  BY <1>1
<1>6. 1 < Len(frames) \/ Len(frames) = 1
  <2>1. Len(frames) \in Nat \ {0}
    BY CurIs
  <2>2. \A k \in Nat \ {0} : 1 < k \/ k = 1
    OBVIOUS
  <2> QED BY <2>1, <2>2, Zenon
<1> QED BY <1>3, <1>4, <1>5, <1>6 DEF NodeFrames

\* When a node on the way is met again it contains itself, or it is a union enum, whose
\* frame never advances.
LEMMA RecursedBlamed ==
  ASSUME StructsTyped, frames # <<>>, ChainOK(frames, walked), Recursed
  PROVE  Blamed(frames[1].node)
<1>1. Len(frames) \in Nat \ {0} /\ Cur = frames[Len(frames)] /\ frames \in Seq(NodeFrames)
  BY CurIs DEF StructsTyped
<1>2. PICK i \in 1 .. Len(frames) : Cur.node = frames[i].node /\ Begun(frames[i])
  BY DEF Recursed, ChainOK
<1>3. CASE i < Len(frames)
  <2>1. Len(frames) \in 1 .. Len(frames)
    BY <1>1
  <2>2. frames[Len(frames)].node \in Within(frames[i].node)
    BY <1>1, <1>3, <2>1, ChainWithin
  <2>3. Recursive(Cur.node)
    BY <1>1, <1>2, <2>2 DEF Recursive
  <2> QED BY <2>3, TopWithin DEF Blamed
<1>4. CASE i = Len(frames)
  <2>1. Cur.at = 1 /\ Begun(Cur)
    BY <1>1, <1>2, <1>4 DEF Recursed
  <2>2. Kind(Cur.node) = "UnionEnum"
    BY <2>1 DEF Begun
  <2> QED BY <2>2, TopWithin DEF Blamed
<1> QED BY <1>1, <1>3, <1>4

\* A field whose type is an item of a union enum is within the structure checked.
LEMMA ItemBlamed ==
  ASSUME StructsTyped, frames # <<>>, ChainOK(frames, walked), CheckItemField
  PROVE  Blamed(frames[1].node)
<1> DEFINE part == Parts(Cur.node)[Cur.at]
<1>1. Cur.node \in Nodes /\ Cur.at \in Nat \ {0} /\ shape \in Shapes
  BY CurIs DEF StructsTyped
<1>2. part \in Nodes /\ Kind(part) = "UnionEnumItem" /\ ~ AtEnd
  BY DEF CheckItemField
<1>3. Len(Parts(Cur.node)) \in Nat
  BY <1>1, PartsAre
<1>4. Cur.at \in 1 .. Len(Parts(Cur.node))
  BY <1>1, <1>2, <1>3 DEF AtEnd
<1>5. part \in Contained(Cur.node)
  BY <1>1, <1>2, <1>4, PartsAre
<1>6. part \in Within(frames[1].node)
  <2>1. CASE Cur.node = frames[1].node
    BY <1>1, <1>5, <2>1, ContainedWithin
  <2>2. CASE Cur.node # frames[1].node
    <3>1. frames[1].node \in Nodes /\ Cur.node \in Within(frames[1].node)
      BY <2>2, TopWithin
    <3> HIDE DEF part
    <3> QED BY <3>1, <1>5, WithinCloses
  <2> QED BY <2>1, <2>2
<1> QED BY <1>2, <1>6 DEF Blamed

Unrecursed == \A n \in Nodes : (Kind(n) = "Struct" /\ n \notin unchecked) => n \in CleanNodes

StopJustified == (stage = "stopped" /\ laid = {} /\ ~ AtEnd) => Blamed(frames[1].node)

RecursionInv ==
  /\ StructsTyped /\ StopJustified
  /\ stage \in {"loading", "checking"} => Unrecursed
  /\ stage = "checking" => DoneIn(frames, CleanNodes) /\ ChainOK(frames, walked)

\* A step of the check that leaves what has been checked as it is.
LEMMA OnwardKeeps ==
  ASSUME RecursionInv, stage = "checking", StructsTyped', shape' = shape, unchecked' = unchecked,
         stage' \in {"checking", "failed"},
         stage' = "checking" => DoneIn(frames', CleanNodes) /\ ChainOK(frames', walked')
  PROVE  RecursionInv'
<1>1. CleanNodes' = CleanNodes
  BY CleanNext
<1>2. Unrecursed'
  BY <1>1 DEF RecursionInv, Unrecursed, Kind
<1>3. stage' = "checking" => DoneIn(frames, CleanNodes)' /\ ChainOK(frames, walked)'
  <2> SUFFICES ASSUME stage' = "checking" PROVE DoneIn(frames, CleanNodes)' /\ ChainOK(frames, walked)'
    OBVIOUS
  <2>1. DoneIn(frames', CleanNodes') /\ ChainOK(frames', walked')
    BY <1>1
  <2> QED BY <2>1, DoneNext, ChainNext
<1> QED BY <1>2, <1>3 DEF RecursionInv, StopJustified

\* A field of a structure or of an item.
LEMMA FieldKeeps ==
  ASSUME RecursionInv, CheckField, StructsTyped'
  PROVE  RecursionInv'
<1>0. /\ stage = "checking" /\ shape' = shape /\ unchecked' = unchecked /\ walked' = walked \cup {Cur.node}
      /\ ~ AtEnd /\ StructsTyped /\ frames # <<>> /\ DoneIn(frames, CleanNodes) /\ ChainOK(frames, walked)
  BY DEF CheckField, RecursionInv, StructsTyped
<1>1. /\ Len(frames) \in Nat \ {0} /\ Cur = frames[Len(frames)] /\ Cur.node \in Nodes /\ Cur.at \in Nat \ {0}
      /\ shape \in Shapes
  BY <1>0, CurIs DEF StructsTyped
<1> DEFINE part == Parts(Cur.node)[Cur.at]
           fs == Advanced(frames)
<1>2. /\ fs \in Seq(NodeFrames) /\ Len(fs) = Len(frames)
      /\ fs[Len(fs)].node = Cur.node /\ fs[Len(fs)].at = Cur.at + 1
      /\ \A i \in 1 .. (Len(frames) - 1) : fs[i] = frames[i]
  BY <1>0, AdvancedIs
<1>3. Begun(fs[Len(frames)])
  BY <1>1, <1>2 DEF Begun
<1>4. \A i \in 1 .. Len(frames) : fs[i].node = frames[i].node /\ (Begun(frames[i]) => Begun(fs[i]))
  <2> SUFFICES ASSUME NEW i \in 1 .. Len(frames) PROVE fs[i].node = frames[i].node /\ (Begun(frames[i]) => Begun(fs[i]))
    OBVIOUS
  <2> HIDE DEF fs
  <2>1. i \in 1 .. (Len(frames) - 1) \/ i = Len(frames)
    BY <1>1
  <2> QED BY <2>1, <1>1, <1>2, <1>3
<1>5. CASE part = "number" /\ frames' = fs /\ UNCHANGED stage
  <2>1. part \notin Nodes
    BY <1>5, StructsAssumption
  <2>2. DoneIn(frames', CleanNodes)
    BY <1>0, <1>5, <2>1, DoneSkip
  <2>3. ChainOK(fs, walked \cup {Cur.node})
    <3> HIDE DEF fs
    <3>1. /\ Len(fs) \in {Len(frames), Len(frames) + 1} /\ Len(fs) # Len(frames) + 1 /\ fs \in Seq(NodeFrames)
      BY <1>1, <1>2
    <3> QED BY <1>0, <1>3, <1>4, <3>1, ChainGrows
  <2> QED BY <1>0, <1>5, <2>2, <2>3, OnwardKeeps
<1>6. CASE part \in Nodes /\ Push(part) /\ Len(frames) < FrameMax
  <2>1. frames' = Append(fs, Frame(part)) /\ stage' = stage
    BY <1>6 DEF Push
  <2>2. DoneIn(frames', CleanNodes)
    BY <1>0, <1>6, <2>1, DonePush
  <2>3. /\ frames' \in Seq(NodeFrames) /\ Len(frames') = Len(fs) + 1 /\ frames'[Len(frames')].node = part
        /\ \A i \in 1 .. Len(fs) : frames'[i] = fs[i]
    <3> HIDE DEF fs, part
    <3> QED BY <1>2, <1>6, <2>1, PushedIs
  <2>4. part \in Contained(Cur.node)
    <3>1. Len(Parts(Cur.node)) \in Nat
      BY <1>1, PartsAre
    <3>2. Cur.at \in 1 .. Len(Parts(Cur.node))
      BY <1>0, <1>1, <3>1 DEF AtEnd
    <3> QED BY <1>1, <1>6, <3>2, PartsAre
  <2>5. ChainOK(frames', walked \cup {Cur.node})
    <3> HIDE DEF fs, part
    <3>1. \A i \in 1 .. Len(frames) : frames'[i].node = frames[i].node /\ (Begun(frames[i]) => Begun(frames'[i]))
      BY <1>2, <1>4, <2>3
    <3>2. Begun(frames'[Len(frames)])
      BY <1>1, <1>2, <1>3, <2>3
    <3> QED BY <1>0, <1>2, <2>3, <2>4, <3>1, <3>2, ChainGrows
  <2> QED BY <1>0, <2>1, <2>2, <2>5, OnwardKeeps
<1>7. CASE part \in Nodes /\ Push(part) /\ ~ (Len(frames) < FrameMax)
  <2>1. stage' = "failed"
    BY <1>7 DEF Push
  <2> QED BY <1>0, <2>1, OnwardKeeps
<1> QED BY <1>5, <1>6, <1>7 DEF CheckField

\* An item of a union enum.
LEMMA ItemKeeps ==
  ASSUME RecursionInv, CheckItem, StructsTyped'
  PROVE  RecursionInv'
<1>0. /\ stage = "checking" /\ shape' = shape /\ unchecked' = unchecked /\ walked' = walked \cup {Cur.node}
      /\ ~ AtEnd /\ StructsTyped /\ frames # <<>> /\ DoneIn(frames, CleanNodes) /\ ChainOK(frames, walked)
      /\ Kind(Cur.node) = "UnionEnum"
  BY DEF CheckItem, RecursionInv, StructsTyped
<1>1. /\ Len(frames) \in Nat \ {0} /\ Cur = frames[Len(frames)] /\ Cur.node \in Nodes /\ Cur.at \in Nat \ {0}
      /\ shape \in Shapes /\ frames \in Seq(NodeFrames)
  BY <1>0, CurIs DEF StructsTyped
<1> DEFINE part == Parts(Cur.node)[Cur.at]
<1>2. part \in Nodes /\ part \in Contained(Cur.node)
  <2>1. Len(Parts(Cur.node)) \in Nat
    BY <1>1, PartsAre
  <2>2. Cur.at \in 1 .. Len(Parts(Cur.node))
    BY <1>0, <1>1, <2>1 DEF AtEnd
  <2>3. part \in Nodes
    BY <1>0, <1>1, <2>2, PartsAre
  <2> QED BY <1>1, <2>2, <2>3, PartsAre
<1>3. CASE frames' = Append(frames, Frame(part)) /\ UNCHANGED stage
  <2>1. DoneIn(frames', CleanNodes)
    <3>1. \A i \in 1 .. Len(frames) : i = Len(frames) => frames[i].at \in Nat
      BY <1>1
    <3> HIDE DEF part
    <3> QED BY <1>0, <1>1, <1>2, <1>3, <3>1, DoneItem
  <2>2. /\ frames' \in Seq(NodeFrames) /\ Len(frames') = Len(frames) + 1 /\ frames'[Len(frames')].node = part
        /\ \A i \in 1 .. Len(frames) : frames'[i] = frames[i]
    <3> HIDE DEF part
    <3> QED BY <1>1, <1>2, <1>3, PushedIs
  <2>3. ChainOK(frames', walked \cup {Cur.node})
    <3> HIDE DEF part
    <3>1. Begun(frames'[Len(frames)])
      BY <1>0, <1>1, <2>2 DEF Begun
    <3> QED BY <1>0, <1>2, <2>2, <3>1, ChainGrows
  <2> QED BY <1>0, <1>3, <2>1, <2>3, OnwardKeeps
<1>4. CASE stage' = "failed"
  BY <1>0, <1>4, OnwardKeeps
<1> QED BY <1>3, <1>4 DEF CheckItem

\* The end of a structure or item: it contains only what is clean, so it is clean.
LEMMA LeaveKeeps ==
  ASSUME RecursionInv, CheckLeave, StructsTyped'
  PROVE  RecursionInv'
<1>0. /\ stage = "checking" /\ shape' = shape /\ walked' = walked \ {Cur.node} /\ frames' = Front(frames)
      /\ AtEnd /\ StructsTyped /\ frames # <<>> /\ frames \in Seq(NodeFrames)
      /\ DoneIn(frames, CleanNodes) /\ ChainOK(frames, walked)
  BY DEF CheckLeave, Left, RecursionInv, StructsTyped
<1>1. Cur.node \in CleanNodes
  <2>1. Contained(Cur.node) \subseteq CleanNodes
    BY <1>0, DoneAll
  <2> QED BY <1>0, <2>1, CurIs, CleanFrom
<1>2. CASE Len(frames) = 1
  <2>1. stage' = "loading" /\ unchecked' = unchecked \ {Cur.node}
    BY <1>2 DEF CheckLeave
  <2>2. CleanNodes' = CleanNodes
    BY <1>0, CleanNext
  <2>3. Unrecursed'
    BY <1>0, <1>1, <2>1, <2>2 DEF RecursionInv, Unrecursed, Kind
  <2> QED BY <2>1, <2>3 DEF RecursionInv, StopJustified
<1>3. CASE Len(frames) # 1
  <2>1. stage' = stage /\ unchecked' = unchecked
    BY <1>3 DEF CheckLeave
  <2>2. frames[Len(frames)].node \in CleanNodes
    BY <1>0, <1>1, CurIs
  <2>3. DoneIn(frames', CleanNodes)
    BY <1>0, <2>2, DoneLeave
  <2>4. ChainOK(frames', walked')
    BY <1>0, ChainLeaves
  <2> QED BY <1>0, <2>1, <2>3, <2>4, OnwardKeeps
<1> QED BY <1>2, <1>3

\* For any declarations of finitely many nodes and any room for frames: when the
\* loader has checked a structure, nothing it contains contains itself, and it ends
\* the process for such a structure, for one that contains a union enum or for one
\* without fields only (_is_struct_recursed).
THEOREM RecursionDetected == StructsSpec => []RecursionFound
<1>1. StructsInit => RecursionInv
  BY DEF StructsInit, RecursionInv, StructsTyped, StopJustified, Unrecursed, Kind
<1>2. RecursionInv /\ [StructsNext]_struct => RecursionInv'
  <2> SUFFICES ASSUME RecursionInv, [StructsNext]_struct PROVE RecursionInv'
    OBVIOUS
  <2>0. StructsTyped' /\ StructsTyped
    BY TypedKept DEF RecursionInv
  <2>1. ASSUME NEW n \in Nodes, BeginCheck(n) PROVE RecursionInv'
    <3>1. /\ shape' = shape /\ unchecked' = unchecked /\ stage = "loading" /\ stage' = "checking"
          /\ frames' = <<Frame(n)>> /\ walked' = {}
      BY <2>1 DEF BeginCheck
    <3>2. DoneIn(frames', CleanNodes)
      BY <3>1, DoneStart
    <3>3. ChainOK(frames', walked')
      BY <3>1 DEF ChainOK
    <3>4. CleanNodes' = CleanNodes
      BY <3>1, CleanNext
    <3>5. DoneIn(frames, CleanNodes)' /\ ChainOK(frames, walked)'
      <4>1. DoneIn(frames', CleanNodes')
        BY <3>2, <3>4
      <4> QED BY <3>1, <3>3, <4>1, DoneNext, ChainNext
    <3>6. Unrecursed'
      BY <3>1, <3>4 DEF RecursionInv, Unrecursed, Kind
    <3> QED BY <2>0, <3>1, <3>5, <3>6 DEF RecursionInv, StopJustified
  <2>2. CASE CheckRecursed \/ CheckItemField
    <3>1. stage = "checking" /\ CheckStops /\ frames # <<>> /\ ChainOK(frames, walked)
      BY <2>0, <2>2 DEF CheckRecursed, Recursed, CheckItemField, RecursionInv, StructsTyped
    <3>2. Blamed(frames[1].node)
      BY <2>0, <2>2, <3>1, RecursedBlamed, ItemBlamed DEF CheckRecursed
    <3>3. stage' = "stopped" /\ Blamed(frames[1].node)'
      BY <3>1, <3>2, BlamedNext DEF CheckStops
    <3> QED BY <2>0, <3>3 DEF RecursionInv, StopJustified
  <2>3. CASE CheckEmpty
    <3>1. stage' = "stopped" /\ AtEnd'
      BY <2>3 DEF CheckEmpty, CheckStops, AtEnd, Cur, Parts
    <3> QED BY <2>0, <3>1 DEF RecursionInv, StopJustified
  <2>4. CASE CheckField \/ CheckItem \/ CheckLeave
    BY <2>0, <2>4, FieldKeeps, ItemKeeps, LeaveKeeps
  <2>5. CASE Loaded \/ DeclaredByHost \/ \E n \in Nodes : BeginPrepare(n)
    <3>1. stage' \in {"ready", "preparing"}
      BY <2>5 DEF Loaded, DeclaredByHost, BeginPrepare
    <3> QED BY <2>0, <3>1 DEF RecursionInv, StopJustified
  <2>6. CASE PreparePart
    <3>1. stage' \in {"preparing", "failed"}
      BY <2>6 DEF PreparePart, Push
    <3> QED BY <2>0, <3>1 DEF RecursionInv, StopJustified
  <2>7. CASE PrepareSelf
    <3>1. stage' \in {"preparing", "ready"} \/ (stage' = "stopped" /\ AtEnd')
      BY <2>7 DEF PrepareSelf, AtEnd, Cur, Parts
    <3> QED BY <2>0, <3>1 DEF RecursionInv, StopJustified
  <2>8. CASE UNCHANGED struct
    <3>1. /\ shape' = shape /\ unchecked' = unchecked /\ stage' = stage /\ frames' = frames /\ walked' = walked /\ laid' = laid
      BY <2>8 DEF struct
    <3>2. CleanNodes' = CleanNodes
      BY <3>1, CleanNext
    <3>3. StopJustified'
      <4>1. AtEnd' <=> AtEnd
        BY <3>1 DEF AtEnd, Cur, Parts
      <4> QED BY <3>1, <4>1, BlamedNext DEF RecursionInv, StopJustified
    <3>4. (stage \in {"loading", "checking"} => Unrecursed)'
      BY <3>1, <3>2 DEF RecursionInv, Unrecursed, Kind
    <3>5. (stage = "checking" => DoneIn(frames, CleanNodes) /\ ChainOK(frames, walked))'
      <4>1. stage = "checking" => DoneIn(frames', CleanNodes') /\ ChainOK(frames', walked')
        BY <3>1, <3>2 DEF RecursionInv
      <4> QED BY <3>1, <4>1, DoneNext, ChainNext
    <3> QED BY <2>0, <3>3, <3>4, <3>5 DEF RecursionInv
  <2> QED BY <2>1, <2>2, <2>3, <2>4, <2>5, <2>6, <2>7, <2>8 DEF StructsNext
<1>3. RecursionInv => RecursionFound
  BY DEF RecursionInv, RecursionFound, Unrecursed, CleanNodes, Clean, StopJustified, Blamed
<1> QED BY <1>1, <1>2, <1>3, PTL DEF StructsSpec

-----------------------------------------------------------------------------
(* The deferred definitions of a file.                                     *)

Loading == {"reading", "read"}
NextCustom == IF todo = <<>> THEN {} ELSE {Head(todo)}

\* A deferred definition is listed, then registered; between the two it is the next
\* to be interned.  One that is registered without being listed was there before.
DeferredInv ==
  /\ phase \notin Loading => customs = {} /\ named = {} /\ earlier = {}
  /\ phase = "read" => todo = <<>>
  /\ \A d \in customs : d.id = "Custom"
  /\ named \subseteq customs \cup earlier
  /\ phase \in Loading => \A d \in type_defs : d.id = "Custom" => d \in customs \cup earlier
  /\ \A d \in customs : (d \in named /\ d \in type_defs) \/ d \in NextCustom

\* The steps that read on: nothing is left to be interned.
LEMMA ReadOnKeeps ==
  ASSUME DeferredInv, Reading, UNCHANGED <<type_defs, earlier, customs, named>>,
         phase' = "reading" \/ (phase' = "read" /\ todo' = todo)
  PROVE  DeferredInv'
BY DEF DeferredInv, Reading, NextCustom, Loading

\* The end of a load drops what it has listed.
LEMMA ForgetKeeps ==
  ASSUME DeferredInv, NEW p \in {"idle", "stopped"}, Forget(p)
  PROVE  DeferredInv'
BY DEF DeferredInv, Forget, Loading

\* For any types, values and bounds: when a file has been read, every deferred
\* definition that its types refer to is listed for load_module() to resolve, except
\* what a load that failed has left registered.
THEOREM DeferredListed == LoaderSpec => []DeferredAreListed
<1>1. LoaderInit => DeferredInv
  BY DEF LoaderInit, DeferredInv, Loading
<1>2. DeferredInv /\ [LoaderNext]_loader => DeferredInv'
  <2> SUFFICES ASSUME DeferredInv, [LoaderNext]_loader PROVE DeferredInv'
    OBVIOUS
  <2>1. CASE BeginLoad
    BY <2>1 DEF BeginLoad, DeferredInv, Loading, NextCustom
  <2>2. CASE NextSection
    BY <2>2, ReadOnKeeps DEF NextSection, Reading
  <2>3. CASE EndMembers
    BY <2>3, ReadOnKeeps DEF EndMembers, Reading
  <2>4. CASE ReadUnknown \/ FailLoad
    BY <2>4, ForgetKeeps DEF ReadUnknown, FailLoad
  <2>5. CASE CollectFailed
    BY <2>5 DEF CollectFailed, DeferredInv, Loading
  <2>6. CASE ListCustom
    BY <2>6 DEF ListCustom, DeferredInv, Loading, NextCustom
  <2>7. CASE RegisterCustom
    BY <2>7 DEF RegisterCustom, Settled, DeferredInv, Loading, NextCustom
  <2>8. CASE RegisterNesting
    BY <2>8 DEF RegisterNesting, Nesting, DeferredInv, Loading, NextCustom
  <2>9. CASE \E ts \in TypeLists : ReadModule(ts) \/ (Len(ts) < 2 /\ ReadScopedEnum(ts))
    BY <2>9, ReadOnKeeps DEF ReadModule, ReadScopedEnum, Reading
  <2>10. CASE ReadUnionEnum \/ ReadUnionEnumItem \/ ReadFn
    BY <2>10, ReadOnKeeps DEF ReadUnionEnum, ReadUnionEnumItem, ReadFn, Reading
  <2>11. CASE ReadTypelessItem
    BY <2>11, ReadOnKeeps DEF ReadTypelessItem, ReadRecord, Reading
  <2>12. CASE \E ts \in TypeLists, vs \in BoundedSeq(Values, 1) : ReadOverloading(ts, vs)
    BY <2>12, ReadOnKeeps DEF ReadOverloading, ReadRecord, Reading
  <2>13. CASE \E t \in Types : ReadItemField(t) \/ ReadPlainField(t)
    BY <2>13, ReadOnKeeps DEF ReadItemField, ReadPlainField, ReadRecord, Reading
  <2>14. CASE \E v \in Values : ReadItem(v) \/ \E t \in Types : ReadField(t, v)
    BY <2>14, ReadOnKeeps, ForgetKeeps DEF ReadItem, ReadField, AppendInitialised, ReadRecord, Reading
  <2>15. CASE UNCHANGED loader
    BY <2>15 DEF loader, DeferredInv, NextCustom
  <2> QED BY <2>1, <2>2, <2>3, <2>4, <2>5, <2>6, <2>7, <2>8, <2>9, <2>10, <2>11, <2>12, <2>13, <2>14, <2>15 DEF LoaderNext
<1>3. DeferredInv => DeferredAreListed
  BY DEF DeferredInv, DeferredAreListed, NextCustom
<1> QED BY <1>1, <1>2, <1>3, PTL DEF LoaderSpec

-----------------------------------------------------------------------------
(* Values and fields.                                                      *)

Records == Types \cup {"item", "overloading"}
ObjKinds == {"Module", "Class", "Interface", "Struct", "ScopedEnum", "UnionEnum", "UnionEnumItem", "Fn"}
Objs == [kind : ObjKinds, records : Seq(Records), listed : BOOLEAN]
Frames == [of : Nat, section : (1..11) \ {8}, index : Nat]
          \cup [of : Nat, section : {8}, index : Nat, base : TypeLists, place : Nat]
Inits == [of : Nat, index : Nat, value : Values]

\* One loop is under way for an object, and the loop over its fields counts the
\* records that it has; before that loop a module has no records.
FrameOK(s, os) ==
  /\ s.of \in DOMAIN os
  /\ s.section < 7 => os[s.of].records = <<>>
  /\ s.section = 7 => s.index = Len(os[s.of].records)
  /\ s.section = 8 => os[s.of].kind = "ScopedEnum"

LoadTyped ==
  /\ objects \in Seq(Objs) /\ stack \in Seq(Frames) /\ inits \in Seq(Inits)
  /\ phase = "reading" => stack # <<>>
  /\ phase \notin Loading => inits = <<>>

FramesOK ==
  /\ \A i \in DOMAIN stack : FrameOK(stack[i], objects)
  /\ \A i, j \in DOMAIN stack : stack[i].of = stack[j].of => i = j

InitsInside == \A j \in DOMAIN inits : inits[j].of \in DOMAIN objects

ValuesInv == LoadTyped /\ FramesOK /\ InitsInside /\ ValuesBelongToFields

\* The value k belongs to its field.
Belongs(k, is, os) ==
  /\ is[k].index < Len(os[is[k].of].records)
  /\ Fits(os[is[k].of].records[is[k].index + 1], is[k].value)
  /\ \A j \in DOMAIN is : (is[j].of = is[k].of /\ is[j].index = is[k].index) => j = k
BelongIn(is, os) == \A k \in DOMAIN is : os[is[k].of].kind # "ScopedEnum" => Belongs(k, is, os)

\* Whether the values kept belong to their fields depends on them and on the objects,
LEMMA BelongIs == ValuesBelongToFields <=> BelongIn(inits, objects)
BY Zenon DEF ValuesBelongToFields, BelongIn, Belongs

\* after a step as well.
LEMMA BelongNext == ValuesBelongToFields' <=> BelongIn(inits', objects')
BY Zenon DEF ValuesBelongToFields, BelongIn, Belongs

\* Changing one element of a sequence.
LEMMA Updated ==
  ASSUME NEW S, NEW s \in Seq(S), NEW i \in DOMAIN s, NEW e \in S, NEW t, t = [s EXCEPT ![i] = e]
  PROVE  /\ t \in Seq(S) /\ DOMAIN t = DOMAIN s /\ Len(t) = Len(s) /\ t[i] = e
         /\ \A j \in DOMAIN s : j # i => t[j] = s[j]
OBVIOUS

\* The loop under way is the last on the stack.
LEMMA HereIs ==
  ASSUME ValuesInv, phase = "reading"
  PROVE  /\ Len(stack) \in DOMAIN stack /\ Here = stack[Len(stack)] /\ Here \in Frames
         /\ FrameOK(Here, objects) /\ Len(stack) \in Nat \ {0}
<1>1. stack \in Seq(Frames) /\ stack # <<>>
  BY DEF ValuesInv, LoadTyped, Loading
<1>2. Len(stack) \in DOMAIN stack /\ Here = stack[Len(stack)] /\ Len(stack) \in Nat \ {0}
  BY <1>1 DEF Here, Last
<1> QED BY <1>1, <1>2 DEF ValuesInv, FramesOK

\* Counting one more in the loop under way.
LEMMA CountedIs ==
  ASSUME ValuesInv, phase = "reading"
  PROVE  /\ Counted(stack) \in Seq(Frames) /\ Len(Counted(stack)) = Len(stack)
         /\ \A i \in DOMAIN stack : i # Len(stack) => Counted(stack)[i] = stack[i]
         /\ LET s == Counted(stack)[Len(stack)]
            IN s.of = Here.of /\ s.section = Here.section /\ s.index = Here.index + 1
<1> DEFINE n == Len(stack)
           s == [stack[n] EXCEPT !.index = @ + 1]
<1>1. stack \in Seq(Frames) /\ n \in DOMAIN stack /\ Here = stack[n] /\ Here \in Frames
  BY HereIs DEF ValuesInv, LoadTyped, Loading
<1>2. s \in Frames /\ s.of = Here.of /\ s.section = Here.section /\ s.index = Here.index + 1
  <2>1. CASE Here \in [of : Nat, section : (1..11) \ {8}, index : Nat]
    <3>1. s \in [of : Nat, section : (1..11) \ {8}, index : Nat]
      BY <1>1, <2>1
    <3> QED BY <1>1, <2>1, <3>1 DEF Frames
  <2>2. CASE Here \in [of : Nat, section : {8}, index : Nat, base : TypeLists, place : Nat]
    <3>1. s \in [of : Nat, section : {8}, index : Nat, base : TypeLists, place : Nat]
      BY <1>1, <2>2
    <3> QED BY <1>1, <2>2, <3>1 DEF Frames
  <2> QED BY <1>1, <2>1, <2>2 DEF Frames
<1>3. Counted(stack) = [stack EXCEPT ![n] = s]
  BY <1>1, Zenon DEF Counted
<1> HIDE DEF s
<1>4. /\ Counted(stack) \in Seq(Frames) /\ Len(Counted(stack)) = Len(stack) /\ Counted(stack)[n] = s
      /\ \A i \in DOMAIN stack : i # n => Counted(stack)[i] = stack[i]
  BY <1>1, <1>2, <1>3
<1> QED BY <1>2, <1>4

\* Objects only get more, and more records.
Grown(os, ps) ==
  \A o \in DOMAIN os :
    /\ o \in DOMAIN ps /\ ps[o].kind = os[o].kind
    /\ Len(os[o].records) <= Len(ps[o].records)
    /\ \A k \in 1 .. Len(os[o].records) : ps[o].records[k] = os[o].records[k]

\* Values belong to their fields when objects have been added and fields appended.
LEMMA GrownBelong ==
  ASSUME NEW os \in Seq(Objs), NEW ps \in Seq(Objs), NEW is \in Seq(Inits), Grown(os, ps), BelongIn(is, os),
         \A j \in DOMAIN is : is[j].of \in DOMAIN os
  PROVE  BelongIn(is, ps)
<1> SUFFICES ASSUME NEW k \in DOMAIN is, ps[is[k].of].kind # "ScopedEnum" PROVE Belongs(k, is, ps)
  BY DEF BelongIn
<1> DEFINE o == is[k].of
<1>1. o \in DOMAIN os /\ o \in DOMAIN ps /\ is[k].index \in Nat
  <2>1. is[k] \in Inits
    OBVIOUS
  <2> QED BY <2>1 DEF Inits, Grown
<1>2. Belongs(k, is, os)
  BY <1>1 DEF BelongIn, Grown
<1>3. Len(os[o].records) \in Nat /\ Len(ps[o].records) \in Nat
  BY <1>1 DEF Objs
<1>4. is[k].index + 1 \in 1 .. Len(os[o].records)
  BY <1>1, <1>2, <1>3 DEF Belongs
<1>5. Len(os[o].records) <= Len(ps[o].records) /\ ps[o].records[is[k].index + 1] = os[o].records[is[k].index + 1]
  BY <1>1, <1>4 DEF Grown
<1> QED BY <1>1, <1>2, <1>3, <1>5 DEF Belongs

\* A new object has no fields.
LEMMA ObjectIs ==
  ASSUME NEW kind \in ObjKinds
  PROVE  Object(kind) \in Objs /\ Object(kind).records = <<>> /\ Object(kind).kind = kind
BY DEF Object, Objs

\* A new object, with a loop of its own.
Pushes(kind, f) ==
  /\ phase = "reading" /\ phase' = "reading" /\ inits' = inits
  /\ objects' = Append(objects, Object(kind))
  /\ f.of = New /\ f.section # 7 /\ (f.section = 8 => kind = "ScopedEnum")
  /\ stack' = Append(stack, f) \/ (stack' = Append(Counted(stack), f) /\ Here.section # 7)

\* Beginning with an object that is nested keeps the invariant.
LEMMA PushKeeps ==
  ASSUME ValuesInv, NEW kind \in ObjKinds, NEW f \in Frames, Pushes(kind, f)
  PROVE  ValuesInv'
<1> DEFINE n == Len(stack)
           N == Len(objects) + 1
<1>0. /\ objects \in Seq(Objs) /\ stack \in Seq(Frames) /\ inits \in Seq(Inits) /\ n \in Nat \ {0} /\ N \in Nat
      /\ DOMAIN stack = 1 .. n /\ DOMAIN objects = 1 .. N - 1
  BY HereIs DEF ValuesInv, LoadTyped, Pushes
<1>9. /\ phase = "reading" /\ phase' = "reading" /\ inits' = inits /\ objects' = Append(objects, Object(kind))
      /\ f.of = N /\ f.section # 7 /\ (f.section = 8 => kind = "ScopedEnum")
      /\ stack' = Append(stack, f) \/ (stack' = Append(Counted(stack), f) /\ Here.section # 7)
  BY DEF Pushes, New
<1>1. /\ objects' \in Seq(Objs) /\ DOMAIN objects' = 1 .. N /\ objects'[N] = Object(kind)
      /\ \A o \in DOMAIN objects : objects'[o] = objects[o]
  BY <1>0, <1>9, ObjectIs
<1>2. PICK st \in Seq(Frames) :
        /\ stack' = Append(st, f) /\ Len(st) = n
        /\ \A i \in 1 .. n : /\ st[i].of = stack[i].of /\ st[i].section = stack[i].section
                             /\ st[i].section = 7 => st[i].index = stack[i].index
  <2>1. CASE stack' = Append(stack, f)
    BY <1>0, <2>1
  <2>2. CASE stack' = Append(Counted(stack), f) /\ Here.section # 7
    BY <1>0, <1>9, <2>2, CountedIs, HereIs
  <2> QED BY <1>9, <2>1, <2>2
<1>3. stack' \in Seq(Frames) /\ DOMAIN stack' = 1 .. n + 1 /\ stack'[n + 1] = f /\ stack' # <<>>
      /\ \A i \in 1 .. n : stack'[i] = st[i]
  BY <1>0, <1>2
<1>4. \A i \in 1 .. n : FrameOK(stack[i], objects) /\ stack[i].of \in 1 .. N - 1
  BY <1>0 DEF ValuesInv, FramesOK, FrameOK
<1>5. FramesOK'
  <2>1. ASSUME NEW i \in 1 .. n PROVE FrameOK(stack'[i], objects')
    <3>1. /\ stack'[i].of = stack[i].of /\ stack'[i].section = stack[i].section
          /\ stack'[i].section = 7 => stack'[i].index = stack[i].index
      BY <1>2, <1>3
    <3>2. FrameOK(stack[i], objects) /\ stack[i].of \in DOMAIN objects
      BY <1>4 DEF FrameOK
    <3>3. objects'[stack[i].of] = objects[stack[i].of] /\ stack[i].of \in DOMAIN objects'
      BY <1>0, <1>1, <3>2
    <3> QED BY <3>1, <3>2, <3>3 DEF FrameOK
  <2>2. FrameOK(f, objects')
    BY <1>0, <1>1, <1>9, ObjectIs DEF FrameOK
  <2>3. ASSUME NEW i \in 1 .. n + 1, NEW j \in 1 .. n + 1, stack'[i].of = stack'[j].of PROVE i = j
    <3>1. f.of = N
      BY <1>9
    <3>2. \A l \in 1 .. n : stack'[l].of = stack[l].of
      BY <1>2, <1>3
    <3>3. \A l \in 1 .. n : stack'[l].of # N
      BY <1>0, <1>4, <3>2
    <3>4. \A l \in 1 .. n + 1 : l \in 1 .. n \/ (l = n + 1 /\ stack'[l].of = N)
      BY <1>0, <1>3, <3>1
    <3>5. \A l, q \in 1 .. n : stack[l].of = stack[q].of => l = q
      BY <1>0 DEF ValuesInv, FramesOK
    <3> HIDE DEF N, n
    <3> QED BY <2>3, <3>2, <3>3, <3>4, <3>5
  <2>4. \A i \in DOMAIN stack' : FrameOK(stack'[i], objects')
    <3> SUFFICES ASSUME NEW i \in DOMAIN stack' PROVE FrameOK(stack'[i], objects')
      OBVIOUS
    <3>1. i \in 1 .. n \/ i = n + 1
      BY <1>0, <1>3
    <3> QED BY <1>3, <2>1, <2>2, <3>1
  <2> QED BY <1>3, <2>3, <2>4 DEF FramesOK
<1>6. Grown(objects, objects')
  <2>1. ASSUME NEW o \in DOMAIN objects PROVE Len(objects[o].records) \in Nat
    <3>1. objects[o] \in Objs
      BY <1>0
    <3> QED BY <3>1 DEF Objs
  <2>2. \A o \in DOMAIN objects : o \in DOMAIN objects' /\ objects'[o] = objects[o]
    BY <1>0, <1>1
  <2> QED BY <2>1, <2>2 DEF Grown
<1>7. BelongIn(inits', objects')
  BY <1>0, <1>1, <1>6, <1>9, BelongIs, GrownBelong DEF ValuesInv, InitsInside
<1>8. InitsInside'
  BY <1>0, <1>1, <1>9 DEF ValuesInv, InitsInside
<1> QED BY <1>0, <1>1, <1>3, <1>5, <1>7, <1>8, <1>9, BelongNext DEF ValuesInv, LoadTyped, Loading

\* What is kept for a field that is being read.
Kept(r) ==
  \/ inits' = inits
  \/ \E x \in Nat, v \in Values :
       /\ inits' = Append(inits, [of |-> Here.of, index |-> x, value |-> v])
       /\ Here.section = 8 \/ (Here.section = 7 /\ x = Here.index /\ Fits(r, v))

\* Appending a field or an item keeps the invariant.
LEMMA RecordKeeps ==
  ASSUME ValuesInv, phase = "reading", phase' = "reading", Here.section \in 7 .. 11, NEW r \in Records,
         objects' = [objects EXCEPT ![Here.of].records = Append(@, r)], stack' = Counted(stack), Kept(r)
  PROVE  ValuesInv'
<1> DEFINE n == Len(stack)
           h == Here.of
           rs == objects[h].records
<1>0. /\ objects \in Seq(Objs) /\ stack \in Seq(Frames) /\ inits \in Seq(Inits) /\ n \in Nat \ {0} /\ n \in DOMAIN stack
      /\ DOMAIN stack = 1 .. n /\ h \in DOMAIN objects /\ rs \in Seq(Records) /\ Here = stack[n] /\ FrameOK(Here, objects)
  <2>1. /\ objects \in Seq(Objs) /\ stack \in Seq(Frames) /\ inits \in Seq(Inits) /\ n \in Nat \ {0} /\ n \in DOMAIN stack
        /\ h \in DOMAIN objects /\ Here = stack[n] /\ FrameOK(Here, objects)
    BY HereIs DEF ValuesInv, LoadTyped, FrameOK
  <2>2. objects[h] \in Objs
    BY <2>1
  <2> QED BY <2>1, <2>2 DEF Objs
<1>1. /\ objects' \in Seq(Objs) /\ DOMAIN objects' = DOMAIN objects
      /\ objects'[h].records = Append(rs, r) /\ objects'[h].kind = objects[h].kind
      /\ \A o \in DOMAIN objects : o # h => objects'[o] = objects[o]
  <2> DEFINE c == [objects[h] EXCEPT !.records = Append(rs, r)]
  <2>1. objects' = [objects EXCEPT ![h] = c]
    BY <1>0
  <2>2. c \in Objs /\ c.records = Append(rs, r) /\ c.kind = objects[h].kind
    <3>1. objects[h] \in Objs /\ Append(rs, r) \in Seq(Records)
      BY <1>0
    <3> QED BY <3>1 DEF Objs
  <2>3. objects \in Seq(Objs) /\ h \in DOMAIN objects
    BY <1>0
  <2> HIDE DEF c, h, rs
  <2>4. /\ objects' \in Seq(Objs) /\ DOMAIN objects' = DOMAIN objects /\ objects'[h] = c
        /\ \A o \in DOMAIN objects : o # h => objects'[o] = objects[o]
    <3>1. \A t : t = [objects EXCEPT ![h] = c] =>
            /\ t \in Seq(Objs) /\ DOMAIN t = DOMAIN objects /\ t[h] = c
            /\ \A o \in DOMAIN objects : o # h => t[o] = objects[o]
      BY <2>2, <2>3
    <3> QED BY <2>1, <3>1, Zenon
  <2> QED BY <2>2, <2>4
<1>2. /\ stack' \in Seq(Frames) /\ DOMAIN stack' = 1 .. n /\ stack' # <<>>
      /\ \A i \in 1 .. n : i # n => stack'[i] = stack[i]
      /\ stack'[n].of = h /\ stack'[n].section = Here.section /\ stack'[n].index = Here.index + 1
  BY <1>0, CountedIs
<1>3. Len(Append(rs, r)) = Len(rs) + 1 /\ Len(rs) \in Nat /\ Append(rs, r)[Len(rs) + 1] = r
      /\ \A k \in 1 .. Len(rs) : Append(rs, r)[k] = rs[k]
  BY <1>0
<1>4. FramesOK'
  <2>1. ASSUME NEW i \in 1 .. n, i # n PROVE FrameOK(stack'[i], objects')
    <3>1. stack[i].of # h /\ FrameOK(stack[i], objects)
      BY <1>0, <2>1 DEF ValuesInv, FramesOK
    <3> QED BY <1>1, <1>2, <2>1, <3>1 DEF FrameOK
  <2>2. FrameOK(stack'[n], objects')
    <3>1. /\ Here.section = 7 => Here.index = Len(rs)
          /\ Here.section = 8 => objects[h].kind = "ScopedEnum"
      BY <1>0 DEF FrameOK
    <3>2. h \in DOMAIN objects' /\ ~ (Here.section < 7)
      BY <1>0, <1>1
    <3>3. Here.section = 7 => Here.index + 1 = Len(objects'[h].records)
      BY <1>1, <1>3, <3>1
    <3> QED BY <1>1, <1>2, <3>1, <3>2, <3>3 DEF FrameOK
  <2>3. \A i, j \in 1 .. n : stack'[i].of = stack'[j].of => i = j
    <3>1. \A i \in 1 .. n : stack'[i].of = stack[i].of
      BY <1>0, <1>2
    <3> QED BY <1>0, <3>1 DEF ValuesInv, FramesOK
  <2> QED BY <1>2, <2>1, <2>2, <2>3 DEF FramesOK
<1>5. Grown(objects, objects')
  <2> SUFFICES ASSUME NEW o \in DOMAIN objects
               PROVE  /\ o \in DOMAIN objects' /\ objects'[o].kind = objects[o].kind
                      /\ Len(objects[o].records) <= Len(objects'[o].records)
                      /\ \A k \in 1 .. Len(objects[o].records) : objects'[o].records[k] = objects[o].records[k]
    BY DEF Grown
  <2>1. CASE o = h
    <3>1. Len(rs) <= Len(Append(rs, r)) /\ \A k \in 1 .. Len(rs) : Append(rs, r)[k] = rs[k]
      BY <1>3
    <3> QED BY <1>1, <2>1, <3>1
  <2>2. CASE o # h
    <3>1. Len(objects[o].records) \in Nat
      BY <1>0 DEF Objs
    <3> QED BY <1>1, <2>2, <3>1
  <2> QED BY <2>1, <2>2
<1>6. BelongIn(inits, objects')
  BY <1>0, <1>1, <1>5, BelongIs, GrownBelong DEF ValuesInv, InitsInside
<1>7. CASE inits' = inits
  <2>1. InitsInside'
    BY <1>1, <1>7 DEF ValuesInv, InitsInside
  <2> QED BY <1>0, <1>1, <1>2, <1>4, <1>6, <1>7, <2>1, BelongNext DEF ValuesInv, LoadTyped, Loading
<1>8. CASE \E x \in Nat, v \in Values :
             /\ inits' = Append(inits, [of |-> h, index |-> x, value |-> v])
             /\ Here.section = 8 \/ (Here.section = 7 /\ x = Here.index /\ Fits(r, v))
  <2>1. PICK x \in Nat, v \in Values :
             /\ inits' = Append(inits, [of |-> h, index |-> x, value |-> v])
             /\ Here.section = 8 \/ (Here.section = 7 /\ x = Here.index /\ Fits(r, v))
    BY <1>8
  <2> DEFINE m == Len(inits)
             e == [of |-> h, index |-> x, value |-> v]
  <2>2. e \in Inits /\ e.of = h /\ e.index = x /\ e.value = v
    BY <1>0 DEF Inits
  <2> HIDE DEF e
  <2>3. /\ inits' \in Seq(Inits) /\ DOMAIN inits' = 1 .. m + 1 /\ inits'[m + 1] = e /\ m \in Nat
        /\ DOMAIN inits = 1 .. m /\ \A j \in 1 .. m : inits'[j] = inits[j]
    BY <1>0, <2>1, <2>2 DEF e
  <2>4. InitsInside'
    <3> SUFFICES ASSUME NEW j \in DOMAIN inits' PROVE inits'[j].of \in DOMAIN objects'
      BY DEF InitsInside
    <3>1. j \in 1 .. m \/ j = m + 1
      BY <2>3
    <3>2. j \in 1 .. m => inits'[j].of \in DOMAIN objects
      BY <2>3 DEF ValuesInv, InitsInside
    <3> QED BY <1>0, <1>1, <2>2, <2>3, <3>1, <3>2
  <2>5. ASSUME Here.section = 8 PROVE BelongIn(inits', objects')
    <3>1. objects'[h].kind = "ScopedEnum"
      BY <1>0, <1>1, <2>5 DEF FrameOK
    <3>2. ASSUME NEW k \in DOMAIN inits', objects'[inits'[k].of].kind # "ScopedEnum" PROVE Belongs(k, inits', objects')
      <4>1. k # m + 1 /\ k \in 1 .. m
        BY <2>2, <2>3, <3>1, <3>2
      <4>2. Belongs(k, inits, objects') /\ inits[k].of # h
        <5>1. inits'[k] = inits[k] /\ k \in DOMAIN inits
          BY <2>3, <4>1
        <5> QED BY <1>6, <3>1, <3>2, <5>1 DEF BelongIn
      <4>3. \A j \in DOMAIN inits' : j \in 1 .. m \/ inits'[j].of = h
        BY <2>2, <2>3
      <4> QED BY <2>3, <4>1, <4>2, <4>3 DEF Belongs
    <3> QED BY <3>2 DEF BelongIn
  <2>6. ASSUME Here.section = 7 /\ x = Here.index /\ Fits(r, v) PROVE BelongIn(inits', objects')
    <3>1. x = Len(rs)
      BY <1>0, <2>6 DEF FrameOK
    <3>2. ASSUME NEW k \in DOMAIN inits', objects'[inits'[k].of].kind # "ScopedEnum" PROVE Belongs(k, inits', objects')
      <4>1. ASSUME NEW j \in 1 .. m, inits[j].of = h, objects[h].kind # "ScopedEnum" PROVE inits[j].index < x
        <5>1. BelongIn(inits, objects)
          BY BelongIs DEF ValuesInv
        <5> QED BY <2>3, <3>1, <4>1, <5>1 DEF BelongIn, Belongs
      <4>2. CASE k = m + 1
        <5>1. objects[h].kind # "ScopedEnum"
          BY <1>1, <2>2, <2>3, <3>2, <4>2
        <5>2. \A j \in DOMAIN inits' : (inits'[j].of = e.of /\ inits'[j].index = e.index) => j = m + 1
          BY <2>2, <2>3, <4>1, <5>1
        <5>3. e.index < Len(objects'[e.of].records) /\ objects'[e.of].records[e.index + 1] = r
          BY <1>1, <1>3, <2>2, <3>1
        <5> QED BY <2>2, <2>3, <2>6, <4>2, <5>2, <5>3 DEF Belongs
      <4>3. CASE k \in 1 .. m
        <5>1. Belongs(k, inits, objects')
          BY <1>6, <2>3, <3>2, <4>3 DEF BelongIn
        <5>2. ~ (inits[k].of = h /\ inits[k].index = x)
          <6>1. inits[k].index \in Nat
            <7>1. inits[k] \in Inits
              BY <1>0, <2>3, <4>3
            <7> QED BY <7>1 DEF Inits
          <6>2. inits[k].of = h => objects[h].kind # "ScopedEnum"
            BY <1>1, <2>3, <3>2, <4>3
          <6>3. inits[k].of = h => inits[k].index < x
            BY <4>1, <4>3, <6>2
          <6> QED BY <6>1, <6>3
        <5>3. inits'[k] = inits[k] /\ \A j \in DOMAIN inits' :
                (j \in 1 .. m /\ inits'[j] = inits[j]) \/ (inits'[j].of = h /\ inits'[j].index = x)
          BY <2>2, <2>3, <4>3
        <5> QED BY <2>3, <5>1, <5>2, <5>3 DEF Belongs
      <4> QED BY <2>3, <4>2, <4>3
    <3> QED BY <3>2 DEF BelongIn
  <2> QED BY <1>1, <1>2, <1>4, <2>1, <2>3, <2>4, <2>5, <2>6, BelongNext DEF ValuesInv, LoadTyped, Loading
<1> QED BY <1>7, <1>8 DEF Kept

\* The end of an object's loop: it is listed, nothing else about it changes.
LEMMA EndMembersKeeps ==
  ASSUME ValuesInv, EndMembers
  PROVE  ValuesInv'
<1> DEFINE n == Len(stack)
           h == Here.of
<1>0. /\ objects \in Seq(Objs) /\ stack \in Seq(Frames) /\ inits \in Seq(Inits) /\ n \in Nat \ {0} /\ n \in DOMAIN stack
      /\ DOMAIN stack = 1 .. n /\ h \in DOMAIN objects
  BY HereIs DEF ValuesInv, LoadTyped, FrameOK, EndMembers, Reading
<1>1. /\ objects' \in Seq(Objs) /\ DOMAIN objects' = DOMAIN objects
      /\ \A o \in DOMAIN objects : objects'[o].records = objects[o].records /\ objects'[o].kind = objects[o].kind
  <2> DEFINE c == [objects[h] EXCEPT !.listed = TRUE]
  <2>1. objects' = [objects EXCEPT ![h] = c]
    BY DEF EndMembers
  <2>2. c \in Objs /\ c.records = objects[h].records /\ c.kind = objects[h].kind
    <3>1. objects[h] \in Objs
      BY <1>0
    <3> QED BY <3>1 DEF Objs
  <2>3. objects \in Seq(Objs) /\ h \in DOMAIN objects
    BY <1>0
  <2> HIDE DEF c, h
  <2>4. \A t : t = [objects EXCEPT ![h] = c] =>
          /\ t \in Seq(Objs) /\ DOMAIN t = DOMAIN objects /\ t[h] = c
          /\ \A o \in DOMAIN objects : o # h => t[o] = objects[o]
    BY <2>2, <2>3
  <2>5. /\ objects' \in Seq(Objs) /\ DOMAIN objects' = DOMAIN objects /\ objects'[h] = c
        /\ \A o \in DOMAIN objects : o # h => objects'[o] = objects[o]
    BY <2>1, <2>4, Zenon
  <2> QED BY <2>2, <2>5
<1>2. stack' \in Seq(Frames) /\ DOMAIN stack' = 1 .. n - 1 /\ \A i \in 1 .. n - 1 : stack'[i] = stack[i]
  BY <1>0 DEF EndMembers, Front
<1>3. phase' = "reading" => stack' # <<>>
  BY <1>0, <1>2 DEF EndMembers
<1>4. inits' = inits
  BY DEF EndMembers
<1>5. FramesOK'
  <2>1. ASSUME NEW i \in 1 .. n - 1 PROVE FrameOK(stack'[i], objects')
    <3>1. FrameOK(stack[i], objects) /\ stack'[i] = stack[i]
      BY <1>0, <1>2 DEF ValuesInv, FramesOK
    <3> QED BY <1>1, <3>1 DEF FrameOK
  <2>2. \A i, j \in 1 .. n - 1 : stack'[i].of = stack'[j].of => i = j
    <3>1. \A i \in 1 .. n - 1 : i \in DOMAIN stack /\ stack'[i] = stack[i]
      BY <1>0, <1>2
    <3> QED BY <3>1 DEF ValuesInv, FramesOK
  <2> QED BY <1>2, <2>1, <2>2 DEF FramesOK
<1>6. Grown(objects, objects')
  <2>1. ASSUME NEW o \in DOMAIN objects PROVE Len(objects[o].records) \in Nat
    <3>1. objects[o] \in Objs
      BY <1>0
    <3> QED BY <3>1 DEF Objs
  <2> QED BY <1>1, <2>1 DEF Grown
<1>7. BelongIn(inits', objects')
  BY <1>0, <1>1, <1>4, <1>6, BelongIs, GrownBelong DEF ValuesInv, InitsInside
<1>8. InitsInside'
  BY <1>1, <1>4 DEF ValuesInv, InitsInside
<1>9. phase' \in Loading
  BY DEF EndMembers, Reading, Loading
<1>10. LoadTyped'
  BY <1>0, <1>1, <1>2, <1>3, <1>4, <1>9 DEF LoadTyped
<1> QED BY <1>5, <1>7, <1>8, <1>10, BelongNext DEF ValuesInv

\* Nothing is loaded.
LEMMA EmptyValues ==
  ASSUME objects' = <<>>, stack' = <<>>, inits' = <<>>, phase' # "reading"
  PROVE  ValuesInv'
BY DEF ValuesInv, LoadTyped, FramesOK, InitsInside, ValuesBelongToFields

\* What changes nothing of the values keeps the invariant.
LEMMA SameValues ==
  ASSUME ValuesInv, UNCHANGED <<objects, inits, stack, phase>>
  PROVE  ValuesInv'
<1>1. BelongIn(inits', objects')
  BY BelongIs DEF ValuesInv
<1> QED BY <1>1, BelongNext DEF ValuesInv, LoadTyped, FramesOK, InitsInside

\* Every step keeps the invariant.
LEMMA StepValues ==
  ASSUME ValuesInv, [LoaderNext]_loader
  PROVE  ValuesInv'
<1>0. /\ objects \in Seq(Objs) /\ stack \in Seq(Frames) /\ inits \in Seq(Inits)
  BY DEF ValuesInv, LoadTyped, Loading
<1>1. ASSUME Reading
      PROVE  /\ Here.of \in Nat /\ Here.section \in 1 .. 11 /\ Here.index \in Nat /\ New \in Nat /\ phase = "reading"
             /\ Here \in Frames /\ FrameOK(Here, objects) /\ Len(stack) \in Nat \ {0} /\ Len(stack) \in DOMAIN stack
             /\ Here = stack[Len(stack)]
  BY <1>0, <1>1, HereIs DEF Reading, Frames, New
<1>2. CASE BeginLoad
  <2>1. objects' = <<Object("Module")>> /\ stack' = <<Members(1)>> /\ inits' = <<>> /\ phase' = "reading"
    BY <1>2 DEF BeginLoad, ValuesInv, LoadTyped, Loading
  <2>2. objects' \in Seq(Objs) /\ DOMAIN objects' = {1} /\ objects'[1].records = <<>>
    BY <2>1, ObjectIs DEF ObjKinds
  <2>3. stack' \in Seq(Frames) /\ DOMAIN stack' = {1} /\ stack'[1].of = 1 /\ stack'[1].section = 1 /\ stack' # <<>>
    BY <2>1 DEF Members, Frames
  <2>4. FramesOK'
    BY <2>2, <2>3 DEF FramesOK, FrameOK
  <2> QED BY <2>1, <2>2, <2>3, <2>4 DEF ValuesInv, LoadTyped, Loading, InitsInside, ValuesBelongToFields
<1>3. CASE NextSection
  <2> DEFINE f == Loop(Here.of, Here.section + 1)
             n == Len(stack)
  <2>1. f \in Frames /\ f.of = Here.of /\ f.section = Here.section + 1 /\ f.index = 0 /\ Here.section < 7
    BY <1>1, <1>3 DEF NextSection, Loop, Frames, Sections
  <2>2. stack' = [stack EXCEPT ![n] = f] /\ UNCHANGED <<objects, inits, phase>>
    BY <1>3 DEF NextSection
  <2>3. n \in DOMAIN stack /\ Here = stack[n] /\ FrameOK(Here, objects)
    BY <1>1, <1>3 DEF NextSection
  <2> HIDE DEF f, n
  <2>4. /\ stack' \in Seq(Frames) /\ DOMAIN stack' = DOMAIN stack /\ stack'[n] = f
        /\ \A i \in DOMAIN stack : i # n => stack'[i] = stack[i]
    BY <1>0, <2>1, <2>2, <2>3
  <2>5. FrameOK(f, objects)
    BY <1>1, <1>3, <2>1, <2>3 DEF FrameOK, NextSection
  <2>6. FramesOK'
    <3>1. ASSUME NEW i \in DOMAIN stack PROVE FrameOK(stack'[i], objects') /\ stack'[i].of = stack[i].of
      BY <2>1, <2>2, <2>3, <2>4, <2>5 DEF ValuesInv, FramesOK
    <3> QED BY <2>4, <3>1 DEF ValuesInv, FramesOK
  <2>7. stack' # <<>>
    BY <1>0, <2>3, <2>4
  <2>8. BelongIn(inits', objects')
    BY <2>2, BelongIs DEF ValuesInv
  <2> QED BY <2>2, <2>4, <2>6, <2>7, <2>8, BelongNext DEF ValuesInv, LoadTyped, InitsInside, Loading
<1>4. CASE EndMembers
  BY <1>4, EndMembersKeeps
<1>5. CASE ReadUnknown \/ FailLoad
  BY <1>5, EmptyValues DEF ReadUnknown, FailLoad, Forget
<1>6. CASE CollectFailed \/ ListCustom \/ RegisterCustom \/ RegisterNesting
  BY <1>6, SameValues DEF CollectFailed, ListCustom, RegisterCustom, RegisterNesting
<1>7. ASSUME NEW types \in TypeLists, ReadModule(types) PROVE ValuesInv'
  <2>1. Section \in ObjKinds /\ Here.section # 7
    <3>1. Here.section = 1 \/ Here.section = 2 \/ Here.section = 3
      BY <1>1, <1>7 DEF ReadModule
    <3> QED BY <3>1 DEF Section, Sections, ObjKinds
  <2>2. Members(New) \in Frames /\ Members(New).of = New /\ Members(New).section = 1
    BY <1>1, <1>7 DEF ReadModule, Members, Frames
  <2>3. Pushes(Section, Members(New))
    BY <1>1, <1>7, <2>1, <2>2 DEF ReadModule, Pushes
  <2> QED BY <2>1, <2>2, <2>3, PushKeeps
<1>8. ASSUME NEW types \in TypeLists, ReadScopedEnum(types) PROVE ValuesInv'
  <2> DEFINE f == [of |-> New, section |-> 8, index |-> 0, base |-> types, place |-> Here.index]
  <2>1. f \in Frames /\ f.of = New /\ f.section = 8
    BY <1>1, <1>8 DEF ReadScopedEnum, Frames
  <2>2. stack' = Append(Counted(stack), f)
    BY <1>8 DEF ReadScopedEnum
  <2> HIDE DEF f
  <2>3. Pushes("ScopedEnum", f)
    BY <1>1, <1>8, <2>1, <2>2 DEF ReadScopedEnum, Pushes
  <2> QED BY <2>1, <2>3, PushKeeps DEF ObjKinds
<1>9. ASSUME NEW k \in 9 .. 11, Reading
      PROVE  Loop(New, k) \in Frames /\ Loop(New, k).of = New /\ Loop(New, k).section = k
  BY <1>1, <1>9 DEF Loop, Frames
<1>10. CASE ReadUnionEnum
  <2>1. Pushes("UnionEnum", Loop(New, 9))
    BY <1>1, <1>9, <1>10 DEF ReadUnionEnum, Pushes
  <2> QED BY <1>9, <1>10, <2>1, PushKeeps DEF ReadUnionEnum, ObjKinds
<1>11. CASE ReadUnionEnumItem
  <2>1. Pushes("UnionEnumItem", Loop(New, 10))
    BY <1>1, <1>9, <1>11 DEF ReadUnionEnumItem, Pushes
  <2> QED BY <1>9, <1>11, <2>1, PushKeeps DEF ReadUnionEnumItem, ObjKinds
<1>12. CASE ReadFn
  <2>1. Pushes("Fn", Loop(New, 11))
    BY <1>1, <1>9, <1>12 DEF ReadFn, Pushes
  <2> QED BY <1>9, <1>12, <2>1, PushKeeps DEF ReadFn, ObjKinds
\* The records.
<1>13. ASSUME NEW r \in Records, NEW ts, NEW owner, Reading, Here.section \in 7 .. 11, ReadRecord(r, ts, owner), Kept(r)
       PROVE  ValuesInv'
  BY <1>1, <1>13, RecordKeeps DEF ReadRecord
<1>14. CASE ReadTypelessItem
  BY <1>13, <1>14 DEF ReadTypelessItem, Records, Kept
<1>15. CASE \E ts \in TypeLists, vs \in BoundedSeq(Values, 1) : ReadOverloading(ts, vs)
  BY <1>13, <1>15 DEF ReadOverloading, Records, Kept
<1>16. CASE \E t \in Types : ReadItemField(t) \/ ReadPlainField(t)
  BY <1>13, <1>16 DEF ReadItemField, ReadPlainField, Records, Kept
<1>17. ASSUME NEW t \in Types, NEW v \in Values, NEW ts, Reading, Here.section \in {7, 8},
              Here.section = 8 => Index \in Nat, AppendInitialised(t, v, ts)
       PROVE  ValuesInv'
  <2>1. CASE Forget("stopped")
    BY <2>1, EmptyValues DEF Forget
  <2>2. CASE /\ Fits(t, v) /\ inits' = Append(inits, [of |-> Here.of, index |-> Index, value |-> v])
             /\ ReadRecord(t, ts, <<Here.of>>)
    <3>1. Index \in Nat /\ (Here.section = 7 => Index = Here.index)
      BY <1>1, <1>17 DEF Index
    <3>2. Kept(t)
      BY <1>17, <2>2, <3>1 DEF Kept
    <3> QED BY <1>13, <1>17, <2>2, <3>2 DEF Records
  <2> QED BY <1>17, <2>1, <2>2 DEF AppendInitialised
<1>18. CASE \E v \in Values : ReadItem(v)
  <2>1. PICK v \in Values : ReadItem(v)
    BY <1>18
  <2>2. Reading /\ Here.section = 8 /\ Here.base # <<>> /\ AppendInitialised(Here.base[1], v, v.types)
    BY <2>1 DEF ReadItem
  <2>3. Here \in [of : Nat, section : {8}, index : Nat, base : TypeLists, place : Nat]
    BY <1>1, <2>2 DEF Frames
  <2>4. Here.base \in Seq(Types) /\ Here.place \in Nat
    BY <2>3, LoaderAssumption
  <2>5. Here.base[1] \in Types
    BY <2>2, <2>4
  <2>6. Index \in Nat
    BY <2>2, <2>4 DEF Index
  <2> QED BY <1>17, <2>2, <2>5, <2>6
<1>19. CASE \E v \in Values, t \in Types : ReadField(t, v)
  <2>1. PICK v \in Values, t \in Types : ReadField(t, v)
    BY <1>19
  <2> QED BY <1>17, <2>1 DEF ReadField
<1>20. CASE UNCHANGED loader
  BY <1>20, SameValues DEF loader
<1> QED BY <1>2, <1>3, <1>4, <1>5, <1>6, <1>7, <1>8, <1>10, <1>11, <1>12, <1>14, <1>15, <1>16, <1>18, <1>19, <1>20 DEF LoaderNext

\* For any types, values and bounds: a value kept for the end of the load belongs to a
\* field of its object that it fits and to no other's, but for enumerations
\* (load_module_members).
THEOREM ValuesOfFields == LoaderSpec => []ValuesBelongToFields
<1>1. LoaderInit => ValuesInv
  BY DEF LoaderInit, ValuesInv, LoadTyped, FramesOK, InitsInside, ValuesBelongToFields
<1>2. ValuesInv /\ [LoaderNext]_loader => ValuesInv'
  BY StepValues
<1>3. ValuesInv => ValuesBelongToFields
  BY DEF ValuesInv
<1> QED BY <1>1, <1>2, <1>3, PTL DEF LoaderSpec

-----------------------------------------------------------------------------
(* The cache of generic instances.                                         *)

Running == {"walking", "slots", "packs", "caching"}

\* The slots whose contents a request can rely on, and what they hold in the end.
Tracked(o) == {l \in DOMAIN Slots(o) : Slots(o)[l].ref = "" /\ Slots(o)[l].type.name \notin Slots(o)[l].hidden}
Filled(o, args, k) ==
  LET s == Slots(o)[k]
  IN IF s.type.id = "GenericArg" /\ Visited(o, args, s)
     THEN LET p == Params(o, s) IN args[CHOOSE j \in DOMAIN p : p[j] = s.type.name]
     ELSE s.type
Final(o, args, k) == InPlace(Slots(o)[k], Filled(o, args, k))

HeapOK ==
  \A i \in DOMAIN heap :
    DOMAIN heap[i] = {"original", "args", "types"} /\ DOMAIN heap[i].types = DOMAIN Slots(heap[i].original)

\* What is being made is in no cache yet; the slots before job.at are done and
\* those from there on are as they were copied.
JobOK ==
  step \in Running =>
    /\ DOMAIN job = {"original", "args", "value", "at"} /\ job.original \in Originals /\ job.at \in Nat
    /\ job.value \in DOMAIN heap /\ heap[job.value].original = job.original /\ heap[job.value].args = job.args
    /\ \A o \in DOMAIN dir : \A a \in DOMAIN dir[o] : dir[o][a] # job.value
    /\ \A k \in Tracked(job.original) :
         heap[job.value].types[k] = IF step = "caching" THEN Final(job.original, job.args, k)
                                    ELSE IF k < job.at THEN Filled(job.original, job.args, k) ELSE Mine[k].type
    /\ step \in {"packs", "caching"} => job.at > Len(Mine)

GenericInv == HeapOK /\ CacheSound /\ JobOK

Entry(h, i, o, a) ==
  /\ i \in DOMAIN h /\ h[i].original = o /\ h[i].args = a
  /\ \A k \in Tracked(o) : h[i].types[k] = Final(o, a, k)

SoundIn(h, d) == \A o \in DOMAIN d : \A a \in DOMAIN d[o] : Entry(h, d[o][a], o, a)

\* Whether the cache is sound depends on the heap and the directory,
LEMMA CacheSoundIs == CacheSound <=> SoundIn(heap, dir)
BY Zenon DEF CacheSound, SoundIn, Entry, Tracked, Final, Filled

\* after a step as well.
LEMMA CacheSoundNext == CacheSound' <=> SoundIn(heap', dir')
BY Zenon DEF CacheSound, SoundIn, Entry, Tracked, Final, Filled

\* A mapping with one more entry,
LEMMA WithIs ==
  ASSUME NEW f, NEW x, NEW y
  PROVE  /\ DOMAIN With(f, x, y) = DOMAIN f \cup {x} /\ With(f, x, y)[x] = y
         /\ \A z \in DOMAIN f : z # x => With(f, x, y)[z] = f[z]
BY DEF With

\* and with one less.
LEMMA WithoutIs ==
  ASSUME NEW f, NEW x
  PROVE  /\ DOMAIN Without(f, x) = DOMAIN f \ {x}
         /\ \A z \in DOMAIN f : z # x => Without(f, x)[z] = f[z]
BY DEF Without, Restrict

\* Entries that stay as they were stay sound.
LEMMA SoundAgain ==
  ASSUME NEW h, NEW d, NEW g, NEW e, SoundIn(h, d),
         \A o \in DOMAIN e : \A a \in DOMAIN e[o] :
           /\ o \in DOMAIN d /\ a \in DOMAIN d[o] /\ e[o][a] = d[o][a]
           /\ e[o][a] \in DOMAIN g /\ g[e[o][a]] = h[e[o][a]]
  PROVE  SoundIn(g, e)
<1> SUFFICES ASSUME NEW o \in DOMAIN e, NEW a \in DOMAIN e[o] PROVE Entry(g, e[o][a], o, a)
  BY DEF SoundIn
<1>1. Entry(h, d[o][a], o, a)
  BY DEF SoundIn
<1> QED BY <1>1 DEF Entry

\* The slots of an object are counted from 1,
LEMMA SlotsAre ==
  ASSUME NEW o \in Originals
  PROVE  Len(Slots(o)) \in Nat /\ DOMAIN Slots(o) = 1 .. Len(Slots(o))
BY GenericAssumption DEF Slots

\* and those that are relied on are among them.
LEMMA TrackedAre ==
  ASSUME NEW o \in Originals, NEW k \in Tracked(o)
  PROVE  k \in DOMAIN Slots(o) /\ k \in Nat /\ 1 <= k /\ k <= Len(Slots(o)) /\ Len(Slots(o)) \in Nat
<1>1. k \in DOMAIN Slots(o)
  BY DEF Tracked
<1> QED BY <1>1, SlotsAre

\* The end of the process leaves the cache alone.
LEMMA StopKeeps == ASSUME Stop PROVE GenericInv'
<1>1. HeapOK' /\ JobOK'
  BY DEF Stop, HeapOK, JobOK, Running
<1>2. SoundIn(heap', dir')
  BY DEF Stop, SoundIn
<1> QED BY <1>1, <1>2, CacheSoundNext DEF GenericInv

\* A step that ends what is being made.
LEMMA EndKeeps ==
  ASSUME GenericInv, UNCHANGED <<heap, dir>>, step' \notin Running
  PROVE  GenericInv'
<1>1. HeapOK' /\ JobOK'
  BY DEF GenericInv, HeapOK, JobOK
<1>2. SoundIn(heap', dir')
  BY CacheSoundIs DEF GenericInv
<1> QED BY <1>1, <1>2, CacheSoundNext DEF GenericInv

\* A step that leaves copies and cache as they are.
LEMMA SameKeeps ==
  ASSUME GenericInv, UNCHANGED <<heap, dir>>, JobOK'
  PROVE  GenericInv'
<1>1. HeapOK'
  BY DEF GenericInv, HeapOK
<1>2. SoundIn(heap', dir')
  BY CacheSoundIs DEF GenericInv
<1> QED BY <1>1, <1>2, CacheSoundNext DEF GenericInv

\* A copy of the original is in no cache yet.
LEMMA DuplicateKeeps ==
  ASSUME GenericInv, NEW o \in Originals, NEW args, Duplicate(o, args)
  PROVE  GenericInv'
<1> DEFINE ts == [k \in DOMAIN Slots(o) |-> Slots(o)[k].type]
           c  == [original |-> o, args |-> args, types |-> ts]
<1>0. /\ DOMAIN c = {"original", "args", "types"} /\ c.original = o /\ c.args = args /\ c.types = ts
      /\ DOMAIN ts = DOMAIN Slots(o) /\ \A k \in DOMAIN Slots(o) : ts[k] = Slots(o)[k].type
  OBVIOUS
<1>1. PICK i \in Instances \ DOMAIN heap :
        heap' = With(heap, i, c) /\ job' = [original |-> o, args |-> args, value |-> i, at |-> 1]
  BY DEF Duplicate
<1> HIDE DEF c, ts
<1>2. /\ DOMAIN heap' = DOMAIN heap \cup {i} /\ heap'[i] = c
      /\ \A j \in DOMAIN heap : heap'[j] = heap[j]
  BY <1>1 DEF With
<1>3. dir' = dir /\ step' = "walking"
  BY DEF Duplicate
<1>4. HeapOK'
  BY <1>0, <1>2 DEF HeapOK, GenericInv
<1>5. \A p \in DOMAIN dir : \A a \in DOMAIN dir[p] : dir[p][a] \in DOMAIN heap
  BY CacheSoundIs DEF GenericInv, SoundIn, Entry
<1>6. SoundIn(heap', dir')
  BY <1>2, <1>3, <1>5, CacheSoundIs, SoundAgain DEF GenericInv
<1>7. JobOK'
  <2>1. /\ DOMAIN job' = {"original", "args", "value", "at"} /\ job'.original = o /\ job'.args = args
        /\ job'.value = i /\ job'.at = 1
    BY <1>1
  <2>2. \A p \in DOMAIN dir' : \A a \in DOMAIN dir'[p] : dir'[p][a] # i
    BY <1>1, <1>3, <1>5
  <2>3. \A k \in Tracked(o) : c.types[k] = IF k < 1 THEN Filled(o, args, k) ELSE Slots(o)[k].type
    <3> SUFFICES ASSUME NEW k \in Tracked(o) PROVE c.types[k] = IF k < 1 THEN Filled(o, args, k) ELSE Slots(o)[k].type
      OBVIOUS
    <3>1. k \in DOMAIN Slots(o) /\ ~ (k < 1)
      BY TrackedAre
    <3> QED BY <1>0, <3>1
  <2> QED BY <1>0, <1>2, <1>3, <2>1, <2>2, <2>3 DEF JobOK, Mine
<1> QED BY <1>4, <1>6, <1>7, CacheSoundNext DEF GenericInv

\* Walking the objects changes no type.
LEMMA WalkKeeps ==
  ASSUME GenericInv, WalkObjects
  PROVE  GenericInv'
<1>1. CASE Stop
  BY <1>1, StopKeeps
<1>2. CASE Refuse /\ UNCHANGED <<heap, dir>>
  BY <1>2, EndKeeps DEF Refuse, Running
<1>3. CASE step' = "slots" /\ UNCHANGED <<heap, dir, job>>
  <2>1. JobOK'
    BY <1>3 DEF GenericInv, JobOK, WalkObjects, Running, Mine
  <2> QED BY <1>3, <2>1, SameKeeps
<1> QED BY <1>1, <1>2, <1>3 DEF WalkObjects

\* When all slots are done nothing is left before the packs.
LEMMA SlotsDoneKeeps ==
  ASSUME GenericInv, SlotsDone
  PROVE  GenericInv'
<1>1. JobOK'
  BY DEF GenericInv, JobOK, SlotsDone, Running, Mine
<1> QED BY <1>1, SameKeeps DEF SlotsDone

\* Expanding the packs gives every slot its final type.
LEMMA PacksKeep ==
  ASSUME GenericInv, ExpandPacks
  PROVE  GenericInv'
<1>1. CASE Stop
  BY <1>1, StopKeeps
<1>2. CASE Refuse /\ UNCHANGED <<heap, dir>>
  BY <1>2, EndKeeps DEF Refuse, Running
<1>3. CASE /\ step' = "caching" /\ UNCHANGED <<dir, job>>
           /\ heap' = [heap EXCEPT ![job.value].types = [k \in DOMAIN Mine |-> InPlace(Mine[k], @[k])]]
  <2> DEFINE o == job.original
             v == job.value
             x == [k \in DOMAIN Mine |-> InPlace(Mine[k], heap[v].types[k])]
  <2>1. /\ DOMAIN job = {"original", "args", "value", "at"} /\ job.original \in Originals /\ job.at \in Nat
        /\ v \in DOMAIN heap /\ heap[v].original = o /\ heap[v].args = job.args
        /\ \A p \in DOMAIN dir : \A a \in DOMAIN dir[p] : dir[p][a] # v
        /\ \A k \in Tracked(o) :
             heap[v].types[k] = IF k < job.at THEN Filled(o, job.args, k) ELSE Mine[k].type
        /\ job.at > Len(Mine)
    BY DEF GenericInv, JobOK, ExpandPacks, Running
  <2>2. DOMAIN heap' = DOMAIN heap /\ \A j \in DOMAIN heap : j # v => heap'[j] = heap[j]
    BY <1>3
  <2>3. DOMAIN heap[v] = {"original", "args", "types"} /\ DOMAIN heap[v].types = DOMAIN Mine
    BY <2>1 DEF GenericInv, HeapOK, Mine
  <2>4. heap'[v] = [heap[v] EXCEPT !.types = x]
    BY <1>3, <2>1
  <2> HIDE DEF x
  <2>5. /\ DOMAIN heap'[v] = {"original", "args", "types"} /\ heap'[v].original = o /\ heap'[v].args = job.args
        /\ heap'[v].types = x
    BY <2>1, <2>3, <2>4
  <2>6. HeapOK'
    <3>1. DOMAIN heap'[v].types = DOMAIN Slots(o)
      BY <2>5 DEF x, Mine
    <3> QED BY <2>2, <2>5, <3>1 DEF GenericInv, HeapOK
  <2>7. \A p \in DOMAIN dir : \A a \in DOMAIN dir[p] : dir[p][a] \in DOMAIN heap /\ dir[p][a] # v
    BY <2>1, CacheSoundIs DEF GenericInv, SoundIn, Entry
  <2>0. dir' = dir /\ job' = job /\ step' = "caching"
    BY <1>3
  <2>8. SoundIn(heap', dir')
    <3>1. SoundIn(heap, dir)
      BY CacheSoundIs DEF GenericInv
    <3>2. ASSUME NEW p \in DOMAIN dir', NEW a \in DOMAIN dir'[p]
          PROVE  /\ p \in DOMAIN dir /\ a \in DOMAIN dir[p] /\ dir'[p][a] = dir[p][a]
                 /\ dir'[p][a] \in DOMAIN heap' /\ heap'[dir'[p][a]] = heap[dir'[p][a]]
      BY <2>0, <2>2, <2>7, <3>2
    <3> HIDE DEF v
    <3> QED BY <3>1, <3>2, SoundAgain
  <2>9. ASSUME NEW k \in Tracked(o) PROVE heap'[v].types[k] = Final(o, job.args, k)
    <3>1. k \in Nat /\ k <= Len(Slots(o)) /\ Len(Slots(o)) \in Nat /\ k \in DOMAIN Slots(o)
      BY <2>1, TrackedAre
    <3>2. k < job.at
      BY <2>1, <3>1 DEF Mine
    <3>3. heap[v].types[k] = Filled(o, job.args, k)
      BY <2>1, <3>2
    <3>4. x[k] = InPlace(Slots(o)[k], heap[v].types[k])
      BY <3>1 DEF x, Mine
    <3> QED BY <2>5, <3>3, <3>4 DEF Final
  <2>10. JobOK'
    BY <2>0, <2>1, <2>2, <2>5, <2>9 DEF JobOK, Mine
  <2> QED BY <2>6, <2>8, <2>10, CacheSoundNext DEF GenericInv
<1> QED BY <1>1, <1>2, <1>3 DEF ExpandPacks

\* What is entered into the cache is finished.
LEMMA CachingSound ==
  ASSUME GenericInv, step = "caching", heap' = heap, step' = "idle",
         dir' \in {dir, Cached, With(dir, job.original, Table)}
  PROVE  GenericInv'
<1> DEFINE o == job.original
           a == job.args
<1>0. SoundIn(heap, dir)
  BY CacheSoundIs DEF GenericInv
<1>1. Entry(heap, job.value, o, a)
  <2>1. job.at > Len(Mine) /\ job.at \in Nat /\ o \in Originals
    BY DEF GenericInv, JobOK, Running
  <2>2. \A k \in Tracked(o) : k < job.at
    <3> SUFFICES ASSUME NEW k \in Tracked(o) PROVE k < job.at
      OBVIOUS
    <3>1. k \in Nat /\ k <= Len(Slots(o)) /\ Len(Slots(o)) \in Nat
      BY <2>1, TrackedAre
    <3> QED BY <2>1, <3>1 DEF Mine
  <2> QED BY <2>2 DEF GenericInv, JobOK, Running, Entry
<1>2. \A p \in DOMAIN Table : Entry(heap, Table[p], o, p)
  BY <1>0 DEF Table, SoundIn
<1>3. ASSUME NEW t, \A p \in DOMAIN t : Entry(heap, t[p], o, p)
      PROVE  SoundIn(heap, With(dir, o, t))
  <2> SUFFICES ASSUME NEW q \in DOMAIN With(dir, o, t), NEW p \in DOMAIN With(dir, o, t)[q]
               PROVE  Entry(heap, With(dir, o, t)[q][p], q, p)
    BY DEF SoundIn
  <2>1. CASE q = o
    BY <1>3, <2>1 DEF With
  <2>2. CASE q # o
    <3>1. q \in DOMAIN dir /\ With(dir, o, t)[q] = dir[q]
      BY <2>2 DEF With
    <3> QED BY <1>0, <3>1 DEF SoundIn
  <2> QED BY <2>1, <2>2
<1>4. \A p \in DOMAIN With(Table, a, job.value) : Entry(heap, With(Table, a, job.value)[p], o, p)
  BY <1>1, <1>2 DEF With
<1>5. SoundIn(heap', dir')
  BY <1>0, <1>2, <1>3, <1>4 DEF Cached
<1>6. HeapOK' /\ JobOK'
  BY DEF GenericInv, HeapOK, JobOK, Running
<1> QED BY <1>5, <1>6, CacheSoundNext DEF GenericInv

\* An instance that is collected leaves the cache.
LEMMA CollectKeeps ==
  ASSUME GenericInv, NEW i \in Instances, CollectInstance(i)
  PROVE  GenericInv'
<1>0. SoundIn(heap, dir)
  BY CacheSoundIs DEF GenericInv
<1>1. CASE heap' = Without(heap, i) /\ step' = step /\ (dir' = dir \/ (i \in DOMAIN lookup /\ lookup[i].original \in DOMAIN dir /\ dir' = Invalidated(i)))
  <2>1. \A p \in DOMAIN dir : \A a \in DOMAIN dir[p] : dir[p][a] # i
    BY DEF CollectInstance, Rooted, Range
  <2>2. \A p \in DOMAIN dir' : \A a \in DOMAIN dir'[p] : p \in DOMAIN dir /\ a \in DOMAIN dir[p] /\ dir'[p][a] = dir[p][a]
    <3>1. CASE dir' = dir
      BY <3>1
    <3>2. CASE lookup[i].original \in DOMAIN dir /\ dir' = Invalidated(i)
      <4> DEFINE o == lookup[i].original
                 t == Without(dir[o], lookup[i].args)
      <4>1. DOMAIN t \subseteq DOMAIN dir[o] /\ \A a \in DOMAIN t : t[a] = dir[o][a]
        BY DEF Without, Restrict
      <4>2. dir' = IF t = <<>> THEN Without(dir, o) ELSE With(dir, o, t)
        BY <3>2 DEF Invalidated
      <4> HIDE DEF t
      <4>3. CASE t = <<>>
        BY <4>2, <4>3 DEF Without, Restrict
      <4>4. CASE t # <<>>
        BY <3>2, <4>1, <4>2, <4>4 DEF With
      <4> QED BY <4>3, <4>4
    <3> QED BY <1>1, <3>1, <3>2
  <2>3. DOMAIN heap' = DOMAIN heap \ {i} /\ \A j \in DOMAIN heap : j # i => heap'[j] = heap[j]
    BY <1>1, WithoutIs
  <2>4. \A p \in DOMAIN dir : \A a \in DOMAIN dir[p] : dir[p][a] \in DOMAIN heap
    BY <1>0 DEF SoundIn, Entry
  <2>5. SoundIn(heap', dir')
    BY <1>0, <2>1, <2>2, <2>3, <2>4, SoundAgain
  <2>6. HeapOK'
    BY <2>3 DEF GenericInv, HeapOK
  <2>7. JobOK'
    BY <1>1 DEF CollectInstance, JobOK, Running
  <2> QED BY <2>5, <2>6, <2>7, CacheSoundNext DEF GenericInv
<1>2. CASE Stop
  BY <1>2, StopKeeps
<1> QED BY <1>1, <1>2 DEF CollectInstance

\* The slot that is looked at holds what the original has there, and when the walk
\* goes on it holds its final type.
LEMMA SlotKeeps ==
  ASSUME GenericInv, SubstituteSlot
  PROVE  GenericInv'
<1> DEFINE o == job.original
           k == job.at
           v == job.value
           s == Mine[k]
           t == IF s.ref = "" THEN heap[v].types[k] ELSE refs[s.ref]
           mapped == t.id = "GenericArg" /\ t.name \in Range(Params(o, s))
<1>0. /\ step = "slots" /\ k <= Len(Mine) /\ dir' = dir
      /\ o \in Originals /\ k \in Nat /\ v \in DOMAIN heap /\ heap[v].original = o /\ heap[v].args = job.args
      /\ DOMAIN job = {"original", "args", "value", "at"}
  BY DEF SubstituteSlot, GenericInv, JobOK, Running
<1>1. k \in Tracked(o) => /\ s.ref = "" /\ s.type.name \notin s.hidden
                          /\ t = s.type /\ heap[v].types[k] = s.type
  <2>1. k \in Tracked(o) => heap[v].types[k] = s.type
    BY <1>0 DEF GenericInv, JobOK, Running
  <2>2. k \in Tracked(o) => s.ref = "" /\ s.type.name \notin s.hidden
    BY DEF Tracked, Mine
  <2> QED BY <2>1, <2>2
<1>2. Filled(o, job.args, k) = IF s.type.id = "GenericArg" /\ Visited(o, job.args, s)
                              THEN Argument(o, job.args, s, s.type.name) ELSE s.type
  BY Zenon DEF Filled, Argument, Mine
\* The next slot, after something was put into this one or not.
<1>3. ASSUME NextSlot, heap' = heap, k \in Tracked(o) => Filled(o, job.args, k) = s.type
      PROVE  GenericInv'
  <2>1. /\ DOMAIN job' = {"original", "args", "value", "at"} /\ job'.original = o /\ job'.args = job.args
        /\ job'.value = v /\ job'.at = k + 1 /\ step' = "slots"
    BY <1>0, <1>3 DEF NextSlot
  <2>2. ASSUME NEW l \in Tracked(o)
        PROVE  heap[v].types[l] = IF l < k + 1 THEN Filled(o, job.args, l) ELSE Mine[l].type
    <3>1. heap[v].types[l] = IF l < k THEN Filled(o, job.args, l) ELSE Mine[l].type
      BY <1>0 DEF GenericInv, JobOK, Running
    <3>2. l \in Nat
      BY <1>0, TrackedAre
    <3> QED BY <1>0, <1>3, <3>1, <3>2
  <2>3. JobOK'
    BY <1>0, <1>3, <2>1, <2>2 DEF GenericInv, JobOK, Running, Mine
  <2> QED BY <1>0, <1>3, <2>3, SameKeeps
<1>4. ASSUME NEW x, NextSlot, heap' = [heap EXCEPT ![v].types[k] = x],
             k \in Tracked(o) => Filled(o, job.args, k) = x
      PROVE  GenericInv'
  <2>1. /\ DOMAIN job' = {"original", "args", "value", "at"} /\ job'.original = o /\ job'.args = job.args
        /\ job'.value = v /\ job'.at = k + 1 /\ step' = "slots"
    BY <1>0, <1>4 DEF NextSlot
  <2>2. DOMAIN heap' = DOMAIN heap /\ \A j \in DOMAIN heap : j # v => heap'[j] = heap[j]
    BY <1>4
  <2>3. DOMAIN heap[v] = {"original", "args", "types"} /\ DOMAIN heap[v].types = DOMAIN Slots(o)
    BY <1>0 DEF GenericInv, HeapOK
  <2>4. heap'[v] = [heap[v] EXCEPT !.types = [heap[v].types EXCEPT ![k] = x]]
    BY <1>0, <1>4
  <2>5. /\ DOMAIN heap'[v] = {"original", "args", "types"} /\ heap'[v].original = o /\ heap'[v].args = job.args
        /\ heap'[v].types = [heap[v].types EXCEPT ![k] = x]
    BY <1>0, <2>3, <2>4
  <2>6. HeapOK'
    <3>1. DOMAIN heap'[v].types = DOMAIN Slots(o)
      BY <2>3, <2>5
    <3> QED BY <2>2, <2>5, <3>1 DEF GenericInv, HeapOK
  <2>7. \A p \in DOMAIN dir : \A a \in DOMAIN dir[p] : dir[p][a] \in DOMAIN heap /\ dir[p][a] # v
    BY <1>0, CacheSoundIs DEF GenericInv, SoundIn, Entry, JobOK, Running
  <2>8. SoundIn(heap', dir')
    BY <1>0, <2>2, <2>7, CacheSoundIs, SoundAgain DEF GenericInv
  <2>9. ASSUME NEW l \in Tracked(o)
        PROVE  heap'[v].types[l] = IF l < k + 1 THEN Filled(o, job.args, l) ELSE Mine[l].type
    <3>1. heap[v].types[l] = IF l < k THEN Filled(o, job.args, l) ELSE Mine[l].type
      BY <1>0 DEF GenericInv, JobOK, Running
    <3>2. l \in Nat /\ l \in DOMAIN heap[v].types
      BY <1>0, <2>3, TrackedAre
    <3>3. CASE l = k
      BY <1>4, <2>5, <3>2, <3>3
    <3>4. CASE l # k
      <4>1. heap'[v].types[l] = heap[v].types[l]
        BY <2>5, <3>2, <3>4
      <4> QED BY <1>0, <3>1, <3>2, <3>4, <4>1
    <3> QED BY <3>3, <3>4
  <2>10. JobOK'
    BY <1>0, <2>1, <2>2, <2>5, <2>7, <2>9 DEF JobOK, Running, Mine
  <2> QED BY <2>6, <2>8, <2>10, CacheSoundNext DEF GenericInv
<1>5. CASE ~ Visited(o, job.args, s) /\ NextSlot /\ heap' = heap
  BY <1>2, <1>3, <1>5
<1>6. CASE /\ Visited(o, job.args, s) /\ mapped /\ NextSlot
           /\ \/ Put(k, Argument(o, job.args, s, t.name))
              \/ t.name \in s.hidden /\ UNCHANGED <<heap, refs>>
  <2>1. CASE t.name \in s.hidden /\ heap' = heap
    BY <1>1, <1>3, <1>6, <2>1
  <2>2. CASE Put(k, Argument(o, job.args, s, t.name))
    <3>1. CASE s.ref = ""
      <4>1. heap' = [heap EXCEPT ![v].types[k] = Argument(o, job.args, s, t.name)]
        BY <2>2, <3>1 DEF Put
      <4>2. k \in Tracked(o) => Filled(o, job.args, k) = Argument(o, job.args, s, t.name)
        <5> SUFFICES ASSUME k \in Tracked(o) PROVE Filled(o, job.args, k) = Argument(o, job.args, s, t.name)
          OBVIOUS
        <5>1. t = s.type
          BY <1>1
        <5>2. t.id = "GenericArg" /\ Visited(o, job.args, s)
          BY <1>6
        <5> HIDE DEF t, s, o, k
        <5>3. Filled(o, job.args, k) = Argument(o, job.args, s, s.type.name)
          BY <1>2, <5>1, <5>2
        <5> QED BY <5>1, <5>3
      <4> QED BY <1>4, <1>6, <4>1, <4>2
    <3>2. CASE s.ref # ""
      <4>1. heap' = heap
        BY <2>2, <3>2, Zenon DEF Put
      <4>2. k \notin Tracked(o)
        BY <1>1, <3>2
      <4> QED BY <1>3, <1>6, <4>1, <4>2
    <3> QED BY <3>1, <3>2
  <2> QED BY <1>6, <2>1, <2>2
<1>7. CASE t.name \in s.hidden /\ NextSlot /\ heap' = heap
  BY <1>1, <1>3, <1>7
<1>8. CASE Refuse /\ heap' = heap
  BY <1>0, <1>8, EndKeeps DEF Refuse, Running
<1>9. CASE t.id \notin {"GenericArg", "Array", "Ref"} /\ NextSlot /\ heap' = heap
  BY <1>1, <1>2, <1>3, <1>9
<1> HIDE DEF o, k, v, s, t, mapped
<1> QED BY <1>5, <1>6, <1>7, <1>8, <1>9 DEF SubstituteSlot, o, k, v, s, t, mapped

\* For any originals, arguments and bounds: what a request finds in the cache is alive,
\* was made from that object with those arguments and is finished, whatever failed
\* before (instantiate_generic_object, set_generic_cache).
THEOREM CachedInstancesSound == GenericSpec => []CacheSound
<1>1. GenericInit => GenericInv
  BY CacheSoundIs DEF GenericInit, GenericInv, HeapOK, JobOK, Running, SoundIn
<1>2. GenericInv /\ [GenericNext]_generic => GenericInv'
  <2> SUFFICES ASSUME GenericInv, [GenericNext]_generic PROVE GenericInv'
    OBVIOUS
  <2>1. CASE \E o \in Originals, args \in Arguments : CacheHit(o, args)
    <3>1. JobOK'
      BY <2>1 DEF CacheHit, GenericInv, JobOK, Running
    <3> QED BY <2>1, <3>1, SameKeeps DEF CacheHit
  <2>2. CASE \E o \in Originals, args \in Arguments : Duplicate(o, args)
    BY <2>2, DuplicateKeeps
  <2>3. CASE \E o \in Originals, args \in Arguments : DuplicateNothing(o, args)
    BY <2>3, StopKeeps DEF DuplicateNothing
  <2>4. CASE WalkObjects
    BY <2>4, WalkKeeps
  <2>5. CASE SubstituteSlot
    BY <2>5, SlotKeeps
  <2>6. CASE SubstituteNested
    BY <2>6, StopKeeps DEF SubstituteNested
  <2>7. CASE SlotsDone
    BY <2>7, SlotsDoneKeeps
  <2>8. CASE ExpandPacks
    BY <2>8, PacksKeep
  <2>9. CASE InstantiateOutOfMemory
    BY <2>9, EndKeeps DEF InstantiateOutOfMemory, Refuse, Running
  <2>10. CASE SetGenericCache
    BY <2>10, CachingSound DEF SetGenericCache, Answer, Refuse
  <2>11. CASE SetGenericCacheFails
    BY <2>11, CachingSound DEF SetGenericCacheFails, Failed, Refuse
  <2>12. CASE \E i \in Instances : Release(i)
    <3>1. JobOK'
      BY <2>12 DEF Release, GenericInv, JobOK, Running
    <3> QED BY <2>12, <3>1, SameKeeps DEF Release
  <2>13. CASE \E i \in Instances : CollectInstance(i)
    BY <2>13, CollectKeeps
  <2>14. CASE UNCHANGED generic
    <3>1. JobOK'
      BY <2>14 DEF generic, GenericInv, JobOK, Mine
    <3> QED BY <2>14, <3>1, SameKeeps DEF generic
  <2> QED BY <2>1, <2>2, <2>3, <2>4, <2>5, <2>6, <2>7, <2>8, <2>9, <2>10, <2>11, <2>12, <2>13, <2>14 DEF GenericNext
<1>3. GenericInv => CacheSound
  BY DEF GenericInv
<1> QED BY <1>1, <1>2, <1>3, PTL DEF GenericSpec

-----------------------------------------------------------------------------
(* Layouts: what is appended to a layout keeps what it begins with, and a  *)
(* base class is prepared before the classes derived from it.              *)

\* Padding brings a size up to the next multiple of an alignment.
LEMMA PaddedIs ==
  ASSUME NEW n \in Nat, NEW a \in Nat \ {0}
  PROVE  Padded(n, a) \in Nat /\ Padded(n, a) >= n /\ Padded(n, a) % a = 0
<1>1. n % a \in 0 .. a - 1 /\ n = a * (n \div a) + (n % a) /\ n \div a \in Nat
  OBVIOUS
<1>2. CASE n % a = 0
  BY <1>2 DEF Padded
<1>3. CASE n % a # 0
  <2>1. Padded(n, a) = n + a - (n % a)
    BY <1>3 DEF Padded
  <2> DEFINE q == n \div a
  <2>2. Padded(n, a) = a * q + a
    <3> HIDE DEF q
    <3> QED BY <1>1, <2>1 DEF q
  <2>3. \A k \in Nat : a * k + a = a * (k + 1) /\ (a * (k + 1)) % a = 0
    OBVIOUS
  <2>4. Padded(n, a) % a = 0
    BY <1>1, <2>2, <2>3
  <2>5. Padded(n, a) \in Nat /\ Padded(n, a) >= n
    BY <1>1, <2>1
  <2> QED BY <2>4, <2>5
<1> QED BY <1>2, <1>3

\* The fields of a layout, layouts, and the field records of a class.
Places == [type : {f.type : f \in FieldSorts}, offset : Nat, size : Nat, align : Nat \ {0}, owner : Classes]
LayoutTypes == [fields : Seq(Places), size : Nat, align : Nat, init : Seq({"default", "junk"})]
FieldRecords == [sort : FieldSorts, name : Nat, offset : Nat]

\* The fields of l lie one behind the other, aligned, and within l.
WellPlaced(l) ==
  \A i \in 1 .. Len(l.fields) :
    /\ l.fields[i].offset % l.fields[i].align = 0
    /\ l.fields[i].offset + l.fields[i].size <= l.size
    /\ l.align >= l.fields[i].align
    /\ \A j \in 1 .. (i - 1) : Before(l.fields[j], l.fields[i])

\* l begins with p.
Continues(l, p) ==
  /\ Len(p.fields) <= Len(l.fields) /\ l.align >= p.align
  /\ \A i \in 1 .. Len(p.fields) : l.fields[i] = p.fields[i]

\* The layouts that begin with p.
Continuations(p) == {l \in LayoutTypes : WellPlaced(l) /\ Continues(l, p)}

\* A field that is appended lies behind the others and moves none of them.
LEMMA AppendRecordKeeps ==
  ASSUME NEW p \in LayoutTypes, NEW l \in Continuations(p), NEW c \in Classes,
         records[c] \in Seq(FieldRecords), NEW i \in 1 .. Len(records[c])
  PROVE  AppendRecord(l, c, i) \in Continuations(p)
<1> DEFINE r == records[c][i]
           f == r.sort
           at == Padded(l.size, f.align)
           new == [type |-> f.type, offset |-> at, size |-> f.size, align |-> f.align, owner |-> c]
           fs == l.fields
           n == Len(fs)
           m == [l EXCEPT !.fields = Append(@, new), !.size = at + f.size,
                          !.align = IF f.align > @ THEN f.align ELSE @]
<1>1. l \in LayoutTypes /\ WellPlaced(l) /\ Continues(l, p)
  BY DEF Continuations
<1>2. f \in FieldSorts /\ f.size \in Nat /\ f.align \in Nat \ {0}
  <2>1. r \in FieldRecords
    BY Zenon, ElementOfSeq
  <2>2. f \in FieldSorts
    BY <2>1 DEF FieldRecords
  <2> QED BY <2>2, LayoutAssumption
<1>3. AppendRecord(l, c, i) = IF f.static THEN l ELSE m
  BY DEF AppendRecord
<1> HIDE DEF r, f
<1>4. fs \in Seq(Places) /\ l.size \in Nat /\ l.align \in Nat /\ n \in Nat
  BY <1>1 DEF LayoutTypes
<1>5. at \in Nat /\ at >= l.size /\ at % f.align = 0
  BY <1>2, <1>4, PaddedIs
<1>6. new \in Places
  BY <1>2, <1>5 DEF Places
<1> HIDE DEF at
<1> DEFINE x == Append(fs, new)
           y == at + f.size
           z == IF f.align > l.align THEN f.align ELSE l.align
<1>7. m.fields = x /\ m.size = y /\ m.align = z /\ m \in LayoutTypes
  <2>1. m = [l EXCEPT !.fields = x, !.size = y, !.align = z]
    OBVIOUS
  <2>2. x \in Seq(Places) /\ y \in Nat /\ z \in Nat
    BY <1>2, <1>4, <1>5, <1>6
  <2> HIDE DEF x, y, z, m
  <2> QED BY <1>1, <2>1, <2>2 DEF LayoutTypes
<1>8. /\ new.offset = at /\ new.size = f.size /\ new.align = f.align
  OBVIOUS
<1> HIDE DEF new, m, fs
<1>9. /\ Append(fs, new) \in Seq(Places) /\ Len(Append(fs, new)) = n + 1
      /\ Append(fs, new)[n + 1] = new /\ \A k \in 1 .. n : Append(fs, new)[k] = fs[k]
  BY <1>4, <1>6
<1>10. m.align \in Nat /\ m.align >= f.align /\ m.align >= l.align /\ m.size \in Nat /\ m.size >= l.size
  BY <1>2, <1>4, <1>5, <1>7
<1>11. WellPlaced(m)
  <2>1. \A k \in 1 .. n : fs[k] \in Places
    BY <1>4
  <2>2. \A k \in 1 .. n : /\ fs[k].offset \in Nat /\ fs[k].size \in Nat /\ fs[k].align \in Nat
                          /\ fs[k].offset + fs[k].size <= l.size /\ l.align >= fs[k].align
                          /\ fs[k].offset % fs[k].align = 0
                          /\ \A j \in 1 .. (k - 1) : Before(fs[j], fs[k])
    BY <1>1, <2>1 DEF WellPlaced, Places, fs
  <2>3. ASSUME NEW k \in 1 .. (n + 1)
        PROVE  /\ m.fields[k].offset % m.fields[k].align = 0
               /\ m.fields[k].offset + m.fields[k].size <= m.size
               /\ m.align >= m.fields[k].align
               /\ \A j \in 1 .. (k - 1) : Before(m.fields[j], m.fields[k])
    <3>1. CASE k \in 1 .. n
      <4>1. m.fields[k] = fs[k] /\ \A j \in 1 .. (k - 1) : m.fields[j] = fs[j]
        BY <1>4, <1>7, <1>9, <3>1
      <4> QED BY <2>2, <3>1, <4>1, <1>4, <1>10
    <3>2. CASE k = n + 1
      <4>1. m.fields[k] = new /\ \A j \in 1 .. (k - 1) : m.fields[j] = fs[j] /\ j \in 1 .. n
        BY <1>4, <1>7, <1>9, <3>2
      <4>2. ASSUME NEW j \in 1 .. (k - 1) PROVE Before(m.fields[j], m.fields[k])
        <5>1. m.fields[j] = fs[j] /\ j \in 1 .. n
          BY <4>1
        <5>2. fs[j].offset \in Nat /\ fs[j].size \in Nat /\ fs[j].offset + fs[j].size <= l.size
          BY <2>2, <5>1
        <5>3. fs[j].offset + fs[j].size <= at
          BY <5>2, <1>4, <1>5
        <5> QED BY <4>1, <5>1, <5>3, <1>8 DEF Before
      <4>3. m.fields[k].offset + m.fields[k].size <= m.size
        BY <4>1, <1>2, <1>5, <1>7, <1>8
      <4> QED BY <4>1, <4>2, <4>3, <1>5, <1>8, <1>10
    <3> QED BY <3>1, <3>2, <1>4
  <2> QED BY <2>3, <1>7, <1>9 DEF WellPlaced
<1>12. Continues(m, p)
  <2>1. p.fields \in Seq(Places) /\ p.align \in Nat
    BY DEF LayoutTypes
  <2>2. Len(p.fields) \in Nat /\ Len(p.fields) <= n /\ l.align >= p.align
    BY <1>1, <2>1 DEF Continues, fs
  <2>3. ASSUME NEW k \in 1 .. Len(p.fields) PROVE m.fields[k] = p.fields[k]
    <3>1. k \in 1 .. n
      BY <2>2, <1>4
    <3>2. fs[k] = p.fields[k]
      BY <1>1 DEF Continues, fs
    <3> QED BY <3>1, <3>2, <1>7, <1>9
  <2> QED BY <2>1, <2>2, <2>3, <1>4, <1>7, <1>9, <1>10 DEF Continues
<1>13. m \in Continuations(p)
  BY <1>7, <1>11, <1>12 DEF Continuations
<1> QED BY <1>3, <1>13

\* The fields of a class behind those of its base: the function that WithFields defines
\* by recursion never leaves the layouts that continue the one it begins with.
LEMMA WithFieldsKeeps ==
  ASSUME NEW p \in LayoutTypes, NEW l \in Continuations(p), NEW c \in Classes,
         records[c] \in Seq(FieldRecords)
  PROVE  WithFields(l, c) \in Continuations(p)
<1> DEFINE N == Len(records[c])
           S == Continuations(p)
           G == [q \in (1 .. N) \X S |-> AppendRecord(q[2], c, q[1])]
           Walk(f) == [i \in 0 .. N |-> IF i = 0 THEN l ELSE AppendRecord(f[i - 1], c, i)]
<1>1. N \in Nat
  OBVIOUS
<1>2. ASSUME NEW i \in 1 .. N, NEW m \in S PROVE AppendRecord(m, c, i) \in S
  BY AppendRecordKeeps
<1>3. G \in [(1 .. N) \X S -> S]
  <2>1. \A q \in (1 .. N) \X S : AppendRecord(q[2], c, q[1]) \in S
    <3> HIDE DEF N, S
    <3> QED BY <1>2
  <2> HIDE DEF N, S
  <2> QED BY <2>1
<1>4. PICK f \in [0 .. N -> S] : Steps(f, G, l, N)
  <2> HIDE DEF N, S, G
  <2>1. l \in S
    BY DEF S
  <2> QED BY <1>1, <1>3, <2>1, StepsExist
<1>5. ASSUME NEW i \in 1 .. N PROVE f[i] = AppendRecord(f[i - 1], c, i)
  <2> HIDE DEF N, S
  <2>1. i - 1 \in 0 .. N
    BY <1>1
  <2>2. <<i, f[i - 1]>> \in (1 .. N) \X S
    BY <1>4, <2>1
  <2> QED BY <1>4, <2>2 DEF Steps
<1>6. f = Walk(f)
  <2> HIDE DEF N, S
  <2>1. f[0] = l
    BY <1>4 DEF Steps
  <2>2. ASSUME NEW i \in 0 .. N PROVE f[i] = IF i = 0 THEN l ELSE AppendRecord(f[i - 1], c, i)
    <3>1. CASE i = 0
      BY <2>1, <3>1
    <3>2. CASE i # 0
      <4>1. i \in 1 .. N
        BY <1>1, <3>2
      <4> QED BY <1>5, <3>2, <4>1
    <3> QED BY <3>1, <3>2
  <2> QED BY <2>2
<1> DEFINE upto[i \in 0 .. N] == IF i = 0 THEN l ELSE AppendRecord(upto[i - 1], c, i)
<1>7. upto = Walk(upto)
  <2> HIDE DEF N, S
  <2> QED BY <1>6
<1>8. WithFields(l, c) = upto[N]
  BY DEF WithFields
<1>9. /\ upto[0] = l
      /\ \A i \in 1 .. N : upto[i] = AppendRecord(upto[i - 1], c, i)
  <2> HIDE DEF N, S, upto
  <2>1. \A i \in 0 .. N : upto[i] = IF i = 0 THEN l ELSE AppendRecord(upto[i - 1], c, i)
    BY <1>7
  <2> QED BY <1>1, <2>1
<1>10. \A i \in 0 .. N : upto[i] \in S
  <2> HIDE DEF N, upto
  <2> DEFINE T == {i \in 0 .. N : upto[i] \notin S}
  <2>1. SUFFICES ASSUME T # {} PROVE FALSE
    BY Zenon
  <2>2. PICK k \in T : \A y \in T : k <= y
    <3>1. T \in SUBSET Nat
      BY <1>1
    <3> QED BY <2>1, <3>1, NatMin
  <2>3. k # 0
    BY <2>2, <1>9 DEF S
  <2>4. k \in 1 .. N /\ k - 1 \in 0 .. N /\ k - 1 \notin T
    BY <2>2, <2>3, <1>1
  <2>5. upto[k - 1] \in S
    BY <2>4
  <2>6. upto[k] \in S
    BY <2>4, <2>5, <1>2, <1>9
  <2> QED BY <2>2, <2>6
<1> QED
  <2> HIDE DEF N, S, upto
  <2>1. N \in 0 .. N
    BY <1>1
  <2> QED BY <2>1, <1>8, <1>10 DEF S

LayoutTyped ==
  /\ base \in [Classes -> Classes \cup {"none", "malformed"}]
  /\ records \in [Classes -> Seq(FieldRecords)]
  /\ indices \in [Classes -> Seq(Nat)]
  /\ storage \in [Classes -> Nat]
  /\ layouts \in [Classes -> LayoutTypes \cup {Absent}]
  /\ DOMAIN tables = Classes
  /\ climbed \in Seq(Classes)
  /\ state \in {"climbing", "preparing"} => Len(climbed) > 0

\* Each class of the list is followed by its base, and what is above the last one is
\* prepared.
ChainPrepared ==
  /\ \A i \in 1 .. Len(climbed) - 1 : climbed[i + 1] = base[climbed[i]]
  /\ state = "preparing" /\ base[climbed[Len(climbed)]] \in Classes =>
       layouts[base[climbed[Len(climbed)]]] # Absent

\* The fields of a class are one behind the other in its storage.
InStorage(r, n) ==
  \A i \in 1 .. Len(r) : r[i].offset + r[i].sort.size <= IF i < Len(r) THEN r[i + 1].offset ELSE n

LayoutsPlaced ==
  \A c \in Classes :
    layouts[c] # Absent =>
      /\ WellPlaced(layouts[c])
      /\ base[c] \in Classes => layouts[base[c]] # Absent /\ Continues(layouts[c], layouts[base[c]])

LayoutInv ==
  /\ LayoutTyped
  /\ ChainPrepared
  /\ LayoutsPlaced
  /\ \A c \in Classes : InStorage(records[c], storage[c])

\* What is not cached is not a layout.
LEMMA AbsentIs == Absent \notin LayoutTypes
<1>1. SUFFICES ASSUME Absent \in LayoutTypes PROVE FALSE
  OBVIOUS
<1>2. DOMAIN Absent = {"absent"}
  BY DEF Absent
<1>3. DOMAIN Absent = {"fields", "size", "align", "init"}
  BY <1>1 DEF LayoutTypes
<1> QED BY <1>2, <1>3

\* Top is the last class of the list.
LEMMA TopIs ==
  ASSUME LayoutTyped, state \in {"climbing", "preparing"}
  PROVE  Top = climbed[Len(climbed)] /\ Top \in Classes /\ Len(climbed) \in Nat \ {0}
<1>1. climbed \in Seq(Classes) /\ Len(climbed) > 0 /\ Len(climbed) \in Nat
  BY DEF LayoutTyped
<1>2. Len(climbed) \in 1 .. Len(climbed) /\ Len(climbed) \in Nat \ {0}
  BY <1>1
<1>3. climbed[Len(climbed)] \in Classes
  BY <1>1, <1>2, ElementOfSeq, Zenon
<1> QED BY <1>2, <1>3 DEF Top, Last

\* What PrepareLayout caches.
LEMMA FieldsOfIs ==
  ASSUME LayoutInv, state = "preparing"
  PROVE  /\ FieldsOf(Top, Parent) \in LayoutTypes
         /\ WellPlaced(FieldsOf(Top, Parent))
         /\ base[Top] \in Classes => Continues(FieldsOf(Top, Parent), layouts[base[Top]])
<1>1. Top = climbed[Len(climbed)] /\ Top \in Classes
  BY TopIs DEF LayoutInv
<1>2. records[Top] \in Seq(FieldRecords)
  BY <1>1 DEF LayoutInv, LayoutTyped
<1>3. CASE base[Top] \in Classes
  <2> DEFINE p == layouts[base[Top]]
  <2>1. p # Absent
    BY <1>1, <1>3 DEF LayoutInv, ChainPrepared
  <2>2. p \in LayoutTypes /\ WellPlaced(p)
    BY <1>3, <2>1 DEF LayoutInv, LayoutTyped, LayoutsPlaced
  <2> HIDE DEF p
  <2>3. Continues(p, p)
    BY <2>2 DEF Continues, LayoutTypes
  <2>4. p \in Continuations(p)
    BY <2>2, <2>3 DEF Continuations
  <2>5. FieldsOf(Top, Parent) = WithFields(p, Top)
    BY <1>3 DEF FieldsOf, Parent, p
  <2>6. WithFields(p, Top) \in Continuations(p)
    BY <1>1, <1>2, <2>2, <2>4, WithFieldsKeeps
  <2> QED BY <2>5, <2>6 DEF Continuations, p
<1>4. CASE base[Top] \notin Classes
  <2>1. Empty \in LayoutTypes /\ WellPlaced(Empty) /\ Continues(Empty, Empty)
    BY DEF Empty, LayoutTypes, WellPlaced, Continues
  <2>2. Empty \in Continuations(Empty)
    BY <2>1 DEF Continuations
  <2>3. FieldsOf(Top, Parent) = WithFields(Empty, Top)
    BY <1>4 DEF FieldsOf, Parent
  <2>4. WithFields(Empty, Top) \in Continuations(Empty)
    BY <1>1, <1>2, <2>1, <2>2, WithFieldsKeeps
  <2> QED BY <1>4, <2>3, <2>4 DEF Continuations
<1> QED BY <1>3, <1>4

\* Writing default values moves no field.
LEMMA InitialisedIs ==
  ASSUME NEW l \in LayoutTypes, NEW c \in Classes
  PROVE  /\ Initialised(l, c) \in LayoutTypes /\ Initialised(l, c).fields = l.fields
         /\ Initialised(l, c).size = l.size /\ Initialised(l, c).align = l.align
<1> DEFINE new == [i \in DOMAIN l.fields |-> IF i \in DOMAIN records[c] THEN "default" ELSE "junk"]
<1>1. l.fields \in Seq(Places)
  BY DEF LayoutTypes
<1>2. new \in Seq({"default", "junk"})
  <2>1. DOMAIN l.fields = 1 .. Len(l.fields) /\ Len(l.fields) \in Nat
    BY <1>1
  <2>2. new \in [1 .. Len(l.fields) -> {"default", "junk"}]
    BY <2>1
  <2> HIDE DEF new
  <2> QED BY <2>1, <2>2, SeqDef
<1>3. Initialised(l, c) = [l EXCEPT !.init = new]
  BY DEF Initialised
<1> HIDE DEF new
<1> QED BY <1>2, <1>3 DEF LayoutTypes

\* A field record lies behind those before it, with its padding within the storage; no
\* layout depends on it, for none is cached for its class.
LEMMA AppendFieldKeeps ==
  ASSUME LayoutInv, NEW c \in Classes, NEW f \in FieldSorts,
         AppendField(c, f) \/ AppendWithoutSpace(c, f)
  PROVE  LayoutInv'
<1> USE DEF LayoutInv
<1>1. /\ state = "idle" /\ state' \in {"idle", "stopped"}
      /\ UNCHANGED <<base, fns, layouts, tables, climbed>>
      /\ indices' = [indices EXCEPT ![c] = Append(@, Len(@))]
  BY DEF AppendField, AppendWithoutSpace, Declare
<1> DEFINE r == [sort |-> f, name |-> Len(indices[c]) + 1, offset |-> storage[c]]
<1>2. \/ /\ records' = [records EXCEPT ![c] = Append(@, r)]
         /\ storage' = [storage EXCEPT ![c] = Space(@, f)]
      \/ UNCHANGED <<records, storage>>
  BY DEF AppendField, AppendWithoutSpace
<1>3. f.size \in Nat /\ f.align \in Nat \ {0}
  BY LayoutAssumption
<1>4. /\ storage[c] \in Nat /\ indices[c] \in Seq(Nat) /\ records[c] \in Seq(FieldRecords)
      /\ Len(indices[c]) \in Nat
  BY DEF LayoutTyped
<1>5. Space(storage[c], f) \in Nat /\ Space(storage[c], f) >= storage[c] + f.size
  <2>1. Padded(storage[c], f.align) \in Nat /\ Padded(storage[c], f.align) >= storage[c]
    BY <1>3, <1>4, PaddedIs
  <2>2. Space(storage[c], f) \in {Padded(storage[c], f.align) + f.size, Padded(storage[c], f.align) + 2 * f.size}
    BY DEF Space
  <2> QED BY <2>1, <2>2, <1>3, <1>4
<1>6. r \in FieldRecords /\ r.offset = storage[c] /\ r.sort = f
  BY <1>4 DEF FieldRecords
<1> HIDE DEF r
<1>7. indices' \in [Classes -> Seq(Nat)]
  <2>1. Append(indices[c], Len(indices[c])) \in Seq(Nat)
    BY <1>4
  <2> QED BY <1>1, <2>1 DEF LayoutTyped
<1>8. LayoutTyped'
  <2>1. Append(records[c], r) \in Seq(FieldRecords)
    BY <1>4, <1>6
  <2>2. records' \in [Classes -> Seq(FieldRecords)] /\ storage' \in [Classes -> Nat]
    BY <1>2, <1>5, <2>1 DEF LayoutTyped
  <2> QED BY <1>1, <1>7, <2>2 DEF LayoutTyped
<1>9. ChainPrepared'
  BY <1>1 DEF ChainPrepared
<1>10. LayoutsPlaced'
  BY <1>1 DEF LayoutsPlaced
<1>11. ASSUME NEW d \in Classes PROVE InStorage(records'[d], storage'[d])
  <2>1. CASE UNCHANGED <<records, storage>>
    BY <2>1
  <2>2. CASE /\ records' = [records EXCEPT ![c] = Append(@, r)]
             /\ storage' = [storage EXCEPT ![c] = Space(@, f)]
    <3>1. CASE d # c
      <4>1. records'[d] = records[d] /\ storage'[d] = storage[d]
        BY <2>2, <3>1 DEF LayoutTyped
      <4> QED BY <4>1
    <3>2. CASE d = c
      <4> DEFINE q == records[c]
                 n == Len(q)
      <4>1. records'[d] = Append(q, r) /\ storage'[d] = Space(storage[c], f)
        BY <2>2, <3>2 DEF LayoutTyped
      <4>2. InStorage(q, storage[c])
        OBVIOUS
      <4>3. /\ q \in Seq(FieldRecords) /\ n \in Nat /\ Len(Append(q, r)) = n + 1
            /\ Append(q, r)[n + 1] = r /\ \A k \in 1 .. n : Append(q, r)[k] = q[k]
        BY <1>4, <1>6
      <4> HIDE DEF q
      <4>4. ASSUME NEW k \in 1 .. (n + 1)
            PROVE  Append(q, r)[k].offset + Append(q, r)[k].sort.size
                   <= IF k < n + 1 THEN Append(q, r)[k + 1].offset ELSE Space(storage[c], f)
        <5>1. CASE k = n + 1
          BY <4>3, <5>1, <1>3, <1>4, <1>5, <1>6
        <5>2. CASE k \in 1 .. n /\ k < n
          <6>1. k + 1 \in 1 .. n
            BY <5>2, <4>3
          <6> QED BY <4>2, <4>3, <5>2, <6>1 DEF InStorage
        <5>3. CASE k = n
          <6>1. Append(q, r)[k + 1] = r /\ Append(q, r)[k] = q[k] /\ k \in 1 .. n
            BY <4>3, <5>3
          <6> QED BY <4>2, <4>3, <5>3, <6>1, <1>6 DEF InStorage
        <5> QED BY <4>3, <5>1, <5>2, <5>3
      <4>5. InStorage(Append(q, r), Space(storage[c], f))
        BY <4>3, <4>4 DEF InStorage
      <4> QED BY <4>1, <4>5
    <3> QED BY <3>1, <3>2
  <2> QED BY <2>1, <2>2, <1>2
<1> QED BY <1>8, <1>9, <1>10, <1>11

\* The base of the class that gets its layout has one already, which the new layout
\* continues; no class derived from it has one yet.
LEMMA PrepareLayoutKeeps ==
  ASSUME LayoutInv, PrepareLayout
  PROVE  LayoutInv'
<1> USE DEF LayoutInv
<1>1. /\ state = "preparing" /\ layouts[Top] = Absent
      /\ UNCHANGED <<base, fns, records, indices, storage, tables, climbed>>
  BY DEF PrepareLayout
<1>2. Top = climbed[Len(climbed)] /\ Top \in Classes /\ Len(climbed) \in Nat \ {0}
  BY <1>1, TopIs
<1> DEFINE t == Top
           l == FieldsOf(Top, Parent)
           m == IF l.size = 0 THEN l ELSE Initialised(l, Top)
<1>3. /\ l \in LayoutTypes /\ WellPlaced(l)
      /\ base[t] \in Classes => Continues(l, layouts[base[t]])
  BY <1>1, FieldsOfIs
<1>4. /\ m \in LayoutTypes /\ m.fields = l.fields /\ m.size = l.size /\ m.align = l.align
  <2> HIDE DEF l
  <2> QED BY <1>2, <1>3, InitialisedIs
<1>5. base[t] \in Classes => Continues(m, layouts[base[t]])
  <2> HIDE DEF l, m, t
  <2> QED BY <1>3, <1>4 DEF Continues
<1>6. WellPlaced(m)
  <2> HIDE DEF l, m, t
  <2> QED BY <1>3, <1>4 DEF WellPlaced
<1>7. \/ /\ layouts' = [layouts EXCEPT ![t] = m] /\ UNCHANGED state
      \/ UNCHANGED layouts /\ state' = "stopped"
  BY DEF PrepareLayout
<1>8. t \in Classes /\ layouts[t] = Absent /\ t = climbed[Len(climbed)] /\ Len(climbed) \in Nat \ {0}
  BY <1>1, <1>2
<1> HIDE DEF l, m, t
<1>9. CASE UNCHANGED layouts /\ state' = "stopped"
  <2>1. LayoutTyped'
    BY <1>1, <1>9 DEF LayoutTyped
  <2>2. ChainPrepared'
    BY <1>1, <1>9 DEF ChainPrepared
  <2>3. LayoutsPlaced'
    BY <1>1, <1>9 DEF LayoutsPlaced
  <2> QED BY <1>1, <2>1, <2>2, <2>3
<1>10. CASE layouts' = [layouts EXCEPT ![t] = m] /\ UNCHANGED state
  <2>1. /\ layouts'[t] = m /\ m # Absent /\ DOMAIN layouts = Classes
        /\ \A d \in Classes : d # t => layouts'[d] = layouts[d]
    BY <1>4, <1>8, <1>10, AbsentIs DEF LayoutTyped
  <2>2. LayoutTyped'
    <3>1. layouts' \in [Classes -> LayoutTypes \cup {Absent}]
      BY <1>4, <1>10 DEF LayoutTyped
    <3> QED BY <1>1, <1>10, <3>1 DEF LayoutTyped
  <2>3. \A d \in Classes : layouts[d] # Absent => d # t /\ layouts'[d] = layouts[d]
    BY <1>8, <2>1
  <2>4. ChainPrepared'
    <3>1. base[t] \in Classes => layouts'[base[t]] # Absent
      BY <1>1, <1>8, <2>3 DEF ChainPrepared
    <3> QED BY <1>1, <1>8, <1>10, <3>1 DEF ChainPrepared
  <2>5. ASSUME NEW d \in Classes, layouts'[d] # Absent
        PROVE  /\ WellPlaced(layouts'[d])
               /\ base[d] \in Classes =>
                    layouts'[base[d]] # Absent /\ Continues(layouts'[d], layouts'[base[d]])
    <3>1. CASE d = t
      <4>1. base[t] \in Classes => layouts[base[t]] # Absent
        BY <1>1, <1>8 DEF ChainPrepared
      <4> QED BY <3>1, <4>1, <2>1, <2>3, <1>5, <1>6
    <3>2. CASE d # t
      <4>1. layouts[d] # Absent /\ layouts'[d] = layouts[d]
        BY <2>1, <2>5, <3>2
      <4>2. /\ WellPlaced(layouts[d])
            /\ base[d] \in Classes => layouts[base[d]] # Absent /\ Continues(layouts[d], layouts[base[d]])
        BY <4>1 DEF LayoutsPlaced
      <4> QED BY <2>3, <4>1, <4>2
    <3> QED BY <3>1, <3>2
  <2>6. LayoutsPlaced'
    BY <2>5, <1>1 DEF LayoutsPlaced
  <2> QED BY <1>1, <2>2, <2>4, <2>6
<1> QED BY <1>7, <1>9, <1>10

\* What leaves records and layouts alone leaves them sound.
LEMMA ListKeeps ==
  ASSUME LayoutInv, UNCHANGED <<base, records, indices, storage, layouts>>,
         DOMAIN tables' = Classes, climbed' \in Seq(Classes),
         state' \in {"climbing", "preparing"} => Len(climbed') > 0,
         ChainPrepared'
  PROVE  LayoutInv'
<1>1. LayoutTyped'
  BY DEF LayoutInv, LayoutTyped
<1>2. LayoutsPlaced'
  BY DEF LayoutInv, LayoutsPlaced
<1> QED BY <1>1, <1>2 DEF LayoutInv

\* The table of the last class of the list is not that of its base.
LEMMA PrepareTableKeeps ==
  ASSUME LayoutInv, PrepareTable
  PROVE  LayoutInv'
<1>1. /\ state = "preparing" /\ tables[Top] = Absent
      /\ UNCHANGED <<base, records, indices, storage, layouts, climbed, state>>
      /\ tables' = [tables EXCEPT ![Top] = MethodTable(Top, Parent)]
  BY DEF PrepareTable
<1>2. Top = climbed[Len(climbed)] /\ Top \in Classes
  BY <1>1, TopIs DEF LayoutInv
<1> DEFINE x == MethodTable(Top, Parent)
<1> HIDE DEF x
<1>3. tables' = [tables EXCEPT ![Top] = x] /\ DOMAIN tables = Classes
  BY <1>1 DEF LayoutInv, LayoutTyped, x
<1>4. DOMAIN tables' = Classes /\ \A d \in Classes : d # Top => tables'[d] = tables[d]
  BY <1>3
<1>5. ChainPrepared'
  <2>1. base[Top] \in Classes => layouts[base[Top]] # Absent
    BY <1>1, <1>2 DEF LayoutInv, ChainPrepared
  <2> QED BY <1>1, <1>2, <2>1 DEF LayoutInv, ChainPrepared
<1> QED BY <1>1, <1>4, <1>5, ListKeeps DEF LayoutInv, LayoutTyped

\* The class that leaves the list is the base of the one before it, and prepared.
LEMMA NextInList ==
  ASSUME LayoutInv, state = "preparing", Len(climbed) > 1, layouts[Top] # Absent,
         climbed' = Front(climbed),
         UNCHANGED <<base, records, indices, storage, layouts, tables, state>>
  PROVE  LayoutInv'
<1>1. /\ state = "preparing" /\ Len(climbed) > 1 /\ layouts[Top] # Absent
      /\ climbed' = Front(climbed)
      /\ UNCHANGED <<base, records, indices, storage, layouts, tables, state>>
  OBVIOUS
<1>2. Top = climbed[Len(climbed)] /\ Top \in Classes /\ climbed \in Seq(Classes)
  BY <1>1, TopIs DEF LayoutInv, LayoutTyped
<1> DEFINE n == Len(climbed)
<1>3. n \in Nat /\ n - 1 \in 1 .. n /\ n - 1 > 0
  BY <1>1, <1>2
<1>4. /\ climbed' \in Seq(Classes) /\ Len(climbed') = n - 1
      /\ \A i \in 1 .. (n - 1) : climbed'[i] = climbed[i]
  <2>1. climbed' = SubSeq(climbed, 1, n - 1)
    BY <1>1 DEF Front
  <2> HIDE DEF n
  <2>2. 1 \in 1 .. (Len(climbed) + 1) /\ n - 1 \in 1 - 1 .. Len(climbed)
    BY <1>3, <1>2 DEF n
  <2> QED BY <1>2, <1>3, <2>1, <2>2, SubSeqProperties
<1>5. ChainPrepared'
  <2>1. climbed[n] = base[climbed[n - 1]]
    BY <1>3 DEF LayoutInv, ChainPrepared
  <2>2. climbed'[Len(climbed')] = climbed[n - 1]
    BY <1>3, <1>4
  <2>3. \A i \in 1 .. Len(climbed') - 1 : climbed'[i + 1] = base[climbed'[i]]
    <3> SUFFICES ASSUME NEW i \in 1 .. (n - 1) - 1 PROVE climbed'[i + 1] = base[climbed'[i]]
      BY <1>4
    <3>1. i \in 1 .. (n - 1) /\ i + 1 \in 1 .. (n - 1)
      BY <1>3
    <3> QED BY <3>1, <1>4 DEF LayoutInv, ChainPrepared
  <2> HIDE DEF n
  <2> QED BY <1>1, <1>2, <2>1, <2>2, <2>3 DEF ChainPrepared, n
<1> QED BY <1>1, <1>3, <1>4, <1>5, ListKeeps DEF LayoutInv, LayoutTyped

\* The list grows by a base, or there is none.
LEMMA ClimbKeeps ==
  ASSUME LayoutInv, Climb
  PROVE  LayoutInv'
<1>1. state = "climbing" /\ UNCHANGED <<base, records, indices, storage, layouts, tables>>
  BY DEF Climb
<1>2. Top = climbed[Len(climbed)] /\ Top \in Classes /\ Len(climbed) \in Nat \ {0}
  BY <1>1, TopIs DEF LayoutInv
<1>3. DOMAIN tables' = Classes /\ climbed \in Seq(Classes)
  BY <1>1 DEF LayoutInv, LayoutTyped
<1>4. CASE base[Top] \in Classes /\ climbed' = Append(climbed, base[Top]) /\ UNCHANGED state
  <2> DEFINE n == Len(climbed)
  <2>1. /\ climbed' \in Seq(Classes) /\ Len(climbed') = n + 1 /\ climbed'[n + 1] = base[Top]
        /\ \A i \in 1 .. n : climbed'[i] = climbed[i]
    BY <1>3, <1>4
  <2>2. ChainPrepared'
    <3> SUFFICES ASSUME NEW i \in 1 .. Len(climbed') - 1
                 PROVE  climbed'[i + 1] = base[climbed'[i]]
      BY <1>1, <1>4 DEF ChainPrepared
    <3>1. CASE i = n
      BY <1>2, <2>1, <3>1
    <3>2. CASE i # n
      <4>1. i \in 1 .. n /\ i + 1 \in 1 .. n /\ i \in 1 .. n - 1
        BY <1>2, <2>1, <3>2
      <4> QED BY <2>1, <4>1 DEF LayoutInv, ChainPrepared
    <3> QED BY <3>1, <3>2
  <2>3. Len(climbed') > 0
    BY <1>2, <2>1
  <2> QED BY <1>1, <1>3, <2>1, <2>2, <2>3, ListKeeps
<1>5. CASE base[Top] = "none" /\ state' = "preparing" /\ UNCHANGED climbed
  <2>1. base[Top] \notin Classes
    BY <1>5, LayoutAssumption
  <2>2. ChainPrepared'
    BY <1>1, <1>2, <1>5, <2>1 DEF LayoutInv, ChainPrepared
  <2>3. Len(climbed') > 0
    BY <1>2, <1>5
  <2> QED BY <1>1, <1>3, <1>5, <2>2, <2>3, ListKeeps
<1>6. CASE climbed' = <<>> /\ state' = "idle"
  <2>1. ChainPrepared'
    BY <1>6 DEF ChainPrepared
  <2> QED BY <1>1, <1>3, <1>6, <2>1, ListKeeps
<1> QED BY <1>4, <1>5, <1>6 DEF Climb

\* Every step keeps the layouts sound.
LEMMA LayoutKept ==
  ASSUME LayoutInv, [LayoutNext]_lay
  PROVE  LayoutInv'
<1>1. DOMAIN tables = Classes
  BY DEF LayoutInv, LayoutTyped
<1>2. ASSUME NEW c \in Classes, NEW f \in FieldSorts, AppendField(c, f) \/ AppendWithoutSpace(c, f)
      PROVE  LayoutInv'
  BY <1>2, AppendFieldKeeps
<1>3. ASSUME NEW c \in Classes, RequestInstance(c) PROVE LayoutInv'
  <2>1. /\ climbed' = <<c>> /\ state' = "climbing"
        /\ UNCHANGED <<base, records, indices, storage, layouts, tables>>
    BY <1>3 DEF RequestInstance
  <2>2. climbed' \in Seq(Classes) /\ Len(climbed') = 1
    BY <2>1
  <2>3. ChainPrepared'
    BY <2>1, <2>2 DEF ChainPrepared
  <2> QED BY <1>1, <2>1, <2>2, <2>3, ListKeeps
<1>4. CASE CreateInstance \/ PrepareOutOfMemory
  <2>1. climbed' = <<>> /\ state' = "idle" /\ UNCHANGED <<base, records, indices, storage, layouts, tables>>
    BY <1>4 DEF CreateInstance, PrepareOutOfMemory
  <2>2. ChainPrepared'
    BY <2>1 DEF ChainPrepared
  <2> QED BY <1>1, <2>1, <2>2, ListKeeps
<1>5. CASE UNCHANGED lay
  <2>1. UNCHANGED <<base, records, indices, storage, layouts, tables, climbed, state>>
    BY <1>5 DEF lay
  <2>2. ChainPrepared'
    BY <2>1 DEF LayoutInv, ChainPrepared
  <2> QED BY <2>1, <2>2, ListKeeps DEF LayoutInv, LayoutTyped
<1>6. CASE PreparedBase
  BY <1>6, NextInList DEF PreparedBase
<1>7. ASSUME state' = "stopped", climbed' = climbed, state = "preparing",
             UNCHANGED <<base, records, indices, storage, layouts, tables>>
      PROVE  LayoutInv'
  <2>1. ChainPrepared' /\ climbed' \in Seq(Classes)
    BY <1>7 DEF LayoutInv, LayoutTyped, ChainPrepared
  <2> QED BY <1>1, <1>7, <2>1, ListKeeps
<1>8. CASE PrepareNoTable
  <2>1. /\ state = "preparing" /\ layouts[Top] # Absent
        /\ UNCHANGED <<base, records, indices, storage, layouts, tables>>
        /\ \/ state' = "stopped" /\ UNCHANGED climbed
           \/ climbed' = Front(climbed) /\ Len(climbed) > 1 /\ UNCHANGED state
           \/ climbed' = Front(climbed) /\ ~ (Len(climbed) > 1) /\ state' = "idle"
    BY <1>8 DEF PrepareNoTable
  <2>2. CASE climbed' = Front(climbed) /\ Len(climbed) > 1 /\ UNCHANGED state
    BY <2>1, <2>2, NextInList
  <2>3. CASE climbed' = Front(climbed) /\ ~ (Len(climbed) > 1) /\ state' = "idle"
    <3>1. climbed \in Seq(Classes) /\ Len(climbed) \in Nat /\ Len(climbed) > 0
      BY <2>1 DEF LayoutInv, LayoutTyped
    <3>2. climbed' = SubSeq(climbed, 1, 0)
      BY <2>3, <3>1 DEF Front
    <3>3. climbed' = <<>>
      BY <3>1, <3>2
    <3>4. ChainPrepared'
      BY <2>3, <3>3 DEF ChainPrepared
    <3> QED BY <1>1, <2>1, <2>3, <3>3, <3>4, ListKeeps
  <2> QED BY <1>7, <2>1, <2>2, <2>3
<1>9. CASE CreateNothing
  BY <1>7, <1>9 DEF CreateNothing
<1> QED BY <1>2, <1>3, <1>4, <1>5, <1>6, <1>8, <1>9, ClimbKeeps, PrepareLayoutKeeps, PrepareTableKeeps
        DEF LayoutNext

\* Nothing is cached at first.
LEMMA LayoutStart == ASSUME LayoutInit PROVE LayoutInv
<1>1. base \in [Classes -> Classes \cup {"none", "malformed"}]
  BY LayoutAssumption DEF LayoutInit
<1>2. LayoutTyped
  BY <1>1 DEF LayoutInit, LayoutTyped
<1>3. ChainPrepared
  BY DEF LayoutInit, ChainPrepared
<1>4. LayoutsPlaced
  BY DEF LayoutInit, LayoutsPlaced
<1>5. \A c \in Classes : InStorage(records[c], storage[c])
  BY DEF LayoutInit, InStorage
<1> QED BY <1>2, <1>3, <1>4, <1>5 DEF LayoutInv

\* A sequence whose elements another one begins with is a prefix of it.
LEMMA PrefixIs ==
  ASSUME NEW S, NEW s \in Seq(S), NEW t \in Seq(S), Len(s) <= Len(t),
         \A i \in 1 .. Len(s) : t[i] = s[i]
  PROVE  IsPrefix(s, t)
<1> DEFINE n == Len(s)
           a == SubSeq(s, 1, n)
           b == SubSeq(t, 1, n)
<1>1. n \in Nat /\ Len(t) \in Nat /\ n \in 0 .. Len(t) /\ n \in 0 .. Len(s)
  OBVIOUS
<1>2. a \in Seq(S) /\ Len(a) = n /\ \A i \in 1 .. n : a[i] = s[i]
  OBVIOUS
<1>3. b \in Seq(S) /\ Len(b) = n /\ \A i \in 1 .. n : b[i] = t[i]
  OBVIOUS
<1>4. a = b
  <2> HIDE DEF a, b
  <2> QED BY <1>2, <1>3, SeqEqual
<1> QED BY <1>4 DEF IsPrefix

\* For any classes, chains of base classes, fields and functions: fields overlap neither
\* in the storage of a class nor in its instances, and an instance begins with what an
\* instance of its base consists of.
THEOREM FieldsApart == LayoutSpec => []LayoutSound
<1>1. LayoutInv => LayoutSound
  <2> SUFFICES ASSUME LayoutInv PROVE LayoutSound
    OBVIOUS
  <2> USE DEF LayoutInv
  <2>1. ASSUME NEW c \in Classes
        PROVE  \A i \in DOMAIN records[c] :
                 LET r == records[c]
                 IN r[i].offset + r[i].sort.size <= IF i < Len(r) THEN r[i + 1].offset ELSE storage[c]
    <3>1. DOMAIN records[c] = 1 .. Len(records[c])
      BY DEF LayoutTyped
    <3> QED BY <3>1 DEF InStorage
  <2>2. ASSUME NEW c \in Classes, layouts[c] # Absent
        PROVE  LET l == layouts[c]
               IN /\ \A i \in DOMAIN l.fields :
                       /\ l.fields[i].offset % l.fields[i].align = 0
                       /\ l.fields[i].offset + l.fields[i].size <= l.size
                       /\ l.align >= l.fields[i].align
                       /\ \A j \in 1..(i - 1) : Before(l.fields[j], l.fields[i])
                  /\ base[c] \in Classes =>
                       /\ layouts[base[c]] # Absent
                       /\ IsPrefix(layouts[base[c]].fields, l.fields)
                       /\ l.align >= layouts[base[c]].align
    <3>1. layouts[c].fields \in Seq(Places) /\ WellPlaced(layouts[c])
      BY <2>2 DEF LayoutTyped, LayoutsPlaced, LayoutTypes
    <3>2. DOMAIN layouts[c].fields = 1 .. Len(layouts[c].fields)
      BY <3>1
    <3>3. ASSUME base[c] \in Classes
          PROVE  /\ layouts[base[c]] # Absent
                 /\ IsPrefix(layouts[base[c]].fields, layouts[c].fields)
                 /\ layouts[c].align >= layouts[base[c]].align
      <4>1. layouts[base[c]] # Absent /\ Continues(layouts[c], layouts[base[c]])
        BY <2>2, <3>3 DEF LayoutsPlaced
      <4>2. layouts[base[c]].fields \in Seq(Places)
        BY <3>3, <4>1 DEF LayoutTyped, LayoutTypes
      <4> QED BY <3>1, <4>1, <4>2, PrefixIs DEF Continues
    <3> QED BY <3>1, <3>2, <3>3 DEF WellPlaced
  <2> QED BY <2>1, <2>2 DEF LayoutSound
<1> QED BY <1>1, LayoutStart, LayoutKept, PTL DEF LayoutSpec

-----------------------------------------------------------------------------
(* Method tables.                                                          *)

\* Class d declares a function of that name and signature.
DeclaresIn(F, d, name, sig) == name \in DOMAIN F[d] /\ sig \in F[d][name]

\* s goes from c up to the root.
ChainOf(B, s, c) ==
  /\ s \in Seq(Classes) /\ Len(s) > 0 /\ s[1] = c
  /\ \A i \in 1 .. Len(s) - 1 : s[i + 1] = B[s[i]]
  /\ B[s[Len(s)]] \notin Classes

\* A method of the table is the one that the first class of s that has it declares.
Nearest(F, s, t) ==
  \A name \in DOMAIN t.methods : \A m \in t.methods[name] :
    \E i \in 1 .. Len(s) : /\ m.class = s[i] /\ DeclaresIn(F, s[i], name, m.sig)
                           /\ \A j \in 1 .. (i - 1) : ~ DeclaresIn(F, s[j], name, m.sig)

\* The destructors there may be.
DestructorsIn(F) ==
  {[class |-> d, sig |-> CHOOSE s \in F[d]["delete"] : s # "()"] : d \in Classes}

\* Destructors are in the order of their classes in s.
Upwards(s, ds) ==
  \E r \in [1 .. Len(ds) -> 1 .. Len(s)] :
    /\ \A i \in 1 .. Len(ds) : ds[i].class = s[r[i]]
    /\ \A i, j \in 1 .. Len(ds) : i < j => r[i] < r[j]

\* The table of c is what the classes from c up to the root make of it.
TableSound(B, F, c, t) ==
  \E s : /\ ChainOf(B, s, c) /\ Nearest(F, s, t)
         /\ t.destructors \in Seq(DestructorsIn(F)) /\ Upwards(s, t.destructors)

TablesInv ==
  /\ LayoutInv
  /\ \A c \in Classes : layouts[c] # Absent => \E s : ChainOf(base, s, c)
  /\ \A c \in Classes : tables[c] # Absent => TableSound(base, fns, c, tables[c])

\* A class on top of the chain of its base.
LEMMA ChainLonger ==
  ASSUME NEW B, NEW c \in Classes, B[c] \in Classes, NEW s, ChainOf(B, s, B[c])
  PROVE  /\ ChainOf(B, <<c>> \o s, c) /\ Len(<<c>> \o s) = Len(s) + 1 /\ Len(s) \in Nat
         /\ (<<c>> \o s)[1] = c /\ \A i \in 1 .. Len(s) : (<<c>> \o s)[i + 1] = s[i]
<1> DEFINE q == <<c>> \o s
<1>1. s \in Seq(Classes) /\ Len(s) \in Nat /\ Len(s) > 0
  BY DEF ChainOf
<1>2. /\ q \in Seq(Classes) /\ Len(q) = Len(s) + 1 /\ q[1] = c
      /\ \A i \in 1 .. Len(s) : q[i + 1] = s[i]
  BY <1>1
<1> HIDE DEF q
<1>3. ASSUME NEW i \in 1 .. Len(q) - 1 PROVE q[i + 1] = B[q[i]]
  <2>1. CASE i = 1
    <3>1. q[i + 1] = s[1] /\ s[1] = B[c]
      BY <1>1, <1>2, <2>1 DEF ChainOf
    <3> QED BY <1>2, <2>1, <3>1
  <2>2. CASE i # 1
    <3>1. i - 1 \in 1 .. Len(s) - 1 /\ i \in 1 .. Len(s) /\ (i - 1) + 1 = i /\ i - 1 \in 1 .. Len(s)
      BY <1>1, <1>2, <2>2
    <3>2. q[i + 1] = s[i] /\ q[i] = s[i - 1]
      BY <1>2, <3>1
    <3>3. s[(i - 1) + 1] = B[s[i - 1]]
      BY <3>1 DEF ChainOf
    <3> QED BY <3>1, <3>2, <3>3
  <2> QED BY <2>1, <2>2
<1>4. q[Len(q)] = s[Len(s)]
  BY <1>1, <1>2
<1>5. ChainOf(B, q, c)
  BY <1>1, <1>2, <1>3, <1>4 DEF ChainOf
<1> QED BY <1>1, <1>2, <1>5 DEF q

\* A class that has no table passes nothing on.
LEMMA NoTableSound ==
  ASSUME NEW B, NEW F, NEW c, NEW s, ChainOf(B, s, c)
  PROVE  TableSound(B, F, c, NoTable)
<1>1. NoTable.destructors = <<>> /\ DOMAIN NoTable.methods = {}
  BY DEF NoTable
<1>2. Nearest(F, s, NoTable)
  BY <1>1 DEF Nearest
<1>3. Upwards(s, <<>>)
  <2> DEFINE r == [i \in 1 .. Len(<<>>) |-> 1]
  <2>1. 1 .. Len(<<>>) = {}
    OBVIOUS
  <2>2. r \in [1 .. Len(<<>>) -> 1 .. Len(s)]
    BY <2>1
  <2> QED BY <2>1, <2>2 DEF Upwards
<1>4. NoTable.destructors \in Seq(DestructorsIn(F))
  BY <1>1
<1> QED BY <1>1, <1>2, <1>3, <1>4 DEF TableSound

\* What PrepareTable caches.
LEMMA MethodTableSound ==
  ASSUME TablesInv, state = "preparing"
  PROVE  TableSound(base, fns, Top, MethodTable(Top, Parent))
<1> DEFINE c == Top
           t == MethodTable(Top, Parent)
           own == Destructors(Top)
<1>1. c = climbed[Len(climbed)] /\ c \in Classes
  BY TopIs DEF TablesInv, LayoutInv
<1>2. own \in Seq(DestructorsIn(fns)) /\ Len(own) \in {0, 1} /\ (Len(own) = 1 => own[1].class = c)
  <2> DEFINE d == [class |-> c, sig |-> CHOOSE s \in fns[c]["delete"] : s # "()"]
  <2>1. d \in DestructorsIn(fns) /\ d.class = c
    BY <1>1 DEF DestructorsIn
  <2>2. own = <<d>> \/ own = <<>>
    BY DEF Destructors
  <2> HIDE DEF d, own, c
  <2>3. CASE own = <<>>
    BY <2>3
  <2>4. CASE own = <<d>>
    <3>1. Len(own) = 1 /\ own[1] = d
      BY <2>4
    <3>2. own \in Seq(DestructorsIn(fns))
      BY <2>1, <2>4
    <3> QED BY <2>1, <3>1, <3>2
  <2> QED BY <2>2, <2>3, <2>4
<1>3. /\ DOMAIN t.methods \subseteq DOMAIN fns[c]
      /\ \A name \in DOMAIN t.methods : t.methods[name] = Overloadings(c, Parent, name)
  BY DEF MethodTable
<1>4. CASE base[c] \notin Classes
  <2> DEFINE s == <<c>>
  <2>1. Parent = <<>>
    BY <1>4 DEF Parent
  <2>2. s \in Seq(Classes) /\ Len(s) = 1 /\ s[1] = c
    BY <1>1
  <2>3. ChainOf(base, s, c)
    BY <1>4, <2>2 DEF ChainOf
  <2>4. t.destructors = own
    <3>1. t.destructors = own \o <<>>
      BY <2>1 DEF MethodTable, Inherited, HasTable, NoTable
    <3> HIDE DEF own
    <3> QED BY <1>2, <3>1
  <2>5. Nearest(fns, s, t)
    <3>1. ASSUME NEW name \in DOMAIN t.methods, NEW m \in t.methods[name]
          PROVE  m.class = c /\ DeclaresIn(fns, c, name, m.sig)
      <4>1. m \in {[sig |-> x, class |-> c] : x \in fns[c][name]}
        BY <1>3, <2>1 DEF Overloadings, Inherited, HasTable, NoTable
      <4> QED BY <1>3, <4>1 DEF DeclaresIn
    <3> HIDE DEF s, t
    <3>2. 1 \in 1 .. Len(s) /\ (1 .. (1 - 1)) = {}
      BY <2>2
    <3> QED BY <2>2, <3>1, <3>2 DEF Nearest
  <2>6. Upwards(s, own)
    <3> HIDE DEF s, own
    <3> DEFINE r == [i \in 1 .. Len(own) |-> 1]
    <3>1. r \in [1 .. Len(own) -> 1 .. Len(s)]
      BY <2>2
    <3>2. ASSUME NEW i \in 1 .. Len(own) PROVE i = 1 /\ own[i].class = s[r[i]]
      <4>1. r[i] = 1
        OBVIOUS
      <4>2. \A z \in {0, 1} : \A y \in 1 .. z : y = 1 /\ z = 1
        OBVIOUS
      <4>3. i = 1 /\ Len(own) = 1
        BY <1>2, <4>2, Zenon
      <4> HIDE DEF r
      <4> QED BY <1>2, <2>2, <4>1, <4>3
    <3>3. \A i, j \in 1 .. Len(own) : i < j => r[i] < r[j]
      BY <3>2
    <3> HIDE DEF r
    <3> QED BY <3>1, <3>2, <3>3 DEF Upwards
  <2> HIDE DEF s, t, own
  <2>7. TableSound(base, fns, c, t)
    BY <1>2, <2>3, <2>4, <2>5, <2>6 DEF TableSound
  <2> QED BY <2>7 DEF t
<1>5. CASE base[c] \in Classes
  <2> DEFINE b == base[c]
             p == Inherited(Parent)
  <2>1. Parent = <<b>>
    BY <1>5 DEF Parent
  <2>2. b \in Classes /\ layouts[b] # Absent
    BY <1>1, <1>5 DEF TablesInv, LayoutInv, ChainPrepared
  <2>3. TableSound(base, fns, b, p)
    <3>1. CASE tables[b] # Absent
      BY <2>1, <2>2, <3>1 DEF TablesInv, Inherited, HasTable
    <3>2. CASE tables[b] = Absent
      <4>1. PICK q : ChainOf(base, q, b)
        BY <2>2 DEF TablesInv
      <4>2. p = NoTable
        BY <2>1, <3>2 DEF Inherited, HasTable
      <4>3. TableSound(base, fns, b, NoTable)
        BY <4>1, NoTableSound
      <4> QED BY <4>2, <4>3
    <3> QED BY <3>1, <3>2
  <2>4. PICK q : /\ ChainOf(base, q, b) /\ Nearest(fns, q, p)
                 /\ p.destructors \in Seq(DestructorsIn(fns)) /\ Upwards(q, p.destructors)
    BY <2>3, Zenon DEF TableSound
  <2> DEFINE s == <<c>> \o q
             ds == p.destructors
  <2>5. /\ ChainOf(base, s, c) /\ Len(s) = Len(q) + 1 /\ Len(q) \in Nat
        /\ s[1] = c /\ \A i \in 1 .. Len(q) : s[i + 1] = q[i]
    BY <1>1, <1>5, <2>4, ChainLonger
  <2>6. t.destructors = own \o ds
    BY <2>1 DEF MethodTable
  <2>7. Nearest(fns, s, t)
    <3>1. ASSUME NEW name \in DOMAIN t.methods, NEW m \in t.methods[name]
          PROVE  \E i \in 1 .. Len(s) :
                   /\ m.class = s[i] /\ DeclaresIn(fns, s[i], name, m.sig)
                   /\ \A j \in 1 .. (i - 1) : ~ DeclaresIn(fns, s[j], name, m.sig)
      <4>1. \/ m \in {[sig |-> x, class |-> c] : x \in fns[c][name]}
            \/ name \in DOMAIN p.methods /\ m \in p.methods[name] /\ m.sig \notin fns[c][name]
        <5>1. m \in Overloadings(c, Parent, name)
          BY <1>3
        <5> HIDE DEF c, t
        <5> QED BY <5>1 DEF Overloadings
      <4>2. CASE m \in {[sig |-> x, class |-> c] : x \in fns[c][name]}
        <5>1. m.class = c /\ DeclaresIn(fns, c, name, m.sig)
          BY <1>3, <4>2 DEF DeclaresIn
        <5>2. 1 \in 1 .. Len(s) /\ (1 .. (1 - 1)) = {}
          BY <2>5
        <5> HIDE DEF s, c
        <5> QED BY <2>5, <5>1, <5>2
      <4>3. CASE name \in DOMAIN p.methods /\ m \in p.methods[name] /\ m.sig \notin fns[c][name]
        <5> HIDE DEF s, c, p, t
        <5>1. PICK k \in 1 .. Len(q) :
                /\ m.class = q[k] /\ DeclaresIn(fns, q[k], name, m.sig)
                /\ \A j \in 1 .. (k - 1) : ~ DeclaresIn(fns, q[j], name, m.sig)
          BY <2>4, <4>3 DEF Nearest
        <5>2. k + 1 \in 1 .. Len(s) /\ s[k + 1] = q[k]
          BY <2>5
        <5>3. ASSUME NEW j \in 1 .. ((k + 1) - 1) PROVE ~ DeclaresIn(fns, s[j], name, m.sig)
          <6>1. CASE j = 1
            BY <2>5, <4>3, <6>1 DEF DeclaresIn
          <6>2. CASE j # 1
            <7>1. j - 1 \in 1 .. Len(q) /\ j - 1 \in 1 .. (k - 1) /\ (j - 1) + 1 = j
              BY <2>5, <6>2
            <7>2. s[j] = q[j - 1]
              BY <2>5, <7>1
            <7> QED BY <5>1, <7>1, <7>2
          <6> QED BY <6>1, <6>2
        <5> QED BY <5>1, <5>2, <5>3
      <4> QED BY <4>1, <4>2, <4>3
    <3> HIDE DEF s, t
    <3> QED BY <3>1 DEF Nearest
  <2>8. ds \in Seq(DestructorsIn(fns))
    BY <2>4
  <2>9. own \o ds \in Seq(DestructorsIn(fns))
    <3> HIDE DEF own, ds
    <3> QED BY <1>2, <2>8
  <2>10. Upwards(s, own \o ds)
    <3> HIDE DEF s, c, own, ds, p
    <3>1. PICK r \in [1 .. Len(ds) -> 1 .. Len(q)] :
            /\ \A i \in 1 .. Len(ds) : ds[i].class = q[r[i]]
            /\ \A i, j \in 1 .. Len(ds) : i < j => r[i] < r[j]
      BY <2>4 DEF Upwards, ds
    <3> DEFINE k == Len(own)
               n == Len(ds)
               x == own \o ds
               u == [i \in 1 .. (k + n) |-> IF i <= k THEN 1 ELSE r[i - k] + 1]
    <3>2. /\ Len(x) = k + n /\ n \in Nat /\ k \in {0, 1}
          /\ k = 1 => x[1] = own[1]
          /\ \A i \in 1 .. n : x[k + i] = ds[i]
      BY <1>2, <2>8
    <3> HIDE DEF k, n, x
    <3>3. \A i \in 1 .. n : r[i] \in 1 .. Len(q)
      BY <3>1 DEF n
    <3>4. ASSUME NEW i \in 1 .. (k + n)
          PROVE  /\ u[i] \in 1 .. Len(s) /\ x[i].class = s[u[i]]
                 /\ i <= k => u[i] = 1 /\ i = 1
                 /\ i > k => i - k \in 1 .. n /\ u[i] = r[i - k] + 1
      <4>1. CASE i <= k
        <5>1. i = 1 /\ k = 1 /\ u[i] = 1
          BY <3>2, <4>1
        <5>2. x[1] = own[1] /\ own[1].class = c
          BY <1>2, <3>2, <5>1 DEF k
        <5> QED BY <2>5, <5>1, <5>2
      <4>2. CASE i > k
        <5>1. i - k \in 1 .. n /\ k + (i - k) = i /\ u[i] = r[i - k] + 1
          BY <3>2, <4>2
        <5>2. x[i] = ds[i - k]
          BY <3>2, <5>1
        <5>3. ds[i - k].class = q[r[i - k]] /\ r[i - k] \in 1 .. Len(q)
          BY <3>1, <3>3, <5>1 DEF n
        <5>4. s[r[i - k] + 1] = q[r[i - k]] /\ r[i - k] + 1 \in 1 .. Len(s)
          BY <2>5, <5>3
        <5> QED BY <4>2, <5>1, <5>2, <5>3, <5>4, <3>2
      <4> QED BY <3>2, <4>1, <4>2
    <3>5. u \in [1 .. Len(x) -> 1 .. Len(s)]
      <4>1. DOMAIN u = 1 .. Len(x)
        BY <3>2
      <4>2. u = [i \in 1 .. Len(x) |-> u[i]]
        BY <4>1
      <4> HIDE DEF u
      <4> QED BY <3>2, <3>4, <4>2
    <3> HIDE DEF u
    <3>6. ASSUME NEW i \in 1 .. Len(x), NEW j \in 1 .. Len(x), i < j PROVE u[i] < u[j]
      <4>1. i \in 1 .. (k + n) /\ j \in 1 .. (k + n) /\ ~ (j <= k)
        BY <3>2, <3>6, <3>4
      <4>2. j - k \in 1 .. n /\ u[j] = r[j - k] + 1 /\ r[j - k] \in 1 .. Len(q)
        <5>1. j > k
          BY <4>1, <3>2
        <5>2. j - k \in 1 .. n /\ u[j] = r[j - k] + 1
          BY <4>1, <5>1, <3>4
        <5> QED BY <5>2, <3>3
      <4>3. CASE i <= k
        BY <3>4, <4>1, <4>2, <4>3
      <4>4. CASE i > k
        <5>1. i - k \in 1 .. n /\ u[i] = r[i - k] + 1 /\ r[i - k] \in 1 .. Len(q) /\ i - k < j - k
          BY <4>1, <4>4, <3>2, <3>3, <3>4, <3>6
        <5>2. r[i - k] < r[j - k]
          BY <3>1, <4>2, <5>1 DEF n
        <5> QED BY <4>2, <5>1, <5>2
      <4> QED BY <4>1, <4>3, <4>4, <3>2
    <3>7. \A i \in 1 .. Len(x) : x[i].class = s[u[i]]
      BY <3>2, <3>4
    <3>8. Upwards(s, x)
      BY <3>5, <3>6, <3>7 DEF Upwards
    <3> QED BY <3>8 DEF x
  <2>11. TableSound(base, fns, c, t)
    <3> HIDE DEF s, t, own, ds, c
    <3> QED BY <2>5, <2>6, <2>7, <2>9, <2>10 DEF TableSound
  <2> QED BY <2>11
<1> QED BY <1>4, <1>5

\* A class that gets its layout is a root, or its base has one and so a chain.
LEMMA ChainsKept ==
  ASSUME TablesInv, [LayoutNext]_lay
  PROVE  \A c \in Classes : layouts'[c] # Absent => \E s : ChainOf(base', s, c)
<1>1. base' = base
  BY DEF LayoutNext, lay, AppendField, AppendWithoutSpace, Declare, RequestInstance, Climb, PrepareLayout,
         PrepareTable, PrepareNoTable, PreparedBase, CreateInstance, CreateNothing, PrepareOutOfMemory
<1>2. LayoutInv
  BY DEF TablesInv
<1>3. CASE UNCHANGED layouts
  BY <1>1, <1>3 DEF TablesInv
<1>4. CASE PrepareLayout
  <2> DEFINE t == Top
  <2>1. t \in Classes /\ t = climbed[Len(climbed)] /\ state = "preparing"
    BY <1>2, <1>4, TopIs DEF PrepareLayout, LayoutInv
  <2>2. \A d \in Classes : d # t => layouts'[d] = layouts[d]
    BY <1>2, <1>4 DEF PrepareLayout, LayoutInv, LayoutTyped
  <2> HIDE DEF t
  <2>3. \E s : ChainOf(base, s, t)
    <3>1. CASE base[t] \notin Classes
      <4> DEFINE s == <<t>>
      <4>1. s \in Seq(Classes) /\ Len(s) = 1 /\ s[1] = t
        BY <2>1
      <4> HIDE DEF s
      <4> QED BY <3>1, <4>1 DEF ChainOf
    <3>2. CASE base[t] \in Classes
      <4>1. layouts[base[t]] # Absent
        BY <1>2, <2>1, <3>2 DEF LayoutInv, ChainPrepared
      <4>2. PICK s : ChainOf(base, s, base[t])
        BY <3>2, <4>1 DEF TablesInv
      <4> QED BY <2>1, <3>2, <4>2, ChainLonger
    <3> QED BY <3>1, <3>2
  <2>4. ASSUME NEW c \in Classes, layouts'[c] # Absent PROVE \E s : ChainOf(base, s, c)
    <3>1. CASE c = t
      BY <2>3, <3>1
    <3>2. CASE c # t
      BY <2>2, <2>4, <3>2 DEF TablesInv
    <3> QED BY <3>1, <3>2
  <2> QED BY <1>1, <2>4
<1>5. PrepareLayout \/ UNCHANGED layouts
  BY DEF LayoutNext, lay, AppendField, AppendWithoutSpace, Declare, RequestInstance, Climb,
         PrepareTable, PrepareNoTable, PreparedBase, CreateInstance, CreateNothing, PrepareOutOfMemory
<1> QED BY <1>3, <1>4, <1>5

\* Tables do not change once cached, and PrepareTable caches a sound one.
LEMMA TablesKept ==
  ASSUME TablesInv, [LayoutNext]_lay
  PROVE  TablesInv'
<1>1. LayoutInv /\ LayoutInv'
  BY LayoutKept DEF TablesInv
<1>0. \A c \in Classes : layouts'[c] # Absent => \E s : ChainOf(base', s, c)
  BY ChainsKept
<1>2. CASE UNCHANGED <<base, fns, tables>>
  BY <1>0, <1>1, <1>2 DEF TablesInv
<1>3. CASE PrepareTable
  <2> DEFINE x == MethodTable(Top, Parent)
             t == Top
  <2>1. state = "preparing" /\ UNCHANGED <<base, fns>> /\ tables' = [tables EXCEPT ![t] = x]
    BY <1>3 DEF PrepareTable
  <2>2. t \in Classes /\ TableSound(base, fns, t, x)
    BY <2>1, <1>1, TopIs, MethodTableSound DEF LayoutInv
  <2>3. DOMAIN tables = Classes
    BY <1>1 DEF LayoutInv, LayoutTyped
  <2> HIDE DEF x, t
  <2>4. ASSUME NEW c \in Classes, tables'[c] # Absent PROVE TableSound(base', fns', c, tables'[c])
    <3>1. CASE c = t
      <4>1. tables'[c] = x
        BY <2>1, <2>3, <3>1
      <4> QED BY <2>1, <2>2, <3>1, <4>1
    <3>2. CASE c # t
      <4>1. tables'[c] = tables[c]
        BY <2>1, <2>3, <3>2
      <4> QED BY <2>1, <2>4, <4>1 DEF TablesInv
    <3> QED BY <3>1, <3>2
  <2> QED BY <1>0, <1>1, <2>4 DEF TablesInv
<1>4. PrepareTable \/ UNCHANGED <<base, fns, tables>>
  BY DEF LayoutNext, lay, AppendField, AppendWithoutSpace, Declare, RequestInstance, Climb, PrepareLayout,
         PrepareNoTable, PreparedBase, CreateInstance, CreateNothing, PrepareOutOfMemory
<1> QED BY <1>2, <1>3, <1>4

\* No class of a chain that ends occurs in it twice.
LEMMA ChainDistinct ==
  ASSUME NEW B, NEW c \in Classes, NEW s, ChainOf(B, s, c)
  PROVE  \A i, j \in 1 .. Len(s) : s[i] = s[j] => i = j
<1> DEFINE n == Len(s)
<1>1. s \in Seq(Classes) /\ n \in Nat /\ n > 0
  BY DEF ChainOf
<1> SUFFICES ASSUME NEW i \in 1 .. n, NEW j \in 1 .. n, i < j, s[i] = s[j] PROVE FALSE
  <2>1. ASSUME NEW i \in 1 .. n, NEW j \in 1 .. n, s[i] = s[j] PROVE ~ (i < j) /\ ~ (j < i)
    BY <2>1, Zenon
  <2> QED BY <2>1, <1>1
<1> DEFINE m == n - j
           T == {k \in 0 .. m : s[i + k] # s[j + k]}
<1>2. T = {}
  <2>1. SUFFICES ASSUME T # {} PROVE FALSE
    OBVIOUS
  <2>2. PICK k \in T : \A y \in T : k <= y
    <3>1. T \in SUBSET Nat
      BY <1>1
    <3> HIDE DEF T
    <3> QED BY <2>1, <3>1, NatMin
  <2>3. k # 0
    BY <1>1, <2>2
  <2>4. k \in 0 .. m /\ k - 1 \in 0 .. m /\ k - 1 \notin T
    <3>1. k \in 0 .. m /\ m \in Nat
      BY <1>1, <2>2
    <3> HIDE DEF m
    <3>2. k - 1 \in 0 .. m /\ ~ (k <= k - 1)
      BY <2>3, <3>1
    <3> HIDE DEF T
    <3> QED BY <2>2, <3>1, <3>2, Zenon
  <2>5. s[i + (k - 1)] = s[j + (k - 1)]
    BY <2>4
  <2>6. /\ i + (k - 1) \in 1 .. n - 1 /\ (i + (k - 1)) + 1 = i + k
        /\ j + (k - 1) \in 1 .. n - 1 /\ (j + (k - 1)) + 1 = j + k
    BY <1>1, <2>3, <2>4
  <2>7. s[(i + (k - 1)) + 1] = B[s[i + (k - 1)]] /\ s[(j + (k - 1)) + 1] = B[s[j + (k - 1)]]
    BY <2>6 DEF ChainOf
  <2>8. s[i + k] = s[j + k]
    BY <2>5, <2>6, <2>7
  <2> QED BY <2>2, <2>8
<1>3. s[i + m] = s[n]
  <2>1. m \in 0 .. m /\ j + m = n
    BY <1>1
  <2> QED BY <1>2, <2>1
<1>4. i + m \in 1 .. n - 1 /\ (i + m) + 1 \in 1 .. n
  BY <1>1
<1>5. s[(i + m) + 1] = B[s[i + m]]
  BY <1>4 DEF ChainOf
<1>6. s[(i + m) + 1] \in Classes
  <2> HIDE DEF m, n
  <2> QED BY <1>1, <1>4 DEF n
<1> QED BY <1>3, <1>5, <1>6 DEF ChainOf

\* Lineage finds the way up that there is.
LEMMA LineageIs ==
  ASSUME LayoutTyped, NEW c \in Classes, NEW s, ChainOf(base, s, c)
  PROVE  Lineage(c) = s
<1> DEFINE n == Len(s)
           S == Seq(Classes) \ {<<>>}
           Next(l) == IF base[Last(l)] \in Classes THEN Append(l, base[Last(l)]) ELSE l
           G == [l \in S |-> Next(l)]
           a == <<c>>
           Walk(f) == [k \in Nat |-> IF k = 0 THEN <<c>> ELSE Next(f[k - 1])]
<1>1. s \in Seq(Classes) /\ n \in Nat /\ n > 0 /\ s[1] = c
  BY DEF ChainOf
<1>2. ASSUME NEW l \in S PROVE Next(l) \in S
  <2>1. CASE base[Last(l)] \in Classes
    <3>1. Append(l, base[Last(l)]) \in Seq(Classes) /\ Append(l, base[Last(l)]) # <<>>
      BY <2>1
    <3> QED BY <2>1, <3>1
  <2>2. CASE base[Last(l)] \notin Classes
    BY <2>2
  <2> QED BY <2>1, <2>2
<1>3. PICK f \in [Nat -> S] : f[0] = <<c>> /\ \A k \in Nat : f[k + 1] = Next(f[k])
  <2>1. G \in [S -> S]
    <3> HIDE DEF S, Next
    <3> QED BY <1>2
  <2>2. a \in S
    OBVIOUS
  <2> HIDE DEF G, S, a, Next
  <2>3. \E f \in [Nat -> S] : IteratesAll(f, G, a)
    BY <2>1, <2>2, IteratesForever
  <2>4. PICK f \in [Nat -> S] : IteratesAll(f, G, a)
    BY <2>3
  <2>5. \A k \in Nat : f[k] \in S /\ f[k + 1] = G[f[k]]
    BY <2>4 DEF IteratesAll
  <2>6. \A k \in Nat : f[k + 1] = Next(f[k])
    BY <2>5 DEF G
  <2> QED BY <2>4, <2>6 DEF a, IteratesAll
<1>4. f = Walk(f)
  <2> HIDE DEF Next, S
  <2>1. ASSUME NEW k \in Nat PROVE f[k] = IF k = 0 THEN <<c>> ELSE Next(f[k - 1])
    <3>1. CASE k = 0
      BY <1>3, <3>1
    <3>2. CASE k # 0
      <4>1. k - 1 \in Nat /\ (k - 1) + 1 = k
        BY <3>2
      <4>2. f[k] = Next(f[k - 1])
        BY <1>3, <4>1
      <4> QED BY <3>2, <4>2
    <3> QED BY <3>1, <3>2
  <2> QED BY <2>1
<1> DEFINE up[k \in Nat] == IF k = 0 THEN <<c>> ELSE Next(up[k - 1])
<1>5. up = Walk(up)
  <2> HIDE DEF Next, S
  <2> QED BY <1>4
<1>6. Lineage(c) = up[Cardinality(Classes)]
  BY DEF Lineage
<1>7. up[0] = <<c>> /\ \A k \in Nat \ {0} : up[k] = Next(up[k - 1])
  <2> HIDE DEF Next, S, up
  <2>1. \A k \in Nat : up[k] = IF k = 0 THEN <<c>> ELSE Next(up[k - 1])
    BY <1>5
  <2> QED BY <2>1
<1> DEFINE Far(k) == IF k + 1 < n THEN k + 1 ELSE n
           Upto(k) == up[k] \in Seq(Classes) /\ Len(up[k]) = Far(k) /\ \A i \in 1 .. Far(k) : up[k][i] = s[i]
<1>8. \A k \in Nat : Upto(k)
  <2> HIDE DEF up, S, Next
  <2> DEFINE T == {k \in Nat : ~ Upto(k)}
  <2>1. SUFFICES ASSUME T # {} PROVE FALSE
    OBVIOUS
  <2>2. PICK k \in T : \A y \in T : k <= y
    <3>1. T \in SUBSET Nat
      OBVIOUS
    <3> HIDE DEF T
    <3> QED BY <2>1, <3>1, NatMin
  <2>3. k # 0
    <3> SUFFICES Upto(0)
      BY <2>2
    <3>1. \A x \in Nat \ {0} : (IF 0 + 1 < x THEN 0 + 1 ELSE x) = 1
      OBVIOUS
    <3>2. n \in Nat \ {0}
      BY <1>1
    <3>3. Far(0) = 1
      BY <3>1, <3>2, Zenon
    <3> HIDE DEF Far
    <3> QED BY <1>1, <1>7, <3>3
  <2>4. k \in Nat \ {0} /\ k - 1 \in Nat /\ k - 1 \notin T
    BY <2>2, <2>3
  <2>5. Upto(k - 1)
    BY <2>4
  <2> DEFINE l == up[k - 1]
             d == Far(k - 1)
  <2>6. up[k] = Next(l)
    BY <1>7, <2>4
  <2>7. l \in Seq(Classes) /\ Len(l) = d /\ \A i \in 1 .. d : l[i] = s[i]
    BY <2>5
  <2>8. d \in 1 .. n /\ (d < n => Far(k) = d + 1) /\ (d = n => Far(k) = n)
    BY <1>1, <2>4
  <2>9. Last(l) = s[d]
    BY <2>7, <2>8 DEF Last
  <2>10. Upto(k)
    <3> HIDE DEF l, d, Far
    <3>1. CASE d < n
      <4>1. s[d + 1] = base[s[d]] /\ s[d + 1] \in Classes
        <5>1. d \in 1 .. Len(s) - 1 /\ d + 1 \in 1 .. Len(s)
          BY <1>1, <2>8, <3>1
        <5> QED BY <1>1, <5>1 DEF ChainOf
      <4>2. up[k] = Append(l, s[d + 1])
        BY <2>6, <2>9, <4>1 DEF Next
      <4>3. /\ up[k] \in Seq(Classes) /\ Len(up[k]) = d + 1 /\ up[k][d + 1] = s[d + 1]
            /\ \A i \in 1 .. d : up[k][i] = s[i]
        BY <2>7, <2>8, <4>1, <4>2
      <4>4. \A i \in 1 .. (d + 1) : i = d + 1 \/ i \in 1 .. d
        BY <2>8
      <4> QED BY <2>8, <3>1, <4>3, <4>4
    <3>2. CASE d = n
      <4>1. base[s[d]] \notin Classes
        BY <3>2 DEF ChainOf
      <4>2. up[k] = l
        BY <2>6, <2>9, <4>1 DEF Next
      <4> QED BY <2>7, <2>8, <3>2, <4>2
    <3> QED BY <2>8, <3>1, <3>2, <1>1
  <2> QED BY <2>2, <2>10
<1>9. n <= Cardinality(Classes) /\ Cardinality(Classes) \in Nat
  <2> DEFINE D == 1 .. n
             q == [i \in D |-> s[i]]
  <2>1. IsFiniteSet(Classes) /\ Cardinality(Classes) \in Nat
    BY LayoutAssumption, FS_CardinalityType
  <2>2. IsFiniteSet(D) /\ Cardinality(D) = n
    <3> HIDE DEF n
    <3>1. 1 \in Int /\ n \in Int /\ ~ (1 > n) /\ n - 1 + 1 = n
      BY <1>1
    <3> QED BY <3>1, FS_Interval
  <2>3. q \in [D -> Classes]
    <3>1. \A i \in D : s[i] \in Classes
      BY <1>1
    <3> QED BY <3>1
  <2>4. \A x, y \in D : q[x] = q[y] => x = y
    <3>1. \A i, j \in D : s[i] = s[j] => i = j
      BY ChainDistinct
    <3>2. \A i \in D : q[i] = s[i]
      OBVIOUS
    <3> HIDE DEF D, q
    <3> QED BY <3>1, <3>2
  <2> HIDE DEF D, q, n
  <2>5. ~ (Cardinality(Classes) < Cardinality(D))
    BY <2>1, <2>2, <2>3, <2>4, FS_PigeonHole
  <2> QED BY <2>1, <2>2, <2>5, <1>1
<1>10. Upto(Cardinality(Classes)) /\ Far(Cardinality(Classes)) = n
  <2>1. \A x \in Nat \ {0} : \A y \in Nat : x <= y => (IF y + 1 < x THEN y + 1 ELSE x) = x
    OBVIOUS
  <2>2. n \in Nat \ {0}
    BY <1>1
  <2> HIDE DEF up, n
  <2> QED BY <1>8, <1>9, <2>1, <2>2, Zenon
<1> QED
  <2> HIDE DEF up
  <2>1. up[Cardinality(Classes)] = s
    BY <1>1, <1>10, SeqEqual
  <2> QED BY <1>6, <2>1

\* For any classes, chains and functions: a method in a table is the one that the nearest
\* class declares, and destructors run from the class itself towards the root.
THEOREM NearestWins == LayoutSpec => []OverridesWin
<1>1. LayoutInit => TablesInv
  <2> SUFFICES ASSUME LayoutInit PROVE TablesInv
    OBVIOUS
  <2>1. \A c \in Classes : tables[c] = Absent /\ layouts[c] = Absent
    BY DEF LayoutInit
  <2> QED BY <2>1, LayoutStart DEF TablesInv
<1>2. TablesInv => OverridesWin
  <2> SUFFICES ASSUME TablesInv, NEW c \in Classes, tables[c] # Absent
               PROVE  LET line == Lineage(c)
                          Rank(d) == CHOOSE i \in DOMAIN line : line[i] = d
                          Declares(d, name, sig) == name \in DOMAIN fns[d] /\ sig \in fns[d][name]
                      IN /\ \A name \in DOMAIN tables[c].methods : \A m \in tables[c].methods[name] :
                              /\ Declares(m.class, name, m.sig)
                              /\ \A i \in 1..(Rank(m.class) - 1) : ~ Declares(line[i], name, m.sig)
                         /\ \A i, j \in DOMAIN tables[c].destructors :
                              i < j => Rank(tables[c].destructors[i].class) < Rank(tables[c].destructors[j].class)
    BY DEF OverridesWin
  <2> DEFINE t == tables[c]
             Rank(s, d) == CHOOSE i \in DOMAIN s : s[i] = d
  <2>1. PICK s : /\ ChainOf(base, s, c) /\ Nearest(fns, s, t)
                 /\ t.destructors \in Seq(DestructorsIn(fns)) /\ Upwards(s, t.destructors)
    BY Zenon DEF TablesInv, TableSound
  <2>2. Lineage(c) = s
    BY <2>1, LineageIs DEF TablesInv, LayoutInv
  <2>3. s \in Seq(Classes) /\ DOMAIN s = 1 .. Len(s) /\ Len(s) \in Nat
    BY <2>1 DEF ChainOf
  <2>4. \A i, j \in 1 .. Len(s) : s[i] = s[j] => i = j
    BY <2>1, ChainDistinct
  <2>5. ASSUME NEW i \in 1 .. Len(s) PROVE Rank(s, s[i]) = i
    <3>1. i \in DOMAIN s /\ s[i] = s[i]
      BY <2>3
    <3>2. Rank(s, s[i]) \in DOMAIN s /\ s[Rank(s, s[i])] = s[i]
      BY <3>1, Zenon
    <3> HIDE DEF Rank
    <3> QED BY <2>3, <2>4, <3>2
  <2> HIDE DEF Rank
  <2>6. ASSUME NEW name \in DOMAIN t.methods, NEW m \in t.methods[name]
        PROVE  /\ name \in DOMAIN fns[m.class] /\ m.sig \in fns[m.class][name]
               /\ \A j \in 1 .. (Rank(s, m.class) - 1) : ~ (name \in DOMAIN fns[s[j]] /\ m.sig \in fns[s[j]][name])
    <3> HIDE DEF t
    <3>1. PICK k \in 1 .. Len(s) :
            /\ m.class = s[k] /\ DeclaresIn(fns, s[k], name, m.sig)
            /\ \A j \in 1 .. (k - 1) : ~ DeclaresIn(fns, s[j], name, m.sig)
      BY <2>1 DEF Nearest
    <3>2. Rank(s, m.class) = k
      BY <2>5, <3>1
    <3> QED BY <3>1, <3>2 DEF DeclaresIn
  <2>7. ASSUME NEW i \in DOMAIN t.destructors, NEW j \in DOMAIN t.destructors, i < j
        PROVE  Rank(s, t.destructors[i].class) < Rank(s, t.destructors[j].class)
    <3> DEFINE ds == t.destructors
    <3>1. DOMAIN ds = 1 .. Len(ds)
      BY <2>1
    <3>2. PICK r \in [1 .. Len(ds) -> 1 .. Len(s)] :
            /\ \A x \in 1 .. Len(ds) : ds[x].class = s[r[x]]
            /\ \A x, y \in 1 .. Len(ds) : x < y => r[x] < r[y]
      BY <2>1 DEF Upwards
    <3> HIDE DEF ds
    <3>3. i \in 1 .. Len(ds) /\ j \in 1 .. Len(ds)
      BY <3>1 DEF ds
    <3>4. r[i] \in 1 .. Len(s) /\ r[j] \in 1 .. Len(s) /\ r[i] < r[j]
      BY <3>2, <3>3, <2>7
    <3>5. Rank(s, ds[i].class) = r[i] /\ Rank(s, ds[j].class) = r[j]
      BY <2>5, <3>2, <3>3, <3>4
    <3> QED BY <3>4, <3>5 DEF ds
  <2> QED BY <2>2, <2>6, <2>7 DEF Rank
<1> QED BY <1>1, <1>2, TablesKept, PTL DEF LayoutSpec

=============================================================================
