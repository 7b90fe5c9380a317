-------------------------------- MODULE Structs --------------------------------
(***************************************************************************)
(* Structures that contain structures: the check of the loader that none   *)
(* contains itself (StructObject::is_recursed of src/slake/obj/class.cc)   *)
(* and the preparation of structures and union enums for instantiation,    *)
(* which must reach what is contained first, as its size is needed         *)
(* (_prepare_struct_for_instantiation of rt/new.cc).  Both walk with a     *)
(* list of frames instead of the stack.                                    *)
(***************************************************************************)
EXTENDS Naturals, Sequences, FiniteSets, SequencesExt

CONSTANTS
  Nodes,     \* the structures, union enums and items of union enums
  Shapes,    \* the possible declarations: [kind, parts], functions on Nodes
  FrameMax   \* the number of frames that memory has room for

Kinds == {"Struct", "UnionEnum", "UnionEnumItem"}

ASSUME StructsAssumption ==
  /\ IsFiniteSet(Nodes) /\ "number" \notin Nodes
  /\ \A s \in Shapes : /\ s.kind \in [Nodes -> Kinds]
                       /\ \A n \in Nodes :
                            /\ s.parts[n] \in Seq(Nodes \cup {"number"})
                            /\ s.kind[n] = "UnionEnum" => Range(s.parts[n]) \subseteq Nodes
  /\ FrameMax \in Nat \ {0}

VARIABLES
  shape,     \* the declarations
  unchecked, \* the structures that the loader has still to check
  frames,    \* context.frames: [node, at], at being the part to look at next
  walked,    \* context.walked_objects of the check
  laid,      \* the nodes whose layout, or maximal size, is cached
  stage      \* "loading", "checking", "ready", "preparing", "failed" or "stopped"

struct == <<shape, unchecked, frames, walked, laid, stage>>

Kind(n)  == shape.kind[n]
Parts(n) == shape.parts[n]
Frame(n) == [node |-> n, at |-> 1]
Cur      == Last(frames)
AtEnd    == Cur.at > Len(Parts(Cur.node))
Advanced(fs) == [fs EXCEPT ![Len(fs)].at = @ + 1]
Contained(n) == {m \in Nodes : m \in Range(Parts(n))}

StructsInit ==
  /\ shape \in Shapes
  /\ unchecked = {n \in Nodes : shape.kind[n] = "Struct"}
  /\ frames = <<>> /\ walked = {} /\ laid = {}
  /\ stage = "loading"

\* The next frame, or the end of the process or of the memory.
Push(n) ==
  IF Len(frames) < FrameMax THEN frames' = Append(Advanced(frames), Frame(n)) /\ UNCHANGED stage
                            ELSE frames' = <<>> /\ stage' = "failed"

-----------------------------------------------------------------------------
(* The check of the loader.                                                *)

\* is_recursed() of one of the structures loaded.
BeginCheck(n) ==
  /\ stage = "loading" /\ n \in unchecked
  /\ stage' = "checking"
  /\ frames' = <<Frame(n)>> /\ walked' = {}
  /\ UNCHANGED <<shape, unchecked, laid>>

Recursed == stage = "checking" /\ Cur.at = 1 /\ Cur.node \in walked

CheckStops == stage' = "stopped" /\ UNCHANGED <<shape, unchecked, frames, walked, laid>>

\* Something contains itself, or so it seems; or the first of no parts is read.
CheckRecursed == Recursed /\ CheckStops
CheckEmpty    == stage = "checking" /\ Cur.at = 1 /\ AtEnd /\ ~ Recursed /\ CheckStops

\* A field whose type is an item of a union enum fails an assertion.
CheckItemField ==
  /\ stage = "checking" /\ ~ AtEnd /\ ~ Recursed
  /\ Kind(Cur.node) # "UnionEnum"
  /\ Parts(Cur.node)[Cur.at] \in Nodes /\ Kind(Parts(Cur.node)[Cur.at]) = "UnionEnumItem"
  /\ CheckStops

\* A structure or an item: the next of its fields.
CheckField ==
  /\ stage = "checking" /\ ~ AtEnd /\ ~ Recursed /\ Kind(Cur.node) # "UnionEnum"
  /\ walked' = walked \cup {Cur.node}
  /\ LET part == Parts(Cur.node)[Cur.at]
     IN \/ part = "number" /\ frames' = Advanced(frames) /\ UNCHANGED stage
        \/ part \in Nodes /\ Kind(part) # "UnionEnumItem" /\ Push(part)
  /\ UNCHANGED <<shape, unchecked, laid>>

\* A union enum: a statement behind a break would have moved on to the next item.
CheckItem ==
  /\ stage = "checking" /\ ~ AtEnd /\ ~ Recursed /\ Kind(Cur.node) = "UnionEnum"
  /\ walked' = walked \cup {Cur.node}
  /\ \/ /\ Len(frames) < FrameMax
        /\ frames' = Append(frames, Frame(Parts(Cur.node)[Cur.at]))
        /\ UNCHANGED stage
     \/ /\ Len(frames) = FrameMax
        /\ frames' = <<>> /\ stage' = "failed"
  /\ UNCHANGED <<shape, unchecked, laid>>

\* Mutant: what has been walked stays so.
LeaveWalked == walked

\* walked_objects.remove()
Left == walked \ {Cur.node}

\* All fields of a structure or item have been looked at.
CheckLeave ==
  /\ stage = "checking" /\ AtEnd /\ Cur.at > 1
  /\ walked' = Left
  /\ frames' = Front(frames)
  /\ IF Len(frames) = 1 THEN stage' = "loading" /\ unchecked' = unchecked \ {Cur.node}
                        ELSE UNCHANGED <<stage, unchecked>>
  /\ UNCHANGED <<shape, laid>>

Loaded ==
  /\ stage = "loading" /\ unchecked = {}
  /\ stage' = "ready"
  /\ UNCHANGED <<shape, unchecked, frames, walked, laid>>

\* What a host declares itself is not checked.
DeclaredByHost ==
  /\ stage = "loading" /\ unchecked = {n \in Nodes : Kind(n) = "Struct"}
  /\ stage' = "ready"
  /\ UNCHANGED <<shape, unchecked, frames, walked, laid>>

-----------------------------------------------------------------------------
(* Preparation for instantiation.                                          *)

\* prepare_struct_for_instantiation() and the same for union enums and their items.
BeginPrepare(n) ==
  /\ stage = "ready"
  /\ stage' = "preparing"
  /\ frames' = <<Frame(n)>>
  /\ UNCHANGED <<shape, unchecked, walked, laid>>

\* Mutant: items of union enums are not followed.
PreparePartOfStructs ==
  /\ stage = "preparing" /\ ~ AtEnd
  /\ LET part == Parts(Cur.node)[Cur.at]
     IN IF part \in Nodes /\ Kind(Cur.node) = "Struct" THEN Push(part) ELSE frames' = Advanced(frames) /\ UNCHANGED stage
  /\ UNCHANGED <<shape, unchecked, walked, laid>>

\* The next field, or the next item.
PreparePart ==
  /\ stage = "preparing" /\ ~ AtEnd
  /\ LET part == Parts(Cur.node)[Cur.at]
     IN IF part \in Nodes THEN Push(part) ELSE frames' = Advanced(frames) /\ UNCHANGED stage
  /\ UNCHANGED <<shape, unchecked, walked, laid>>

\* sizeof_type() of the fields of a structure, or the layouts of the items of an enum.
SizesCached == Contained(Cur.node) \subseteq laid

\* The layout of a structure or item, or the maximum over the items.  Writing the
\* default value of a structure is refused, which ends the process.
PrepareSelf ==
  /\ stage = "preparing" /\ AtEnd
  /\ \/ /\ Cur.node \in laid \/ Kind(Cur.node) = "UnionEnum" \/ Contained(Cur.node) = {}
        /\ laid' = laid \cup {Cur.node}
        /\ frames' = Front(frames)
        /\ stage' = IF Len(frames) = 1 THEN "ready" ELSE stage
     \/ /\ Cur.node \notin laid /\ Kind(Cur.node) # "UnionEnum" /\ Contained(Cur.node) # {}
        /\ stage' = "stopped"
        /\ UNCHANGED <<laid, frames>>
  /\ UNCHANGED <<shape, unchecked, walked>>

StructsNext ==
  \/ \E n \in Nodes : BeginCheck(n) \/ BeginPrepare(n)
  \/ CheckRecursed \/ CheckEmpty \/ CheckItemField \/ CheckField \/ CheckItem \/ CheckLeave
  \/ Loaded \/ DeclaredByHost \/ PreparePart \/ PrepareSelf

StructsSpec == StructsInit /\ [][StructsNext]_struct

-----------------------------------------------------------------------------
(* Properties.                                                             *)

\* What a node contains, at any depth.
Within(n) ==
  LET deep[k \in Nat] == IF k = 0 THEN Contained(n)
                         ELSE deep[k - 1] \cup UNION {Contained(m) : m \in deep[k - 1]}
  IN deep[Cardinality(Nodes)]

Recursive(n) == n \in Within(n)

\* When the loader has checked a structure, nothing it contains contains itself,
\* and it ends the process for such a structure, for one that contains a union
\* enum or for one without fields only: a structure contained twice is not
\* taken for one that contains itself (_is_struct_recursed).
RecursionFound ==
  /\ stage = "loading" =>
       \A n \in Nodes : (Kind(n) = "Struct" /\ n \notin unchecked) =>
         \A m \in {n} \cup Within(n) : ~ Recursive(m)
  /\ (stage = "stopped" /\ laid = {} /\ ~ AtEnd) =>
       LET all == {frames[1].node} \cup Within(frames[1].node)
       IN \E m \in all : Recursive(m) \/ Kind(m) = "UnionEnum" \/ Parts(m) = <<>> \/ Kind(m) = "UnionEnumItem"

\* When the layout of a structure is made, or the maximal size of a union enum
\* computed, what it contains has its own, which sizeof_type and the maximum
\* over the items insist on (_prepare_struct_for_instantiation).
SizesKnown == (stage = "preparing" /\ AtEnd) => SizesCached
=============================================================================
