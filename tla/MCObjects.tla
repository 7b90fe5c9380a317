------------------------------ MODULE MCObjects ------------------------------
(***************************************************************************)
(* Reading modules, structures, the layout of classes and generic          *)
(* instances: an execution is one of these, with the state of the others   *)
(* at rest.                                                                *)
(***************************************************************************)
EXTENDS Layout, Structs, Loader, Generic

\* Layout.
MCChains == {[A |-> "none", B |-> "A", C |-> "B"], [A |-> "none", B |-> "A", C |-> "malformed"]}
Sort(t, n, s, d) == [type |-> t, size |-> n, align |-> n, static |-> s, default |-> d]
MCFieldSorts == {Sort("I8", 1, FALSE, TRUE), Sort("I32", 4, FALSE, TRUE), Sort("I8", 1, TRUE, TRUE),
                 Sort("String", 8, FALSE, FALSE)}
Fn2 == ("f" :> {"()", "(I32)"}) @@ ("delete" :> {"()", "(I32)"})
Fn1 == ("f" :> {"(I32)"}) @@ ("delete" :> {"(I32)"})
Fns(a, b, c) == [A |-> a, B |-> b, C |-> c]
MCFunctions == {Fns(Fn2, Fn1, Fn2), Fns(Fn1, <<>>, Fn2), Fns(<<>>, <<>>, Fn1)}

\* Structs.
Parts2(S) == UNION {[1..k -> S] : k \in 0..2}
MCShapes ==
  {[kind |-> [S |-> "Struct", T |-> "Struct", U |-> "Struct"],
    parts |-> [S |-> a, T |-> b, U |-> c]] :
     a \in Parts2({"S", "T", "U", "number"}), b \in Parts2({"T", "U", "number"}), c \in Parts2({"S", "number"})}
  \cup
  {[kind |-> [S |-> "Struct", T |-> "UnionEnum", U |-> "UnionEnumItem"],
    parts |-> [S |-> a, T |-> <<"U">>, U |-> c]] :
     a \in Parts2({"T", "U", "number"}), c \in Parts2({"S", "number"})}

\* Loader.
Ty(id, name, parts) == [id |-> id, name |-> name, parts |-> parts]
Number == Ty("I32", "", <<>>)
OfClass == Ty("Instance", "A", <<Number>>)
MCTypes == {Number, OfClass, Ty("Ref", "", <<OfClass>>), Ty("GenericArg", "T", <<>>)}
MCTypeLists == {<<>>, <<Number>>, <<OfClass>>}
MCValues == {[kind |-> "I32", types |-> <<>>], [kind |-> "IdRef", types |-> <<OfClass>>]}

\* Generic.
Plainly(id) == [id |-> id, name |-> "", of |-> <<>>]
Par(n) == [id |-> "GenericArg", name |-> n, of |-> <<>>]
Pack(t) == [id |-> "Unpacking", name |-> "", of |-> t]
PackOf(ts) == Pack([id |-> "ParamTypeList", name |-> "", of |-> ts])
Formed(t, f, ol, ps, form, hid, r) ==
  [type |-> t, fn |-> f, overloading |-> ol, params |-> ps, form |-> form, hidden |-> hid, ref |-> r]
Slot(t, f, ol, ps, hid, r) == Formed(t, f, ol, ps, "", hid, r)
Base(t) == Slot(t, 0, 0, <<>>, {}, "")
Taking(t, ol) == Slot(t, 1, ol, <<>>, {}, "")
D(k, ps, ss, fs) == [kind |-> k, params |-> ps, slots |-> ss, fields |-> fs, others |-> FALSE]
Pair == D("Class", <<"K", "V">>,
  <<Base(Par("K")), Slot(Par("V"), 0, 0, <<>>, {"V"}, ""), Taking(Par("V"), 1), Taking(Plainly("I32"), 1),
    Taking(Par("K"), 2), Taking(Plainly("I32"), 2), Slot(Par("K"), 1, 1, <<>>, {}, "r")>>, <<Plainly("I32")>>)
Iterable == D("Interface", <<"T">>, <<Base(Par("T")), Taking(PackOf(<<Par("T"), Plainly("I32")>>), 1)>>, <<>>)
Map == D("Fn", <<>>, <<Slot(Par("A"), 1, 1, <<"A">>, {}, ""), Slot(Par("A"), 1, 2, <<"A", "B">>, {}, ""),
                       Slot(Par("B"), 1, 2, <<"A", "B">>, {}, "")>>, <<>>)
Nested == D("Class", <<"T">>, <<Slot(Par("V"), 0, 0, <<>>, {"V"}, ""), Base(Plainly("Array"))>>,
            <<Plainly("I32"), Plainly("I32")>>)
Unknown == D("Class", <<"T">>, <<Base(Par("T")), Base(Par("U"))>>, <<>>)
Packed  == D("Class", <<"T">>, <<Taking(Pack(Par("T")), 1)>>, <<>>)
PackedNone == D("Class", <<"T">>, <<Taking(PackOf(<<>>), 1)>>, <<>>)
Clashing == D("Class", <<"T">>, <<Taking(Par("T"), 1), Formed(Plainly("I32"), 1, 2, <<>>, "variadic", {}, ""),
                                  Taking(PackOf(<<Plainly("I32")>>), 3)>>, <<>>)
Fielded == D("Class", <<"T">>, <<>>, <<Par("T")>>)
MCDecl == [Pair |-> Pair, Iterable |-> Iterable, Map |-> Map, Nested |-> Nested, Unknown |-> Unknown,
           Packed |-> Packed, PackedNone |-> PackedNone, Clashing |-> Clashing,
           Fielded |-> Fielded]
MCOriginals == DOMAIN MCDecl
MCArguments == {<<Plainly("I32")>>, <<Plainly("I32"), Plainly("F32")>>}
MCRefTypes == [r |-> Par("K")]

LayoutRests == /\ base = CHOOSE b \in Chains : TRUE
               /\ fns = CHOOSE f \in Functions : TRUE
               /\ records = [c \in Classes |-> <<>>] /\ indices = records
               /\ storage = [c \in Classes |-> 0]
               /\ layouts = [c \in Classes |-> Absent] /\ tables = layouts /\ climbed = <<>> /\ state = "rests" /\ answer = "null"
StructsRests == /\ shape = CHOOSE s \in Shapes : TRUE
                /\ unchecked = {} /\ frames = <<>> /\ walked = {} /\ laid = {} /\ stage = "rests"
LoaderRests == /\ type_defs = {} /\ earlier = {} /\ customs = {} /\ named = {} /\ objects = <<>>
               /\ inits = <<>> /\ stack = <<>> /\ todo = <<>> /\ phase = "rests"
GenericRests == /\ heap = <<>> /\ refs = RefTypes /\ dir = <<>> /\ lookup = <<>>
                /\ held = {} /\ job = None /\ step = "rests"

MCInit ==
  \/ LayoutInit /\ StructsRests /\ LoaderRests /\ GenericRests
  \/ StructsInit /\ LayoutRests /\ LoaderRests /\ GenericRests
  \/ LoaderInit /\ LayoutRests /\ StructsRests /\ GenericRests
  \/ GenericInit /\ LayoutRests /\ StructsRests /\ LoaderRests
MCNext ==
  \/ LayoutNext /\ UNCHANGED <<struct, loader, generic>>
  \/ StructsNext /\ UNCHANGED <<lay, loader, generic>>
  \/ LoaderNext /\ UNCHANGED <<lay, struct, generic>>
  \/ GenericNext /\ UNCHANGED <<lay, struct, loader>>
MCSpec == MCInit /\ [][MCNext]_<<lay, struct, loader, generic>>
=============================================================================
