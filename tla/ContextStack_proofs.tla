------------------------ MODULE ContextStack_proofs -------------------------
(***************************************************************************)
(* Proofs about the data stack, for any size of it and any number of       *)
(* arguments, as long as no function has more than one register:           *)
(*   - the headers of frames and scopes in it stay intact;                 *)
(*   - under two more conditions, no register ever refers to a local       *)
(*     variable that is gone;                                              *)
(*   - under the same, it implements the call stack of module CallStack.   *)
(* With two registers the run context_registers has a counterexample.      *)
(***************************************************************************)
EXTENDS MCContextStack, Induction, FiniteSetTheorems, SequenceTheorems, TLAPS

Memories == [Offsets -> Cell]

\* The frames in the memory m below t.
MajorsIn(m, t) == {o \in 1 .. t : m[o].k = "major"}

\* The frame at o: its scope and its registers lie between it and t, its
\* caller is linked to it and has the register that waits for the result.
FrameOK(m, t, o) ==
  /\ m[o].minor \in o + 1 .. t /\ m[m[o].minor].k = "minor"
  /\ m[o].prev # 0 => /\ m[o].prev \in MajorsIn(m, t)
                      /\ m[m[o].prev].next = o
                      /\ m[o].out <= m[m[o].prev].num_regs
  /\ m[o].prev <= m[o].prev_top /\ m[o].prev_top < o
  /\ m[o].num_regs > 0 => m[o].regs \in o + 1 .. t /\ m[m[o].regs].k = "value"

\* Everything of the frame at o lies below what the later frame at q cuts the
\* stack back to.
Apart(m, o, q) ==
  /\ o <= m[q].prev
  /\ m[o].minor <= m[q].prev_top
  /\ m[o].num_regs > 0 => m[o].regs <= m[q].prev_top

\* The scope at s: leaving it cuts nothing off that any frame before it needs.
ScopeOK(m, t, s) ==
  m[s].last # 0 =>
    /\ m[s].last <= m[s].base /\ m[s].base < s
    /\ m[m[s].last].k = "minor"
    /\ \A o \in MajorsIn(m, t) :
         o < s => o < m[s].last /\ (m[o].num_regs > 0 => m[o].regs <= m[s].base)

\* The memory m holds d frames below t, the newest at c, one above the other.
Layout(m, t, c, d) ==
  /\ m \in Memories /\ t \in Maybe /\ c \in Maybe
  /\ d = Cardinality(MajorsIn(m, t))
  /\ c # 0 => c \in MajorsIn(m, t) /\ m[c].next = 0
  /\ \A o \in MajorsIn(m, t) : o <= c /\ FrameOK(m, t, o)
  /\ \A o, q \in MajorsIn(m, t) : o < q => Apart(m, o, q)
  /\ \A s \in 1 .. t : m[s].k = "minor" => ScopeOK(m, t, s)

Inv == TypeOK /\ Layout(mem, top, cur, depth)


-----------------------------------------------------------------------------
(* Facts about single cells.                                               *)

\* The fields of a frame.
LEMMA MajorTyped ==
  ASSUME NEW m \in Memories, NEW o \in Offsets, m[o].k = "major"
  PROVE  /\ m[o] \in MajorFrame
         /\ m[o].prev \in Maybe /\ m[o].next \in Maybe /\ m[o].minor \in Maybe
         /\ m[o].regs \in Maybe /\ m[o].num_regs \in 0 .. MaxRegs
         /\ m[o].out \in 0 .. MaxRegs + 1 /\ m[o].prev_top \in Maybe
         /\ m[o].num_next_args \in 0 .. MaxArgs /\ m[o].num_args \in 0 .. MaxArgs
         /\ m[o].args \in Maybe /\ m[o].next_args \in Maybe
<1>1. m[o] \in Cell
  BY DEF Memories
<1>2. m[o] \in MajorFrame
  BY <1>1 DEF Cell, MinorFrame, AllocaRecord, ValueCell, Variable
<1> QED BY <1>2 DEF MajorFrame

\* The fields of a scope.
LEMMA MinorTyped ==
  ASSUME NEW m \in Memories, NEW o \in Offsets, m[o].k = "minor"
  PROVE  /\ m[o] \in MinorFrame
         /\ m[o].last \in Maybe /\ m[o].records \in Maybe /\ m[o].base \in Maybe
<1>1. m[o] \in Cell
  BY DEF Memories
<1>2. m[o] \in MinorFrame
  BY <1>1 DEF Cell, MajorFrame, AllocaRecord, ValueCell, Variable
<1> QED BY <1>2 DEF MinorFrame

\* The headers at o are the same in m and n, but for what Layout ignores.
Same(m, n, o) ==
  /\ n[o].k = m[o].k
  /\ m[o].k = "major" =>
       /\ n[o].minor = m[o].minor /\ n[o].prev = m[o].prev /\ n[o].next = m[o].next
       /\ n[o].out = m[o].out /\ n[o].prev_top = m[o].prev_top
       /\ n[o].num_regs = m[o].num_regs /\ n[o].regs = m[o].regs
  /\ m[o].k = "minor" => n[o].last = m[o].last /\ n[o].base = m[o].base

\* Cells that are neither frames nor scopes may be added above the others.
LEMMA KeepLayout ==
  ASSUME NEW m, NEW n \in Memories, NEW t, NEW u \in Maybe, NEW c, NEW d,
         Layout(m, t, c, d), t <= u,
         \A o \in 1 .. t : Same(m, n, o),
         \A o \in t + 1 .. u : n[o].k \notin {"major", "minor"}
  PROVE  Layout(n, u, c, d)
<1> USE ContextStackAssumption
<1>1. m \in Memories /\ t \in Maybe /\ c \in Maybe
  BY DEF Layout
<1>2. 1 .. t \subseteq Offsets /\ 1 .. u \subseteq Offsets /\ t \in Nat /\ u \in Nat
  BY <1>1 DEF Maybe, Offsets
<1>3. MajorsIn(n, u) = MajorsIn(m, t)
  BY <1>2 DEF MajorsIn, Same
<1> DEFINE M == MajorsIn(m, t)
<1>4. ASSUME NEW o \in M
      PROVE  FrameOK(n, u, o) /\ o <= c
  <2>1. FrameOK(m, t, o) /\ o <= c
    BY DEF Layout
  <2>2. o \in Offsets /\ o \in 1 .. t /\ m[o].k = "major" /\ Same(m, n, o)
    BY <1>2 DEF MajorsIn
  <2>3. n[o].minor = m[o].minor /\ n[o].prev = m[o].prev /\ n[o].out = m[o].out
        /\ n[o].prev_top = m[o].prev_top /\ n[o].num_regs = m[o].num_regs /\ n[o].regs = m[o].regs
    BY <2>2 DEF Same
  <2>4. n[o].minor \in o + 1 .. u /\ n[n[o].minor].k = "minor"
    BY <2>1, <2>2, <2>3, <1>2 DEF FrameOK, Same
  <2>5. n[o].num_regs > 0 => n[o].regs \in o + 1 .. u /\ n[n[o].regs].k = "value"
    BY <2>1, <2>2, <2>3, <1>2 DEF FrameOK, Same
  <2>6. ASSUME n[o].prev # 0
        PROVE  n[o].prev \in M /\ n[n[o].prev].next = o /\ n[o].out <= n[n[o].prev].num_regs
    <3>1. m[o].prev \in M /\ m[m[o].prev].next = o /\ m[o].out <= m[m[o].prev].num_regs
      BY <2>1, <2>3, <2>6 DEF FrameOK
    <3>2. Same(m, n, m[o].prev) /\ m[m[o].prev].k = "major"
      BY <3>1 DEF MajorsIn
    <3> QED BY <3>1, <3>2, <2>3 DEF Same
  <2>7. n[o].prev <= n[o].prev_top /\ n[o].prev_top < o
    BY <2>1, <2>3 DEF FrameOK
  <2> QED BY <2>1, <2>4, <2>5, <2>6, <2>7, <1>3 DEF FrameOK
<1>5. ASSUME NEW o \in M, NEW q \in M, o < q
      PROVE  Apart(n, o, q)
  <2>1. Apart(m, o, q)
    BY <1>5 DEF Layout
  <2>2. Same(m, n, o) /\ Same(m, n, q) /\ m[o].k = "major" /\ m[q].k = "major"
    BY DEF MajorsIn
  <2> QED BY <2>1, <2>2 DEF Apart, Same
<1>6. ASSUME NEW s \in 1 .. u, n[s].k = "minor"
      PROVE  ScopeOK(n, u, s)
  <2>1. s \in 1 .. t
    BY <1>6, <1>2
  <2>2. Same(m, n, s) /\ m[s].k = "minor" /\ n[s].last = m[s].last /\ n[s].base = m[s].base
    BY <2>1, <1>6 DEF Same
  <2>3. ScopeOK(m, t, s)
    BY <2>1, <2>2 DEF Layout
  <2>4. SUFFICES ASSUME n[s].last # 0
                 PROVE  /\ n[s].last <= n[s].base /\ n[s].base < s
                        /\ n[n[s].last].k = "minor"
                        /\ \A o \in M : o < s => o < n[s].last
                                                 /\ (n[o].num_regs > 0 => n[o].regs <= n[s].base)
    BY <1>3 DEF ScopeOK
  <2>5. m[s].last <= m[s].base /\ m[s].base < s /\ m[m[s].last].k = "minor"
    BY <2>2, <2>3, <2>4 DEF ScopeOK
  <2>6. m[s].last \in 1 .. t
    <3>1. m[s].last \in Maybe /\ m[s].base \in Maybe
      BY <1>1, <1>2, <2>1, <2>2, MinorTyped
    <3> QED BY <3>1, <2>1, <2>2, <2>4, <2>5, <1>2 DEF Maybe
  <2>7. n[n[s].last].k = "minor"
    BY <2>2, <2>5, <2>6 DEF Same
  <2>8. ASSUME NEW o \in M, o < s
        PROVE  o < n[s].last /\ (n[o].num_regs > 0 => n[o].regs <= n[s].base)
    <3>1. o < m[s].last /\ (m[o].num_regs > 0 => m[o].regs <= m[s].base)
      BY <2>2, <2>3, <2>4, <2>8 DEF ScopeOK
    <3>2. Same(m, n, o) /\ m[o].k = "major"
      BY DEF MajorsIn
    <3> QED BY <3>1, <3>2, <2>2 DEF Same
  <2> QED BY <2>2, <2>5, <2>7, <2>8
<1>7. c # 0 => c \in MajorsIn(n, u) /\ n[c].next = 0
  <2>1. c # 0 => c \in M /\ m[c].next = 0
    BY DEF Layout
  <2>2. c \in M => Same(m, n, c) /\ m[c].k = "major"
    BY DEF MajorsIn
  <2> QED BY <2>1, <2>2, <1>3 DEF Same
<1>8. d = Cardinality(MajorsIn(n, u))
  BY <1>3 DEF Layout
<1> QED
  <2> HIDE DEF M
  <2> QED BY <1>1, <1>3, <1>4, <1>5, <1>6, <1>7, <1>8 DEF Layout, M

-----------------------------------------------------------------------------
(* The five things that instructions do to the layout.                     *)

\* The frames in the memory are finitely many places on the stack.
LEMMA LayoutTyped ==
  ASSUME NEW m, NEW t, NEW c, NEW d, Layout(m, t, c, d)
  PROVE  /\ m \in Memories /\ t \in Nat /\ t <= StackSize /\ c \in Nat
         /\ 1 .. t \subseteq Offsets /\ t \in Maybe /\ c \in Maybe
         /\ MajorsIn(m, t) \subseteq 1 .. t
         /\ IsFiniteSet(MajorsIn(m, t))
         /\ d \in Nat
         /\ \A o \in MajorsIn(m, t) : o \in Offsets /\ o \in Nat /\ m[o].k = "major" /\ o <= t
<1> USE ContextStackAssumption
<1>1. m \in Memories /\ t \in Maybe /\ c \in Maybe /\ d = Cardinality(MajorsIn(m, t))
  BY DEF Layout
<1>2. t \in Nat /\ t <= StackSize /\ c \in Nat /\ 1 .. t \subseteq Offsets
  BY <1>1 DEF Maybe, Offsets
<1>3. IsFiniteSet(1 .. t)
  BY <1>2, FS_Interval
<1>4. MajorsIn(m, t) \subseteq 1 .. t
  BY DEF MajorsIn
<1>5. IsFiniteSet(MajorsIn(m, t))
  BY <1>3, <1>4, FS_Subset
<1>6. d \in Nat
  BY <1>1, <1>5, FS_CardinalityType
<1> QED BY <1>1, <1>2, <1>4, <1>5, <1>6 DEF MajorsIn

\* The frame f is g, but for its scope.
ButScope(f, g) ==
  /\ f.k = g.k /\ f.prev = g.prev /\ f.next = g.next /\ f.out = g.out
  /\ f.prev_top = g.prev_top /\ f.num_regs = g.num_regs /\ f.regs = g.regs

\* The memory n, in use up to u, is m, in use up to t, with a scope at u that
\* the frame at c has entered.
Entered(m, n, t, u, c) ==
  /\ c # 0 /\ u = t + 1
  /\ n[u].k = "minor" /\ n[u].last = m[c].minor /\ n[u].base = t
  /\ ButScope(n[c], m[c]) /\ n[c].minor = u
  /\ \A o \in 1 .. t : o # c => n[o] = m[o]

\* A scope is pushed onto the current frame.
LEMMA PushScope ==
  ASSUME NEW m, NEW n \in Memories, NEW t, NEW u \in Maybe, NEW c, NEW d,
         Layout(m, t, c, d), Entered(m, n, t, u, c)
  PROVE  Layout(n, u, c, d)
<1> USE ContextStackAssumption DEF Entered
<1> DEFINE M == MajorsIn(m, t)
<1>1. /\ m \in Memories /\ t \in Nat /\ c \in M /\ c \in Offsets /\ m[c].k = "major"
      /\ c <= t /\ c \in Nat /\ c \in 1 .. t /\ 1 .. t \subseteq Offsets /\ c # u
      /\ m[c].next = 0
  <2>1. c \in M /\ m[c].next = 0
    BY DEF Layout
  <2> QED BY <2>1, LayoutTyped DEF Offsets, Maybe
<1>2. FrameOK(m, t, c) /\ m[c].minor \in Maybe /\ m[c].minor \in c + 1 .. t
  BY <1>1, MajorTyped DEF Layout, FrameOK
<1>3. \A o \in M : /\ o \in Nat /\ o \in 1 .. t /\ m[o].k = "major" /\ o <= c /\ FrameOK(m, t, o)
                   /\ ButScope(n[o], m[o]) /\ (o # c => n[o] = m[o])
  BY LayoutTyped DEF Layout, ButScope
<1>4. MajorsIn(n, u) = M
  BY <1>1 DEF MajorsIn, ButScope
<1>5. ASSUME NEW o \in M
      PROVE  o <= c /\ FrameOK(n, u, o)
  <2>1. FrameOK(m, t, o) /\ o \in 1 .. t /\ ButScope(n[o], m[o]) /\ o <= c
    BY <1>3
  <2>2. n[o].prev # 0 => n[o].prev \in M /\ n[n[o].prev].next = o /\ n[o].out <= n[n[o].prev].num_regs
    <3>1. m[o].prev # 0 => m[o].prev \in M /\ m[m[o].prev].next = o /\ m[o].out <= m[m[o].prev].num_regs
      BY <2>1 DEF FrameOK
    <3>2. m[o].prev # 0 => ButScope(n[m[o].prev], m[m[o].prev])
      BY <3>1, <1>3
    <3> QED BY <3>1, <3>2, <2>1 DEF ButScope
  <2>3. n[o].minor \in o + 1 .. u /\ n[n[o].minor].k = "minor"
    <3>1. CASE o = c
      BY <3>1, <1>1
    <3>2. CASE o # c
      <4>1. m[o].minor \in o + 1 .. t /\ m[m[o].minor].k = "minor"
        BY <2>1 DEF FrameOK
      <4>2. m[o].minor \in 1 .. t /\ m[o].minor # c
        BY <4>1, <2>1, <1>1
      <4>3. n[m[o].minor] = m[m[o].minor] /\ n[o] = m[o]
        BY <4>2, <3>2, <1>3
      <4> QED BY <4>1, <4>3, <2>1, <1>1
    <3> QED BY <3>1, <3>2
  <2>4. n[o].prev <= n[o].prev_top /\ n[o].prev_top < o
    BY <2>1 DEF FrameOK, ButScope
  <2>5. n[o].num_regs > 0 => n[o].regs \in o + 1 .. u /\ n[n[o].regs].k = "value"
    <3>1. m[o].num_regs > 0 => m[o].regs \in o + 1 .. t /\ m[m[o].regs].k = "value"
      BY <2>1 DEF FrameOK
    <3>2. m[o].num_regs > 0 => m[o].regs \in 1 .. t /\ m[o].regs # c
      BY <3>1, <2>1, <1>1
    <3> QED BY <3>1, <3>2, <2>1, <1>1 DEF ButScope
  <2> QED BY <2>1, <2>2, <2>3, <2>4, <2>5, <1>4 DEF FrameOK
<1>6. ASSUME NEW o \in M, NEW q \in M, o < q
      PROVE  Apart(n, o, q)
  <2>1. Apart(m, o, q) /\ q <= c /\ o # c
    BY <1>6, <1>1, <1>3 DEF Layout
  <2> QED BY <2>1, <1>3 DEF Apart, ButScope
<1>7. ASSUME NEW s \in 1 .. u, n[s].k = "minor"
      PROVE  ScopeOK(n, u, s)
  <2>1. \A o \in M : n[o].num_regs = m[o].num_regs /\ n[o].regs = m[o].regs /\ o \in Nat
    BY <1>3 DEF ButScope
  <2>2. CASE s = u
    <3>1. n[n[s].last].k = "minor" /\ n[s].last <= n[s].base /\ n[s].base < s
      BY <2>2, <1>1, <1>2 DEF FrameOK
    <3>2. \A o \in M : o < n[s].last /\ (n[o].num_regs > 0 => n[o].regs <= n[s].base)
      <4> TAKE o \in M
      <4>1. o <= c /\ FrameOK(m, t, o) /\ o \in Nat
        BY <1>3
      <4>2. m[o].num_regs > 0 => m[o].regs <= t
        BY <4>1, <1>1 DEF FrameOK
      <4> QED BY <4>1, <4>2, <2>1, <2>2, <1>1, <1>2
    <3> QED BY <3>1, <3>2, <1>4 DEF ScopeOK
  <2>3. CASE s # u
    <3>1. s \in 1 .. t /\ s # c
      BY <2>3, <1>1, <1>7 DEF ButScope
    <3>2. n[s] = m[s] /\ m[s].k = "minor" /\ s \in Offsets
      BY <3>1, <1>1, <1>7
    <3>3. ScopeOK(m, t, s) /\ m[s].last \in Maybe /\ m[s].base \in Maybe
      BY <3>1, <3>2, <1>1, MinorTyped DEF Layout
    <3>4. m[s].last # 0 => m[s].last \in 1 .. t /\ m[s].last # c
      BY <3>1, <3>3, <1>1 DEF ScopeOK, Maybe
    <3>5. m[s].last # 0 => n[m[s].last].k = "minor"
      BY <3>3, <3>4 DEF ScopeOK
    <3> QED BY <3>2, <3>3, <3>5, <2>1, <1>4 DEF ScopeOK
  <2> QED BY <2>2, <2>3
<1> QED
  <2>1. c \in MajorsIn(n, u) /\ n[c].next = 0
    BY <1>1, <1>3, <1>4 DEF ButScope
  <2>2. d = Cardinality(MajorsIn(n, u)) /\ c \in Maybe
    BY <1>4 DEF Layout
  <2> HIDE DEF M
  <2> QED BY <1>4, <1>5, <1>6, <1>7, <2>1, <2>2 DEF Layout

\* The memory n is m after the frame at c has left its innermost scope s.
Exited(m, n, t, c, s) ==
  /\ c # 0 /\ s = m[c].minor /\ m[s].last # 0
  /\ ButScope(n[c], m[c]) /\ n[c].minor = m[s].last
  /\ \A o \in 1 .. t : o # c => n[o] = m[o]

\* The current frame goes back to the scope around its innermost one.
LEMMA PopScope ==
  ASSUME NEW m, NEW n \in Memories, NEW t, NEW c, NEW d, NEW s,
         Layout(m, t, c, d), Exited(m, n, t, c, s)
  PROVE  Layout(n, m[s].base, c, d)
<1> USE ContextStackAssumption DEF Exited
<1> DEFINE M == MajorsIn(m, t)
           u == m[s].base
           l == m[s].last
<1>1. /\ m \in Memories /\ t \in Nat /\ c \in M /\ c \in Offsets /\ m[c].k = "major"
      /\ c <= t /\ c \in Nat /\ c \in 1 .. t /\ 1 .. t \subseteq Offsets
      /\ m[c].next = 0
  <2>1. c \in M /\ m[c].next = 0
    BY DEF Layout
  <2> QED BY <2>1, LayoutTyped DEF Offsets, Maybe
<1>2. s \in c + 1 .. t /\ m[s].k = "minor" /\ s \in 1 .. t
  BY <1>1 DEF Layout, FrameOK
<1>3. l \in Maybe /\ u \in Maybe /\ l \in Nat /\ u \in Nat
  BY <1>1, <1>2, MinorTyped DEF Maybe
<1>4. ScopeOK(m, t, s)
  BY <1>2 DEF Layout
<1>5. l <= u /\ u < s /\ m[l].k = "minor" /\ c < l /\ (m[c].num_regs > 0 => m[c].regs <= u)
  BY <1>1, <1>2, <1>4 DEF ScopeOK
<1>6. c \in 1 .. u /\ l \in 1 .. u /\ u < t /\ 1 .. u \subseteq 1 .. t /\ l # c
  BY <1>1, <1>2, <1>3, <1>5
<1>7. \A o \in M : /\ o \in Nat /\ o \in 1 .. t /\ m[o].k = "major" /\ o <= c /\ FrameOK(m, t, o)
                   /\ ButScope(n[o], m[o]) /\ (o # c => n[o] = m[o])
  BY LayoutTyped DEF Layout, ButScope
<1>8. MajorsIn(n, u) = M
  <2>1. M \subseteq 1 .. u
    BY <1>1, <1>3, <1>6, <1>7
  <2> QED BY <2>1, <1>6, <1>7 DEF MajorsIn, ButScope
<1>9. ASSUME NEW o \in M
      PROVE  o <= c /\ FrameOK(n, u, o)
  <2>1. FrameOK(m, t, o) /\ o \in 1 .. t /\ ButScope(n[o], m[o]) /\ o <= c /\ o \in Nat
    BY <1>7
  <2>2. n[o].prev # 0 => n[o].prev \in M /\ n[n[o].prev].next = o /\ n[o].out <= n[n[o].prev].num_regs
    <3>1. m[o].prev # 0 => m[o].prev \in M /\ m[m[o].prev].next = o /\ m[o].out <= m[m[o].prev].num_regs
      BY <2>1 DEF FrameOK
    <3>2. m[o].prev # 0 => ButScope(n[m[o].prev], m[m[o].prev])
      BY <3>1, <1>7
    <3> QED BY <3>1, <3>2, <2>1 DEF ButScope
  <2>3. o # c => m[o].minor < c /\ (m[o].num_regs > 0 => m[o].regs < c)
    <3>1. o # c => Apart(m, o, c) /\ m[c].prev_top < c
      BY <1>1, <2>1, <1>7 DEF Layout, FrameOK
    <3>2. m[c].prev_top \in Nat /\ m[o].minor \in Nat /\ m[o].regs \in Nat
      BY <1>1, <1>7, MajorTyped, LayoutTyped DEF Maybe
    <3> QED BY <3>1, <3>2, <1>1 DEF Apart
  <2>4. n[o].minor \in o + 1 .. u /\ n[n[o].minor].k = "minor"
    <3>1. CASE o = c
      BY <3>1, <1>1, <1>3, <1>5, <1>6
    <3>2. CASE o # c
      <4>1. m[o].minor \in o + 1 .. t /\ m[m[o].minor].k = "minor" /\ m[o].minor < c
        BY <2>1, <2>3, <3>2 DEF FrameOK
      <4>2. m[o].minor \in 1 .. t /\ m[o].minor # c /\ m[o].minor \in o + 1 .. u
        BY <4>1, <2>1, <1>1, <1>3, <1>6
      <4>3. n[m[o].minor] = m[m[o].minor] /\ n[o] = m[o]
        BY <4>2, <3>2, <1>7
      <4> QED BY <4>1, <4>2, <4>3
    <3> QED BY <3>1, <3>2
  <2>5. n[o].prev <= n[o].prev_top /\ n[o].prev_top < o
    BY <2>1 DEF FrameOK, ButScope
  <2>6. n[o].num_regs > 0 => n[o].regs \in o + 1 .. u /\ n[n[o].regs].k = "value"
    <3>1. m[o].num_regs > 0 => m[o].regs \in o + 1 .. t /\ m[m[o].regs].k = "value" /\ m[o].regs <= u
      BY <2>1, <2>3, <1>1, <1>3, <1>5, <1>6 DEF FrameOK
    <3>2. m[o].num_regs > 0 => m[o].regs \in 1 .. t /\ m[o].regs # c /\ m[o].regs \in o + 1 .. u
      BY <3>1, <2>1, <1>1, <1>3
    <3>3. m[o].num_regs > 0 => n[m[o].regs] = m[m[o].regs]
      BY <3>2
    <3> QED BY <3>1, <3>2, <3>3, <2>1 DEF ButScope
  <2> QED BY <2>1, <2>2, <2>4, <2>5, <2>6, <1>8 DEF FrameOK
<1>10. ASSUME NEW o \in M, NEW q \in M, o < q
       PROVE  Apart(n, o, q)
  <2>1. Apart(m, o, q) /\ q <= c /\ o # c
    BY <1>10, <1>1, <1>7 DEF Layout
  <2> QED BY <2>1, <1>7 DEF Apart, ButScope
<1>11. ASSUME NEW z \in 1 .. u, n[z].k = "minor"
       PROVE  ScopeOK(n, u, z)
  <2>1. \A o \in M : n[o].num_regs = m[o].num_regs /\ n[o].regs = m[o].regs /\ o \in Nat
    BY <1>7 DEF ButScope
  <2>2. z \in 1 .. t /\ z # c
    BY <1>1, <1>6, <1>11 DEF ButScope
  <2>3. n[z] = m[z] /\ m[z].k = "minor" /\ z \in Offsets
    BY <2>2, <1>1, <1>11
  <2>4. ScopeOK(m, t, z) /\ m[z].last \in Maybe /\ m[z].base \in Maybe
    BY <2>2, <2>3, <1>1, MinorTyped DEF Layout
  <2>5. m[z].last # 0 => m[z].last \in 1 .. t /\ m[z].last # c
    BY <2>2, <2>4, <1>1 DEF ScopeOK, Maybe
  <2>6. m[z].last # 0 => n[m[z].last].k = "minor"
    BY <2>4, <2>5 DEF ScopeOK
  <2> QED BY <2>3, <2>4, <2>6, <2>1, <1>8 DEF ScopeOK
<1> QED
  <2>1. c \in MajorsIn(n, u) /\ n[c].next = 0
    BY <1>1, <1>7, <1>8 DEF ButScope
  <2>2. d = Cardinality(MajorsIn(n, u)) /\ c \in Maybe
    BY <1>8 DEF Layout
  <2> HIDE DEF M, u
  <2> QED BY <1>3, <1>8, <1>9, <1>10, <1>11, <2>1, <2>2 DEF Layout, u

\* The frame f is g, but for its link to a later frame.
ButNext(f, g) ==
  /\ f.k = g.k /\ f.prev = g.prev /\ f.minor = g.minor /\ f.out = g.out
  /\ f.prev_top = g.prev_top /\ f.num_regs = g.num_regs /\ f.regs = g.regs

\* Of the frame f, g has the arguments.
SameArgs(f, g) ==
  /\ f.args = g.args /\ f.num_args = g.num_args
  /\ f.next_args = g.next_args /\ f.num_next_args = g.num_next_args

\* Of the frame f, g has what it was called with.
SameReceived(f, g) ==
  /\ f.args = g.args /\ f.num_args = g.num_args

\* The memory n, in use up to u, is m, in use up to t, with a frame at f on
\* top of the one at c.
Pushed(m, n, t, u, c, f) ==
  /\ t + 2 <= u /\ f = t + 1
  /\ n[f].k = "major" /\ n[f].prev = c /\ n[f].next = 0
  /\ n[f].minor = t + 2 /\ n[f].prev_top = t
  /\ c # 0 => n[f].out <= m[c].num_regs
  /\ n[f].num_regs > 0 => n[f].regs \in t + 3 .. u
  /\ n[t + 2].k = "minor" /\ n[t + 2].last = 0
  /\ \A o \in t + 3 .. u : n[o].k = "value"
  /\ c # 0 => ButNext(n[c], m[c]) /\ n[c].next = f
  /\ \A o \in 1 .. t : o # c => n[o] = m[o]

\* A frame with its bottom scope is pushed.
LEMMA PushFrame ==
  ASSUME NEW m, NEW n \in Memories, NEW t, NEW u \in Maybe, NEW c, NEW d, NEW f,
         Layout(m, t, c, d), Pushed(m, n, t, u, c, f)
  PROVE  Layout(n, u, f, d + 1)
<1> USE ContextStackAssumption DEF Pushed
<1> DEFINE M == MajorsIn(m, t)
<1>1. /\ m \in Memories /\ t \in Nat /\ c \in Nat /\ u \in Nat /\ 1 .. u \subseteq Offsets
      /\ 1 .. t \subseteq 1 .. u /\ f \in Maybe /\ f \in 1 .. u /\ t < f /\ f <= u
      /\ 1 .. t \subseteq Offsets
      /\ c # 0 => c \in M /\ c <= t
  <2>1. c # 0 => c \in M
    BY DEF Layout
  <2> QED BY <2>1, LayoutTyped DEF Offsets, Maybe
<1>2. \A o \in M : /\ o \in Nat /\ o \in 1 .. t /\ m[o].k = "major" /\ o <= c /\ FrameOK(m, t, o)
                   /\ ButNext(n[o], m[o]) /\ (o # c => n[o] = m[o]) /\ o < f
  <2> TAKE o \in M
  <2>1. o \in Nat /\ o \in 1 .. t /\ m[o].k = "major" /\ o <= c /\ FrameOK(m, t, o)
    BY LayoutTyped DEF Layout
  <2>2. o # c => n[o] = m[o]
    BY <2>1
  <2>3. o = c => ButNext(n[o], m[o])
    BY <2>1
  <2>4. o < f
    BY <2>1, <1>1
  <2> QED BY <2>1, <2>2, <2>3, <2>4 DEF ButNext
<1>3. MajorsIn(n, u) = M \cup {f}
  <2>1. \A o \in 1 .. t : n[o].k = "major" <=> m[o].k = "major"
    <3> TAKE o \in 1 .. t
    <3>1. CASE o = c
      <4>1. c \in M
        BY <3>1, <1>1
      <4>2. n[c].k = m[c].k
        BY <4>1, <1>2 DEF ButNext
      <4> QED BY <3>1, <4>2
    <3>2. CASE o # c
      BY <3>2
    <3> QED BY <3>1, <3>2
  <2>2. \A o \in 1 .. u : o \in 1 .. t \/ o = f \/ o = t + 2 \/ o \in t + 3 .. u
    BY <1>1
  <2> QED BY <2>1, <2>2, <1>1 DEF MajorsIn
<1>4. ASSUME NEW o \in M
      PROVE  o <= f /\ FrameOK(n, u, o)
  <2>1. FrameOK(m, t, o) /\ o \in 1 .. t /\ ButNext(n[o], m[o]) /\ o <= c /\ o < f
    BY <1>2
  <2>2. n[o].prev # 0 => n[o].prev \in M /\ n[n[o].prev].next = o /\ n[o].out <= n[n[o].prev].num_regs
    <3>1. m[o].prev # 0 => m[o].prev \in M /\ m[m[o].prev].next = o /\ m[o].out <= m[m[o].prev].num_regs
      BY <2>1 DEF FrameOK
    <3>2. m[o].prev # 0 => m[o].prev # c
      <4>1. m[c].next = 0 \/ c = 0
        BY DEF Layout
      <4>2. o \in Nat /\ o # 0
        BY <2>1
      <4> QED BY <3>1, <4>1, <4>2
    <3>3. m[o].prev # 0 => n[m[o].prev] = m[m[o].prev]
      BY <3>1, <3>2, <1>2
    <3> QED BY <3>1, <3>3, <2>1 DEF ButNext
  <2>3. n[o].minor \in o + 1 .. u /\ n[n[o].minor].k = "minor"
    <3>1. m[o].minor \in o + 1 .. t /\ m[m[o].minor].k = "minor"
      BY <2>1 DEF FrameOK
    <3>2. m[o].minor \in 1 .. t /\ m[o].minor \in o + 1 .. u
      BY <3>1, <2>1, <1>1
    <3>3. m[o].minor # c
      BY <3>1, <1>1, <1>2, <2>1
    <3>4. n[m[o].minor] = m[m[o].minor]
      BY <3>2, <3>3
    <3> QED BY <3>1, <3>2, <3>4, <2>1 DEF ButNext
  <2>4. n[o].prev <= n[o].prev_top /\ n[o].prev_top < o
    BY <2>1 DEF FrameOK, ButNext
  <2>5. n[o].num_regs > 0 => n[o].regs \in o + 1 .. u /\ n[n[o].regs].k = "value"
    <3>1. m[o].num_regs > 0 => m[o].regs \in o + 1 .. t /\ m[m[o].regs].k = "value"
      BY <2>1 DEF FrameOK
    <3>2. m[o].num_regs > 0 => m[o].regs \in 1 .. t /\ m[o].regs # c /\ m[o].regs \in o + 1 .. u
      BY <3>1, <2>1, <1>1, <1>2
    <3>3. m[o].num_regs > 0 => n[m[o].regs] = m[m[o].regs]
      BY <3>2
    <3> QED BY <3>1, <3>2, <3>3, <2>1 DEF ButNext
  <2> QED BY <2>1, <2>2, <2>3, <2>4, <2>5, <1>3 DEF FrameOK
<1>5. FrameOK(n, u, f)
  <2>1. n[f].minor \in f + 1 .. u /\ n[n[f].minor].k = "minor"
    BY <1>1
  <2>2. n[f].prev # 0 => n[f].prev \in M /\ n[n[f].prev].next = f /\ n[f].out <= n[n[f].prev].num_regs
    BY <1>1 DEF ButNext
  <2>3. n[f].prev <= n[f].prev_top /\ n[f].prev_top < f
    <3>1. c <= t
      BY <1>1
    <3> QED BY <3>1, <1>1
  <2>4. n[f].num_regs > 0 => n[f].regs \in f + 1 .. u /\ n[n[f].regs].k = "value"
    BY <1>1
  <2> QED BY <2>1, <2>2, <2>3, <2>4, <1>3 DEF FrameOK
<1>6. ASSUME NEW o \in M \cup {f}, NEW q \in M \cup {f}, o < q
      PROVE  Apart(n, o, q)
  <2>1. CASE q \in M
    <3>1. o \in M
      BY <2>1, <1>1, <1>2, <1>6
    <3>2. Apart(m, o, q)
      BY <2>1, <3>1, <1>6 DEF Layout
    <3> QED BY <2>1, <3>1, <3>2, <1>2 DEF Apart, ButNext
  <2>2. CASE q = f
    <3>1. o \in M
      BY <2>2, <1>1, <1>6
    <3>2. o <= c /\ FrameOK(m, t, o) /\ ButNext(n[o], m[o]) /\ o \in Nat
      BY <3>1, <1>2
    <3>3. m[o].minor <= t /\ (m[o].num_regs > 0 => m[o].regs <= t)
      BY <3>2, <1>1 DEF FrameOK
    <3> QED BY <2>2, <3>2, <3>3 DEF Apart, ButNext
  <2> QED BY <2>1, <2>2
<1>7. ASSUME NEW z \in 1 .. u, n[z].k = "minor"
      PROVE  ScopeOK(n, u, z)
  <2>1. CASE z = t + 2
    BY <2>1 DEF ScopeOK
  <2>2. CASE z # t + 2
    <3>1. z \in 1 .. t /\ z # c
      <4>1. z \notin t + 3 .. u /\ z # f
        BY <1>7
      <4>2. z \in 1 .. t
        BY <4>1, <2>2, <1>1
      <4>3. c # 0 => n[c].k = "major"
        BY <1>1, <1>2 DEF ButNext
      <4> QED BY <4>2, <4>3, <1>7
    <3>2. n[z] = m[z] /\ m[z].k = "minor" /\ z \in Offsets
      BY <3>1, <1>1, <1>7
    <3>3. ScopeOK(m, t, z) /\ m[z].last \in Maybe /\ m[z].base \in Maybe
      BY <3>1, <3>2, <1>1, MinorTyped DEF Layout
    <3>4. m[z].last # 0 => m[z].last \in 1 .. t /\ m[z].last # c
      <4>1. m[z].last # 0 => m[z].last \in 1 .. t /\ m[m[z].last].k = "minor"
        BY <3>1, <3>3, <1>1 DEF ScopeOK, Maybe
      <4> QED BY <4>1, <1>1, <1>2
    <3>5. m[z].last # 0 => n[m[z].last].k = "minor"
      BY <3>3, <3>4 DEF ScopeOK
    <3>6. \A o \in M : n[o].num_regs = m[o].num_regs /\ n[o].regs = m[o].regs
      BY <1>2 DEF ButNext
    <3>7. ~ f < z
      BY <3>1, <1>1
    <3> QED BY <3>2, <3>3, <3>5, <3>6, <3>7, <1>3 DEF ScopeOK
  <2> QED BY <2>1, <2>2
<1>8. d + 1 = Cardinality(M \cup {f})
  <2>1. IsFiniteSet(M) /\ f \notin M /\ d = Cardinality(M)
    BY <1>2, LayoutTyped DEF Layout
  <2> QED BY <2>1, FS_AddElement
<1>9. f <= f
  BY <1>1
<1> QED
  <2> HIDE DEF M
  <2> QED BY <1>1, <1>3, <1>4, <1>5, <1>6, <1>7, <1>8, <1>9 DEF Layout

\* The memory n is m after the frame at c has returned to the one at p.
Popped(m, n, t, c, p) ==
  /\ c # 0 /\ p = m[c].prev /\ p # 0
  /\ ButNext(n[p], m[p]) /\ n[p].next = 0
  /\ \A o \in 1 .. t : o # p => n[o] = m[o]

\* The current frame is popped, with everything above what its caller had.
LEMMA PopFrame ==
  ASSUME NEW m, NEW n \in Memories, NEW t, NEW c, NEW d, NEW p,
         Layout(m, t, c, d), Popped(m, n, t, c, p)
  PROVE  Layout(n, m[c].prev_top, p, d - 1)
<1> USE ContextStackAssumption DEF Popped
<1> DEFINE M == MajorsIn(m, t)
           u == m[c].prev_top
<1>1. /\ m \in Memories /\ t \in Nat /\ c \in M /\ c \in Offsets /\ m[c].k = "major"
      /\ c <= t /\ c \in Nat /\ 1 .. t \subseteq Offsets
  <2>1. c \in M
    BY DEF Layout
  <2> QED BY <2>1, LayoutTyped DEF Offsets, Maybe
<1>2. \A o \in M : /\ o \in Nat /\ o \in 1 .. t /\ m[o].k = "major" /\ o <= c /\ FrameOK(m, t, o)
                   /\ ButNext(n[o], m[o]) /\ (o # p => n[o] = m[o])
  BY LayoutTyped DEF Layout, ButNext
<1>3. /\ u \in Maybe /\ u \in Nat /\ p \in M /\ p <= u /\ u < c /\ m[p].next = c
      /\ 1 .. u \subseteq 1 .. t /\ p \in Nat /\ p \in Maybe
  <2>1. FrameOK(m, t, c) /\ u \in Maybe /\ p \in Maybe
    BY <1>1, <1>2, MajorTyped
  <2> QED BY <2>1, <1>1, <1>2 DEF FrameOK, Maybe
<1>4. MajorsIn(n, u) = M \ {c} /\ \A o \in M \ {c} : o <= p
  <2>1. \A o \in M \ {c} : o <= p /\ o \in 1 .. u
    <3> TAKE o \in M \ {c}
    <3>1. o <= c /\ o # c /\ o \in 1 .. t
      BY <1>2
    <3>2. o < c
      BY <3>1, <1>1
    <3>3. Apart(m, o, c)
      BY <3>2, <1>1 DEF Layout
    <3> QED BY <3>1, <3>3, <1>3 DEF Apart
  <2>2. \A o \in 1 .. u : n[o].k = "major" <=> o \in M \ {c}
    <3> TAKE o \in 1 .. u
    <3>1. o \in 1 .. t /\ o # c
      BY <1>1, <1>3
    <3>2. n[o].k = m[o].k
      BY <3>1, <1>3 DEF ButNext
    <3> QED BY <3>1, <3>2 DEF MajorsIn
  <2> QED BY <2>1, <2>2 DEF MajorsIn
<1>5. ASSUME NEW o \in M \ {c}
      PROVE  FrameOK(n, u, o)
  <2>1. FrameOK(m, t, o) /\ o \in 1 .. t /\ ButNext(n[o], m[o]) /\ o < c /\ o <= p
    <3>1. FrameOK(m, t, o) /\ o \in 1 .. t /\ ButNext(n[o], m[o]) /\ o <= c /\ o <= p /\ o # c
      BY <1>2, <1>4
    <3>2. o < c
      BY <3>1, <1>1
    <3> QED BY <3>1, <3>2
  <2>2. Apart(m, o, c)
    BY <2>1, <1>1 DEF Layout
  <2>3. n[o].prev # 0 => n[o].prev \in M \ {c} /\ n[n[o].prev].next = o
                         /\ n[o].out <= n[n[o].prev].num_regs
    <3>1. m[o].prev # 0 => /\ m[o].prev \in M /\ m[m[o].prev].next = o
                           /\ m[o].out <= m[m[o].prev].num_regs
      BY <2>1 DEF FrameOK
    <3>2. m[o].prev # c
      <4>1. m[c].next = 0
        BY <1>1 DEF Layout
      <4> QED BY <4>1, <3>1, <2>1, <1>1
    <3>3. m[o].prev # 0 => m[o].prev # p
      BY <3>1, <2>1, <1>1, <1>3
    <3>4. m[o].prev # 0 => n[m[o].prev] = m[m[o].prev]
      BY <3>1, <3>3, <1>2
    <3> QED BY <3>1, <3>2, <3>4, <2>1 DEF ButNext
  <2>4. n[o].minor \in o + 1 .. u /\ n[n[o].minor].k = "minor"
    <3>1. m[o].minor \in o + 1 .. t /\ m[m[o].minor].k = "minor" /\ m[o].minor <= u
      BY <2>1, <2>2 DEF FrameOK, Apart
    <3>2. m[o].minor \in 1 .. t /\ m[o].minor \in o + 1 .. u
      BY <3>1, <2>1, <1>1, <1>3
    <3>3. m[o].minor # p
      BY <3>1, <1>2, <1>3
    <3> QED BY <3>1, <3>2, <3>3, <2>1 DEF ButNext
  <2>5. n[o].prev <= n[o].prev_top /\ n[o].prev_top < o
    BY <2>1 DEF FrameOK, ButNext
  <2>6. n[o].num_regs > 0 => n[o].regs \in o + 1 .. u /\ n[n[o].regs].k = "value"
    <3>1. m[o].num_regs > 0 => m[o].regs \in o + 1 .. t /\ m[m[o].regs].k = "value" /\ m[o].regs <= u
      BY <2>1, <2>2 DEF FrameOK, Apart
    <3>2. m[o].num_regs > 0 => m[o].regs \in 1 .. t /\ m[o].regs # p /\ m[o].regs \in o + 1 .. u
      BY <3>1, <2>1, <1>1, <1>2, <1>3
    <3>3. m[o].num_regs > 0 => n[m[o].regs] = m[m[o].regs]
      BY <3>2
    <3> QED BY <3>1, <3>2, <3>3, <2>1 DEF ButNext
  <2> QED BY <2>3, <2>4, <2>5, <2>6, <1>4 DEF FrameOK
<1>6. ASSUME NEW o \in M \ {c}, NEW q \in M \ {c}, o < q
      PROVE  Apart(n, o, q)
  <2>1. Apart(m, o, q)
    BY <1>6 DEF Layout
  <2> QED BY <2>1, <1>2 DEF Apart, ButNext
<1>7. ASSUME NEW z \in 1 .. u, n[z].k = "minor"
      PROVE  ScopeOK(n, u, z)
  <2>1. z \in 1 .. t /\ z # p
    BY <1>2, <1>3, <1>7 DEF ButNext
  <2>2. n[z] = m[z] /\ m[z].k = "minor" /\ z \in Offsets
    BY <2>1, <1>1, <1>7
  <2>3. ScopeOK(m, t, z) /\ m[z].last \in Maybe /\ m[z].base \in Maybe
    BY <2>1, <2>2, <1>1, MinorTyped DEF Layout
  <2>4. m[z].last # 0 => m[z].last \in 1 .. t /\ m[z].last # p
    <3>1. m[z].last # 0 => m[z].last \in 1 .. t /\ m[m[z].last].k = "minor"
      BY <2>1, <2>3, <1>1 DEF ScopeOK, Maybe
    <3> QED BY <3>1, <1>2, <1>3
  <2>5. m[z].last # 0 => n[m[z].last].k = "minor"
    BY <2>3, <2>4 DEF ScopeOK
  <2>6. \A o \in M : n[o].num_regs = m[o].num_regs /\ n[o].regs = m[o].regs
    BY <1>2 DEF ButNext
  <2> QED BY <2>2, <2>3, <2>5, <2>6, <1>4 DEF ScopeOK
<1>8. d - 1 = Cardinality(M \ {c})
  <2>1. IsFiniteSet(M) /\ d = Cardinality(M)
    BY LayoutTyped DEF Layout
  <2> QED BY <2>1, <1>1, FS_RemoveElement
<1>9. p \in M \ {c} /\ n[p].next = 0
  BY <1>1, <1>3
<1> QED
  <2> HIDE DEF M, u
  <2> QED BY <1>3, <1>4, <1>5, <1>6, <1>7, <1>8, <1>9 DEF Layout, u

\* _create_new_major_frame() pushes a frame, whose registers are empty.
LEMMA NewFramePushes ==
  ASSUME NEW m, NEW t, NEW c, NEW d, Layout(m, t, c, d),
         NEW kind \in {"top", "regular", "native"},
         NEW a \in 0 .. MaxArgs, NEW r \in 0 .. MaxRegs, NEW u, u = t + Extent(a, r), u <= StackSize,
         NEW off_args \in Maybe, NEW num_args \in 0 .. MaxArgs,
         NEW out \in 0 .. MaxRegs + 1, c # 0 => out <= m[c].num_regs,
         NEW n, n = NewFrame(m, c, kind, t, a, r, off_args, num_args, out)
  PROVE  /\ n \in Memories /\ u \in Maybe /\ Pushed(m, n, t, u, c, t + 1)
         /\ n[t + 1].num_args = num_args /\ n[t + 1].num_next_args = 0
         /\ a > 0 => n[t + 1].args = t + 2 + a
         /\ a = 0 => n[t + 1].args = off_args
         /\ n[t + 2].records = 0
         /\ \A o \in t + 3 .. u : n[o].v = Plain(Invalid)
         /\ c # 0 => /\ n[c].args = m[c].args /\ n[c].num_args = m[c].num_args
                     /\ n[c].next_args = m[c].next_args
                     /\ n[c].num_next_args = m[c].num_next_args
<1> USE ContextStackAssumption
<1> DEFINE f == t + 1
           major == [k |-> "major", kind |-> kind, prev |-> c, next |-> 0, minor |-> t + 2,
                     regs |-> IF r = 0 THEN 0 ELSE t + 2 + a + r, num_regs |-> r,
                     args |-> IF a > 0 THEN t + 2 + a ELSE off_args, num_args |-> num_args,
                     next_args |-> 0, num_next_args |-> 0, out |-> out, prev_top |-> t]
           minor == [k |-> "minor", last |-> 0, records |-> 0, base |-> t]
<1>1. /\ m \in Memories /\ t \in Nat /\ c \in Nat /\ t \in Maybe /\ c \in Maybe
      /\ a \in Nat /\ r \in Nat
      /\ u = t + 2 + a + r /\ u <= StackSize /\ t + 2 <= u /\ u \in Maybe
      /\ f \in Offsets /\ t + 2 \in Offsets /\ t + 3 .. u \subseteq Offsets
  BY LayoutTyped DEF Extent, Maybe, Offsets
<1>2. c # 0 => c \in Offsets /\ m[c].k = "major" /\ c <= t
  BY LayoutTyped DEF Layout
<1>3. major \in Cell
  BY <1>1 DEF Cell, MajorFrame, Maybe
<1>4. minor \in Cell
  BY <1>1 DEF Cell, MinorFrame, Maybe
<1>5. Cellular(Plain(Invalid)) \in Cell
  BY DEF Cellular, Cell, ValueCell, Value
<1>6. c # 0 => [m[c] EXCEPT !.next = f] \in Cell
  <2>1. f \in Maybe
    BY <1>1 DEF Maybe
  <2>2. c # 0 => m[c] \in MajorFrame
    BY <1>1, <1>2, MajorTyped
  <2> HIDE DEF f
  <2>3. c # 0 => [m[c] EXCEPT !.next = f] \in MajorFrame
    BY <2>1, <2>2 DEF MajorFrame
  <2> QED BY <2>3 DEF Cell
<1>7. n = [o \in Offsets |->
             IF o = f THEN major
             ELSE IF o = t + 2 THEN minor
             ELSE IF o \in t + 3 .. t + 2 + a + r THEN Cellular(Plain(Invalid))
             ELSE IF o = c THEN [m[c] EXCEPT !.next = f]
             ELSE m[o]]
  BY DEF NewFrame
<1>8. n \in Memories
  <2>1. \A o \in Offsets : m[o] \in Cell
    BY <1>1 DEF Memories
  <2>2. 0 \notin Offsets
    BY DEF Offsets
  <2> HIDE DEF major, minor, f
  <2> QED BY <1>3, <1>4, <1>5, <1>6, <1>7, <2>1, <2>2 DEF Memories
<1>9. n[f] = major
  BY <1>1, <1>7
<1>10. n[t + 2] = minor
  BY <1>1, <1>7
<1>11. \A o \in t + 3 .. u : n[o] = Cellular(Plain(Invalid))
  <2> HIDE DEF major, minor
  <2> QED BY <1>1, <1>7
<1>12. c # 0 => n[c] = [m[c] EXCEPT !.next = f]
  <2> HIDE DEF major, minor
  <2> QED BY <1>1, <1>2, <1>7
<1>13. c # 0 => ButNext(n[c], m[c]) /\ n[c].next = f
  <2>1. c # 0 => m[c] \in MajorFrame
    BY <1>1, <1>2, MajorTyped
  <2> HIDE DEF f
  <2> QED BY <1>12, <2>1 DEF ButNext, MajorFrame
<1>14. \A o \in 1 .. t : o # c => n[o] = m[o]
  <2> HIDE DEF major, minor
  <2>1. 1 .. t \subseteq Offsets
    BY LayoutTyped
  <2> QED BY <1>1, <1>7, <2>1
<1>15. n[f].k = "major" /\ n[f].prev = c /\ n[f].next = 0 /\ n[f].minor = t + 2 /\ n[f].prev_top = t
       /\ n[f].out = out /\ n[f].num_regs = r /\ (r > 0 => n[f].regs \in t + 3 .. u)
  BY <1>1, <1>9
<1>16. n[t + 2].k = "minor" /\ n[t + 2].last = 0
  BY <1>10
<1>17. \A o \in t + 3 .. u : n[o].k = "value"
  BY <1>11 DEF Cellular
<1>18. Pushed(m, n, t, u, c, f)
  <2>1. f = t + 1
    OBVIOUS
  <2> HIDE DEF f, major, minor
  <2> QED BY <1>1, <1>13, <1>14, <1>15, <1>16, <1>17, <2>1 DEF Pushed
<1>19. n[f].num_args = num_args /\ n[f].num_next_args = 0
       /\ (a > 0 => n[f].args = t + 2 + a) /\ (a = 0 => n[f].args = off_args)
  <2>1. n[f].num_args = num_args /\ n[f].num_next_args = 0
    BY <1>9
  <2>2. n[f].args = (IF a > 0 THEN t + 2 + a ELSE off_args)
    BY <1>9
  <2>3. a > 0 <=> a # 0
    BY <1>1
  <2> QED BY <2>1, <2>2, <2>3
<1>20. n[t + 2].records = 0
  BY <1>10
<1>21. \A o \in t + 3 .. u : n[o].v = Plain(Invalid)
  BY <1>11 DEF Cellular
<1>22. c # 0 => /\ n[c].args = m[c].args /\ n[c].num_args = m[c].num_args
                /\ n[c].next_args = m[c].next_args
                /\ n[c].num_next_args = m[c].num_next_args
  <2>1. c # 0 => m[c] \in MajorFrame
    BY <1>1, <1>2, MajorTyped
  <2> HIDE DEF f
  <2> QED BY <1>12, <2>1 DEF MajorFrame
<1> HIDE DEF major, minor
<1> QED BY <1>1, <1>8, <1>18, <1>19, <1>20, <1>21, <1>22

\* new_major_frame() puts one more frame on top of the others.
LEMMA NewFrameLayout ==
  ASSUME NEW m, NEW t, NEW c, NEW d, Layout(m, t, c, d),
         NEW kind \in {"top", "regular", "native"},
         NEW a \in 0 .. MaxArgs, NEW r \in 0 .. MaxRegs, t + Extent(a, r) <= StackSize,
         NEW off_args \in Maybe, NEW num_args \in 0 .. MaxArgs,
         NEW out \in 0 .. MaxRegs + 1, c # 0 => out <= m[c].num_regs
  PROVE  Layout(NewFrame(m, c, kind, t, a, r, off_args, num_args, out),
                t + Extent(a, r), t + 1, d + 1)
<1> DEFINE n == NewFrame(m, c, kind, t, a, r, off_args, num_args, out)
           u == t + Extent(a, r)
<1>1. n \in Memories /\ u \in Maybe /\ Pushed(m, n, t, u, c, t + 1)
  BY NewFramePushes
<1> HIDE DEF n, u
<1>2. Layout(n, u, t + 1, d + 1)
  BY <1>1, PushFrame
<1> QED BY <1>2 DEF n, u

\* The header of a new frame.
LEMMA NewFrameHeader ==
  ASSUME NEW m, NEW t \in Nat, NEW c, NEW kind, NEW a, NEW r, NEW off_args, NEW num_args, NEW out,
         t + 1 <= StackSize
  PROVE  LET f == NewFrame(m, c, kind, t, a, r, off_args, num_args, out)[t + 1]
         IN  f.num_regs = r /\ f.out = out /\ f.regs = IF r = 0 THEN 0 ELSE t + 2 + a + r
<1> USE ContextStackAssumption
<1>1. t + 1 \in Offsets
  BY DEF Offsets
<1> QED BY <1>1 DEF NewFrame

-----------------------------------------------------------------------------
(* The instructions.                                                       *)

\* What is read from the stack is a value, and what is written to it is a cell.
LEMMA ValuesTyped ==
  ASSUME Inv
  PROVE  /\ \A d \in Data : Plain(d) \in Value
         /\ \A o : ValueAt(o) \in Value
         /\ \A o \in Offsets : Ref(o) \in Value
         /\ \A v \in Value : Cellular(v) \in Cell /\ Cellular(v).k = "value"
         /\ \A v \in Value : [k |-> "variable", v |-> v] \in Cell
         /\ \A v \in Value : v.ref => v.at \in Offsets
         /\ Readable \subseteq Value
<1> USE ContextStackAssumption
<1>1. /\ \A d \in Data : Plain(d) \in Value
      /\ \A o \in Offsets : Ref(o) \in Value
  BY DEF Value
<1>2. \A v \in Value : v.ref => v.at \in Offsets
  BY DEF Value, Plain, Ref
<1>3. \A o \in Offsets : mem[o] \in Cell
  BY DEF Inv, TypeOK
<1>4. \A o \in Offsets : mem[o].k \in {"value", "variable"} => mem[o].v \in Value
  BY <1>3 DEF Cell, MajorFrame, MinorFrame, AllocaRecord, ValueCell, Variable
<1>5. \A o : ValueAt(o) \in Value
  BY <1>1, <1>4 DEF ValueAt
<1>6. \A v \in Value : Cellular(v) \in Cell /\ Cellular(v).k = "value"
  BY DEF Cellular, Cell, ValueCell
<1>7. \A v \in Value : [k |-> "variable", v |-> v] \in Cell
  BY DEF Cell, Variable
<1>8. ASSUME NEW i \in RegsOf(cur), ValueAt(Reg(cur, i)).ref, mem[ValueAt(Reg(cur, i)).at].k = "variable"
      PROVE  mem[ValueAt(Reg(cur, i)).at].v \in Value
  BY <1>2, <1>4, <1>5, <1>8
<1>9. Readable \subseteq Value
  BY <1>1, <1>5, <1>8 DEF Readable
<1> QED BY <1>1, <1>2, <1>5, <1>6, <1>7, <1>9

\* What an instruction finds.  There is at most one register, whose cell is
\* never one of another frame.
LEMMA Current ==
  ASSUME MaxRegs = 1, Inv, IsMajor(cur)
  PROVE  /\ mem \in Memories /\ top \in Nat /\ top <= StackSize /\ 1 .. top \subseteq Offsets
         /\ top \in Maybe /\ cur \in Maybe /\ cur # 0 /\ cur \in 1 .. top
         /\ mem[cur] \in MajorFrame /\ mem[cur].k = "major" /\ FrameOK(mem, top, cur)
         /\ mem[cur].minor \in 1 .. top /\ mem[mem[cur].minor].k = "minor"
         /\ mem[mem[cur].minor] \in MinorFrame
         /\ \A i \in RegsOf(cur) : /\ i \in 0 .. MaxRegs /\ mem[cur].num_regs = 1
                                   /\ Reg(cur, i) = mem[cur].regs
                                   /\ Reg(cur, i) \in 1 .. top /\ mem[Reg(cur, i)].k = "value"
         /\ Layout(mem, top, cur, depth)
<1> USE ContextStackAssumption
<1>1. Layout(mem, top, cur, depth) /\ cur \in Offsets /\ mem[cur].k = "major"
  BY DEF Inv, IsMajor
<1>2. /\ mem \in Memories /\ top \in Nat /\ top <= StackSize /\ 1 .. top \subseteq Offsets
      /\ top \in Maybe /\ cur \in Maybe
  BY <1>1, LayoutTyped
<1>3. cur # 0 /\ cur \in MajorsIn(mem, top) /\ cur \in 1 .. top
  <2>1. cur # 0
    BY <1>1 DEF Offsets
  <2> QED BY <2>1, <1>1 DEF Layout, MajorsIn
<1>4. FrameOK(mem, top, cur)
  BY <1>1, <1>3 DEF Layout
<1>5. mem[cur] \in MajorFrame /\ mem[cur].num_regs \in 0 .. MaxRegs /\ mem[cur].regs \in Maybe
  BY <1>1, <1>2, MajorTyped
<1>6. mem[cur].minor \in 1 .. top /\ mem[mem[cur].minor].k = "minor"
  BY <1>2, <1>3, <1>4 DEF FrameOK
<1>7. mem[mem[cur].minor] \in MinorFrame
  BY <1>2, <1>6, MinorTyped
<1>8. ASSUME NEW i \in RegsOf(cur)
      PROVE  /\ i \in 0 .. MaxRegs /\ mem[cur].num_regs = 1 /\ Reg(cur, i) = mem[cur].regs
             /\ Reg(cur, i) \in 1 .. top /\ mem[Reg(cur, i)].k = "value"
  <2>1. i = 0 /\ mem[cur].num_regs = 1
    BY <1>5 DEF RegsOf
  <2>2. Reg(cur, i) = mem[cur].regs
    BY <2>1, <1>5 DEF Reg, Maybe
  <2>3. mem[cur].regs \in cur + 1 .. top /\ mem[mem[cur].regs].k = "value"
    BY <2>1, <1>4 DEF FrameOK
  <2> QED BY <2>1, <2>2, <2>3, <1>2, <1>3
<1> QED BY <1>1, <1>2, <1>3, <1>4, <1>5, <1>6, <1>7, <1>8

\* An instruction that writes its output register touches no header.
LEMMA WriteLayout ==
  ASSUME MaxRegs = 1, Inv, NEW i, Write(i)
  PROVE  Layout(mem', top', cur', depth')
<1>1. /\ IsMajor(cur) /\ i \in RegsOf(cur)
      /\ UNCHANGED <<top, cur, depth>>
  BY DEF Write, Executing
<1>2. PICK v \in Readable : mem' = [mem EXCEPT ![Reg(cur, i)] = Cellular(v)]
  BY DEF Write
<1>3. Cellular(v) \in Cell /\ Cellular(v).k = "value"
  BY ValuesTyped
<1>4. mem' \in Memories
  BY <1>1, <1>2, <1>3, Current DEF Memories
<1>5. \A o \in 1 .. top : Same(mem, mem', o)
  BY <1>1, <1>2, <1>3, Current DEF Same, Memories
<1>6. \A o \in top + 1 .. top : mem'[o].k \notin {"major", "minor"}
  BY <1>1, Current
<1>7. top <= top
  BY <1>1, Current
<1> QED BY <1>1, <1>4, <1>5, <1>6, <1>7, Current, KeepLayout

\* STORE touches no header.
LEMMA StoreLayout ==
  ASSUME MaxRegs = 1, Inv, NEW i, Store(i)
  PROVE  Layout(mem', top', cur', depth')
<1> DEFINE a == ValueAt(Reg(cur, i)).at
<1>1. /\ IsMajor(cur) /\ i \in RegsOf(cur)
      /\ UNCHANGED <<top, cur, depth>>
      /\ ValueAt(Reg(cur, i)).ref /\ mem[a].k = "variable"
  BY DEF Store, Executing
<1>2. PICK v \in Readable : mem' = [mem EXCEPT ![a] = [k |-> "variable", v |-> v]]
  BY DEF Store
<1>3. [k |-> "variable", v |-> v] \in Cell /\ a \in Offsets
  BY <1>1, ValuesTyped
<1> HIDE DEF a
<1>4. mem' \in Memories
  BY <1>1, <1>2, <1>3, Current DEF Memories
<1>5. \A o \in 1 .. top : Same(mem, mem', o)
  BY <1>1, <1>2, <1>3, Current DEF Same, Memories
<1>6. \A o \in top + 1 .. top : mem'[o].k \notin {"major", "minor"}
  BY <1>1, Current
<1>7. top <= top
  BY <1>1, Current
<1> QED BY <1>1, <1>4, <1>5, <1>6, <1>7, Current, KeepLayout

\* THROW leaves the stack alone.
LEMMA ThrowLayout ==
  ASSUME Inv, Throw
  PROVE  Layout(mem', top', cur', depth')
BY DEF Inv, Throw

\* ENTER pushes a scope that returns to what is now the top of the stack.
LEMMA EnterLayout ==
  ASSUME MaxRegs = 1, Inv, Enter
  PROVE  Layout(mem', top', cur', depth')
<1> DEFINE n == mem'
           u == top + 1
           scope == [k |-> "minor", last |-> mem[cur].minor, records |-> 0, base |-> top]
<1>1. /\ IsMajor(cur) /\ u <= StackSize /\ top' = u
      /\ UNCHANGED <<cur, depth>>
      /\ n = [mem EXCEPT ![u] = scope, ![cur].minor = u]
  BY DEF Enter, Executing
<1>2. u \in Maybe /\ u \in Offsets /\ u # cur /\ cur \in Offsets /\ 1 .. top \subseteq Offsets
  BY <1>1, Current, ContextStackAssumption DEF Maybe, Offsets
<1>3. scope \in Cell /\ [mem[cur] EXCEPT !.minor = u] \in Cell
  <2>1. scope \in MinorFrame
    BY <1>1, <1>2, Current, ContextStackAssumption DEF MinorFrame, Maybe
  <2>2. mem[cur] \in MajorFrame
    BY <1>1, Current
  <2> HIDE DEF u, scope
  <2>3. [mem[cur] EXCEPT !.minor = u] \in MajorFrame
    BY <2>2, <1>2 DEF MajorFrame
  <2> QED BY <2>1, <2>3 DEF Cell
<1>4. /\ n \in Memories
      /\ n[u] = scope /\ n[cur] = [mem[cur] EXCEPT !.minor = u]
      /\ \A o \in 1 .. top : o # cur => n[o] = mem[o]
  <2>1. u \notin 1 .. top
    BY <1>1, Current
  <2>2. mem \in Memories
    BY <1>1, Current
  <2> HIDE DEF u, scope, n
  <2> QED BY <1>1, <1>2, <1>3, <2>1, <2>2 DEF Memories
<1>5. ButScope(n[cur], mem[cur]) /\ n[cur].minor = u
  <2>1. mem[cur] \in MajorFrame
    BY <1>1, Current
  <2> HIDE DEF u, n
  <2> QED BY <2>1, <1>4 DEF ButScope, MajorFrame
<1>6. Entered(mem, n, top, u, cur)
  <2>1. n[u].k = "minor" /\ n[u].last = mem[cur].minor /\ n[u].base = top
    <3> HIDE DEF n
    <3> QED BY <1>4
  <2>2. cur # 0 /\ u = top + 1
    BY <1>1, Current
  <2> HIDE DEF u, n
  <2> QED BY <1>4, <1>5, <2>1, <2>2 DEF Entered
<1>7. Layout(n, u, cur, depth)
  <2> HIDE DEF u, n
  <2> QED BY <1>1, <1>2, <1>4, <1>6, Current, PushScope
<1> QED BY <1>1, <1>7

\* LVAR puts its variable and its record above everything that is in use.
LEMMA LVarLayout ==
  ASSUME MaxRegs = 1, Inv, NEW i, LVar(i)
  PROVE  Layout(mem', top', cur', depth')
<1> USE ContextStackAssumption
<1> DEFINE n == mem'
           s == mem[cur].minor
           r == Reg(cur, i)
           p == top + 1
           q == top + 2
           record == [k |-> "record", next |-> mem[s].records, reg |-> i]
           local  == [k |-> "variable", v |-> Plain(Invalid)]
<1>1. /\ IsMajor(cur) /\ i \in RegsOf(cur) /\ q <= StackSize /\ top' = q
      /\ UNCHANGED <<cur, depth>>
      /\ n = [mem EXCEPT ![p] = local, ![q] = record,
                         ![s] = [@ EXCEPT !.records = q], ![r] = Cellular(Ref(p))]
  BY DEF LVar, Executing
<1>2. /\ mem \in Memories /\ s \in 1 .. top /\ r \in 1 .. top /\ 1 .. top \subseteq Offsets
      /\ mem[s] \in MinorFrame /\ mem[r].k = "value" /\ i \in 0 .. MaxRegs
      /\ top \in Nat /\ top <= StackSize
  BY <1>1, Current
<1>3. /\ p \in Offsets /\ q \in Offsets /\ q \in Maybe /\ p \notin 1 .. top /\ q \notin 1 .. top
      /\ p # q /\ top <= q /\ top + 1 .. q = {p, q}
  BY <1>1, <1>2 DEF Offsets, Maybe
<1>4. local \in Cell /\ record \in Cell /\ Cellular(Ref(p)) \in Cell
  <2>1. Plain(Invalid) \in Value /\ Ref(p) \in Value
    BY <1>3, ValuesTyped
  <2>2. local \in Cell /\ Cellular(Ref(p)) \in Cell
    BY <2>1, ValuesTyped
  <2>3. mem[s].records \in Maybe
    BY <1>2 DEF MinorFrame
  <2>4. record \in AllocaRecord
    BY <1>2, <2>3 DEF AllocaRecord
  <2> QED BY <2>2, <2>4 DEF Cell
<1>5. /\ [mem[s] EXCEPT !.records = q] \in MinorFrame
      /\ [mem[s] EXCEPT !.records = q].last = mem[s].last
      /\ [mem[s] EXCEPT !.records = q].base = mem[s].base
  <2> HIDE DEF s, q
  <2> QED BY <1>2, <1>3 DEF MinorFrame
<1>6. s # r
  BY <1>2 DEF MinorFrame
<1>7. /\ n \in Memories
      /\ n[p] = local /\ n[q] = record /\ n[r] = Cellular(Ref(p))
      /\ n[s] = [mem[s] EXCEPT !.records = q]
      /\ \A o \in 1 .. top : o # s /\ o # r => n[o] = mem[o]
  <2> HIDE DEF p, q, r, s, local, record, n
  <2>1. [mem[s] EXCEPT !.records = q] \in Cell
    BY <1>5 DEF Cell
  <2> QED BY <1>1, <1>2, <1>3, <1>4, <1>6, <2>1 DEF Memories
<1>8. \A o \in 1 .. top : Same(mem, n, o)
  <2>1. mem[s].k = "minor" /\ n[s].k = "minor" /\ n[s].last = mem[s].last /\ n[s].base = mem[s].base
    <3> HIDE DEF n
    <3> QED BY <1>2, <1>5, <1>7 DEF MinorFrame
  <2>2. mem[r].k = "value" /\ n[r].k = "value"
    <3> HIDE DEF n
    <3> QED BY <1>2, <1>7 DEF Cellular
  <2> HIDE DEF p, q, r, s, n
  <2> QED BY <1>7, <2>1, <2>2 DEF Same
<1>9. \A o \in top + 1 .. q : n[o].k \notin {"major", "minor"}
  <2>1. n[p].k = "variable" /\ n[q].k = "record"
    <3> HIDE DEF n
    <3> QED BY <1>7
  <2> QED BY <2>1, <1>3
<1>10. Layout(n, q, cur, depth)
  <2>1. Layout(mem, top, cur, depth) /\ top <= q /\ q \in Maybe
    BY <1>1, <1>3, Current
  <2>2. n \in Memories
    BY <1>7
  <2> HIDE DEF n, q
  <2> QED BY <1>8, <1>9, <2>1, <2>2, KeepLayout
<1> QED BY <1>1, <1>10

\* PUSHARG puts the arguments above everything that is in use.
LEMMA PushArgLayout ==
  ASSUME MaxRegs = 1, Inv, NEW i, PushArg(i)
  PROVE  Layout(mem', top', cur', depth')
<1> USE ContextStackAssumption
<1> DEFINE p == top + 1
           m == [mem EXCEPT ![p] = Cellular(ValueAt(Reg(cur, i)))]
<1>1. /\ IsMajor(cur) /\ p <= StackSize /\ top' = p
      /\ mem[cur].num_next_args < MaxArgs
      /\ UNCHANGED <<cur, depth>>
      /\ \/ mem' = m
         \/ mem' = [m EXCEPT ![cur].next_args = p, ![cur].num_next_args = @ + 1]
  BY DEF PushArg, Executing
<1>2. /\ mem \in Memories /\ cur \in 1 .. top /\ 1 .. top \subseteq Offsets
      /\ mem[cur] \in MajorFrame /\ top \in Nat
  BY <1>1, Current
<1>3. p \in Offsets /\ p \in Maybe /\ p \notin 1 .. top /\ top <= p /\ top + 1 .. p = {p}
  BY <1>1, <1>2 DEF Offsets, Maybe
<1>4. Cellular(ValueAt(Reg(cur, i))) \in Cell /\ Cellular(ValueAt(Reg(cur, i))).k = "value"
  BY ValuesTyped
<1>5. m \in Memories /\ m[p].k = "value" /\ \A o \in 1 .. top : m[o] = mem[o]
  <2> HIDE DEF p
  <2> QED BY <1>2, <1>3, <1>4 DEF Memories
<1>6. CASE mem' = m
  <2>1. \A o \in 1 .. top : Same(mem, mem', o)
    BY <1>5, <1>6 DEF Same
  <2>2. \A o \in top + 1 .. p : mem'[o].k \notin {"major", "minor"}
    BY <1>3, <1>5, <1>6
  <2>3. mem' \in Memories
    BY <1>5, <1>6
  <2> HIDE DEF p, m
  <2> QED BY <1>1, <1>3, <2>1, <2>2, <2>3, Current, KeepLayout
<1>7. CASE mem' = [m EXCEPT ![cur].next_args = p, ![cur].num_next_args = @ + 1]
  <2> DEFINE g == [m[cur] EXCEPT !.next_args = p, !.num_next_args = @ + 1]
  <2>1. m[cur] \in MajorFrame /\ m[cur].num_next_args + 1 \in 0 .. MaxArgs
    BY <1>1, <1>2, <1>5 DEF MajorFrame
  <2>2. /\ g \in MajorFrame /\ g.k = "major"
        /\ g.minor = m[cur].minor /\ g.prev = m[cur].prev /\ g.next = m[cur].next
        /\ g.out = m[cur].out /\ g.prev_top = m[cur].prev_top
        /\ g.num_regs = m[cur].num_regs /\ g.regs = m[cur].regs
    <3> HIDE DEF m, p
    <3> QED BY <2>1, <1>3 DEF MajorFrame
  <2>3. mem' = [m EXCEPT ![cur] = g]
    <3> HIDE DEF m, p
    <3> QED BY <1>2, <1>5, <1>7 DEF Memories
  <2> HIDE DEF m, p, g
  <2>4. g \in Cell
    BY <2>2 DEF Cell
  <2>5. mem' \in Memories /\ mem'[cur] = g /\ \A o \in Offsets : o # cur => mem'[o] = m[o]
    BY <2>3, <2>4, <1>2, <1>5 DEF Memories
  <2>6. \A o \in 1 .. top : Same(mem, mem', o)
    BY <2>1, <2>2, <2>5, <1>2, <1>5 DEF Same, MajorFrame
  <2>7. \A o \in top + 1 .. p : mem'[o].k \notin {"major", "minor"}
    BY <2>5, <1>2, <1>3, <1>5
  <2> QED BY <1>1, <1>3, <2>5, <2>6, <2>7, Current, KeepLayout
<1> QED BY <1>1, <1>6, <1>7

\* The memory once LEAVE has invalidated the registers.
Cleared ==
  LET named == {mem[r].reg : r \in {q \in Records(mem[cur].minor) : mem[q].k = "record"}}
  IN  [o \in Offsets |-> IF \E i \in named \cap RegsOf(cur) : o = Reg(cur, i)
                         THEN Cellular(Plain(Invalid)) ELSE mem[o]]

\* LEAVE invalidates registers, then leaves the innermost scope.
LEMMA LeaveExits ==
  ASSUME MaxRegs = 1, Inv, Leave
  PROVE  LET s == mem[cur].minor
         IN  /\ Layout(Cleared, top, cur, depth) /\ Cleared \in Memories
             /\ mem' \in Memories /\ Exited(Cleared, mem', top, cur, s)
             /\ mem'[cur] = [mem[cur] EXCEPT !.minor = mem[s].last]
             /\ Cleared[cur] = mem[cur] /\ Cleared[s] = mem[s]
             /\ top' = mem[s].base /\ UNCHANGED <<cur, depth>>
<1> USE ContextStackAssumption
<1> DEFINE s == mem[cur].minor
           l == mem[s].last
           named == {mem[r].reg : r \in {q \in Records(s) : mem[q].k = "record"}}
           m == [o \in Offsets |-> IF \E i \in named \cap RegsOf(cur) : o = Reg(cur, i)
                                   THEN Cellular(Plain(Invalid)) ELSE mem[o]]
<1>1. /\ IsMajor(cur) /\ l # 0
      /\ mem' = [m EXCEPT ![cur].minor = l] /\ top' = mem[s].base
      /\ UNCHANGED <<cur, depth>>
  BY DEF Leave, Executing
<1>2. /\ mem \in Memories /\ cur \in 1 .. top /\ 1 .. top \subseteq Offsets /\ cur # 0
      /\ mem[cur] \in MajorFrame /\ mem[cur].k = "major" /\ top \in Nat /\ top \in Maybe
      /\ s \in 1 .. top /\ mem[s].k = "minor" /\ mem[s] \in MinorFrame
      /\ Layout(mem, top, cur, depth)
      /\ \A i \in RegsOf(cur) : mem[Reg(cur, i)].k = "value"
  BY <1>1, Current
<1>3. Cellular(Plain(Invalid)) \in Cell /\ Cellular(Plain(Invalid)).k = "value"
  BY ValuesTyped
<1> HIDE DEF named
<1>4. m \in Memories
  BY <1>2, <1>3 DEF Memories
<1>5. \A o \in Offsets : m[o] = mem[o] \/ (m[o].k = "value" /\ mem[o].k = "value")
  BY <1>2, <1>3
<1> HIDE DEF m
<1>6. m[cur] = mem[cur] /\ m[s] = mem[s]
  BY <1>2, <1>5
<1>7. \A o \in 1 .. top : Same(mem, m, o)
  BY <1>2, <1>5 DEF Same
<1>8. Layout(m, top, cur, depth)
  <2>1. top <= top /\ \A o \in top + 1 .. top : m[o].k \notin {"major", "minor"}
    BY <1>2
  <2> QED BY <1>2, <1>4, <1>7, <2>1, KeepLayout
<1>9. l \in Maybe
  BY <1>2 DEF MinorFrame
<1> DEFINE g == [m[cur] EXCEPT !.minor = l]
<1>10. g \in MajorFrame /\ ButScope(g, m[cur]) /\ g.minor = l
  <2> HIDE DEF l
  <2> QED BY <1>2, <1>6, <1>9 DEF MajorFrame, ButScope
<1>11. mem' = [m EXCEPT ![cur] = g]
  BY <1>1, <1>2, <1>4 DEF Memories
<1> HIDE DEF g
<1>12. mem' \in Memories /\ mem'[cur] = g /\ \A o \in 1 .. top : o # cur => mem'[o] = m[o]
  <2>1. g \in Cell
    BY <1>10 DEF Cell
  <2> QED BY <2>1, <1>2, <1>4, <1>11 DEF Memories
<1>13. Exited(m, mem', top, cur, s)
  BY <1>1, <1>2, <1>6, <1>10, <1>12 DEF Exited
<1>14. m = Cleared
  BY DEF m, named, Cleared
<1>15. mem'[cur] = [mem[cur] EXCEPT !.minor = l]
  BY <1>6, <1>12 DEF g
<1> QED BY <1>1, <1>4, <1>6, <1>8, <1>12, <1>13, <1>14, <1>15

\* LEAVE cuts off the innermost scope and nothing that a frame needs.
LEMMA LeaveLayout ==
  ASSUME MaxRegs = 1, Inv, Leave
  PROVE  Layout(mem', top', cur', depth')
BY LeaveExits, PopScope

\* _leave_major_frame(), when the memory is m: the caller p stays.
AfterPop(m, p) ==
  /\ p \in MajorsIn(m, top) /\ p # 0 /\ cur # 0
  /\ mem' \in Memories /\ Popped(m, mem', top, cur, p) /\ SameArgs(mem'[p], m[p])
  /\ cur' = p /\ top' = m[cur].prev_top /\ depth' = depth - 1

\* _leave_major_frame() cuts off the newest frame.
LEMMA LeavePops ==
  ASSUME NEW m, Layout(m, top, cur, depth), IsMajor(cur), m[cur] = mem[cur], LeaveMajorFrame(m)
  PROVE  AfterPop(m, mem[cur].prev)
<1> USE ContextStackAssumption
<1> DEFINE p == mem[cur].prev
           g == [m[p] EXCEPT !.next = 0]
<1>1. /\ mem' = [m EXCEPT ![p].next = 0] /\ IsMajor(p)
      /\ cur' = p /\ top' = mem[cur].prev_top /\ depth' = depth - 1
  BY DEF LeaveMajorFrame
<1>2. m \in Memories /\ cur \in Offsets /\ m[cur].k = "major" /\ p \in Offsets /\ p # 0
      /\ cur # 0 /\ 1 .. top \subseteq Offsets
  BY <1>1, LayoutTyped DEF IsMajor, Offsets
<1>3. p \in MajorsIn(m, top)
  <2>1. FrameOK(m, top, cur)
    BY <1>2 DEF Layout
  <2> QED BY <2>1, <1>2 DEF FrameOK
<1>4. m[p] \in MajorFrame
  BY <1>2, <1>3, MajorTyped DEF MajorsIn
<1>5. g \in MajorFrame /\ ButNext(g, m[p]) /\ g.next = 0 /\ SameArgs(g, m[p])
  <2>1. 0 \in Maybe
    BY DEF Maybe
  <2> HIDE DEF p
  <2> QED BY <1>4, <2>1 DEF MajorFrame, ButNext, SameArgs
<1>p. p = m[cur].prev
  OBVIOUS
<1> HIDE DEF g, p
<1>6. mem' = [m EXCEPT ![p] = g]
  BY <1>1, <1>2 DEF Memories, g
<1>7. mem' \in Memories /\ mem'[p] = g /\ \A o \in 1 .. top : o # p => mem'[o] = m[o]
  <2>1. g \in Cell
    BY <1>5 DEF Cell
  <2> QED BY <2>1, <1>2, <1>6 DEF Memories
<1>8. Popped(m, mem', top, cur, p)
  BY <1>2, <1>p, <1>5, <1>7 DEF Popped
<1>9. AfterPop(m, p)
  BY <1>1, <1>2, <1>3, <1>5, <1>7, <1>8 DEF AfterPop
<1> QED BY <1>9 DEF p

\* _leave_major_frame() leaves the headers of the older frames as they are.
LEMMA LeaveMajorFrameLayout ==
  ASSUME NEW m, Layout(m, top, cur, depth), IsMajor(cur), m[cur] = mem[cur], LeaveMajorFrame(m)
  PROVE  Layout(mem', top', cur', depth')
<1>1. AfterPop(m, mem[cur].prev)
  BY LeavePops
<1> QED BY <1>1, PopFrame DEF AfterPop

\* So does a return without a value.
LEMMA ReturnLayout ==
  ASSUME Inv, RetVoid \/ NativeReturn
  PROVE  Layout(mem', top', cur', depth')
<1>1. IsMajor(cur) /\ LeaveMajorFrame(mem)
  BY DEF RetVoid, NativeReturn, Executing
<1> QED BY <1>1, LeaveMajorFrameLayout DEF Inv

\* Where RET puts the result: the one register of the caller p.
AfterRet(p, r) ==
  /\ p # 0 /\ p \in MajorsIn(mem, top) /\ p \in Nat /\ mem[p].num_regs > 0
  /\ r = mem[p].regs /\ r \in 1 .. top /\ r \in Nat /\ mem[r].k = "value" /\ p < r

\* RET writes a register of the caller, then leaves the frame.
LEMMA RetReturnsTo ==
  ASSUME MaxRegs = 1, Inv, NEW i, Ret(i)
  PROVE  /\ mem[cur].out = 1
         /\ AfterRet(mem[cur].prev, Reg(mem[cur].prev, mem[cur].out - 1))
<1> USE ContextStackAssumption
<1> DEFINE f == mem[cur]
           p == f.prev
           r == Reg(p, f.out - 1)
<1>1. IsMajor(cur) /\ i \in RegsOf(cur) /\ f.out \in 1 .. f.num_regs /\ IsMajor(p)
  BY DEF Ret, Executing
<1>2. /\ mem \in Memories /\ cur \in 1 .. top /\ f.num_regs = 1
      /\ Layout(mem, top, cur, depth) /\ top \in Nat /\ FrameOK(mem, top, cur)
  BY <1>1, Current
<1>3. f.out = 1 /\ p \in MajorsIn(mem, top) /\ 1 <= mem[p].num_regs /\ p \in Nat /\ p # 0
  <2>1. p # 0
    BY <1>1 DEF IsMajor, Offsets
  <2>2. f.out = 1 /\ p \in MajorsIn(mem, top) /\ f.out <= mem[p].num_regs
    BY <1>1, <1>2, <2>1 DEF FrameOK
  <2> QED BY <2>1, <2>2 DEF MajorsIn
<1>4. FrameOK(mem, top, p) /\ p \in Offsets /\ mem[p].k = "major"
  BY <1>1, <1>2, <1>3 DEF Layout, IsMajor
<1>5. mem[p].regs \in Maybe /\ mem[p].num_regs \in 0 .. MaxRegs
  BY <1>2, <1>4, MajorTyped
<1>6. r = mem[p].regs
  BY <1>3, <1>5 DEF Reg, Maybe
<1>7. mem[p].num_regs > 0
  BY <1>3, <1>5
<1>8. mem[p].regs \in p + 1 .. top /\ mem[mem[p].regs].k = "value"
  BY <1>4, <1>7 DEF FrameOK
<1> HIDE DEF r, p
<1>9. AfterRet(p, r)
  BY <1>2, <1>3, <1>6, <1>7, <1>8 DEF AfterRet
<1> QED BY <1>3, <1>9 DEF p, r

\* RET leaves the headers of the older frames as they are.
LEMMA RetLayout ==
  ASSUME MaxRegs = 1, Inv, NEW i, Ret(i)
  PROVE  Layout(mem', top', cur', depth')
<1> USE ContextStackAssumption
<1> DEFINE f == mem[cur]
           v == ValueAt(Reg(cur, i))
           r == Reg(f.prev, f.out - 1)
           m == [mem EXCEPT ![r] = Cellular(v)]
<1>1. /\ IsMajor(cur) /\ i \in RegsOf(cur) /\ f.out \in 1 .. f.num_regs /\ IsMajor(f.prev)
      /\ LeaveMajorFrame(m)
  BY DEF Ret, Executing
<1>2. /\ mem \in Memories /\ cur \in 1 .. top /\ 1 .. top \subseteq Offsets
      /\ f.k = "major" /\ FrameOK(mem, top, cur) /\ f.num_regs = 1
      /\ Layout(mem, top, cur, depth) /\ top \in Nat /\ top \in Maybe
  BY <1>1, Current
<1>4. r \in 1 .. top /\ mem[r].k = "value"
  <2>1. AfterRet(f.prev, r)
    BY RetReturnsTo
  <2> QED BY <2>1 DEF AfterRet
<1>5. Cellular(v) \in Cell /\ Cellular(v).k = "value"
  BY ValuesTyped
<1> HIDE DEF r, v
<1>6. /\ m \in Memories /\ m[r] = Cellular(v)
      /\ \A o \in 1 .. top : o # r => m[o] = mem[o]
  BY <1>2, <1>4, <1>5 DEF Memories
<1> HIDE DEF m
<1>7. \A o \in 1 .. top : Same(mem, m, o)
  BY <1>4, <1>5, <1>6 DEF Same
<1>8. Layout(m, top, cur, depth)
  <2>1. top <= top /\ \A o \in top + 1 .. top : m[o].k \notin {"major", "minor"}
    BY <1>2
  <2> QED BY <1>2, <1>6, <1>7, <2>1, KeepLayout
<1>9. m[cur] = mem[cur]
  BY <1>2, <1>4, <1>6
<1> QED BY <1>1, <1>8, <1>9, LeaveMajorFrameLayout

\* CALL pushes a frame that has the pending arguments of its caller.
AfterCall(n, out) ==
  LET u == top + Extent(0, n)
      f == mem'[top + 1]
  IN  /\ mem' \in Memories /\ u \in Maybe /\ top' = u /\ cur' = top + 1 /\ depth' = depth + 1
      /\ Pushed(mem, mem', top, u, cur, top + 1)
      /\ SameReceived(mem'[cur], mem[cur]) /\ mem'[cur].num_next_args = 0
      /\ f.num_args = mem[cur].num_next_args /\ f.args = mem[cur].next_args
      /\ f.num_next_args = 0 /\ f.num_regs = n /\ f.out = out
      /\ mem'[top + 2].records = 0
      /\ \A o \in top + 3 .. u : mem'[o].v = Plain(Invalid)

\* A call hands the arguments over and puts a frame on top.
LEMMA CallPushes ==
  ASSUME MaxRegs = 1, Inv,
         NEW kind \in {"regular", "native"}, NEW n \in 0 .. MaxRegs, NEW out \in 0 .. MaxRegs,
         Call(kind, n, out)
  PROVE  AfterCall(n, out)
<1> USE ContextStackAssumption
<1> DEFINE f == mem[cur]
           m == [mem EXCEPT ![cur].next_args = 0, ![cur].num_next_args = 0]
           g == [f EXCEPT !.next_args = 0, !.num_next_args = 0]
           u == top + Extent(0, n)
<1>1. /\ IsMajor(cur) /\ out <= f.num_regs /\ u <= StackSize
      /\ mem' = NewFrame(m, cur, kind, top, 0, n, f.next_args, f.num_next_args, out)
      /\ top' = u /\ cur' = top + 1 /\ depth' = depth + 1
  BY DEF Call, Executing
<1>2. /\ mem \in Memories /\ cur \in 1 .. top /\ 1 .. top \subseteq Offsets /\ f \in MajorFrame
      /\ Layout(mem, top, cur, depth) /\ top \in Nat /\ top \in Maybe /\ cur # 0
      /\ cur \in MajorsIn(mem, top)
  BY <1>1, Current DEF MajorsIn
<1>3. /\ g \in MajorFrame /\ ButNext(g, f) /\ g.next = f.next /\ SameReceived(g, f)
      /\ g.num_next_args = 0
  <2>1. 0 \in Maybe /\ 0 \in 0 .. MaxArgs
    BY DEF Maybe
  <2> HIDE DEF f
  <2> QED BY <1>2, <2>1 DEF MajorFrame, ButNext, SameReceived
<1>4. m = [mem EXCEPT ![cur] = g]
  BY <1>2 DEF Memories
<1>5. f.next_args \in Maybe /\ f.num_next_args \in 0 .. MaxArgs
  BY <1>2 DEF MajorFrame
<1> HIDE DEF m, g
<1>6. m \in Memories /\ m[cur] = g /\ \A o \in 1 .. top : o # cur => m[o] = mem[o]
  <2>1. g \in Cell
    BY <1>3 DEF Cell
  <2> QED BY <1>2, <1>4, <2>1 DEF Memories
<1>7. \A o \in 1 .. top : Same(mem, m, o)
  BY <1>2, <1>3, <1>6 DEF Same, MajorFrame, ButNext
<1>8. Layout(m, top, cur, depth)
  <2>1. top <= top /\ \A o \in top + 1 .. top : m[o].k \notin {"major", "minor"}
    BY <1>2
  <2> QED BY <1>2, <1>6, <1>7, <2>1, KeepLayout
<1>9. kind \in {"top", "regular", "native"} /\ 0 \in 0 .. MaxArgs /\ out \in 0 .. MaxRegs + 1
      /\ out <= m[cur].num_regs
  BY <1>1, <1>3, <1>6 DEF ButNext
<1>h. mem'[top + 1].num_regs = n /\ mem'[top + 1].out = out
  <2>1. top + 1 <= StackSize
    BY <1>1, <1>2 DEF Extent
  <2> HIDE DEF f
  <2> QED BY <1>1, <1>2, <2>1, NewFrameHeader
<1> HIDE DEF f
<1>10. /\ mem' \in Memories /\ u \in Maybe /\ Pushed(m, mem', top, u, cur, top + 1)
       /\ mem'[top + 1].num_args = f.num_next_args /\ mem'[top + 1].num_next_args = 0
       /\ mem'[top + 1].args = f.next_args
       /\ mem'[top + 2].records = 0
       /\ \A o \in top + 3 .. u : mem'[o].v = Plain(Invalid)
       /\ mem'[cur].args = g.args /\ mem'[cur].num_args = g.num_args
       /\ mem'[cur].num_next_args = g.num_next_args
  <2> HIDE DEF g
  <2>1. top + Extent(0, n) <= StackSize /\ u = top + Extent(0, n)
    BY <1>1
  <2> DEFINE w == NewFrame(m, cur, kind, top, 0, n, f.next_args, f.num_next_args, out)
  <2>0. w = NewFrame(m, cur, kind, top, 0, n, f.next_args, f.num_next_args, out)
    OBVIOUS
  <2> HIDE DEF w, u
  <2>a. /\ f.next_args \in Maybe /\ f.num_next_args \in 0 .. MaxArgs /\ Layout(m, top, cur, depth)
        /\ kind \in {"top", "regular", "native"} /\ 0 \in 0 .. MaxArgs /\ out \in 0 .. MaxRegs + 1
        /\ cur # 0 => out <= m[cur].num_regs
        /\ u = top + Extent(0, n) /\ u <= StackSize
    BY <1>1, <1>5, <1>8, <1>9, <2>1
  <2>b. /\ w \in Memories /\ u \in Maybe
        /\ Pushed(m, w, top, u, cur, top + 1)
    BY <2>0, <2>a, NewFramePushes
  <2>c. w[top + 1].num_args = f.num_next_args /\ w[top + 1].num_next_args = 0
    BY <2>0, <2>a, NewFramePushes
  <2>d. w[top + 1].args = f.next_args
    BY <2>0, <2>a, NewFramePushes
  <2>e. w[top + 2].records = 0
    BY <2>0, <2>a, NewFramePushes
  <2>f. \A o \in top + 3 .. u : w[o].v = Plain(Invalid)
    BY <2>0, <2>a, NewFramePushes
  <2>g. cur # 0 => /\ w[cur].args = m[cur].args /\ w[cur].num_args = m[cur].num_args
                  /\ w[cur].next_args = m[cur].next_args
                  /\ w[cur].num_next_args = m[cur].num_next_args
    BY <2>0, <2>a, NewFramePushes
  <2>3. mem' = w
    BY <1>1, <2>0
  <2> QED BY <1>2, <1>6, <2>1, <2>b, <2>c, <2>d, <2>e, <2>f, <2>g, <2>3
<1> HIDE DEF u
<1>11. Pushed(mem, mem', top, u, cur, top + 1)
  <2>1. ButNext(mem'[cur], mem[cur])
    BY <1>2, <1>3, <1>6, <1>10 DEF Pushed, ButNext, f
  <2>2. out <= mem[cur].num_regs /\ m[cur].num_regs = mem[cur].num_regs
    BY <1>1, <1>3, <1>6 DEF ButNext, f
  <2> QED BY <2>1, <2>2, <1>2, <1>6, <1>10 DEF Pushed
<1>12. SameReceived(mem'[cur], mem[cur]) /\ mem'[cur].num_next_args = 0
  BY <1>3, <1>10 DEF SameReceived, f
<1> QED BY <1>1, <1>10, <1>11, <1>12, <1>h DEF AfterCall, u, f

\* A call puts one more frame on top of the others.
LEMMA CallLayout ==
  ASSUME MaxRegs = 1, Inv,
         NEW kind \in {"regular", "native"}, NEW n \in 0 .. MaxRegs, NEW out \in 0 .. MaxRegs,
         Call(kind, n, out)
  PROVE  Layout(mem', top', cur', depth')
<1>1. AfterCall(n, out)
  BY CallPushes
<1>2. Layout(mem, top, cur, depth)
  BY DEF Inv
<1> QED BY <1>1, <1>2, PushFrame DEF AfterCall

\* exec_fn() puts two frames on top of the others.
LEMMA ExecFnLayout ==
  ASSUME MaxRegs = 1, Inv,
         NEW kind \in {"regular", "native"}, NEW a \in 0 .. MaxArgs, NEW n \in 0 .. MaxRegs,
         NEW out \in 0 .. MaxRegs, ExecFn(kind, a, n, out)
  PROVE  Layout(mem', top', cur', depth')
<1> USE ContextStackAssumption
<1> DEFINE m == NewFrame(mem, cur, "top", top, 0, 1, 0, 0, 0)
           t == top + Extent(0, 1)
<1>1. Layout(mem, top, cur, depth) /\ top \in Nat /\ depth \in Nat
  BY LayoutTyped DEF Inv
<1>2. ASSUME t <= StackSize
      PROVE  Layout(m, t, top + 1, depth + 1) /\ m[top + 1].num_regs = 1
  <2>1. cur # 0 => 0 <= mem[cur].num_regs
    <3>1. cur # 0 => cur \in Offsets /\ mem[cur].k = "major" /\ mem \in Memories
      BY <1>1, LayoutTyped DEF Layout
    <3> QED BY <3>1, MajorTyped
  <2>2. /\ "top" \in {"top", "regular", "native"} /\ 0 \in 0 .. MaxArgs /\ 1 \in 0 .. MaxRegs
        /\ 0 \in Maybe /\ 0 \in 0 .. MaxRegs + 1
    BY DEF Maybe
  <2>3. Layout(m, t, top + 1, depth + 1)
    BY <1>1, <1>2, <2>1, <2>2, NewFrameLayout
  <2>4. top + 1 \in Offsets
    BY <1>1, <1>2 DEF Extent, Offsets
  <2> QED BY <2>3, <2>4 DEF NewFrame
<1>3. CASE UNCHANGED <<mem, top, cur, depth>>
  BY <1>1, <1>3
<1>4. CASE t <= StackSize /\ mem' = m /\ cur' = top + 1 /\ top' = t /\ depth' = depth + 1
  BY <1>2, <1>4
<1>5. CASE /\ t + Extent(a, n) <= StackSize
           /\ mem' = NewFrame(m, top + 1, kind, t, a, n, 0, a, out)
           /\ cur' = t + 1 /\ top' = t + Extent(a, n) /\ depth' = depth + 2
  <2>1. t <= StackSize
    BY <1>1, <1>5 DEF Extent
  <2>2. Layout(m, t, top + 1, depth + 1) /\ out <= m[top + 1].num_regs
    BY <1>2, <2>1
  <2>3. kind \in {"top", "regular", "native"} /\ 0 \in Maybe /\ out \in 0 .. MaxRegs + 1
    BY DEF Maybe
  <2>4. depth + 2 = (depth + 1) + 1
    BY <1>1
  <2> HIDE DEF m, t
  <2>5. Layout(NewFrame(m, top + 1, kind, t, a, n, 0, a, out), t + Extent(a, n), t + 1, (depth + 1) + 1)
    BY <1>5, <2>2, <2>3, NewFrameLayout
  <2> QED BY <1>5, <2>4, <2>5
<1> QED BY <1>3, <1>4, <1>5 DEF ExecFn

-----------------------------------------------------------------------------
(* The theorems.                                                           *)

\* The invariant holds of the empty stack.
LEMMA InitInv ==
  ASSUME Init
  PROVE  Inv
<1> USE ContextStackAssumption DEF Init
<1>1. [k |-> "value", v |-> Plain(Invalid)] \in Cell
  BY DEF Cell, ValueCell, Value
<1>2. mem \in Memories
  BY <1>1 DEF Memories
<1>3. 1 .. top = {}
  OBVIOUS
<1>4. MajorsIn(mem, top) = {}
  BY <1>3 DEF MajorsIn
<1>5. depth = Cardinality(MajorsIn(mem, top))
  BY <1>4, FS_EmptySet
<1>6. Layout(mem, top, cur, depth)
  BY <1>2, <1>3, <1>4, <1>5 DEF Layout, Maybe
<1>7. TypeOK
  <2>1. top \in Maybe /\ cur \in Maybe /\ depth \in Nat
    BY DEF Maybe
  <2>2. running \in BOOLEAN /\ fault \in BOOLEAN
    OBVIOUS
  <2>3. mem \in [Offsets -> Cell]
    BY <1>2 DEF Memories
  <2> QED BY <2>1, <2>2, <2>3 DEF TypeOK
<1> QED BY <1>6, <1>7 DEF Inv

\* Every instruction keeps the invariant.
LEMMA StepInv ==
  ASSUME MaxRegs = 1, Inv, [Next]_vars
  PROVE  Inv'
<1>1. Layout(mem', top', cur', depth')
  <2>1. CASE UNCHANGED vars
    BY <2>1 DEF vars, Inv
  <2>2. ASSUME NEW kind \in {"regular", "native"}, NEW n \in 0 .. MaxRegs, NEW out \in 0 .. MaxRegs,
               Call(kind, n, out)
        PROVE  Layout(mem', top', cur', depth')
    BY <2>2, CallLayout
  <2>3. ASSUME NEW kind \in {"regular", "native"}, NEW n \in 0 .. MaxRegs, NEW out \in 0 .. MaxRegs,
               NEW a \in 0 .. MaxArgs, ExecFn(kind, a, n, out)
        PROVE  Layout(mem', top', cur', depth')
    BY <2>3, ExecFnLayout
  <2>4. CASE RetVoid \/ NativeReturn
    BY <2>4, ReturnLayout
  <2>5. CASE Enter
    BY <2>5, EnterLayout
  <2>6. CASE Leave
    BY <2>6, LeaveLayout
  <2>7. CASE Throw
    BY <2>7, ThrowLayout
  <2>8. ASSUME NEW i \in 0 .. MaxRegs, Ret(i) \/ LVar(i) \/ PushArg(i) \/ Write(i) \/ Store(i)
        PROVE  Layout(mem', top', cur', depth')
    BY <2>8, RetLayout, LVarLayout, PushArgLayout, WriteLayout, StoreLayout
  <2> QED BY <2>1, <2>2, <2>3, <2>4, <2>5, <2>6, <2>7, <2>8 DEF Next
<1>2. running' \in BOOLEAN /\ fault' \in BOOLEAN
  <2>1. running \in BOOLEAN /\ fault \in BOOLEAN
    BY DEF Inv, TypeOK
  <2> QED BY <2>1 DEF Next, vars, Call, ExecFn, RetVoid, NativeReturn, LeaveMajorFrame, Enter, Leave,
                      Throw, Ret, LVar, PushArg, Write, Store
<1>3. TypeOK'
  BY <1>1, <1>2, LayoutTyped DEF TypeOK, Memories
<1> QED BY <1>1, <1>3 DEF Inv

\* The invariant has every header where HeadersIntact looks for it.
LEMMA InvHeadersIntact ==
  ASSUME Inv
  PROVE  HeadersIntact
<1> USE ContextStackAssumption
<1>1. Layout(mem, top, cur, depth) /\ 1 .. top \subseteq Offsets /\ top \in Nat
  BY LayoutTyped DEF Inv
<1>2. Majors = MajorsIn(mem, top)
  BY DEF Majors, MajorsIn
<1>3. cur # 0 => IsMajor(cur) /\ mem[cur].next = 0
  BY <1>1 DEF Layout, MajorsIn, IsMajor
<1>4. ASSUME NEW o \in Majors
      PROVE  /\ IsMinor(mem[o].minor) /\ mem[o].minor <= top
             /\ mem[o].prev # 0 => mem[o].prev \in Majors /\ mem[mem[o].prev].next = o
             /\ mem[o].prev <= mem[o].prev_top /\ mem[o].prev_top < o
  <2>1. FrameOK(mem, top, o) /\ o \in 1 .. top
    BY <1>1, <1>2 DEF Layout, Majors
  <2> QED BY <2>1, <1>1, <1>2 DEF FrameOK, IsMinor
<1> QED BY <1>1, <1>2, <1>3, <1>4 DEF HeadersIntact, Layout

(***************************************************************************)
(* The interpreter's stack is well typed: every access of exec.cc through  *)
(* an offset finds an object of the kind it expects.                       *)
(***************************************************************************)
THEOREM StackTyped == ASSUME MaxRegs = 1 PROVE Spec => []TypeOK
<1>1. Init => Inv
  BY InitInv
<1>2. Inv /\ [Next]_vars => Inv'
  BY StepInv
<1>3. Inv => TypeOK
  BY DEF Inv
<1> QED BY <1>1, <1>2, <1>3, PTL DEF Spec

(***************************************************************************)
(* For a stack of any size, any number of arguments and any values: no     *)
(* write through a register, a reference, a new local variable or a new    *)
(* frame hits the header of a frame in use, leaving a scope or a frame     *)
(* cuts no header of another one off, and the frames stay one list, as     *)
(* long as no function has more than one register.                         *)
(***************************************************************************)
THEOREM HeadersStayIntact == ASSUME MaxRegs = 1 PROVE Spec => []HeadersIntact
<1>1. Init => Inv
  BY InitInv
<1>2. Inv /\ [Next]_vars => Inv'
  BY StepInv
<1>3. Inv => HeadersIntact
  BY InvHeadersIntact
<1> QED BY <1>1, <1>2, <1>3, PTL DEF Spec

-----------------------------------------------------------------------------
(***************************************************************************)
(* References.  To a second invariant, RefsOK, belongs what each value on  *)
(* the stack may refer to, where the arguments of each frame lie, and that *)
(* a scope with a local variable has a record that names the register.     *)
(* With a single register per frame, that record is what makes LEAVE clear *)
(* the register.  Two things that the instructions do not check have to be *)
(* granted: Balanced, without which LEAVE cuts off arguments that the next *)
(* call still reads, and Confined, without which a reference outlives its  *)
(* variable through a caller's register or through an older variable.      *)
(***************************************************************************)

MinorsIn(m, t) == {s \in 1 .. t : m[s].k = "minor"}

IsRegister(m, t, p) == \E o \in MajorsIn(m, t) : m[o].num_regs > 0 /\ m[o].regs = p

\* The cell at p may hold the value v: v refers to a variable in use, which
\* no frame that begins above p holds, and which is not above p unless p is a
\* register.
ValueOK(m, t, p, v) ==
  /\ v.ref => v.at \in 1 .. t /\ m[v.at].k = "variable"
  /\ \A q \in MajorsIn(m, t) : p < q => v.at < q
  /\ v.at <= p \/ IsRegister(m, t, p)

ValuesOK(m, t) ==
  \A p \in 1 .. t : m[p].k \in {"value", "variable"} => ValueOK(m, t, p, m[p].v)

\* The arguments of the frame at o, and those that it is about to pass, lie
\* below t, below every later frame and, the former, below every scope that
\* the function has entered.
FrameArgsOK(m, t, o) ==
  /\ m[o].prev_top = o - 1
  /\ m[o].num_args > 0 =>
       /\ m[o].args <= t
       /\ \A q \in MajorsIn(m, t) : o < q => m[o].args < q
       /\ \A s \in MinorsIn(m, t) : o < s /\ m[s].last # 0 => m[o].args < s
  /\ m[o].num_next_args > 0 =>
       /\ m[o].next_args <= t
       /\ \A q \in MajorsIn(m, t) : o < q => m[o].next_args < q

ArgsOK(m, t) == \A o \in MajorsIn(m, t) : FrameArgsOK(m, t, o)

\* Leaving the scope at s cuts exactly the scope off, and the newest record of
\* the scope names the register, and is older than what has been pushed since.
ScopeRecordsOK(m, t, s) ==
  /\ m[s].last # 0 => m[s].base = s - 1 /\ \A x \in MinorsIn(m, t) : x < s => x <= m[s].last
  /\ m[s].records # 0 =>
       /\ m[s].records \in s + 1 .. t
       /\ m[m[s].records].k = "record" /\ m[m[s].records].reg = 0
       /\ \A x \in MinorsIn(m, t) \cup MajorsIn(m, t) : s < x => m[s].records < x

\* Every scope after the innermost one of the frame at o is a later frame's.
InnermostOK(m, t, o) ==
  \A x \in MinorsIn(m, t) : m[o].minor < x => \E q \in MajorsIn(m, t) : o < q /\ q < x

\* The scope that was the innermost one when p was pushed has a record.
Recorded(m, t, p) ==
  \E s \in MinorsIn(m, t) : /\ s < p /\ m[s].records # 0
                            /\ \A x \in MinorsIn(m, t) : x < p => x <= s

ScopesOK(m, t) ==
  /\ \A s \in MinorsIn(m, t) : ScopeRecordsOK(m, t, s)
  /\ \A o \in MajorsIn(m, t) : InnermostOK(m, t, o)
  /\ \A p \in 1 .. t : m[p].k = "variable" => Recorded(m, t, p)

RefsOK(m, t) == ValuesOK(m, t) /\ ArgsOK(m, t) /\ ScopesOK(m, t)

\* A cell with a value is given another one.
LEMMA SetValue ==
  ASSUME NEW m, NEW n, NEW t \in Nat, NEW p \in 1 .. t, RefsOK(m, t),
         m[p].k \in {"value", "variable"}, n[p].k = m[p].k,
         \A o \in 1 .. t : o # p => n[o] = m[o],
         ValueOK(m, t, p, n[p].v)
  PROVE  RefsOK(n, t)
<1>1. \A o \in 1 .. t : n[o].k = m[o].k
  OBVIOUS
<1>2. MajorsIn(n, t) = MajorsIn(m, t) /\ MinorsIn(n, t) = MinorsIn(m, t)
  BY <1>1 DEF MajorsIn, MinorsIn
<1>3. /\ \A o \in MajorsIn(m, t) : n[o] = m[o] /\ o \in 1 .. t
      /\ \A o \in MinorsIn(m, t) : n[o] = m[o] /\ o \in 1 .. t
  BY DEF MajorsIn, MinorsIn
<1>4. \A o : IsRegister(n, t, o) <=> IsRegister(m, t, o)
  BY <1>2, <1>3 DEF IsRegister
<1>5. \A o, v : ValueOK(m, t, o, v) => ValueOK(n, t, o, v)
  BY <1>1, <1>2, <1>4 DEF ValueOK
<1>6. ValuesOK(n, t)
  BY <1>1, <1>5 DEF ValuesOK, RefsOK
<1>7. ArgsOK(n, t)
  BY <1>2, <1>3 DEF ArgsOK, FrameArgsOK, RefsOK
<1>8. ASSUME NEW s \in MinorsIn(n, t) PROVE ScopeRecordsOK(n, t, s)
  <2>1. ScopeRecordsOK(m, t, s) /\ n[s] = m[s] /\ s \in 1 .. t
    BY <1>2, <1>3 DEF RefsOK, ScopesOK
  <2>2. m[s].records \in s + 1 .. t /\ m[m[s].records].k = "record" => n[m[s].records] = m[m[s].records]
    BY <2>1
  <2> QED BY <2>1, <2>2, <1>2 DEF ScopeRecordsOK
<1>9. ASSUME NEW o \in MajorsIn(n, t) PROVE InnermostOK(n, t, o)
  BY <1>2, <1>3 DEF RefsOK, ScopesOK, InnermostOK
<1>10. ASSUME NEW o \in 1 .. t, n[o].k = "variable" PROVE Recorded(n, t, o)
  BY <1>1, <1>2, <1>3, <1>10 DEF RefsOK, ScopesOK, Recorded
<1> QED BY <1>6, <1>7, <1>8, <1>9, <1>10 DEF RefsOK, ScopesOK

\* A frame is popped: nothing that stays refers to what it had, except that
\* the caller's register may hold what the function returned.
LEMMA PopFrameRefs ==
  ASSUME NEW m, NEW n, NEW t, NEW c, NEW d, NEW p,
         Layout(m, t, c, d), RefsOK(m, t), Popped(m, n, t, c, p), SameArgs(n[p], m[p])
  PROVE  RefsOK(n, m[c].prev_top)
<1> DEFINE M == MajorsIn(m, t)
           S == MinorsIn(m, t)
           u == m[c].prev_top
<1>1. /\ t \in Nat /\ c \in M /\ c \in Nat /\ p \in M /\ p # 0 /\ c \in 1 .. t
      /\ \A o \in M : o \in Nat /\ o <= c /\ m[o].k = "major" /\ o \in 1 .. t
  <2>1. c \in M
    BY DEF Layout, Popped
  <2>2. p \in M /\ p # 0
    BY <2>1 DEF Layout, Popped, FrameOK
  <2> QED BY <2>1, <2>2, LayoutTyped DEF Layout
<1>2. u = c - 1 /\ u \in Nat /\ u < t /\ 1 .. u \subseteq 1 .. t
  <2>1. u = c - 1
    BY <1>1 DEF RefsOK, ArgsOK, FrameArgsOK
  <2> QED BY <2>1, <1>1
<1>3. \A o \in 1 .. u : n[o].k = m[o].k /\ (m[o].k # "major" => n[o] = m[o])
  BY <1>1, <1>2 DEF Popped, ButNext
<1>4. \A o \in M : /\ n[o].minor = m[o].minor /\ n[o].num_regs = m[o].num_regs
                   /\ n[o].regs = m[o].regs /\ n[o].prev_top = m[o].prev_top
                   /\ SameArgs(n[o], m[o])
  BY <1>1 DEF Popped, ButNext, SameArgs
<1>5. MajorsIn(n, u) = M \ {c}
  <2>1. MajorsIn(n, u) = {o \in 1 .. u : m[o].k = "major"}
    BY <1>3 DEF MajorsIn
  <2> QED BY <2>1, <1>1, <1>2 DEF MajorsIn
<1>6. MinorsIn(n, u) = {s \in S : s < c}
  <2>1. MinorsIn(n, u) = {o \in 1 .. u : m[o].k = "minor"}
    BY <1>3 DEF MinorsIn
  <2> QED BY <2>1, <1>1, <1>2 DEF MinorsIn
<1>7. \A o \in M \ {c} : m[o].num_regs > 0 => m[o].regs < c
  <2> SUFFICES ASSUME NEW o \in M \ {c}, m[o].num_regs > 0 PROVE m[o].regs < c
    OBVIOUS
  <2>1. Apart(m, o, c) /\ FrameOK(m, t, o)
    BY <1>1 DEF Layout
  <2> QED BY <2>1, <1>1, <1>2 DEF Apart, FrameOK
<1>8. m[c].num_regs > 0 => m[c].regs > c
  BY <1>1 DEF Layout, FrameOK
<1>9. ASSUME NEW o \in 1 .. u, n[o].k \in {"value", "variable"} PROVE ValueOK(n, u, o, n[o].v)
  <2>1. n[o] = m[o] /\ ValueOK(m, t, o, m[o].v) /\ o < c /\ o \in 1 .. t
    BY <1>2, <1>3, <1>9, <1>1 DEF RefsOK, ValuesOK
  <2>2. m[o].v.at < c
    BY <2>1, <1>1 DEF ValueOK
  <2>3. m[o].v.ref => m[o].v.at \in 1 .. u /\ n[m[o].v.at].k = "variable"
    BY <2>1, <2>2, <1>1, <1>2, <1>3 DEF ValueOK
  <2>4. IsRegister(m, t, o) => IsRegister(n, u, o)
    BY <2>1, <1>1, <1>4, <1>5, <1>8 DEF IsRegister
  <2> QED BY <2>1, <2>3, <2>4, <1>5 DEF ValueOK
<1>10. ASSUME NEW o \in M \ {c} PROVE FrameArgsOK(n, u, o)
  <2>1. FrameArgsOK(m, t, o)
    BY DEF RefsOK, ArgsOK
  <2>0. o < c /\ o \in Nat
    <3>1. o \in Nat /\ o <= c /\ o # c /\ c \in Nat
      BY <1>1
    <3> QED BY <3>1
  <2>2. /\ m[o].num_args > 0 => m[o].args < c
        /\ m[o].num_next_args > 0 => m[o].next_args < c
    BY <2>1, <2>0, <1>1 DEF FrameArgsOK
  <2>a. m[o].args \in Nat /\ m[o].next_args \in Nat
    BY <1>1, LayoutTyped, MajorTyped, ContextStackAssumption DEF Maybe, Offsets
  <2>3. \A s \in MinorsIn(n, u) : n[s] = m[s] /\ s \in S
    BY <1>3, <1>6 DEF MinorsIn
  <2>4. /\ n[o].args = m[o].args /\ n[o].num_args = m[o].num_args /\ n[o].prev_top = m[o].prev_top
        /\ n[o].next_args = m[o].next_args /\ n[o].num_next_args = m[o].num_next_args
    BY <1>4 DEF SameArgs
  <2>5. /\ m[o].num_args > 0 => m[o].args <= u
        /\ m[o].num_next_args > 0 => m[o].next_args <= u
    BY <2>2, <2>a, <1>1, <1>2
  <2> QED BY <2>1, <2>5, <2>3, <2>4, <1>1, <1>2, <1>5 DEF FrameArgsOK
<1>11. ASSUME NEW s \in MinorsIn(n, u) PROVE ScopeRecordsOK(n, u, s)
  <2>1. ScopeRecordsOK(m, t, s) /\ n[s] = m[s] /\ s < c /\ s \in Nat
    BY <1>1, <1>3, <1>6 DEF RefsOK, ScopesOK, MinorsIn
  <2>2. m[s].records # 0 => m[s].records \in s + 1 .. u /\ n[m[s].records] = m[m[s].records]
    BY <2>1, <1>1, <1>2, <1>3 DEF ScopeRecordsOK
  <2> QED BY <2>1, <2>2, <1>5, <1>6 DEF ScopeRecordsOK
<1>12. ASSUME NEW o \in M \ {c} PROVE InnermostOK(n, u, o)
  <2>1. InnermostOK(m, t, o) /\ n[o].minor = m[o].minor
    BY <1>4 DEF RefsOK, ScopesOK
  <2> QED BY <2>1, <1>1, <1>5, <1>6 DEF InnermostOK, MinorsIn
<1>13. ASSUME NEW o \in 1 .. u, n[o].k = "variable" PROVE Recorded(n, u, o)
  <2>1. Recorded(m, t, o) /\ o < c /\ o \in Nat
    BY <1>1, <1>2, <1>3, <1>13 DEF RefsOK, ScopesOK
  <2>2. PICK s \in S : s < o /\ m[s].records # 0 /\ \A x \in S : x < o => x <= s
    BY <2>1 DEF Recorded
  <2>3. s \in MinorsIn(n, u) /\ n[s] = m[s]
    BY <2>1, <2>2, <1>1, <1>3, <1>6 DEF MinorsIn
  <2> QED BY <2>2, <2>3, <1>6 DEF Recorded
<1> QED BY <1>5, <1>9, <1>10, <1>11, <1>12, <1>13 DEF RefsOK, ValuesOK, ArgsOK, ScopesOK

\* A scope is left, when no arguments are pending and the register has been
\* cleared of references to its variables.
LEMMA PopScopeRefs ==
  ASSUME NEW m, NEW n, NEW t, NEW c, NEW d, NEW s,
         Layout(m, t, c, d), RefsOK(m, t), Exited(m, n, t, c, s), SameArgs(n[c], m[c]),
         m[c].num_next_args = 0,
         m[c].num_regs > 0 => m[m[c].regs].v.at < s
  PROVE  RefsOK(n, m[s].base)
<1> DEFINE M == MajorsIn(m, t)
           S == MinorsIn(m, t)
           u == m[s].base
<1>1. /\ t \in Nat /\ c \in M /\ c \in Nat /\ c \in 1 .. t /\ s \in S /\ s \in Nat /\ c < s
      /\ s = m[c].minor /\ m[s].last # 0 /\ s \in 1 .. t
      /\ \A o \in M : o \in Nat /\ o <= c /\ m[o].k = "major" /\ o \in 1 .. t
  <2>1. c \in M
    BY DEF Layout, Exited
  <2>2. s = m[c].minor /\ m[s].last # 0 /\ s \in c + 1 .. t /\ m[s].k = "minor"
    BY <2>1 DEF Layout, Exited, FrameOK
  <2>3. t \in Nat /\ \A o \in M : o \in Nat /\ o <= c /\ m[o].k = "major" /\ o \in 1 .. t
    BY LayoutTyped DEF Layout
  <2> QED BY <2>1, <2>2, <2>3 DEF MinorsIn
<1>2. ScopeRecordsOK(m, t, s) /\ u = s - 1 /\ u \in Nat /\ u < t /\ 1 .. u \subseteq 1 .. t /\ c <= u
  <2>1. ScopeRecordsOK(m, t, s)
    BY <1>1 DEF RefsOK, ScopesOK
  <2> QED BY <2>1, <1>1 DEF ScopeRecordsOK
<1>3. \A o \in 1 .. t : n[o].k = m[o].k /\ (m[o].k # "major" => n[o] = m[o])
  BY <1>1 DEF Exited, ButScope
<1>4. \A o \in M : /\ n[o].num_regs = m[o].num_regs /\ n[o].regs = m[o].regs
                   /\ n[o].prev_top = m[o].prev_top /\ SameArgs(n[o], m[o])
                   /\ (o # c => n[o].minor = m[o].minor)
  BY <1>1 DEF Exited, ButScope, SameArgs
<1>5. MajorsIn(n, u) = M
  <2>1. MajorsIn(n, u) = {o \in 1 .. u : m[o].k = "major"}
    BY <1>2, <1>3 DEF MajorsIn
  <2> QED BY <2>1, <1>1, <1>2 DEF MajorsIn
<1>6. MinorsIn(n, u) = {x \in S : x < s}
  <2>1. MinorsIn(n, u) = {o \in 1 .. u : m[o].k = "minor"}
    BY <1>2, <1>3 DEF MinorsIn
  <2> QED BY <2>1, <1>1, <1>2 DEF MinorsIn
<1>8. ASSUME NEW o \in 1 .. u, n[o].k \in {"value", "variable"} PROVE ValueOK(n, u, o, n[o].v)
  <2>1. n[o] = m[o] /\ ValueOK(m, t, o, m[o].v) /\ o < s /\ o \in 1 .. t /\ o \in Nat
    BY <1>2, <1>3, <1>8, <1>1 DEF RefsOK, ValuesOK
  <2>2. m[o].v.ref => m[o].v.at < s
    <3>1. CASE IsRegister(m, t, o)
      <4>1. PICK f \in M : m[f].num_regs > 0 /\ m[f].regs = o
        BY <3>1 DEF IsRegister
      <4>2. CASE f = c
        BY <4>1, <4>2
      <4>3. CASE f # c
        <5>1. f < c /\ Apart(m, f, c)
          <6>1. f \in Nat /\ f <= c
            BY <1>1
          <6>2. f < c
            BY <6>1, <4>3, <1>1
          <6> QED BY <6>2, <1>1 DEF Layout
        <5>2. o < c
          <6>1. m[f].regs <= m[c].prev_top /\ m[c].prev_top < c
            BY <5>1, <4>1, <1>1 DEF Apart, Layout, FrameOK
          <6>2. m[c].prev_top = c - 1
            BY <1>1 DEF RefsOK, ArgsOK, FrameArgsOK
          <6> QED BY <6>1, <6>2, <4>1, <1>1, <2>1
        <5>3. m[o].v.at < c
          BY <2>1, <5>2, <1>1 DEF ValueOK
        <5>4. m[o].v.ref => m[o].v.at \in Nat
          BY <2>1, <1>1 DEF ValueOK
        <5> QED BY <5>3, <5>4, <1>1
      <4> QED BY <4>2, <4>3
    <3>2. CASE ~IsRegister(m, t, o)
      <4>1. m[o].v.ref => m[o].v.at \in Nat /\ m[o].v.at <= o
        BY <2>1, <3>2, <1>1 DEF ValueOK
      <4> QED BY <4>1, <2>1, <1>1
    <3> QED BY <3>1, <3>2
  <2>3. m[o].v.ref => m[o].v.at \in 1 .. u /\ n[m[o].v.at].k = "variable"
    BY <2>1, <2>2, <1>1, <1>2, <1>3 DEF ValueOK
  <2>4. IsRegister(m, t, o) => IsRegister(n, u, o)
    BY <1>4, <1>5 DEF IsRegister
  <2> QED BY <2>1, <2>3, <2>4, <1>5 DEF ValueOK
<1>9. ASSUME NEW o \in M PROVE FrameArgsOK(n, u, o)
  <2>1. FrameArgsOK(m, t, o)
    BY DEF RefsOK, ArgsOK
  <2>2. m[o].args \in Nat /\ m[o].next_args \in Nat /\ o \in Nat /\ o <= c /\ m[o].num_next_args \in Nat
    BY <1>1, LayoutTyped, MajorTyped, ContextStackAssumption DEF Maybe, Offsets
  <2>3. m[o].num_args > 0 => m[o].args <= u
    BY <2>1, <2>2, <1>1, <1>2 DEF FrameArgsOK
  <2>4. m[o].num_next_args > 0 => m[o].next_args <= u
    <3>1. m[o].num_next_args > 0 => o < c
      BY <2>2, <1>1
    <3>2. m[o].num_next_args > 0 => m[o].next_args < c
      BY <3>1, <2>1, <1>1 DEF FrameArgsOK
    <3> QED BY <3>2, <2>2, <1>1, <1>2
  <2>5. \A x \in MinorsIn(n, u) : n[x] = m[x] /\ x \in S
    BY <1>1, <1>2, <1>3, <1>6 DEF MinorsIn
  <2>6. /\ n[o].args = m[o].args /\ n[o].num_args = m[o].num_args /\ n[o].prev_top = m[o].prev_top
        /\ n[o].next_args = m[o].next_args /\ n[o].num_next_args = m[o].num_next_args
    BY <1>4 DEF SameArgs
  <2> QED BY <2>1, <2>3, <2>4, <2>5, <2>6, <1>5 DEF FrameArgsOK
<1>10. ASSUME NEW x \in MinorsIn(n, u) PROVE ScopeRecordsOK(n, u, x)
  <2>1. ScopeRecordsOK(m, t, x) /\ n[x] = m[x] /\ x < s /\ x \in Nat /\ x \in S
    BY <1>1, <1>2, <1>3, <1>6 DEF RefsOK, ScopesOK, MinorsIn
  <2>2. m[x].records # 0 => m[x].records \in x + 1 .. u /\ n[m[x].records] = m[m[x].records]
    BY <2>1, <1>1, <1>2, <1>3 DEF ScopeRecordsOK
  <2> QED BY <2>1, <2>2, <1>5, <1>6 DEF ScopeRecordsOK
<1>11. ASSUME NEW o \in M PROVE InnermostOK(n, u, o)
  <2>1. InnermostOK(m, t, o) /\ o \in Nat /\ o <= c
    BY <1>1 DEF RefsOK, ScopesOK
  <2>2. CASE o = c
    <3>1. n[c].minor = m[s].last
      BY <1>1 DEF Exited
    <3>2. \A x \in S : x < s => x <= m[s].last
      BY <1>1, <1>2 DEF ScopeRecordsOK
    <3>3. \A x \in MinorsIn(n, u) : ~(n[c].minor < x)
      <4>1. m[s].last \in Nat
        BY <1>1, LayoutTyped, MinorTyped, ContextStackAssumption DEF Maybe, Offsets, MinorsIn
      <4> QED BY <3>1, <3>2, <4>1, <1>1, <1>6 DEF MinorsIn
    <3> QED BY <2>2, <3>3 DEF InnermostOK
  <2>3. CASE o # c
    BY <2>1, <2>3, <1>4, <1>5, <1>6 DEF InnermostOK
  <2> QED BY <2>2, <2>3
<1>12. ASSUME NEW o \in 1 .. u, n[o].k = "variable" PROVE Recorded(n, u, o)
  <2>1. Recorded(m, t, o) /\ o < s /\ o \in Nat
    BY <1>1, <1>2, <1>3, <1>12 DEF RefsOK, ScopesOK
  <2>2. PICK x \in S : x < o /\ m[x].records # 0 /\ \A y \in S : y < o => y <= x
    BY <2>1 DEF Recorded
  <2>3. x \in MinorsIn(n, u) /\ n[x] = m[x]
    BY <2>1, <2>2, <1>1, <1>3, <1>6 DEF MinorsIn
  <2> QED BY <2>2, <2>3, <1>6 DEF Recorded
<1> QED BY <1>5, <1>8, <1>9, <1>10, <1>11, <1>12 DEF RefsOK, ValuesOK, ArgsOK, ScopesOK

\* A scope is entered: it has no records, and no variables.
LEMMA PushScopeRefs ==
  ASSUME NEW m, NEW n, NEW t, NEW u, NEW c, NEW d,
         Layout(m, t, c, d), RefsOK(m, t), Entered(m, n, t, u, c), SameArgs(n[c], m[c]),
         n[u].records = 0
  PROVE  RefsOK(n, u)
<1> DEFINE M == MajorsIn(m, t)
           S == MinorsIn(m, t)
<1>1. /\ t \in Nat /\ c \in M /\ c \in Nat /\ c \in 1 .. t
      /\ u = t + 1 /\ u \in Nat /\ 1 .. u = 1 .. t \cup {u} /\ u \notin 1 .. t
      /\ \A o \in M : o \in Nat /\ o <= c /\ o < u /\ m[o].k = "major" /\ o \in 1 .. t
      /\ \A x \in S : x \in Nat /\ x < u /\ m[x].k = "minor" /\ x \in 1 .. t
  <2>1. c \in M /\ u = t + 1
    BY DEF Layout, Entered
  <2>3. t \in Nat /\ \A o \in M : o \in Nat /\ o <= c /\ m[o].k = "major" /\ o \in 1 .. t
    BY LayoutTyped DEF Layout
  <2> QED BY <2>1, <2>3 DEF MinorsIn
<1>2. n[u].k = "minor" /\ n[u].last = m[c].minor /\ n[u].base = t
  BY DEF Entered
<1>3. \A o \in 1 .. t : n[o].k = m[o].k /\ (m[o].k # "major" => n[o] = m[o])
  BY <1>1 DEF Entered, ButScope
<1>4. \A o \in M : /\ n[o].num_regs = m[o].num_regs /\ n[o].regs = m[o].regs
                   /\ n[o].prev_top = m[o].prev_top /\ SameArgs(n[o], m[o])
                   /\ (o # c => n[o].minor = m[o].minor)
  BY <1>1 DEF Entered, ButScope, SameArgs
<1>5. MajorsIn(n, u) = M
  BY <1>1, <1>2, <1>3 DEF MajorsIn
<1>6. MinorsIn(n, u) = S \cup {u}
  BY <1>1, <1>2, <1>3 DEF MinorsIn
<1>7. ASSUME NEW o \in 1 .. u, n[o].k \in {"value", "variable"} PROVE ValueOK(n, u, o, n[o].v)
  <2>1. o \in 1 .. t /\ n[o] = m[o] /\ ValueOK(m, t, o, m[o].v)
    BY <1>1, <1>2, <1>3, <1>7 DEF RefsOK, ValuesOK
  <2>2. IsRegister(m, t, o) => IsRegister(n, u, o)
    BY <1>4, <1>5 DEF IsRegister
  <2> QED BY <2>1, <2>2, <1>1, <1>3, <1>5 DEF ValueOK
<1>8. ASSUME NEW o \in M PROVE FrameArgsOK(n, u, o)
  <2>1. FrameArgsOK(m, t, o)
    BY DEF RefsOK, ArgsOK
  <2>2. m[o].args \in Nat /\ m[o].next_args \in Nat
    BY <1>1, LayoutTyped, MajorTyped, ContextStackAssumption DEF Maybe, Offsets
  <2>3. /\ n[o].args = m[o].args /\ n[o].num_args = m[o].num_args /\ n[o].prev_top = m[o].prev_top
        /\ n[o].next_args = m[o].next_args /\ n[o].num_next_args = m[o].num_next_args
    BY <1>4 DEF SameArgs
  <2>4. m[o].num_args > 0 => m[o].args <= t /\ m[o].args < u
    BY <2>1, <2>2, <1>1 DEF FrameArgsOK
  <2>5. \A x \in S : n[x] = m[x]
    BY <1>1, <1>3
  <2>6. m[o].num_next_args > 0 => m[o].next_args <= u
    BY <2>1, <2>2, <1>1 DEF FrameArgsOK
  <2> QED BY <2>1, <2>2, <2>3, <2>4, <2>5, <2>6, <1>1, <1>5, <1>6 DEF FrameArgsOK
<1>9. InnermostOK(m, t, c) /\ \A x \in S : x <= m[c].minor
  <2>1. InnermostOK(m, t, c)
    BY <1>1 DEF RefsOK, ScopesOK
  <2>2. \A x \in S : ~(m[c].minor < x)
    BY <2>1, <1>1 DEF InnermostOK
  <2>3. m[c].minor \in Nat
    BY <1>1, LayoutTyped, MajorTyped, ContextStackAssumption DEF Maybe, Offsets
  <2> QED BY <2>1, <2>2, <2>3, <1>1
<1>10. ASSUME NEW x \in MinorsIn(n, u) PROVE ScopeRecordsOK(n, u, x)
  <2>1. CASE x = u
    BY <2>1, <1>1, <1>2, <1>6, <1>9 DEF ScopeRecordsOK
  <2>2. CASE x # u
    <3>1. x \in S /\ ScopeRecordsOK(m, t, x) /\ n[x] = m[x] /\ x < u /\ x \in Nat
      BY <2>2, <1>1, <1>3, <1>6 DEF RefsOK, ScopesOK
    <3>2. m[x].records # 0 => m[x].records \in x + 1 .. t /\ n[m[x].records] = m[m[x].records]
      BY <3>1, <1>1, <1>3 DEF ScopeRecordsOK
    <3> QED BY <3>1, <3>2, <1>1, <1>5, <1>6 DEF ScopeRecordsOK
  <2> QED BY <2>1, <2>2
<1>11. ASSUME NEW o \in M PROVE InnermostOK(n, u, o)
  <2>1. CASE o = c
    <3>1. n[c].minor = u
      BY DEF Entered
    <3> QED BY <2>1, <3>1, <1>1, <1>6 DEF InnermostOK
  <2>2. CASE o # c
    <3>1. InnermostOK(m, t, o) /\ n[o].minor = m[o].minor /\ o \in Nat /\ o <= c
      BY <2>2, <1>1, <1>4 DEF RefsOK, ScopesOK
    <3>2. o < c /\ c < u
      BY <3>1, <2>2, <1>1
    <3> QED BY <3>1, <3>2, <1>1, <1>5, <1>6 DEF InnermostOK
  <2> QED BY <2>1, <2>2
<1>12. ASSUME NEW o \in 1 .. u, n[o].k = "variable" PROVE Recorded(n, u, o)
  <2>1. Recorded(m, t, o) /\ o < u /\ o \in Nat /\ o \in 1 .. t
    BY <1>1, <1>2, <1>3, <1>12 DEF RefsOK, ScopesOK
  <2>2. PICK x \in S : x < o /\ m[x].records # 0 /\ \A y \in S : y < o => y <= x
    BY <2>1 DEF Recorded
  <2>3. x \in MinorsIn(n, u) /\ n[x] = m[x]
    BY <2>1, <2>2, <1>1, <1>3, <1>6
  <2> QED BY <2>1, <2>2, <2>3, <1>1, <1>6 DEF Recorded
<1> QED BY <1>5, <1>7, <1>8, <1>10, <1>11, <1>12 DEF RefsOK, ValuesOK, ArgsOK, ScopesOK

\* A frame is pushed: its registers are empty, its arguments are in use, and
\* the frame below keeps no other pending arguments than it had.
LEMMA PushFrameRefs ==
  ASSUME NEW m, NEW n \in Memories, NEW t, NEW u \in Maybe, NEW c, NEW d, NEW f,
         Layout(m, t, c, d), RefsOK(m, t), Pushed(m, n, t, u, c, f),
         c # 0 => SameReceived(n[c], m[c]) /\ (n[c].num_next_args > 0 => SameArgs(n[c], m[c])),
         n[f].num_args > 0 => n[f].args <= u,
         n[f].num_next_args = 0, n[t + 2].records = 0,
         \A o \in t + 3 .. u : n[o].v = Plain(Invalid)
  PROVE  RefsOK(n, u)
<1> USE ContextStackAssumption
<1> DEFINE M == MajorsIn(m, t)
           S == MinorsIn(m, t)
<1>1. /\ t \in Nat /\ u \in Nat /\ t + 2 <= u /\ f = t + 1 /\ f \in Nat /\ f \notin 1 .. t
      /\ 1 .. u = 1 .. t \cup {f, f + 1} \cup (t + 3 .. u) /\ f + 1 \notin 1 .. t /\ f + 1 = t + 2
      /\ (t + 3 .. u) \cap 1 .. t = {} /\ 1 .. t \subseteq 1 .. u
      /\ \A o \in M : o \in Nat /\ o <= c /\ o < f /\ m[o].k = "major" /\ o \in 1 .. t
      /\ \A x \in S : x \in Nat /\ x < f /\ m[x].k = "minor" /\ x \in 1 .. t
  <2>1. f = t + 1 /\ t + 2 <= u
    BY DEF Pushed
  <2>2. t \in Nat /\ \A o \in M : o \in Nat /\ o <= c /\ m[o].k = "major" /\ o \in 1 .. t
    BY LayoutTyped DEF Layout
  <2>3. u \in Nat
    BY DEF Maybe
  <2> QED BY <2>1, <2>2, <2>3 DEF MinorsIn
<1>2. c # 0 => c \in M /\ c \in 1 .. t
  BY <1>1 DEF Layout
<1>3. \A o \in 1 .. t : n[o].k = m[o].k /\ (m[o].k # "major" => n[o] = m[o])
  BY <1>1, <1>2 DEF Pushed, ButNext
<1>4. \A o \in M : /\ n[o].num_regs = m[o].num_regs /\ n[o].regs = m[o].regs
                   /\ n[o].prev_top = m[o].prev_top /\ n[o].minor = m[o].minor
                   /\ SameReceived(n[o], m[o])
                   /\ (n[o].num_next_args > 0 => SameArgs(n[o], m[o]))
  <2> TAKE o \in M
  <2>1. CASE o = c
    BY <2>1, <1>1, <1>2 DEF Pushed, ButNext
  <2>2. CASE o # c
    BY <2>2, <1>1 DEF Pushed, SameReceived, SameArgs
  <2> QED BY <2>1, <2>2
<1>5. /\ n[f].k = "major" /\ n[f].minor = f + 1 /\ n[f].prev_top = f - 1
      /\ n[f + 1].k = "minor" /\ n[f + 1].last = 0
      /\ \A o \in t + 3 .. u : n[o].k = "value"
  BY <1>1 DEF Pushed
<1>6. MajorsIn(n, u) = M \cup {f}
  BY <1>1, <1>3, <1>5 DEF MajorsIn
<1>7. MinorsIn(n, u) = S \cup {f + 1}
  BY <1>1, <1>3, <1>5 DEF MinorsIn
<1>8. ASSUME NEW o \in 1 .. u, n[o].k \in {"value", "variable"} PROVE ValueOK(n, u, o, n[o].v)
  <2>1. CASE o \in 1 .. t
    <3>1. n[o] = m[o] /\ ValueOK(m, t, o, m[o].v)
      BY <2>1, <1>3, <1>8 DEF RefsOK, ValuesOK
    <3>2. IsRegister(m, t, o) => IsRegister(n, u, o)
      BY <1>4, <1>6 DEF IsRegister
    <3>3. m[o].v.at < f
      <4>1. n[o] \in Cell
        BY <1>1, <2>1, LayoutTyped DEF Memories
      <4>2. n[o].v \in Value
        BY <4>1, <1>8 DEF Cell, MajorFrame, MinorFrame, AllocaRecord, ValueCell, Variable
      <4>3. ~n[o].v.ref => n[o].v.at = 0
        BY <4>2 DEF Value, Plain, Ref
      <4> QED BY <3>1, <4>3, <1>1 DEF ValueOK
    <3> QED BY <3>1, <3>2, <3>3, <1>1, <1>3, <1>6 DEF ValueOK
  <2>2. CASE o \in t + 3 .. u
    <3>1. ~n[o].v.ref /\ n[o].v.at = 0 /\ 0 <= o
      BY <2>2, <1>1 DEF Plain
    <3>2. \A q \in MajorsIn(n, u) : ~(o < q)
      BY <2>2, <1>1, <1>6
    <3> QED BY <3>1, <3>2 DEF ValueOK
  <2> QED BY <2>1, <2>2, <1>1, <1>5, <1>8
<1>9. ASSUME NEW o \in MajorsIn(n, u) PROVE FrameArgsOK(n, u, o)
  <2>1. CASE o = f
    <3>1. \A q \in MajorsIn(n, u) : ~(f < q)
      BY <1>1, <1>6
    <3>2. \A x \in MinorsIn(n, u) : f < x => n[x].last = 0
      BY <1>1, <1>5, <1>7
    <3> QED BY <2>1, <3>1, <3>2, <1>5 DEF FrameArgsOK
  <2>2. CASE o # f
    <3>1. o \in M /\ FrameArgsOK(m, t, o)
      BY <2>2, <1>6 DEF RefsOK, ArgsOK
    <3>2. m[o].args \in Nat /\ m[o].next_args \in Nat
      BY <3>1, <1>1, LayoutTyped, MajorTyped DEF Maybe, Offsets
    <3>3. /\ n[o].args = m[o].args /\ n[o].num_args = m[o].num_args /\ n[o].prev_top = m[o].prev_top
          /\ n[o].num_next_args > 0 => n[o].next_args = m[o].next_args
                                         /\ n[o].num_next_args = m[o].num_next_args
      BY <3>1, <1>4 DEF SameArgs, SameReceived
    <3>4. /\ m[o].num_args > 0 => m[o].args <= t /\ m[o].args < f /\ m[o].args <= u
          /\ m[o].num_next_args > 0 => m[o].next_args <= u /\ m[o].next_args < f
      BY <3>1, <3>2, <1>1 DEF FrameArgsOK
    <3>5. \A x \in S : n[x] = m[x]
      BY <1>1, <1>3
    <3>6. n[f + 1].last = 0
      BY <1>5
    <3> QED BY <3>1, <3>3, <3>4, <3>5, <3>6, <1>6, <1>7 DEF FrameArgsOK
  <2> QED BY <2>1, <2>2
<1>10. ASSUME NEW x \in MinorsIn(n, u) PROVE ScopeRecordsOK(n, u, x)
  <2>1. CASE x = f + 1
    BY <2>1, <1>1, <1>5 DEF ScopeRecordsOK
  <2>2. CASE x # f + 1
    <3>1. x \in S /\ ScopeRecordsOK(m, t, x) /\ n[x] = m[x] /\ x < f /\ x \in Nat
      BY <2>2, <1>1, <1>3, <1>7 DEF RefsOK, ScopesOK
    <3>2. m[x].records # 0 => m[x].records \in x + 1 .. t /\ n[m[x].records] = m[m[x].records]
      BY <3>1, <1>1, <1>3 DEF ScopeRecordsOK
    <3>3. m[x].records # 0 => m[x].records < f /\ m[x].records < f + 1 /\ m[x].records \in x + 1 .. u
      BY <3>1, <3>2, <1>1
    <3> QED BY <3>1, <3>2, <3>3, <1>1, <1>6, <1>7 DEF ScopeRecordsOK
  <2> QED BY <2>1, <2>2
<1>11. ASSUME NEW o \in MajorsIn(n, u) PROVE InnermostOK(n, u, o)
  <2>1. CASE o = f
    BY <2>1, <1>1, <1>5, <1>7 DEF InnermostOK
  <2>2. CASE o # f
    <3>1. o \in M /\ InnermostOK(m, t, o) /\ n[o].minor = m[o].minor /\ o < f /\ f < f + 1
      BY <2>2, <1>1, <1>4, <1>6 DEF RefsOK, ScopesOK
    <3> QED BY <3>1, <1>6, <1>7 DEF InnermostOK
  <2> QED BY <2>1, <2>2
<1>12. ASSUME NEW o \in 1 .. u, n[o].k = "variable" PROVE Recorded(n, u, o)
  <2>1. o \in 1 .. t /\ Recorded(m, t, o) /\ o < f + 1 /\ o \in Nat
    BY <1>1, <1>3, <1>5, <1>12 DEF RefsOK, ScopesOK
  <2>2. PICK x \in S : x < o /\ m[x].records # 0 /\ \A y \in S : y < o => y <= x
    BY <2>1 DEF Recorded
  <2>3. x \in MinorsIn(n, u) /\ n[x] = m[x]
    BY <2>1, <2>2, <1>1, <1>3, <1>7
  <2>4. ~(f + 1 < o)
    BY <2>1, <1>1
  <2> QED BY <2>1, <2>2, <2>3, <2>4, <1>1, <1>7 DEF Recorded
<1> QED BY <1>8, <1>9, <1>10, <1>11, <1>12 DEF RefsOK, ValuesOK, ArgsOK, ScopesOK

\* A value is pushed, which may become an argument that the current frame is
\* about to pass.
LEMMA PushValueRefs ==
  ASSUME NEW m, NEW n, NEW t, NEW u, NEW c, NEW d,
         Layout(m, t, c, d), RefsOK(m, t), c # 0, u = t + 1,
         n[u].k = "value", n[u].v.at \in Nat, n[u].v.at <= t,
         n[u].v.ref => n[u].v.at # 0 /\ m[n[u].v.at].k = "variable",
         \A o \in 1 .. t : o # c => n[o] = m[o],
         ButNext(n[c], m[c]), SameReceived(n[c], m[c]),
         n[c].next_args = u \/ SameArgs(n[c], m[c])
  PROVE  RefsOK(n, u)
<1> DEFINE M == MajorsIn(m, t)
           S == MinorsIn(m, t)
<1>1. /\ t \in Nat /\ u \in Nat /\ 1 .. u = 1 .. t \cup {u} /\ u \notin 1 .. t
      /\ c \in M /\ c \in 1 .. t
      /\ \A o \in M : o \in Nat /\ o <= c /\ o < u /\ m[o].k = "major" /\ o \in 1 .. t
      /\ \A x \in S : x \in Nat /\ x < u /\ m[x].k = "minor" /\ x \in 1 .. t
  <2>1. c \in M
    BY DEF Layout
  <2>2. t \in Nat /\ \A o \in M : o \in Nat /\ o <= c /\ m[o].k = "major" /\ o \in 1 .. t
    BY LayoutTyped DEF Layout
  <2> QED BY <2>1, <2>2 DEF MinorsIn
<1>3. \A o \in 1 .. t : n[o].k = m[o].k /\ (m[o].k # "major" => n[o] = m[o])
  BY <1>1 DEF ButNext
<1>4. \A o \in M : /\ n[o].num_regs = m[o].num_regs /\ n[o].regs = m[o].regs
                   /\ n[o].prev_top = m[o].prev_top /\ n[o].minor = m[o].minor
                   /\ n[o].args = m[o].args /\ n[o].num_args = m[o].num_args
                   /\ (o # c => n[o] = m[o])
  BY <1>1 DEF ButNext, SameReceived
<1>6. MajorsIn(n, u) = M
  BY <1>1, <1>3 DEF MajorsIn
<1>7. MinorsIn(n, u) = S
  BY <1>1, <1>3 DEF MinorsIn
<1>8. ASSUME NEW o \in 1 .. u, n[o].k \in {"value", "variable"} PROVE ValueOK(n, u, o, n[o].v)
  <2>1. CASE o \in 1 .. t
    <3>1. n[o] = m[o] /\ ValueOK(m, t, o, m[o].v)
      BY <2>1, <1>3, <1>8 DEF RefsOK, ValuesOK
    <3>2. IsRegister(m, t, o) => IsRegister(n, u, o)
      BY <1>4, <1>6 DEF IsRegister
    <3> QED BY <3>1, <3>2, <1>1, <1>3, <1>6 DEF ValueOK
  <2>2. CASE o = u
    <3>1. n[u].v.ref => n[u].v.at \in 1 .. t /\ n[n[u].v.at].k = "variable"
      BY <1>1, <1>3
    <3>2. \A q \in M : ~(u < q)
      BY <1>1
    <3>3. n[u].v.at <= u
      BY <1>1
    <3> QED BY <2>2, <3>1, <3>2, <3>3, <1>1, <1>6 DEF ValueOK
  <2> QED BY <2>1, <2>2, <1>1
<1>9. ASSUME NEW o \in M PROVE FrameArgsOK(n, u, o)
  <2>1. FrameArgsOK(m, t, o)
    BY DEF RefsOK, ArgsOK
  <2>2. m[o].args \in Nat /\ m[o].next_args \in Nat
    BY <1>1, LayoutTyped, MajorTyped, ContextStackAssumption DEF Maybe, Offsets
  <2>3. m[o].num_args > 0 => m[o].args <= u
    BY <2>1, <2>2, <1>1 DEF FrameArgsOK
  <2>4. n[o].num_next_args > 0 => n[o].next_args <= u /\ \A q \in M : o < q => n[o].next_args < q
    <3>1. CASE o = c /\ n[c].next_args = u
      <4>1. \A q \in M : ~(o < q)
        BY <3>1, <1>1
      <4>2. n[o].next_args <= u
        BY <3>1, <1>1
      <4> QED BY <4>1, <4>2
    <3>2. CASE SameArgs(n[o], m[o])
      <4>1. n[o].num_next_args = m[o].num_next_args /\ n[o].next_args = m[o].next_args
        BY <3>2 DEF SameArgs
      <4>2. m[o].num_next_args > 0 => m[o].next_args <= t /\ \A q \in M : o < q => m[o].next_args < q
        BY <2>1 DEF FrameArgsOK
      <4>3. m[o].num_next_args > 0 => m[o].next_args <= u
        BY <4>2, <2>2, <1>1
      <4> QED BY <4>1, <4>2, <4>3
    <3>3. o # c => SameArgs(n[o], m[o])
      BY <1>1 DEF SameArgs
    <3> QED BY <3>1, <3>2, <3>3
  <2>5. \A x \in S : n[x] = m[x]
    BY <1>1, <1>3
  <2> QED BY <2>1, <2>3, <2>4, <2>5, <1>4, <1>6, <1>7 DEF FrameArgsOK
<1>10. ASSUME NEW x \in S PROVE ScopeRecordsOK(n, u, x)
  <2>1. ScopeRecordsOK(m, t, x) /\ n[x] = m[x] /\ x \in Nat
    BY <1>1, <1>3 DEF RefsOK, ScopesOK
  <2>2. m[x].records # 0 => m[x].records \in x + 1 .. t /\ n[m[x].records] = m[m[x].records]
    BY <2>1, <1>1, <1>3 DEF ScopeRecordsOK
  <2> QED BY <2>1, <2>2, <1>1, <1>6, <1>7 DEF ScopeRecordsOK
<1>11. ASSUME NEW o \in M PROVE InnermostOK(n, u, o)
  BY <1>4, <1>6, <1>7 DEF InnermostOK, RefsOK, ScopesOK
<1>12. ASSUME NEW o \in 1 .. u, n[o].k = "variable" PROVE Recorded(n, u, o)
  <2>1. o \in 1 .. t /\ Recorded(m, t, o)
    BY <1>1, <1>3, <1>12 DEF RefsOK, ScopesOK
  <2> QED BY <2>1, <1>1, <1>3, <1>7 DEF Recorded
<1> QED BY <1>6, <1>7, <1>8, <1>9, <1>10, <1>11, <1>12 DEF RefsOK, ValuesOK, ArgsOK, ScopesOK

\* A local variable is declared, with the record that names the register.
Declared(m, n, t, u, c, s, r) ==
  /\ c # 0 /\ u = t + 2 /\ s = m[c].minor
  /\ m[c].num_regs > 0 /\ r = m[c].regs
  /\ n[t + 1].k = "variable" /\ n[t + 1].v = Plain(Invalid)
  /\ n[t + 2].k = "record" /\ n[t + 2].reg = 0
  /\ n[s].k = "minor" /\ n[s].last = m[s].last /\ n[s].base = m[s].base /\ n[s].records = t + 2
  /\ n[r].k = "value" /\ n[r].v = Ref(t + 1)
  /\ \A o \in 1 .. t : o # s /\ o # r => n[o] = m[o]

\* LVAR announces the variable that it makes, in the innermost scope.
LEMMA DeclareRefs ==
  ASSUME NEW m, NEW n, NEW t, NEW u, NEW c, NEW d, NEW s, NEW r,
         Layout(m, t, c, d), RefsOK(m, t), Declared(m, n, t, u, c, s, r)
  PROVE  RefsOK(n, u)
<1> DEFINE M == MajorsIn(m, t)
           S == MinorsIn(m, t)
           p == t + 1
<1>1. /\ t \in Nat /\ u \in Nat /\ 1 .. u = 1 .. t \cup {p, u} /\ u \notin 1 .. t /\ p \notin 1 .. t
      /\ u = p + 1 /\ p = t + 1 /\ p \in Nat
      /\ c \in M /\ c \in 1 .. t
      /\ \A o \in M : o \in Nat /\ o <= c /\ o < p /\ m[o].k = "major" /\ o \in 1 .. t
      /\ \A x \in S : x \in Nat /\ x < p /\ m[x].k = "minor" /\ x \in 1 .. t
  <2>1. c \in M /\ u = t + 2
    BY DEF Layout, Declared
  <2>2. t \in Nat /\ \A o \in M : o \in Nat /\ o <= c /\ m[o].k = "major" /\ o \in 1 .. t
    BY LayoutTyped DEF Layout
  <2> QED BY <2>1, <2>2 DEF MinorsIn
<1>2. /\ s \in S /\ s \in c + 1 .. t /\ c < s /\ s \in Nat
      /\ r \in c + 1 .. t /\ c < r /\ r \in Nat /\ r \in 1 .. t /\ m[r].k = "value"
      /\ IsRegister(m, t, r) /\ s # r
  <2>1. FrameOK(m, t, c)
    BY <1>1 DEF Layout
  <2>2. s \in c + 1 .. t /\ m[s].k = "minor" /\ r \in c + 1 .. t /\ m[r].k = "value"
    BY <2>1 DEF FrameOK, Declared
  <2>3. IsRegister(m, t, r)
    BY <1>1 DEF IsRegister, Declared
  <2> QED BY <2>2, <2>3, <1>1 DEF MinorsIn
<1>3. \A o \in 1 .. t : n[o].k = m[o].k /\ (o # s /\ o # r => n[o] = m[o])
  BY <1>1, <1>2 DEF Declared, MinorsIn
<1>4. \A o \in M : n[o] = m[o]
  BY <1>1, <1>2, <1>3 DEF MinorsIn
<1>5. \A x \in S : n[x].last = m[x].last /\ n[x].base = m[x].base /\ (x # s => n[x] = m[x])
  BY <1>1, <1>2, <1>3 DEF Declared
<1>a. n[p].k = "variable" /\ n[u].k = "record" /\ n[u].reg = 0 /\ n[s].records = u
      /\ n[p].v = Plain(Invalid) /\ n[r].v = Ref(p)
  BY <1>1 DEF Declared
<1>6. MajorsIn(n, u) = M
  BY <1>1, <1>3, <1>a DEF MajorsIn
<1>7. MinorsIn(n, u) = S
  BY <1>1, <1>3, <1>a DEF MinorsIn
<1>b. \A x \in S : x <= s
  <2>1. InnermostOK(m, t, c)
    BY <1>1 DEF RefsOK, ScopesOK
  <2>2. s = m[c].minor
    BY DEF Declared
  <2> TAKE x \in S
  <2>a. c \in Nat /\ \A q \in M : q \in Nat /\ q <= c
    BY <1>1
  <2>b. \A q \in M : ~(c < q)
    BY <2>a
  <2>3. ~(s < x)
    BY <2>1, <2>2, <2>b DEF InnermostOK
  <2>4. s \in Nat /\ x \in Nat
    BY <1>1, <1>2
  <2> QED BY <2>3, <2>4
<1>8. ASSUME NEW o \in 1 .. u, n[o].k \in {"value", "variable"} PROVE ValueOK(n, u, o, n[o].v)
  <2>0. \A x : IsRegister(m, t, x) => IsRegister(n, u, x)
    BY <1>4, <1>6 DEF IsRegister
  <2>1. CASE o \in 1 .. t /\ o # r
    <3>1. n[o] = m[o] /\ ValueOK(m, t, o, m[o].v)
      BY <2>1, <1>2, <1>3, <1>8 DEF RefsOK, ValuesOK, MinorsIn
    <3> QED BY <3>1, <2>0, <1>1, <1>3, <1>6 DEF ValueOK
  <2>2. CASE o = r
    <3>1. n[r].v.ref /\ n[r].v.at = p
      BY <1>a DEF Ref
    <3>2. \A q \in M : ~(r < q)
      BY <1>1, <1>2
    <3>3. p \in 1 .. u
      BY <1>1
    <3> QED BY <2>2, <3>1, <3>2, <3>3, <2>0, <1>2, <1>6, <1>a DEF ValueOK
  <2>3. CASE o = p
    <3>1. ~n[p].v.ref /\ n[p].v.at = 0 /\ 0 <= p /\ p \in Nat
      BY <1>1, <1>a DEF Plain
    <3>2. ASSUME NEW q \in M PROVE ~(p < q)
      <4>1. q \in Nat /\ q < p /\ p \in Nat
        BY <1>1
      <4> HIDE DEF p
      <4> QED BY <4>1
    <3> QED BY <2>3, <3>1, <3>2, <1>6 DEF ValueOK
  <2> QED BY <2>1, <2>2, <2>3, <1>1, <1>a, <1>8
<1>9. ASSUME NEW o \in M PROVE FrameArgsOK(n, u, o)
  <2>1. FrameArgsOK(m, t, o)
    BY DEF RefsOK, ArgsOK
  <2>2. m[o].args \in Nat /\ m[o].next_args \in Nat
    BY <1>1, LayoutTyped, MajorTyped, ContextStackAssumption DEF Maybe, Offsets
  <2>3. /\ m[o].num_args > 0 => m[o].args <= u
        /\ m[o].num_next_args > 0 => m[o].next_args <= u
    BY <2>1, <2>2, <1>1 DEF FrameArgsOK
  <2> QED BY <2>1, <2>3, <1>4, <1>5, <1>6, <1>7 DEF FrameArgsOK
<1>10. ASSUME NEW x \in S PROVE ScopeRecordsOK(n, u, x)
  <2>1. ScopeRecordsOK(m, t, x) /\ x \in Nat
    BY <1>1 DEF RefsOK, ScopesOK
  <2>2. CASE x = s
    <3>1. \A y \in S \cup M : ~(s < y)
      BY <1>1, <1>2, <1>b
    <3>2. n[s].records \in s + 1 .. u
      BY <1>1, <1>2, <1>a
    <3> QED BY <2>1, <2>2, <3>1, <3>2, <1>5, <1>6, <1>7, <1>a DEF ScopeRecordsOK
  <2>3. CASE x # s
    <3>1. n[x] = m[x]
      BY <2>3, <1>5
    <3>2. m[x].records # 0 => m[x].records \in x + 1 .. t /\ m[m[x].records].k = "record"
      BY <2>1 DEF ScopeRecordsOK
    <3>3. m[x].records # 0 => /\ n[m[x].records] = m[m[x].records]
                              /\ m[x].records \in x + 1 .. u
      BY <3>2, <2>1, <1>1, <1>2, <1>3 DEF MinorsIn
    <3> QED BY <2>1, <3>1, <3>2, <3>3, <1>5, <1>6, <1>7 DEF ScopeRecordsOK
  <2> QED BY <2>2, <2>3
<1>11. ASSUME NEW o \in M PROVE InnermostOK(n, u, o)
  BY <1>4, <1>6, <1>7 DEF InnermostOK, RefsOK, ScopesOK
<1>12. ASSUME NEW o \in 1 .. u, n[o].k = "variable" PROVE Recorded(n, u, o)
  <2>1. CASE o \in 1 .. t
    <3>1. Recorded(m, t, o)
      BY <2>1, <1>3, <1>12 DEF RefsOK, ScopesOK
    <3>2. PICK x \in S : x < o /\ m[x].records # 0 /\ \A y \in S : y < o => y <= x
      BY <3>1 DEF Recorded
    <3>3. n[x].records # 0
      BY <3>2, <1>1, <1>5, <1>a
    <3> QED BY <3>2, <3>3, <1>7 DEF Recorded
  <2>2. CASE o = p
    <3>1. s < p /\ n[s].records # 0 /\ \A y \in S : y <= s
      BY <1>1, <1>2, <1>a, <1>b
    <3> QED BY <2>2, <3>1, <1>2, <1>7 DEF Recorded
  <2> QED BY <2>1, <2>2, <1>1, <1>a, <1>12
<1> QED BY <1>6, <1>7, <1>8, <1>9, <1>10, <1>11, <1>12 DEF RefsOK, ValuesOK, ArgsOK, ScopesOK

\* The two invariants together.
RInv == Inv /\ RefsOK(mem, top)

\* The function that Records defines by recursion is what its equation says.
LEMMA FirstRecord ==
  ASSUME Inv, NEW s \in Offsets, mem[s].records \in Offsets
  PROVE  mem[s].records \in Records(s)
<1> USE ContextStackAssumption
<1> DEFINE Step(x) == IF x # 0 /\ mem[x].k = "record" THEN mem[x].next ELSE 0
           G == [x \in Maybe |-> Step(x)]
           Walk(f) == [n \in 0 .. StackSize |-> IF n = 0 THEN mem[s].records ELSE Step(f[n - 1])]
<1>1. G \in [Maybe -> Maybe]
  <2> SUFFICES ASSUME NEW x \in Maybe, x # 0, mem[x].k = "record" PROVE mem[x].next \in Maybe
    BY DEF Maybe
  <2>1. mem[x] \in Cell
    BY DEF Inv, TypeOK, Maybe, Offsets
  <2> QED BY <2>1 DEF Cell, MajorFrame, MinorFrame, AllocaRecord, ValueCell, Variable
<1>2. mem[s].records \in Maybe
  BY DEF Maybe, Offsets
<1>3. PICK f \in [0 .. StackSize -> Maybe] : Iterates(f, G, mem[s].records, StackSize)
  <2>1. StackSize \in Nat
    OBVIOUS
  <2> HIDE DEF G
  <2> QED BY <1>1, <1>2, <2>1, IteratesExist
<1>4. f = Walk(f)
  <2>1. ASSUME NEW n \in 0 .. StackSize
        PROVE  f[n] = IF n = 0 THEN mem[s].records ELSE Step(f[n - 1])
    <3>1. CASE n = 0
      BY <1>3, <3>1 DEF Iterates
    <3>2. CASE n # 0
      <4>1. n \in 1 .. StackSize /\ f[n - 1] \in Maybe
        BY <3>2
      <4>2. f[n] = G[f[n - 1]]
        BY <1>3, <4>1 DEF Iterates
      <4> QED BY <3>2, <4>1, <4>2
    <3> QED BY <3>1, <3>2
  <2> HIDE DEF Step
  <2> QED BY <2>1
<1> DEFINE walk[n \in 0 .. StackSize] == IF n = 0 THEN mem[s].records ELSE Step(walk[n - 1])
<1>5. walk = Walk(walk)
  <2> HIDE DEF Step
  <2> QED BY <1>4
<1>6. walk[0] = mem[s].records
  <2> HIDE DEF Step, walk
  <2> QED BY <1>5
<1>7. Records(s) = {walk[n] : n \in 0 .. StackSize} \ {0}
  BY DEF Records
<1>8. mem[s].records # 0
  BY DEF Offsets
<1> QED
  <2> HIDE DEF walk
  <2> QED BY <1>6, <1>7, <1>8

\* The value v refers to nothing but a variable in use.
Refers(v) ==
  /\ v.at \in Nat /\ v.at <= top
  /\ v.ref => v.at \in 1 .. top /\ mem[v.at].k = "variable"

\* What a cell in use holds refers to a variable in use.
LEMMA CellsRefer ==
  ASSUME RInv
  PROVE  /\ \A p \in 1 .. top : mem[p].k \in {"value", "variable"} => Refers(mem[p].v)
         /\ \A p \in Int : p <= top => Refers(ValueAt(p))
         /\ \A d : Refers(Plain(d))
<1> USE ContextStackAssumption
<1>1. top \in Nat /\ 1 .. top \subseteq Offsets /\ mem \in Memories
  BY LayoutTyped DEF RInv, Inv
<1>2. \A d : Refers(Plain(d))
  BY <1>1 DEF Refers, Plain
<1>3. ASSUME NEW p \in 1 .. top, mem[p].k \in {"value", "variable"} PROVE Refers(mem[p].v)
  <2>1. mem[p] \in Cell
    BY <1>1 DEF Memories
  <2>2. mem[p].v \in Value
    BY <2>1, <1>3 DEF Cell, MajorFrame, MinorFrame, AllocaRecord, ValueCell, Variable
  <2>3. ~mem[p].v.ref => mem[p].v.at = 0
    BY <2>2 DEF Value, Plain, Ref
  <2>4. mem[p].v.ref => mem[p].v.at \in 1 .. top /\ mem[mem[p].v.at].k = "variable"
    BY <1>3 DEF RInv, RefsOK, ValuesOK, ValueOK
  <2> QED BY <2>3, <2>4, <1>1 DEF Refers
<1>4. ASSUME NEW p \in Int, p <= top PROVE Refers(ValueAt(p))
  <2>1. CASE p \in Offsets /\ mem[p].k = "value"
    <3>1. p \in 1 .. top /\ mem[p].k = "value"
      BY <2>1, <1>1, <1>4 DEF Offsets
    <3>2. ValueAt(p) = mem[p].v
      BY <2>1 DEF ValueAt
    <3> QED BY <3>1, <3>2, <1>3
  <2>2. CASE ~(p \in Offsets /\ mem[p].k = "value")
    BY <2>2, <1>2 DEF ValueAt
  <2> QED BY <2>1, <2>2
<1> QED BY <1>2, <1>3, <1>4

\* Neither does anything that an instruction gets hold of.
LEMMA ReadableRefers ==
  ASSUME MaxRegs = 1, RInv, IsMajor(cur), NEW v \in Readable
  PROVE  Refers(v)
<1> USE ContextStackAssumption
<1>0. Inv
  BY DEF RInv
<1>1. \A i \in RegsOf(cur) : Refers(ValueAt(Reg(cur, i)))
  <2> TAKE i \in RegsOf(cur)
  <2>1. Reg(cur, i) \in 1 .. top /\ top \in Nat
    BY <1>0, Current
  <2>2. Reg(cur, i) \in Int /\ Reg(cur, i) <= top
    BY <2>1
  <2> QED BY <2>2, CellsRefer
<1>2. \A j \in 0 .. mem[cur].num_args - 1 : Refers(ValueAt(mem[cur].args - j))
  <2> TAKE j \in 0 .. mem[cur].num_args - 1
  <2>1. cur \in Offsets /\ mem[cur].k = "major" /\ mem \in Memories /\ cur \in MajorsIn(mem, top)
        /\ top \in Nat
    BY <1>0, Current DEF MajorsIn, IsMajor
  <2>2. mem[cur].num_args \in Nat /\ mem[cur].args \in Nat
    BY <2>1, MajorTyped DEF Maybe
  <2>3. j \in Nat /\ mem[cur].num_args > 0
    BY <2>2
  <2>4. mem[cur].args <= top
    BY <2>1, <2>3 DEF RInv, RefsOK, ArgsOK, FrameArgsOK
  <2>5. mem[cur].args - j \in Int /\ mem[cur].args - j <= top
    BY <2>1, <2>2, <2>3, <2>4
  <2> QED BY <2>5, CellsRefer
<1>3. ASSUME NEW i \in RegsOf(cur), ValueAt(Reg(cur, i)).ref, mem[ValueAt(Reg(cur, i)).at].k = "variable"
      PROVE  Refers(mem[ValueAt(Reg(cur, i)).at].v)
  <2>1. ValueAt(Reg(cur, i)).at \in 1 .. top
    BY <1>1, <1>3 DEF Refers
  <2> QED BY <2>1, <1>3, CellsRefer
<1>4. \A d \in Data : Refers(Plain(d))
  BY CellsRefer
<1> HIDE DEF Refers
<1> QED BY <1>1, <1>2, <1>3, <1>4 DEF Readable

\* A register may hold whatever an instruction can get hold of.
LEMMA WriteRefs ==
  ASSUME MaxRegs = 1, RInv, NEW i, Write(i)
  PROVE  RefsOK(mem', top')
<1> DEFINE r == Reg(cur, i)
<1>1. IsMajor(cur) /\ i \in RegsOf(cur) /\ top' = top /\ Inv
  BY DEF Write, Executing, RInv
<1>2. PICK v \in Readable : mem' = [mem EXCEPT ![r] = Cellular(v)]
  BY DEF Write
<1>3. /\ r \in 1 .. top /\ mem[r].k = "value" /\ mem \in Memories /\ 1 .. top \subseteq Offsets
      /\ top \in Nat /\ r = mem[cur].regs /\ mem[cur].num_regs = 1
      /\ Layout(mem, top, cur, depth)
  BY <1>1, Current
<1>4. cur \in MajorsIn(mem, top) /\ IsRegister(mem, top, r)
  <2>1. cur \in MajorsIn(mem, top)
    BY <1>1, Current DEF MajorsIn
  <2> HIDE DEF r
  <2> QED BY <2>1, <1>3 DEF IsRegister
<1>5. \A q \in MajorsIn(mem, top) : ~(r < q)
  <2>1. r \in cur + 1 .. top /\ cur \in Nat
    BY <1>1, <1>3, <1>4, LayoutTyped DEF Layout, FrameOK
  <2>2. \A q \in MajorsIn(mem, top) : q \in Nat /\ q <= cur
    BY <1>3, LayoutTyped DEF Layout
  <2> HIDE DEF r
  <2> QED BY <2>1, <2>2
<1>6. Refers(v)
  BY <1>1, ReadableRefers
<1>7. ValueOK(mem, top, r, v)
  <2> HIDE DEF r
  <2> QED BY <1>4, <1>5, <1>6 DEF ValueOK, Refers
<1>8. mem'[r] = Cellular(v) /\ \A o \in 1 .. top : o # r => mem'[o] = mem[o]
  <2> HIDE DEF r
  <2> QED BY <1>2, <1>3 DEF Memories
<1>9. mem'[r].k = "value" /\ mem'[r].v = v
  BY <1>8 DEF Cellular
<1>10. RefsOK(mem, top)
  BY DEF RInv
<1> HIDE DEF r
<1>11. RefsOK(mem', top)
  BY <1>3, <1>7, <1>8, <1>9, <1>10, SetValue
<1> QED BY <1>1, <1>11

\* A variable may hold no reference to a later one.
LEMMA StoreRefs ==
  ASSUME MaxRegs = 1, Confined, RInv, NEW i, Store(i)
  PROVE  RefsOK(mem', top')
<1> DEFINE a == ValueAt(Reg(cur, i)).at
<1>1. /\ IsMajor(cur) /\ i \in RegsOf(cur) /\ top' = top /\ Inv
      /\ ValueAt(Reg(cur, i)).ref /\ mem[a].k = "variable"
  BY DEF Store, Executing, RInv
<1>2. PICK v \in Readable : v.at <= a /\ mem' = [mem EXCEPT ![a] = [k |-> "variable", v |-> v]]
  BY DEF Store
<1>3. mem \in Memories /\ 1 .. top \subseteq Offsets /\ top \in Nat
  BY <1>1, Current
<1>4. a \in 1 .. top
  <2>1. Reg(cur, i) \in 1 .. top
    BY <1>1, Current
  <2>2. Reg(cur, i) \in Int /\ Reg(cur, i) <= top
    BY <2>1, <1>3
  <2>3. Refers(ValueAt(Reg(cur, i)))
    BY <2>2, CellsRefer
  <2> QED BY <2>3, <1>1 DEF Refers
<1>5. Refers(v)
  BY <1>1, ReadableRefers
<1> HIDE DEF a
<1>6. ValueOK(mem, top, a, v)
  <2>1. \A q \in MajorsIn(mem, top) : q \in Nat
    BY <1>1, Current, LayoutTyped
  <2>2. a \in Nat /\ v.at \in Nat
    BY <1>3, <1>4, <1>5 DEF Refers
  <2>3. \A q \in MajorsIn(mem, top) : a < q => v.at < q
    BY <1>2, <2>1, <2>2
  <2> QED BY <1>2, <1>5, <2>3 DEF ValueOK, Refers
<1>7. mem'[a] = [k |-> "variable", v |-> v] /\ \A o \in 1 .. top : o # a => mem'[o] = mem[o]
  BY <1>2, <1>3, <1>4 DEF Memories
<1>8. mem'[a].k = "variable" /\ mem'[a].v = v
  BY <1>7
<1>9. RefsOK(mem, top)
  BY DEF RInv
<1>10. RefsOK(mem', top)
  BY <1>1, <1>3, <1>4, <1>6, <1>7, <1>8, <1>9, SetValue
<1> QED BY <1>1, <1>10

\* A new scope has no records.
LEMMA EnterRefs ==
  ASSUME MaxRegs = 1, RInv, Enter
  PROVE  RefsOK(mem', top')
<1> USE ContextStackAssumption
<1> DEFINE n == mem'
           u == top + 1
           scope == [k |-> "minor", last |-> mem[cur].minor, records |-> 0, base |-> top]
<1>0. Inv
  BY DEF RInv
<1>1. /\ IsMajor(cur) /\ u <= StackSize /\ top' = u /\ cur # 0
      /\ n = [mem EXCEPT ![u] = scope, ![cur].minor = u]
      /\ mem \in Memories /\ Layout(mem, top, cur, depth) /\ mem[cur] \in MajorFrame
  BY <1>0, Current DEF Enter, Executing
<1>2. u \in Offsets /\ u # cur /\ cur \in Offsets /\ 1 .. top \subseteq Offsets /\ u \notin 1 .. top
  BY <1>0, <1>1, Current DEF Offsets
<1>3. /\ n[u] = scope /\ n[cur] = [mem[cur] EXCEPT !.minor = u]
      /\ \A o \in 1 .. top : o # cur => n[o] = mem[o]
  <2> HIDE DEF u, scope, n
  <2> QED BY <1>1, <1>2 DEF Memories
<1>4. ButScope(n[cur], mem[cur]) /\ n[cur].minor = u /\ SameArgs(n[cur], mem[cur])
  <2> HIDE DEF u, n
  <2> QED BY <1>1, <1>3 DEF ButScope, SameArgs, MajorFrame
<1>5. n[u].k = "minor" /\ n[u].last = mem[cur].minor /\ n[u].base = top /\ n[u].records = 0
  <2> HIDE DEF n
  <2> QED BY <1>3
<1>6. u = top + 1
  OBVIOUS
<1> HIDE DEF u, n
<1>7. Entered(mem, n, top, u, cur)
  BY <1>1, <1>3, <1>4, <1>5, <1>6 DEF Entered
<1>8. RefsOK(n, u)
  BY <1>1, <1>4, <1>5, <1>7, PushScopeRefs DEF RInv
<1> QED BY <1>1, <1>8 DEF n

\* The register refers to the new variable.
LEMMA LVarRefs ==
  ASSUME MaxRegs = 1, RInv, NEW i, LVar(i)
  PROVE  RefsOK(mem', top')
<1> USE ContextStackAssumption
<1> DEFINE n == mem'
           s == mem[cur].minor
           r == Reg(cur, i)
           p == top + 1
           q == top + 2
           record == [k |-> "record", next |-> mem[s].records, reg |-> i]
           local  == [k |-> "variable", v |-> Plain(Invalid)]
<1>0. Inv
  BY DEF RInv
<1>1. /\ IsMajor(cur) /\ i \in RegsOf(cur) /\ q <= StackSize /\ top' = q
      /\ n = [mem EXCEPT ![p] = local, ![q] = record,
                         ![s] = [@ EXCEPT !.records = q], ![r] = Cellular(Ref(p))]
  BY DEF LVar, Executing
<1>2. /\ mem \in Memories /\ s \in 1 .. top /\ r \in 1 .. top /\ 1 .. top \subseteq Offsets
      /\ mem[s] \in MinorFrame /\ mem[r].k = "value" /\ i \in 0 .. MaxRegs
      /\ top \in Nat /\ top <= StackSize /\ cur # 0 /\ mem[cur].num_regs = 1 /\ r = mem[cur].regs
      /\ Layout(mem, top, cur, depth)
  BY <1>0, <1>1, Current
<1>3. i = 0
  BY <1>1, <1>2 DEF RegsOf
<1>4. p \in Offsets /\ q \in Offsets /\ p \notin 1 .. top /\ q \notin 1 .. top /\ p # q
  BY <1>1, <1>2 DEF Offsets
<1>5. s # r
  BY <1>2 DEF MinorFrame
<1>6. /\ n[p] = local /\ n[q] = record /\ n[r] = Cellular(Ref(p))
      /\ n[s] = [mem[s] EXCEPT !.records = q]
      /\ \A o \in 1 .. top : o # s /\ o # r => n[o] = mem[o]
  <2> HIDE DEF p, q, r, s, local, record, n
  <2> QED BY <1>1, <1>2, <1>4, <1>5 DEF Memories
<1>7. n[p].k = "variable" /\ n[p].v = Plain(Invalid) /\ n[q].k = "record" /\ n[q].reg = 0
  <2> HIDE DEF n, p, q
  <2> QED BY <1>3, <1>6
<1>8. n[s].k = "minor" /\ n[s].last = mem[s].last /\ n[s].base = mem[s].base /\ n[s].records = q
  <2> HIDE DEF n, s, q
  <2> QED BY <1>2, <1>6 DEF MinorFrame
<1>9. n[r].k = "value" /\ n[r].v = Ref(p)
  <2> HIDE DEF n, r, p
  <2> QED BY <1>6 DEF Cellular
<1>10. Declared(mem, n, top, q, cur, s, r)
  <2> HIDE DEF n, r
  <2> QED BY <1>2, <1>6, <1>7, <1>8, <1>9 DEF Declared
<1> HIDE DEF n, q, s, r
<1>11. RefsOK(n, q)
  BY <1>2, <1>10, DeclareRefs DEF RInv
<1> QED BY <1>1, <1>11 DEF n

\* The value of a register is pushed.
LEMMA PushArgRefs ==
  ASSUME MaxRegs = 1, RInv, NEW i, PushArg(i)
  PROVE  RefsOK(mem', top')
<1> USE ContextStackAssumption
<1> DEFINE p == top + 1
           v == ValueAt(Reg(cur, i))
           m == [mem EXCEPT ![p] = Cellular(v)]
<1>0. Inv
  BY DEF RInv
<1>1. /\ IsMajor(cur) /\ p <= StackSize /\ top' = p /\ i \in RegsOf(cur)
      /\ \/ mem' = m
         \/ mem' = [m EXCEPT ![cur].next_args = p, ![cur].num_next_args = @ + 1]
  BY DEF PushArg, Executing
<1>2. /\ mem \in Memories /\ cur \in 1 .. top /\ 1 .. top \subseteq Offsets
      /\ mem[cur] \in MajorFrame /\ top \in Nat /\ cur # 0 /\ Layout(mem, top, cur, depth)
  BY <1>0, <1>1, Current
<1>3. p \in Offsets /\ p \notin 1 .. top
  BY <1>1, <1>2 DEF Offsets
<1>4. Refers(v)
  <2>1. Reg(cur, i) \in 1 .. top
    BY <1>0, <1>1, Current
  <2>2. Reg(cur, i) \in Int /\ Reg(cur, i) <= top
    BY <2>1, <1>2
  <2> QED BY <2>2, CellsRefer
<1> HIDE DEF v
<1>5. m[p] = Cellular(v) /\ m \in [Offsets -> {m[o] : o \in Offsets}] /\ \A o \in 1 .. top : m[o] = mem[o]
  <2> HIDE DEF p
  <2> QED BY <1>2, <1>3 DEF Memories
<1>6. m[p].k = "value" /\ m[p].v = v
  BY <1>5 DEF Cellular
<1>7. /\ mem'[p] = m[p]
      /\ \A o \in 1 .. top : o # cur => mem'[o] = mem[o]
      /\ ButNext(mem'[cur], mem[cur]) /\ SameReceived(mem'[cur], mem[cur])
      /\ mem'[cur].next_args = p \/ SameArgs(mem'[cur], mem[cur])
  <2>1. CASE mem' = m
    BY <2>1, <1>2, <1>5 DEF ButNext, SameReceived, SameArgs
  <2>2. CASE mem' = [m EXCEPT ![cur].next_args = p, ![cur].num_next_args = @ + 1]
    <3> DEFINE g == [m[cur] EXCEPT !.next_args = p, !.num_next_args = @ + 1]
    <3>1. mem' = [m EXCEPT ![cur] = g]
      <4> HIDE DEF m, p
      <4> QED BY <1>2, <1>5, <2>2
    <3>2. m[cur] = mem[cur] /\ m[cur] \in MajorFrame
      BY <1>2, <1>5
    <3> HIDE DEF m, p
    <3>3. ButNext(g, m[cur]) /\ SameReceived(g, m[cur]) /\ g.next_args = p
      BY <3>2 DEF ButNext, SameReceived, MajorFrame
    <3> HIDE DEF g
    <3>4. mem'[cur] = g /\ \A o \in Offsets : o # cur => mem'[o] = m[o]
      BY <3>1, <1>2, <1>5
    <3>5. cur # p
      BY <1>2, <1>3
    <3> QED BY <3>2, <3>3, <3>4, <3>5, <1>2, <1>3, <1>5
  <2> QED BY <2>1, <2>2, <1>1
<1>8. /\ mem'[p].k = "value" /\ mem'[p].v.at \in Nat /\ mem'[p].v.at <= top
      /\ mem'[p].v.ref => mem'[p].v.at # 0 /\ mem[mem'[p].v.at].k = "variable"
  <2> HIDE DEF m
  <2> QED BY <1>4, <1>6, <1>7 DEF Refers
<1>9. p = top + 1
  OBVIOUS
<1> HIDE DEF p, m
<1>10. RefsOK(mem', p)
  BY <1>2, <1>7, <1>8, <1>9, PushValueRefs DEF RInv
<1> QED BY <1>1, <1>10

\* THROW leaves the references alone.
LEMMA ThrowRefs ==
  ASSUME RInv, Throw
  PROVE  RefsOK(mem', top')
BY DEF RInv, Throw

\* No reference that stays points to what _leave_major_frame() cuts off.
LEMMA LeaveMajorFrameRefs ==
  ASSUME NEW m, Layout(m, top, cur, depth), RefsOK(m, top), IsMajor(cur),
         m[cur] = mem[cur], LeaveMajorFrame(m)
  PROVE  RefsOK(mem', top')
<1>1. AfterPop(m, mem[cur].prev)
  BY LeavePops
<1> QED BY <1>1, PopFrameRefs DEF AfterPop

\* A function returns nothing that is kept.
LEMMA ReturnRefs ==
  ASSUME RInv, RetVoid \/ NativeReturn
  PROVE  RefsOK(mem', top')
<1>1. IsMajor(cur) /\ LeaveMajorFrame(mem)
  BY DEF RetVoid, NativeReturn, Executing
<1> QED BY <1>1, LeaveMajorFrameRefs DEF RInv, Inv

\* What is returned must not refer to a variable of the function: the register
\* that receives it is below the frame.
LEMMA RetRefs ==
  ASSUME MaxRegs = 1, Confined, RInv, NEW i, Ret(i)
  PROVE  RefsOK(mem', top')
<1> USE ContextStackAssumption
<1> DEFINE f == mem[cur]
           v == ValueAt(Reg(cur, i))
           r == Reg(f.prev, f.out - 1)
           m == [mem EXCEPT ![r] = Cellular(v)]
<1>0. Inv
  BY DEF RInv
<1>1. /\ IsMajor(cur) /\ i \in RegsOf(cur) /\ f.out \in 1 .. f.num_regs /\ IsMajor(f.prev)
      /\ LeaveMajorFrame(m) /\ v.at <= f.prev_top
  BY DEF Ret, Executing
<1>2. /\ mem \in Memories /\ cur \in 1 .. top /\ 1 .. top \subseteq Offsets
      /\ f.k = "major" /\ FrameOK(mem, top, cur) /\ f.num_regs = 1 /\ cur \in MajorsIn(mem, top)
      /\ Layout(mem, top, cur, depth) /\ top \in Nat /\ top \in Maybe
  BY <1>0, <1>1, Current DEF MajorsIn
<1>3. AfterRet(f.prev, r)
  BY <1>0, RetReturnsTo
<1>4. /\ r \in 1 .. top /\ mem[r].k = "value" /\ f.prev < r /\ r \in Nat /\ f.prev \in Nat
      /\ IsRegister(mem, top, r)
  <2> HIDE DEF f, r
  <2> QED BY <1>3 DEF AfterRet, IsRegister
<1>5. Refers(v)
  <2>1. Reg(cur, i) \in 1 .. top
    BY <1>0, <1>1, Current
  <2>2. Reg(cur, i) \in Int /\ Reg(cur, i) <= top
    BY <2>1, <1>2
  <2> QED BY <2>2, CellsRefer
<1> HIDE DEF r, v
<1>6. ASSUME NEW q \in MajorsIn(mem, top), r < q PROVE v.at < q
  <2>1. q \in Nat /\ q <= cur /\ cur \in Nat /\ f.prev_top < cur /\ f.prev_top \in Nat /\ v.at \in Nat
    <3>1. q <= cur
      BY <1>2 DEF Layout
    <3>2. f.prev_top \in Maybe
      BY <1>1, <1>2, MajorTyped DEF IsMajor
    <3>3. f.prev_top < cur
      BY <1>2 DEF FrameOK
    <3>4. q \in Nat
      BY DEF MajorsIn
    <3>5. v.at \in Nat
      BY <1>5 DEF Refers
    <3> QED BY <3>1, <3>2, <3>3, <3>4, <3>5, <1>2 DEF Maybe
  <2>2. CASE q = cur
    BY <2>1, <2>2, <1>1
  <2>3. CASE q # cur
    <3>1. q < cur
      BY <2>1, <2>3
    <3>2. Apart(mem, q, cur)
      BY <3>1, <1>2 DEF Layout
    <3>3. q <= f.prev
      BY <3>2 DEF Apart
    <3> QED BY <3>3, <2>1, <1>3, <1>4, <1>6
  <2> QED BY <2>2, <2>3
<1>7. ValueOK(mem, top, r, v)
  BY <1>4, <1>5, <1>6 DEF ValueOK, Refers
<1>8. Cellular(v) \in Cell
  <2>1. v \in Value
    BY <1>0, ValuesTyped DEF v
  <2> QED BY <2>1, <1>0, ValuesTyped
<1>9. /\ m \in Memories /\ m[r] = Cellular(v)
      /\ \A o \in 1 .. top : o # r => m[o] = mem[o]
  BY <1>2, <1>4, <1>8 DEF Memories
<1>10. m[r].k = "value" /\ m[r].v = v
  BY <1>9 DEF Cellular
<1> HIDE DEF m
<1>11. \A o \in 1 .. top : Same(mem, m, o)
  BY <1>4, <1>9, <1>10 DEF Same
<1>12. Layout(m, top, cur, depth)
  <2>1. top <= top /\ \A o \in top + 1 .. top : m[o].k \notin {"major", "minor"}
    BY <1>2
  <2> QED BY <1>2, <1>9, <1>11, <2>1, KeepLayout
<1>13. RefsOK(mem, top)
  BY DEF RInv
<1>14. RefsOK(m, top)
  BY <1>2, <1>4, <1>7, <1>9, <1>10, <1>13, SetValue
<1>15. m[cur] = mem[cur]
  BY <1>2, <1>4, <1>9
<1> QED BY <1>1, <1>12, <1>14, <1>15, LeaveMajorFrameRefs

\* The arguments that were pending become those of the new frame; the caller
\* keeps none.
LEMMA CallRefs ==
  ASSUME MaxRegs = 1, RInv,
         NEW kind \in {"regular", "native"}, NEW n \in 0 .. MaxRegs, NEW out \in 0 .. MaxRegs,
         Call(kind, n, out)
  PROVE  RefsOK(mem', top')
<1> USE ContextStackAssumption
<1> DEFINE u == top + Extent(0, n)
           f == top + 1
<1>1. /\ IsMajor(cur) /\ Inv /\ RefsOK(mem, top)
  BY DEF Call, Executing, RInv
<1>2. /\ Layout(mem, top, cur, depth) /\ top \in Nat /\ cur # 0 /\ cur \in MajorsIn(mem, top)
      /\ mem[cur].next_args \in Maybe
  <2>1. mem[cur] \in MajorFrame
    BY <1>1, Current
  <2> QED BY <1>1, <2>1, Current DEF MajorsIn, MajorFrame
<1>3. /\ mem' \in Memories /\ u \in Maybe /\ top' = u /\ Pushed(mem, mem', top, u, cur, f)
      /\ SameReceived(mem'[cur], mem[cur]) /\ mem'[cur].num_next_args = 0
      /\ mem'[f].num_args = mem[cur].num_next_args /\ mem'[f].args = mem[cur].next_args
      /\ mem'[f].num_next_args = 0 /\ mem'[top + 2].records = 0
      /\ \A o \in top + 3 .. u : mem'[o].v = Plain(Invalid)
  BY <1>1, CallPushes DEF AfterCall
<1> HIDE DEF u, f
<1>4. mem'[f].num_args > 0 => mem'[f].args <= u
  <2>1. mem[cur].num_next_args > 0 => mem[cur].next_args <= top
    BY <1>1, <1>2 DEF RefsOK, ArgsOK, FrameArgsOK
  <2>2. top <= u /\ mem[cur].next_args \in Nat /\ u \in Nat
    BY <1>2, <1>3 DEF Maybe, Pushed
  <2> QED BY <2>1, <2>2, <1>2, <1>3
<1>5. ~(mem'[cur].num_next_args > 0)
  BY <1>3
<1>6. RefsOK(mem', u)
  BY <1>1, <1>2, <1>3, <1>4, <1>5, PushFrameRefs
<1> QED BY <1>3, <1>6

\* _create_new_major_frame(), when the caller keeps its arguments.
LEMMA NewFrameRefs ==
  ASSUME NEW m, NEW t, NEW c, NEW d, Layout(m, t, c, d), RefsOK(m, t),
         NEW kind \in {"top", "regular", "native"},
         NEW a \in 0 .. MaxArgs, NEW r \in 0 .. MaxRegs,
         NEW u, u = t + Extent(a, r), u <= StackSize,
         NEW num_args \in 0 .. MaxArgs, num_args > 0 => a > 0,
         NEW out \in 0 .. MaxRegs + 1, c # 0 => out <= m[c].num_regs,
         NEW n, n = NewFrame(m, c, kind, t, a, r, 0, num_args, out)
  PROVE  RefsOK(n, u)
<1> USE ContextStackAssumption
<1>1. 0 \in Maybe
  BY DEF Maybe
<1>2. n \in Memories /\ u \in Maybe /\ Pushed(m, n, t, u, c, t + 1)
  BY <1>1, NewFramePushes
<1>3. n[t + 1].num_args = num_args /\ n[t + 1].num_next_args = 0
  BY <1>1, NewFramePushes
<1>4. a > 0 => n[t + 1].args = t + 2 + a
  BY <1>1, NewFramePushes
<1>5. n[t + 2].records = 0
  BY <1>1, NewFramePushes
<1>6. \A o \in t + 3 .. u : n[o].v = Plain(Invalid)
  BY <1>1, NewFramePushes
<1>7. c # 0 => SameArgs(n[c], m[c]) /\ SameReceived(n[c], m[c])
  <2>1. c # 0 => /\ n[c].args = m[c].args /\ n[c].num_args = m[c].num_args
                 /\ n[c].next_args = m[c].next_args
                 /\ n[c].num_next_args = m[c].num_next_args
    BY <1>1, NewFramePushes
  <2> QED BY <2>1 DEF SameArgs, SameReceived
<1>8. n[t + 1].num_args > 0 => n[t + 1].args <= u
  <2>1. t \in Nat
    BY LayoutTyped
  <2>2. t + 2 + a <= t + Extent(a, r)
    BY <2>1 DEF Extent
  <2> QED BY <2>2, <1>3, <1>4
<1>9. ~(n[t + 1].num_next_args > 0)
  BY <1>3
<1> QED BY <1>2, <1>3, <1>5, <1>6, <1>7, <1>8, PushFrameRefs

\* One frame, or two, on top of the others.
LEMMA ExecFnRefs ==
  ASSUME MaxRegs = 1, RInv,
         NEW kind \in {"regular", "native"}, NEW a \in 0 .. MaxArgs, NEW n \in 0 .. MaxRegs,
         NEW out \in 0 .. MaxRegs, ExecFn(kind, a, n, out)
  PROVE  RefsOK(mem', top')
<1> USE ContextStackAssumption
<1> DEFINE m == NewFrame(mem, cur, "top", top, 0, 1, 0, 0, 0)
           t == top + Extent(0, 1)
<1>1. Layout(mem, top, cur, depth) /\ top \in Nat /\ depth \in Nat /\ RefsOK(mem, top)
  BY LayoutTyped DEF RInv, Inv
<1>2. ASSUME t <= StackSize
      PROVE  Layout(m, t, top + 1, depth + 1) /\ m[top + 1].num_regs = 1 /\ RefsOK(m, t)
  <2>1. cur # 0 => 0 <= mem[cur].num_regs
    <3>1. cur # 0 => cur \in Offsets /\ mem[cur].k = "major" /\ mem \in Memories
      BY <1>1, LayoutTyped DEF Layout
    <3> QED BY <3>1, MajorTyped
  <2>2. /\ "top" \in {"top", "regular", "native"} /\ 0 \in 0 .. MaxArgs /\ 1 \in 0 .. MaxRegs
        /\ 0 \in Maybe /\ 0 \in 0 .. MaxRegs + 1 /\ ~(0 > 0)
    BY DEF Maybe
  <2>3. Layout(m, t, top + 1, depth + 1)
    BY <1>1, <1>2, <2>1, <2>2, NewFrameLayout
  <2>4. top + 1 \in Offsets
    BY <1>1, <1>2 DEF Extent, Offsets
  <2>5. m[top + 1].num_regs = 1
    BY <2>4 DEF NewFrame
  <2>6. m = NewFrame(mem, cur, "top", top, 0, 1, 0, 0, 0) /\ t = top + Extent(0, 1)
    OBVIOUS
  <2> HIDE DEF m, t
  <2>7. RefsOK(m, t)
    BY <1>1, <1>2, <2>1, <2>2, <2>6, NewFrameRefs
  <2> QED BY <2>3, <2>5, <2>7
<1>3. CASE UNCHANGED <<mem, top, cur, depth>>
  BY <1>1, <1>3
<1>4. CASE t <= StackSize /\ mem' = m /\ cur' = top + 1 /\ top' = t /\ depth' = depth + 1
  BY <1>2, <1>4
<1>5. CASE /\ t + Extent(a, n) <= StackSize
           /\ mem' = NewFrame(m, top + 1, kind, t, a, n, 0, a, out)
           /\ cur' = t + 1 /\ top' = t + Extent(a, n) /\ depth' = depth + 2
  <2>1. t <= StackSize
    BY <1>1, <1>5 DEF Extent
  <2>2. Layout(m, t, top + 1, depth + 1) /\ out <= m[top + 1].num_regs /\ RefsOK(m, t)
    BY <1>2, <2>1
  <2>3. kind \in {"top", "regular", "native"} /\ out \in 0 .. MaxRegs + 1
    OBVIOUS
  <2> HIDE DEF m, t
  <2>4. RefsOK(mem', top')
    BY <1>5, <2>2, <2>3, NewFrameRefs
  <2> QED BY <2>4
<1> QED BY <1>3, <1>4, <1>5 DEF ExecFn

\* A register refers to no variable of the scope that LEAVE leaves: if it
\* referred to one, the scope would have records, the first of which names the
\* register.
LEMMA LeaveClears ==
  ASSUME MaxRegs = 1, RInv, Leave, mem[cur].num_regs > 0
  PROVE  LET r == mem[cur].regs
         IN  /\ r \in 1 .. top /\ mem[r].k = "value"
             /\ Cleared[r] = mem[r] \/ Cleared[r] = Cellular(Plain(Invalid))
             /\ Cleared[r].v.at < mem[cur].minor
<1> USE ContextStackAssumption
<1> DEFINE s == mem[cur].minor
           r == mem[cur].regs
           named == {mem[x].reg : x \in {q \in Records(s) : mem[q].k = "record"}}
<1>0. Inv /\ IsMajor(cur)
  BY DEF RInv, Leave, Executing
<1>1. /\ mem \in Memories /\ cur \in 1 .. top /\ 1 .. top \subseteq Offsets /\ top \in Nat
      /\ s \in 1 .. top /\ mem[s].k = "minor" /\ FrameOK(mem, top, cur)
      /\ Layout(mem, top, cur, depth)
      /\ cur \in MajorsIn(mem, top) /\ s \in MinorsIn(mem, top)
  BY <1>0, Current DEF MajorsIn, MinorsIn
<1>2. RegsOf(cur) = {0} /\ Reg(cur, 0) = r /\ r \in 1 .. top /\ mem[r].k = "value"
  <2>1. mem[cur].num_regs = 1
    <3>1. mem[cur].num_regs \in 0 .. MaxRegs
      BY <1>0, <1>1, MajorTyped DEF IsMajor
    <3> QED BY <3>1
  <2>2. 0 \in RegsOf(cur) /\ RegsOf(cur) = {0}
    BY <2>1 DEF RegsOf
  <2> QED BY <2>2, <1>0, Current
<1>3. Cleared[r] = IF 0 \in named THEN Cellular(Plain(Invalid)) ELSE mem[r]
  <2> HIDE DEF r, s
  <2> QED BY <1>1, <1>2 DEF Cleared, s
<1>4. Cellular(Plain(Invalid)).v.at = 0 /\ 0 < s
  BY <1>1 DEF Cellular, Plain
<1>5. ASSUME 0 \notin named PROVE mem[r].v.at < s
  <2> DEFINE x == mem[r].v.at
  <2>1. Refers(mem[r].v)
    BY <1>2, CellsRefer
  <2>2. x \in Nat /\ s \in Nat
    BY <2>1, <1>1 DEF Refers
  <2>3. SUFFICES ASSUME s <= x PROVE FALSE
    BY <2>2
  <2>4. mem[r].v.ref
    <3>1. mem[r] \in Cell
      BY <1>1, <1>2 DEF Memories
    <3>2. mem[r].v \in Value
      BY <3>1, <1>2 DEF Cell, MajorFrame, MinorFrame, AllocaRecord, ValueCell, Variable
    <3>3. \A v \in Value : ~v.ref => v.at = 0
      BY DEF Value, Plain, Ref
    <3>4. ~mem[r].v.ref => x = 0
      BY <3>2, <3>3
    <3> QED BY <3>4, <2>3, <1>1
  <2>5. x \in 1 .. top /\ mem[x].k = "variable"
    BY <2>1, <2>4 DEF Refers
  <2>6. s < x
    <3>1. s # x
      BY <2>5, <1>1
    <3> QED BY <3>1, <2>2, <2>3
  <2>7. PICK y \in MinorsIn(mem, top) :
           y < x /\ mem[y].records # 0 /\ \A z \in MinorsIn(mem, top) : z < x => z <= y
    BY <2>5 DEF RInv, RefsOK, ScopesOK, Recorded
  <2>8. y = s
    <3>1. s <= y
      BY <2>6, <2>7, <1>1
    <3>2. ~(s < y)
      <4>1. InnermostOK(mem, top, cur)
        BY <1>1 DEF RInv, RefsOK, ScopesOK
      <4>2. \A q \in MajorsIn(mem, top) : q \in Nat /\ q <= cur
        BY <1>1, LayoutTyped DEF Layout
      <4>3. \A q \in MajorsIn(mem, top) : ~(cur < q)
        BY <4>2, <1>1
      <4> QED BY <4>1, <4>3 DEF InnermostOK
    <3>3. y \in Nat
      BY DEF MinorsIn
    <3> QED BY <3>1, <3>2, <3>3, <2>2
  <2>9. /\ mem[s].records \in 1 .. top /\ mem[mem[s].records].k = "record"
        /\ mem[mem[s].records].reg = 0
    <3>1. ScopeRecordsOK(mem, top, s)
      BY <1>1 DEF RInv, RefsOK, ScopesOK
    <3>2. mem[s].records \in s + 1 .. top /\ mem[mem[s].records].k = "record"
          /\ mem[mem[s].records].reg = 0
      BY <3>1, <2>7, <2>8 DEF ScopeRecordsOK
    <3> QED BY <3>2, <2>2
  <2>10. mem[s].records \in Records(s)
    BY <1>0, <1>1, <2>9, FirstRecord
  <2> HIDE DEF s
  <2> QED BY <2>9, <2>10, <1>5
<1> HIDE DEF named, s, r
<1>6. Cleared[r].v.at < s
  BY <1>3, <1>4, <1>5
<1> QED BY <1>2, <1>3, <1>6 DEF s, r

\* The register is cleared, then the scope is left.
LEMMA LeaveRefs ==
  ASSUME MaxRegs = 1, Balanced, RInv, Leave
  PROVE  RefsOK(mem', top')
<1> USE ContextStackAssumption
<1> DEFINE s == mem[cur].minor
           r == mem[cur].regs
<1>0. Inv /\ IsMajor(cur) /\ mem[cur].num_next_args = 0 /\ RefsOK(mem, top)
  BY DEF RInv, Leave, Executing
<1>1. /\ mem \in Memories /\ cur \in 1 .. top /\ 1 .. top \subseteq Offsets /\ top \in Nat
      /\ mem[cur] \in MajorFrame /\ Layout(mem, top, cur, depth)
  BY <1>0, Current
<1>2. /\ Layout(Cleared, top, cur, depth) /\ Cleared \in Memories
      /\ mem' \in Memories /\ Exited(Cleared, mem', top, cur, s)
      /\ mem'[cur] = [mem[cur] EXCEPT !.minor = mem[s].last]
      /\ Cleared[cur] = mem[cur] /\ Cleared[s] = mem[s]
      /\ top' = mem[s].base
  BY <1>0, LeaveExits
<1>3. SameArgs(mem'[cur], Cleared[cur]) /\ Cleared[cur].num_next_args = 0
  <2> HIDE DEF s
  <2> QED BY <1>0, <1>1, <1>2 DEF SameArgs, MajorFrame
<1>4. Cleared[cur].num_regs > 0 => Cleared[Cleared[cur].regs].v.at < s
  BY <1>2, LeaveClears
<1>5. RefsOK(Cleared, top)
  <2>1. CASE mem[cur].num_regs > 0
    <3>1. /\ r \in 1 .. top /\ mem[r].k = "value"
          /\ Cleared[r] = mem[r] \/ Cleared[r] = Cellular(Plain(Invalid))
      BY <2>1, LeaveClears
    <3>2. \A o \in 1 .. top : o # r => Cleared[o] = mem[o]
      <4>1. \A i \in RegsOf(cur) : Reg(cur, i) = r
        BY <1>0, Current
      <4> QED BY <4>1, <1>1 DEF Cleared
    <3>3. ValueOK(mem, top, r, mem[r].v)
      BY <1>0, <3>1 DEF RefsOK, ValuesOK
    <3>4. ValueOK(mem, top, r, Plain(Invalid))
      <4>1. 0 <= r /\ \A q \in MajorsIn(mem, top) : 0 < q
        BY <3>1, <1>1 DEF MajorsIn
      <4> QED BY <4>1 DEF ValueOK, Plain
    <3>5. Cleared[r].k = "value" /\ ValueOK(mem, top, r, Cleared[r].v)
      BY <3>1, <3>3, <3>4 DEF Cellular
    <3> HIDE DEF r
    <3> QED BY <1>0, <1>1, <3>1, <3>2, <3>5, SetValue
  <2>2. CASE ~(mem[cur].num_regs > 0)
    <3>1. RegsOf(cur) = {}
      <4>1. mem[cur].num_regs \in Nat
        BY <1>1 DEF MajorFrame
      <4> QED BY <2>2, <4>1 DEF RegsOf
    <3>2. Cleared = [o \in Offsets |-> mem[o]]
      BY <3>1 DEF Cleared
    <3>3. Cleared = mem
      BY <3>2, <1>1 DEF Memories
    <3> QED BY <3>3, <1>0
  <2> QED BY <2>1, <2>2
<1>6. RefsOK(mem', Cleared[s].base)
  <2> HIDE DEF s
  <2> QED BY <1>2, <1>3, <1>4, <1>5, PopScopeRefs
<1> QED BY <1>2, <1>6

\* No instruction breaks the second invariant.
LEMMA StepRefs ==
  ASSUME MaxRegs = 1, Balanced, Confined, RInv, [Next]_vars
  PROVE  RefsOK(mem', top')
<1>1. CASE UNCHANGED vars
  BY <1>1 DEF vars, RInv
<1>2. ASSUME NEW kind \in {"regular", "native"}, NEW n \in 0 .. MaxRegs, NEW out \in 0 .. MaxRegs,
             Call(kind, n, out)
      PROVE  RefsOK(mem', top')
  BY <1>2, CallRefs
<1>3. ASSUME NEW kind \in {"regular", "native"}, NEW n \in 0 .. MaxRegs, NEW out \in 0 .. MaxRegs,
             NEW a \in 0 .. MaxArgs, ExecFn(kind, a, n, out)
      PROVE  RefsOK(mem', top')
  BY <1>3, ExecFnRefs
<1>4. CASE RetVoid \/ NativeReturn
  BY <1>4, ReturnRefs
<1>5. CASE Enter
  BY <1>5, EnterRefs
<1>6. CASE Leave
  BY <1>6, LeaveRefs
<1>7. CASE Throw
  BY <1>7, ThrowRefs
<1>8. ASSUME NEW i \in 0 .. MaxRegs, Ret(i) \/ LVar(i) \/ PushArg(i) \/ Write(i) \/ Store(i)
      PROVE  RefsOK(mem', top')
  BY <1>8, RetRefs, LVarRefs, PushArgRefs, WriteRefs, StoreRefs
<1> QED BY <1>1, <1>2, <1>3, <1>4, <1>5, <1>6, <1>7, <1>8 DEF Next

\* The empty stack has no reference.
LEMMA InitRefs ==
  ASSUME Init
  PROVE  RefsOK(mem, top)
<1>1. 1 .. top = {}
  BY DEF Init
<1>2. MajorsIn(mem, top) = {} /\ MinorsIn(mem, top) = {}
  BY <1>1 DEF MajorsIn, MinorsIn
<1> QED BY <1>1, <1>2 DEF RefsOK, ValuesOK, ArgsOK, ScopesOK

-----------------------------------------------------------------------------
(***************************************************************************)
(* The refinement.  Frames reads the activations off the memory by         *)
(* following links; here the frames are a list s, the oldest first, each   *)
(* the caller of the next, and the scopes of a frame are a list in the     *)
(* same way (Book).  No argument, received or pending, is a register of a  *)
(* frame (Places), so an instruction changes one activation, the newest,   *)
(* or the caller of one that returns.  Per instruction: its writes leave   *)
(* the other activations as they are (Others) and keep the lists, and what *)
(* they do to the one that they change is a step of CallStack.             *)
(***************************************************************************)

\* f and g begin alike and go on alike.
Alike(f, g, N) == f[0] = g[0] /\ \A n \in 1 .. N : f[n - 1] = g[n - 1] => f[n] = g[n]

\* Then they are.
LEMMA SameWalk ==
  ASSUME NEW N \in Nat, NEW f, NEW g, Alike(f, g, N)
  PROVE  \A n \in 0 .. N : f[n] = g[n]
<1> USE DEF Alike
<1> DEFINE T == {n \in 0 .. N : f[n] # g[n]}
<1>1. SUFFICES ASSUME T # {} PROVE FALSE
  BY Zenon
<1>2. PICK k \in T : \A y \in T : k <= y
  <2>1. T \in SUBSET Nat
    OBVIOUS
  <2> QED BY <1>1, <2>1, NatMin
<1>3. k # 0
  BY <1>2
<1>4. k \in 1 .. N /\ k - 1 \in 0 .. N /\ k - 1 \notin T
  BY <1>2, <1>3
<1>5. f[k - 1] = g[k - 1]
  BY <1>4
<1> QED BY <1>2, <1>4, <1>5

\* A memory that is not the one at hand.
ValueIn(m, o) == IF o \in Offsets /\ m[o].k = "value" THEN m[o].v ELSE Plain(Invalid)

\* Activation and Frames, of any memory.
ActivationIn(m, o) ==
  LET f == m[o]
      scope[n \in 0 .. StackSize] ==
        IF n = 0 THEN f.minor
        ELSE IF scope[n - 1] \in Offsets /\ m[scope[n - 1]].k = "minor" THEN m[scope[n - 1]].last ELSE 0
  IN  [regs    |-> [i \in 1 .. f.num_regs |-> ValueIn(m, f.regs + (i - 1))],
       args    |-> [i \in 1 .. f.num_args |-> ValueIn(m, f.args - (i - 1))],
       pending |-> [i \in 1 .. f.num_next_args |-> ValueIn(m, f.next_args - (i - 1))],
       scopes  |-> Cardinality({n \in 0 .. StackSize : scope[n] # 0}),
       out     |-> f.out]

FramesIn(m, c, d) ==
  LET at[n \in 0 .. d] ==
        IF n = 0 THEN 0 ELSE IF n = 1 THEN c ELSE m[at[n - 1]].prev
  IN  [i \in 1 .. d |-> ActivationIn(m, at[d + 1 - i])]

\* Frames, as an operator of the memory, before a step...
LEMMA FramesHere == Frames = FramesIn(mem, cur, depth)
BY DEF Frames, FramesIn, Activation, ActivationIn, ValueIn, ValueAt, Reg, IsMinor

\* ... and after it.
LEMMA FramesThen == Frames' = FramesIn(mem', cur', depth')
BY DEF Frames, FramesIn, Activation, ActivationIn, ValueIn, ValueAt, Reg, IsMinor

\* The activation of the frame at o with k scopes.
View(m, o, k) ==
  LET f == m[o]
  IN  [regs    |-> [i \in 1 .. f.num_regs |-> ValueIn(m, f.regs + (i - 1))],
       args    |-> [i \in 1 .. f.num_args |-> ValueIn(m, f.args - (i - 1))],
       pending |-> [i \in 1 .. f.num_next_args |-> ValueIn(m, f.next_args - (i - 1))],
       scopes  |-> k,
       out     |-> f.out]

\* The scopes of the frame at o, the outermost first.
ScopeChain(m, t, o, y) ==
  /\ y \in Seq(Nat) /\ Len(y) > 0
  /\ \A i \in 1 .. Len(y) : y[i] \in o + 1 .. t /\ i <= y[i] /\ m[y[i]].k = "minor"
  /\ \A i, j \in 1 .. Len(y) : i < j => y[i] < y[j]
  /\ y[Len(y)] = m[o].minor
  /\ m[y[1]].last = 0
  /\ \A i \in 2 .. Len(y) : m[y[i]].last = y[i - 1]

\* Following the links counts them.
LEMMA ScopesCounted ==
  ASSUME NEW m, NEW t \in Maybe, NEW o \in Nat, NEW y, ScopeChain(m, t, o, y)
  PROVE  ActivationIn(m, o) = View(m, o, Len(y))
<1> USE ContextStackAssumption
<1> DEFINE L == Len(y)
           next(z) == IF z \in Offsets /\ m[z].k = "minor" THEN m[z].last ELSE 0
           W == [n \in 0 .. StackSize |-> IF n < L THEN y[L - n] ELSE 0]
           scope[n \in 0 .. StackSize] ==
             IF n = 0 THEN m[o].minor
             ELSE IF scope[n - 1] \in Offsets /\ m[scope[n - 1]].k = "minor" THEN m[scope[n - 1]].last ELSE 0
           Walk(f) == [n \in 0 .. StackSize |-> IF n = 0 THEN m[o].minor ELSE next(f[n - 1])]
<1>1. /\ y \in Seq(Nat) /\ L \in Nat /\ L > 0 /\ t \in Nat /\ t <= StackSize /\ StackSize \in Nat
      /\ \A i \in 1 .. L : y[i] \in Nat /\ y[i] > 0 /\ y[i] <= t /\ y[i] \in Offsets /\ m[y[i]].k = "minor"
      /\ L <= t /\ y[L] = m[o].minor /\ m[y[1]].last = 0
      /\ \A i \in 2 .. L : m[y[i]].last = y[i - 1]
  <2>1. y \in Seq(Nat) /\ L \in Nat /\ L > 0 /\ t \in Nat /\ t <= StackSize
    BY DEF ScopeChain, Maybe
  <2>2. ASSUME NEW i \in 1 .. L
        PROVE  y[i] \in Nat /\ y[i] > 0 /\ y[i] <= t /\ y[i] \in Offsets /\ m[y[i]].k = "minor" /\ i <= t
    <3>1. y[i] \in o + 1 .. t /\ i <= y[i] /\ m[y[i]].k = "minor" /\ y[i] \in Nat
      BY <2>1 DEF ScopeChain
    <3> QED BY <2>1, <3>1 DEF Offsets
  <2>3. L \in 1 .. L
    BY <2>1
  <2> QED BY <2>1, <2>2, <2>3 DEF ScopeChain
<1> HIDE DEF L
<1>2. /\ W[0] = m[o].minor
      /\ \A n \in 1 .. StackSize : W[n] = next(W[n - 1])
  <2>1. W[0] = m[o].minor
    BY <1>1
  <2>2. ASSUME NEW n \in 1 .. StackSize PROVE W[n] = next(W[n - 1])
    <3>0. n \in 0 .. StackSize /\ n - 1 \in 0 .. StackSize /\ n \in Nat
      BY <1>1
    <3>1. CASE n < L
      <4>1. L - n \in 1 .. L /\ L - (n - 1) \in 2 .. L /\ L - (n - 1) - 1 = L - n /\ L - (n - 1) \in 1 .. L
        BY <1>1, <3>0, <3>1
      <4>2. W[n] = y[L - n] /\ W[n - 1] = y[L - (n - 1)]
        BY <3>0, <3>1, <1>1
      <4>3. m[y[L - (n - 1)]].last = y[L - n] /\ y[L - (n - 1)] \in Offsets /\ m[y[L - (n - 1)]].k = "minor"
        BY <1>1, <4>1
      <4> HIDE DEF W
      <4> QED BY <4>2, <4>3
    <3>2. CASE n = L
      <4>1. W[n] = 0 /\ W[n - 1] = y[1]
        BY <1>1, <3>0, <3>2
      <4>2. m[y[1]].last = 0
        BY <1>1
      <4> HIDE DEF W
      <4> QED BY <4>1, <4>2
    <3>3. CASE n > L
      <4>1. W[n] = 0 /\ W[n - 1] = 0
        BY <1>1, <3>0, <3>3
      <4>2. 0 \notin Offsets
        BY DEF Offsets
      <4> HIDE DEF W
      <4> QED BY <4>1, <4>2
    <3> QED BY <3>0, <3>1, <3>2, <3>3, <1>1
  <2> QED BY <2>1, <2>2
<1>3. W = Walk(W)
  <2>1. \A n \in 0 .. StackSize : n # 0 => n \in 1 .. StackSize
    BY <1>1
  <2>2. W = [n \in 0 .. StackSize |-> W[n]]
    OBVIOUS
  <2> HIDE DEF W, next
  <2>3. \A n \in 0 .. StackSize : W[n] = IF n = 0 THEN m[o].minor ELSE next(W[n - 1])
    BY <1>2, <2>1
  <2> QED BY <2>2, <2>3
<1>4. scope = Walk(scope)
  <2> HIDE DEF W
  <2> QED BY <1>3
<1> HIDE DEF scope, W
<1>5. /\ scope[0] = m[o].minor
      /\ \A n \in 1 .. StackSize : scope[n] = next(scope[n - 1])
  <2> HIDE DEF next
  <2>1. 0 \in 0 .. StackSize /\ \A n \in 1 .. StackSize : n \in 0 .. StackSize /\ n # 0
    BY <1>1
  <2>2. \A n \in 0 .. StackSize : scope[n] = IF n = 0 THEN m[o].minor ELSE next(scope[n - 1])
    BY <1>4
  <2>3. ASSUME NEW n \in 1 .. StackSize PROVE scope[n] = next(scope[n - 1])
    BY <2>1, <2>2
  <2> QED BY <2>1, <2>2, <2>3
<1>6. \A n \in 0 .. StackSize : scope[n] = W[n]
  <2> HIDE DEF next
  <2>1. \A n \in 1 .. StackSize : scope[n - 1] = W[n - 1] => scope[n] = W[n]
    BY <1>2, <1>5
  <2>2. scope[0] = W[0]
    BY <1>2, <1>5
  <2>3. Alike(scope, W, StackSize)
    BY <2>1, <2>2 DEF Alike
  <2> QED BY <1>1, <2>3, SameWalk
<1>7. {n \in 0 .. StackSize : scope[n] # 0} = 0 .. (L - 1)
  <2>1. ASSUME NEW n \in 0 .. StackSize PROVE scope[n] # 0 <=> n < L
    <3>1. n < L => L - n \in 1 .. L
      BY <1>1
    <3>2. n < L => y[L - n] \in Nat /\ y[L - n] > 0
      BY <1>1, <3>1
    <3>3. scope[n] = IF n < L THEN y[L - n] ELSE 0
      BY <1>6 DEF W
    <3> QED BY <3>2, <3>3
  <2> QED BY <1>1, <2>1
<1>8. Cardinality(0 .. (L - 1)) = L
  <2>1. 0 \in Int /\ L - 1 \in Int
    BY <1>1
  <2>2. Cardinality(0 .. (L - 1)) = IF 0 > L - 1 THEN 0 ELSE L - 1 - 0 + 1
    BY <2>1, FS_Interval
  <2> QED BY <1>1, <2>2
<1>9. Cardinality({n \in 0 .. StackSize : scope[n] # 0}) = L
  BY <1>7, <1>8
<1> QED BY <1>9 DEF ActivationIn, View, scope, L

\* The frames, the oldest first.
FrameChain(m, t, c, d, s) ==
  /\ s \in Seq(Nat) /\ Len(s) = d
  /\ \A i \in 1 .. d : s[i] \in MajorsIn(m, t)
  /\ \A i, j \in 1 .. d : i < j => s[i] < s[j]
  /\ IF d = 0 THEN c = 0 ELSE s[d] = c /\ m[s[1]].prev = 0
  /\ \A i \in 2 .. d : m[s[i]].prev = s[i - 1]

\* FramesIn reads the list of frames off the stack.
LEMMA FramesAre ==
  ASSUME NEW m, NEW t, NEW c, NEW d, NEW s, FrameChain(m, t, c, d, s)
  PROVE  /\ d \in Nat
         /\ FramesIn(m, c, d) = [i \in 1 .. d |-> ActivationIn(m, s[i])]
<1> DEFINE W == [n \in 0 .. d |-> IF n = 0 THEN 0 ELSE s[d + 1 - n]]
           at[n \in 0 .. d] == IF n = 0 THEN 0 ELSE IF n = 1 THEN c ELSE m[at[n - 1]].prev
           Walk(f) == [n \in 0 .. d |-> IF n = 0 THEN 0 ELSE IF n = 1 THEN c ELSE m[f[n - 1]].prev]
<1>1. d \in Nat /\ (d > 0 => s[d] = c) /\ \A i \in 2 .. d : m[s[i]].prev = s[i - 1]
  BY DEF FrameChain
<1>2. /\ W[0] = 0 /\ W = [n \in 0 .. d |-> W[n]]
      /\ \A n \in 1 .. d : W[n] = IF n = 1 THEN c ELSE m[W[n - 1]].prev
  <2>1. W[0] = 0 /\ W = [n \in 0 .. d |-> W[n]]
    BY <1>1
  <2>2. ASSUME NEW n \in 1 .. d PROVE W[n] = IF n = 1 THEN c ELSE m[W[n - 1]].prev
    <3>0. n \in 0 .. d /\ n - 1 \in 0 .. d /\ W[n] = s[d + 1 - n]
      BY <1>1
    <3>1. CASE n = 1
      BY <1>1, <3>0, <3>1
    <3>2. CASE n # 1
      <4>1. d + 1 - (n - 1) \in 2 .. d /\ d + 1 - (n - 1) - 1 = d + 1 - n
        BY <1>1, <3>2
      <4>2. W[n - 1] = s[d + 1 - (n - 1)]
        BY <3>0, <3>2
      <4>3. m[s[d + 1 - (n - 1)]].prev = s[d + 1 - n]
        BY <1>1, <4>1
      <4> HIDE DEF W
      <4> QED BY <3>0, <3>2, <4>2, <4>3
    <3> QED BY <3>1, <3>2
  <2> QED BY <2>1, <2>2
<1>3. W = Walk(W)
  <2>1. \A n \in 0 .. d : n # 0 => n \in 1 .. d
    BY <1>1
  <2> HIDE DEF W
  <2>2. \A n \in 0 .. d : W[n] = IF n = 0 THEN 0 ELSE IF n = 1 THEN c ELSE m[W[n - 1]].prev
    BY <1>2, <2>1
  <2> QED BY <1>2, <2>2
<1>4. at = Walk(at)
  <2> HIDE DEF W
  <2> QED BY <1>3
<1> HIDE DEF at
<1>5. /\ at[0] = 0
      /\ \A n \in 1 .. d : at[n] = IF n = 1 THEN c ELSE m[at[n - 1]].prev
  <2>1. 0 \in 0 .. d /\ \A n \in 1 .. d : n \in 0 .. d /\ n # 0
    BY <1>1
  <2>2. \A n \in 0 .. d : at[n] = IF n = 0 THEN 0 ELSE IF n = 1 THEN c ELSE m[at[n - 1]].prev
    BY <1>4
  <2>3. ASSUME NEW n \in 1 .. d PROVE at[n] = IF n = 1 THEN c ELSE m[at[n - 1]].prev
    BY <2>1, <2>2
  <2> QED BY <2>1, <2>2, <2>3
<1>6. \A n \in 0 .. d : at[n] = W[n]
  <2> HIDE DEF W
  <2>1. \A n \in 1 .. d : at[n - 1] = W[n - 1] => at[n] = W[n]
    BY <1>2, <1>5
  <2>2. Alike(at, W, d)
    BY <1>2, <1>5, <2>1 DEF Alike
  <2> QED BY <1>1, <2>2, SameWalk
<1>7. ASSUME NEW i \in 1 .. d PROVE at[d + 1 - i] = s[i]
  <2>1. d + 1 - i \in 0 .. d /\ d + 1 - i # 0 /\ d + 1 - (d + 1 - i) = i
    BY <1>1
  <2> QED BY <1>6, <2>1
<1>8. FramesIn(m, c, d) = [i \in 1 .. d |-> ActivationIn(m, at[d + 1 - i])]
  BY DEF FramesIn, at
<1> HIDE DEF W
<1> QED BY <1>1, <1>7, <1>8

\* The cells that an activation consists of.
RegCells(f)  == {f.regs + (i - 1) : i \in 1 .. f.num_regs}
ArgCells(f)  == {f.args - (i - 1) : i \in 1 .. f.num_args}
NextCells(f) == {f.next_args - (i - 1) : i \in 1 .. f.num_next_args}

\* An argument is no register.
Places(m, t) ==
  \A o \in MajorsIn(m, t) : \A p \in ArgCells(m[o]) \cup NextCells(m[o]) : p > 0 /\ ~IsRegister(m, t, p)

\* The frames of m are the list s, their scopes are lists, their arguments are
\* in places of their own.
Book(m, t, c, d, s) ==
  /\ FrameChain(m, t, c, d, s)
  /\ \A o \in MajorsIn(m, t) : \E y : ScopeChain(m, t, o, y)
  /\ Places(m, t)

\* The registers and the arguments of a frame lie below the later frames, and no two
\* frames share a register.
LEMMA CellsLie ==
  ASSUME MaxRegs = 1, NEW m, NEW t, NEW c, NEW d, Layout(m, t, c, d), ArgsOK(m, t), Places(m, t),
         NEW o \in MajorsIn(m, t),
         NEW p \in RegCells(m[o]) \cup ArgCells(m[o]) \cup NextCells(m[o])
  PROVE  /\ p \in 1 .. t
         /\ \A q \in MajorsIn(m, t) : o < q => p < q
         /\ \A q \in MajorsIn(m, t) : q # o /\ m[q].num_regs > 0 => m[q].regs # p
         /\ m[o].num_regs > 0 => RegCells(m[o]) = {m[o].regs}
<1> USE ContextStackAssumption
<1> DEFINE M == MajorsIn(m, t)
<1>1. /\ m \in Memories /\ t \in Nat /\ c \in Nat
      /\ \A q \in M : /\ q \in Nat /\ q <= t /\ q > 0 /\ m[q].k = "major" /\ q \in Offsets
                      /\ FrameOK(m, t, q) /\ FrameArgsOK(m, t, q)
                      /\ m[q].regs \in Maybe /\ m[q].num_regs \in 0 .. MaxRegs
                      /\ m[q].args \in Maybe /\ m[q].num_args \in 0 .. MaxArgs
                      /\ m[q].next_args \in Maybe /\ m[q].num_next_args \in 0 .. MaxArgs
                      /\ m[q].prev_top \in Maybe
  <2>1. m \in Memories /\ t \in Nat /\ c \in Nat /\ \A q \in M : q \in Offsets /\ m[q].k = "major" /\ q <= t
    BY LayoutTyped
  <2>2. \A q \in M : q \in Nat /\ q > 0
    BY <2>1 DEF Offsets
  <2>3. \A q \in M : FrameOK(m, t, q) /\ FrameArgsOK(m, t, q)
    BY DEF Layout, ArgsOK
  <2> QED BY <2>1, <2>2, <2>3, MajorTyped
<1>2. ASSUME NEW q \in M, m[q].num_regs > 0
      PROVE  /\ m[q].num_regs = 1 /\ RegCells(m[q]) = {m[q].regs} /\ m[q].regs \in Nat
             /\ q < m[q].regs /\ m[q].regs <= t
  <2>1. m[q].num_regs = 1 /\ m[q].regs \in q + 1 .. t /\ m[q].regs \in Nat
    BY <1>1, <1>2 DEF FrameOK, Maybe
  <2>2. RegCells(m[q]) = {m[q].regs + (i - 1) : i \in 1 .. 1}
    BY <2>1 DEF RegCells
  <2>3. RegCells(m[q]) = {m[q].regs}
    <3>1. m[q].regs + (1 - 1) = m[q].regs
      BY <2>1
    <3>2. 1 .. 1 = {1}
      OBVIOUS
    <3> QED BY <2>2, <3>1, <3>2
  <2> QED BY <1>1, <2>1, <2>3
<1>3. ASSUME NEW q \in M, NEW x \in M, q < x, m[q].num_regs > 0 PROVE m[q].regs < x
  <2>1. Apart(m, q, x) /\ m[x].prev_top < x
    BY <1>1, <1>3 DEF Layout, FrameOK
  <2> QED BY <1>1, <1>2, <1>3, <2>1 DEF Apart, Maybe
<1>4. CASE p \in RegCells(m[o])
  <2>1. m[o].num_regs > 0
    BY <1>1, <1>4 DEF RegCells
  <2>2. p = m[o].regs /\ p \in 1 .. t /\ p \in Nat
    BY <1>1, <1>2, <1>4, <2>1
  <2>3. ASSUME NEW q \in M, q # o, m[q].num_regs > 0 PROVE m[q].regs # p
    <3>1. CASE q < o
      BY <1>1, <1>2, <1>3, <2>1, <2>2, <2>3, <3>1
    <3>2. CASE o < q
      BY <1>1, <1>2, <1>3, <2>1, <2>2, <2>3, <3>2
    <3> QED BY <1>1, <2>3, <3>1, <3>2
  <2> QED BY <1>2, <1>3, <2>1, <2>2, <2>3
<1>5. CASE p \in ArgCells(m[o]) \cup NextCells(m[o])
  <2>1. p > 0 /\ ~IsRegister(m, t, p)
    BY <1>5 DEF Places
  <2>2. CASE p \in ArgCells(m[o])
    <3>1. PICK i \in 1 .. m[o].num_args : p = m[o].args - (i - 1)
      BY <2>2 DEF ArgCells
    <3>2. m[o].num_args \in Nat /\ m[o].num_args > 0 /\ i \in Nat /\ i > 0 /\ m[o].args \in Nat
      BY <1>1, <3>1 DEF Maybe
    <3>3. p \in Int /\ p <= m[o].args
      BY <3>1, <3>2
    <3>4. m[o].args <= t /\ \A q \in M : o < q => m[o].args < q
      BY <1>1, <3>2 DEF FrameArgsOK
    <3> QED BY <1>1, <1>2, <2>1, <3>2, <3>3, <3>4 DEF IsRegister
  <2>3. CASE p \in NextCells(m[o])
    <3>1. PICK i \in 1 .. m[o].num_next_args : p = m[o].next_args - (i - 1)
      BY <2>3 DEF NextCells
    <3>2. m[o].num_next_args \in Nat /\ m[o].num_next_args > 0 /\ i \in Nat /\ i > 0 /\ m[o].next_args \in Nat
      BY <1>1, <3>1 DEF Maybe
    <3>3. p \in Int /\ p <= m[o].next_args
      BY <3>1, <3>2
    <3>4. m[o].next_args <= t /\ \A q \in M : o < q => m[o].next_args < q
      BY <1>1, <3>2 DEF FrameArgsOK
    <3> QED BY <1>1, <1>2, <2>1, <3>2, <3>3, <3>4 DEF IsRegister
  <2> QED BY <1>5, <2>2, <2>3
<1> QED BY <1>4, <1>5

\* The frames f and g have the same parts.
SameParts(f, g) ==
  /\ f.regs = g.regs /\ f.num_regs = g.num_regs /\ f.out = g.out
  /\ SameArgs(f, g)
SameFrame(f, g) == SameParts(f, g) /\ f.minor = g.minor

\* What the memory n has of the values of the frame at o is what m has.
SameValues(m, n, o) ==
  \A p \in RegCells(m[o]) \cup ArgCells(m[o]) \cup NextCells(m[o]) : ValueIn(n, p) = ValueIn(m, p)

\* The scopes of m up to u are scopes of n, with the same links.
SameScopes(m, n, t, u) ==
  \A z \in 1 .. t : z <= u /\ m[z].k = "minor" => n[z].k = "minor" /\ n[z].last = m[z].last

\* An activation is read from the fields of its frame and from its values alone.
LEMMA ViewKept ==
  ASSUME NEW m, NEW n, NEW o, NEW k, SameParts(n[o], m[o]), SameValues(m, n, o)
  PROVE  View(n, o, k) = View(m, o, k)
<1>1. /\ \A i \in 1 .. m[o].num_regs : ValueIn(n, m[o].regs + (i - 1)) = ValueIn(m, m[o].regs + (i - 1))
      /\ \A i \in 1 .. m[o].num_args : ValueIn(n, m[o].args - (i - 1)) = ValueIn(m, m[o].args - (i - 1))
      /\ \A i \in 1 .. m[o].num_next_args :
           ValueIn(n, m[o].next_args - (i - 1)) = ValueIn(m, m[o].next_args - (i - 1))
  BY DEF SameValues, RegCells, ArgCells, NextCells
<1> QED BY <1>1 DEF View, SameParts, SameArgs

\* The scopes of a frame stay what they are when their headers do.
LEMMA ChainKept ==
  ASSUME NEW m, NEW n, NEW o \in Nat, NEW t \in Nat, NEW u \in Nat, NEW y, ScopeChain(m, t, o, y),
         n[o].minor = m[o].minor, m[o].minor <= u, SameScopes(m, n, t, u)
  PROVE  ScopeChain(n, u, o, y)
<1> DEFINE L == Len(y)
<1>1. /\ y \in Seq(Nat) /\ L > 0 /\ L \in Nat /\ L \in 1 .. L /\ y[L] = m[o].minor
      /\ \A i \in 1 .. L : y[i] \in o + 1 .. t /\ i <= y[i] /\ m[y[i]].k = "minor" /\ y[i] \in Nat
      /\ \A i, j \in 1 .. L : i < j => y[i] < y[j]
      /\ m[y[1]].last = 0 /\ 1 \in 1 .. L
      /\ \A i \in 2 .. L : i \in 1 .. L /\ m[y[i]].last = y[i - 1]
  BY DEF ScopeChain
<1>2. ASSUME NEW i \in 1 .. L PROVE y[i] <= u
  <2>1. i = L \/ i < L
    BY <1>1
  <2>2. y[i] <= y[L]
    <3>1. y[i] \in Nat /\ y[L] \in Nat
      BY <1>1
    <3>2. CASE i = L
      BY <3>1, <3>2
    <3>3. CASE i < L
      <4>1. y[i] < y[L]
        BY <1>1, <3>3
      <4> QED BY <3>1, <4>1
    <3> QED BY <2>1, <3>2, <3>3
  <2> QED BY <1>1, <2>2
<1>3. ASSUME NEW i \in 1 .. L
      PROVE  y[i] \in o + 1 .. u /\ n[y[i]].k = "minor" /\ n[y[i]].last = m[y[i]].last
  <2>1. y[i] \in 1 .. t /\ y[i] \in o + 1 .. u
    BY <1>1, <1>2
  <2> QED BY <1>1, <1>2, <2>1 DEF SameScopes
<1> QED BY <1>1, <1>3 DEF ScopeChain

\* An activation stays what it is when its frame, values and scopes do.
LEMMA ActivationKept ==
  ASSUME NEW m, NEW n, NEW t \in Maybe, NEW u \in Maybe, NEW o \in MajorsIn(m, t),
         \E y : ScopeChain(m, t, o, y),
         SameFrame(n[o], m[o]), SameValues(m, n, o), SameScopes(m, n, t, u), m[o].minor <= u
  PROVE  /\ \E y : ScopeChain(n, u, o, y)
         /\ ActivationIn(n, o) = ActivationIn(m, o)
<1> USE ContextStackAssumption
<1>1. PICK y : ScopeChain(m, t, o, y)
  OBVIOUS
<1>2. o \in Nat /\ t \in Nat /\ u \in Nat
  BY DEF MajorsIn, Maybe
<1>3. ScopeChain(n, u, o, y)
  BY <1>1, <1>2, ChainKept DEF SameFrame
<1>4. View(n, o, Len(y)) = View(m, o, Len(y))
  BY ViewKept DEF SameFrame
<1> QED BY <1>1, <1>2, <1>3, <1>4, ScopesCounted

SameFrames(m, n, t, u) ==
  MajorsIn(n, u) = MajorsIn(m, t) /\ \A o \in MajorsIn(m, t) : n[o].prev = m[o].prev

\* The list of the frames stays what it is when their links do.
LEMMA SameChain ==
  ASSUME NEW m, NEW n, NEW t, NEW u, NEW c, NEW d, NEW s, FrameChain(m, t, c, d, s),
         SameFrames(m, n, t, u)
  PROVE  FrameChain(n, u, c, d, s)
<1> USE DEF SameFrames
<1>1. d \in Nat /\ \A i \in 1 .. d : s[i] \in MajorsIn(m, t)
  BY DEF FrameChain
<1>2. \A i \in 2 .. d : i \in 1 .. d
  BY <1>1
<1>3. d # 0 => 1 \in 1 .. d
  BY <1>1
<1> QED BY <1>1, <1>2, <1>3 DEF FrameChain

\* The registers and the arguments stay where they are when the frames say so.
LEMMA SamePlaces ==
  ASSUME NEW m, NEW n, NEW t, NEW u, Places(m, t), MajorsIn(n, u) \subseteq MajorsIn(m, t),
         \A o \in MajorsIn(n, u) :
           /\ n[o].num_regs = m[o].num_regs /\ n[o].regs = m[o].regs
           /\ n[o].num_args = m[o].num_args /\ n[o].args = m[o].args
           /\ \A p \in NextCells(n[o]) : p \in NextCells(m[o]) \/ (p > 0 /\ ~IsRegister(m, t, p))
  PROVE  Places(n, u)
<1>1. \A p : IsRegister(n, u, p) => IsRegister(m, t, p)
  BY DEF IsRegister
<1>2. ASSUME NEW o \in MajorsIn(n, u), NEW p \in ArgCells(n[o]) \cup NextCells(n[o])
      PROVE  p > 0 /\ ~IsRegister(m, t, p)
  <2>1. o \in MajorsIn(m, t) /\ ArgCells(n[o]) = ArgCells(m[o])
    BY DEF ArgCells
  <2>2. CASE p \in ArgCells(n[o])
    BY <2>1, <2>2 DEF Places
  <2>3. CASE p \in NextCells(n[o])
    BY <2>1, <2>3 DEF Places
  <2> QED BY <1>2, <2>2, <2>3
<1> QED BY <1>1, <1>2 DEF Places

\* All activations but the one at w are kept.
Others(m, n, t, w) == \A o \in MajorsIn(m, t) : o # w => ActivationIn(n, o) = ActivationIn(m, o)

\* What is known of the frames and scopes of a memory that has them in order.
LEMMA BookFacts ==
  ASSUME MaxRegs = 1, NEW m, NEW t, NEW c, NEW d, NEW s, Layout(m, t, c, d), Book(m, t, c, d, s)
  PROVE  /\ m \in Memories /\ t \in Nat /\ t \in Maybe /\ c \in Nat /\ d \in Nat
         /\ 1 .. t \subseteq Offsets /\ t <= StackSize
         /\ c # 0 => c \in MajorsIn(m, t)
         /\ \A o \in MajorsIn(m, t) :
              /\ o \in Nat /\ o \in 1 .. t /\ o \in Offsets /\ m[o].k = "major" /\ m[o] \in MajorFrame /\ o <= c
              /\ FrameOK(m, t, o) /\ m[o].minor <= t /\ m[o].minor \in Nat
              /\ m[o].num_regs \in {0, 1} /\ m[o].regs \in Nat
              /\ \E y : ScopeChain(m, t, o, y)
<1> USE ContextStackAssumption
<1>1. /\ m \in Memories /\ t \in Nat /\ t \in Maybe /\ c \in Nat /\ d \in Nat /\ 1 .. t \subseteq Offsets
      /\ t <= StackSize
      /\ \A o \in MajorsIn(m, t) : o \in Offsets /\ o \in Nat /\ m[o].k = "major" /\ o \in 1 .. t
  BY LayoutTyped DEF MajorsIn
<1>2. ASSUME NEW o \in MajorsIn(m, t)
      PROVE  /\ m[o] \in MajorFrame /\ o <= c /\ FrameOK(m, t, o) /\ m[o].minor <= t /\ m[o].minor \in Nat
             /\ m[o].num_regs \in {0, 1} /\ m[o].regs \in Nat
  <2>1. FrameOK(m, t, o) /\ o <= c
    BY DEF Layout
  <2>2. m[o] \in MajorFrame /\ m[o].num_regs \in 0 .. MaxRegs /\ m[o].regs \in Maybe
    BY <1>1, MajorTyped
  <2>3. m[o].minor \in o + 1 .. t
    BY <2>1 DEF FrameOK
  <2> QED BY <1>1, <2>1, <2>2, <2>3 DEF Maybe
<1>3. c # 0 => c \in MajorsIn(m, t)
  BY DEF Layout
<1> QED BY <1>1, <1>2, <1>3 DEF Book

\* The memory grows, or changes in cells that are no part of an activation.
LEMMA Grown ==
  ASSUME MaxRegs = 1, NEW m, NEW n, NEW t, NEW u \in Maybe, NEW c, NEW d, NEW s,
         Layout(m, t, c, d), ArgsOK(m, t), Book(m, t, c, d, s), t <= u,
         \A o \in 1 .. t : /\ n[o].k = m[o].k
                           /\ m[o].k = "major" => n[o] = m[o]
                           /\ m[o].k = "minor" => n[o].last = m[o].last
                           /\ m[o].k = "value" => n[o].v = m[o].v,
         \A o \in t + 1 .. u : n[o].k # "major"
  PROVE  Book(n, u, c, d, s) /\ \A o \in MajorsIn(m, t) : ActivationIn(n, o) = ActivationIn(m, o)
<1> USE ContextStackAssumption
<1> DEFINE M == MajorsIn(m, t)
<1>1. /\ t \in Nat /\ t \in Maybe /\ u \in Nat /\ 1 .. t \subseteq Offsets
      /\ \A o \in M : o \in 1 .. t /\ m[o].k = "major" /\ m[o].minor <= t /\ m[o].minor \in Nat
                      /\ \E y : ScopeChain(m, t, o, y)
  BY BookFacts DEF Maybe
<1>2. MajorsIn(n, u) = M
  BY <1>1 DEF MajorsIn
<1>3. \A o \in M : n[o] = m[o]
  BY <1>1
<1>4. \A p \in 1 .. t : ValueIn(n, p) = ValueIn(m, p)
  BY DEF ValueIn
<1>5. ASSUME NEW o \in M
      PROVE  (\E y : ScopeChain(n, u, o, y)) /\ ActivationIn(n, o) = ActivationIn(m, o)
  <2>1. SameFrame(n[o], m[o])
    BY <1>3 DEF SameFrame, SameParts, SameArgs
  <2>2. SameValues(m, n, o)
    BY <1>4, CellsLie DEF SameValues, Book
  <2>3. SameScopes(m, n, t, u)
    BY DEF SameScopes
  <2>4. m[o].minor <= u
    BY <1>1
  <2> HIDE DEF M
  <2> QED BY <1>1, <2>1, <2>2, <2>3, <2>4, ActivationKept DEF M
<1>6. FrameChain(n, u, c, d, s)
  <2>1. FrameChain(m, t, c, d, s) /\ SameFrames(m, n, t, u)
    BY <1>2, <1>3 DEF Book, SameFrames
  <2> QED BY <2>1, SameChain
<1>7. Places(n, u)
  <2>1. MajorsIn(n, u) \subseteq MajorsIn(m, t) /\ Places(m, t)
    BY <1>2 DEF Book
  <2>2. \A o \in MajorsIn(n, u) :
          /\ n[o].num_regs = m[o].num_regs /\ n[o].regs = m[o].regs
          /\ n[o].num_args = m[o].num_args /\ n[o].args = m[o].args
          /\ \A p \in NextCells(n[o]) : p \in NextCells(m[o]) \/ (p > 0 /\ ~IsRegister(m, t, p))
    BY <1>2, <1>3
  <2> QED BY <2>1, <2>2, SamePlaces
<1> QED BY <1>2, <1>5, <1>6, <1>7 DEF Book

\* The parts of an activation.
Act(r, a, p, k, u) == [regs |-> r, args |-> a, pending |-> p, scopes |-> k, out |-> u]

RegsIn(m, f)    == [i \in 1 .. f.num_regs |-> ValueIn(m, f.regs + (i - 1))]
ArgsIn(m, f)    == [i \in 1 .. f.num_args |-> ValueIn(m, f.args - (i - 1))]
PendingIn(m, f) == [i \in 1 .. f.num_next_args |-> ValueIn(m, f.next_args - (i - 1))]

\* An activation has five parts.
LEMMA ViewParts ==
  ASSUME NEW m, NEW o, NEW k
  PROVE  View(m, o, k) = Act(RegsIn(m, m[o]), ArgsIn(m, m[o]), PendingIn(m, m[o]), k, m[o].out)
BY DEF View, Act, RegsIn, ArgsIn, PendingIn

\* Each part of an activation is replaced by itself.
LEMMA PartsChange ==
  ASSUME NEW r, NEW a, NEW p, NEW k, NEW u, NEW x
  PROVE  /\ [Act(r, a, p, k, u) EXCEPT !.regs = x] = Act(x, a, p, k, u)
         /\ [Act(r, a, p, k, u) EXCEPT !.pending = x] = Act(r, a, x, k, u)
         /\ [Act(r, a, p, k, u) EXCEPT !.scopes = x] = Act(r, a, p, x, u)
         /\ Act(r, a, p, k, u).regs = r /\ Act(r, a, p, k, u).args = a
         /\ Act(r, a, p, k, u).pending = p /\ Act(r, a, p, k, u).scopes = k
         /\ Act(r, a, p, k, u).out = u
BY DEF Act

\* A register of the frame at w has been written.
AfterWrite(m, n, t, c, d, s, w, v) ==
  /\ Layout(n, t, c, d) /\ ArgsOK(n, t) /\ Book(n, t, c, d, s) /\ Others(m, n, t, w)
  /\ MajorsIn(n, t) = MajorsIn(m, t)
  /\ \A o \in 1 .. t : o # m[w].regs => n[o] = m[o]
  /\ ActivationIn(m, w).regs \in [1 .. 1 -> {ActivationIn(m, w).regs[1]}]
  /\ ActivationIn(n, w) = [ActivationIn(m, w) EXCEPT !.regs = [i \in 1 .. 1 |-> v]]

\* Writing a register changes that register of that activation, and nothing else.
LEMMA RegisterWritten ==
  ASSUME MaxRegs = 1, NEW m, NEW t, NEW c, NEW d, NEW s,
         Layout(m, t, c, d), ArgsOK(m, t), Book(m, t, c, d, s),
         NEW w \in MajorsIn(m, t), m[w].num_regs > 0, NEW v, Cellular(v) \in Cell,
         NEW n, n = [m EXCEPT ![m[w].regs] = Cellular(v)]
  PROVE  AfterWrite(m, n, t, c, d, s, w, v)
<1> USE ContextStackAssumption
<1> DEFINE M == MajorsIn(m, t)
           r == m[w].regs
<1>1. /\ m \in Memories /\ t \in Nat /\ t \in Maybe /\ 1 .. t \subseteq Offsets /\ c \in Nat
      /\ \A o \in M : o \in 1 .. t /\ o \in Nat /\ m[o].k = "major" /\ m[o].minor <= t /\ m[o].minor \in Nat
                      /\ \E y : ScopeChain(m, t, o, y)
      /\ m[w].num_regs = 1 /\ r \in Nat /\ FrameOK(m, t, w)
  BY BookFacts
<1>2. r \in 1 .. t /\ m[r].k = "value" /\ r \in Offsets
  BY <1>1 DEF FrameOK
<1>3. /\ n \in Memories /\ n[r] = Cellular(v)
      /\ \A o \in 1 .. t : o # r => n[o] = m[o]
  <2> HIDE DEF r
  <2>1. n = [m EXCEPT ![r] = Cellular(v)]
    BY DEF r
  <2> QED BY <1>1, <1>2, <2>1 DEF Memories
<1>4. n[r].k = "value" /\ n[r].v = v
  BY <1>3 DEF Cellular
<1> HIDE DEF r
<1>5. \A o \in 1 .. t : n[o].k = m[o].k /\ Same(m, n, o)
  BY <1>2, <1>3, <1>4 DEF Same
<1>6. Layout(n, t, c, d)
  <2>1. t <= t /\ \A o \in t + 1 .. t : n[o].k \notin {"major", "minor"}
    BY <1>1
  <2> QED BY <1>1, <1>3, <1>5, <2>1, KeepLayout
<1>7. MajorsIn(n, t) = M /\ MinorsIn(n, t) = MinorsIn(m, t)
  BY <1>5 DEF MajorsIn, MinorsIn
<1>8. /\ \A o \in M : n[o] = m[o]
      /\ \A o \in MinorsIn(m, t) : n[o] = m[o]
  BY <1>1, <1>2, <1>3 DEF MinorsIn
<1>9. ArgsOK(n, t)
  BY <1>7, <1>8 DEF ArgsOK, FrameArgsOK
<1>10. FrameChain(n, t, c, d, s)
  <2>1. FrameChain(m, t, c, d, s) /\ SameFrames(m, n, t, t)
    BY <1>7, <1>8 DEF Book, SameFrames
  <2> HIDE DEF M
  <2> QED BY <2>1, SameChain
<1>11. Places(n, t)
  <2>1. MajorsIn(n, t) \subseteq MajorsIn(m, t) /\ Places(m, t)
    BY <1>7 DEF Book
  <2>2. \A o \in MajorsIn(n, t) :
          /\ n[o].num_regs = m[o].num_regs /\ n[o].regs = m[o].regs
          /\ n[o].num_args = m[o].num_args /\ n[o].args = m[o].args
          /\ \A p \in NextCells(n[o]) : p \in NextCells(m[o]) \/ (p > 0 /\ ~IsRegister(m, t, p))
    BY <1>7, <1>8
  <2> QED BY <2>1, <2>2, SamePlaces
<1>12. \A p \in 1 .. t : p # r => ValueIn(n, p) = ValueIn(m, p)
  BY <1>3 DEF ValueIn
<1>13. SameScopes(m, n, t, t)
  BY <1>2, <1>3 DEF SameScopes
<1>14. ASSUME NEW o \in M, o # w
       PROVE  (\E y : ScopeChain(n, t, o, y)) /\ ActivationIn(n, o) = ActivationIn(m, o)
  <2>1. SameFrame(n[o], m[o])
    BY <1>8 DEF SameFrame, SameParts, SameArgs
  <2>2. SameValues(m, n, o)
    <3> SUFFICES ASSUME NEW p \in RegCells(m[o]) \cup ArgCells(m[o]) \cup NextCells(m[o])
                 PROVE  ValueIn(n, p) = ValueIn(m, p)
      BY DEF SameValues
    <3>1. p \in 1 .. t /\ p # r
      <4> HIDE DEF M
      <4>1. w # o /\ w \in MajorsIn(m, t) /\ o \in MajorsIn(m, t) /\ Places(m, t)
        BY <1>14 DEF M, Book
      <4> QED BY <4>1, CellsLie DEF r
    <3> QED BY <1>12, <3>1
  <2> HIDE DEF M
  <2> QED BY <1>1, <1>13, <2>1, <2>2, ActivationKept DEF M
<1>15. PICK y : ScopeChain(m, t, w, y)
  BY <1>1
<1>16. ScopeChain(n, t, w, y)
  <2>1. n[w].minor = m[w].minor /\ m[w].minor <= t /\ w \in Nat
    BY <1>1, <1>8
  <2> QED BY <1>1, <1>13, <1>15, <2>1, ChainKept
<1>17. ActivationIn(m, w) = View(m, w, Len(y)) /\ ActivationIn(n, w) = View(n, w, Len(y))
  BY <1>1, <1>15, <1>16, ScopesCounted
<1>18. /\ \A p \in ArgCells(m[w]) : ValueIn(n, p) = ValueIn(m, p)
       /\ \A p \in NextCells(m[w]) : ValueIn(n, p) = ValueIn(m, p)
  <2>1. ASSUME NEW p \in ArgCells(m[w]) \cup NextCells(m[w]) PROVE ValueIn(n, p) = ValueIn(m, p)
    <3>1. p \in 1 .. t
      BY CellsLie DEF Book
    <3>2. p # r
      BY <1>1, <2>1 DEF Book, Places, IsRegister, r
    <3> QED BY <1>12, <3>1, <3>2
  <2> QED BY <2>1
<1>19. View(m, w, Len(y)).regs = [i \in 1 .. 1 |-> ValueIn(m, r)]
  <2>1. View(m, w, Len(y)).regs = [i \in 1 .. m[w].num_regs |-> ValueIn(m, m[w].regs + (i - 1))]
    BY DEF View
  <2>2. \A i \in 1 .. 1 : m[w].regs + (i - 1) = r
    BY <1>1 DEF r
  <2>3. View(m, w, Len(y)).regs = [i \in 1 .. 1 |-> ValueIn(m, m[w].regs + (i - 1))]
    BY <1>1, <2>1
  <2> QED BY <2>2, <2>3
<1>20. View(n, w, Len(y)).regs = [i \in 1 .. 1 |-> v]
  <2>1. \A i \in 1 .. 1 : n[w].regs + (i - 1) = r /\ n[w].num_regs = 1
    BY <1>1, <1>8 DEF r
  <2>2. ValueIn(n, r) = v
    BY <1>2, <1>4 DEF ValueIn
  <2>3. View(n, w, Len(y)).regs = [i \in 1 .. n[w].num_regs |-> ValueIn(n, n[w].regs + (i - 1))]
    BY DEF View
  <2>4. n[w].num_regs = 1
    BY <1>1, <1>8
  <2>5. View(n, w, Len(y)).regs = [i \in 1 .. 1 |-> ValueIn(n, n[w].regs + (i - 1))]
    BY <2>3, <2>4
  <2> QED BY <2>1, <2>2, <2>5
<1>21. View(n, w, Len(y)) = [View(m, w, Len(y)) EXCEPT !.regs = [i \in 1 .. 1 |-> v]]
  <2>1. n[w] = m[w]
    BY <1>8
  <2>2. ArgsIn(n, m[w]) = ArgsIn(m, m[w]) /\ PendingIn(n, m[w]) = PendingIn(m, m[w])
    BY <1>18 DEF ArgCells, NextCells, ArgsIn, PendingIn
  <2>3. View(n, w, Len(y)) = Act(View(n, w, Len(y)).regs, ArgsIn(m, m[w]), PendingIn(m, m[w]), Len(y), m[w].out)
    <3>1. View(n, w, Len(y)) = Act(RegsIn(n, m[w]), ArgsIn(n, m[w]), PendingIn(n, m[w]), Len(y), m[w].out)
      BY <2>1, ViewParts
    <3>2. View(n, w, Len(y)).regs = RegsIn(n, m[w])
      BY <3>1, PartsChange
    <3> QED BY <2>2, <3>1, <3>2
  <2>4. View(m, w, Len(y)) = Act(RegsIn(m, m[w]), ArgsIn(m, m[w]), PendingIn(m, m[w]), Len(y), m[w].out)
    BY ViewParts
  <2> QED BY <1>20, <2>3, <2>4, PartsChange
<1>22. Book(n, t, c, d, s)
  <2>1. \A o \in M : \E z : ScopeChain(n, t, o, z)
    BY <1>14, <1>16
  <2> QED BY <1>7, <1>10, <1>11, <2>1 DEF Book
<1>23. ActivationIn(m, w).regs \in [1 .. 1 -> {ActivationIn(m, w).regs[1]}]
  BY <1>17, <1>19
<1> QED BY <1>3, <1>6, <1>7, <1>9, <1>14, <1>17, <1>21, <1>22, <1>23 DEF Others, AfterWrite, r

\* What follows from it.
ChainShape(m, t, o, y) ==
  /\ y \in Seq(Nat) /\ Len(y) \in Nat /\ Len(y) > 0 /\ 1 \in 1 .. Len(y)
  /\ Len(y) \in 1 .. Len(y) /\ y[Len(y)] = m[o].minor
  /\ \A i \in 1 .. Len(y) : /\ y[i] \in Nat /\ o < y[i] /\ y[i] <= t /\ i <= y[i]
                            /\ m[y[i]].k = "minor"
  /\ \A i, j \in 1 .. Len(y) : i < j => y[i] < y[j]
  /\ m[y[1]].last = 0
  /\ \A i \in 2 .. Len(y) : i \in 1 .. Len(y) /\ i - 1 \in 1 .. Len(y) /\ m[y[i]].last = y[i - 1]

\* The list of the scopes of a frame, in the form that later lemmas use.
LEMMA ChainFacts ==
  ASSUME NEW m, NEW t \in Nat, NEW o \in Nat, NEW y, ScopeChain(m, t, o, y)
  PROVE  ChainShape(m, t, o, y)
<1>1. /\ y \in Seq(Nat) /\ Len(y) \in Nat /\ Len(y) > 0
      /\ \A i \in 1 .. Len(y) : y[i] \in Nat
  BY DEF ScopeChain
<1>2. \A i \in 1 .. Len(y) : o < y[i] /\ y[i] <= t /\ i <= y[i] /\ m[y[i]].k = "minor"
  BY <1>1 DEF ScopeChain
<1> QED BY <1>1, <1>2 DEF ScopeChain, ChainShape

\* The header of the current frame gets other pending arguments.
LEMMA ActivationPended ==
  ASSUME NEW m, NEW n, NEW t \in Maybe, NEW u \in Maybe, NEW o \in MajorsIn(m, t),
         \E y : ScopeChain(m, t, o, y),
         ButNext(n[o], m[o]), SameReceived(n[o], m[o]),
         \A p \in RegCells(m[o]) \cup ArgCells(m[o]) : ValueIn(n, p) = ValueIn(m, p),
         SameScopes(m, n, t, u), m[o].minor <= u
  PROVE  /\ \E y : ScopeChain(n, u, o, y)
         /\ ActivationIn(n, o) = [ActivationIn(m, o) EXCEPT !.pending = PendingIn(n, n[o])]
<1> USE ContextStackAssumption
<1>1. PICK y : ScopeChain(m, t, o, y)
  OBVIOUS
<1>2. o \in Nat /\ t \in Nat /\ u \in Nat
  BY DEF MajorsIn, Maybe
<1>3. ScopeChain(n, u, o, y)
  BY <1>1, <1>2, ChainKept DEF ButNext
<1>4. RegsIn(n, n[o]) = RegsIn(m, m[o]) /\ ArgsIn(n, n[o]) = ArgsIn(m, m[o]) /\ n[o].out = m[o].out
  <2>1. /\ n[o].regs = m[o].regs /\ n[o].num_regs = m[o].num_regs /\ n[o].out = m[o].out
        /\ n[o].args = m[o].args /\ n[o].num_args = m[o].num_args
    BY DEF ButNext, SameReceived
  <2>2. /\ \A i \in 1 .. m[o].num_regs : ValueIn(n, m[o].regs + (i - 1)) = ValueIn(m, m[o].regs + (i - 1))
        /\ \A i \in 1 .. m[o].num_args : ValueIn(n, m[o].args - (i - 1)) = ValueIn(m, m[o].args - (i - 1))
    BY DEF RegCells, ArgCells
  <2> QED BY <2>1, <2>2 DEF RegsIn, ArgsIn
<1>5. View(n, o, Len(y)) = Act(RegsIn(m, m[o]), ArgsIn(m, m[o]), PendingIn(n, n[o]), Len(y), m[o].out)
  BY <1>4, ViewParts
<1>6. View(m, o, Len(y)) = Act(RegsIn(m, m[o]), ArgsIn(m, m[o]), PendingIn(m, m[o]), Len(y), m[o].out)
  BY ViewParts
<1>7. View(n, o, Len(y)) = [View(m, o, Len(y)) EXCEPT !.pending = PendingIn(n, n[o])]
  BY <1>5, <1>6, PartsChange
<1>8. ActivationIn(m, o) = View(m, o, Len(y)) /\ ActivationIn(n, o) = View(n, o, Len(y))
  BY <1>1, <1>2, <1>3, ScopesCounted
<1> QED BY <1>3, <1>7, <1>8

\* Arguments pushed for the next call change the pending ones of the newest activation,
\* and nothing else.
LEMMA Pended ==
  ASSUME MaxRegs = 1, NEW m, NEW n, NEW t, NEW u \in Maybe, NEW c, NEW d, NEW s,
         Layout(m, t, c, d), ArgsOK(m, t), Book(m, t, c, d, s), t <= u, c # 0,
         \A o \in 1 .. t : o # c => n[o] = m[o],
         ButNext(n[c], m[c]), SameReceived(n[c], m[c]),
         \A o \in t + 1 .. u : n[o].k = "value",
         \A p \in NextCells(n[c]) : p > 0 /\ ~IsRegister(m, t, p)
  PROVE  /\ Book(n, u, c, d, s) /\ Others(m, n, t, c)
         /\ ActivationIn(n, c) = [ActivationIn(m, c) EXCEPT !.pending = PendingIn(n, n[c])]
<1> USE ContextStackAssumption
<1>1. /\ t \in Nat /\ t \in Maybe /\ u \in Nat /\ c \in Nat
      /\ c \in MajorsIn(m, t) /\ m[c].k = "major" /\ n[c].k = "major"
      /\ \A o \in MajorsIn(m, t) : o \in 1 .. t /\ m[o].k = "major" /\ m[o].minor <= t /\ m[o].minor \in Nat
                                   /\ \E y : ScopeChain(m, t, o, y)
  BY BookFacts DEF Maybe, ButNext
<1>2. MajorsIn(n, u) = MajorsIn(m, t)
  <2>1. \A o \in 1 .. u : o \in 1 .. t \/ o \in t + 1 .. u
    BY <1>1
  <2>2. \A o \in 1 .. t : n[o].k = m[o].k
    BY <1>1
  <2>3. 1 .. t \subseteq 1 .. u
    BY <1>1
  <2> QED BY <2>1, <2>2, <2>3 DEF MajorsIn
<1>3. /\ \A o \in MajorsIn(m, t) : o # c => n[o] = m[o]
      /\ \A o \in MajorsIn(m, t) : n[o].prev = m[o].prev
  BY <1>1 DEF ButNext
<1>4. \A p \in 1 .. t : ValueIn(n, p) = ValueIn(m, p)
  BY <1>1 DEF ValueIn
<1>5. SameScopes(m, n, t, u)
  BY <1>1 DEF SameScopes
<1>6. ASSUME NEW o \in MajorsIn(m, t)
      PROVE  \A p \in RegCells(m[o]) \cup ArgCells(m[o]) \cup NextCells(m[o]) : ValueIn(n, p) = ValueIn(m, p)
  BY <1>4, CellsLie DEF Book
<1>7. ASSUME NEW o \in MajorsIn(m, t), o # c
      PROVE  (\E y : ScopeChain(n, u, o, y)) /\ ActivationIn(n, o) = ActivationIn(m, o)
  <2>1. SameFrame(n[o], m[o])
    BY <1>3, <1>7 DEF SameFrame, SameParts, SameArgs
  <2>2. SameValues(m, n, o)
    BY <1>6 DEF SameValues
  <2>3. m[o].minor <= u
    <3>1. m[o].minor <= t /\ m[o].minor \in Nat
      BY <1>1
    <3> QED BY <1>1, <3>1
  <2> QED BY <1>1, <1>5, <2>1, <2>2, <2>3, ActivationKept
<1>8. /\ \E y : ScopeChain(n, u, c, y)
      /\ ActivationIn(n, c) = [ActivationIn(m, c) EXCEPT !.pending = PendingIn(n, n[c])]
  <2>1. m[c].minor <= u
    <3>1. m[c].minor <= t /\ m[c].minor \in Nat
      BY <1>1
    <3> QED BY <1>1, <3>1
  <2>2. \A p \in RegCells(m[c]) \cup ArgCells(m[c]) : ValueIn(n, p) = ValueIn(m, p)
    BY <1>1, <1>6
  <2> QED BY <1>1, <1>5, <2>1, <2>2, ActivationPended
<1>9. FrameChain(n, u, c, d, s)
  <2>1. FrameChain(m, t, c, d, s) /\ SameFrames(m, n, t, u)
    BY <1>2, <1>3 DEF Book, SameFrames
  <2> QED BY <2>1, SameChain
<1>10. Places(n, u)
  <2>1. MajorsIn(n, u) \subseteq MajorsIn(m, t) /\ Places(m, t)
    BY <1>2 DEF Book
  <2>2. \A o \in MajorsIn(n, u) :
          /\ n[o].num_regs = m[o].num_regs /\ n[o].regs = m[o].regs
          /\ n[o].num_args = m[o].num_args /\ n[o].args = m[o].args
          /\ \A p \in NextCells(n[o]) : p \in NextCells(m[o]) \/ (p > 0 /\ ~IsRegister(m, t, p))
    BY <1>2, <1>3 DEF ButNext, SameReceived
  <2> QED BY <2>1, <2>2, SamePlaces
<1>11. \A o \in MajorsIn(n, u) : \E y : ScopeChain(n, u, o, y)
  BY <1>2, <1>7, <1>8
<1> QED BY <1>7, <1>8, <1>9, <1>10, <1>11 DEF Book, Others

\* A scope is entered.
LEMMA ScopeEntered ==
  ASSUME MaxRegs = 1, NEW m, NEW n, NEW t, NEW u \in Maybe, NEW c, NEW d, NEW s,
         Layout(m, t, c, d), ArgsOK(m, t), Book(m, t, c, d, s),
         Entered(m, n, t, u, c), SameArgs(n[c], m[c])
  PROVE  /\ Book(n, u, c, d, s) /\ Others(m, n, t, c)
         /\ ActivationIn(n, c) = [ActivationIn(m, c) EXCEPT !.scopes = @ + 1]
<1> USE ContextStackAssumption
<1>1. /\ t \in Nat /\ t \in Maybe /\ u \in Nat /\ c \in Nat /\ u = t + 1 /\ c # 0 /\ c <= t
      /\ c \in MajorsIn(m, t) /\ m[c].k = "major" /\ n[c].k = "major" /\ n[u].k = "minor"
      /\ n[u].last = m[c].minor /\ n[c].minor = u
      /\ \A o \in 1 .. t : o # c => n[o] = m[o]
      /\ \A o \in MajorsIn(m, t) : o \in 1 .. t /\ m[o].k = "major" /\ m[o].minor <= t /\ m[o].minor \in Nat
                                   /\ \E y : ScopeChain(m, t, o, y)
  BY BookFacts DEF Maybe, ButScope, Entered
<1>2. MajorsIn(n, u) = MajorsIn(m, t)
  <2>1. \A o \in 1 .. u : o \in 1 .. t \/ o = u
    BY <1>1
  <2>2. \A o \in 1 .. t : n[o].k = m[o].k
    BY <1>1
  <2>3. 1 .. t \subseteq 1 .. u
    BY <1>1
  <2> QED BY <1>1, <2>1, <2>2, <2>3 DEF MajorsIn
<1>3. /\ \A o \in MajorsIn(m, t) : o # c => n[o] = m[o]
      /\ \A o \in MajorsIn(m, t) : n[o].prev = m[o].prev /\ SameParts(n[o], m[o])
  BY <1>1 DEF Entered, ButScope, SameParts, SameArgs
<1>4. \A p \in 1 .. t : ValueIn(n, p) = ValueIn(m, p)
  BY <1>1 DEF ValueIn
<1>5. SameScopes(m, n, t, u) /\ SameScopes(m, n, t, t)
  BY <1>1 DEF SameScopes
<1>6. ASSUME NEW o \in MajorsIn(m, t) PROVE SameValues(m, n, o)
  BY <1>4, CellsLie DEF Book, SameValues
<1>7. ASSUME NEW o \in MajorsIn(m, t), o # c
      PROVE  (\E y : ScopeChain(n, u, o, y)) /\ ActivationIn(n, o) = ActivationIn(m, o)
  <2>1. SameFrame(n[o], m[o])
    BY <1>3, <1>7 DEF SameFrame
  <2>2. m[o].minor <= u
    <3>1. m[o].minor <= t /\ m[o].minor \in Nat
      BY <1>1
    <3> QED BY <1>1, <3>1
  <2> QED BY <1>1, <1>5, <1>6, <2>1, <2>2, ActivationKept
<1>8. PICK y : ScopeChain(m, t, c, y)
  BY <1>1
<1> DEFINE L == Len(y)
           z == Append(y, u)
<1>9. ScopeChain(n, u, c, z) /\ Len(z) = L + 1
  <2> HIDE DEF z
  <2>1. /\ y \in Seq(Nat) /\ L \in Nat /\ L > 0 /\ 1 \in 1 .. L
        /\ L \in 1 .. L /\ y[L] = m[c].minor
        /\ \A i \in 1 .. L : /\ y[i] \in Nat /\ c < y[i] /\ y[i] <= t /\ i <= y[i]
                             /\ m[y[i]].k = "minor"
        /\ \A i, j \in 1 .. L : i < j => y[i] < y[j]
        /\ m[y[1]].last = 0
        /\ \A i \in 2 .. L : i \in 1 .. L /\ i - 1 \in 1 .. L /\ m[y[i]].last = y[i - 1]
    <3>1. t \in Nat /\ c \in Nat /\ ScopeChain(m, t, c, y)
      BY <1>1, <1>8
    <3>2. ChainShape(m, t, c, y)
      BY <3>1, ChainFacts
    <3> QED BY <3>2 DEF ChainShape
  <2>2. z \in Seq(Nat) /\ Len(z) = L + 1 /\ z[L + 1] = u /\ \A i \in 1 .. L : z[i] = y[i]
    BY <1>1, <2>1 DEF z
  <2> HIDE DEF L
  <2>3. \A i \in 1 .. L : n[y[i]] = m[y[i]]
    <3> SUFFICES ASSUME NEW i \in 1 .. L PROVE n[y[i]] = m[y[i]]
      OBVIOUS
    <3>1. y[i] \in Nat /\ c < y[i] /\ y[i] <= t
      BY <2>1
    <3>2. y[i] \in 1 .. t /\ y[i] # c
      BY <1>1, <3>1
    <3> QED BY <1>1, <3>2
  <2>4. ASSUME NEW i \in 1 .. L + 1
        PROVE  z[i] \in c + 1 .. u /\ i <= z[i] /\ n[z[i]].k = "minor"
    <3>1. CASE i \in 1 .. L
      <4>1. z[i] = y[i] /\ n[y[i]] = m[y[i]]
        BY <2>2, <2>3, <3>1
      <4>2. y[i] \in Nat /\ c < y[i] /\ y[i] <= t /\ i <= y[i] /\ m[y[i]].k = "minor"
        BY <2>1, <3>1
      <4> QED BY <1>1, <4>1, <4>2
    <3>2. CASE i = L + 1
      <4>1. L <= y[L] /\ y[L] <= t /\ y[L] \in Nat
        BY <2>1
      <4>2. z[i] = u
        BY <2>2, <3>2
      <4>3. i <= u /\ u \in c + 1 .. u
        BY <1>1, <2>1, <3>2, <4>1
      <4> QED BY <1>1, <4>2, <4>3
    <3> QED BY <2>1, <3>1, <3>2
  <2>5. ASSUME NEW i \in 1 .. L + 1, NEW j \in 1 .. L + 1, i < j PROVE z[i] < z[j]
    <3>1. i \in 1 .. L /\ z[i] = y[i] /\ y[i] <= t /\ y[i] \in Nat
      BY <2>1, <2>2, <2>5
    <3>2. CASE j \in 1 .. L
      BY <2>1, <2>2, <2>5, <3>1, <3>2
    <3>3. CASE j = L + 1
      BY <1>1, <2>2, <3>1, <3>3
    <3> QED BY <2>1, <3>2, <3>3
  <2>6. ASSUME NEW i \in 2 .. L + 1 PROVE n[z[i]].last = z[i - 1]
    <3>1. CASE i \in 2 .. L
      <4>1. i \in 1 .. L /\ i - 1 \in 1 .. L
        BY <2>1, <3>1
      <4>2. z[i] = y[i] /\ z[i - 1] = y[i - 1] /\ n[y[i]] = m[y[i]] /\ m[y[i]].last = y[i - 1]
        BY <2>1, <2>2, <2>3, <3>1, <4>1
      <4> QED BY <4>2
    <3>2. CASE i = L + 1
      <4>1. i - 1 = L /\ L \in 1 .. L
        BY <2>1, <3>2
      <4>2. z[i] = u /\ z[i - 1] = y[L]
        BY <2>2, <3>2, <4>1
      <4> QED BY <1>1, <2>1, <4>2
    <3> QED BY <2>1, <3>1, <3>2
  <2>7. n[z[1]].last = 0
    BY <2>1, <2>2, <2>3
  <2> QED BY <1>1, <2>1, <2>2, <2>4, <2>5, <2>6, <2>7 DEF ScopeChain
<1>10. ActivationIn(n, c) = [ActivationIn(m, c) EXCEPT !.scopes = @ + 1]
  <2> HIDE DEF z
  <2>1. ActivationIn(m, c) = View(m, c, L) /\ ActivationIn(n, c) = View(n, c, Len(z))
    BY <1>1, <1>8, <1>9, ScopesCounted
  <2>2. View(n, c, L + 1) = View(m, c, L + 1)
    BY <1>1, <1>3, <1>6, ViewKept
  <2>3. View(m, c, L + 1) = [View(m, c, L) EXCEPT !.scopes = L + 1] /\ View(m, c, L).scopes = L
    BY ViewParts, PartsChange
  <2> HIDE DEF L
  <2> QED BY <1>9, <2>1, <2>2, <2>3
<1>11. FrameChain(n, u, c, d, s)
  <2>1. FrameChain(m, t, c, d, s) /\ SameFrames(m, n, t, u)
    BY <1>2, <1>3 DEF Book, SameFrames
  <2> QED BY <2>1, SameChain
<1>12. Places(n, u)
  <2>1. MajorsIn(n, u) \subseteq MajorsIn(m, t) /\ Places(m, t)
    BY <1>2 DEF Book
  <2>2. \A o \in MajorsIn(n, u) :
          /\ n[o].num_regs = m[o].num_regs /\ n[o].regs = m[o].regs
          /\ n[o].num_args = m[o].num_args /\ n[o].args = m[o].args
          /\ \A p \in NextCells(n[o]) : p \in NextCells(m[o]) \/ (p > 0 /\ ~IsRegister(m, t, p))
    BY <1>2, <1>3 DEF SameParts, SameArgs, NextCells
  <2> QED BY <2>1, <2>2, SamePlaces
<1>13. \A o \in MajorsIn(n, u) : \E x : ScopeChain(n, u, o, x)
  BY <1>2, <1>7, <1>9
<1> QED BY <1>7, <1>10, <1>11, <1>12, <1>13 DEF Book, Others

\* The innermost scope has been left.
AfterLeave(m, n, t, u, c, d, s) ==
  /\ Book(n, u, c, d, s) /\ Others(m, n, t, c)
  /\ ActivationIn(m, c).scopes \in Nat /\ ActivationIn(m, c).scopes > 1
  /\ ActivationIn(n, c) = [ActivationIn(m, c) EXCEPT !.scopes = @ - 1]

\* Leaving a scope takes one from the newest activation, and the values of the
\* registers that referred to variables in it.
LEMMA ScopeLeft ==
  ASSUME MaxRegs = 1, NEW m, NEW n, NEW t, NEW c, NEW d, NEW s, NEW x, NEW u,
         Layout(m, t, c, d), ArgsOK(m, t), Book(m, t, c, d, s),
         Exited(m, n, t, c, x), SameArgs(n[c], m[c]), u = m[x].base, u = x - 1
  PROVE  AfterLeave(m, n, t, u, c, d, s)
<1> USE ContextStackAssumption
<1>1. /\ t \in Nat /\ t \in Maybe /\ c \in Nat /\ c # 0 /\ c <= t /\ t <= StackSize
      /\ c \in MajorsIn(m, t) /\ m[c].k = "major" /\ n[c].k = "major"
      /\ x = m[c].minor /\ m[x].last # 0 /\ n[c].minor = m[x].last
      /\ \A o \in 1 .. t : o # c => n[o] = m[o]
      /\ \A o \in MajorsIn(m, t) : o \in 1 .. t /\ o \in Nat /\ o <= c /\ m[o].k = "major" /\ m[o].minor <= t
                                   /\ m[o].minor \in Nat /\ FrameOK(m, t, o)
                                   /\ \E y : ScopeChain(m, t, o, y)
  BY BookFacts DEF Maybe, ButScope, Exited
<1>2. x \in Nat /\ c < x /\ x <= t
  <2>1. m[c].minor \in c + 1 .. t
    BY <1>1 DEF FrameOK
  <2> QED BY <1>1, <2>1
<1>3. u \in Nat /\ u \in Maybe /\ c <= u /\ u < t
  BY <1>1, <1>2 DEF Maybe
<1>4. MajorsIn(n, u) = MajorsIn(m, t)
  <2>1. \A o \in 1 .. t : n[o].k = m[o].k
    BY <1>1
  <2>2. 1 .. u \subseteq 1 .. t
    BY <1>1, <1>3
  <2>3. \A o \in MajorsIn(m, t) : o \in 1 .. u
    BY <1>1, <1>3
  <2> QED BY <2>1, <2>2, <2>3 DEF MajorsIn
<1>5. /\ \A o \in MajorsIn(m, t) : o # c => n[o] = m[o]
      /\ \A o \in MajorsIn(m, t) : n[o].prev = m[o].prev /\ SameParts(n[o], m[o])
  BY <1>1 DEF Exited, ButScope, SameParts, SameArgs
<1>6. \A p \in 1 .. t : ValueIn(n, p) = ValueIn(m, p)
  BY <1>1 DEF ValueIn
<1>7. SameScopes(m, n, t, u)
  BY <1>1 DEF SameScopes
<1>8. ASSUME NEW o \in MajorsIn(m, t) PROVE SameValues(m, n, o)
  BY <1>6, CellsLie DEF Book, SameValues
<1>9. ASSUME NEW o \in MajorsIn(m, t), o # c
      PROVE  (\E y : ScopeChain(n, u, o, y)) /\ ActivationIn(n, o) = ActivationIn(m, o)
  <2>1. SameFrame(n[o], m[o])
    BY <1>5, <1>9 DEF SameFrame
  <2>2. m[o].minor <= u
    <3>1. o < c /\ Apart(m, o, c)
      BY <1>1, <1>9 DEF Layout
    <3>2. m[o].minor <= m[c].prev_top /\ m[c].prev_top = c - 1 /\ m[o].minor \in Nat
      BY <1>1, <3>1 DEF Apart, ArgsOK, FrameArgsOK
    <3> QED BY <1>1, <1>3, <3>2
  <2> QED BY <1>1, <1>3, <1>7, <1>8, <2>1, <2>2, ActivationKept
<1>10. PICK y : ScopeChain(m, t, c, y)
  BY <1>1
<1> DEFINE L == Len(y)
           z == SubSeq(y, 1, L - 1)
<1>11. ScopeChain(n, u, c, z) /\ Len(z) = L - 1 /\ L \in Nat /\ L > 1
  <2> HIDE DEF z
  <2>1. /\ y \in Seq(Nat) /\ L \in Nat /\ L > 0 /\ 1 \in 1 .. L
        /\ L \in 1 .. L /\ y[L] = m[c].minor
        /\ \A i \in 1 .. L : /\ y[i] \in Nat /\ c < y[i] /\ y[i] <= t /\ i <= y[i]
                             /\ m[y[i]].k = "minor"
        /\ \A i, j \in 1 .. L : i < j => y[i] < y[j]
        /\ m[y[1]].last = 0
        /\ \A i \in 2 .. L : i \in 1 .. L /\ i - 1 \in 1 .. L /\ m[y[i]].last = y[i - 1]
    <3>1. t \in Nat /\ c \in Nat /\ ScopeChain(m, t, c, y)
      BY <1>1, <1>10
    <3>2. ChainShape(m, t, c, y)
      BY <3>1, ChainFacts
    <3> QED BY <3>2 DEF ChainShape
  <2>2. L > 1 /\ L - 1 \in 1 .. L /\ m[y[L]].last = y[L - 1] /\ y[L] = x
    <3>1. L # 1
      BY <1>1, <2>1
    <3> QED BY <1>1, <2>1, <3>1
  <2>3. z \in Seq(Nat) /\ Len(z) = L - 1 /\ \A i \in 1 .. L - 1 : i \in 1 .. L /\ z[i] = y[i]
    BY <2>1, <2>2 DEF z
  <2> HIDE DEF L
  <2>4. ASSUME NEW i \in 1 .. L - 1
        PROVE  /\ z[i] = y[i] /\ n[z[i]] = m[z[i]]
               /\ z[i] \in c + 1 .. u /\ i <= z[i] /\ n[z[i]].k = "minor"
    <3>1. z[i] = y[i] /\ i \in 1 .. L /\ i < L
      BY <2>1, <2>3
    <3>2. y[i] \in Nat /\ c < y[i] /\ y[i] <= t /\ i <= y[i] /\ m[y[i]].k = "minor" /\ y[i] < y[L]
      BY <2>1, <3>1
    <3>3. y[i] \in 1 .. t /\ y[i] # c /\ y[i] <= u
      BY <1>1, <1>2, <2>2, <3>2
    <3>4. n[y[i]] = m[y[i]]
      BY <1>1, <3>3
    <3> QED BY <1>1, <1>3, <3>1, <3>2, <3>3, <3>4
  <2>5. ASSUME NEW i \in 1 .. L - 1, NEW j \in 1 .. L - 1, i < j PROVE z[i] < z[j]
    BY <2>1, <2>3, <2>5
  <2>6. ASSUME NEW i \in 2 .. L - 1 PROVE n[z[i]].last = z[i - 1]
    <3>1. i \in 1 .. L - 1 /\ i - 1 \in 1 .. L - 1 /\ i \in 2 .. L
      BY <2>1
    <3>2. m[y[i]].last = y[i - 1]
      BY <2>1, <3>1
    <3> QED BY <2>3, <2>4, <3>1, <3>2
  <2>7. n[z[1]].last = 0
    <3>1. 1 \in 1 .. L - 1
      BY <2>1, <2>2
    <3> QED BY <2>1, <2>4, <3>1
  <2>8. z[L - 1] = n[c].minor
    <3>1. L - 1 \in 1 .. L - 1
      BY <2>1, <2>2
    <3>2. z[L - 1] = y[L - 1]
      BY <2>3, <3>1
    <3> QED BY <1>1, <2>2, <3>2
  <2> QED BY <2>1, <2>2, <2>3, <2>4, <2>5, <2>6, <2>7, <2>8 DEF ScopeChain
<1>12. /\ ActivationIn(n, c) = [ActivationIn(m, c) EXCEPT !.scopes = @ - 1]
       /\ ActivationIn(m, c).scopes = L
  <2> HIDE DEF z
  <2>1. ActivationIn(m, c) = View(m, c, L)
    BY <1>1, <1>10, ScopesCounted
  <2>2. ActivationIn(n, c) = View(n, c, Len(z))
    BY <1>1, <1>3, <1>11, ScopesCounted
  <2>3. View(n, c, L - 1) = View(m, c, L - 1)
    BY <1>1, <1>5, <1>8, ViewKept
  <2>4. View(m, c, L - 1) = [View(m, c, L) EXCEPT !.scopes = L - 1] /\ View(m, c, L).scopes = L
    BY ViewParts, PartsChange
  <2> HIDE DEF L
  <2> QED BY <1>11, <2>1, <2>2, <2>3, <2>4
<1>13. FrameChain(n, u, c, d, s)
  <2>1. FrameChain(m, t, c, d, s) /\ SameFrames(m, n, t, u)
    BY <1>4, <1>5 DEF Book, SameFrames
  <2> QED BY <2>1, SameChain
<1>14. Places(n, u)
  <2>1. MajorsIn(n, u) \subseteq MajorsIn(m, t) /\ Places(m, t)
    BY <1>4 DEF Book
  <2>2. \A o \in MajorsIn(n, u) :
          /\ n[o].num_regs = m[o].num_regs /\ n[o].regs = m[o].regs
          /\ n[o].num_args = m[o].num_args /\ n[o].args = m[o].args
          /\ \A p \in NextCells(n[o]) : p \in NextCells(m[o]) \/ (p > 0 /\ ~IsRegister(m, t, p))
    BY <1>4, <1>5 DEF SameParts, SameArgs, NextCells
  <2> QED BY <2>1, <2>2, SamePlaces
<1>15. \A o \in MajorsIn(n, u) : \E w : ScopeChain(n, u, o, w)
  BY <1>4, <1>9, <1>11
<1>16. ActivationIn(m, c).scopes \in Nat /\ ActivationIn(m, c).scopes > 1
  BY <1>11, <1>12
<1> HIDE DEF z, L
<1> QED BY <1>9, <1>12, <1>13, <1>14, <1>15, <1>16 DEF Book, Others, AfterLeave

\* The current frame is left.
LEMMA FrameLeft ==
  ASSUME MaxRegs = 1, NEW m, NEW n, NEW t, NEW c, NEW d, NEW s, NEW p, NEW u,
         Layout(m, t, c, d), ArgsOK(m, t), Book(m, t, c, d, s),
         Popped(m, n, t, c, p), SameArgs(n[p], m[p]), u = m[c].prev_top
  PROVE  /\ Book(n, u, p, d - 1, SubSeq(s, 1, d - 1)) /\ d > 1 /\ d \in Nat /\ s[d - 1] = p
         /\ p \in MajorsIn(m, t) /\ s[d] = c
         /\ \A o \in MajorsIn(m, t) : o # c => ActivationIn(n, o) = ActivationIn(m, o)
<1> USE ContextStackAssumption
<1>1. /\ t \in Nat /\ t \in Maybe /\ c \in Nat /\ c # 0 /\ c <= t /\ t <= StackSize
      /\ c \in MajorsIn(m, t) /\ m[c].k = "major" /\ p = m[c].prev /\ p # 0
      /\ \A o \in 1 .. t : o # p => n[o] = m[o]
      /\ \A o \in MajorsIn(m, t) : o \in 1 .. t /\ o \in Nat /\ o <= c /\ m[o].k = "major" /\ m[o].minor <= t
                                   /\ m[o].minor \in Nat /\ FrameOK(m, t, o) /\ FrameArgsOK(m, t, o)
                                   /\ \E y : ScopeChain(m, t, o, y)
  BY BookFacts DEF Maybe, Popped, ArgsOK
<1>2. p \in MajorsIn(m, t) /\ m[p].k = "major" /\ n[p].k = "major" /\ u = c - 1
  <2>1. FrameOK(m, t, c) /\ FrameArgsOK(m, t, c)
    BY <1>1
  <2>2. p \in MajorsIn(m, t) /\ u = c - 1
    BY <1>1, <2>1 DEF FrameOK, FrameArgsOK
  <2>3. m[p].k = "major"
    BY <1>1, <2>2
  <2> QED BY <2>2, <2>3 DEF Popped, ButNext
<1>3. u \in Nat /\ u \in Maybe /\ u < t /\ u < c
  BY <1>1, <1>2 DEF Maybe
<1>4. MajorsIn(n, u) = MajorsIn(m, t) \ {c}
  <2>1. \A o \in 1 .. t : n[o].k = m[o].k
    BY <1>1, <1>2
  <2>2. 1 .. u \subseteq 1 .. t /\ c \notin 1 .. u
    BY <1>1, <1>3
  <2>3. \A o \in MajorsIn(m, t) : o # c => o \in 1 .. u
    BY <1>1, <1>2, <1>3
  <2> QED BY <2>1, <2>2, <2>3 DEF MajorsIn
<1>5. \A o \in MajorsIn(m, t) : n[o].prev = m[o].prev /\ SameFrame(n[o], m[o])
  BY <1>1 DEF Popped, ButNext, SameFrame, SameParts, SameArgs
<1>6. \A q \in 1 .. t : ValueIn(n, q) = ValueIn(m, q)
  BY <1>1, <1>2 DEF ValueIn
<1>7. SameScopes(m, n, t, u)
  BY <1>1, <1>2 DEF SameScopes
<1>8. ASSUME NEW o \in MajorsIn(m, t) PROVE SameValues(m, n, o)
  BY <1>6, CellsLie DEF Book, SameValues
<1>9. ASSUME NEW o \in MajorsIn(m, t), o # c
      PROVE  (\E y : ScopeChain(n, u, o, y)) /\ ActivationIn(n, o) = ActivationIn(m, o)
  <2>2. m[o].minor <= u
    <3>1. o < c /\ Apart(m, o, c)
      BY <1>1, <1>9 DEF Layout
    <3> QED BY <3>1 DEF Apart
  <2> QED BY <1>1, <1>3, <1>5, <1>7, <1>8, <2>2, ActivationKept
<1> DEFINE z == SubSeq(s, 1, d - 1)
<1>10. /\ s \in Seq(Nat) /\ Len(s) = d /\ d \in Nat /\ d > 0 /\ s[d] = c /\ m[s[1]].prev = 0
       /\ \A i \in 1 .. d : s[i] \in MajorsIn(m, t)
       /\ \A i, j \in 1 .. d : i < j => s[i] < s[j]
       /\ \A i \in 2 .. d : m[s[i]].prev = s[i - 1]
  <2>1. FrameChain(m, t, c, d, s)
    BY DEF Book
  <2>2. d \in Nat /\ d # 0
    BY <1>1, <2>1 DEF FrameChain
  <2> QED BY <2>1, <2>2 DEF FrameChain
<1>11. d > 1 /\ s[d - 1] = p
  <2>1. d # 1
    BY <1>1, <1>10
  <2>2. d > 1 /\ d \in 2 .. d
    BY <1>10, <2>1
  <2> QED BY <1>1, <1>10, <2>2
<1>12. FrameChain(n, u, p, d - 1, z)
  <2> HIDE DEF z
  <2>1. z \in Seq(Nat) /\ Len(z) = d - 1 /\ \A i \in 1 .. d - 1 : i \in 1 .. d /\ z[i] = s[i]
    BY <1>10, <1>11 DEF z
  <2>2. ASSUME NEW i \in 1 .. d - 1 PROVE z[i] \in MajorsIn(n, u) /\ n[z[i]].prev = m[s[i]].prev
    <3>1. s[i] \in MajorsIn(m, t) /\ s[i] < s[d] /\ s[i] \in Nat
      <4>1. i \in 1 .. d /\ d \in 1 .. d /\ i < d
        BY <1>10
      <4> QED BY <1>10, <4>1
    <3>2. s[i] # c
      BY <1>1, <1>10, <3>1
    <3> QED BY <1>4, <1>5, <2>1, <3>1, <3>2
  <2>3. \A i, j \in 1 .. d - 1 : i < j => z[i] < z[j]
    BY <1>10, <2>1
  <2>4. z[d - 1] = p /\ d - 1 # 0 /\ n[z[1]].prev = 0
    <3>1. d - 1 \in 1 .. d - 1 /\ 1 \in 1 .. d - 1
      BY <1>10, <1>11
    <3> QED BY <1>10, <1>11, <2>1, <2>2, <3>1
  <2>5. ASSUME NEW i \in 2 .. d - 1 PROVE n[z[i]].prev = z[i - 1]
    <3>1. i \in 1 .. d - 1 /\ i - 1 \in 1 .. d - 1 /\ i \in 2 .. d
      BY <1>10
    <3> QED BY <1>10, <2>1, <2>2, <3>1
  <2> QED BY <2>1, <2>2, <2>3, <2>4, <2>5 DEF FrameChain
<1>13. Places(n, u)
  <2>1. MajorsIn(n, u) \subseteq MajorsIn(m, t) /\ Places(m, t)
    BY <1>4 DEF Book
  <2>2. \A o \in MajorsIn(n, u) :
          /\ n[o].num_regs = m[o].num_regs /\ n[o].regs = m[o].regs
          /\ n[o].num_args = m[o].num_args /\ n[o].args = m[o].args
          /\ \A q \in NextCells(n[o]) : q \in NextCells(m[o]) \/ (q > 0 /\ ~IsRegister(m, t, q))
    BY <1>4, <1>5 DEF SameFrame, SameParts, SameArgs, NextCells
  <2> QED BY <2>1, <2>2, SamePlaces
<1>14. \A o \in MajorsIn(n, u) : \E w : ScopeChain(n, u, o, w)
  BY <1>4, <1>9
<1> QED BY <1>2, <1>9, <1>10, <1>11, <1>12, <1>13, <1>14 DEF Book

\* What is asked of the headers of the new frame f and of its caller c.
Passed(m, n, t, u, c, f) ==
  /\ c # 0 => SameReceived(n[c], m[c]) /\ (n[c].num_next_args = 0 \/ SameArgs(n[c], m[c]))
  /\ n[f].num_next_args = 0
  /\ \A o \in t + 3 .. u : n[o].v = Plain(Invalid)
  /\ \A p \in ArgCells(n[f]) : p > 0 /\ ~IsRegister(m, t, p) /\ (n[f].num_regs > 0 => n[f].regs # p)

\* A frame has been created.
AfterPush(m, n, t, u, c, d, s, f) ==
  /\ Book(n, u, f, d + 1, Append(s, f))
  /\ Others(m, n, t, c)
  /\ \A o \in MajorsIn(m, t) : o # f
  /\ c # 0 => ActivationIn(n, c) = [ActivationIn(m, c) EXCEPT !.pending = PendingIn(n, n[c])]
  /\ ActivationIn(n, f) = Act([i \in 1 .. n[f].num_regs |-> Plain(Invalid)],
                              ArgsIn(n, n[f]), PendingIn(n, n[f]), 1, n[f].out)

\* A call adds an activation and takes the pending arguments of the newest one.
LEMMA FrameCreated ==
  ASSUME MaxRegs = 1, NEW m, NEW n \in Memories, NEW t, NEW u \in Maybe, NEW c, NEW d, NEW s, NEW f,
         Layout(m, t, c, d), ArgsOK(m, t), Book(m, t, c, d, s),
         Pushed(m, n, t, u, c, f), Passed(m, n, t, u, c, f)
  PROVE  AfterPush(m, n, t, u, c, d, s, f)
<1> USE ContextStackAssumption
<1>1. /\ t \in Nat /\ t \in Maybe /\ c \in Nat /\ d \in Nat /\ u \in Nat /\ u <= StackSize /\ 1 .. u \subseteq Offsets
      /\ t + 2 <= u /\ f = t + 1 /\ f \in Nat /\ f \in Offsets
      /\ n[f].k = "major" /\ n[f].prev = c /\ n[f].minor = t + 2
      /\ n[t + 2].k = "minor" /\ n[t + 2].last = 0
      /\ \A o \in t + 3 .. u : n[o].k = "value"
      /\ \A o \in 1 .. t : o # c => n[o] = m[o]
      /\ \A o \in MajorsIn(m, t) : o \in 1 .. t /\ o \in Nat /\ o <= c /\ m[o].k = "major" /\ m[o].minor <= t
                                   /\ m[o].minor \in Nat /\ \E y : ScopeChain(m, t, o, y)
      /\ c # 0 => c \in MajorsIn(m, t) /\ n[c].k = "major" /\ ButNext(n[c], m[c]) /\ SameReceived(n[c], m[c])
                  /\ (n[c].num_next_args = 0 \/ SameArgs(n[c], m[c]))
  <2>1. /\ t \in Nat /\ t \in Maybe /\ c \in Nat /\ d \in Nat
        /\ \A o \in MajorsIn(m, t) : o \in 1 .. t /\ o \in Nat /\ o <= c /\ m[o].k = "major" /\ m[o].minor <= t
                                     /\ m[o].minor \in Nat /\ \E y : ScopeChain(m, t, o, y)
        /\ c # 0 => c \in MajorsIn(m, t)
    BY BookFacts
  <2>2. u \in Nat /\ u <= StackSize /\ 1 .. u \subseteq Offsets /\ t + 2 <= u /\ f = t + 1
    BY DEF Pushed, Maybe, Offsets
  <2>3. f \in Nat /\ f \in Offsets
    BY <2>1, <2>2
  <2> QED BY <2>1, <2>2, <2>3 DEF Pushed, ButNext, Passed
<1>2. MajorsIn(n, u) = MajorsIn(m, t) \cup {f}
  <2>1. \A o \in 1 .. t : n[o].k = m[o].k
    BY <1>1
  <2>2. \A o \in 1 .. u : o \in 1 .. t \/ o = f \/ o = t + 2 \/ o \in t + 3 .. u
    BY <1>1
  <2>3. 1 .. t \subseteq 1 .. u /\ f \in 1 .. u
    BY <1>1
  <2> QED BY <1>1, <2>1, <2>2, <2>3 DEF MajorsIn
<1>3. /\ \A o \in MajorsIn(m, t) : o # c => n[o] = m[o]
      /\ \A o \in MajorsIn(m, t) : o # f /\ n[o].prev = m[o].prev
      /\ \A o \in MajorsIn(m, t) : ButNext(n[o], m[o]) /\ SameReceived(n[o], m[o])
  <2>1. \A o \in MajorsIn(m, t) : o # c => n[o] = m[o]
    BY <1>1
  <2>2. \A o \in MajorsIn(m, t) : o <= t /\ o \in Nat
    BY <1>1
  <2>3. \A o \in MajorsIn(m, t) : ButNext(n[o], m[o]) /\ SameReceived(n[o], m[o])
    BY <1>1, <2>1 DEF ButNext, SameReceived
  <2> QED BY <1>1, <2>1, <2>2, <2>3 DEF ButNext
<1>4. \A p \in 1 .. t : ValueIn(n, p) = ValueIn(m, p)
  <2>1. c # 0 => n[c].k = "major" /\ m[c].k = "major"
    BY <1>1
  <2> QED BY <1>1, <2>1 DEF ValueIn
<1>5. SameScopes(m, n, t, u)
  <2>1. c # 0 => m[c].k = "major"
    BY <1>1
  <2> QED BY <1>1, <2>1 DEF SameScopes
<1>6. ASSUME NEW o \in MajorsIn(m, t)
      PROVE  \A p \in RegCells(m[o]) \cup ArgCells(m[o]) \cup NextCells(m[o]) :
               p \in 1 .. t /\ ValueIn(n, p) = ValueIn(m, p)
  BY <1>4, CellsLie DEF Book
<1>7. ASSUME NEW o \in MajorsIn(m, t)
      PROVE  /\ \E y : ScopeChain(n, u, o, y)
             /\ o # c => ActivationIn(n, o) = ActivationIn(m, o)
             /\ ActivationIn(n, o) = [ActivationIn(m, o) EXCEPT !.pending = PendingIn(n, n[o])]
  <2>1. m[o].minor <= u
    <3>1. m[o].minor <= t /\ m[o].minor \in Nat
      BY <1>1
    <3> QED BY <1>1, <3>1
  <2>2. ButNext(n[o], m[o]) /\ SameReceived(n[o], m[o])
    BY <1>3
  <2>3. \A p \in RegCells(m[o]) \cup ArgCells(m[o]) : ValueIn(n, p) = ValueIn(m, p)
    BY <1>6
  <2>4. ASSUME o # c PROVE ActivationIn(n, o) = ActivationIn(m, o)
    <3>1. SameFrame(n[o], m[o])
      BY <1>3, <2>4 DEF SameFrame, SameParts, SameArgs
    <3>2. SameValues(m, n, o)
      BY <1>6 DEF SameValues
    <3> QED BY <1>1, <1>5, <2>1, <3>1, <3>2, ActivationKept
  <2>5. /\ \E y : ScopeChain(n, u, o, y)
        /\ ActivationIn(n, o) = [ActivationIn(m, o) EXCEPT !.pending = PendingIn(n, n[o])]
    BY <1>1, <1>5, <2>1, <2>2, <2>3, ActivationPended
  <2> QED BY <2>4, <2>5
<1>8. \E y : ScopeChain(n, u, f, y) /\ Len(y) = 1
  <2> DEFINE y == <<t + 2>>
  <2>1. y \in Seq(Nat) /\ Len(y) = 1 /\ y[1] = t + 2
    BY <1>1
  <2> HIDE DEF y
  <2>2. y[1] \in f + 1 .. u /\ 1 <= y[1]
    BY <1>1, <2>1
  <2>3. ScopeChain(n, u, f, y)
    BY <1>1, <2>1, <2>2 DEF ScopeChain
  <2> QED BY <2>1, <2>3
<1>9. n[f].num_regs \in {0, 1} /\ (n[f].num_regs = 1 => n[f].regs \in t + 3 .. u)
  <2>1. n[f].num_regs \in 0 .. MaxRegs
    BY <1>1, MajorTyped DEF Memories
  <2> QED BY <2>1 DEF Pushed
<1>10. ActivationIn(n, f) = Act([i \in 1 .. n[f].num_regs |-> Plain(Invalid)],
                                ArgsIn(n, n[f]), PendingIn(n, n[f]), 1, n[f].out)
  <2>1. PICK y : ScopeChain(n, u, f, y) /\ Len(y) = 1
    BY <1>8
  <2>2. ActivationIn(n, f) = View(n, f, 1)
    <3>1. u \in Maybe /\ f \in Nat
      BY <1>1
    <3>2. ActivationIn(n, f) = View(n, f, Len(y))
      BY <2>1, <3>1, ScopesCounted
    <3> QED BY <2>1, <3>2
  <2>3. ASSUME NEW i \in 1 .. n[f].num_regs PROVE ValueIn(n, n[f].regs + (i - 1)) = Plain(Invalid)
    <3>1. n[f].num_regs = 1 /\ i = 1 /\ n[f].regs \in t + 3 .. u
      BY <1>9
    <3>2. n[f].regs + (i - 1) = n[f].regs /\ n[f].regs \in Offsets
      BY <1>1, <3>1 DEF Offsets
    <3>3. n[n[f].regs].v = Plain(Invalid)
      BY <3>1 DEF Passed
    <3> QED BY <3>2, <3>3 DEF ValueIn
  <2>4. RegsIn(n, n[f]) = [i \in 1 .. n[f].num_regs |-> Plain(Invalid)]
    BY <2>3 DEF RegsIn
  <2> QED BY <2>2, <2>4, ViewParts
<1> DEFINE z == Append(s, f)
<1>11. FrameChain(m, t, c, d, s)
  BY DEF Book
<1>12. FrameChain(n, u, f, d + 1, z)
  <2>1. /\ s \in Seq(Nat) /\ Len(s) = d
        /\ \A i \in 1 .. d : s[i] \in MajorsIn(m, t)
        /\ \A i, j \in 1 .. d : i < j => s[i] < s[j]
        /\ IF d = 0 THEN c = 0 ELSE s[d] = c /\ m[s[1]].prev = 0
        /\ \A i \in 2 .. d : m[s[i]].prev = s[i - 1]
    BY <1>11 DEF FrameChain
  <2>2. z \in Seq(Nat) /\ Len(z) = d + 1 /\ z[d + 1] = f /\ \A i \in 1 .. d : z[i] = s[i]
    BY <1>1, <2>1 DEF z
  <2> HIDE DEF z
  <2>3. \A i \in 1 .. d : z[i] \in MajorsIn(m, t) /\ z[i] \in Nat /\ z[i] <= t /\ n[z[i]].prev = m[s[i]].prev
    <3> SUFFICES ASSUME NEW i \in 1 .. d
                 PROVE  z[i] \in MajorsIn(m, t) /\ z[i] \in Nat /\ z[i] <= t /\ n[z[i]].prev = m[s[i]].prev
      OBVIOUS
    <3>1. z[i] = s[i] /\ s[i] \in MajorsIn(m, t)
      BY <2>1, <2>2
    <3>2. s[i] \in Nat /\ s[i] <= t
      BY <1>1, <3>1
    <3> QED BY <1>3, <3>1, <3>2
  <2>4. \A i \in 1 .. d + 1 : z[i] \in MajorsIn(n, u)
    <3> SUFFICES ASSUME NEW i \in 1 .. d + 1 PROVE z[i] \in MajorsIn(n, u)
      OBVIOUS
    <3>1. i \in 1 .. d \/ i = d + 1
      BY <1>1
    <3> QED BY <1>2, <2>2, <2>3, <3>1
  <2>5. ASSUME NEW i \in 1 .. d + 1, NEW j \in 1 .. d + 1, i < j PROVE z[i] < z[j]
    <3>1. i \in 1 .. d
      BY <1>1, <2>5
    <3>2. CASE j \in 1 .. d
      BY <2>1, <2>2, <2>5, <3>1, <3>2
    <3>3. CASE j = d + 1
      <4>1. z[i] <= t /\ z[i] \in Nat /\ z[j] = f
        BY <2>2, <2>3, <3>1, <3>3
      <4> QED BY <1>1, <4>1
    <3> QED BY <1>1, <3>2, <3>3
  <2>6. n[z[1]].prev = 0
    <3>1. CASE d = 0
      BY <1>1, <2>1, <2>2, <3>1
    <3>2. CASE d # 0
      <4>1. 1 \in 1 .. d
        BY <1>1, <3>2
      <4> QED BY <2>1, <2>3, <3>2, <4>1
    <3> QED BY <3>1, <3>2
  <2>7. ASSUME NEW i \in 2 .. d + 1 PROVE n[z[i]].prev = z[i - 1]
    <3>1. CASE i \in 2 .. d
      <4>1. i \in 1 .. d /\ i - 1 \in 1 .. d
        BY <1>1, <3>1
      <4>2. n[z[i]].prev = m[s[i]].prev /\ z[i - 1] = s[i - 1] /\ m[s[i]].prev = s[i - 1]
        BY <2>1, <2>2, <2>3, <3>1, <4>1
      <4> QED BY <4>2
    <3>2. CASE i = d + 1
      <4>1. d # 0 /\ d \in 1 .. d /\ i - 1 = d
        BY <1>1, <3>2
      <4>2. z[i] = f /\ z[i - 1] = s[d]
        BY <2>2, <3>2, <4>1
      <4> QED BY <1>1, <2>1, <4>1, <4>2
    <3> QED BY <1>1, <3>1, <3>2
  <2>8. d + 1 # 0
    BY <1>1
  <2> QED BY <2>2, <2>4, <2>5, <2>6, <2>7, <2>8 DEF FrameChain
<1>13. \A p : IsRegister(n, u, p) => IsRegister(m, t, p) \/ (n[f].num_regs > 0 /\ n[f].regs = p)
  <2>1. \A o \in MajorsIn(m, t) : n[o].num_regs = m[o].num_regs /\ n[o].regs = m[o].regs
    BY <1>3 DEF ButNext
  <2> QED BY <1>2, <2>1 DEF IsRegister
<1>14. Places(n, u)
  <2>1. ASSUME NEW o \in MajorsIn(m, t), NEW p \in ArgCells(n[o]) \cup NextCells(n[o])
        PROVE  p > 0 /\ ~IsRegister(n, u, p)
    <3>1. p \in ArgCells(m[o]) \cup NextCells(m[o])
      <4>1. ArgCells(n[o]) = ArgCells(m[o])
        BY <1>3 DEF SameReceived, ArgCells
      <4>2. NextCells(n[o]) \subseteq NextCells(m[o])
        <5>1. CASE n[o].num_next_args = 0
          BY <5>1 DEF NextCells
        <5>2. CASE SameArgs(n[o], m[o])
          BY <5>2 DEF NextCells, SameArgs
        <5>3. CASE o # c
          BY <1>3, <5>3
        <5> QED BY <1>1, <5>1, <5>2, <5>3
      <4> QED BY <2>1, <4>1, <4>2
    <3>2. p > 0 /\ ~IsRegister(m, t, p)
      BY <3>1 DEF Book, Places
    <3>3. p \in 1 .. t
      BY <1>6, <3>1
    <3>4. ~(n[f].num_regs > 0 /\ n[f].regs = p)
      BY <1>1, <1>9, <3>3
    <3> QED BY <1>13, <3>2, <3>4
  <2>2. ASSUME NEW p \in ArgCells(n[f]) \cup NextCells(n[f]) PROVE p > 0 /\ ~IsRegister(n, u, p)
    <3>1. NextCells(n[f]) = {}
      BY DEF Passed, NextCells
    <3> QED BY <1>13, <2>2, <3>1 DEF Passed
  <2> QED BY <1>2, <2>1, <2>2 DEF Places
<1>15. \A o \in MajorsIn(n, u) : \E w : ScopeChain(n, u, o, w)
  BY <1>2, <1>7, <1>8
<1>16. \A o \in MajorsIn(m, t) : o # f
  BY <1>3
<1> HIDE DEF z
<1>17. Book(n, u, f, d + 1, z)
  BY <1>12, <1>14, <1>15 DEF Book
<1> QED BY <1>1, <1>7, <1>10, <1>16, <1>17 DEF Others, z, AfterPush

\* Sequences of the same elements are the same.
LEMMA SameSequence ==
  ASSUME NEW F, NEW G, NEW S, F \in Seq(S), G \in Seq(S), Len(F) = Len(G),
         \A i \in 1 .. Len(F) : F[i] = G[i]
  PROVE  F = G
<1>1. F = [i \in 1 .. Len(F) |-> F[i]] /\ G = [i \in 1 .. Len(G) |-> G[i]]
  OBVIOUS
<1> QED BY <1>1

\* The activations are a sequence.
Bodies(m) == {ActivationIn(m, o) : o \in Nat}

\* The sequence of activations that the stack stands for.
LEMMA FramesListed ==
  ASSUME NEW m, NEW t, NEW c, NEW d, NEW s, Book(m, t, c, d, s)
  PROVE  LET F == FramesIn(m, c, d)
         IN  /\ d \in Nat /\ Len(F) = d /\ DOMAIN F = 1 .. d
             /\ s \in Seq(Nat) /\ Len(s) = d
             /\ \A i \in 1 .. d : s[i] \in MajorsIn(m, t) /\ s[i] \in Nat /\ F[i] = ActivationIn(m, s[i])
             /\ \A S : Bodies(m) \subseteq S => F \in Seq(S)
             /\ c # 0 => d > 0 /\ s[d] = c
             /\ \A i, j \in 1 .. d : i # j => s[i] # s[j]
<1> DEFINE F == FramesIn(m, c, d)
<1>1. FrameChain(m, t, c, d, s)
  BY DEF Book
<1>2. d \in Nat /\ F = [i \in 1 .. d |-> ActivationIn(m, s[i])]
  BY <1>1, FramesAre
<1> HIDE DEF F
<1>3. /\ s \in Seq(Nat) /\ Len(s) = d
      /\ \A i \in 1 .. d : s[i] \in MajorsIn(m, t)
      /\ \A i, j \in 1 .. d : i < j => s[i] < s[j]
      /\ c # 0 => d # 0 /\ s[d] = c
  BY <1>1 DEF FrameChain
<1>4. \A i \in 1 .. d : s[i] \in Nat
  BY <1>3
<1>5. \A i, j \in 1 .. d : i # j => s[i] # s[j]
  <2>1. \A i, j \in 1 .. d : i # j => i < j \/ j < i
    BY <1>2
  <2> QED BY <1>3, <1>4, <2>1
<1>6. ASSUME NEW S, Bodies(m) \subseteq S PROVE F \in Seq(S)
  <2>1. \A i \in 1 .. d : ActivationIn(m, s[i]) \in S
    BY <1>4, <1>6 DEF Bodies
  <2>2. F \in [1 .. d -> S]
    BY <1>2, <2>1
  <2> QED BY <1>2, <2>2
<1>7. Len(F) = d /\ DOMAIN F = 1 .. d
  <2>1. F \in Seq(Bodies(m))
    BY <1>6
  <2>2. DOMAIN F = 1 .. d
    BY <1>2
  <2> QED BY <1>2, <2>1, <2>2
<1> QED BY <1>2, <1>3, <1>4, <1>5, <1>6, <1>7 DEF F

\* If no activation changes, neither does the sequence.
LEMMA NothingChanges ==
  ASSUME NEW m, NEW n, NEW t, NEW u, NEW c, NEW d, NEW s,
         Book(m, t, c, d, s), Book(n, u, c, d, s),
         \A o \in MajorsIn(m, t) : ActivationIn(n, o) = ActivationIn(m, o)
  PROVE  FramesIn(n, c, d) = FramesIn(m, c, d)
<1> DEFINE F == FramesIn(m, c, d)
           G == FramesIn(n, c, d)
           S == Bodies(m) \cup Bodies(n)
<1>1. d \in Nat /\ F \in Seq(S) /\ Len(F) = d /\ \A i \in 1 .. d : s[i] \in MajorsIn(m, t) /\ F[i] = ActivationIn(m, s[i])
  BY FramesListed
<1>2. G \in Seq(S) /\ Len(G) = d /\ \A i \in 1 .. d : G[i] = ActivationIn(n, s[i])
  BY FramesListed
<1> HIDE DEF F, G, S
<1>3. \A i \in 1 .. Len(F) : F[i] = G[i]
  BY <1>1, <1>2
<1>4. F = G
  BY <1>1, <1>2, <1>3, SameSequence
<1> QED BY <1>4 DEF F, G

\* If only the newest activation changes, the sequence changes at its end.
LEMMA NewestChanges ==
  ASSUME NEW m, NEW n, NEW t, NEW u, NEW c, NEW d, NEW s,
         Book(m, t, c, d, s), Book(n, u, c, d, s), c # 0, Others(m, n, t, c)
  PROVE  LET F == FramesIn(m, c, d)
         IN  /\ F # <<>> /\ F[Len(F)] = ActivationIn(m, c)
             /\ FramesIn(n, c, d) = Append(SubSeq(F, 1, Len(F) - 1), ActivationIn(n, c))
<1> DEFINE F == FramesIn(m, c, d)
           G == FramesIn(n, c, d)
           S == Bodies(m) \cup Bodies(n)
           a == ActivationIn(n, c)
           H == Append(SubSeq(F, 1, Len(F) - 1), a)
<1>1. /\ d \in Nat /\ F \in Seq(S) /\ Len(F) = d
      /\ \A i \in 1 .. d : s[i] \in MajorsIn(m, t) /\ F[i] = ActivationIn(m, s[i])
      /\ d > 0 /\ s[d] = c /\ \A i, j \in 1 .. d : i # j => s[i] # s[j]
  BY FramesListed
<1>2. G \in Seq(S) /\ Len(G) = d /\ \A i \in 1 .. d : s[i] \in Nat /\ G[i] = ActivationIn(n, s[i])
  BY FramesListed
<1>3. d \in 1 .. d /\ F[d] = ActivationIn(m, c) /\ G[d] = a
  <2>1. d \in 1 .. d
    BY <1>1
  <2> QED BY <1>1, <1>2, <2>1
<1>4. a \in S
  <2>1. c \in Nat
    BY <1>1, <1>2, <1>3
  <2> QED BY <2>1 DEF Bodies
<1> HIDE DEF F, G, S, a
<1>5. H \in Seq(S) /\ Len(H) = d /\ H[d] = a /\ \A i \in 1 .. d - 1 : H[i] = F[i]
  <2> DEFINE E == SubSeq(F, 1, d - 1)
  <2>1. E \in Seq(S) /\ Len(E) = d - 1 /\ \A i \in 1 .. d - 1 : E[i] = F[i]
    BY <1>1
  <2> HIDE DEF E
  <2>2. H = Append(E, a)
    BY <1>1 DEF E
  <2> HIDE DEF H
  <2> QED BY <1>1, <1>4, <2>1, <2>2
<1> HIDE DEF H
<1>6. ASSUME NEW i \in 1 .. d PROVE G[i] = H[i]
  <2>1. CASE i = d
    BY <1>3, <1>5, <2>1
  <2>2. CASE i # d
    <3>1. i \in 1 .. d - 1
      BY <1>1, <2>2
    <3>2. s[i] # c /\ s[i] \in MajorsIn(m, t)
      BY <1>1, <1>3, <2>2
    <3> QED BY <1>1, <1>2, <1>5, <3>1, <3>2 DEF Others
  <2> QED BY <2>1, <2>2
<1>7. G = H
  BY <1>2, <1>5, <1>6, SameSequence
<1>8. F # <<>>
  BY <1>1
<1> QED BY <1>1, <1>3, <1>7, <1>8 DEF F, G, H, a

\* A frame above all others.
LEMMA FrameAdded ==
  ASSUME NEW m, NEW n, NEW t, NEW u, NEW c, NEW d, NEW s, NEW f,
         Book(m, t, c, d, s), Book(n, u, f, d + 1, Append(s, f)), f # 0,
         \A o \in MajorsIn(m, t) : ActivationIn(n, o) = ActivationIn(m, o)
  PROVE  FramesIn(n, f, d + 1) = Append(FramesIn(m, c, d), ActivationIn(n, f))
<1> DEFINE F == FramesIn(m, c, d)
           G == FramesIn(n, f, d + 1)
           S == Bodies(m) \cup Bodies(n)
           z == Append(s, f)
           a == ActivationIn(n, f)
           H == Append(F, a)
<1>1. /\ d \in Nat /\ F \in Seq(S) /\ Len(F) = d /\ s \in Seq(Nat) /\ Len(s) = d
      /\ \A i \in 1 .. d : s[i] \in MajorsIn(m, t) /\ F[i] = ActivationIn(m, s[i])
  BY FramesListed
<1>2. /\ G \in Seq(S) /\ Len(G) = d + 1 /\ \A i \in 1 .. d + 1 : z[i] \in Nat /\ G[i] = ActivationIn(n, z[i])
      /\ z[d + 1] = f
  <2> HIDE DEF z
  <2>1. Book(n, u, f, d + 1, z)
    BY DEF z
  <2> QED BY <2>1, FramesListed
<1>3. f \in Nat /\ \A i \in 1 .. d : z[i] = s[i]
  <2>1. d + 1 \in 1 .. d + 1
    BY <1>1
  <2>2. f \in Nat
    BY <1>2, <2>1
  <2> QED BY <1>1, <2>2
<1>4. a \in S
  BY <1>3 DEF Bodies
<1> HIDE DEF F, G, S, a, z
<1>5. H \in Seq(S) /\ Len(H) = d + 1 /\ H[d + 1] = a /\ \A i \in 1 .. d : H[i] = F[i]
  BY <1>1, <1>4
<1> HIDE DEF H
<1>6. ASSUME NEW i \in 1 .. d + 1 PROVE G[i] = H[i]
  <2>1. CASE i = d + 1
    BY <1>2, <1>5, <2>1 DEF a
  <2>2. CASE i # d + 1
    <3>1. i \in 1 .. d
      BY <1>1, <2>2
    <3>2. s[i] \in MajorsIn(m, t) /\ z[i] = s[i] /\ G[i] = ActivationIn(n, z[i])
      BY <1>1, <1>2, <1>3, <3>1
    <3> QED BY <1>1, <1>5, <3>1, <3>2
  <2> QED BY <2>1, <2>2
<1>7. G = H
  BY <1>2, <1>5, <1>6, SameSequence
<1> QED BY <1>7 DEF F, G, H, a

\* A frame above a caller whose activation changes.
LEMMA FrameCalled ==
  ASSUME NEW m, NEW n, NEW t, NEW u, NEW c, NEW d, NEW s, NEW f,
         Book(m, t, c, d, s), Book(n, u, f, d + 1, Append(s, f)), f # 0, c # 0, Others(m, n, t, c)
  PROVE  LET F == FramesIn(m, c, d)
         IN  /\ F # <<>> /\ F[Len(F)] = ActivationIn(m, c)
             /\ FramesIn(n, f, d + 1) =
                  Append(Append(SubSeq(F, 1, Len(F) - 1), ActivationIn(n, c)), ActivationIn(n, f))
<1> DEFINE F == FramesIn(m, c, d)
           G == FramesIn(n, f, d + 1)
           S == Bodies(m) \cup Bodies(n)
           z == Append(s, f)
           a == ActivationIn(n, f)
           b == ActivationIn(n, c)
           H == Append(Append(SubSeq(F, 1, Len(F) - 1), b), a)
<1>1. /\ d \in Nat /\ F \in Seq(S) /\ Len(F) = d /\ s \in Seq(Nat) /\ Len(s) = d
      /\ \A i \in 1 .. d : s[i] \in MajorsIn(m, t) /\ s[i] \in Nat /\ F[i] = ActivationIn(m, s[i])
      /\ d > 0 /\ s[d] = c /\ \A i, j \in 1 .. d : i # j => s[i] # s[j]
  BY FramesListed
<1>2. /\ G \in Seq(S) /\ Len(G) = d + 1 /\ \A i \in 1 .. d + 1 : z[i] \in Nat /\ G[i] = ActivationIn(n, z[i])
      /\ z[d + 1] = f
  <2> HIDE DEF z
  <2>1. Book(n, u, f, d + 1, z)
    BY DEF z
  <2> QED BY <2>1, FramesListed
<1>3. f \in Nat /\ c \in Nat /\ d \in 1 .. d /\ \A i \in 1 .. d : z[i] = s[i]
  <2>1. d + 1 \in 1 .. d + 1 /\ d \in 1 .. d
    BY <1>1
  <2>2. f \in Nat /\ c \in Nat
    BY <1>1, <1>2, <2>1
  <2> QED BY <1>1, <2>1, <2>2
<1>4. a \in S /\ b \in S
  BY <1>3 DEF Bodies
<1> HIDE DEF F, G, S, a, b, z
<1>5. /\ H \in Seq(S) /\ Len(H) = d + 1 /\ H[d + 1] = a /\ H[d] = b
      /\ \A i \in 1 .. d - 1 : H[i] = F[i]
  <2> DEFINE E == SubSeq(F, 1, d - 1)
             D == Append(E, b)
  <2>1. E \in Seq(S) /\ Len(E) = d - 1 /\ \A i \in 1 .. d - 1 : E[i] = F[i]
    BY <1>1
  <2> HIDE DEF E
  <2>2. D \in Seq(S) /\ Len(D) = d /\ D[d] = b /\ \A i \in 1 .. d - 1 : D[i] = F[i]
    BY <1>1, <1>4, <2>1
  <2>3. H = Append(D, a)
    BY <1>1 DEF E
  <2> HIDE DEF H, D
  <2> QED BY <1>1, <1>4, <2>2, <2>3
<1> HIDE DEF H
<1>6. ASSUME NEW i \in 1 .. d + 1 PROVE G[i] = H[i]
  <2>1. CASE i = d + 1
    BY <1>2, <1>5, <2>1 DEF a
  <2>2. CASE i = d
    <3>1. G[i] = ActivationIn(n, z[i]) /\ z[i] = c
      BY <1>1, <1>2, <1>3, <2>2
    <3> QED BY <1>5, <2>2, <3>1 DEF b
  <2>3. CASE i # d /\ i # d + 1
    <3>1. i \in 1 .. d - 1 /\ i \in 1 .. d
      BY <1>1, <2>3
    <3>2. s[i] # c /\ s[i] \in MajorsIn(m, t) /\ z[i] = s[i] /\ G[i] = ActivationIn(n, z[i])
      BY <1>1, <1>2, <1>3, <2>3, <3>1
    <3> QED BY <1>1, <1>5, <3>1, <3>2 DEF Others
  <2> QED BY <2>1, <2>2, <2>3
<1>7. G = H
  BY <1>2, <1>5, <1>6, SameSequence
<1>8. F # <<>> /\ F[d] = ActivationIn(m, c)
  BY <1>1, <1>3
<1> QED BY <1>1, <1>7, <1>8 DEF F, G, H, a, b

\* All activations but those at c and p stay, and the newest is gone.
BothKept(m, n, t, c, p) ==
  \A o \in MajorsIn(m, t) : o # c /\ o # p => ActivationIn(n, o) = ActivationIn(m, o)
NewestGone(m, n, c, d, p) ==
  LET F == FramesIn(m, c, d)
  IN  /\ F # <<>> /\ Len(F) > 1 /\ F[Len(F)] = ActivationIn(m, c)
      /\ F[Len(F) - 1] = ActivationIn(m, p)
      /\ FramesIn(n, p, d - 1) = Append(SubSeq(F, 1, Len(F) - 2), ActivationIn(n, p))

\* The newest frame is gone; the activation of its caller p may have changed.
LEMMA FrameRemoved ==
  ASSUME NEW m, NEW n, NEW t, NEW u, NEW c, NEW d, NEW s, NEW p,
         Book(m, t, c, d, s), Book(n, u, p, d - 1, SubSeq(s, 1, d - 1)), c # 0, d > 1, s[d - 1] = p,
         BothKept(m, n, t, c, p)
  PROVE  NewestGone(m, n, c, d, p)
<1>0. \A o \in MajorsIn(m, t) : o # c /\ o # p => ActivationIn(n, o) = ActivationIn(m, o)
  BY DEF BothKept
<1> DEFINE F == FramesIn(m, c, d)
           G == FramesIn(n, p, d - 1)
           S == Bodies(m) \cup Bodies(n)
           z == SubSeq(s, 1, d - 1)
           b == ActivationIn(n, p)
           H == Append(SubSeq(F, 1, Len(F) - 2), b)
<1>1. /\ d \in Nat /\ F \in Seq(S) /\ Len(F) = d /\ s \in Seq(Nat) /\ Len(s) = d
      /\ \A i \in 1 .. d : s[i] \in MajorsIn(m, t) /\ s[i] \in Nat /\ F[i] = ActivationIn(m, s[i])
      /\ s[d] = c /\ \A i, j \in 1 .. d : i # j => s[i] # s[j]
  BY FramesListed
<1>2. G \in Seq(S) /\ Len(G) = d - 1 /\ \A i \in 1 .. d - 1 : G[i] = ActivationIn(n, z[i])
  <2> HIDE DEF z
  <2>1. Book(n, u, p, d - 1, z)
    BY DEF z
  <2> QED BY <2>1, FramesListed
<1>3. d \in 1 .. d /\ d - 1 \in 1 .. d /\ p \in Nat /\ \A i \in 1 .. d - 1 : z[i] = s[i]
  <2>1. d \in 1 .. d /\ d - 1 \in 1 .. d
    BY <1>1
  <2> QED BY <1>1, <2>1
<1>4. b \in S
  BY <1>3 DEF Bodies
<1> HIDE DEF F, G, S, b, z
<1>5. /\ H \in Seq(S) /\ Len(H) = d - 1 /\ H[d - 1] = b
      /\ \A i \in 1 .. d - 2 : H[i] = F[i]
  <2> DEFINE E == SubSeq(F, 1, d - 2)
  <2>1. E \in Seq(S) /\ Len(E) = d - 2 /\ \A i \in 1 .. d - 2 : E[i] = F[i]
    BY <1>1
  <2> HIDE DEF E
  <2>2. H = Append(E, b)
    BY <1>1 DEF E
  <2> HIDE DEF H
  <2> QED BY <1>1, <1>4, <2>1, <2>2
<1> HIDE DEF H
<1>6. ASSUME NEW i \in 1 .. d - 1 PROVE G[i] = H[i]
  <2>1. CASE i = d - 1
    <3>1. G[i] = ActivationIn(n, z[i]) /\ z[i] = p
      BY <1>2, <1>3, <2>1
    <3> QED BY <1>5, <2>1, <3>1 DEF b
  <2>2. CASE i # d - 1
    <3>1. i \in 1 .. d - 2 /\ i \in 1 .. d /\ i # d
      BY <1>1, <2>2
    <3>2. s[i] # c /\ s[i] # p /\ s[i] \in MajorsIn(m, t)
      BY <1>1, <1>3, <2>2, <3>1
    <3>3. z[i] = s[i] /\ G[i] = ActivationIn(n, z[i])
      BY <1>2, <1>3
    <3> QED BY <1>0, <1>1, <1>5, <3>1, <3>2, <3>3
  <2> QED BY <2>1, <2>2
<1>7. G = H
  BY <1>2, <1>5, <1>6, SameSequence
<1>8. F # <<>> /\ F[d] = ActivationIn(m, c) /\ F[d - 1] = ActivationIn(m, p)
  BY <1>1, <1>3
<1> QED BY <1>1, <1>7, <1>8 DEF F, G, H, b, NewestGone

Newest  == activations[Len(activations)]
Callers == SubSeq(activations, 1, Len(activations) - 1)

\* The steps of CallStack, each from what it does to the newest activations: a register
\* is written.
LEMMA WriteMaps ==
  ASSUME activations # <<>>, NEW x, Newest.regs \in [1 .. 1 -> {x}], NEW v \in Value,
         activations' = Append(Callers, [Newest EXCEPT !.regs = [i \in 1 .. 1 |-> v]])
  PROVE  Abstract!Next
<1>1. 1 \in DOMAIN Newest.regs
  OBVIOUS
<1>2. [Newest.regs EXCEPT ![1] = v] = [i \in 1 .. 1 |-> v]
  OBVIOUS
<1>3. [Newest EXCEPT !.regs[1] = v] = [Newest EXCEPT !.regs = [Newest.regs EXCEPT ![1] = v]]
  OBVIOUS
<1>4. Abstract!Write(1, v)
  BY <1>2, <1>3 DEF Abstract!Write, Abstract!Becomes, Abstract!Newest, Abstract!Callers, Newest, Callers
<1>5. 1 \in DOMAIN Abstract!Newest.regs
  BY <1>1 DEF Newest, Abstract!Newest
<1> QED BY <1>4, <1>5 DEF Abstract!Next

\* A scope is entered.
LEMMA EnterMaps ==
  ASSUME activations # <<>>, activations' = Append(Callers, [Newest EXCEPT !.scopes = @ + 1])
  PROVE  Abstract!Next
BY DEF Abstract!Next, Abstract!Enter, Abstract!Becomes, Abstract!Newest, Abstract!Callers, Newest, Callers

\* A scope is left, and the registers that referred to its variables lose their values.
LEMMA LeaveMaps ==
  ASSUME activations # <<>>, Newest.scopes > 1, NEW gone \in SUBSET (DOMAIN Newest.regs),
         activations' = Append(Callers,
           [Newest EXCEPT !.scopes = @ - 1,
                          !.regs = [i \in DOMAIN @ |-> IF i \in gone THEN Plain(Invalid) ELSE @[i]]])
  PROVE  Abstract!Next
<1>1. Abstract!Leave
  BY DEF Abstract!Leave, Abstract!Becomes, Abstract!Newest, Abstract!Callers, Newest, Callers
<1> QED BY <1>1 DEF Abstract!Next

\* An argument is pushed.
LEMMA PushMaps ==
  ASSUME activations # <<>>, NEW v \in Value,
         activations' = Append(Callers, [Newest EXCEPT !.pending = <<v>> \o @])
  PROVE  Abstract!Next
<1>1. Abstract!Push(v)
  BY DEF Abstract!Push, Abstract!Becomes, Abstract!Newest, Abstract!Callers, Newest, Callers
<1> QED BY <1>1 DEF Abstract!Next

\* A function is called.
LEMMA CallMaps ==
  ASSUME activations # <<>>, NEW n \in 0 .. MaxRegs, NEW out \in 0 .. MaxRegs,
         activations' = Append(Append(Callers, [Newest EXCEPT !.pending = <<>>]),
                               Act([i \in 1 .. n |-> Plain(Invalid)], Newest.pending, <<>>, 1, out))
  PROVE  Abstract!Next
<1>1. Abstract!Call(n, out)
  BY DEF Abstract!Call, Abstract!Activation, Abstract!Newest, Abstract!Callers, Newest, Callers, Act
<1> QED BY <1>1 DEF Abstract!Next

\* A function returns nothing.
LEMMA ReturnMaps ==
  ASSUME activations # <<>>, Len(activations) > 1,
         activations' = Append(SubSeq(activations, 1, Len(activations) - 2),
                               activations[Len(activations) - 1])
  PROVE  Abstract!Next
<1>1. Abstract!Return
  BY DEF Abstract!Return
<1> QED BY <1>1 DEF Abstract!Next

\* A function returns a value.
LEMMA ReturnValueMaps ==
  ASSUME activations # <<>>, Len(activations) > 1, Newest.out = 1, 1 \in DOMAIN Newest.regs,
         NEW x, activations[Len(activations) - 1].regs \in [1 .. 1 -> {x}],
         activations' = Append(SubSeq(activations, 1, Len(activations) - 2),
                               [activations[Len(activations) - 1] EXCEPT
                                  !.regs = [i \in 1 .. 1 |-> Newest.regs[1]]])
  PROVE  Abstract!Next
<1> DEFINE caller == activations[Len(activations) - 1]
           v == Newest.regs[1]
<1>1. 1 \in DOMAIN caller.regs
  OBVIOUS
<1>2. [caller.regs EXCEPT ![1] = v] = [i \in 1 .. 1 |-> v]
  OBVIOUS
<1>3. [caller EXCEPT !.regs[1] = v] = [caller EXCEPT !.regs = [caller.regs EXCEPT ![1] = v]]
  OBVIOUS
<1>4. Abstract!Newest = Newest
  BY DEF Abstract!Newest, Newest
<1>5. activations' = Append(SubSeq(activations, 1, Len(activations) - 2), [caller EXCEPT !.regs[1] = v])
  BY <1>2, <1>3
<1>6. Abstract!Return
  <2>1. Abstract!Newest.out = 1 /\ 1 \in DOMAIN Abstract!Newest.regs /\ Abstract!Newest.regs[1] = v
    BY <1>4
  <2> HIDE DEF v
  <2> QED BY <1>1, <1>5, <2>1 DEF Abstract!Return
<1> QED BY <1>6 DEF Abstract!Next

Bottom == Act([i \in 1 .. 1 |-> Plain(Invalid)], <<>>, <<>>, 1, 0)

\* exec_fn() has put the frame that waits for the result on the stack and fails...
LEMMA StartMaps ==
  ASSUME activations' = Append(activations, Bottom)
  PROVE  Abstract!Next
<1>1. Abstract!Start
  BY DEF Abstract!Start, Abstract!Activation, Act, Bottom
<1> QED BY <1>1 DEF Abstract!Next

\* ... or puts the frame of the function on it too.
LEMMA StartRunningMaps ==
  ASSUME NEW n \in 0 .. MaxRegs, NEW out \in 0 .. MaxRegs, NEW a \in 0 .. MaxArgs,
         activations' = activations \o
           <<Bottom, Act([i \in 1 .. n |-> Plain(Invalid)], [i \in 1 .. a |-> Plain(Invalid)], <<>>, 1, out)>>
  PROVE  Abstract!Next
<1>1. Abstract!Start
  BY DEF Abstract!Start, Abstract!Activation, Act, Bottom
<1> QED BY <1>1 DEF Abstract!Next

\* The activations are those of the memory, before and after a step.
Seen(s) ==
  /\ RInv /\ Book(mem, top, cur, depth, s)
  /\ activations = FramesIn(mem, cur, depth) /\ activations' = FramesIn(mem', cur', depth')

\* The step is one of the abstract stack, or changes nothing there.
Maps ==
  /\ \E z : Book(mem', top', cur', depth', z)
  /\ Abstract!Next \/ activations' = activations

\* What the cells of the current frame are.
LEMMA AtHand ==
  ASSUME MaxRegs = 1, RInv, IsMajor(cur)
  PROVE  /\ Layout(mem, top, cur, depth) /\ ArgsOK(mem, top) /\ Inv
         /\ mem \in Memories /\ top \in Nat /\ top \in Maybe /\ top <= StackSize /\ 1 .. top \subseteq Offsets
         /\ cur # 0 /\ cur \in 1 .. top /\ cur \in MajorsIn(mem, top) /\ mem[cur] \in MajorFrame
         /\ mem[cur].k = "major"
         /\ \A i \in RegsOf(cur) : /\ mem[cur].num_regs = 1 /\ mem[cur].num_regs > 0
                                   /\ Reg(cur, i) = mem[cur].regs
                                   /\ mem[cur].regs \in 1 .. top /\ mem[mem[cur].regs].k = "value"
         /\ \A o : ValueAt(o) \in Value /\ ValueAt(o) = ValueIn(mem, o)
<1>1. Inv /\ ArgsOK(mem, top)
  BY DEF RInv, RefsOK
<1>2. \A o : ValueAt(o) \in Value /\ ValueAt(o) = ValueIn(mem, o)
  BY <1>1, ValuesTyped DEF ValueAt, ValueIn
<1>3. /\ Layout(mem, top, cur, depth)
      /\ mem \in Memories /\ top \in Nat /\ top \in Maybe /\ top <= StackSize /\ 1 .. top \subseteq Offsets
      /\ cur # 0 /\ cur \in 1 .. top /\ mem[cur] \in MajorFrame /\ mem[cur].k = "major"
  BY <1>1, Current
<1>4. \A i \in RegsOf(cur) : /\ mem[cur].num_regs = 1 /\ mem[cur].num_regs > 0
                             /\ Reg(cur, i) = mem[cur].regs
                             /\ mem[cur].regs \in 1 .. top /\ mem[mem[cur].regs].k = "value"
  <2> SUFFICES ASSUME NEW i \in RegsOf(cur)
               PROVE  /\ mem[cur].num_regs = 1 /\ mem[cur].num_regs > 0
                      /\ Reg(cur, i) = mem[cur].regs
                      /\ mem[cur].regs \in 1 .. top /\ mem[mem[cur].regs].k = "value"
    OBVIOUS
  <2>1. mem[cur].num_regs = 1 /\ Reg(cur, i) = mem[cur].regs /\ Reg(cur, i) \in 1 .. top
        /\ mem[Reg(cur, i)].k = "value"
    BY <1>1, Current
  <2> QED BY <2>1
<1> QED BY <1>1, <1>2, <1>3, <1>4 DEF MajorsIn

\* The register of the current frame has been written, and the memory then
\* became n.
LEMMA WrittenMaps ==
  ASSUME MaxRegs = 1, NEW s, Seen(s), IsMajor(cur), mem[cur].num_regs > 0, NEW v \in Value,
         NEW m, m = [mem EXCEPT ![mem[cur].regs] = Cellular(v)],
         Book(mem', top', cur', depth', s), UNCHANGED <<cur, depth>>,
         \A o \in MajorsIn(mem, top) : ActivationIn(mem', o) = ActivationIn(m, o)
  PROVE  Maps
<1>1. /\ Layout(mem, top, cur, depth) /\ ArgsOK(mem, top) /\ Book(mem, top, cur, depth, s)
      /\ cur \in MajorsIn(mem, top) /\ cur # 0 /\ Cellular(v) \in Cell
  BY AtHand, ValuesTyped DEF Seen
<1>2. /\ Others(mem, m, top, cur)
      /\ ActivationIn(mem, cur).regs \in [1 .. 1 -> {ActivationIn(mem, cur).regs[1]}]
      /\ ActivationIn(m, cur) = [ActivationIn(mem, cur) EXCEPT !.regs = [i \in 1 .. 1 |-> v]]
  <2>1. AfterWrite(mem, m, top, cur, depth, s, cur, v)
    BY <1>1, RegisterWritten
  <2> QED BY <2>1 DEF AfterWrite
<1>3. Others(mem, mem', top, cur) /\ Book(mem', top', cur, depth, s)
  BY <1>2 DEF Others
<1>4. /\ activations # <<>> /\ Newest = ActivationIn(mem, cur)
      /\ activations' = Append(Callers, ActivationIn(mem', cur))
  <2>1. LET F == FramesIn(mem, cur, depth)
        IN  /\ F # <<>> /\ F[Len(F)] = ActivationIn(mem, cur)
            /\ FramesIn(mem', cur, depth) = Append(SubSeq(F, 1, Len(F) - 1), ActivationIn(mem', cur))
    BY <1>1, <1>3, NewestChanges
  <2> QED BY <2>1 DEF Seen, Newest, Callers
<1>5. ActivationIn(mem', cur) = [Newest EXCEPT !.regs = [i \in 1 .. 1 |-> v]]
  BY <1>1, <1>2, <1>4
<1>6. Abstract!Next
  <2>1. Newest.regs \in [1 .. 1 -> {Newest.regs[1]}]
    BY <1>2, <1>4
  <2>2. activations' = Append(Callers, [Newest EXCEPT !.regs = [i \in 1 .. 1 |-> v]])
    BY <1>4, <1>5
  <2> QED BY <1>4, <2>1, <2>2, WriteMaps
<1> QED BY <1>6 DEF Maps

\* An instruction that writes its output register writes a register of the newest
\* activation.
LEMMA WriteStepMaps ==
  ASSUME MaxRegs = 1, NEW s, Seen(s), NEW i, Write(i)
  PROVE  Maps
<1>1. IsMajor(cur) /\ i \in RegsOf(cur) /\ UNCHANGED <<top, cur, depth>>
  BY DEF Write, Executing
<1>2. PICK v \in Readable : mem' = [mem EXCEPT ![Reg(cur, i)] = Cellular(v)]
  BY DEF Write
<1>3. /\ Layout(mem, top, cur, depth) /\ ArgsOK(mem, top) /\ Inv /\ Book(mem, top, cur, depth, s)
      /\ cur \in MajorsIn(mem, top) /\ mem[cur].num_regs > 0 /\ Reg(cur, i) = mem[cur].regs
  BY <1>1, AtHand DEF Seen
<1>4. v \in Value /\ Cellular(v) \in Cell
  BY <1>3, ValuesTyped
<1>5. mem' = [mem EXCEPT ![mem[cur].regs] = Cellular(v)]
  BY <1>2, <1>3
<1>6. Book(mem', top, cur, depth, s)
  <2>1. AfterWrite(mem, mem', top, cur, depth, s, cur, v)
    BY <1>3, <1>4, <1>5, RegisterWritten
  <2> QED BY <2>1 DEF AfterWrite
<1> QED BY <1>1, <1>3, <1>4, <1>5, <1>6, WrittenMaps

\* No activation changes.
LEMMA StutterMaps ==
  ASSUME NEW s, Seen(s), Book(mem', top', cur', depth', s), UNCHANGED <<cur, depth>>,
         \A o \in MajorsIn(mem, top) : ActivationIn(mem', o) = ActivationIn(mem, o)
  PROVE  Maps
<1>1. Book(mem, top, cur, depth, s) /\ Book(mem', top', cur, depth, s)
  BY DEF Seen
<1>2. FramesIn(mem', cur, depth) = FramesIn(mem, cur, depth)
  BY <1>1, NothingChanges
<1> QED BY <1>2 DEF Seen, Maps

\* THROW, and whatever else leaves the stack alone, does nothing to the activations.
LEMMA ThrowMaps ==
  ASSUME NEW s, Seen(s), UNCHANGED <<mem, top, cur, depth>>
  PROVE  Maps
BY DEF Seen, Maps

\* STORE writes a variable, which no activation shows.
LEMMA StoreMaps ==
  ASSUME MaxRegs = 1, NEW s, Seen(s), NEW i, Store(i)
  PROVE  Maps
<1>1. IsMajor(cur) /\ UNCHANGED <<top, cur, depth>>
  BY DEF Store, Executing
<1> DEFINE a == ValueAt(Reg(cur, i)).at
<1>2. PICK v : mem' = [mem EXCEPT ![a] = [k |-> "variable", v |-> v]] /\ mem[a].k = "variable"
  BY DEF Store
<1>3. /\ Layout(mem, top, cur, depth) /\ ArgsOK(mem, top) /\ Book(mem, top, cur, depth, s)
      /\ mem \in Memories /\ top \in Maybe /\ 1 .. top \subseteq Offsets /\ top \in Nat
  BY <1>1, AtHand DEF Seen
<1> HIDE DEF a
<1>4. \A o \in 1 .. top : /\ mem'[o].k = mem[o].k
                          /\ mem[o].k = "major" => mem'[o] = mem[o]
                          /\ mem[o].k = "minor" => mem'[o].last = mem[o].last
                          /\ mem[o].k = "value" => mem'[o].v = mem[o].v
  <2> SUFFICES ASSUME NEW o \in 1 .. top
               PROVE  mem'[o] = mem[o] \/ (mem[o].k = "variable" /\ mem'[o].k = "variable")
    OBVIOUS
  <2> QED BY <1>2, <1>3 DEF Memories
<1>5. top <= top /\ \A o \in top + 1 .. top : mem'[o].k # "major"
  BY <1>3
<1>6. Book(mem', top, cur, depth, s) /\ \A o \in MajorsIn(mem, top) : ActivationIn(mem', o) = ActivationIn(mem, o)
  BY <1>3, <1>4, <1>5, Grown
<1> QED BY <1>1, <1>6, StutterMaps

\* LVAR writes a register of the newest activation.
LEMMA LVarMaps ==
  ASSUME MaxRegs = 1, NEW s, Seen(s), NEW i, LVar(i)
  PROVE  Maps
<1> USE ContextStackAssumption
<1> DEFINE x == mem[cur].minor
           r == mem[cur].regs
           p == top + 1
           q == top + 2
           v == Ref(p)
           m == [mem EXCEPT ![r] = Cellular(v)]
           record == [k |-> "record", next |-> mem[x].records, reg |-> i]
           local  == [k |-> "variable", v |-> Plain(Invalid)]
<1>1. /\ IsMajor(cur) /\ i \in RegsOf(cur) /\ q <= StackSize /\ top' = q
      /\ UNCHANGED <<cur, depth>> /\ IsMinor(x)
      /\ mem' = [mem EXCEPT ![p] = local, ![q] = record,
                            ![x] = [@ EXCEPT !.records = q], ![Reg(cur, i)] = Cellular(v)]
  BY DEF LVar, Executing
<1>2. /\ Layout(mem, top, cur, depth) /\ ArgsOK(mem, top) /\ Inv /\ Book(mem, top, cur, depth, s)
      /\ mem \in Memories /\ top \in Nat /\ top \in Maybe /\ 1 .. top \subseteq Offsets
      /\ cur \in MajorsIn(mem, top) /\ mem[cur].num_regs > 0 /\ Reg(cur, i) = r
      /\ r \in 1 .. top /\ mem[r].k = "value"
  BY <1>1, AtHand DEF Seen
<1>3. x \in 1 .. top /\ mem[x].k = "minor" /\ mem[x] \in MinorFrame
  BY <1>1, <1>2, Current
<1>4. p \in Offsets /\ q \in Offsets /\ q \in Maybe /\ top <= q /\ top + 1 .. q = {p, q} /\ p # q
      /\ p \notin 1 .. top /\ q \notin 1 .. top
  BY <1>1, <1>2 DEF Offsets, Maybe
<1>5. v \in Value /\ Cellular(v) \in Cell
  <2>1. v \in Value
    BY <1>2, <1>4, ValuesTyped
  <2> QED BY <1>2, <2>1, ValuesTyped
<1>6. mem' = [mem EXCEPT ![p] = local, ![q] = record, ![x] = [@ EXCEPT !.records = q], ![r] = Cellular(v)]
  BY <1>1, <1>2
<1>7. [mem[x] EXCEPT !.records = q].k = "minor" /\ [mem[x] EXCEPT !.records = q].last = mem[x].last
  <2> HIDE DEF x, q
  <2> QED BY <1>3 DEF MinorFrame
<1>8. /\ mem'[p] = local /\ mem'[q] = record /\ mem'[r] = Cellular(v)
      /\ mem'[x] = [mem[x] EXCEPT !.records = q]
      /\ \A o \in 1 .. top : o # x /\ o # r => mem'[o] = mem[o]
  <2>1. x # r
    BY <1>2, <1>3
  <2> HIDE DEF p, q, r, v, local, record
  <2> QED BY <1>2, <1>3, <1>4, <1>6, <2>1 DEF Memories
<1>9. m[r] = Cellular(v) /\ \A o \in 1 .. top : o # r => m[o] = mem[o]
  <2> HIDE DEF r, v
  <2> QED BY <1>2 DEF Memories
<1>10. m = [mem EXCEPT ![mem[cur].regs] = Cellular(v)]
  OBVIOUS
<1> HIDE DEF m, r, v, record, local, x
<1>11. /\ Layout(m, top, cur, depth) /\ ArgsOK(m, top) /\ Book(m, top, cur, depth, s)
       /\ MajorsIn(m, top) = MajorsIn(mem, top)
  <2>1. AfterWrite(mem, m, top, cur, depth, s, cur, v)
    BY <1>2, <1>5, <1>10, RegisterWritten
  <2> QED BY <2>1 DEF AfterWrite
<1>12. \A o \in 1 .. top : /\ mem'[o].k = m[o].k
                           /\ m[o].k = "major" => mem'[o] = m[o]
                           /\ m[o].k = "minor" => mem'[o].last = m[o].last
                           /\ m[o].k = "value" => mem'[o].v = m[o].v
  <2>1. mem'[x].k = mem[x].k /\ mem'[x].last = mem[x].last /\ m[x] = mem[x]
    BY <1>2, <1>3, <1>7, <1>8, <1>9
  <2>2. mem'[r] = m[r]
    BY <1>8, <1>9
  <2> QED BY <1>3, <1>8, <1>9, <2>1, <2>2
<1>13. \A o \in top + 1 .. q : mem'[o].k # "major"
  <2>1. mem'[p].k = "variable" /\ mem'[q].k = "record"
    BY <1>8 DEF local, record
  <2> QED BY <1>4, <2>1
<1>14. Book(mem', q, cur, depth, s) /\ \A o \in MajorsIn(m, top) : ActivationIn(mem', o) = ActivationIn(m, o)
  <2> HIDE DEF q
  <2> QED BY <1>4, <1>11, <1>12, <1>13, Grown
<1>15. Book(mem', top', cur', depth', s) /\ UNCHANGED <<cur, depth>>
       /\ \A o \in MajorsIn(mem, top) : ActivationIn(mem', o) = ActivationIn(m, o)
  BY <1>1, <1>11, <1>14
<1> QED BY <1>1, <1>2, <1>5, <1>10, <1>15, WrittenMaps

\* The five parts of an activation, read off the stack.
LEMMA ActivationParts ==
  ASSUME NEW m, NEW o
  PROVE  LET a == ActivationIn(m, o)
         IN  /\ a = Act(a.regs, a.args, a.pending, a.scopes, a.out)
             /\ a.regs = RegsIn(m, m[o]) /\ a.args = ArgsIn(m, m[o])
             /\ a.pending = PendingIn(m, m[o]) /\ a.out = m[o].out
BY DEF ActivationIn, Act, RegsIn, ArgsIn, PendingIn

\* One activation changes, the newest.
LEMMA OneChanges ==
  ASSUME NEW s, Seen(s), cur # 0, UNCHANGED <<cur, depth>>,
         Book(mem', top', cur', depth', s), Others(mem, mem', top, cur)
  PROVE  /\ activations # <<>> /\ Newest = ActivationIn(mem, cur)
         /\ activations' = Append(Callers, ActivationIn(mem', cur))
<1>1. Book(mem, top, cur, depth, s) /\ Book(mem', top', cur, depth, s)
  BY DEF Seen
<1>2. LET F == FramesIn(mem, cur, depth)
      IN  /\ F # <<>> /\ F[Len(F)] = ActivationIn(mem, cur)
          /\ FramesIn(mem', cur, depth) = Append(SubSeq(F, 1, Len(F) - 1), ActivationIn(mem', cur))
  BY <1>1, NewestChanges
<1> QED BY <1>2 DEF Seen, Newest, Callers

\* ENTER enters a scope.
LEMMA EnterStepMaps ==
  ASSUME MaxRegs = 1, NEW s, Seen(s), Enter
  PROVE  Maps
<1> USE ContextStackAssumption
<1> DEFINE u == top + 1
           scope == [k |-> "minor", last |-> mem[cur].minor, records |-> 0, base |-> top]
<1>1. /\ IsMajor(cur) /\ u <= StackSize /\ top' = u /\ UNCHANGED <<cur, depth>>
      /\ mem' = [mem EXCEPT ![u] = scope, ![cur].minor = u]
  BY DEF Enter, Executing
<1>2. /\ Layout(mem, top, cur, depth) /\ ArgsOK(mem, top) /\ Inv /\ Book(mem, top, cur, depth, s)
      /\ mem \in Memories /\ top \in Nat /\ 1 .. top \subseteq Offsets
      /\ cur \in MajorsIn(mem, top) /\ cur # 0 /\ cur \in 1 .. top /\ mem[cur] \in MajorFrame
  BY <1>1, AtHand DEF Seen
<1>3. u \in Offsets /\ u \in Maybe /\ u # cur /\ cur \in Offsets /\ u \notin 1 .. top
  BY <1>1, <1>2 DEF Offsets, Maybe
<1>4. /\ mem'[u] = scope /\ mem'[cur] = [mem[cur] EXCEPT !.minor = u]
      /\ \A o \in 1 .. top : o # cur => mem'[o] = mem[o]
  <2> HIDE DEF u, scope
  <2> QED BY <1>1, <1>2, <1>3 DEF Memories
<1>5. ButScope(mem'[cur], mem[cur]) /\ mem'[cur].minor = u /\ SameArgs(mem'[cur], mem[cur])
  <2> HIDE DEF u
  <2> QED BY <1>2, <1>4 DEF ButScope, SameArgs, MajorFrame
<1>6. mem'[u].k = "minor" /\ mem'[u].last = mem[cur].minor /\ mem'[u].base = top
  BY <1>4
<1>7. u = top + 1
  OBVIOUS
<1> HIDE DEF u
<1>8. Entered(mem, mem', top, u, cur)
  BY <1>2, <1>4, <1>5, <1>6, <1>7 DEF Entered
<1>9. /\ Book(mem', u, cur, depth, s) /\ Others(mem, mem', top, cur)
      /\ ActivationIn(mem', cur) = [ActivationIn(mem, cur) EXCEPT !.scopes = @ + 1]
  BY <1>2, <1>3, <1>5, <1>8, ScopeEntered
<1>10. /\ activations # <<>> /\ Newest = ActivationIn(mem, cur)
       /\ activations' = Append(Callers, ActivationIn(mem', cur))
  BY <1>1, <1>2, <1>9, OneChanges
<1>11. Abstract!Next
  BY <1>9, <1>10, EnterMaps
<1> QED BY <1>1, <1>9, <1>11 DEF Maps

\* An activation with other registers and scopes.
Left(f, x, y) == [f EXCEPT !.scopes = y, !.regs = x]

\* Two parts of an activation are replaced at once.
LEMMA BothChange ==
  ASSUME NEW r, NEW a, NEW p, NEW k, NEW u, NEW x, NEW y
  PROVE  Left(Act(r, a, p, k, u), x, y) = Act(x, a, p, y, u)
<1> DEFINE f == Act(r, a, p, k, u)
           g == [f EXCEPT !.scopes = y]
<1>1. Left(f, x, y) = [g EXCEPT !.regs = x]
  BY DEF Left
<1>2. g = Act(r, a, p, y, u)
  BY PartsChange
<1> HIDE DEF g
<1>3. [g EXCEPT !.regs = x] = Act(x, a, p, y, u)
  BY <1>2, PartsChange
<1> QED BY <1>1, <1>3

\* What LEAVE makes of the newest activation.
LEMMA LeaveParts ==
  ASSUME activations # <<>>, NEW r, NEW a, NEW p, NEW k, NEW out, Newest = Act(r, a, p, k, out), k > 1,
         NEW w, activations' = Append(Callers, Act(w, a, p, k - 1, out)),
         NEW gone \in SUBSET (DOMAIN r),
         w = [i \in DOMAIN r |-> IF i \in gone THEN Plain(Invalid) ELSE r[i]]
  PROVE  Abstract!Next
<1> DEFINE f == Newest
<1>1. f.scopes = k /\ f.regs = r
  BY PartsChange
<1>2. Left(f, w, k - 1) = Act(w, a, p, k - 1, out)
  <2>1. Left(Act(r, a, p, k, out), w, k - 1) = Act(w, a, p, k - 1, out)
    BY BothChange
  <2> QED BY ONLY <2>1, Newest = Act(r, a, p, k, out)
<1>4. [f EXCEPT !.scopes = @ - 1,
                !.regs = [i \in DOMAIN @ |-> IF i \in gone THEN Plain(Invalid) ELSE @[i]]]
        = Left(f, w, k - 1)
  <2> HIDE DEF f
  <2> QED BY <1>1 DEF Left
<1>5. f.scopes > 1 /\ gone \in SUBSET (DOMAIN f.regs)
  BY <1>1
<1> QED BY <1>2, <1>4, <1>5, LeaveMaps

\* LEAVE leaves a scope.
LEMMA LeaveStepMaps ==
  ASSUME MaxRegs = 1, NEW s, Seen(s), Leave
  PROVE  Maps
<1> USE ContextStackAssumption
<1> DEFINE x == mem[cur].minor
           r == mem[cur].regs
           m == Cleared
           A == ActivationIn(mem, cur)
           B == ActivationIn(m, cur)
           C == ActivationIn(mem', cur)
           nil == Plain(Invalid)
<1>1. IsMajor(cur) /\ UNCHANGED <<cur, depth>> /\ RInv
  BY DEF Leave, Executing, Seen
<1>2. /\ Layout(mem, top, cur, depth) /\ ArgsOK(mem, top) /\ Inv /\ Book(mem, top, cur, depth, s)
      /\ mem \in Memories /\ top \in Nat /\ 1 .. top \subseteq Offsets
      /\ cur \in MajorsIn(mem, top) /\ cur # 0 /\ mem[cur] \in MajorFrame
      /\ mem[cur].num_regs \in Nat
  <2>1. mem[cur] \in MajorFrame
    BY <1>1, AtHand
  <2>2. mem[cur].num_regs \in Nat
    BY <2>1 DEF MajorFrame
  <2> QED BY <1>1, <2>1, <2>2, AtHand DEF Seen
<1>3. /\ Layout(m, top, cur, depth) /\ m \in Memories /\ Exited(m, mem', top, cur, x)
      /\ mem'[cur] = [mem[cur] EXCEPT !.minor = mem[x].last]
      /\ m[cur] = mem[cur] /\ m[x] = mem[x] /\ top' = mem[x].base
  BY <1>1, <1>2, LeaveExits
<1>4. SameArgs(mem'[cur], m[cur])
  <2> HIDE DEF m, x
  <2> QED BY <1>2, <1>3 DEF SameArgs, MajorFrame
<1>5. top' = m[x].base /\ top' = x - 1
  <2>1. x \in MinorsIn(mem, top)
    BY <1>1, <1>2, Current DEF MinorsIn
  <2>2. ScopeRecordsOK(mem, top, x)
    BY <1>1, <2>1 DEF RInv, RefsOK, ScopesOK
  <2>3. mem[x].last # 0
    BY DEF Leave
  <2> QED BY <1>3, <2>2, <2>3 DEF ScopeRecordsOK
<1>6. /\ ArgsOK(m, top) /\ Book(m, top, cur, depth, s) /\ Others(mem, m, top, cur)
      /\ MajorsIn(m, top) = MajorsIn(mem, top)
      /\ B.args = A.args /\ B.pending = A.pending /\ B.scopes = A.scopes /\ B.out = A.out
      /\ \E gone \in SUBSET (DOMAIN A.regs) :
           B.regs = [i \in DOMAIN A.regs |-> IF i \in gone THEN nil ELSE A.regs[i]]
  <2>1. CASE m = mem
    <3>1. A.regs = RegsIn(mem, mem[cur])
      BY ActivationParts
    <3>2. A.regs = [i \in DOMAIN A.regs |-> IF i \in {} THEN nil ELSE A.regs[i]]
      <4> DEFINE R == RegsIn(mem, mem[cur])
      <4>1. R = [i \in DOMAIN R |-> R[i]]
        BY DEF RegsIn
      <4> HIDE DEF R
      <4>2. R = [i \in DOMAIN R |-> IF i \in {} THEN nil ELSE R[i]]
        BY <4>1
      <4> QED BY <3>1, <4>2 DEF R
    <3>3. B = A
      BY <2>1
    <3>4. \E gone \in SUBSET (DOMAIN A.regs) :
             B.regs = [i \in DOMAIN A.regs |-> IF i \in gone THEN nil ELSE A.regs[i]]
      <4>1. {} \in SUBSET (DOMAIN A.regs)
        OBVIOUS
      <4> HIDE DEF A, B, m
      <4> QED BY <3>2, <3>3, <4>1
    <3> HIDE DEF m
    <3> QED BY <1>2, <2>1, <3>3, <3>4 DEF Others
  <2>2. CASE mem[cur].num_regs > 0 /\ m = [mem EXCEPT ![r] = Cellular(nil)]
    <3>1. Cellular(nil) \in Cell /\ r = mem[cur].regs
      BY <1>2, ValuesTyped
    <3> HIDE DEF m
    <3>2. AfterWrite(mem, m, top, cur, depth, s, cur, nil)
      BY <1>2, <2>2, <3>1, RegisterWritten
    <3>3. A.regs \in [1 .. 1 -> {A.regs[1]}] /\ B = [A EXCEPT !.regs = [i \in 1 .. 1 |-> nil]]
      BY <3>2 DEF AfterWrite
    <3>4. A = Act(A.regs, A.args, A.pending, A.scopes, A.out)
      BY ActivationParts
    <3> HIDE DEF A, B, nil
    <3>5. B = Act([i \in 1 .. 1 |-> nil], A.args, A.pending, A.scopes, A.out)
      BY <3>3, <3>4, PartsChange
    <3>6. /\ B.regs = [i \in 1 .. 1 |-> nil] /\ B.args = A.args /\ B.pending = A.pending
          /\ B.scopes = A.scopes /\ B.out = A.out
      BY <3>5, PartsChange
    <3>7. B.regs = [i \in DOMAIN A.regs |-> IF i \in DOMAIN A.regs THEN nil ELSE A.regs[i]]
      BY <3>3, <3>6
    <3>8. DOMAIN A.regs \in SUBSET (DOMAIN A.regs)
      OBVIOUS
    <3> QED BY <3>2, <3>6, <3>7, <3>8 DEF AfterWrite
  <2>3. m = mem \/ (mem[cur].num_regs > 0 /\ m = [mem EXCEPT ![r] = Cellular(nil)])
    <3>1. CASE mem[cur].num_regs > 0
      <4>1. r \in 1 .. top /\ (m[r] = mem[r] \/ m[r] = Cellular(nil))
        <5>1. /\ r \in 1 .. top /\ mem[r].k = "value"
              /\ m[r] = mem[r] \/ m[r] = Cellular(nil)
          BY <1>1, <3>1, LeaveClears
        <5> QED BY <5>1
      <4>2. \A o \in Offsets : o # r => m[o] = mem[o]
        <5>1. \A i \in RegsOf(cur) : Reg(cur, i) = r
          BY <1>1, <1>2, Current
        <5> QED BY <5>1 DEF Cleared
      <4> HIDE DEF m, r, nil
      <4> QED BY <1>2, <1>3, <3>1, <4>1, <4>2 DEF Memories
    <3>2. CASE ~(mem[cur].num_regs > 0)
      <4>1. RegsOf(cur) = {}
        BY <1>2, <3>2 DEF RegsOf
      <4>2. m = [o \in Offsets |-> mem[o]]
        BY <4>1 DEF Cleared
      <4> QED BY <1>2, <4>2 DEF Memories
    <3> QED BY <3>1, <3>2
  <2> QED BY <2>1, <2>2, <2>3
<1> HIDE DEF m
<1>7. /\ Book(mem', top', cur, depth, s) /\ Others(m, mem', top, cur)
      /\ B.scopes \in Nat /\ B.scopes > 1
      /\ C = [B EXCEPT !.scopes = @ - 1]
  <2>1. AfterLeave(m, mem', top, top', cur, depth, s)
    <3> HIDE DEF x
    <3> QED BY <1>3, <1>4, <1>5, <1>6, ScopeLeft
  <2> QED BY <2>1 DEF AfterLeave
<1>8. Others(mem, mem', top, cur)
  BY <1>6, <1>7 DEF Others
<1>9. activations # <<>> /\ Newest = A /\ activations' = Append(Callers, C)
  BY <1>1, <1>2, <1>7, <1>8, OneChanges
<1>10. A = Act(A.regs, A.args, A.pending, A.scopes, A.out) /\ B = Act(B.regs, B.args, B.pending, B.scopes, B.out)
  BY ActivationParts
<1> HIDE DEF A, B, C
<1>11. C = Act(B.regs, A.args, A.pending, A.scopes - 1, A.out)
  BY <1>6, <1>7, <1>10, PartsChange
<1>12. Abstract!Next
  <2>1. PICK gone \in SUBSET (DOMAIN A.regs) :
               B.regs = [i \in DOMAIN A.regs |-> IF i \in gone THEN nil ELSE A.regs[i]]
    BY <1>6
  <2>2. A.scopes > 1
    BY <1>6, <1>7
  <2>3. activations' = Append(Callers, Act(B.regs, A.args, A.pending, A.scopes - 1, A.out))
    BY <1>9, <1>11
  <2>4. Newest = Act(A.regs, A.args, A.pending, A.scopes, A.out)
    BY <1>9, <1>10
  <2> QED BY <1>9, <2>1, <2>2, <2>3, <2>4, LeaveParts
<1> QED BY <1>1, <1>7, <1>12 DEF Maps

\* A sequence with one more element at its head.
Follows(p, v, q, k, S) ==
  /\ k \in Nat /\ v \in S /\ q \in [1 .. k -> S]
  /\ p = [i \in 1 .. k + 1 |-> p[i]] /\ p[1] = v
  /\ \A i \in 1 .. k : p[i + 1] = q[i]

\* The arguments, which lie on the stack with the last one at the top, are a sequence
\* with one more at its front.
LEMMA Prepended ==
  ASSUME NEW S, NEW k, NEW v, NEW q, NEW p, Follows(p, v, q, k, S)
  PROVE  p = <<v>> \o q
<1> USE DEF Follows
<1>1. ASSUME NEW i \in 1 .. k + 1 PROVE p[i] \in S
  <2>1. i = 1 \/ (i - 1 \in 1 .. k /\ (i - 1) + 1 = i)
    OBVIOUS
  <2>2. ASSUME NEW j \in 1 .. k PROVE p[j + 1] \in S
    OBVIOUS
  <2> QED BY <2>1, <2>2
<1>2. p \in Seq(S) /\ Len(p) = k + 1
  BY <1>1
<1>3. q \in Seq(S) /\ Len(q) = k
  OBVIOUS
<1>4. <<v>> \o q \in Seq(S) /\ Len(<<v>> \o q) = k + 1
  BY <1>3
<1>5. ASSUME NEW i \in 1 .. k + 1 PROVE p[i] = (<<v>> \o q)[i]
  <2>1. CASE i = 1
    BY <1>3, <2>1
  <2>2. CASE i # 1
    <3>1. i - 1 \in 1 .. k /\ (i - 1) + 1 = i
      BY <2>2
    <3>2. p[(i - 1) + 1] = q[i - 1]
      BY <3>1
    <3>3. (<<v>> \o q)[i] = q[i - 1]
      BY <1>3, <2>2, <3>1
    <3> QED BY <3>1, <3>2, <3>3
  <2> QED BY <2>1, <2>2
<1> QED BY <1>2, <1>4, <1>5, SameSequence

\* PUSHARG pushes an argument, or stops with a value on the stack that no activation
\* counts.
LEMMA PushArgMaps ==
  ASSUME MaxRegs = 1, NEW s, Seen(s), NEW i, PushArg(i)
  PROVE  Maps
<1> USE ContextStackAssumption
<1> DEFINE p == top + 1
           v == ValueAt(Reg(cur, i))
           m == [mem EXCEPT ![p] = Cellular(v)]
           f == mem[cur]
           n == mem'
           A == ActivationIn(mem, cur)
<1>1. /\ IsMajor(cur) /\ p <= StackSize /\ top' = p /\ UNCHANGED <<cur, depth>>
      /\ \/ mem' = m
         \/ /\ mem' = [m EXCEPT ![cur].next_args = p, ![cur].num_next_args = @ + 1]
            /\ f.num_next_args > 0 => f.next_args = top
  BY DEF PushArg, Executing
<1>2. /\ Layout(mem, top, cur, depth) /\ ArgsOK(mem, top) /\ Inv /\ Book(mem, top, cur, depth, s)
      /\ mem \in Memories /\ top \in Nat /\ top \in Maybe /\ 1 .. top \subseteq Offsets
      /\ cur \in MajorsIn(mem, top) /\ cur # 0 /\ cur \in 1 .. top /\ mem[cur] \in MajorFrame
      /\ mem[cur].k = "major"
      /\ v \in Value /\ \A o : ValueIn(mem, o) \in Value
  BY <1>1, AtHand DEF Seen
<1>3. p \in Offsets /\ p \in Maybe /\ p \notin 1 .. top /\ top <= p /\ top + 1 .. p = {p} /\ p \in Nat
  BY <1>1, <1>2 DEF Offsets, Maybe
<1>p. p = top + 1
  OBVIOUS
<1> HIDE DEF v
<1>4. m[p] = Cellular(v) /\ m \in [Offsets -> {m[o] : o \in Offsets}] /\ \A o \in 1 .. top : m[o] = mem[o]
  <2> HIDE DEF p
  <2> QED BY <1>2, <1>3 DEF Memories
<1>5. m[p].k = "value" /\ m[p].v = v
  BY <1>4 DEF Cellular
<1>6. CASE mem' = m
  <2> HIDE DEF m, p
  <2>1. /\ \A o \in 1 .. top : /\ mem'[o].k = mem[o].k
                               /\ mem[o].k = "major" => mem'[o] = mem[o]
                               /\ mem[o].k = "minor" => mem'[o].last = mem[o].last
                               /\ mem[o].k = "value" => mem'[o].v = mem[o].v
        /\ \A o \in top + 1 .. p : mem'[o].k # "major"
    BY <1>3, <1>4, <1>5, <1>6
  <2>2. Book(mem', p, cur, depth, s) /\ \A o \in MajorsIn(mem, top) : ActivationIn(mem', o) = ActivationIn(mem, o)
    BY <1>2, <1>3, <2>1, Grown
  <2> QED BY <1>1, <2>2, StutterMaps
<1>7. CASE /\ mem' = [m EXCEPT ![cur].next_args = p, ![cur].num_next_args = @ + 1]
           /\ f.num_next_args > 0 => f.next_args = top
  <2> DEFINE g == [m[cur] EXCEPT !.next_args = p, !.num_next_args = @ + 1]
             k == f.num_next_args
  <2>1. mem' = [m EXCEPT ![cur] = g]
    <3> HIDE DEF m, p
    <3> QED BY <1>2, <1>4, <1>7
  <2>2. m[cur] = f /\ m[cur] \in MajorFrame /\ k \in Nat
    <3>1. m[cur] = f
      BY <1>2, <1>4
    <3>2. k \in Nat
      BY <1>2 DEF MajorFrame
    <3> QED BY <1>2, <3>1, <3>2
  <2> HIDE DEF m, p
  <2>3. /\ ButNext(g, m[cur]) /\ SameReceived(g, m[cur]) /\ g.next_args = p
        /\ g.num_next_args = m[cur].num_next_args + 1
    BY <2>2 DEF ButNext, SameReceived, MajorFrame
  <2> HIDE DEF g
  <2>4. n[cur] = g /\ n[p] = m[p] /\ \A o \in 1 .. top : o # cur => n[o] = mem[o]
    <3>1. n[cur] = g /\ \A o \in Offsets : o # cur => n[o] = m[o]
      BY <2>1, <1>2, <1>4
    <3>2. cur # p
      BY <1>2, <1>3
    <3> QED BY <3>1, <3>2, <1>2, <1>3, <1>4
  <2>5. g.num_next_args = k + 1 /\ ButNext(n[cur], f) /\ SameReceived(n[cur], f) /\ n[cur].k = "major"
    BY <2>2, <2>3, <2>4, <1>2 DEF ButNext
  <2>6. \A j \in 1 .. k : /\ top - (j - 1) \in NextCells(f)
                          /\ f.next_args - (j - 1) = top - (j - 1)
    <3> TAKE j \in 1 .. k
    <3>1. f.next_args = top
      BY <1>7, <2>2
    <3> QED BY <3>1 DEF NextCells
  <2>7. \A x \in NextCells(f) : x \in 1 .. top /\ ~IsRegister(mem, top, x) /\ x > 0 /\ ValueIn(n, x) = ValueIn(mem, x)
    <3> TAKE x \in NextCells(f)
    <3>1. Places(mem, top)
      BY <1>2 DEF Book
    <3>2. x > 0 /\ ~IsRegister(mem, top, x)
      BY <1>2, <3>1 DEF Places
    <3>3. x \in 1 .. top
      BY <1>2, <3>1, CellsLie
    <3>4. x = cur \/ n[x] = mem[x]
      BY <2>4, <3>3
    <3>5. ValueIn(n, x) = ValueIn(mem, x)
      BY <1>2, <2>5, <3>4 DEF ValueIn
    <3> QED BY <3>2, <3>3, <3>5
  <2>8. \A x \in NextCells(n[cur]) : x > 0 /\ ~IsRegister(mem, top, x)
    <3> TAKE x \in NextCells(n[cur])
    <3>1. PICK j \in 1 .. k + 1 : x = p - (j - 1)
      BY <2>3, <2>4, <2>5 DEF NextCells
    <3>2. CASE j = 1
      <4>1. x = p
        BY <1>3, <3>1, <3>2
      <4>2. ASSUME NEW o \in MajorsIn(mem, top), mem[o].num_regs > 0 PROVE mem[o].regs # p
        <5>1. mem[o].regs \in 1 .. top
          <6>1. FrameOK(mem, top, o)
            BY <1>2 DEF Layout
          <6>2. mem[o].regs \in o + 1 .. top /\ o \in 1 .. top
            BY <4>2, <6>1 DEF FrameOK, MajorsIn
          <6> QED BY <6>2
        <5> QED BY <5>1, <1>3
      <4>3. p > 0
        BY <1>p, <1>2
      <4> QED BY <4>1, <4>2, <4>3 DEF IsRegister
    <3>3. CASE j # 1
      <4>1. j - 1 \in 1 .. k /\ x = top - ((j - 1) - 1)
        BY <1>p, <1>2, <2>2, <3>1, <3>3
      <4>2. x \in NextCells(f)
        BY <2>6, <4>1
      <4> QED BY <2>7, <4>2
    <3> QED BY <3>2, <3>3
  <2>9. /\ Book(n, p, cur, depth, s) /\ Others(mem, n, top, cur)
        /\ ActivationIn(n, cur) = [A EXCEPT !.pending = PendingIn(n, n[cur])]
    <3>1. \A o \in top + 1 .. p : n[o].k = "value"
      BY <1>3, <1>5, <2>4
    <3> HIDE DEF n
    <3> QED BY <1>2, <1>3, <2>4, <2>5, <2>8, <3>1, Pended
  <2>10. PendingIn(n, n[cur]) = <<v>> \o PendingIn(mem, f)
    <3> DEFINE P == PendingIn(n, n[cur])
               Q == PendingIn(mem, f)
    <3>1. P = [j \in 1 .. k + 1 |-> ValueIn(n, p - (j - 1))]
      BY <2>3, <2>4, <2>5 DEF PendingIn
    <3>2. Q = [j \in 1 .. k |-> ValueIn(mem, f.next_args - (j - 1))]
      BY DEF PendingIn
    <3>3. Q \in [1 .. k -> Value]
      BY <1>2, <3>2
    <3>4. P[1] = v
      <4>1. P[1] = ValueIn(n, p - (1 - 1)) /\ p - (1 - 1) = p
        BY <2>2, <3>1, <1>3
      <4>2. ValueIn(n, p) = v
        BY <1>3, <1>5, <2>4 DEF ValueIn
      <4> QED BY <4>1, <4>2
    <3>5. ASSUME NEW j \in 1 .. k PROVE P[j + 1] = Q[j]
      <4>1. j + 1 \in 1 .. k + 1 /\ p - ((j + 1) - 1) = top - (j - 1)
        BY <1>p, <1>2, <2>2
      <4>2. P[j + 1] = ValueIn(n, top - (j - 1))
        BY <3>1, <4>1
      <4>3. Q[j] = ValueIn(mem, top - (j - 1))
        BY <2>6, <3>2
      <4> QED BY <2>6, <2>7, <4>2, <4>3
    <3>6. P = [j \in 1 .. k + 1 |-> P[j]]
      BY <3>1
    <3> HIDE DEF P, Q, k
    <3>7. Follows(P, v, Q, k, Value)
      BY <1>2, <2>2, <3>3, <3>4, <3>5, <3>6 DEF Follows
    <3>8. P = <<v>> \o Q
      BY <3>7, Prepended
    <3> QED BY <3>8 DEF P, Q
  <2>11. activations # <<>> /\ Newest = A /\ activations' = Append(Callers, ActivationIn(n, cur))
    <3>1. Book(mem', top', cur', depth', s) /\ Others(mem, mem', top, cur) /\ UNCHANGED <<cur, depth>>
      BY <1>1, <2>9
    <3> QED BY <1>2, <3>1, OneChanges
  <2>12. A.pending = PendingIn(mem, f)
    BY ActivationParts
  <2> HIDE DEF A, n
  <2>13. activations' = Append(Callers, [Newest EXCEPT !.pending = <<v>> \o @])
    BY <2>9, <2>10, <2>11, <2>12
  <2>14. Abstract!Next
    BY <1>2, <2>11, <2>13, PushMaps
  <2> QED BY <1>1, <2>9, <2>14 DEF Maps, n
<1> QED BY <1>1, <1>6, <1>7

\* A frame is left: the activations below it are those of the memory m.
AfterReturn(m, p, s) ==
  /\ cur' = p /\ depth' = depth - 1 /\ p # cur
  /\ Book(mem', top', p, depth - 1, SubSeq(s, 1, depth - 1))
  /\ depth > 1 /\ s[depth - 1] = p /\ p \in MajorsIn(m, top)
  /\ \A o \in MajorsIn(m, top) : o # cur => ActivationIn(mem', o) = ActivationIn(m, o)

\* _leave_major_frame() takes the newest activation away, and nothing else.
LEMMA FrameReturned ==
  ASSUME MaxRegs = 1, NEW m, NEW s,
         Layout(m, top, cur, depth), ArgsOK(m, top), Book(m, top, cur, depth, s), IsMajor(cur),
         m[cur] = mem[cur], LeaveMajorFrame(m)
  PROVE  AfterReturn(m, mem[cur].prev, s)
<1> DEFINE p == mem[cur].prev
<1>1. AfterPop(m, p)
  BY LeavePops
<1> HIDE DEF p
<1>2. /\ Popped(m, mem', top, cur, p) /\ SameArgs(mem'[p], m[p]) /\ top' = m[cur].prev_top
      /\ cur' = p /\ depth' = depth - 1 /\ p \in MajorsIn(m, top) /\ cur # 0
  BY <1>1 DEF AfterPop
<1>3. p # cur
  <2>1. FrameOK(m, top, cur) /\ p = m[cur].prev /\ p # 0
    BY <1>2 DEF Layout, Popped
  <2>2. cur \in Nat /\ m \in Memories /\ cur \in Offsets /\ m[cur].k = "major"
    BY <1>2, LayoutTyped DEF Layout
  <2>3. m[cur].prev_top \in Nat /\ p \in Nat
    <3>1. m[cur].prev_top \in Maybe /\ m[cur].prev \in Maybe
      BY <2>2, MajorTyped
    <3> QED BY <2>1, <3>1, ContextStackAssumption DEF Maybe
  <2> QED BY <2>1, <2>2, <2>3 DEF FrameOK
<1>4. /\ Book(mem', top', p, depth - 1, SubSeq(s, 1, depth - 1)) /\ depth > 1 /\ s[depth - 1] = p
      /\ \A o \in MajorsIn(m, top) : o # cur => ActivationIn(mem', o) = ActivationIn(m, o)
  BY <1>2, FrameLeft
<1>5. AfterReturn(m, p, s)
  BY <1>2, <1>3, <1>4 DEF AfterReturn
<1> QED BY <1>5 DEF p

\* The newest activation goes.
LEMMA OneGoes ==
  ASSUME NEW s, Seen(s), NEW p, cur # 0, cur' = p, depth' = depth - 1,
         Book(mem', top', p, depth - 1, SubSeq(s, 1, depth - 1)), depth > 1, s[depth - 1] = p,
         \A o \in MajorsIn(mem, top) : o # cur /\ o # p => ActivationIn(mem', o) = ActivationIn(mem, o)
  PROVE  /\ activations # <<>> /\ Len(activations) > 1 /\ Newest = ActivationIn(mem, cur)
         /\ activations[Len(activations) - 1] = ActivationIn(mem, p)
         /\ activations' = Append(SubSeq(activations, 1, Len(activations) - 2), ActivationIn(mem', p))
<1>1. Book(mem, top, cur, depth, s)
  BY DEF Seen
<1>2. BothKept(mem, mem', top, cur, p)
  BY DEF BothKept
<1>3. NewestGone(mem, mem', cur, depth, p)
  BY <1>1, <1>2, FrameRemoved
<1>4. activations = FramesIn(mem, cur, depth) /\ activations' = FramesIn(mem', p, depth - 1)
  BY DEF Seen
<1> QED BY <1>3, <1>4 DEF NewestGone, Newest

\* RET without a value, and the end of a native function, return nothing.
LEMMA ReturnStepMaps ==
  ASSUME MaxRegs = 1, NEW s, Seen(s), RetVoid \/ NativeReturn
  PROVE  Maps
<1> DEFINE p == mem[cur].prev
<1>1. IsMajor(cur) /\ LeaveMajorFrame(mem)
  BY DEF RetVoid, NativeReturn, Executing
<1>2. Layout(mem, top, cur, depth) /\ ArgsOK(mem, top) /\ Book(mem, top, cur, depth, s) /\ cur # 0
  BY <1>1, AtHand DEF Seen
<1>3. AfterReturn(mem, p, s)
  BY <1>1, <1>2, FrameReturned
<1> HIDE DEF p
<1>4. /\ cur' = p /\ depth' = depth - 1 /\ p \in MajorsIn(mem, top) /\ p # cur
      /\ Book(mem', top', p, depth - 1, SubSeq(s, 1, depth - 1)) /\ depth > 1 /\ s[depth - 1] = p
      /\ \A o \in MajorsIn(mem, top) : o # cur => ActivationIn(mem', o) = ActivationIn(mem, o)
  BY <1>3 DEF AfterReturn
<1>5. /\ activations # <<>> /\ Len(activations) > 1
      /\ activations[Len(activations) - 1] = ActivationIn(mem, p)
      /\ activations' = Append(SubSeq(activations, 1, Len(activations) - 2), ActivationIn(mem', p))
  BY <1>2, <1>4, OneGoes
<1>6. ActivationIn(mem', p) = ActivationIn(mem, p)
  BY <1>4
<1>7. Abstract!Next
  BY <1>5, <1>6, ReturnMaps
<1> QED BY <1>4, <1>7 DEF Maps

\* RET writes the register of the caller first.
LEMMA RetMaps ==
  ASSUME MaxRegs = 1, NEW s, Seen(s), NEW i, Ret(i)
  PROVE  Maps
<1> USE ContextStackAssumption
<1> DEFINE f == mem[cur]
           p == f.prev
           v == ValueAt(Reg(cur, i))
           r == Reg(p, f.out - 1)
           m == [mem EXCEPT ![r] = Cellular(v)]
           A == ActivationIn(mem, cur)
           B == ActivationIn(mem, p)
<1>1. /\ IsMajor(cur) /\ i \in RegsOf(cur) /\ f.out \in 1 .. f.num_regs /\ IsMajor(p)
      /\ LeaveMajorFrame(m)
  BY DEF Ret, Executing
<1>2. /\ Layout(mem, top, cur, depth) /\ ArgsOK(mem, top) /\ Inv /\ Book(mem, top, cur, depth, s)
      /\ mem \in Memories /\ top \in Nat /\ top \in Maybe /\ 1 .. top \subseteq Offsets
      /\ cur \in MajorsIn(mem, top) /\ cur # 0 /\ cur \in 1 .. top /\ mem[cur] \in MajorFrame
      /\ mem[cur].k = "major" /\ f.num_regs = 1
      /\ v \in Value /\ Cellular(v) \in Cell /\ v = ValueIn(mem, f.regs)
  <2>1. v \in Value
    BY <1>1, AtHand DEF Seen
  <2>2. Cellular(v) \in Cell
    <3> HIDE DEF v
    <3> QED BY <1>1, <2>1, AtHand, ValuesTyped DEF Seen
  <2>3. f.num_regs = 1 /\ v = ValueIn(mem, f.regs)
    <3>1. Reg(cur, i) = f.regs /\ f.num_regs = 1 /\ \A o : ValueAt(o) = ValueIn(mem, o)
      BY <1>1, AtHand DEF Seen
    <3> QED BY <3>1
  <2> QED BY <1>1, <2>1, <2>2, <2>3, AtHand DEF Seen
<1>3. /\ f.out = 1 /\ p \in MajorsIn(mem, top) /\ mem[p].num_regs > 0 /\ p # 0
      /\ r = mem[p].regs /\ r \in 1 .. top /\ mem[r].k = "value"
  <2>1. f.out = 1 /\ AfterRet(p, r)
    BY <1>2, RetReturnsTo
  <2> QED BY <2>1 DEF AfterRet
<1>5. m = [mem EXCEPT ![mem[p].regs] = Cellular(v)]
  BY <1>3
<1>c. m[cur] = mem[cur]
  <2>1. cur # r
    BY <1>2, <1>3
  <2> HIDE DEF r, v
  <2> QED BY <1>2, <2>1 DEF Memories
<1>e. p = f.prev
  OBVIOUS
<1> HIDE DEF m, r, v, p
<1>6. /\ Layout(m, top, cur, depth) /\ ArgsOK(m, top) /\ Book(m, top, cur, depth, s)
      /\ Others(mem, m, top, p) /\ MajorsIn(m, top) = MajorsIn(mem, top)
      /\ B.regs \in [1 .. 1 -> {B.regs[1]}]
      /\ ActivationIn(m, p) = [B EXCEPT !.regs = [j \in 1 .. 1 |-> v]]
  <2>1. AfterWrite(mem, m, top, cur, depth, s, p, v)
    BY <1>2, <1>3, <1>5, RegisterWritten
  <2> QED BY <2>1 DEF AfterWrite
<1>7. AfterReturn(m, p, s)
  BY <1>1, <1>6, <1>c, <1>e, FrameReturned
<1>8. /\ cur' = p /\ depth' = depth - 1 /\ p # cur
      /\ Book(mem', top', p, depth - 1, SubSeq(s, 1, depth - 1)) /\ depth > 1 /\ s[depth - 1] = p
      /\ \A o \in MajorsIn(mem, top) : o # cur => ActivationIn(mem', o) = ActivationIn(m, o)
  BY <1>6, <1>7 DEF AfterReturn
<1>9. \A o \in MajorsIn(mem, top) : o # cur /\ o # p => ActivationIn(mem', o) = ActivationIn(mem, o)
  BY <1>6, <1>8 DEF Others
<1>10. /\ activations # <<>> /\ Len(activations) > 1 /\ Newest = A
       /\ activations[Len(activations) - 1] = B
       /\ activations' = Append(SubSeq(activations, 1, Len(activations) - 2), ActivationIn(mem', p))
  BY <1>2, <1>8, <1>9, OneGoes
<1>11. ActivationIn(mem', p) = [B EXCEPT !.regs = [j \in 1 .. 1 |-> v]]
  BY <1>3, <1>6, <1>8
<1>12. A.out = 1 /\ A.regs = [j \in 1 .. 1 |-> ValueIn(mem, f.regs + (j - 1))]
  <2>1. A.regs = RegsIn(mem, f) /\ A.out = f.out
    BY ActivationParts
  <2> HIDE DEF A
  <2> QED BY <2>1, <1>2, <1>3 DEF RegsIn
<1>13. 1 \in DOMAIN A.regs /\ A.regs[1] = v
  <2>1. f.regs \in Nat /\ f.regs + (1 - 1) = f.regs
    BY <1>2 DEF MajorFrame, Maybe
  <2> HIDE DEF A, f
  <2> QED BY <1>2, <1>12, <2>1
<1> HIDE DEF A, B
<1>14. Newest.out = 1 /\ 1 \in DOMAIN Newest.regs /\ Newest.regs[1] = v
  BY <1>10, <1>12, <1>13
<1>15. Abstract!Next
  <2>1. activations[Len(activations) - 1].regs \in [1 .. 1 -> {B.regs[1]}]
    BY <1>6, <1>10
  <2>2. activations' = Append(SubSeq(activations, 1, Len(activations) - 2),
                               [activations[Len(activations) - 1] EXCEPT
                                  !.regs = [j \in 1 .. 1 |-> Newest.regs[1]]])
    BY <1>10, <1>11, <1>14
  <2> QED BY <1>10, <1>14, <2>1, <2>2, ReturnValueMaps
<1> QED BY <1>8, <1>15 DEF Maps

\* Without arguments there are none to read.
LEMMA NoArguments ==
  ASSUME NEW m, NEW f
  PROVE  /\ f.num_args = 0 => ArgsIn(m, f) = <<>>
         /\ f.num_next_args = 0 => PendingIn(m, f) = <<>>
BY DEF ArgsIn, PendingIn

\* The newest activation changes, and another one is put on top of it.
CalledBy(m, n, c, d, f) ==
  LET F == FramesIn(m, c, d)
  IN  /\ F # <<>> /\ F[Len(F)] = ActivationIn(m, c)
      /\ FramesIn(n, f, d + 1) =
           Append(Append(SubSeq(F, 1, Len(F) - 1), ActivationIn(n, c)), ActivationIn(n, f))

\* A call calls a function.
LEMMA CallStepMaps ==
  ASSUME MaxRegs = 1, NEW s, Seen(s),
         NEW kind \in {"regular", "native"}, NEW n \in 0 .. MaxRegs, NEW out \in 0 .. MaxRegs,
         Call(kind, n, out)
  PROVE  Maps
<1> USE ContextStackAssumption
<1> DEFINE u == top + Extent(0, n)
           f == top + 1
           A == ActivationIn(mem, cur)
           invalid == [i \in 1 .. n |-> Plain(Invalid)]
<1>1. IsMajor(cur)
  BY DEF Call, Executing
<1>2. /\ Layout(mem, top, cur, depth) /\ ArgsOK(mem, top) /\ Inv /\ Book(mem, top, cur, depth, s)
      /\ mem \in Memories /\ top \in Nat /\ 1 .. top \subseteq Offsets
      /\ cur \in MajorsIn(mem, top) /\ cur # 0 /\ cur \in 1 .. top /\ mem[cur].k = "major"
      /\ Places(mem, top)
  BY <1>1, AtHand DEF Seen, Book
<1>3. /\ mem' \in Memories /\ u \in Maybe /\ top' = u /\ cur' = f /\ depth' = depth + 1
      /\ Pushed(mem, mem', top, u, cur, f)
      /\ SameReceived(mem'[cur], mem[cur]) /\ mem'[cur].num_next_args = 0
      /\ mem'[f].num_args = mem[cur].num_next_args /\ mem'[f].args = mem[cur].next_args
      /\ mem'[f].num_next_args = 0 /\ mem'[f].num_regs = n /\ mem'[f].out = out
      /\ \A o \in top + 3 .. u : mem'[o].v = Plain(Invalid)
  BY <1>2, CallPushes DEF AfterCall
<1>f. f = top + 1 /\ f # 0
  BY <1>2
<1> HIDE DEF u, f
<1>4. /\ mem'[cur].k = "major" /\ \A o \in 1 .. top : o # cur => mem'[o] = mem[o]
      /\ n > 0 => mem'[f].regs \in top + 3 .. u
  BY <1>2, <1>3 DEF Pushed, ButNext
<1>5. ArgCells(mem'[f]) = NextCells(mem[cur])
  BY <1>3 DEF ArgCells, NextCells
<1>6. \A p \in NextCells(mem[cur]) : /\ p > 0 /\ ~IsRegister(mem, top, p) /\ p \in 1 .. top
                                     /\ ValueIn(mem', p) = ValueIn(mem, p)
  <2> TAKE p \in NextCells(mem[cur])
  <2>1. p > 0 /\ ~IsRegister(mem, top, p)
    BY <1>2 DEF Places
  <2>2. p \in 1 .. top
    BY <1>2, CellsLie
  <2>3. p = cur \/ mem'[p] = mem[p]
    BY <1>4, <2>2
  <2>4. ValueIn(mem', p) = ValueIn(mem, p)
    BY <1>2, <1>4, <2>3 DEF ValueIn
  <2> QED BY <2>1, <2>2, <2>4
<1>7. Passed(mem, mem', top, u, cur, f)
  <2>1. \A p \in ArgCells(mem'[f]) : /\ p > 0 /\ ~IsRegister(mem, top, p)
                                     /\ mem'[f].num_regs > 0 => mem'[f].regs # p
    BY <1>2, <1>3, <1>4, <1>5, <1>6
  <2> QED BY <1>3, <2>1 DEF Passed
<1>8. /\ Book(mem', u, f, depth + 1, Append(s, f)) /\ Others(mem, mem', top, cur)
      /\ ActivationIn(mem', cur) = [A EXCEPT !.pending = PendingIn(mem', mem'[cur])]
      /\ ActivationIn(mem', f) = Act([i \in 1 .. mem'[f].num_regs |-> Plain(Invalid)],
                                     ArgsIn(mem', mem'[f]), PendingIn(mem', mem'[f]), 1, mem'[f].out)
  <2>1. AfterPush(mem, mem', top, u, cur, depth, s, f)
    BY <1>2, <1>3, <1>7, FrameCreated
  <2> QED BY <1>2, <2>1 DEF AfterPush
<1>9. PendingIn(mem', mem'[cur]) = <<>> /\ PendingIn(mem', mem'[f]) = <<>>
  BY <1>3, NoArguments
<1>10. ArgsIn(mem', mem'[f]) = A.pending
  <2>1. A.pending = PendingIn(mem, mem[cur])
    BY ActivationParts
  <2>2. \A i \in 1 .. mem[cur].num_next_args :
           ValueIn(mem', mem[cur].next_args - (i - 1)) = ValueIn(mem, mem[cur].next_args - (i - 1))
    BY <1>6 DEF NextCells
  <2>3. ArgsIn(mem', mem'[f]) = PendingIn(mem, mem[cur])
    BY <1>3, <2>2 DEF ArgsIn, PendingIn
  <2> QED BY <2>1, <2>3
<1>11. CalledBy(mem, mem', cur, depth, f)
  BY <1>2, <1>8, <1>f, FrameCalled DEF CalledBy
<1>12. /\ activations # <<>> /\ Newest = A
       /\ activations' = Append(Append(Callers, ActivationIn(mem', cur)), ActivationIn(mem', f))
  <2>1. activations = FramesIn(mem, cur, depth) /\ activations' = FramesIn(mem', f, depth + 1)
    BY <1>3 DEF Seen
  <2> QED BY <1>11, <2>1 DEF CalledBy, Newest, Callers
<1>13. /\ ActivationIn(mem', cur) = [A EXCEPT !.pending = <<>>]
       /\ ActivationIn(mem', f) = Act(invalid, A.pending, <<>>, 1, out)
  BY <1>3, <1>8, <1>9, <1>10
<1> HIDE DEF A
<1>14. activations' = Append(Append(Callers, [Newest EXCEPT !.pending = <<>>]),
                             Act(invalid, Newest.pending, <<>>, 1, out))
  BY <1>12, <1>13
<1>15. Abstract!Next
  BY <1>12, <1>14, CallMaps
<1> QED BY <1>3, <1>8, <1>15 DEF Maps

\* A frame of the host's has been put on top.
AfterStart(m, n, t, u, c, d, s, a, r, out) ==
  LET f == t + 1
  IN  /\ Book(n, u, f, d + 1, Append(s, f))
      /\ \A o \in MajorsIn(m, t) : ActivationIn(n, o) = ActivationIn(m, o)
      /\ ActivationIn(n, f) = Act([i \in 1 .. r |-> Plain(Invalid)],
                                  [i \in 1 .. a |-> Plain(Invalid)], <<>>, 1, out)

\* new_major_frame() with no caller to take arguments from adds an activation.
LEMMA FrameStarted ==
  ASSUME MaxRegs = 1, NEW m, NEW t, NEW c, NEW d, NEW s,
         Layout(m, t, c, d), ArgsOK(m, t), Book(m, t, c, d, s),
         NEW kind \in {"top", "regular", "native"},
         NEW a \in 0 .. MaxArgs, NEW r \in 0 .. MaxRegs, NEW u, u = t + Extent(a, r), u <= StackSize,
         NEW out \in 0 .. MaxRegs + 1, c # 0 => out <= m[c].num_regs,
         NEW n, n = NewFrame(m, c, kind, t, a, r, 0, a, out)
  PROVE  AfterStart(m, n, t, u, c, d, s, a, r, out)
<1> USE ContextStackAssumption
<1> DEFINE f == t + 1
<1>1. /\ n \in Memories /\ u \in Maybe /\ Pushed(m, n, t, u, c, f)
      /\ n[f].num_args = a /\ n[f].num_next_args = 0
      /\ a > 0 => n[f].args = t + 2 + a
      /\ \A o \in t + 3 .. u : n[o].v = Plain(Invalid)
      /\ c # 0 => SameArgs(n[c], m[c]) /\ SameReceived(n[c], m[c])
  <2>1. 0 \in Maybe
    BY DEF Maybe
  <2>2. n \in Memories /\ u \in Maybe /\ Pushed(m, n, t, u, c, t + 1)
    BY <2>1, NewFramePushes
  <2>3. n[t + 1].num_args = a /\ n[t + 1].num_next_args = 0
    BY <2>1, NewFramePushes
  <2>4. a > 0 => n[t + 1].args = t + 2 + a
    BY <2>1, NewFramePushes
  <2>5. \A o \in t + 3 .. u : n[o].v = Plain(Invalid)
    BY <2>1, NewFramePushes
  <2>6. c # 0 => /\ n[c].args = m[c].args /\ n[c].num_args = m[c].num_args
                 /\ n[c].next_args = m[c].next_args
                 /\ n[c].num_next_args = m[c].num_next_args
    BY <2>1, NewFramePushes
  <2>7. c # 0 => SameArgs(n[c], m[c]) /\ SameReceived(n[c], m[c])
    BY <2>6 DEF SameArgs, SameReceived
  <2> QED BY <2>2, <2>3, <2>4, <2>5, <2>7
<1>2. /\ t \in Nat /\ c \in Nat /\ u \in Nat /\ m \in Memories /\ 1 .. t \subseteq Offsets /\ a \in Nat /\ r \in Nat
      /\ u = t + 2 + a + r /\ r \in {0, 1} /\ (c # 0 => c \in MajorsIn(m, t))
      /\ t + 3 .. u \subseteq Offsets /\ u <= StackSize
  <2>1. t \in Nat /\ c \in Nat /\ m \in Memories /\ 1 .. t \subseteq Offsets /\ (c # 0 => c \in MajorsIn(m, t))
    BY BookFacts
  <2> QED BY <2>1 DEF Extent, Offsets
<1>3. n[f].num_regs = r /\ n[f].out = out /\ (r = 1 => n[f].regs = t + 3 + a)
  <2>1. LET g == NewFrame(m, c, kind, t, a, r, 0, a, out)[t + 1]
        IN  g.num_regs = r /\ g.out = out /\ g.regs = IF r = 0 THEN 0 ELSE t + 2 + a + r
    <3>1. t + 1 <= StackSize
      BY <1>2
    <3> QED BY <1>2, <3>1, NewFrameHeader
  <2>2. n[f].num_regs = r /\ n[f].out = out /\ n[f].regs = IF r = 0 THEN 0 ELSE t + 2 + a + r
    BY <2>1
  <2> QED BY <1>2, <2>2
<1>f. f = t + 1 /\ f # 0
  BY <1>2
<1> HIDE DEF f
<1>4. /\ \A o \in t + 3 .. u : n[o].k = "value"
      /\ c # 0 => n[c].k = m[c].k
      /\ \A o \in 1 .. t : o # c => n[o] = m[o]
  BY <1>1 DEF Pushed, ButNext
<1>5. ASSUME NEW i \in 1 .. a
      PROVE  /\ n[f].args - (i - 1) \in t + 3 .. u /\ n[f].args - (i - 1) \in Nat
             /\ n[f].args - (i - 1) < t + 3 + a
  <2>1. n[f].args = t + 2 + a
    BY <1>1, <1>2
  <2> QED BY <1>2, <2>1
<1>6. \A p \in ArgCells(n[f]) : /\ p > 0 /\ ~IsRegister(m, t, p) /\ (n[f].num_regs > 0 => n[f].regs # p)
  <2> TAKE p \in ArgCells(n[f])
  <2>1. PICK i \in 1 .. a : p = n[f].args - (i - 1)
    BY <1>1 DEF ArgCells
  <2>2. p \in t + 3 .. u /\ p \in Nat /\ p < t + 3 + a
    BY <1>5, <2>1
  <2>3. ASSUME NEW o \in MajorsIn(m, t), m[o].num_regs > 0 PROVE m[o].regs # p
    <3>1. FrameOK(m, t, o)
      BY DEF Layout
    <3>2. m[o].regs \in o + 1 .. t /\ o \in 1 .. t
      BY <2>3, <3>1 DEF FrameOK, MajorsIn
    <3> QED BY <1>2, <2>2, <3>2
  <2>4. p > 0
    BY <1>2, <2>2
  <2>5. n[f].num_regs > 0 => n[f].regs # p
    BY <1>2, <1>3, <2>2
  <2> QED BY <2>3, <2>4, <2>5 DEF IsRegister
<1>7. Passed(m, n, t, u, c, f)
  BY <1>1, <1>6 DEF Passed
<1>8. /\ Book(n, u, f, d + 1, Append(s, f)) /\ Others(m, n, t, c)
      /\ c # 0 => ActivationIn(n, c) = [ActivationIn(m, c) EXCEPT !.pending = PendingIn(n, n[c])]
      /\ ActivationIn(n, f) = Act([i \in 1 .. n[f].num_regs |-> Plain(Invalid)],
                                  ArgsIn(n, n[f]), PendingIn(n, n[f]), 1, n[f].out)
  <2>1. AfterPush(m, n, t, u, c, d, s, f)
    BY <1>1, <1>7, FrameCreated
  <2> QED BY <2>1 DEF AfterPush
<1>9. PendingIn(n, n[f]) = <<>>
  BY <1>1, NoArguments
<1>10. ArgsIn(n, n[f]) = [i \in 1 .. a |-> Plain(Invalid)]
  <2>1. \A i \in 1 .. a : ValueIn(n, n[f].args - (i - 1)) = Plain(Invalid)
    BY <1>1, <1>2, <1>4, <1>5 DEF ValueIn
  <2> QED BY <1>1, <2>1 DEF ArgsIn
<1>11. c # 0 => ActivationIn(n, c) = ActivationIn(m, c)
  <2> SUFFICES ASSUME c # 0 PROVE ActivationIn(n, c) = ActivationIn(m, c)
    OBVIOUS
  <2> DEFINE A == ActivationIn(m, c)
  <2>1. c \in MajorsIn(m, t) /\ Places(m, t) /\ m[c].k = "major"
    BY <1>2 DEF Book, MajorsIn
  <2>2. \A p \in NextCells(m[c]) : ValueIn(n, p) = ValueIn(m, p)
    <3> TAKE p \in NextCells(m[c])
    <3>1. p \in 1 .. t
      BY <2>1, CellsLie
    <3>2. p = c \/ n[p] = m[p]
      BY <1>4, <3>1
    <3> QED BY <1>4, <2>1, <3>2 DEF ValueIn
  <2>3. PendingIn(n, n[c]) = PendingIn(m, m[c])
    <3>1. n[c].next_args = m[c].next_args /\ n[c].num_next_args = m[c].num_next_args
      BY <1>1 DEF SameArgs
    <3>2. \A i \in 1 .. m[c].num_next_args :
             ValueIn(n, m[c].next_args - (i - 1)) = ValueIn(m, m[c].next_args - (i - 1))
      BY <2>2 DEF NextCells
    <3> QED BY <3>1, <3>2 DEF PendingIn
  <2>4. A = Act(A.regs, A.args, A.pending, A.scopes, A.out) /\ A.pending = PendingIn(m, m[c])
    BY ActivationParts
  <2> HIDE DEF A
  <2>5. ActivationIn(n, c) = [A EXCEPT !.pending = A.pending]
    BY <1>8, <2>3, <2>4 DEF A
  <2>6. [A EXCEPT !.pending = A.pending] = Act(A.regs, A.args, A.pending, A.scopes, A.out)
    BY <2>4, PartsChange
  <2> QED BY <2>4, <2>5, <2>6 DEF A
<1>12. \A o \in MajorsIn(m, t) : ActivationIn(n, o) = ActivationIn(m, o)
  <2> TAKE o \in MajorsIn(m, t)
  <2>1. o # 0
    BY DEF MajorsIn
  <2> QED BY <1>8, <1>11, <2>1 DEF Others
<1> QED BY <1>f, <1>3, <1>8, <1>9, <1>10, <1>12 DEF AfterStart

\* One activation more.
AddedTo(m, n, c, d, f) == FramesIn(n, f, d + 1) = Append(FramesIn(m, c, d), ActivationIn(n, f))

\* The sequence of activations has one more.
LEMMA StartAdds ==
  ASSUME NEW m, NEW n, NEW t \in Nat, NEW u, NEW c, NEW d, NEW s, NEW a, NEW r, NEW out,
         Book(m, t, c, d, s), AfterStart(m, n, t, u, c, d, s, a, r, out)
  PROVE  AddedTo(m, n, c, d, t + 1)
<1> DEFINE f == t + 1
<1>1. f # 0
  OBVIOUS
<1>2. Book(n, u, f, d + 1, Append(s, f)) /\ \A o \in MajorsIn(m, t) : ActivationIn(n, o) = ActivationIn(m, o)
  BY DEF AfterStart
<1> HIDE DEF f
<1>3. AddedTo(m, n, c, d, f)
  BY <1>1, <1>2, FrameAdded DEF AddedTo
<1> QED BY <1>3 DEF f

\* Two activations are appended one at a time.
LEMMA TwoAppended ==
  ASSUME NEW S, NEW F \in Seq(S), NEW x \in S, NEW y \in S
  PROVE  Append(Append(F, x), y) = F \o <<x, y>>
OBVIOUS

\* exec_fn() starts a function, with the frame that waits for its result below it.
LEMMA StartStepMaps ==
  ASSUME MaxRegs = 1, NEW s, Seen(s),
         NEW kind \in {"regular", "native"}, NEW a \in 0 .. MaxArgs, NEW n \in 0 .. MaxRegs,
         NEW out \in 0 .. MaxRegs, ExecFn(kind, a, n, out)
  PROVE  Maps
<1> USE ContextStackAssumption
<1> DEFINE m == NewFrame(mem, cur, "top", top, 0, 1, 0, 0, 0)
           t == top + Extent(0, 1)
           f == top + 1
           F == FramesIn(mem, cur, depth)
<1>1. /\ Layout(mem, top, cur, depth) /\ top \in Nat /\ depth \in Nat /\ RefsOK(mem, top)
      /\ ArgsOK(mem, top) /\ Book(mem, top, cur, depth, s)
  <2>1. Layout(mem, top, cur, depth) /\ RefsOK(mem, top) /\ Book(mem, top, cur, depth, s)
    BY DEF Seen, RInv, Inv
  <2> QED BY <2>1, LayoutTyped DEF RefsOK
<1>2. ASSUME t <= StackSize
      PROVE  /\ Layout(m, t, f, depth + 1) /\ m[f].num_regs = 1 /\ ArgsOK(m, t)
             /\ AfterStart(mem, m, top, t, cur, depth, s, 0, 1, 0)
  <2>1. cur # 0 => 0 <= mem[cur].num_regs
    <3>1. cur # 0 => cur \in Offsets /\ mem[cur].k = "major" /\ mem \in Memories
      BY <1>1, LayoutTyped DEF Layout
    <3> QED BY <3>1, MajorTyped
  <2>2. /\ "top" \in {"top", "regular", "native"} /\ 0 \in 0 .. MaxArgs /\ 1 \in 0 .. MaxRegs
        /\ 0 \in Maybe /\ 0 \in 0 .. MaxRegs + 1 /\ ~(0 > 0)
    BY DEF Maybe
  <2>3. Layout(m, t, f, depth + 1)
    BY <1>1, <1>2, <2>1, <2>2, NewFrameLayout
  <2>4. f \in Offsets
    BY <1>1, <1>2 DEF Extent, Offsets
  <2>5. m[f].num_regs = 1
    BY <2>4 DEF NewFrame
  <2>6. m = NewFrame(mem, cur, "top", top, 0, 1, 0, 0, 0) /\ t = top + Extent(0, 1)
    OBVIOUS
  <2> HIDE DEF m, t
  <2>7. RefsOK(m, t)
    BY <1>1, <1>2, <2>1, <2>2, <2>6, NewFrameRefs
  <2>8. AfterStart(mem, m, top, t, cur, depth, s, 0, 1, 0)
    BY <1>1, <1>2, <2>1, <2>2, <2>6, FrameStarted
  <2> QED BY <2>3, <2>5, <2>7, <2>8 DEF RefsOK
<1>3. CASE UNCHANGED <<mem, top, cur, depth>>
  BY <1>3, ThrowMaps
<1>t. t = top + 3 /\ f \in Nat /\ t \in Nat
  BY <1>1 DEF Extent
<1>f. activations = F
  BY DEF Seen
<1>b. ASSUME t <= StackSize
      PROVE  /\ Book(m, t, f, depth + 1, Append(s, f)) /\ ActivationIn(m, f) = Bottom
             /\ FramesIn(m, f, depth + 1) = Append(F, Bottom)
  <2>1. AfterStart(mem, m, top, t, cur, depth, s, 0, 1, 0)
    BY <1>2, <1>b
  <2>2. ActivationIn(m, f) = Bottom
    <3>1. [i \in 1 .. 0 |-> Plain(Invalid)] = <<>>
      OBVIOUS
    <3> HIDE DEF m, t
    <3> QED BY <2>1, <3>1 DEF AfterStart, Bottom
  <2>3. Book(m, t, f, depth + 1, Append(s, f))
    <3> HIDE DEF m, t
    <3> QED BY <2>1 DEF AfterStart
  <2>4. AddedTo(mem, m, cur, depth, f)
    <3> HIDE DEF m, t
    <3> QED BY <1>1, <2>1, StartAdds
  <2> QED BY <2>2, <2>3, <2>4 DEF AddedTo
<1> HIDE DEF m, t, f, F
<1>4. CASE t <= StackSize /\ mem' = m /\ cur' = f /\ top' = t /\ depth' = depth + 1
  <2>1. /\ Book(m, t, f, depth + 1, Append(s, f)) /\ FramesIn(m, f, depth + 1) = Append(F, Bottom)
    BY <1>b, <1>4
  <2>2. activations' = Append(activations, Bottom)
    BY <1>4, <1>f, <2>1 DEF Seen
  <2>3. Abstract!Next
    BY <2>2, StartMaps
  <2> QED BY <1>4, <2>1, <2>3 DEF Maps
<1>5. CASE /\ t + Extent(a, n) <= StackSize
           /\ mem' = NewFrame(m, f, kind, t, a, n, 0, a, out)
           /\ cur' = t + 1 /\ top' = t + Extent(a, n) /\ depth' = depth + 2
  <2> DEFINE u == t + Extent(a, n)
             X == Act([i \in 1 .. n |-> Plain(Invalid)], [i \in 1 .. a |-> Plain(Invalid)], <<>>, 1, out)
  <2>1. t <= StackSize
    BY <1>t, <1>5 DEF Extent
  <2>2. /\ Layout(m, t, f, depth + 1) /\ out <= m[f].num_regs /\ ArgsOK(m, t)
        /\ Book(m, t, f, depth + 1, Append(s, f)) /\ FramesIn(m, f, depth + 1) = Append(F, Bottom)
    BY <1>2, <1>b, <2>1
  <2>3. kind \in {"top", "regular", "native"} /\ out \in 0 .. MaxRegs + 1 /\ (f # 0 => out <= m[f].num_regs)
    BY <2>2
  <2>4. u = t + Extent(a, n) /\ u <= StackSize /\ top' = u
    BY <1>5
  <2> HIDE DEF u, X
  <2>5. AfterStart(m, mem', t, u, f, depth + 1, Append(s, f), a, n, out)
    BY <1>5, <2>2, <2>3, <2>4, FrameStarted
  <2>6. AddedTo(m, mem', f, depth + 1, t + 1)
    BY <1>t, <2>2, <2>5, StartAdds
  <2>7. /\ Book(mem', u, t + 1, (depth + 1) + 1, Append(Append(s, f), t + 1))
        /\ ActivationIn(mem', t + 1) = X
    BY <2>5 DEF AfterStart, X
  <2>8. (depth + 1) + 1 = depth + 2 /\ depth' = (depth + 1) + 1
    BY <1>1, <1>5
  <2>9. activations' = Append(Append(F, Bottom), X)
    <3>1. activations' = FramesIn(mem', t + 1, (depth + 1) + 1)
      BY <1>5, <2>8 DEF Seen
    <3> QED BY <2>2, <2>6, <2>7, <3>1 DEF AddedTo
  <2>10. Append(Append(F, Bottom), X) = F \o <<Bottom, X>>
    <3> DEFINE S == Bodies(mem) \cup {Bottom, X}
    <3>1. F \in Seq(S)
      <4>1. \A T : Bodies(mem) \subseteq T => F \in Seq(T)
        BY <1>1, FramesListed DEF F
      <4>2. Bodies(mem) \subseteq S
        OBVIOUS
      <4> HIDE DEF S
      <4> QED BY <4>1, <4>2
    <3> QED BY <3>1, TwoAppended
  <2>11. activations' = activations \o <<Bottom, X>>
    BY <1>f, <2>9, <2>10
  <2>12. Abstract!Next
    BY <2>11, StartRunningMaps DEF X
  <2>13. Book(mem', top', cur', depth', Append(Append(s, f), t + 1))
    BY <1>5, <2>4, <2>7, <2>8
  <2> QED BY <2>12, <2>13 DEF Maps
<1> QED BY <1>3, <1>4, <1>5 DEF ExecFn, m, t, f

\* The activations are those of a memory that has its frames, scopes and
\* arguments in order.
Mapped ==
  /\ RInv
  /\ \E s : Book(mem, top, cur, depth, s)
  /\ activations = Frames

\* The empty stack is the empty call stack.
LEMMA InitMapped ==
  ASSUME MCInit
  PROVE  Mapped /\ Abstract!Init
<1>1. Init /\ activations = Frames
  BY DEF MCInit
<1>2. RInv
  BY <1>1, InitInv, InitRefs DEF RInv
<1>3. top = 0 /\ cur = 0 /\ depth = 0
  BY <1>1 DEF Init
<1>4. MajorsIn(mem, top) = {}
  BY <1>3 DEF MajorsIn
<1>5. FrameChain(mem, top, cur, depth, <<>>)
  BY <1>3 DEF FrameChain
<1>6. Book(mem, top, cur, depth, <<>>)
  BY <1>4, <1>5 DEF Book, Places
<1>7. Frames = <<>>
  <2>1. Frames = FramesIn(mem, cur, depth)
    BY FramesHere
  <2>2. FramesIn(mem, cur, depth) = [i \in 1 .. depth |-> ActivationIn(mem, (<<>>)[i])]
    BY <1>5, FramesAre
  <2>3. 1 .. depth = {}
    BY <1>3
  <2> QED BY <2>1, <2>2, <2>3
<1> QED BY <1>1, <1>2, <1>6, <1>7 DEF Mapped, Abstract!Init

\* Every instruction is a step of the abstract call stack or none at all.
LEMMA StepMaps ==
  ASSUME MaxRegs = 1, Mapped, Next, activations' = Frames'
  PROVE  Maps
<1>1. PICK s : Book(mem, top, cur, depth, s)
  BY DEF Mapped
<1>2. Seen(s)
  BY <1>1, FramesHere, FramesThen DEF Mapped, Seen
<1>3. ASSUME NEW kind \in {"regular", "native"}, NEW n \in 0 .. MaxRegs, NEW out \in 0 .. MaxRegs,
             Call(kind, n, out)
      PROVE  Maps
  BY <1>2, <1>3, CallStepMaps
<1>4. ASSUME NEW kind \in {"regular", "native"}, NEW n \in 0 .. MaxRegs, NEW out \in 0 .. MaxRegs,
             NEW a \in 0 .. MaxArgs, ExecFn(kind, a, n, out)
      PROVE  Maps
  BY <1>2, <1>4, StartStepMaps
<1>5. CASE RetVoid \/ NativeReturn
  BY <1>2, <1>5, ReturnStepMaps
<1>6. CASE Enter
  BY <1>2, <1>6, EnterStepMaps
<1>7. CASE Leave
  BY <1>2, <1>7, LeaveStepMaps
<1>8. CASE Throw
  BY <1>2, <1>8, ThrowMaps DEF Throw
<1>9. ASSUME NEW i \in 0 .. MaxRegs, Ret(i) \/ LVar(i) \/ PushArg(i) \/ Write(i) \/ Store(i)
      PROVE  Maps
  BY <1>2, <1>9, RetMaps, LVarMaps, PushArgMaps, WriteStepMaps, StoreMaps
<1> QED BY <1>3, <1>4, <1>5, <1>6, <1>7, <1>8, <1>9 DEF Next

(***************************************************************************)
(* What the functions see of the interpreter's stack is a call stack: each *)
(* activation keeps its registers, its arguments and its scopes whatever   *)
(* the functions that it calls put above it, and a return gives its caller *)
(* one value at most.  This holds of a stack of any size and any number of *)
(* arguments, if no function has more than one register, no scope is left  *)
(* while arguments are pending (Balanced), and a reference does not leave  *)
(* its function or go to an older variable (Confined).                     *)
(***************************************************************************)
THEOREM StackImplementsCalls ==
  ASSUME MaxRegs = 1, Balanced, Confined
  PROVE  MCSpec => ImplementsCallStack
<1>1. MCInit => Mapped /\ Abstract!Init
  BY InitMapped
<1>2. Mapped /\ [MCNext]_<<vars, activations>> => Mapped' /\ [Abstract!Next]_activations
  <2> SUFFICES ASSUME Mapped, [MCNext]_<<vars, activations>>
               PROVE  Mapped' /\ [Abstract!Next]_activations
    OBVIOUS
  <2>1. RInv'
    <3>1. [Next]_vars
      BY DEF MCNext
    <3>2. Inv'
      BY <3>1, StepInv DEF Mapped, RInv
    <3>3. RefsOK(mem', top')
      BY <3>1, StepRefs DEF Mapped
    <3> QED BY <3>2, <3>3 DEF RInv
  <2>2. CASE MCNext
    <3>1. activations' = Frames' /\ Maps
      BY <2>2, StepMaps DEF MCNext
    <3> QED BY <2>1, <3>1 DEF Mapped, Maps
  <2>3. CASE UNCHANGED <<vars, activations>>
    <3>1. UNCHANGED <<mem, top, cur, depth, activations>>
      BY <2>3 DEF vars
    <3>2. Frames' = Frames
      BY <3>1, FramesHere, FramesThen
    <3> QED BY <2>1, <3>1, <3>2 DEF Mapped
  <2> QED BY <2>2, <2>3
<1> QED BY <1>1, <1>2, PTL DEF MCSpec, ImplementsCallStack, Abstract!Spec
=============================================================================
