--------------------------------- MODULE Cfg ---------------------------------
(***************************************************************************)
(* The control-flow graph of the optimizer (src/slake/opti/cfg/divide.cc   *)
(* and opti/cfg.cc): a function's instructions are cut into basic blocks   *)
(* at jumps, jump targets and returns, the targets are replaced by labels, *)
(* and every block is then required to end with a jump or a return.        *)
(*                                                                         *)
(* Instructions are numbered from 0, as in the code; code[i + 1] is the    *)
(* instruction i.  An execution divides one function and checks the result.*)
(***************************************************************************)
EXTENDS Integers, Sequences, FiniteSets, SequencesExt

CONSTANTS
  CodeMax,    \* bound on the number of instructions of the function divided
  TargetMax   \* bound on the offsets its jumps name, which need not lie inside it

ASSUME CfgAssumption == CodeMax \in Nat \ {0} /\ TargetMax \in Nat

VARIABLES
  code,       \* fn_overloading->instructions
  blocks,     \* control_flow_graph_out.basic_blocks: [begin, end, targets, labels]
  cfg_state   \* how far the division has come and how it ended

cfg == <<code, blocks, cfg_state>>

-----------------------------------------------------------------------------
\* An operand that is a literal of type U32; all others are alike here.
Offset(n) == [kind |-> "offset", n |-> n]
Targets(ins) ==
  CASE ins.op = "JMP" -> <<ins.args[1].n>>
    [] ins.op = "BR"  -> <<ins.args[2].n, ins.args[3].n>>
    [] OTHER          -> <<>>

IsOffset(x) == x.kind = "offset"

\* The operands that the division insists on.
WellFormed(ins) ==
  CASE ins.op = "JMP" -> Len(ins.args) = 1 /\ IsOffset(ins.args[1])
    [] ins.op = "BR"  -> Len(ins.args) = 3 /\ IsOffset(ins.args[2]) /\ IsOffset(ins.args[3])
    [] ins.op = "RET" -> Len(ins.args) <= 1
    [] OTHER          -> TRUE

\* Mutant: a jump marks its target only.
BoundariesOfTargets(c) ==
  UNION {CASE c[i].op \in {"JMP", "BR"} -> ToSet(Targets(c[i]))
           [] c[i].op = "RET"           -> IF i < Len(c) THEN {i} ELSE {}
           [] OTHER                     -> {} : i \in DOMAIN c}

\* basic_block_boundaries: a return at the very end begins no further block, a
\* jump there does.
Boundaries(c) ==
  UNION {CASE c[i].op \in {"JMP", "BR"} -> {i} \cup ToSet(Targets(c[i]))
           [] c[i].op = "RET"           -> IF i < Len(c) THEN {i} ELSE {}
           [] OTHER                     -> {} : i \in DOMAIN c}

\* They are an ordered set: the k-th has k - 1 others below it.
Cuts(c) ==
  [k \in 1..Cardinality(Boundaries(c)) |->
     CHOOSE b \in Boundaries(c) : Cardinality({a \in Boundaries(c) : a < b}) = k - 1]

\* basic_block_map.  An entry is made for offset 0 before all others and its
\* value is the size of the map: a boundary at 0, already there, adds nothing.
Label(c, target) ==
  IF target = 0 THEN 0 ELSE Cardinality({0} \cup {b \in Boundaries(c) : b < target})

\* Block k ranges from the boundary before it to the next one or the end.
BlockBegin(c, k) == IF k = 1 THEN 0 ELSE Cuts(c)[k - 1]
BlockEnd(c, k)   == IF k <= Len(Cuts(c)) THEN Cuts(c)[k] ELSE Len(c)

\* The offsets that the instructions b + 1 to e jump to, in their order.
TargetsBetween(c, b, e) ==
  LET upto[i \in 0..(e - b)] == IF i = 0 THEN <<>> ELSE upto[i - 1] \o Targets(c[b + i])
  IN upto[e - b]

Block(c, k) ==
  LET jumps == TargetsBetween(c, BlockBegin(c, k), BlockEnd(c, k))
  IN [begin |-> BlockBegin(c, k), end |-> BlockEnd(c, k), targets |-> jumps,
      labels |-> [i \in DOMAIN jumps |-> Label(c, jumps[i])]]

-----------------------------------------------------------------------------
Instr(op, args) == [op |-> op, out |-> 0, args |-> args]
Other(k)        == [kind |-> k]

\* The instructions a function may consist of, the ill-formed ones among them.
Control ==
  LET offsets == {Offset(n) : n \in 0..TargetMax}
  IN {Instr("NOP", <<>>), Instr("RET", <<>>), Instr("JMP", <<>>), Instr("RET", <<Other("reg"), Other("reg")>>),
      Instr("BR", <<Other("reg"), Other("reg"), Offset(0)>>)}
     \cup {Instr("JMP", <<x>>) : x \in offsets}
     \cup {Instr("BR", <<Other("reg"), x, y>>) : x \in offsets, y \in offsets}

CfgInit ==
  /\ code \in UNION {[1..n -> Control] : n \in 1..CodeMax}
  /\ blocks = <<>>
  /\ cfg_state = "given"

\* The first loop: the boundaries are collected or the function is refused.
CollectBoundaries ==
  /\ cfg_state = "given"
  /\ cfg_state' = IF \A i \in DOMAIN code : WellFormed(code[i]) THEN "cut" ELSE "malformed"
  /\ UNCHANGED <<code, blocks>>

\* The last loop.  A target behind the end lets a block reach beyond the
\* instructions, or makes the length of the last block wrap around.
FillBlocks ==
  /\ cfg_state = "cut"
  /\ LET n == Len(Cuts(code)) + 1
     IN IF \A b \in Boundaries(code) : b <= Len(code)
        THEN /\ blocks' = [k \in 1..n |-> Block(code, k)]
             /\ cfg_state' = "divided"
        ELSE cfg_state' = "outofrange" /\ UNCHANGED blocks
  /\ UNCHANGED code

\* check_terminal_instructions(): reads the last instruction of each block in
\* turn, whatever is there if the block is empty.
Terminates(b) == b.end > b.begin /\ code[b.end].op \in {"JMP", "BR", "RET"}

CheckTerminals ==
  /\ cfg_state = "divided"
  /\ \/ /\ \E k \in DOMAIN blocks : ~Terminates(blocks[k])
        /\ cfg_state' = "malformed cfg"
     \/ /\ \A k \in DOMAIN blocks : blocks[k].begin = blocks[k].end \/ Terminates(blocks[k])
        /\ cfg_state' = "accepted"
  /\ UNCHANGED <<code, blocks>>

CfgNext == CollectBoundaries \/ FillBlocks \/ CheckTerminals

CfgSpec == CfgInit /\ [][CfgNext]_cfg /\ WF_cfg(CfgNext)

-----------------------------------------------------------------------------
Divided == cfg_state \in {"divided", "accepted", "malformed cfg"}

\* The blocks hold every instruction once and in order, and control enters
\* a block only at its beginning and leaves it only at its end: no jump lies
\* before the last instruction, no target after the first
\* (divide_instructions_into_basic_blocks).
BlocksPartition ==
  Divided =>
    /\ blocks[1].begin = 0 /\ blocks[Len(blocks)].end = Len(code)
    /\ \A k \in 1..(Len(blocks) - 1) : blocks[k].end = blocks[k + 1].begin
    /\ \A k \in DOMAIN blocks, i \in DOMAIN code :
         (blocks[k].begin < i /\ i < blocks[k].end) =>
           /\ code[i].op \notin {"JMP", "BR", "RET"}
           /\ \A j \in DOMAIN code : \A t \in ToSet(Targets(code[j])) : t # i

\* A label stands for the block that begins where the jump went, provided that
\* no jump goes back to offset 0: then every later label is one short
\* (basic_block_map).
LabelsNameTargets ==
  (Divided /\ 0 \notin Boundaries(code)) =>
    \A k \in DOMAIN blocks : \A i \in DOMAIN blocks[k].labels :
      blocks[blocks[k].labels[i] + 1].begin = blocks[k].targets[i]

\* The division keeps the meaning of the function: the blocks make up its
\* instructions, and a jump by label goes where the jump by offset went.
DivisionSound == BlocksPartition /\ LabelsNameTargets
=============================================================================
