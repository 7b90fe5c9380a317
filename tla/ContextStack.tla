---------------------------- MODULE ContextStack ----------------------------
(***************************************************************************)
(* The data stack of an execution context (src/slake/rt/exec.cc,           *)
(* obj/context.cc): one block of memory in which the interpreter keeps     *)
(* call frames (major frames), scopes (minor frames), alloca records,      *)
(* local variables, registers and arguments side by side, linked by        *)
(* offsets.  Which function runs, and which instruction comes next, is     *)
(* left open: any instruction may come at any time.                        *)
(*                                                                         *)
(* Offsets count from the base of the block.  Everything takes one cell,   *)
(* the cells up to stack_top are in use, and 0 stands for SIZE_MAX.  Only  *)
(* the Any registers are kept: register i of a frame is addressed as the   *)
(* cell at offset base + i, where base is stack_top after the registers    *)
(* have been allocated - which is the cell of the first register, and, for *)
(* every further one, a cell that belongs to what is allocated next.       *)
(***************************************************************************)
EXTENDS Integers, FiniteSets

CONSTANTS
  StackSize,   \* Context::stack_size
  MaxRegs,     \* bound on RegularFnOverloadingObject::num_registers[Any]
  MaxArgs,     \* bound on the pending arguments of a frame
  Data,        \* the values that are not references to local variables
  Invalid,     \* InvalidValueState
  Balanced,    \* TRUE: no scope is left while arguments are pending
  Confined     \* TRUE: a reference to a local variable is neither returned from its
               \* function nor stored in an older variable

ASSUME ContextStackAssumption ==
  /\ StackSize \in Nat /\ MaxRegs \in Nat /\ MaxArgs \in Nat
  /\ Invalid \in Data
  /\ Balanced \in BOOLEAN /\ Confined \in BOOLEAN

VARIABLES
  mem,      \* mem[o]: the object at offset o of data_stack
  top,      \* Context::stack_top
  cur,      \* Context::off_cur_major_frame
  depth,    \* Context::num_major_frames
  running,  \* exec_context() is running
  fault     \* the null pointer of an unchecked allocation has been written to

vars == <<mem, top, cur, depth, running, fault>>

Offsets == 1 .. StackSize
Maybe   == 0 .. StackSize

\* A value: data, or a reference to the local variable at an offset.
Plain(d) == [ref |-> FALSE, data |-> d, at |-> 0]
Ref(o)   == [ref |-> TRUE, data |-> Invalid, at |-> o]
Value    == {Plain(d) : d \in Data} \cup {Ref(o) : o \in Offsets}

MajorFrame == [k : {"major"}, kind : {"top", "regular", "native"},
               prev : Maybe, next : Maybe, minor : Maybe,
               regs : Maybe, num_regs : 0 .. MaxRegs, args : Maybe, num_args : 0 .. MaxArgs,
               next_args : Maybe, num_next_args : 0 .. MaxArgs,
               out : 0 .. MaxRegs + 1,      \* return_value_out_reg + 1
               prev_top : Maybe]
MinorFrame   == [k : {"minor"}, last : Maybe, records : Maybe, base : Maybe]
AllocaRecord == [k : {"record"}, next : Maybe, reg : 0 .. MaxRegs]
ValueCell    == [k : {"value"}, v : Value]
Variable     == [k : {"variable"}, v : Value]
Cell == MajorFrame \cup MinorFrame \cup AllocaRecord \cup ValueCell \cup Variable

Init ==
  /\ mem = [o \in Offsets |-> [k |-> "value", v |-> Plain(Invalid)]]
  /\ top = 0 /\ cur = 0 /\ depth = 0
  /\ running = FALSE /\ fault = FALSE

-----------------------------------------------------------------------------

IsMajor(o) == o \in Offsets /\ mem[o].k = "major"
IsMinor(o) == o \in Offsets /\ mem[o].k = "minor"

\* _access_typed_reg(i, Value, Any) in the frame at o.
Reg(o, i)   == mem[o].regs + i
RegsOf(o)   == 0 .. mem[o].num_regs - 1
ValueAt(o)  == IF o \in Offsets /\ mem[o].k = "value" THEN mem[o].v ELSE Plain(Invalid)
Cellular(v) == [k |-> "value", v |-> v]

\* The interpreter is about to execute an instruction of a regular function.
Executing ==
  /\ running /\ ~fault
  /\ IsMajor(cur) /\ mem[cur].kind = "regular"

\* The size of a frame with a copies of arguments and n registers.
Extent(a, n) == 2 + a + n

\* _create_new_major_frame(): the memory m with a new frame above offset t,
\* whose caller is p: the header, the bottom scope, a copies of the host's
\* arguments (_fill_args), n registers.  The base of the bottom scope, which
\* the code takes from off_next_args_begin, is never read.
NewFrame(m, p, kind, t, a, n, off_args, num_args, out) ==
  LET major == [k |-> "major", kind |-> kind, prev |-> p, next |-> 0, minor |-> t + 2,
                regs |-> IF n = 0 THEN 0 ELSE t + 2 + a + n, num_regs |-> n,
                args |-> IF a > 0 THEN t + 2 + a ELSE off_args, num_args |-> num_args,
                next_args |-> 0, num_next_args |-> 0, out |-> out, prev_top |-> t]
  IN  [o \in Offsets |->
         IF o = t + 1 THEN major
         ELSE IF o = t + 2 THEN [k |-> "minor", last |-> 0, records |-> 0, base |-> t]
         ELSE IF o \in t + 3 .. t + 2 + a + n THEN Cellular(Plain(Invalid))
         ELSE IF o = p THEN [m[p] EXCEPT !.next = t + 1]
         ELSE m[o]]

\* exec_fn(): a top frame, which carries one register for the result, and
\* the frame of the function, with a arguments and n registers.  Nothing
\* checks that the register of the top frame was allocated.  When the second
\* frame cannot be created, the first one stays, and so do both when the runnable
\* cannot be registered.  (A structure that is returned is left out: it would be a
\* local variable of the top frame.)
ExecFn(kind, a, n, out) ==
  LET m == NewFrame(mem, cur, "top", top, 0, 1, 0, 0, 0)
      t == top + Extent(0, 1)
  IN  /\ ~running /\ ~fault
      /\ cur # 0 => IsMajor(cur)
      /\ kind = "native" => n = 0
      /\ top + 2 <= StackSize
      /\ \/ t > StackSize /\ fault' = TRUE /\ UNCHANGED <<mem, top, cur, depth, running>>
         \/ /\ t <= StackSize
            /\ mem' = m /\ cur' = top + 1 /\ top' = t /\ depth' = depth + 1
            /\ UNCHANGED <<running, fault>>
         \/ /\ t + Extent(a, n) <= StackSize
            /\ mem' = NewFrame(m, top + 1, kind, t, a, n, 0, a, out)
            /\ cur' = t + 1 /\ top' = t + Extent(a, n) /\ depth' = depth + 2
            /\ running' \in BOOLEAN
            /\ UNCHANGED fault

\* Mutant: the arguments stay pending.
CallKeepingArgs(kind, n, out) ==
  LET f == mem[cur]
  IN  /\ Executing
      /\ \E i \in RegsOf(cur) : ~ValueAt(Reg(cur, i)).ref
      /\ out <= f.num_regs
      /\ kind = "native" => n = 0
      /\ top + Extent(0, n) <= StackSize
      /\ mem' = NewFrame(mem, cur, kind, top, 0, n, f.next_args, f.num_next_args, out)
      /\ cur' = top + 1 /\ top' = top + Extent(0, n) /\ depth' = depth + 1
      /\ UNCHANGED <<running, fault>>

\* CALL, MCALL and CTORCALL: the pending arguments stay where they are.
Call(kind, n, out) ==
  LET f == mem[cur]
      m == [mem EXCEPT ![cur].next_args = 0, ![cur].num_next_args = 0]
  IN  /\ Executing
      /\ \E i \in RegsOf(cur) : ~ValueAt(Reg(cur, i)).ref
      /\ out <= f.num_regs
      /\ kind = "native" => n = 0
      /\ top + Extent(0, n) <= StackSize
      /\ mem' = NewFrame(m, cur, kind, top, 0, n, f.next_args, f.num_next_args, out)
      /\ cur' = top + 1 /\ top' = top + Extent(0, n) /\ depth' = depth + 1
      /\ UNCHANGED <<running, fault>>

\* Mutant: the stack is cut back to the header of the caller.
LeaveToCaller(m) ==
  LET f == mem[cur]
  IN  /\ f.next = 0 /\ f.prev_top <= top
      /\ IsMajor(f.prev)
      /\ mem' = [m EXCEPT ![f.prev].next = 0]
      /\ cur' = f.prev /\ top' = f.prev /\ depth' = depth - 1
      /\ running' = (mem[f.prev].kind # "top")
      /\ UNCHANGED fault

\* _leave_major_frame(), with the memory m.  The loop of exec_context() goes
\* on with the caller unless that is a top frame.
LeaveMajorFrame(m) ==
  LET f == mem[cur]
  IN  /\ f.next = 0 /\ f.prev_top <= top
      /\ IsMajor(f.prev)
      /\ mem' = [m EXCEPT ![f.prev].next = 0]
      /\ cur' = f.prev /\ top' = f.prev_top /\ depth' = depth - 1
      /\ running' = (mem[f.prev].kind # "top")
      /\ UNCHANGED fault

\* RETVOID, and RET when no register waits for the result.
RetVoid ==
  /\ Executing
  /\ mem[cur].out = 0
  /\ LeaveMajorFrame(mem)

\* RET of register i: the register of the caller is checked against the
\* number of registers of the function that returns.
Ret(i) ==
  LET f == mem[cur]
      v == ValueAt(Reg(cur, i))
  IN  /\ Executing
      /\ i \in RegsOf(cur)
      /\ f.out \in 1 .. f.num_regs
      /\ IsMajor(f.prev)
      /\ Confined => v.at <= f.prev_top
      /\ LeaveMajorFrame([mem EXCEPT ![Reg(f.prev, f.out - 1)] = Cellular(v)])

\* A native function returns; its result is dropped.
NativeReturn ==
  /\ running /\ ~fault
  /\ IsMajor(cur) /\ mem[cur].kind = "native"
  /\ LeaveMajorFrame(mem)

\* What an instruction can get hold of: a literal, the value of a register,
\* of an argument, of the variable that a register refers to.
Readable ==
  LET registers == {ValueAt(Reg(cur, i)) : i \in RegsOf(cur)}
      arguments == {ValueAt(mem[cur].args - j) : j \in 0 .. mem[cur].num_args - 1}
      variables == {v.at : v \in {w \in registers : w.ref}}
  IN  {Plain(d) : d \in Data} \cup registers \cup arguments
        \cup {mem[o].v : o \in {o \in variables : mem[o].k = "variable"}}

\* An instruction puts data into register i.
Write(i) ==
  /\ Executing
  /\ i \in RegsOf(cur)
  /\ \E v \in Readable : mem' = [mem EXCEPT ![Reg(cur, i)] = Cellular(v)]
  /\ UNCHANGED <<top, cur, depth, running, fault>>

\* STORE and its typed forms, through the reference in register i.
Store(i) ==
  LET d == ValueAt(Reg(cur, i))
  IN  /\ Executing
      /\ i \in RegsOf(cur)
      /\ d.ref /\ mem[d.at].k = "variable"
      /\ \E v \in Readable :
           /\ Confined => v.at <= d.at
           /\ mem' = [mem EXCEPT ![d.at] = [k |-> "variable", v |-> v]]
      /\ UNCHANGED <<top, cur, depth, running, fault>>

\* LVAR: the variable, then the record that names the register.
LVar(i) ==
  LET minor == mem[cur].minor
      record == [k |-> "record", next |-> mem[minor].records, reg |-> i]
  IN  /\ Executing
      /\ i \in RegsOf(cur)
      /\ \E j \in RegsOf(cur) : ~ValueAt(Reg(cur, j)).ref
      /\ IsMinor(minor)
      /\ top + 2 <= StackSize
      /\ mem' = [mem EXCEPT ![top + 1] = [k |-> "variable", v |-> Plain(Invalid)],
                            ![top + 2] = record,
                            ![minor] = [@ EXCEPT !.records = top + 2],
                            ![Reg(cur, i)] = Cellular(Ref(top + 1))]
      /\ top' = top + 2
      /\ UNCHANGED <<cur, depth, running, fault>>

\* Mutant: the room for the scope is not checked.
EnterUnchecked ==
  /\ Executing
  /\ mem' = [mem EXCEPT
               ![top + 1] = [k |-> "minor", last |-> mem[cur].minor, records |-> 0, base |-> top],
               ![cur].minor = top + 1]
  /\ top' = top + 1
  /\ UNCHANGED <<cur, depth, running, fault>>

Enter ==
  /\ Executing
  /\ top + 1 <= StackSize
  /\ mem' = [mem EXCEPT
               ![top + 1] = [k |-> "minor", last |-> mem[cur].minor, records |-> 0, base |-> top],
               ![cur].minor = top + 1]
  /\ top' = top + 1
  /\ UNCHANGED <<cur, depth, running, fault>>

\* The alloca records of the scope at o, from the newest to the oldest.
Records(o) ==
  LET walk[n \in 0 .. StackSize] ==
        IF n = 0 THEN mem[o].records
        ELSE IF walk[n - 1] # 0 /\ mem[walk[n - 1]].k = "record"
             THEN mem[walk[n - 1]].next ELSE 0
  IN  {walk[n] : n \in 0 .. StackSize} \ {0}

\* LEAVE 1; LEAVE n does this n times.  The registers that the records of the
\* scope name are invalidated.
Leave ==
  LET minor == mem[cur].minor
      named == {mem[r].reg : r \in {q \in Records(minor) : mem[q].k = "record"}}
  IN  /\ Executing
      /\ IsMinor(minor)
      /\ mem[minor].last # 0
      /\ Balanced => mem[cur].num_next_args = 0
      /\ mem' = [[o \in Offsets |->
                    IF \E i \in named \cap RegsOf(cur) : o = Reg(cur, i)
                    THEN Cellular(Plain(Invalid)) ELSE mem[o]]
                 EXCEPT ![cur].minor = mem[minor].last]
      /\ top' = mem[minor].base
      /\ UNCHANGED <<cur, depth, running, fault>>

\* PUSHARG of register i.  An argument that does not follow the one before
\* it stays on the stack, and the instruction throws.
PushArg(i) ==
  LET f == mem[cur]
      m == [mem EXCEPT ![top + 1] = Cellular(ValueAt(Reg(cur, i)))]
  IN  /\ Executing
      /\ i \in RegsOf(cur)
      /\ f.num_next_args < MaxArgs
      /\ top + 1 <= StackSize
      /\ top' = top + 1
      /\ IF f.num_next_args > 0 /\ f.next_args # top
         THEN mem' = m /\ running' = FALSE
         ELSE /\ mem' = [m EXCEPT ![cur].next_args = top + 1, ![cur].num_next_args = @ + 1]
              /\ UNCHANGED running
      /\ UNCHANGED <<cur, depth, fault>>

\* An instruction finds no room or invalid operands: exec_context() returns
\* and leaves the frames as they are.
Throw ==
  /\ Executing
  /\ running' = FALSE
  /\ UNCHANGED <<mem, top, cur, depth, fault>>

-----------------------------------------------------------------------------

Next ==
  \/ \E kind \in {"regular", "native"}, n \in 0 .. MaxRegs, out \in 0 .. MaxRegs :
        \/ Call(kind, n, out)
        \/ \E a \in 0 .. MaxArgs : out <= 1 /\ ExecFn(kind, a, n, out)
  \/ RetVoid \/ NativeReturn \/ Enter \/ Leave \/ Throw
  \/ \E i \in 0 .. MaxRegs : Ret(i) \/ LVar(i) \/ PushArg(i) \/ Write(i) \/ Store(i)

Spec == Init /\ [][Next]_vars

-----------------------------------------------------------------------------
(* Correctness.                                                            *)

TypeOK ==
  /\ mem \in [Offsets -> Cell]
  /\ top \in Maybe /\ cur \in Maybe /\ depth \in Nat
  /\ running \in BOOLEAN /\ fault \in BOOLEAN

Majors == {o \in 1 .. top : mem[o].k = "major"}

(***************************************************************************)
(* The assertions of runtime.h on the magic numbers, and what they stand   *)
(* for: nothing that is written into the stack ever hits the header of a   *)
(* frame in use or of its innermost scope.  The frames form one doubly     *)
(* linked list of num_major_frames elements whose last one is current.     *)
(***************************************************************************)
HeadersIntact ==
  /\ depth = Cardinality(Majors)
  /\ cur # 0 => IsMajor(cur) /\ mem[cur].next = 0
  /\ \A o \in Majors :
       /\ IsMinor(mem[o].minor) /\ mem[o].minor <= top
       /\ mem[o].prev # 0 => mem[o].prev \in Majors /\ mem[mem[o].prev].next = o
       /\ mem[o].prev <= mem[o].prev_top /\ mem[o].prev_top < o

\* The activations, read off the stack.
Activation(o) ==
  LET f == mem[o]
      scope[n \in 0 .. StackSize] ==
        IF n = 0 THEN f.minor ELSE IF IsMinor(scope[n - 1]) THEN mem[scope[n - 1]].last ELSE 0
  IN  [regs    |-> [i \in 1 .. f.num_regs |-> ValueAt(Reg(o, i - 1))],
       args    |-> [i \in 1 .. f.num_args |-> ValueAt(f.args - (i - 1))],
       pending |-> [i \in 1 .. f.num_next_args |-> ValueAt(f.next_args - (i - 1))],
       scopes  |-> Cardinality({n \in 0 .. StackSize : scope[n] # 0}),
       out     |-> f.out]

Frames ==
  LET at[n \in 0 .. depth] ==
        IF n = 0 THEN 0 ELSE IF n = 1 THEN cur ELSE mem[at[n - 1]].prev
  IN  [i \in 1 .. depth |-> Activation(at[depth + 1 - i])]

=============================================================================
