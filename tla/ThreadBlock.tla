----------------------------- MODULE ThreadBlock -----------------------------
(* The threads of one GPU block at a time: warps that run in lockstep, the  *)
(* block's shared memory, __syncthreads.  A kernel is a straight program,   *)
(* its loops unrolled for the sizes of one launch; what a register or a     *)
(* shared cell holds is the bag of the elements that were combined into it, *)
(* so that an element left out or taken twice shows.  The blocks of a grid  *)
(* share nothing but their outputs, and a kernel starts after the one       *)
(* before it on the stream has ended: blocks run here one after the other.  *)
EXTENDS Integers, Sequences, FiniteSets, Bags, TLC, Functions, BagsExt

CONSTANTS
  WarpSize,    \* 32 threads on the device
  Launches     \* by name: the kernels started one after the other, each with
               \* its threads and the programs of its blocks; what every output
               \* has to hold in the end; the elements of temporary buffers

ASSUME WarpSizeAssumption == WarpSize \in Nat \ {0}

VARIABLES
  launch,   \* the name of the launch that runs
  code,     \* its kernels, its temporary buffers and what it has to compute
  kernel,   \* the kernel of the launch that runs
  block,    \* the block of its grid that runs
  pc,       \* the next instruction of every warp
  turn,     \* the warp that is accessing shared memory
  reg,      \* the registers of every thread
  shared,   \* the block's shared memory
  touched,  \* accesses to shared memory since the last barrier
  out       \* what has been written to the outputs

vars == <<launch, code, kernel, block, pc, turn, reg, shared, touched, out>>
place == <<launch, code, kernel, block>>

Garbage == SetToBag({<<"garbage">>})     \* memory nobody has written
-----------------------------------------------------------------------------
(* Instructions.  The function `at' says which threads execute one (its     *)
(* domain) and what each of them does.                                      *)

\* Every thread combines the elements at[t] into register r; a contribution
\* names the value of register under that it was computed with.
LoadUnder(r, under, at) == <<[op |-> "load", r |-> r, under |-> under, at |-> at]>>
Load(r, at) == LoadUnder(r, <<>>, at)
\* ... the first value of the outputs at[t], written by an earlier kernel.
Read(r, at) == <<[op |-> "read", r |-> r, at |-> at]>>
Clear(r, who) == <<[op |-> "clear", r |-> r, at |-> [t \in who |-> t]]>>
\* ... register r of thread at[t].
Combine(r, at) == <<[op |-> "shuffle", r |-> r, at |-> at]>>
\* ... the shared cells at[t].
Add(r, at) == <<[op |-> "add", r |-> r, at |-> at]>>
Get(r, at) == <<[op |-> "get", r |-> r, at |-> at]>>
\* Register r is written to all the shared cells at[t].
Put(r, at) == <<[op |-> "put", r |-> r, at |-> at]>>
\* Each <<cell, element>> of at[t] adds the element to the shared cell.
Accumulate(at) == <<[op |-> "accumulate", at |-> at]>>
Sync(who) == <<[op |-> "sync", at |-> [t \in who |-> t]]>>
\* Registers rs, or for <<>> the output's own element, go to the outputs at[t].
Store(rs, at) == <<[op |-> "store", rs |-> rs, at |-> at]>>
\* Register r is added to the outputs at[t].
AtomicAdd(r, at) == <<[op |-> "atomic", r |-> r, at |-> at]>>
-----------------------------------------------------------------------------
Kernels == code.kernels
Grid(k) == DOMAIN Kernels[k].blocks     \* 0..n-1

Warp(t) == t \div WarpSize
Threads == Kernels[kernel].threads
Program == Kernels[kernel].blocks[block]
Warps == DOMAIN pc
Ended(w) == pc[w] > Len(Program)
Instruction(w) == Program[pc[w]]

\* The threads of warp w that execute its next instruction.
Active(w) == {t \in DOMAIN Instruction(w).at : Warp(t) = w}

AtBarrier(w) == ~Ended(w) /\ Instruction(w).op = "sync" /\ Active(w) # {}

Nobody == -1

\* The registers and the shared cells an instruction names.
RegistersOf(i) ==
  IF i.op \in {"sync", "accumulate"} THEN {}
  ELSE IF i.op = "store" THEN Range(i.rs) \ {<<>>} ELSE {i.r}

CellsOf(i) ==
  CASE i.op = "get" -> Range(i.at)
    [] i.op \in {"add", "put"} -> UNION Range(i.at)
    [] i.op = "accumulate" -> {p[1] : p \in UNION Range(i.at)}
    [] OTHER -> {}

\* A block starts with its warps at the first instruction, cleared registers
\* and garbage in the shared memory.
Start(k, b) ==
  LET threads == Kernels[k].threads
      program == Kernels[k].blocks[b]
  IN  /\ kernel' = k /\ block' = b
      /\ pc' = [w \in {Warp(t) : t \in threads} |-> 1]
      /\ reg' = [r \in UNION {RegistersOf(program[i]) : i \in DOMAIN program} |-> [t \in threads |-> EmptyBag]]
      /\ shared' = [c \in UNION {CellsOf(program[i]) : i \in DOMAIN program} |-> Garbage]
      /\ touched' = {} /\ turn' = Nobody
      /\ UNCHANGED <<launch, code>>

IsFunction(f) == f = [x \in DOMAIN f |-> f[x]]

\* Nothing runs yet.
Init ==
  /\ launch \in DOMAIN Launches
  /\ kernel = 0 /\ block = 0
  /\ code = Launches[launch] /\ IsFunction(code.expected)
  /\ \A k \in DOMAIN Kernels : IsFunction(Kernels[k].blocks)
  /\ pc = <<>> /\ turn = Nobody /\ reg = <<>> /\ shared = <<>>
  /\ touched = {}
  /\ out = <<>>

\* Steps on a thread's own registers, and those to memory that only a later
\* kernel reads, commute with all others: the lowest warp that is at one goes
\* first.
Private(w) ==
  /\ ~Ended(w)
  /\ \/ Instruction(w).op \in {"load", "read", "clear", "shuffle", "store", "atomic"}
     \/ Instruction(w).op = "sync" /\ Active(w) = {}

\* From its first access to shared memory to its next barrier a warp runs
\* alone, and warps take turns in every order: NoSharedRace looks at all the
\* accesses between two barriers, and without a race their order is the same
\* to every warp.
NoTurnLeft(w) == pc[w] >= Len(Program) \/ Program[pc[w] + 1].op = "sync"

Fetch(w, op) ==
  /\ ~Ended(w)
  /\ Instruction(w).op = op
  /\ \A v \in Warps : Private(v) => Private(w) /\ w <= v
  /\ Private(w) \/ turn \in {Nobody, w}
  /\ turn' = IF Private(w) /\ turn # w THEN turn ELSE IF NoTurnLeft(w) THEN Nobody ELSE w
  /\ pc' = [pc EXCEPT ![w] = @ + 1]

\* Register r of the threads of Active(w) becomes value(t), all at once.
SetRegister(w, r, value(_)) ==
  reg' = [reg EXCEPT ![r] = [t \in Threads |-> IF t \in Active(w) THEN value(t) ELSE @[t]]]

\* cells(t) are the shared cells that thread t accesses.
Touch(w, cells(_), writes) ==
  touched' = touched \cup {[warp |-> w, cell |-> c, writes |-> writes] : c \in UNION {cells(t) : t \in Active(w)}}

\* All the bags of a family together.
BagSum(bags) == FoldFunction(LAMBDA a, b : a (+) b, EmptyBag, bags)

Contribution(t, e, under) == IF under = <<>> THEN e ELSE <<e, reg[under][t]>>

LoadStep(w) ==
  /\ Fetch(w, "load")
  /\ LET i == Instruction(w)
         Loaded(t) == reg[i.r][t] (+) SetToBag({Contribution(t, e, i.under) : e \in i.at[t]})
     IN  SetRegister(w, i.r, Loaded)
  /\ UNCHANGED <<place, shared, touched, out>>

ReadStep(w) ==
  /\ Fetch(w, "read")
  /\ LET i == Instruction(w)
         Got(t) == reg[i.r][t] (+) BagSum([o \in i.at[t] |-> IF o \in DOMAIN out THEN out[o][1] ELSE Garbage])
     IN  SetRegister(w, i.r, Got)
  /\ UNCHANGED <<place, shared, touched, out>>

ClearStep(w) ==
  /\ Fetch(w, "clear")
  /\ LET Nothing(t) == EmptyBag IN SetRegister(w, Instruction(w).r, Nothing)
  /\ UNCHANGED <<place, shared, touched, out>>

ShuffleStep(w) ==
  /\ Fetch(w, "shuffle")
  /\ LET i == Instruction(w)
         Shuffled(t) == reg[i.r][t] (+) reg[i.r][i.at[t]]
     IN  SetRegister(w, i.r, Shuffled)
  /\ UNCHANGED <<place, shared, touched, out>>

AddStep(w) ==
  /\ Fetch(w, "add")
  /\ LET i == Instruction(w)
         Cells(t) == i.at[t]
         Added(t) == reg[i.r][t] (+) BagSum([c \in i.at[t] |-> shared[c]])
     IN  SetRegister(w, i.r, Added) /\ Touch(w, Cells, FALSE)
  /\ UNCHANGED <<place, shared, out>>

GetStep(w) ==
  /\ Fetch(w, "get")
  /\ LET i == Instruction(w)
         Cells(t) == {i.at[t]}
         Got(t) == shared[i.at[t]]
     IN  SetRegister(w, i.r, Got) /\ Touch(w, Cells, FALSE)
  /\ UNCHANGED <<place, shared, out>>

\* Which of two threads wins that write one cell at once is not defined.
PutStep(w) ==
  /\ Fetch(w, "put")
  /\ LET i == Instruction(w)
         Cells(t) == i.at[t]
         Writers(c) == {t \in Active(w) : c \in i.at[t]}
         Written(c) == IF Cardinality(Writers(c)) = 1
                       THEN reg[i.r][CHOOSE t \in Writers(c) : TRUE] ELSE Garbage
     IN  /\ shared' = [c \in UNION {Cells(t) : t \in Active(w)} |-> Written(c)] @@ shared
         /\ Touch(w, Cells, TRUE)
  /\ UNCHANGED <<place, reg, out>>

AccumulateStep(w) ==
  /\ Fetch(w, "accumulate")
  /\ LET i == Instruction(w)
         Cells(t) == {p[1] : p \in i.at[t]}
         Writers(c) == {t \in Active(w) : c \in Cells(t)}
         Added(c) == SetToBag({p[2] : p \in {p \in UNION {i.at[t] : t \in Writers(c)} : p[1] = c}})
         Written(c) == IF Cardinality(Writers(c)) = 1 THEN shared[c] (+) Added(c) ELSE Garbage
     IN  /\ shared' = [c \in UNION {Cells(t) : t \in Active(w)} |-> Written(c)] @@ shared
         /\ Touch(w, Cells, TRUE)
  /\ UNCHANGED <<place, reg, out>>

\* Two threads may write an output at once only if they write the same.
StoreStep(w) ==
  /\ Fetch(w, "store")
  /\ LET i == Instruction(w)
         Value(t, o) == [k \in DOMAIN i.rs |-> IF i.rs[k] = <<>> THEN SetToBag({o}) ELSE reg[i.rs[k]][t]]
         Values(o) == {Value(t, o) : t \in {t \in Active(w) : o \in i.at[t]}}
         Written(o) == IF Cardinality(Values(o)) = 1 THEN CHOOSE v \in Values(o) : TRUE ELSE <<Garbage>>
     IN  out' = [o \in UNION {i.at[t] : t \in Active(w)} |-> Written(o)] @@ out
  /\ UNCHANGED <<place, reg, shared, touched>>

\* Atomic additions lose nothing, whatever threads add to one output at once.
AtomicStep(w) ==
  /\ Fetch(w, "atomic")
  /\ LET i == Instruction(w)
         Adders(o) == {t \in Active(w) : o \in i.at[t]}
         Old(o) == IF o \in DOMAIN out THEN out[o][1] ELSE Garbage
         Written(o) == <<Old(o) (+) BagSum([t \in Adders(o) |-> reg[i.r][t]])>>
     IN  out' = [o \in UNION {i.at[t] : t \in Active(w)} |-> Written(o)] @@ out
  /\ UNCHANGED <<place, reg, shared, touched>>

\* A warp none of whose threads reaches a barrier runs past it.
PassBarrier(w) ==
  /\ Fetch(w, "sync")
  /\ Active(w) = {}
  /\ UNCHANGED <<place, reg, shared, touched, out>>

\* __syncthreads: the warps that have not ended wait at one barrier together.
Barrier ==
  /\ \E w \in Warps : AtBarrier(w)
  /\ \A w \in Warps : Ended(w) \/ AtBarrier(w)
  /\ \A v, w \in Warps : AtBarrier(v) /\ AtBarrier(w) => pc[v] = pc[w]
  /\ pc' = [w \in Warps |-> IF Ended(w) THEN pc[w] ELSE pc[w] + 1]
  /\ touched' = {}
  /\ UNCHANGED <<place, turn, reg, shared, out>>

\* The next block of the grid, or the first one of the next kernel.
NextBlock ==
  /\ \A w \in Warps : Ended(w)
  /\ IF kernel > 0 /\ block + 1 \in Grid(kernel) THEN Start(kernel, block + 1)
     ELSE kernel < Len(Kernels) /\ Start(kernel + 1, 0)
  /\ UNCHANGED out

Done ==
  /\ kernel = Len(Kernels) /\ (kernel > 0 => block + 1 \notin Grid(kernel))
  /\ \A w \in Warps : Ended(w)

Next ==
  \/ \E w \in Warps :
       \/ LoadStep(w) \/ ReadStep(w) \/ ClearStep(w) \/ ShuffleStep(w)
       \/ AddStep(w) \/ GetStep(w) \/ PutStep(w) \/ AccumulateStep(w)
       \/ StoreStep(w) \/ AtomicStep(w) \/ PassBarrier(w)
  \/ Barrier
  \/ NextBlock
  \/ Done /\ UNCHANGED vars

\* The device keeps running the warps of a block that it has started.
Spec == Init /\ [][Next]_vars /\ WF_vars(Next)
-----------------------------------------------------------------------------
\* The variables' types; nothing is written beyond the outputs and the
\* temporary buffers of the launch.
TypeOK ==
  /\ kernel \in 0..Len(Kernels) /\ (kernel > 0 => block \in Grid(kernel))
  /\ \A w \in Warps : pc[w] \in 1..Len(Program) + 1
  /\ turn \in Warps \cup {Nobody}
  /\ \A r \in DOMAIN reg : \A t \in Threads : IsABag(reg[r][t])
  /\ \A c \in DOMAIN shared : IsABag(shared[c])
  /\ touched \subseteq [warp : Warps, cell : DOMAIN shared, writes : BOOLEAN]
  /\ DOMAIN out \subseteq DOMAIN code.expected \cup code.temporaries

\* Between two barriers no warp writes a shared cell that another one reads
\* or writes: every __syncthreads the reductions need is there, the one
\* before a cell is used again for the next value included.
NoSharedRace ==
  \A a, b \in touched : a.cell = b.cell /\ a.warp # b.warp => ~a.writes /\ ~b.writes

\* In the end every output of the launch has been written, and what it holds
\* is computed from each element it depends on, taken once, and from no other:
\* no lane beyond the row, no tail left out, every exponent or deviation taken
\* against the finished maximum or mean.
ResultsExact ==
  Done => \A o \in DOMAIN code.expected : o \in DOMAIN out /\ out[o] = code.expected[o]

\* No warp waits for ever at a barrier the others do not come to.
LaunchEnds == <>Done
=============================================================================
