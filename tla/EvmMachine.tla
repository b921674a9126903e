----------------------------- MODULE EvmMachine -----------------------------
(***************************************************************************)
(* The evaluation core of sputnikvm (src/sputnikvm/src/vm/eval): Machine   *)
(* with its State, MachineStatus and Control, the step cycle, the commit   *)
(* calls of the pull-based Require protocol, derive and apply_sub, and     *)
(* run_opcode for every opcode but MSTORE8.                               *)
(*                                                                         *)
(* The driver the spec describes (section 2) is part of the model: it      *)
(* steps the innermost machine, answers a RequireError with the matching   *)
(* commit, derives a child when a machine reports InvokeCall/InvokeCreate, *)
(* runs it to an exit and folds it back with apply_sub.  The machines of   *)
(* one call tree are the sequence `frames`, the root first.                *)
(*                                                                         *)
(* Abstractions: a word is WordBits wide (M256 narrowed); memory is        *)
(* addressed in 32-byte words; a byte string used as code is named by a   *)
(* program identifier (Programs maps identifiers to instruction            *)
(* sequences); call data is a sequence of words.                          *)
(***************************************************************************)
EXTENDS Integers, Sequences, SequencesExt, FiniteSetsExt, TLC, EvmCost, EvmWord

CONSTANTS
  StackLimit,      \* capacity of Stack (1024 in the stack container)
  Programs,        \* program identifier -> sequence of instructions
  RootPrograms,    \* programs the root machine may be given
  RootAddress,     \* context.address of the root machine
  GasLimits,       \* program -> context.gas_limit values the root may get
  Balance0,        \* the world the driver commits from: address -> balance
  Code0,           \*                                    address -> program
  BlockNumber,     \* block.number
  BlockHashOf(_),  \* the hash the driver commits for a block number
  Storage0(_, _),  \* the storage value the driver commits for (address, key)
  CreatedAddress(_, _), \* address of the contract made by (creator, nonce)
  TxEnv,           \* origin and gas price of the transaction, and the block's
                   \* coinbase, timestamp, difficulty and gas limit
  Sha3Of(_),       \* the platform hash of a sequence of words
  GasUnderflowPanics,  \* whether a subtraction below zero in Gas panics
  BalancePanics    \* whether a balance that leaves the word's range panics

ASSUME WordBits \in Nat \ {0} /\ StackLimit \in Nat \ {0} /\ GasUnderflowPanics \in BOOLEAN
       /\ BalancePanics \in BOOLEAN
ASSUME RootPrograms \subseteq DOMAIN Programs /\ 0 \in DOMAIN Programs

VARIABLES
  frames,    \* the machines of the call tree, root first; the last runs
  pending,   \* the RequireError the driver holds and has yet to commit
  panicked   \* "none", or why the process panicked

vars == <<frames, pending, panicked>>

(* Machine::step fails every machine at this depth (mod.rs line 269).     *)
MaxDepth == 2

(***************************************************************************)
(* Instructions and the PC (the decoder is outside the source tree and is  *)
(* modelled from the spec): a PUSH of n bytes occupies 1 + n code bytes,   *)
(* and a jump is valid only to the first byte of a JUMPDEST.               *)
(***************************************************************************)
Size(ins) == 1 + ins.n
(* The code byte at which each instruction starts, and the code length.   *)
Offsets(code) ==
  LET off[i \in 1 .. Len(code) + 1] == IF i = 1 THEN 0 ELSE off[i - 1] + Size(code[i - 1])
  IN  off
(* Decoded once per program: the instruction starting at each code byte,   *)
(* the code length, and the valid jump destinations.                      *)
Decoded == [p \in DOMAIN Programs |->
              LET off == Offsets(Programs[p]) IN
              [pos \in {off[i] : i \in DOMAIN Programs[p]} |->
                 Programs[p][CHOOSE i \in DOMAIN Programs[p] : off[i] = pos]]]
CodeLength == [p \in DOMAIN Programs |-> Offsets(Programs[p])[Len(Programs[p]) + 1]]
JumpDests == [p \in DOMAIN Programs |->
                {pos \in DOMAIN Decoded[p] : Decoded[p][pos].op = "JUMPDEST"}]
IsEnd(f) == f.pc >= CodeLength[f.prog]
InstrAt(f) == Decoded[f.prog][f.pc]
IsValidJumpDest(prog, d) == d \in JumpDests[prog]

(* Code bytes named by an arbitrary word decode to an invalid opcode.      *)
ProgramNamed(w) == IF w \in DOMAIN Programs THEN w ELSE CHOOSE p \in DOMAIN Programs :
                     Programs[p] = <<[op |-> "INVALID", arg |-> 0, n |-> 0]>>

(* The opcodes of run_opcode's word arithmetic (lines 65-87) by arity, and *)
(* those that push a datum of the context (lines 91-111) or of the block   *)
(* (lines 131-135).                                                         *)
BinaryOps == {"ADD", "MUL", "SUB", "DIV", "SDIV", "MOD", "SMOD", "EXP", "SIGNEXTEND",
              "LT", "GT", "SLT", "SGT", "EQ", "AND", "OR", "XOR", "BYTE"}
TernaryOps == {"ADDMOD", "MULMOD"}
UnaryOps == {"ISZERO", "NOT"}
BlockOps == {"COINBASE", "TIMESTAMP", "NUMBER", "DIFFICULTY", "GASLIMIT"}
EnvOps == {"ADDRESS", "ORIGIN", "CALLER", "CALLVALUE", "CALLDATASIZE", "CODESIZE",
           "GASPRICE"} \cup BlockOps

(* Mutation variant: DUP counted as popping one word fewer than it reads. *)
PopsDupShort(ins) ==
  CASE ins.op \in BinaryOps \cup {"MSTORE", "JUMPI", "RETURN", "SHA3", "SSTORE"} -> 2
    [] ins.op \in TernaryOps \cup {"CALLDATACOPY", "CODECOPY"} -> 3
    [] ins.op = "EXTCODECOPY" -> 4
    [] ins.op \in UnaryOps \cup {"POP", "JUMP", "MLOAD", "BALANCE", "BLOCKHASH", "SUICIDE",
                                "CALLDATALOAD", "EXTCODESIZE", "SLOAD"} -> 1
    [] ins.op = "DUP"  -> ins.arg - 1
    [] ins.op = "SWAP" -> ins.arg + 1
    [] ins.op = "LOG"  -> ins.arg + 2
    [] ins.op = "CREATE" -> 3
    [] ins.op \in {"CALL", "CALLCODE"} -> 7
    [] ins.op = "DELEGATECALL" -> 6
    [] OTHER -> 0

(* Operand and result counts, used by check_opcode.                        *)
Pops(ins) ==
  CASE ins.op \in BinaryOps \cup {"MSTORE", "JUMPI", "RETURN", "SHA3", "SSTORE"} -> 2
    [] ins.op \in TernaryOps \cup {"CALLDATACOPY", "CODECOPY"} -> 3
    [] ins.op = "EXTCODECOPY" -> 4
    [] ins.op \in UnaryOps \cup {"POP", "JUMP", "MLOAD", "BALANCE", "BLOCKHASH", "SUICIDE",
                                "CALLDATALOAD", "EXTCODESIZE", "SLOAD"} -> 1
    [] ins.op = "DUP"  -> ins.arg
    [] ins.op = "SWAP" -> ins.arg + 1
    [] ins.op = "LOG"  -> ins.arg + 2
    [] ins.op = "CREATE" -> 3
    [] ins.op \in {"CALL", "CALLCODE"} -> 7
    [] ins.op = "DELEGATECALL" -> 6
    [] OTHER -> 0
Pushes(ins) ==
  CASE ins.op \in BinaryOps \cup TernaryOps \cup UnaryOps \cup EnvOps \cup
                 {"PUSH", "PC", "MSIZE", "GAS", "MLOAD", "BALANCE", "BLOCKHASH", "SHA3",
                  "CALLDATALOAD", "EXTCODESIZE", "SLOAD", "CREATE", "CALL", "CALLCODE",
                  "DELEGATECALL"} -> 1
    [] ins.op = "DUP"  -> ins.arg + 1
    [] ins.op = "SWAP" -> ins.arg + 1
    [] OTHER -> 0

(***************************************************************************)
(* State.  A machine is a record holding the fields of State plus pc and   *)
(* status.  Memory is sparse: a function on the words ever written.        *)
(* AccountState is a function on the committed addresses, BlockhashState   *)
(* one on the committed block numbers; an account's storage is a function  *)
(* on its committed keys.                                                  *)
(***************************************************************************)
NoCtx == [address |-> 0, caller |-> 0, value |-> 0, gasLimit |-> 0, prog |-> 0, data |-> <<>>]
Status(kind, err, ctx, outStart, outLen) ==
  [kind |-> kind, err |-> err, ctx |-> ctx, outStart |-> outStart, outLen |-> outLen]
Running == Status("Running", "none", NoCtx, 0, 0)
ExitedOk == Status("ExitedOk", "none", NoCtx, 0, 0)
ExitedErr(e) == Status("ExitedErr", e, NoCtx, 0, 0)
Exited(f) == f.status.kind \in {"ExitedOk", "ExitedErr"}
Invoking(f) == f.status.kind \in {"InvokeCall", "InvokeCreate"}

EmptyFn == [x \in {} |-> 0]

(* Machine::new (lines 93-118) and Machine::derive (lines 124-149) differ  *)
(* only in where block, patch, the world caches, logs and depth come from. *)
NewMachine(ctx, acc, hashes, logs, depth) ==
  [prog |-> ctx.prog, pc |-> 0, status |-> Running, stack |-> <<>>,
   mem |-> EmptyFn, memCost |-> 0, used |-> 0, refunded |-> 0,
   acc |-> acc, hashes |-> hashes, logs |-> logs, depth |-> depth,
   ctx |-> ctx, out |-> <<>>]

(* Mutation variant: the child starts with no logs.                       *)
DeriveFreshLogs(parent, ctx) ==
  NewMachine(ctx, parent.acc, parent.hashes, <<>>, parent.depth + 1)

Derive(parent, ctx) ==
  NewMachine(ctx, parent.acc, parent.hashes, parent.logs, parent.depth + 1)

(* State::memory_gas and State::available_gas (lines 41-47).               *)
AvailableGas(f) == f.ctx.gasLimit - MemoryGas(f.memCost) - f.used

MemAt(mem, i) == IF i \in DOMAIN mem THEN mem[i] ELSE 0

(* copy_into_memory: len words from src[srcIdx..], zero past its end.      *)
CopyIntoMemory(mem, src, memIdx, srcIdx, len) ==
  LET idx == {memIdx + k : k \in 0 .. len - 1}
  IN [j \in DOMAIN mem \cup idx |->
        IF j \in idx
        THEN IF j - memIdx + srcIdx < Len(src) THEN src[j - memIdx + srcIdx + 1] ELSE 0
        ELSE mem[j]]

(* copy_from_memory: len words from start, zero where never written.       *)
CopyFromMemory(mem, start, len) == [k \in 1 .. len |-> MemAt(mem, start + k - 1)]

(***************************************************************************)
(* The Require protocol.  A missing datum is named by a RequireError; the  *)
(* driver answers it with commit_account (an account, or one storage key   *)
(* of it) or commit_blockhash.                                             *)
(***************************************************************************)
NoReq == [kind |-> "none", key |-> 0, index |-> 0]
Account(a) == [NoReq EXCEPT !.kind = "Account", !.key = a]
AccountStorage(a, k) == [NoReq EXCEPT !.kind = "AccountStorage", !.key = a, !.index = k]
Blockhash(n) == [NoReq EXCEPT !.kind = "Blockhash", !.key = n]
Committed(f, r) ==
  CASE r.kind = "Account" -> r.key \in DOMAIN f.acc
    [] r.kind = "AccountStorage" -> r.key \in DOMAIN f.acc /\ r.index \in DOMAIN f.acc[r.key].storage
    [] r.kind = "Blockhash" -> r.key \in DOMAIN f.hashes

(* An account enters the cache with none of its storage keys.              *)
WorldAccount(a) ==
  [balance |-> IF a \in DOMAIN Balance0 THEN Balance0[a] ELSE 0, nonce |-> 0,
   code |-> IF a \in DOMAIN Code0 THEN Code0[a] ELSE 0, storage |-> EmptyFn]

(* The BLOCKHASH window of run_opcode (line 125): a hash is read only for  *)
(* one of the 256 blocks before the current one.                           *)
(* Mutation variant: the window one block too wide at its far end.         *)
InHashWindowWide(number) == ~(number >= BlockNumber \/ BlockNumber - number > 257)

InHashWindow(number) == ~(number >= BlockNumber \/ BlockNumber - number > 256)

(***************************************************************************)
(* check_opcode and extra_check_opcode (vm/eval/check.rs, not in the       *)
(* source tree; modelled from spec 4.2): stack counts, the data a step     *)
(* will read, the jump a step will take, the balance a transfer needs.     *)
(* Each yields Ok, a Machine error or a Require error.                     *)
(***************************************************************************)
Ok == [kind |-> "ok", err |-> "none", req |-> NoReq]
MachineErr(e) == [kind |-> "machine", err |-> e, req |-> NoReq]
Require(r) == [kind |-> "require", err |-> "none", req |-> r]

(* The block numbers whose hash check_opcode asks for (spec 4.3).          *)
NeedsHash(number) == number < BlockNumber /\ BlockNumber - number <= 256

(* World data the instruction reads, by the position of its operand.       *)
StaticNeeds(f, ins) ==
  LET s == f.stack IN
  CASE ins.op \in {"BALANCE", "SUICIDE", "EXTCODESIZE", "EXTCODECOPY"} -> <<Account(Peek(s, 0))>>
    [] ins.op = "BLOCKHASH" /\ NeedsHash(Peek(s, 0)) -> <<Blockhash(Peek(s, 0))>>
    [] ins.op \in {"CALL", "CALLCODE"} -> <<Account(Peek(s, 1))>>
    [] ins.op \in {"SLOAD", "SSTORE"} ->
         <<Account(f.ctx.address), AccountStorage(f.ctx.address, Peek(s, 0))>>
    [] OTHER -> <<>>

FirstMissing(f, needs) ==
  needs[CHOOSE i \in DOMAIN needs : ~Committed(f, needs[i])
                                    /\ \A j \in 1 .. i - 1 : Committed(f, needs[j])]

CheckOpcode(f, ins) ==
  LET s == f.stack IN
  IF Len(s) < Pops(ins) THEN MachineErr("StackUnderflow")
  ELSE IF Len(s) - Pops(ins) + Pushes(ins) > StackLimit THEN MachineErr("StackOverflow")
  ELSE IF \E i \in DOMAIN StaticNeeds(f, ins) : ~Committed(f, StaticNeeds(f, ins)[i])
       THEN Require(FirstMissing(f, StaticNeeds(f, ins)))
  ELSE Ok

(* ControlCheck::Jump(dest) returned by check_opcode for a taken jump.     *)
JumpTarget(f, ins) ==
  IF ins.op = "JUMP" \/ (ins.op = "JUMPI" /\ Peek(f.stack, 1) # 0)
  THEN {Peek(f.stack, 0)} ELSE {}

(* Machine::check (lines 242-256): a failed decode, the opcode check, and  *)
(* a taken jump must land on a valid JUMPDEST.                             *)
Check(f) ==
  LET ins == InstrAt(f) IN
  IF ins.op = "INVALID" THEN MachineErr("InvalidOpcode")
  ELSE IF CheckOpcode(f, ins).kind # "ok" THEN CheckOpcode(f, ins)
  ELSE IF \E d \in JumpTarget(f, ins) : ~IsValidJumpDest(f.prog, d)
       THEN MachineErr("BadJumpDest")
  ELSE Ok

(* Value-dependent checks: a value transfer needs the caller's account and *)
(* enough balance.                                                         *)
ExtraCheckOpcode(f, ins) ==
  LET self == f.ctx.address
      value == CASE ins.op \in {"CALL", "CALLCODE"} -> Peek(f.stack, 2)
                 [] ins.op = "CREATE" -> Peek(f.stack, 0)
                 [] OTHER -> 0
  IN  IF ins.op \notin {"CALL", "CALLCODE", "CREATE", "SUICIDE"} THEN Ok
      ELSE IF self \notin DOMAIN f.acc THEN Require(Account(self))
      ELSE IF f.acc[self].balance < value THEN MachineErr("InsufficientBalance")
      ELSE Ok

(* The gas figures step computes from the pre-state (lines 292-297).       *)
(* Mutation variant: after_gas leaves out the instruction's own cost.      *)
AfterGasUncharged(f, mg, gc, st) == f.ctx.gasLimit - mg - f.used + st

AfterGas(f, mg, gc, st) == f.ctx.gasLimit - mg - f.used - gc + st

Costs(f) ==
  LET ins == InstrAt(f)
      mc == MemoryCost(ins, f.stack, f.memCost)
      cur == IF ins.op = "SSTORE" THEN f.acc[f.ctx.address].storage[Peek(f.stack, 0)] ELSE 0
      gc == GasCost(ins, f.stack, cur)
      st == GasStipend(ins, f.stack)
  IN  [mc |-> mc, mg |-> MemoryGas(mc), gc |-> gc, st |-> st, rf |-> GasRefund(ins, f.stack, cur),
       after |-> AfterGas(f, MemoryGas(mc), gc, st)]

(***************************************************************************)
(* run_opcode (run/mod.rs lines 62-178) for every opcode but MSTORE8.  It *)
(* is given the machine with its pc already advanced, and yields the       *)
(* machine after the instruction, a Control, and a panic when an unwrap    *)
(* fails.  The helpers of run/arithmetic.rs, bitwise.rs, environment.rs,   *)
(* system.rs and flow.rs are not in the source tree and are modelled from  *)
(* the spec.                                                               *)
(***************************************************************************)
NoCtl == [kind |-> "None", dest |-> 0, ctx |-> NoCtx, outStart |-> 0, outLen |-> 0]
Ctl(kind) == [NoCtl EXCEPT !.kind = kind]
Done(f, ctl) == [f |-> f, ctl |-> ctl, panic |-> "none"]
Panic(f, why) == [f |-> f, ctl |-> NoCtl, panic |-> why]

Pop(s, n) == SubSeq(s, 1, Len(s) - n)
(* Mutation variant: a pushed value is not reduced to the word width.     *)
PushedUnwrapped(f, n, v) == [f EXCEPT !.stack = Append(Pop(@, n), v)]
Pushed(f, n, v) == [f EXCEPT !.stack = Append(Pop(@, n), v % WordMod)]
Popped(f, n) == [f EXCEPT !.stack = Pop(@, n)]

(* system::create: pops value, offset, len; the init code is the memory    *)
(* region; the new address comes from the creator and its nonce, which is  *)
(* bumped; the address is pushed and the child gets after_gas.            *)
RunCreate(f, after) ==
  LET s == f.stack  self == f.ctx.address  nonce == f.acc[self].nonce
      ctx == [address |-> CreatedAddress(self, nonce), caller |-> self,
              value |-> Peek(s, 0), gasLimit |-> after, data |-> <<>>,
              prog |-> ProgramNamed(IF Peek(s, 2) = 0 THEN 0 ELSE MemAt(f.mem, Peek(s, 1)))]
  IN  Done([Pushed(f, 3, ctx.address) EXCEPT !.acc[self].nonce = nonce + 1],
           [Ctl("InvokeCreate") EXCEPT !.ctx = ctx])

(* system::call / callcode: pops gas, to, value, in_off, in_len, out_off,  *)
(* out_len; pushes 1; the child runs the code of `to`, at `to` for CALL    *)
(* and at the caller's own address for CALLCODE, with the gas asked for    *)
(* plus the stipend, at most after_gas.                                    *)
RunCall(f, ins, stipend, after) ==
  LET s == f.stack  to == Peek(s, 1)
      ctx == [address |-> IF ins.op = "CALL" THEN to ELSE f.ctx.address,
              caller |-> f.ctx.address, value |-> Peek(s, 2),
              gasLimit |-> Min({Peek(s, 0) + stipend, after}),
              prog |-> IF to \in DOMAIN f.acc THEN f.acc[to].code ELSE 0,
              data |-> CopyFromMemory(f.mem, Peek(s, 3), Peek(s, 4))]
  IN  IF to \notin DOMAIN f.acc THEN Panic(f, "code of an uncommitted account")
      ELSE Done(Pushed(f, 7, 1),
                [Ctl("InvokeCall") EXCEPT !.ctx = ctx, !.outStart = Peek(s, 5),
                                          !.outLen = Peek(s, 6)])

(* increase_balance and decrease_balance are not in the source tree, nor  *)
(* is the balance type: a result outside the word's range either wraps     *)
(* (M256) or panics (a checked U256), as BalancePanics says.               *)
CreditOverflows(acc, a, v) == BalancePanics /\ acc[a].balance + v >= WordMod
DebitUnderflows(acc, a, v) == BalancePanics /\ acc[a].balance < v

(* system::suicide: the callee's balance goes to the beneficiary.          *)
RunSuicide(f) ==
  LET self == f.ctx.address  ben == Peek(f.stack, 0)  bal == f.acc[self].balance
  IN  IF CreditOverflows(f.acc, ben, bal) THEN Panic(f, "balance out of range")
      ELSE Done([Popped(f, 1) EXCEPT !.acc[ben].balance = (@ + bal) % WordMod,
                                     !.acc[self].balance = 0], Ctl("Stop"))

(* system::log: pops offset, len and the topics; appends a Log.            *)
RunLog(f, k) ==
  LET s == f.stack IN
  Done([Popped(f, k + 2) EXCEPT
          !.logs = Append(@, [address |-> f.ctx.address,
                              topics |-> [i \in 1 .. k |-> Peek(s, i + 1)],
                              data |-> CopyFromMemory(f.mem, Peek(s, 0), Peek(s, 1))])],
       NoCtl)

(* The word arithmetic of lines 65-87 (op2!, op2_ref! and the helpers of *)
(* arithmetic.rs and bitwise.rs): op1 is the top of the stack, op2 the     *)
(* word under it; a comparison pushes 1 or 0.                              *)
WordOp(op, s) ==
  LET x == Peek(s, 0)  y == Peek(s, 1)  z == Peek(s, 2) IN
  CASE op = "ADD" -> x + y        [] op = "MUL" -> x * y
    [] op = "SUB" -> x - y        [] op = "DIV" -> UDiv(x, y)
    [] op = "SDIV" -> SDiv(x, y)  [] op = "MOD" -> UMod(x, y)
    [] op = "SMOD" -> SMod(x, y)  [] op = "ADDMOD" -> AddMod(x, y, z)
    [] op = "MULMOD" -> MulMod(x, y, z)
    [] op = "EXP" -> PowMod(x, y) [] op = "SIGNEXTEND" -> SignExtend(x, y)
    [] op = "LT" -> Bool(x < y)   [] op = "GT" -> Bool(x > y)
    [] op = "SLT" -> Bool(Signed(x) < Signed(y))
    [] op = "SGT" -> Bool(Signed(x) > Signed(y))
    [] op = "EQ" -> Bool(x = y)   [] op = "ISZERO" -> Bool(x = 0)
    [] op = "AND" -> x & y        [] op = "OR" -> x | y
    [] op = "XOR" -> x ^^ y       [] op = "NOT" -> NotWord(x)
    [] op = "BYTE" -> ByteOf(x, y)

(* The pushes of lines 91-111 that read the context; origin and gas price *)
(* are the transaction's in every frame.  A length is in bytes: a word of   *)
(* call data is 32 of them.                                                *)
EnvValue(f, op) ==
  CASE op = "ADDRESS" -> f.ctx.address       [] op = "ORIGIN" -> TxEnv.origin
    [] op = "CALLER" -> f.ctx.caller         [] op = "CALLVALUE" -> f.ctx.value
    [] op = "CALLDATASIZE" -> 32 * Len(f.ctx.data)
    [] op = "CODESIZE" -> CodeLength[f.prog] [] op = "GASPRICE" -> TxEnv.gasPrice

(* The pushes of lines 131-135 that read the block.                        *)
BlockValue(op) ==
  CASE op = "COINBASE" -> TxEnv.coinbase     [] op = "TIMESTAMP" -> TxEnv.timestamp
    [] op = "NUMBER" -> BlockNumber          [] op = "DIFFICULTY" -> TxEnv.difficulty
    [] op = "GASLIMIT" -> TxEnv.gasLimit

(* environment::calldataload: the word of call data at an index, zero past *)
(* its end.                                                                *)
CallDataLoad(f) ==
  LET i == Peek(f.stack, 0) IN IF i < Len(f.ctx.data) THEN f.ctx.data[i + 1] ELSE 0

(* CALLDATACOPY, CODECOPY (lines 100-110) and EXTCODECOPY (lines 116-121): *)
(* pop the operands (the address first for EXTCODECOPY) and copy_into_     *)
(* memory from the call data or from a code, which is named by one word;  *)
(* the account's code is unwrapped.                                        *)
RunCopy(f, ins) ==
  LET s == f.stack  ext == ins.op = "EXTCODECOPY"  k == IF ext THEN 1 ELSE 0
      src == CASE ins.op = "CALLDATACOPY" -> f.ctx.data
               [] ins.op = "CODECOPY" -> <<f.prog>>
               [] ext -> <<f.acc[Peek(s, 0)].code>>
  IN  IF ext /\ Peek(s, 0) \notin DOMAIN f.acc THEN Panic(f, "code of an uncommitted account")
      ELSE Done([Popped(f, Pops(ins)) EXCEPT
                   !.mem = CopyIntoMemory(@, src, Peek(s, k), Peek(s, k + 1), Peek(s, k + 2))],
                NoCtl)

(* flow::sload and flow::sstore on the callee's storage; the storage and   *)
(* the key are unwrapped.                                                  *)
RunStorage(f, ins) ==
  LET self == f.ctx.address  k == Peek(f.stack, 0) IN
  IF self \notin DOMAIN f.acc \/ k \notin DOMAIN f.acc[self].storage
  THEN Panic(f, "storage of an uncommitted key")
  ELSE IF ins.op = "SLOAD" THEN Done(Pushed(f, 1, f.acc[self].storage[k]), NoCtl)
  ELSE Done([Popped(f, 2) EXCEPT !.acc[self].storage[k] = Peek(f.stack, 1)], NoCtl)

RunOpcode(ins, position, f, stipend, after) ==
  LET s == f.stack IN
  CASE ins.op = "STOP"  -> Done(f, Ctl("Stop"))
    [] ins.op \in BinaryOps \cup TernaryOps \cup UnaryOps ->
         Done(Pushed(f, Pops(ins), WordOp(ins.op, s)), NoCtl)
    [] ins.op \in EnvOps -> Done(Pushed(f, 0, IF ins.op \in BlockOps THEN BlockValue(ins.op)
                                                ELSE EnvValue(f, ins.op)), NoCtl)
    [] ins.op = "SHA3"  -> Done(Pushed(f, 2, Sha3Of(CopyFromMemory(f.mem, Peek(s, 0), Peek(s, 1)))),
                               NoCtl)
    [] ins.op = "CALLDATALOAD" -> Done(Pushed(f, 1, CallDataLoad(f)), NoCtl)
    [] ins.op \in {"CALLDATACOPY", "CODECOPY", "EXTCODECOPY"} -> RunCopy(f, ins)
    [] ins.op \in {"SLOAD", "SSTORE"} -> RunStorage(f, ins)
    [] ins.op = "EXTCODESIZE" ->
         IF Peek(s, 0) \in DOMAIN f.acc
         THEN Done(Pushed(f, 1, CodeLength[f.acc[Peek(s, 0)].code]), NoCtl)
         ELSE Panic(f, "code of an uncommitted account")
    [] ins.op = "POP"   -> Done(Popped(f, 1), NoCtl)
    [] ins.op = "PUSH"  -> Done(Pushed(f, 0, ins.arg), NoCtl)
    [] ins.op = "DUP"   -> IF Len(s) < ins.arg THEN Panic(f, "peek past the stack")
                           ELSE Done(Pushed(f, 0, Peek(s, ins.arg - 1)), NoCtl)
    [] ins.op = "SWAP"  -> IF Len(s) <= ins.arg THEN Panic(f, "peek past the stack")
                           ELSE Done([f EXCEPT !.stack[Len(s)] = Peek(s, ins.arg),
                                               !.stack[Len(s) - ins.arg] = Peek(s, 0)], NoCtl)
    [] ins.op = "JUMP"  -> Done(Popped(f, 1), [Ctl("Jump") EXCEPT !.dest = Peek(s, 0)])
    [] ins.op = "JUMPI" -> Done(Popped(f, 2), IF Peek(s, 1) # 0
                                              THEN [Ctl("Jump") EXCEPT !.dest = Peek(s, 0)]
                                              ELSE NoCtl)
    [] ins.op = "JUMPDEST" -> Done(f, NoCtl)
    [] ins.op = "PC"    -> Done(Pushed(f, 0, position), NoCtl)
    [] ins.op = "MSIZE" -> Done(Pushed(f, 0, f.memCost * 32), NoCtl)
    [] ins.op = "GAS"   -> Done(Pushed(f, 0, after), NoCtl)
    [] ins.op = "MLOAD" -> Done(Pushed(f, 1, MemAt(f.mem, Peek(s, 0))), NoCtl)
    [] ins.op = "MSTORE" -> Done([Popped(f, 2) EXCEPT
                                   !.mem = (Peek(s, 0) :> Peek(s, 1)) @@ @], NoCtl)
    [] ins.op = "BALANCE" ->
         IF Peek(s, 0) \in DOMAIN f.acc
         THEN Done(Pushed(f, 1, f.acc[Peek(s, 0)].balance), NoCtl)
         ELSE Panic(f, "balance of an uncommitted account")
    [] ins.op = "BLOCKHASH" ->
         IF ~InHashWindow(Peek(s, 0)) THEN Done(Pushed(f, 1, 0), NoCtl)
         ELSE IF Peek(s, 0) \in DOMAIN f.hashes
              THEN Done(Pushed(f, 1, f.hashes[Peek(s, 0)]), NoCtl)
              ELSE Panic(f, "uncommitted blockhash")
    [] ins.op = "LOG"    -> RunLog(f, ins.arg)
    [] ins.op = "CREATE" -> RunCreate(f, after)
    [] ins.op \in {"CALL", "CALLCODE"} -> RunCall(f, ins, stipend, after)
    [] ins.op = "RETURN" ->
         Done([Popped(f, 2) EXCEPT !.out = CopyFromMemory(f.mem, Peek(s, 0), Peek(s, 1))],
              Ctl("Stop"))
    [] ins.op = "SUICIDE" -> RunSuicide(f)
    [] ins.op = "DELEGATECALL" -> Panic(f, "DELEGATECALL is unimplemented")

(***************************************************************************)
(* Machine::step (lines 263-342) of the innermost machine, one action per  *)
(* way it returns.  The driver steps only a Running machine and only once  *)
(* it has committed what the last RequireError asked for.                  *)
(***************************************************************************)
Top == frames[Len(frames)]
SetTop(f) == frames' = [frames EXCEPT ![Len(frames)] = f]

(* Mutation variant: the depth cap of line 269 tested with > for >=.      *)
ProceedsDeep(f) == f.depth <= MaxDepth /\ ~IsEnd(f)

Proceeds(f) == f.depth < MaxDepth /\ ~IsEnd(f)
(* after_gas (line 297) is evaluated left to right in the unsigned Gas     *)
(* type: gas_limit - memory_gas - used_gas - gas_cost goes below zero      *)
(* before gas_stipend is added whenever the instruction's cost, stipend    *)
(* aside, exceeds what is left.  Whether that panics is GasUnderflowPanics.*)
Underflows(f, c) == GasUnderflowPanics /\ f.ctx.gasLimit < c.mg + f.used + c.gc
OutOfGas(f, c) == f.ctx.gasLimit < c.mg + f.used + c.gc - c.st

ExitWith(f, status) == SetTop([f EXCEPT !.status = status]) /\ UNCHANGED <<pending, panicked>>
(* Err(RequireError): the machine is untouched.                            *)
Requires(req) == pending' = req /\ UNCHANGED <<frames, panicked>>

(* Lines 269-277: the depth cap and the end of the code.                   *)
StepEnd(f) ==
  \/ f.depth >= MaxDepth /\ ExitWith(f, ExitedErr("CallstackOverflow"))
  \/ f.depth < MaxDepth /\ IsEnd(f) /\ ExitWith(f, ExitedOk)

(* Lines 279-288: check returns a machine error or a RequireError.         *)
StepCheckFails(f, chk) ==
  \/ chk.kind = "machine" /\ ExitWith(f, ExitedErr(chk.err))
  \/ chk.kind = "require" /\ Requires(chk.req)

(* An instruction the machine cannot pay for: line 297 panics on the Gas   *)
(* underflow, or, past extra_check, lines 310-313 set EmptyGas.            *)
StepOutOfGas(f, c, x) ==
  /\ Underflows(f, c) \/ (x.kind = "ok" /\ OutOfGas(f, c))
  /\ panicked' = IF Underflows(f, c) THEN "Gas subtraction underflow" ELSE "none"
  /\ frames' = IF Underflows(f, c) THEN frames
               ELSE [frames EXCEPT ![Len(frames)] = [f EXCEPT !.status = ExitedErr("EmptyGas")]]
  /\ UNCHANGED pending

(* Lines 299-308: extra_check returns a machine error or a RequireError.   *)
StepExtraFails(f, c, x) ==
  /\ ~Underflows(f, c)
  /\ \/ x.kind = "machine" /\ ExitWith(f, ExitedErr(x.err))
     \/ x.kind = "require" /\ Requires(x.req)

(* Lines 319-321: commit the costs computed before the run.              *)
(* Mutation variant: the instruction's gas is never charged.               *)
ChargedFree(f, c) == [f EXCEPT !.memCost = c.mc, !.refunded = @ + c.rf]
(* Mutation variant: memory_cost is not committed.                         *)
ChargedNoMemCost(f, c) == [f EXCEPT !.used = @ + c.gc - c.st, !.refunded = @ + c.rf]

Charged(f, c) == [f EXCEPT !.used = @ + c.gc - c.st, !.memCost = c.mc, !.refunded = @ + c.rf]

(* Lines 319-341: commit the costs, then apply the Control.                *)
Settled(r, c) ==
  LET g == Charged(r.f, c) IN
  CASE r.ctl.kind = "None" -> g
    [] r.ctl.kind = "Jump" -> [g EXCEPT !.pc = r.ctl.dest]
    [] r.ctl.kind \in {"InvokeCall", "InvokeCreate"} ->
         [g EXCEPT !.status = Status(r.ctl.kind, "none", r.ctl.ctx, r.ctl.outStart, r.ctl.outLen)]
    [] r.ctl.kind = "Stop" -> [g EXCEPT !.status = ExitedOk]

(* A panic of run_opcode (a failed unwrap, DELEGATECALL), or of           *)
(* pc.jump(...).unwrap() at line 326 on a destination check never saw.    *)
RunPanic(f, r) ==
  IF r.panic # "none" THEN r.panic
  ELSE IF r.ctl.kind = "Jump" /\ ~IsValidJumpDest(f.prog, r.ctl.dest)
       THEN "jump to an invalid destination"
  ELSE "none"

StepRun(f, c, x) ==
  /\ ~Underflows(f, c) /\ x.kind = "ok" /\ ~OutOfGas(f, c)
  /\ \E r \in {RunOpcode(InstrAt(f), f.pc, [f EXCEPT !.pc = @ + Size(InstrAt(f))],
                         c.st, c.after)} :
       /\ panicked' = RunPanic(f, r)
       /\ frames' = IF panicked' = "none" THEN [frames EXCEPT ![Len(frames)] = Settled(r, c)]
                    ELSE frames
  /\ UNCHANGED pending

(* The phases of step in their order: check, the gas figures, extra_check, *)
(* the gas test, the run; each is computed once from the pre-state.        *)
Step ==
  /\ panicked = "none" /\ pending = NoReq /\ Top.status = Running
  /\ \E f \in {Top} :
       \/ StepEnd(f)
       \/ Proceeds(f) /\ \E chk \in {Check(f)} :
            \/ StepCheckFails(f, chk)
            \/ chk.kind = "ok" /\ \E c \in {Costs(f)} : \E x \in {ExtraCheckOpcode(f, InstrAt(f))} :
                  \/ StepOutOfGas(f, c, x)
                  \/ StepExtraFails(f, c, x)
                  \/ StepRun(f, c, x)

(* commit_account / commit_blockhash (lines 152-159): the driver answers   *)
(* the RequireError with the datum of the world it holds.                  *)
CommitAccount(f, a) == [f EXCEPT !.acc = (a :> WorldAccount(a)) @@ @]
CommitStorage(f, a, k) == [f EXCEPT !.acc[a].storage = (k :> Storage0(a, k)) @@ @]
CommitBlockhash(f, n) == [f EXCEPT !.hashes = (n :> BlockHashOf(n)) @@ @]

Commit ==
  /\ panicked = "none" /\ pending # NoReq
  /\ SetTop(CASE pending.kind = "Account" -> CommitAccount(Top, pending.key)
              [] pending.kind = "AccountStorage" -> CommitStorage(Top, pending.key, pending.index)
              [] pending.kind = "Blockhash" -> CommitBlockhash(Top, pending.key))
  /\ pending' = NoReq
  /\ UNCHANGED panicked

(* The driver derives a child for the sub-call the machine reports.        *)
DeriveChild ==
  /\ panicked = "none" /\ Invoking(Top)
  /\ frames' = Append(frames, Derive(Top, Top.status.ctx))
  /\ UNCHANGED <<pending, panicked>>

(***************************************************************************)
(* apply_sub (lines 167-180) with apply_create (182-210) and apply_call    *)
(* (212-238).  The status is swapped to Running first; the child's world   *)
(* caches, logs and gas are adopted only when it exited Ok.  AccountState  *)
(* panics on an address it does not hold; a balance out of range wraps or  *)
(* panics (CreditOverflows, DebitUnderflows).                              *)
(***************************************************************************)
AddBalance(acc, a, v) == [acc EXCEPT ![a].balance = (@ + v) % WordMod]
SubBalance(acc, a, v) == [acc EXCEPT ![a].balance = (@ - v) % WordMod]
CreateAccount(acc, a, value, code) ==
  (a :> [balance |-> value, nonce |-> 0, code |-> code, storage |-> EmptyFn]) @@ acc

Adopted(p, sub) ==
  [p EXCEPT !.status = Running, !.acc = sub.acc, !.hashes = sub.hashes,
            !.logs = sub.logs, !.used = @ + sub.used, !.refunded = @ + sub.refunded]

Deposits(p, sub) == AvailableGas(Adopted(p, sub)) >= CodeDepositGas(Len(sub.out))

ApplyCreate(p, sub) ==
  IF sub.status.kind = "ExitedErr" THEN [p EXCEPT !.status = Running]
  ELSE IF ~Deposits(p, sub) THEN Adopted(p, sub)
  ELSE [Adopted(p, sub) EXCEPT
          !.acc = CreateAccount(SubBalance(@, p.ctx.address, sub.ctx.value),
                                sub.ctx.address, sub.ctx.value,
                                ProgramNamed(IF sub.out = <<>> THEN 0 ELSE sub.out[1]))]

(* Lines 224-227: the value moves from the caller to the callee.         *)
(* Mutation variant: the value reaches the callee but is never debited.  *)
TransferNoDebit(acc, from, to, v) == AddBalance(acc, to, v)

Transfer(acc, from, to, v) == AddBalance(SubBalance(acc, from, v), to, v)

(* Mutation variant: a failed callee's refunds are kept by the caller.    *)
ApplyCallRefundOnError(p, sub) ==
  IF sub.status.kind = "ExitedErr"
  THEN [p EXCEPT !.status = Running, !.stack = Append(Pop(@, 1), 1),
                 !.refunded = @ + sub.refunded]
  ELSE [Adopted(p, sub) EXCEPT
          !.acc = Transfer(@, p.ctx.address, sub.ctx.address, sub.ctx.value),
          !.mem = CopyIntoMemory(@, sub.out, p.status.outStart, 0, p.status.outLen)]

ApplyCall(p, sub) ==
  IF sub.status.kind = "ExitedErr"
  THEN [p EXCEPT !.status = Running, !.stack = Append(Pop(@, 1), 1)]
  ELSE [Adopted(p, sub) EXCEPT
          !.acc = Transfer(@, p.ctx.address, sub.ctx.address, sub.ctx.value),
          !.mem = CopyIntoMemory(@, sub.out, p.status.outStart, 0, p.status.outLen)]

(* The unwraps and panics apply_sub can reach, or "none".                  *)
ApplyPanic(p, sub) ==
  LET ok == sub.status.kind = "ExitedOk" IN
  CASE AvailableGas(p) < sub.used -> "sub machine used more gas than available"
    [] ok /\ p.status.kind = "InvokeCall"
          /\ ~({p.ctx.address, sub.ctx.address} \subseteq DOMAIN sub.acc)
       -> "transfer on an uncommitted account"
    [] ok /\ p.status.kind = "InvokeCall"
          /\ \/ DebitUnderflows(sub.acc, p.ctx.address, sub.ctx.value)
             \/ CreditOverflows(SubBalance(sub.acc, p.ctx.address, sub.ctx.value),
                                sub.ctx.address, sub.ctx.value)
       -> "balance out of range"
    [] ok /\ p.status.kind = "InvokeCreate" /\ Deposits(p, sub)
          /\ p.ctx.address \notin DOMAIN sub.acc
       -> "transfer on an uncommitted account"
    [] ok /\ p.status.kind = "InvokeCreate" /\ Deposits(p, sub)
          /\ DebitUnderflows(sub.acc, p.ctx.address, sub.ctx.value)
       -> "balance out of range"
    [] ~ok /\ p.status.kind = "InvokeCall" /\ p.stack = <<>> -> "pop of an empty stack"
    [] OTHER -> "none"

ApplySub ==
  /\ panicked = "none" /\ pending = NoReq /\ Len(frames) >= 2
  /\ LET n == Len(frames)  p == frames[n - 1]  sub == frames[n] IN
     /\ Exited(sub)
     /\ panicked' = ApplyPanic(p, sub)
     /\ frames' = IF panicked' # "none" THEN frames
                  ELSE Append(SubSeq(frames, 1, n - 2),
                              IF p.status.kind = "InvokeCreate" THEN ApplyCreate(p, sub)
                              ELSE ApplyCall(p, sub))
  /\ UNCHANGED pending

(***************************************************************************)
(* The specification.  The driver stops once the root machine has exited  *)
(* (or the process has panicked).                                          *)
(***************************************************************************)
RootCtx(prog, gas) ==
  [address |-> RootAddress, caller |-> TxEnv.origin, value |-> 0, gasLimit |-> gas,
   prog |-> prog, data |-> <<>>]

Init ==
  /\ \E prog \in RootPrograms : \E gas \in GasLimits[prog] :
        frames = <<NewMachine(RootCtx(prog, gas), EmptyFn, EmptyFn, <<>>, 0)>>
  /\ pending = NoReq
  /\ panicked = "none"

Finished == (Len(frames) = 1 /\ Exited(frames[1])) \/ panicked # "none"

Terminated == Finished /\ UNCHANGED vars

Next == Step \/ Commit \/ DeriveChild \/ ApplySub \/ Terminated

(* The driver loops on step, commit, derive and apply_sub until the root  *)
(* exits: every enabled driver step is eventually taken.                   *)
Spec == Init /\ [][Next]_vars /\ WF_vars(Step) /\ WF_vars(Commit)
        /\ WF_vars(DeriveChild) /\ WF_vars(ApplySub)

(***************************************************************************)
(* Properties.                                                             *)
(***************************************************************************)
StatusKinds == {"Running", "ExitedOk", "ExitedErr", "InvokeCall", "InvokeCreate"}

TypeOK ==
  /\ Len(frames) \in 1 .. MaxDepth + 1
  /\ \A i \in DOMAIN frames :
       LET f == frames[i] IN
       /\ f.prog \in DOMAIN Programs /\ f.pc \in Nat /\ f.depth = i - 1
       /\ f.status.kind \in StatusKinds
       /\ Range(f.stack) \subseteq Word /\ Len(f.stack) <= StackLimit
       /\ DOMAIN f.mem \subseteq Nat /\ Range(f.mem) \subseteq Word
       /\ {f.memCost, f.used, f.refunded} \subseteq Nat
       /\ \A a \in DOMAIN f.acc : f.acc[a].balance \in Word /\ f.acc[a].nonce \in Nat
                                /\ Range(f.acc[a].storage) \subseteq Word
       /\ Range(f.hashes) \subseteq Word /\ Range(f.out) \subseteq Word
  /\ pending.kind \in {"none", "Account", "AccountStorage", "Blockhash"}
  /\ pending.key \in Word /\ pending.index \in Word

(* No legal sequence of driver calls makes the core panic: every world     *)
(* datum run_opcode unwraps (BALANCE, BLOCKHASH, the callee's code, the    *)
(* transfer in apply_call/apply_create) was asked for by check or          *)
(* extra_check first; every jump run_opcode takes was validated by check;  *)
(* and a child never reports more used gas than its parent had left.       *)
NoPanic == panicked = "none"

(* Gas accounting (spec invariant 1) across the call tree: each machine    *)
(* keeps used_gas plus memory gas within its gas limit, and a child's gas  *)
(* limit fits in what its parent still has, so apply_sub can add the       *)
(* child's used gas to the parent's without going over.                    *)
GasWithinLimit ==
  \A i \in DOMAIN frames :
     /\ frames[i].used + MemoryGas(frames[i].memCost) <= frames[i].ctx.gasLimit
     /\ i < Len(frames) => frames[i + 1].ctx.gasLimit <= AvailableGas(frames[i])

(* Memory written by MSTORE, or by apply_call copying the child's output   *)
(* into the parent's out region, lies within memory_cost: every word the   *)
(* machine holds was charged for when the instruction that wrote it ran.   *)
MemoryPaid == \A i \in DOMAIN frames : \A w \in DOMAIN frames[i].mem : w < frames[i].memCost

(* Value is neither created nor destroyed: in every machine's view of the  *)
(* world the balances sum to what the committed accounts held in the world *)
(* (a created account starts from nothing), through CALL transfers applied *)
(* by apply_call, CREATE endowments applied by apply_create and SUICIDE.   *)
RECURSIVE SumOver(_, _)
SumOver(bal, S) ==
  IF S = {} THEN 0 ELSE LET a == CHOOSE x \in S : TRUE IN bal[a] + SumOver(bal, S \ {a})
BalanceConserved ==
  \A i \in DOMAIN frames :
     LET acc == frames[i].acc IN
     SumOver([a \in DOMAIN acc |-> acc[a].balance], DOMAIN acc)
       = SumOver([a \in DOMAIN acc |-> WorldAccount(a).balance], DOMAIN acc)

(* apply_sub keeps the parent's world: after a failed sub-call the         *)
(* parent's account cache (balances and storage), blockhash cache, logs    *)
(* and refunded gas are those it had when it invoked the call, whatever    *)
(* the child wrote or earned back by clearing storage before it failed;   *)
(* after a successful one the logs it had emitted before the call are     *)
(* still the first of its logs.                                            *)
Folding == ApplySub /\ panicked' = "none"
Parent == frames[Len(frames) - 1]
Folded == frames'[Len(frames) - 1]
ParentWorldKept ==
  [][Folding =>
       IF Top.status.kind = "ExitedErr"
       THEN /\ Folded.acc = Parent.acc /\ Folded.hashes = Parent.hashes
            /\ Folded.logs = Parent.logs /\ Folded.refunded = Parent.refunded
       ELSE IsPrefix(Parent.logs, Folded.logs)]_vars

(* The driver's loop ends: the root machine eventually exits, whatever     *)
(* RequireErrors, sub-calls and jumps it meets on the way.                 *)
RootExits == <>(Len(frames) = 1 /\ Exited(frames[1]))

(* The platform's convention (spec section 9, Yellow Paper): a failed      *)
(* CALL leaves 0 on the caller's stack.                                    *)
FailedCallPushesZero ==
  [][Folding /\ Parent.status.kind = "InvokeCall" /\ Top.status.kind = "ExitedErr"
       => Last(Folded.stack) = 0]_vars

(* Spec 4.1: a failed CREATE leaves 0 on the creator's stack.              *)
FailedCreatePushesZero ==
  [][Folding /\ Parent.status.kind = "InvokeCreate" /\ Top.status.kind = "ExitedErr"
       => Last(Folded.stack) = 0]_vars

(* The call-tree discipline of derive, step and apply_sub: with each       *)
(* machine seen only as running, waiting on a child, or exited Ok or Err,  *)
(* the driver's steps are those of EvmCallStack.  A machine that reports   *)
(* InvokeCall/InvokeCreate still counts as running until derive gives it   *)
(* a child, so step-then-derive is the abstract Call; a machine at depth 2 *)
(* never runs an instruction, never calls and never succeeds; apply_sub    *)
(* returns the machine to Running; and the tree keeps moving while a     *)
(* frame can step (the abstract weak fairness).                          *)
Mode(i) ==
  CASE frames[i].status.kind = "Running" -> "run"
    [] Invoking(frames[i]) -> IF i < Len(frames) THEN "wait" ELSE "run"
    [] frames[i].status.kind = "ExitedOk" -> "ok"
    [] OTHER -> "err"
CS == INSTANCE EvmCallStack WITH stack <- [i \in DOMAIN frames |-> Mode(i)]
CallStackRefined == CS!Spec

(* The Yellow Paper charges a caller for everything its callee consumed:   *)
(* when apply_call/apply_create fold a child that exited Ok, the parent's  *)
(* used gas plus memory gas grows by at least the child's used gas plus    *)
(* memory gas.                                                             *)
Consumed(f) == f.used + MemoryGas(f.memCost)
ChildGasCharged ==
  [][Folding /\ Top.status.kind = "ExitedOk"
       => Consumed(Folded) >= Consumed(Parent) + Consumed(Top)]_vars

(* The Yellow Paper charges a caller for the gas its failed callee burnt  *)
(* (an exceptional halt consumes all the gas it was given): when           *)
(* apply_call/apply_create fold a child that exited Err, the parent's used *)
(* gas plus memory gas grows by at least what the child consumed.  Spec    *)
(* 4.1 leaves used_gas alone here on the ground that the pre-call debit    *)
(* already charged for the attempt.                                        *)
FailedChildGasCharged ==
  [][Folding /\ Top.status.kind = "ExitedErr"
       => Consumed(Folded) >= Consumed(Parent) + Consumed(Top)]_vars

(* The Yellow Paper charges the creator the code deposit, 200 gas per byte *)
(* of the returned code: when apply_create materialises the new account    *)
(* after a child that exited Ok, the creator's used gas grows by at least  *)
(* the child's used gas plus code_deposit_gas of its output.               *)
CodeDepositCharged ==
  [][Folding /\ Parent.status.kind = "InvokeCreate" /\ Top.status.kind = "ExitedOk"
       /\ Deposits(Parent, Top)
       => Folded.used >= Parent.used + Top.used + CodeDepositGas(Len(Top.out))]_vars

(* Spec section 6 asks for the Yellow Paper's opcode semantics, which move  *)
(* a CALL's value before the callee runs: when the driver derives the child *)
(* of a CALL to another account, the callee's balance in the child's world *)
(* view already includes the value, so that BALANCE, a CALL onwards or a    *)
(* SUICIDE by the callee sees it.  apply_call credits it only when it folds *)
(* a child that exited Ok (mod.rs lines 224-227).                          *)
CalleeFunded ==
  [][DeriveChild /\ Top.status.kind = "InvokeCall" /\ Top.status.ctx.address # Top.ctx.address
       => LET ctx == Top.status.ctx IN
          Last(frames').acc[ctx.address].balance
            = (Top.acc[ctx.address].balance + ctx.value) % WordMod]_vars

=============================================================================
