------------------------------ MODULE EvmCost ------------------------------
(***************************************************************************)
(* The gas subsystem the evaluation core calls in Machine::step and        *)
(* apply_create: memory_gas, memory_cost, gas_cost, gas_stipend,           *)
(* gas_refund and code_deposit_gas.  Their code (vm/eval/cost.rs) is not   *)
(* part of the source tree we have, so they are written from the spec      *)
(* (section 4.4) with the Frontier schedule of the Yellow Paper, which the *)
(* spec says the costs follow.                                             *)
(*                                                                         *)
(* Memory is abstracted to 32-byte words: an offset or a length taken from *)
(* the stack counts words, and memory_cost is a size in words, as in the   *)
(* code.  An instruction is a record [op, arg, n] (see EvmMachine).        *)
(***************************************************************************)
EXTENDS Integers, Sequences

(* The stack holds its top at the end; Peek(s, 0) is the top, as          *)
(* Stack::peek(0).                                                         *)
Peek(s, k) == s[Len(s) - k]

(* memory_gas: 3w + w^2/512 for a memory of w words.                       *)
MemoryGas(w) == 3 * w + (w * w) \div 512

(* The end of a memory region; a zero-length region touches nothing.       *)
RegionEnd(off, len) == IF len = 0 THEN 0 ELSE off + len

(* The words the instruction touches, read from the pre-state stack.       *)
TouchedEnd(ins, s) ==
  CASE ins.op \in {"MLOAD", "MSTORE"}       -> Peek(s, 0) + 1
    [] ins.op \in {"RETURN", "LOG"}         -> RegionEnd(Peek(s, 0), Peek(s, 1))
    [] ins.op = "CREATE"                    -> RegionEnd(Peek(s, 1), Peek(s, 2))
    [] ins.op = "SHA3"                      -> RegionEnd(Peek(s, 0), Peek(s, 1))
    [] ins.op \in {"CALLDATACOPY", "CODECOPY"} -> RegionEnd(Peek(s, 0), Peek(s, 2))
    [] ins.op = "EXTCODECOPY"               -> RegionEnd(Peek(s, 1), Peek(s, 3))
    [] ins.op \in {"CALL", "CALLCODE"}      ->
         LET inEnd  == RegionEnd(Peek(s, 3), Peek(s, 4))
             outEnd == RegionEnd(Peek(s, 5), Peek(s, 6))
         IN  IF inEnd > outEnd THEN inEnd ELSE outEnd
    [] OTHER                                -> 0

(* memory_cost: the memory size after the instruction, never below the     *)
(* current size.                                                           *)
MemoryCost(ins, s, cur) ==
  IF TouchedEnd(ins, s) > cur THEN TouchedEnd(ins, s) ELSE cur

(* gas_cost per opcode (Frontier tiers); value-dependent for CALL and LOG. *)
BaseCost ==
  [ STOP |-> 0, RETURN |-> 0, SUICIDE |-> 0, JUMPDEST |-> 1,
    POP |-> 2, PC |-> 2, MSIZE |-> 2, GAS |-> 2, ADDRESS |-> 2, ORIGIN |-> 2,
    CALLER |-> 2, CALLVALUE |-> 2, CALLDATASIZE |-> 2, CODESIZE |-> 2,
    GASPRICE |-> 2, COINBASE |-> 2, TIMESTAMP |-> 2, NUMBER |-> 2,
    DIFFICULTY |-> 2, GASLIMIT |-> 2,
    ADD |-> 3, SUB |-> 3, LT |-> 3, GT |-> 3, SLT |-> 3, SGT |-> 3, EQ |-> 3,
    ISZERO |-> 3, AND |-> 3, OR |-> 3, XOR |-> 3, NOT |-> 3, BYTE |-> 3,
    CALLDATALOAD |-> 3, CALLDATACOPY |-> 3, CODECOPY |-> 3,
    MUL |-> 5, DIV |-> 5, SDIV |-> 5, MOD |-> 5, SMOD |-> 5, SIGNEXTEND |-> 5,
    ADDMOD |-> 8, MULMOD |-> 8, EXP |-> 10, SHA3 |-> 30,
    EXTCODESIZE |-> 20, EXTCODECOPY |-> 20,
    PUSH |-> 3, DUP |-> 3, SWAP |-> 3, MLOAD |-> 3, MSTORE |-> 3,
    JUMP |-> 8, JUMPI |-> 10, BALANCE |-> 20, BLOCKHASH |-> 20,
    SLOAD |-> 50, SSTORE |-> 5000,
    CALL |-> 40, CALLCODE |-> 40, DELEGATECALL |-> 40, CREATE |-> 32000,
    LOG |-> 375, INVALID |-> 0 ]

(* The number of bytes of a word, as EXP charges for its exponent.        *)
RECURSIVE ByteLength(_)
ByteLength(x) == IF x = 0 THEN 0 ELSE 1 + ByteLength(x \div 256)

(* Per-word charges of SHA3 and the copies are for lengths in words; cur   *)
(* is the value SSTORE overwrites (the set tier for a zero made non-zero). *)
GasCost(ins, s, cur) ==
  CASE ins.op \in {"CALL", "CALLCODE"} ->
         BaseCost[ins.op] + (IF Peek(s, 2) # 0 THEN 9000 ELSE 0)
    [] ins.op = "LOG" ->
         BaseCost.LOG + 375 * ins.arg + 8 * 32 * Peek(s, 1)
    [] ins.op = "EXP"  -> BaseCost.EXP + 10 * ByteLength(Peek(s, 1))
    [] ins.op = "SHA3" -> BaseCost.SHA3 + 6 * Peek(s, 1)
    [] ins.op \in {"CALLDATACOPY", "CODECOPY"} -> BaseCost[ins.op] + 3 * Peek(s, 2)
    [] ins.op = "EXTCODECOPY" -> BaseCost.EXTCODECOPY + 3 * Peek(s, 3)
    [] ins.op = "SSTORE" -> IF cur = 0 /\ Peek(s, 1) # 0 THEN 20000 ELSE BaseCost.SSTORE
    [] OTHER -> BaseCost[ins.op]

(* gas_stipend: 2300 for a value-carrying CALL or CALLCODE.                *)
GasStipend(ins, s) ==
  IF ins.op \in {"CALL", "CALLCODE"} /\ Peek(s, 2) # 0 THEN 2300 ELSE 0

(* gas_refund: the SUICIDE refund, and the refund of an SSTORE clearing a  *)
(* non-zero value.                                                         *)
GasRefund(ins, s, cur) ==
  CASE ins.op = "SUICIDE" -> 24000
    [] ins.op = "SSTORE" /\ cur # 0 /\ Peek(s, 1) = 0 -> 15000
    [] OTHER -> 0

(* code_deposit_gas: 200 per byte of returned code (len in words).         *)
CodeDepositGas(len) == 200 * 32 * len

=============================================================================
