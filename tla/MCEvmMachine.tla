---------------------------- MODULE MCEvmMachine ----------------------------
(***************************************************************************)
(* Model-checking instance of EvmMachine: a small world of seven accounts, *)
(* a block at height 300 and a library of programs exercising every path  *)
(* of step and apply_sub.                                                  *)
(***************************************************************************)
EXTENDS EvmMachine

(* Instruction constructors.                                               *)
I(op) == [op |-> op, arg |-> 0, n |-> 0]
PUSH1(v) == [op |-> "PUSH", arg |-> v, n |-> 1]
PUSH2(v) == [op |-> "PUSH", arg |-> v, n |-> 2]
LOG(k) == [op |-> "LOG", arg |-> k, n |-> 0]
DUP(k) == [op |-> "DUP", arg |-> k, n |-> 0]
SWAP(k) == [op |-> "SWAP", arg |-> k, n |-> 0]

(* The opcodes of the sequence ops, each applied to the running value on   *)
(* the stack and to the operand k pushed above it; when k < 0 each opcode  *)
(* pushes a value that an ADD folds into the running value.                *)
ChainOps(ops, k) ==
  FoldLeft(LAMBDA acc, op : acc \o (IF k >= 0 THEN << PUSH1(k), I(op) >> ELSE << I(op), I("ADD") >>),
           <<>>, ops)

(* Accounts: the root contract and four callees.                           *)
Root == 16
Logger == 17      \* stores, logs and returns the word it is called with
Spinner == 18     \* loops until it runs out of gas
Donor == 19       \* self-destructs in favour of the logger
Relay == 20       \* calls the donor, one level deeper
Breaker == 25     \* clears storage key 0, then fails
Writer == 26      \* clears storage key 0 and sets key 1 to 9

(* CALL/CALLCODE of `to` with `value` and `gas`, word 0 as the call data, *)
(* output into word 2, then MLOAD it.                                      *)
CallGasProg(op, to, value, gas) ==
  << PUSH1(7), PUSH1(0), I("MSTORE"), PUSH1(1), PUSH1(0), LOG(0),
     PUSH1(1), PUSH1(2), PUSH1(1), PUSH1(0), PUSH1(value), PUSH1(to), PUSH2(gas),
     I(op), PUSH1(2), I("MLOAD"), I("STOP") >>
CallProg(op, to, value) == CallGasProg(op, to, value, 500)

(* CREATE with `value` and the init code named by memory word 0.           *)
CreateProg(init, value) ==
  << PUSH1(init), PUSH1(0), I("MSTORE"), PUSH1(1), PUSH1(0), PUSH1(value),
     I("CREATE"), I("MSIZE"), I("STOP") >>

ProgramList ==
  << (* 1 *) << I("INVALID") >>,
     (* 2, spec scenario 1 *) << PUSH1(1), PUSH1(2), I("ADD"), I("STOP") >>,
     (* 3, spec scenario 2: a good jump, then a jump to a STOP *)
        << PUSH1(5), I("JUMP"), I("STOP"), I("STOP"), I("JUMPDEST"), PUSH1(4), I("JUMP") >>,
     (* 4 *) << I("JUMPDEST"), PUSH1(0), I("JUMP") >>,
     (* 5 *) << PUSH1(Logger), I("BALANCE"), PUSH2(44), I("BLOCKHASH"), PUSH2(43),
                I("BLOCKHASH"), PUSH2(300), I("BLOCKHASH"), PUSH1(0), PUSH1(1), I("JUMPI"),
                DUP(2), SWAP(3), I("POP"), I("GAS"), I("PC") >>,
     (* 6 *) CallProg("CALL", Logger, 5),
     (* 7 *) CallProg("CALL", Spinner, 0),
     (* 8 *) CallProg("CALL", Donor, 0),
     (* 9 *) CallProg("CALL", Relay, 2),
     (* 10, the logger: stores, logs and returns its first word of call data *)
        << PUSH1(0), I("CALLDATALOAD"), PUSH1(0), I("MSTORE"), PUSH1(1), PUSH1(0), LOG(0),
           PUSH1(1), PUSH1(0), I("RETURN") >>,
     (* 11, the donor *) << PUSH1(Logger), I("SUICIDE") >>,
     (* 12, the relay *) CallProg("CALL", Donor, 0),
     (* 13, init code returning the logger's code *)
        << PUSH1(10), PUSH1(0), I("MSTORE"), PUSH1(1), PUSH1(0), I("RETURN") >>,
     (* 14 *) CreateProg(13, 3),
     (* 15 *) CreateProg(1, 3),
     (* 16 *) CallProg("CALLCODE", Relay, 4),
     (* 17 *) << PUSH1(1), PUSH1(1), PUSH1(1), PUSH1(1), PUSH1(1), PUSH1(Logger),
                I("DELEGATECALL"), I("STOP") >>,
     (* 18, grows the stack until it overflows *)
        << I("JUMPDEST"), PUSH1(0), PUSH1(0), I("JUMP") >>,
     (* 19 *) << PUSH1(1), I("ADD") >>,
     (* 20, more value than the root holds *) CallProg("CALL", Logger, 11),
     (* 21, asks for more gas than it has left *)
        << PUSH1(0), PUSH1(0), PUSH1(0), PUSH1(0), PUSH1(0), PUSH1(Spinner), PUSH2(500),
           I("CALL"), I("STOP") >>,
     (* 22, the donor's code run at the root's own address *)
        CallProg("CALLCODE", Donor, 4),
     (* 23, every word operator on a running value *)
        << PUSH2(300) >> \o ChainOps(<< "MUL", "SUB", "DIV", "SDIV", "MOD", "SMOD", "EXP", "SIGNEXTEND", "LT",
                       "GT", "SLT", "SGT", "EQ", "AND", "OR", "XOR", "BYTE" >>, 77)
          \o << PUSH1(3), PUSH1(5), I("ADDMOD"), PUSH1(0), PUSH1(9), I("MULMOD"),
                I("ISZERO"), I("NOT"), I("STOP") >>,
     (* 24, the context and block pushes, the call data, the copies, the   *)
     (* logger's code and the hash of the words copied                     *)
        << I("ADDRESS") >> \o ChainOps(<< "ORIGIN", "CALLER", "CALLVALUE", "CALLDATASIZE", "CODESIZE", "GASPRICE",
                         "COINBASE", "TIMESTAMP", "NUMBER", "DIFFICULTY", "GASLIMIT" >>, -1)
          \o << PUSH1(0), I("CALLDATALOAD"), I("ADD"), I("POP"),
                PUSH1(1), PUSH1(0), PUSH1(0), I("CALLDATACOPY"),
                PUSH1(1), PUSH1(0), PUSH1(1), I("CODECOPY"),
                PUSH1(Logger), I("EXTCODESIZE"), I("POP"),
                PUSH1(1), PUSH1(0), PUSH1(2), PUSH1(Logger), I("EXTCODECOPY"),
                PUSH1(3), PUSH1(0), I("SHA3"), I("STOP") >>,
     (* 25, reads key 0, clears it, sets key 1, and reads both back        *)
        << PUSH1(0), I("SLOAD"), I("POP"), PUSH1(0), PUSH1(0), I("SSTORE"),
           PUSH1(9), PUSH1(1), I("SSTORE"), PUSH1(1), I("SLOAD"), PUSH1(0), I("SLOAD"),
           I("STOP") >>,
     (* 26, the breaker *) << PUSH1(0), PUSH1(0), I("SSTORE"), I("INVALID") >>,
     (* 27, the writer *)
        << PUSH1(0), PUSH1(0), I("SSTORE"), PUSH1(9), PUSH1(1), I("SSTORE"), I("STOP") >>,
     (* 28, the breaker's code run on the root's storage, then key 0 read *)
        Front(CallGasProg("CALLCODE", Breaker, 0, 6000)) \o << PUSH1(0), I("SLOAD"), I("STOP") >>,
     (* 29, the writer's code run on the root's storage, then key 0 read *)
        Front(CallGasProg("CALLCODE", Writer, 0, 26000)) \o << PUSH1(0), I("SLOAD"), I("STOP") >>,
     (* 30, the writer run on its own storage *) CallGasProg("CALL", Writer, 0, 26000),
     (* 31, a DUP deeper than the stack *) << PUSH1(1), DUP(2) >>,
     (* 32, the donor called with value *) CallProg("CALL", Donor, 3) >>

MCPrograms == (0 :> <<>>) @@ [i \in DOMAIN ProgramList |-> ProgramList[i]]

MCRootPrograms == {2, 3, 4, 5, 6, 7, 8, 9, 14, 15, 16, 18, 19, 20, 21, 22, 23, 24, 25, 28, 29, 30, 31, 32}
(* Gas limits per root program: one too small to finish, and enough to    *)
(* reach the interesting exits (CREATE alone costs 32000, setting a       *)
(* storage key 20000, clearing one 5000); 8000 lets the                   *)
(* value-carrying CALL of program 6 through only thanks to its stipend.    *)
MCGasLimits == [p \in DOMAIN MCPrograms |->
                  CASE p \in {4, 18, 23, 24} -> {100, 1000}
                    [] p \in {5, 20}         -> {1000}
                    [] p = 21                -> {200}
                    [] p = 25                -> {6000, 30000}
                    [] p = 28                -> {8000}
                    [] p \in {29, 30}       -> {30000}
                    [] p \in {14, 15}       -> {35000, 60000}
                    [] p = 6                 -> {100, 8000, 12000}
                    [] p \in {7, 8, 9, 16, 22} -> {100, 12000}
                    [] p = 32                -> {12000}
                    [] OTHER                -> {100}]

MCBalance0 == [a \in {Root, Logger, Spinner, Donor, Relay, Breaker, Writer} |->
                 IF a = Root THEN 10 ELSE 1]
MCCode0 == (Root :> 2) @@ (Logger :> 10) @@ (Spinner :> 4) @@ (Donor :> 11) @@ (Relay :> 12)
           @@ (Breaker :> 26) @@ (Writer :> 27)

MCTxEnv == [origin |-> 21, gasPrice |-> 1, coinbase |-> 22, timestamp |-> 99,
            difficulty |-> 131, gasLimit |-> 500]
(* A stand-in for Keccak-256: a polynomial hash of the words, mod 512.     *)
MCSha3Of(ws) == FoldLeft(LAMBDA h, w : (33 * h + w + 1) % 512, 5, ws)

(* The root's storage holds 5 at key 0, every other key is zero.          *)
MCStorage0(a, k) == IF a = Root /\ k = 0 THEN 5 ELSE 0

MCBlockHashOf(n) == (7 * n + 3) % 512
MCCreatedAddress(creator, nonce) == 64 + 4 * (creator % 16) + nonce

(* Roots for the finding runs.                                             *)
DelegateRoot == {17}
FailedCallRoot == {7}
FailedCreateRoot == {15}
(* The value-carrying CALL of program 6 with 8000 gas: affordable once the *)
(* stipend is counted, though the cost alone exceeds what is left.         *)
StipendRoot == {6}
StipendGasLimits == [MCGasLimits EXCEPT ![6] = {8000}]
(* CALL of the logger, whose memory the callee expands.                    *)
ChildMemoryRoot == {6}
(* CALLCODE of the donor with value: the root's balance is given away      *)
(* before apply_call debits the value from it.                             *)
CallcodeDonorRoot == {22}
(* CALL with value of the donor, which self-destructs.                     *)
FundedCallRoot == {32}
(* CREATE whose init code returns the logger's code.                       *)
DepositRoot == {14}

=============================================================================
