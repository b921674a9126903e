# A TLA+ model of the sputnikvm evaluation core

This directory holds TLA+ modules and TLC configurations for the EVM evaluation
core of sputnikvm:

- `src/sputnikvm/src/vm/eval/mod.rs` holds `State`, `Machine`, `MachineStatus`,
  `Control`, `new`, `derive`, `commit_*`, `apply_sub` / `apply_create` /
  `apply_call`, `check` and `step`.
- `src/sputnikvm/src/vm/eval/run/mod.rs` holds `run_opcode`, the opcode dispatch.

## The system

A `Machine` runs one call frame. The transaction driver (outside this source
tree) calls `step` repeatedly. Each step goes through the same phases:

1. The depth cap (2, hard-coded at mod.rs:269).
2. The end of the code.
3. `check`: decode, stack counts, required world data, jump destination.
4. The gas figures, all taken from the pre-state (`after_gas` at mod.rs:297).
5. `extra_check_opcode`: the balance needed for a transfer.
6. The EmptyGas test.
7. `run_opcode`.
8. Commit the costs.
9. Apply the `Control`.

Step 3 or step 5 may return `Err(RequireError)` without touching the machine. The
driver then `commit`s the named account or blockhash and steps again. This is the
pull-based protocol.

A CALL or CREATE sets the status to `InvokeCall` / `InvokeCreate`. The driver then
`derive`s a child, which clones the account cache, the blockhash cache and the logs.
It runs the child to an exit and hands it to `apply_sub`. That call adopts the
child's world, logs and gas only if the child exited Ok.

The cost functions (`cost.rs`), the checks (`check.rs`), the PC decoder, the
system helpers (`run/system.rs`, `run/flow.rs`, `eval/utils.rs`) and the driver
are not in the source tree. They are modelled from `spec.md` and marked
`spec_modelled` in the map of `PROJECT.json`.

## Modules

| module | models |
|---|---|
| `EvmCost` | The gas subsystem of spec 4.4, with the Frontier schedule: `MemoryGas`, `MemoryCost` (via `TouchedEnd`), `GasCost` (EXP by the byte length of its exponent, SHA3 and the copies per word, SSTORE by the value it overwrites), `GasStipend`, `GasRefund` (SUICIDE, and an SSTORE that clears), `CodeDepositGas`. |
| `EvmWord` | The word arithmetic `run_opcode` applies: M256 and its signed reading MI256 narrowed to `WordBits`, with DIV/MOD, SDIV/SMOD, ADDMOD/MULMOD, EXP by squaring, SIGNEXTEND, BYTE and NOT. `utils::bigint` and `run/arithmetic.rs`, `run/bitwise.rs` are not in the tree; the operators follow spec 4.3 and the Yellow Paper. |
| `EvmMachine` | The machine, the step cycle, `run_opcode`, commit, derive, `apply_sub`, and the driver that connects them. |
| `EvmCallStack` | The abstract call tree: a sequence of frame modes (running, waiting on a child, exited Ok or Err) with three atomic steps, Call, Exit and Return. |
| `MCEvmMachine` | The model instance: seven accounts, a block at height 300, a transaction environment, a stand-in hash, and a library of 32 programs. |

### State

`EvmMachine` has three variables:

- `frames` is the call tree as a sequence of machine records, root first. Each
  record holds the fields of `State` plus `pc` and `status`. Memory is a sparse
  function on word addresses. `acc` and `hashes` are the account and blockhash
  caches, defined only on committed keys.
- `pending` is the `RequireError` the driver holds.
- An account in `acc` holds balance, nonce, code and storage. The storage is a
  function on the keys committed so far.
- `panicked` records a Rust panic: an `unwrap` on `None`, `panic!()`, or
  `unimplemented!()`.

### Actions

There is one action per driver operation.

`Step` is `Machine::step` on the innermost machine. Its phases are computed once,
in the order of the code (`\E chk \in {Check(f)}`, then the costs and the
extra check), and each way it returns is one disjunct:

- `StepEnd`: the depth cap and the end of the code (lines 269-277).
- `StepCheckFails`: `check` returns a machine error (exit) or a RequireError
  (the machine is unchanged, the driver holds the request).
- `StepOutOfGas`: the instruction cannot be paid for. Either `after_gas` at line
  297 underflows and panics (when `GasUnderflowPanics`), or, past extra_check,
  lines 310-313 set EmptyGas.
- `StepExtraFails`: `extra_check_opcode` returns a machine error or a
  RequireError.
- `StepRun`: `run_opcode`, then the cost commit of lines 319-321 (`Charged`), then
  the Control of lines 323-341 (`Settled`). The panics of `run_opcode` and of
  `pc.jump(..).unwrap()` are outcomes of this same action (`RunPanic`).

`RunOpcode` covers every opcode but MSTORE8. The word arithmetic, comparisons
and bitwise operators go through `WordOp` (over `EvmWord`). The context and
block pushes go through `EnvValue`, the three copies through `RunCopy`, and
SLOAD/SSTORE through `RunStorage`. Each unwrap of the code (world data, a
storage key, a callee's code) is a `Panic` outcome, and so is a DUP or SWAP
that peeks below the stack (`peek(..).unwrap()` at run/mod.rs lines 157-163).

The other actions:

- `Commit` is `commit_account` / `commit_blockhash` answering `pending`: an
  account, one storage key of an account (`AccountCommitment::Storage`), or a
  blockhash. The driver commits from the world (`Balance0`, `Code0`,
  `Storage0`, `BlockHashOf`).
- `DeriveChild` is `derive` for an `Invoke*` status.
- `ApplySub` is `apply_sub` with `apply_create` / `apply_call`. Every panic of
  these functions is collected in `ApplyPanic`.
- `Terminated` stutters once the root has exited or the process has panicked.

### Abstractions

- A word is `WordBits` bits wide, with M256 wrap-around: 16 bits in the
  machine runs (wide enough for a CALL to hand a child the gas of an SSTORE).
  The word operators of `EvmWord` follow the spec and the Yellow Paper, because
  utils::bigint, run/arithmetic.rs and run/bitwise.rs are not in the tree; no run
  checks them on their own, since that would compare the model with itself.
- The balance type and `increase_balance` / `decrease_balance` are not in the
  tree either. The parameter `BalancePanics` chooses between the two readings:
  FALSE wraps a balance at the word width (M256), TRUE panics when a credit
  leaves the word or a debit goes below zero (a checked U256). The `core` run
  uses FALSE, and `balance_underflow_panics` shows what TRUE does.
- Memory is addressed in 32-byte words. Call data is a sequence of words: a CALL
  passes the words of its input region, CALLDATALOAD reads the word at an index,
  and CALLDATASIZE counts 32 bytes per word, as MSIZE counts `memory_cost * 32`.
- The SHA3 hash is the constant operator `Sha3Of`; the model gives it a
  polynomial hash of the words. Origin and gas price are those of the
  transaction in every frame, and the block's coinbase, timestamp, difficulty
  and gas limit are the record `TxEnv`.
- Byte strings used as code (init code, returned code, the code CODECOPY and
  EXTCODECOPY copy) are one word naming a program. Any other word decodes to the
  one-instruction INVALID program. CODESIZE and EXTCODESIZE give the program's
  length in bytes.
- Gas is an unbounded integer. `utils::gas` is not in the source tree, so what a
  subtraction below zero does is the constant `GasUnderflowPanics`. The only
  such subtraction the modelled code reaches is `after_gas` at line 297. With
  FALSE (a wrapping subtraction) the wrapped value is never used: `GAS`, `CALL` and
  `CREATE` read `after_gas` only when the step is affordable, and then it is
  not negative. With TRUE the subtraction panics.

### Refinement

`EvmCallStack` states what the call tree promises. Only the innermost frame
runs. A call suspends it and starts a child in one step. A frame exits Ok or Err,
and a frame at the depth cap only with Err. An exited child returns to its
waiting parent, which runs again. Weak fairness keeps the call tree moving while any frame can
step; it does not make the root exit, since calls and returns may alternate
forever.
`EvmMachine` instantiates it with the mapping `Mode`:

- `Running` maps to run;
- `InvokeCall`/`InvokeCreate` maps to run until `derive` has pushed the child,
  and to wait afterwards;
- `ExitedOk` maps to ok, and `ExitedErr` to err.

So `StepRun` ending in an Invoke status is a stutter, and `DeriveChild` is the
abstract Call. The fairness of the abstract `Spec` is not assumed: TLC checks
that it follows from the fairness of the driver. `CallStackRefined == CS!Spec` is a property of the `core` run.

## Runs

| run | cfg | expect | what it shows |
|---|---|---|---|
| `core` | `MCEvmMachine.cfg` | pass | See the properties below. Every root program is checked with its gas limits. |
| `delegatecall_panics` | `MCEvmDelegate.cfg` | violation | DELEGATECALL reaches `unimplemented!()` (run/mod.rs:176) and panics the process. |
| `failed_call_result` | `MCEvmFailedCall.cfg` | violation | A CALL whose callee runs out of gas leaves 1 on the stack (mod.rs:234). The Yellow Paper and spec §9 say 0. |
| `failed_create_result` | `MCEvmFailedCreate.cfg` | violation | A CREATE whose init code fails leaves the new address on the stack, because the failure path (mod.rs:203-207) is commented out. Spec 4.1 says 0. |
| `gas_underflow_panics` | `MCEvmGasUnderflow.cfg` | violation | With a Gas whose subtraction panics below zero, program 6 with 8000 gas panics at line 297 on its value-carrying CALL. That CALL is affordable, because the 2300 stipend is added only after `gas_cost` has been subtracted. Spec step 5 expects the step to run (or to end in EmptyGas). |
| `child_memory_gas` | `MCEvmChildGas.cfg` | violation | After the logger returns Ok to program 6, the caller's used gas plus memory gas grows by the child's used gas only. The 3 gas of the word the logger stored is charged to nobody (mod.rs:222, and mod.rs:192 for CREATE). |
| `failed_child_gas` | `MCEvmFailedChildGas.cfg` | violation | Program 7 pays 40 gas for its CALL (used 667 to 707), and the spinner it calls burns 496 of its 500 gas and fails. `apply_call` charges none of it (mod.rs:231 is commented out). Spec 4.1 says the pre-call debit already charged for the attempt, but that debit is 40 gas. The Yellow Paper charges the caller all the gas a failed callee was given. |
| `balance_underflow_panics` | `MCEvmBalanceUnderflow.cfg` | violation | With a balance type whose debit panics below zero, program 22 panics: its CALLCODE child is the donor running in the root's account, which SUICIDEs and hands the root's whole balance away, and `apply_call` then debits the 4 wei of the call's value from the emptied account (mod.rs:224). Spec §7 reserves panics for broken invariants. |
| `code_deposit_uncharged` | `MCEvmCodeDeposit.cfg` | violation | Program 14 creates the logger's code. `apply_create` tests `available_gas >= code_deposit_gas` (mod.rs:194) and creates the account, but never adds the 6400 gas deposit to `used_gas`. |
| `callee_funded` | `MCEvmCalleeFunded.cfg` | violation | Program 32 CALLs the donor with 3 wei. The derived callee's world still shows the donor with its own 1 wei, because `apply_call` credits the value only at the fold (mod.rs:224-227), as spec 4.1 prescribes. Spec §6 asks for the Yellow Paper's opcode semantics, under which the value is the callee's before it runs: here the donor's SUICIDE gives the logger 1 wei instead of 4, and the 3 wei land in the self-destructed donor. |

The `core` run checks these properties:

- `TypeOK`: each machine's fields have their types, and the stack stays within
  StackLimit.
- `NoPanic`: no sequence of driver calls panics the core. Every datum that
  `run_opcode` and `apply_sub` unwrap was asked for by a check first. Every jump
  taken was validated. No child reports more gas used than its parent had left.
- `GasWithinLimit`: for every machine, used plus memory gas is at most its gas
  limit. A child's limit fits within its parent's available gas.
- `MemoryPaid`: every memory word written, including the output that
  `apply_call` copies in, lies within `memory_cost`.
- `BalanceConserved`: in every machine's view of the world, the balances sum to
  what the committed accounts held. This covers CALL and CALLCODE transfers,
  CREATE endowments, SUICIDE, and a CALLCODE child giving away its caller's
  balance.
- `ParentWorldKept` (action property): after a failed child, the parent's account
  cache (balances and storage), blockhash cache, logs and refunded gas are as
  they were, although the child cleared or set storage keys (and earned their
  refund) before it failed. After a successful child, the
  parent's earlier logs are a prefix of its new logs.
- `RootExits` (liveness): the root machine always exits.
- `CallStackRefined` (refinement): the call tree behaves as `EvmCallStack`.
  Only the innermost machine runs. A machine at depth 2 never runs an
  instruction, calls or succeeds. `apply_sub` resumes the waiting parent. The
  abstract fairness keeps the call tree moving; it does not by itself make the
  root exit, since calls and returns could alternate forever. That the root
  exits is `RootExits`.

Each property has a mutant in `PROJECT.json`. The mutant is a plausible bug in the
code it is about, and TLC finds the property violated with it in place:

- `TypeOK`: a pushed value not reduced to the word width.
- `NoPanic`: a BLOCKHASH window in `run_opcode` one block wider than the one check asks for;
  and (a second mutant) check counting DUP as popping one word fewer than it reads.
- `GasWithinLimit`: an `after_gas` that leaves out the instruction's own cost.
- `MemoryPaid`: `memory_cost` never committed after the run (`Charged`).
- `BalanceConserved`: the value never debited (`Transfer`).
- `CallStackRefined`: the depth cap of line 269 tested with `>` for `>=`. The
  donor, which a relay calls at depth 2, then succeeds.
- `ParentWorldKept`: a child derived with no logs, and (a second mutant) a
  failed callee's refunded gas added to the caller's in `apply_call`.
- `RootExits`: instructions never charged.

## Bounds

The program library in `MCEvmMachine` is chosen so that every branch of `step`
and `apply_sub` is taken. TLC with `-coverage` confirms that every action and
disjunct fires. The library covers:

- the spec's scenarios 1 and 2;
- an infinite loop stopped by gas;
- a stack-growing loop stopped by StackOverflow;
- reads of an account and of blockhashes inside, at the edge of, and outside the
  256-block window;
- CALL with value to a logger;
- CALL to a spinner that fails;
- CALL to a self-destructing donor;
- CALL to a relay whose own call (to the donor) hits the depth cap;
- CALLCODE of the relay and of the donor;
- CALL with more value than the balance;
- CALL asking for more gas than remains;
- a value-carrying CALL with 8000 gas, affordable only through its stipend;
- CREATE with returning init code and with failing init code;
- stack underflow;
- every word operator in a chain on one running value (program 23);
- SLOAD of a committed non-zero key, an SSTORE that clears it (refund) and one
  that sets a zero key (the 20000 tier), with 6000 gas (enough only for the
  clear) and 30000 (program 25);
- every context and block push, CALLDATALOAD, CALLDATACOPY, CODECOPY,
  EXTCODESIZE and EXTCODECOPY of the logger (which needs its account committed
  first), and SHA3 of the copied words (program 24);
- CALLCODE of a breaker that clears the root's storage key 0 (earning a 15000
  refund) and then fails, after which the root reads key 0 again and must
  re-require it, since the child's commit of the key went with the child
  (program 28);
- CALLCODE of a writer that clears key 0 and sets key 1 on the root's storage
  and succeeds, after which the root reads key 0 from the adopted cache
  (program 29), and CALL of the writer on its own storage (program 30);
- a DUP deeper than the stack (program 31);
- CALL with value of the self-destructing donor (program 32).

The logger loads the word it is called with, so a CALL passes its input
region to the callee.

Most root programs get one gas limit that is too small and one that is enough.
The depth cap of the code is 2, so two frames below the root already reach every
apply path. The `core` run explores about 1260 states in about 30 seconds. Word operands
are 16 bits, so a CALL can hand a child the 26000 gas a clear and a set cost.

## Fairness

`Spec` assumes weak fairness of each driver action. The driver is a loop that
calls `step`, `commit`, `derive` or `apply_sub` whenever one applies (spec §5:
single-threaded, `step` is the only scheduling point). An enabled driver step is
therefore eventually taken.

## Not modelled

The following are not modelled:

- MSTORE8 and byte-level memory: memory is addressed in words, so a
  single-byte write has no place to go;
- the storage of a created account beyond what `create` gives it: the spec
  only says the account is materialised with the value and the code, so it
  starts with no committed keys. No init code of the library writes storage;
- `CommitError` paths: `commit.rs` is not in the source tree, and the driver
  of the model commits only what it was asked for, from one world;
- the patch selection: the model uses the Frontier schedule throughout.

SUICIDE to its own address burns the balance, as in the Yellow Paper. No program
of the library does it, because `BalanceConserved` counts conservation of value.

## Further work

- An abstract specification of a sub-call's effect on the world (all or
  nothing) next to `EvmCallStack`. Its content beyond `EvmCallStack` would be
  what `ParentWorldKept` and `BalanceConserved` already check on the detailed
  frames, so it is not written.
- The AlreadyCommitted and InvalidCommitment paths of commit. They need a
  driver that commits data it was not asked for (prefetching, or a retried
  commit). `commit.rs` is not in the source tree, and the spec calls these
  errors programmer errors of the driver, so they are left out.
