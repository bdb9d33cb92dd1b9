# A verification project for url-parse-nginx

`url-parse-nginx` is a Rust port of nginx's parser and normalizer of request
targets. This directory holds TLA+ modules that model the port, the C reference
it is compared with and the comparison itself; TLC configurations that check
them; and theorems about the port, the reference and the fuzzer that TLAPS proves for every
input. Paths below
are relative to the repository; `lib.rs` is `src/lib.rs` and `nginx_url.c` is
`nginx-reference/nginx_url.c`.

## 1. Inventory

| Component | State it keeps | Operations | Status |
|---|---|---|---|
| byte tests (`lib.rs` 145-171) | none; the `USUAL` bitmap | `usual`, `read_with_lf_sentinel` | modelled: `Bytes`, `Request` |
| stage 1, `ngx_http_parse_uri` (258-387) | `Request` flags and offsets; `state`, `p` | one scan of the target | modelled: `ParseUri` |
| stage 2, `ngx_http_parse_complex_uri`, `finish_done`, `finish_args` (389-727) | the buffer `out`; `u`, `p`, `ch`, `state`, `quoted_state`, `decoded` | decode, resolve dots, merge slashes, find the query | modelled: `ParseComplexUri` |
| `parse_origin_form`, `parsed_args` (729-812) | the `Request` of one call | the public entry point | modelled: `OriginForm` |
| `PATH_ESCAPE_SET` (120-145) | none | encoding of a path | modelled: `PathEscape`, `RoundTrip` |
| C reference: two nginx functions and a wrapper (`nginx_url.c`) | `ngx_http_request_t`, two malloc'ed buffers, pointers | `nginx_parse_origin_form` | modelled: `NginxUri` |
| C reference: `ngx_escape_uri` | none | encoding of a path | the one mode that is used: `PathEscape` |
| differential fuzzer, one comparison (`fuzz/src/main.rs` 47-146, 187-204) | none | `check`, `c_parse`, `rust_parse`, `check_path_escape_set` | modelled: `Differential`, `EscapeSetCheck` |
| differential fuzzer, the program (148-185, 239-344) | arguments, loop counters, `Rng`, the input buffer | the phases of `main`, `gen_input`, `next_u64`, `below` | modelled: `FuzzMain`, `Rng` |
| benchmark (`bench/src/main.rs`) | none | four inputs, a comparison, timed loops | the inputs and the comparison: `Bench` |
| self-test, extraction script, build files, CI | | | not modelled (section 8) |

The library has no concurrency, no persistent state and no I/O: one call runs
stage 1 over the whole target, runs stage 2 over it again if stage 1 has set
`complex_uri` or `quoted_uri`, and assembles a path and a query. The stages
communicate through `Request` alone. The fuzzer calls the C wrapper and the port
in turn and compares. What is hard is therefore sequential:

* **Two stages that must agree.** A path that stage 1 lets pass is returned
  unread by stage 2. The two have different state machines, each with its own
  idea of where the query starts, what a plus sign is and what an extension is.
* **Cursors.** Stage 2 reads one byte behind `p`, past the end of the slice by
  one, and writes to `u`, which steps back by one or by a scan. The indices are
  right only because `state` implies what the buffer ends with.
* **Escapes.** The byte an escape stands for is processed again, without a read,
  in the state saved before the `%`.
* **A test that claims completeness.** The fuzzer's report says "exhaustive" on the
  strength of an odometer over a reused buffer, and its random phase is as good
  as a generator with a fixed point.
* **A hand translation.** The port replaces pointers by offsets, NULL by `None`
  or 0, a pointer before the buffer by `checked_sub`, and three C loops by other
  code.

`PROJECT.json` lists these hazards line by line with the properties that cover
them.

What makes each part correct: stage 1 flags every target stage 2 would change;
stage 2 stays in its buffer, ends, and leaves a normal path; the result is the
path and query of the target and of no other; the port and the reference return
the same and hold the same request structure; encoding undoes decoding.

## 2. Modules

```
Bytes            byte values, the usual table, digits
  SegmentStack     abstract specification of stage 2
  Request        constants, variables and shared operators of one call
    ParseUri         stage 1                 ParseComplexUri   stage 2
      OriginForm     both stages composed: Init, Next, Spec, the properties
        StackMapping       OriginForm implements SegmentStack (refinement mapping)
          StackMapping_proofs                     a theorem
        Normalization      reference definition of the result (INSTANCE)
        OriginForm_proofs  -> Result_proofs           theorems
        Differential       the fuzzer's check: NginxUri, then OriginForm
          Replay             the same with history variables
            Agreement_proofs                          theorems
          Bench            the benchmark's inputs through the same comparison
        PathEscape -> RoundTrip    parse, encode, parse again
          RoundTrip_proofs                          a theorem
  NginxUri       the C reference
    NginxUri_proofs                               a theorem
    OneToOne     NginxUri implements OriginForm (refinement mapping)
      OneToOne_proofs                             theorems (Result_proofs by INSTANCE)
  PathEscape -> EscapeSetCheck    the fuzzer's loop over the 256 bytes
Rng              xorshift64* on 64 bits
  FuzzMain       the fuzzer's main (EscapeSetCheck by INSTANCE)
    FuzzMain_proofs                               theorems
MC<module>       the sets of targets for TLC
```

### How the models follow the code

*State.* `target` and `merge_slashes` are the arguments. `complex_uri`,
`quoted_uri`, `plus_in_uri`, `args_start`, `uri_ext`, `args`, `uri_len`
(`uri.len`) and `exten` are the fields of `Request`; `state`, `p`, `ch`,
`decoded`, `quoted_state`, `u` and `out` are the locals. `pc` says where control
is: `call`, `uri` (in stage 1), `complex` (in stage 2), `normalized` (stage 2 has
returned `Ok`), `ok`, `err`. `result` is the value returned: whether the path is
owned, its length, and the query as a slice. Offsets are 0-based as in the code;
`None` is a model value. `empty_path_in_uri` is never assigned in the crate, so
it and the branches it guards are left out.

*Actions.* In `OriginForm` an action is one iteration of a stage's loop; arms of
a `match` that do the same thing share an action, and its guard is the condition
that reaches the arm (a byte reaches an arm only if it is not usual). Three inner
loops are one step each and are stated by what they compute: the run of usual
bytes (`UsualRun`), the backwards scan (`PathEnds`, empty where the code returns
`Err`) and the search for the end of the query (`FinishArgs`). Where a step
returns `Err` the request is dropped, so the assignments of that step are not kept.
Bytes are the numbers 0..255; the table is written by its eight words.
The one subtraction of the code that may wrap, in `finish_done`, is
`wrapping_sub` modulo `UsizeSize`.

| Module | Actions | Code |
|---|---|---|
| `ParseUri` | `InitialSlash` … `RefuseByte` | arms of 273-381 |
| `ParseComplexUri` | `Percent` … `PlainByte` | arms of the four unquoted states, 458-643 |
| | `CloseDotSegment`, `EscapeRoot` | 559-562, 608-625, 714-724 |
| | `QuestionMark`, `HashMark`, `EndOfPath` | the three ways out, with `finish_args` and `finish_done` |
| | `QuotedFirst`, `LiteralEscape`, `DecodedByte`, `RejectEscape` | 646-712 |
| `OriginForm` | `RejectEmpty`, `CallParseUri`, `CallParseComplexUri`, `ReturnBorrowed`, `ReturnOwned` | 746-782 |
| `FuzzMain` | `CheckEscapes`, `EscapesChecked` | `main.rs` 250-253 |
| | `CheckCorpus`, `CorpusChecked`; `CheckSuffix`, `SuffixesChecked` | 265-273; 276-317 |
| | `BeginInput`, `PushByte`, `CheckRandom`, `AllPassed` | `gen_input` 172-185; 325-343 |
| `Bench` | `BenchCall`, `CrossCheck` | `bench/src/main.rs` 119-123 |

*The reference.* `NginxUri` is written from the C alone, at the finer granularity
of its loops: an action per `switch` state of each stage, `BeginQuoted` and
`CopyByte` for the cases that the four unquoted states of stage 2 share,
`ScanBack` for one iteration of the loop after `u -= 4`, `SeekHash` for one of
the `args:` label. `r` is the request structure as a record with a `uri.data` that names
the buffer; pointers are offsets, `u` may become negative, and bytes that
`malloc` leaves unwritten are `None`. Around it are the wrapper's empty input,
allocation failure (`MallocMayFail`), capacity check (`OutCaps`) and reply.

*The comparison.* `Differential` runs `NginxUri` on a target, then `OriginForm`
on the same target, then the comparison of `check`, with the panics of `c_parse`
as a third kind of result. `OneToOne` needs no order: it shows that a behaviour of
the reference *is* a behaviour of the port. The port takes the three inner loops
in one step each, so the mapping needs to know where such a loop began, or where
it will end: two history variables, `run` and `left`, that no action reads. It
assumes what the fuzzer grants, room for the whole input (`main.rs` 87) and
memory.

*The comparison, with a memory.* `Replay` is `Differential` with three history
variables, which no action reads and which therefore forbid no step: the two of
`OneToOne`, and `seen`, the states of the port that the states of the reference
stood for (`Mapped`, the mapping of `OneToOne` as a value). It states what links two
calls that follow each other.

*The stack of segments.* `SegmentStack` says what stage 2 does at each step without
saying how: there are closed segments and an open one, a slash or the end of the
path closes the open one, and only then is it looked at. It has no buffer, no
cursor, no scan, no dot states and no `quoted_state`. `StackMapping` reads the
stack off the buffer of `OriginForm`, cut at its slashes (the k-th closed segment is
what lies before the k-th slash, the open one what follows the last), so a backwards scan that
removes anything but one segment is a step the stack cannot take, at once and not
only in the result.

*The fuzzer.* `FuzzMain` has an action per iteration of each loop of `main`, and
`PushByte` for one of `gen_input`. What a call of `check` finds is a choice (and
the same again for the same call), since `main` must be right for every outcome.
A suffix is read off its number by the code's repeated division (`Divided` and
`Odometer`; `& 0xff` and `>> 8` where the base is 256), and the number of suffixes
is the code's product (`Power`, `Total`). A `u64` of `Rng` is the set of the positions of its 1
bits, `next_u64` three shifts of it, and `below` the product and the remainder bit
by bit with a carry, so the numbers drawn are those of the program.

*The benchmark.* `Bench` builds the four inputs at their full length and runs
`Differential` on them. The timed loops repeat the call that was compared.

*An independent meaning.* `Normalization` defines the result without any state
machine: cut at `?` or `#`, check and decode escapes, split at `/`, fold the
segments over a stack. It shares no definition with the model of the parser.

## 3. Properties

| Property | What it says |
|---|---|
| `TypeOK` | types of all variables, per stage |
| `OutputFits` | fewer bytes written than read; no path longer than its target |
| `StateTellsOutput` | the state of stage 2 (or the one it will go back to) tells that the buffer ends with `/`, `/.`, `/..` |
| `StackSpec` | every step of stage 2 is a step of the stack of segments or leaves it alone |
| `PathIsNormal` | no `.` or `..` segment, no NUL, no empty segment when merging, for owned and borrowed paths |
| `ExtensionInsidePath` | `exten` ends with the path, follows a dot, holds no slash or dot; so the wrapping subtraction never wraps |
| `QueryIsExact` | the query returned is the target's, absent and empty told apart |
| `PlusIsReported` | a `+` in the path sets `plus_in_uri`, escaped or not, in either stage |
| `MatchesNormalization` | same acceptance, path and query as `Normalization` |
| `Progress`, `Termination` | each step reads a byte or takes the one step back from an escape; every call returns |
| `PointersStayInside` | the C pointers: at most one byte past the line feed, at most one below `nbuf`, never reading what was not written |
| `Agreement`, `RequestsAgree`, `Verdict` | the fuzzer's verdict is agreement, is reached, and the structures agree in flags and extension |
| `PortSteps`, `PortReturns` | `NginxUri` implements `OriginForm`: each of its steps is a step of the port or none; and it reaches the port's return |
| `Retraces` | when the port parses a target after the reference, each of its states is one that the reference stood for |
| `ReplyIsPath` | the caller of the reference is given -1, or 0 and the bytes of the port's path |
| `ReplyIsNormal`, `ReplyQueryIsExact` | the path it is given is normal, the query is the input's: `PathIsNormal` and `QueryIsExact`, of the C code |
| `EscapeSetsAgree`, `PathSurvives` | the two encoders agree; a path survives being encoded and parsed |
| `SuccessIsExhaustive` | exit code 0 means that the corpus and every suffix of the sweeps were compared with both values of `merge_slashes` |
| `StuckOnlyAtSeedZero` | the generator is in its fixed point 0 exactly if it was seeded with 0 |
| `BenchRuns`, `CasesExercise` | at a thousand bytes both sides accept and agree, so no timed call panics; each input goes the way its comment claims |

Every one of them is violated by some mutant of the model that is a plausible
slip in the code (an off-by-one in the backwards scan, a missing reset of
`uri_ext`, `quoted_state` not restored, an odometer that divides once, …). A mutant
is an operator named after the one it would replace, such as `PathEnds_ThreeBack`,
and is used by no action.

## 4. Runs

All runs of the port but `bench` take both values of `merge_slashes`; all take
`UsizeSize` = 65536 and stop when the call returns, so deadlock is not checked;
`Termination` and `Verdict` are what shows that they do not stop early.

| Run | Targets | Checks |
|---|---|---|
| `paths` | `/` and up to 8 of `/ . a`; up to 4 of `/ . %2F %2e %25 %2B a`; up to 3 of tokens with `+ %23 %3f %00`, lone and malformed `%` | `StateTellsOutput`, `OutputFits`, `PathIsNormal`, `ExtensionInsidePath`, `PlusIsReported`, `MatchesNormalization`, `StackSpec`, `Progress`, `Termination` |
| `queries` | up to 4 of `? # . / a + %25`; every byte alone and after `/`, `/a`, `//`, `/.`; pairs of edge bytes after `%` | `TypeOK`, `QueryIsExact`, `MatchesNormalization` |
| `wrapper` | 11 tokens to length 3, `/ . a` to 6; capacity len-1, len, len+1; memory may run out | `PointersStayInside` |
| `agree` | 12 tokens to length 2, 8 of them to 3, `/ . a` to 5; every byte after `/` and `/a` and as either digit of an escape; the named bytes after `//`, `/.`, `/..` | `Agreement`, `RequestsAgree`, `Retraces`, `Verdict` |
| `one_to_one` | 10 tokens to length 3, `/ . a` to 5, `/a` and four of `a . ?` | `ReplyIsPath`, `ReplyIsNormal`, `ReplyQueryIsExact`, `PortSteps`, `PortReturns` |
| `round_trip` | 11 tokens to length 3, every byte raw and escaped | `PathSurvives` |
| `fuzz_main` | the 256 bytes one by one; a corpus of 4; suffixes over 6 byte values and 3 printable ones; seeds 0, 1, 2^63 and the default; 0, 1 and 30 random inputs | `EscapeSetsAgree`, `SuccessIsExhaustive`, `StuckOnlyAtSeedZero` |
| `bench` | the four inputs, 1000 or 1001 bytes, `merge_slashes` on | `BenchRuns`, `CasesExercise` |
| `allocation`, `usual_table`, `memory`, `both_merge` | the first part of `paths`, the second of `queries`, `wrapper`, `fuzz_main` | one documented statement each, which the code does not keep (section 7) |

*Why the bounds are enough to see the cases.* The deepest local pattern of the
code is a backwards scan over `/x/..`: `..` is three bytes of buffer, the scan
starts at the fourth, and needs one more slash to tell a parent from the root.
Eight tokens hold two `..` after two segments, an empty segment between, and a
trailing dot segment. An escape is three bytes but one token, so four tokens
hold a dot segment whose slashes and dots are all escaped. Queries are cut at
the first `?` or `#` and again at the next `#`: four tokens order two of each.
Bytes are told apart by the table and by the arms, so single bytes after a prefix
that reaches each state cover them. The sweeps of `fuzz_main` have 6, 36, 216
and 81 suffixes: each odometer carries into its last digit and two bases differ;
30 random inputs draw several hundred numbers from each seed. The inputs of `bench`
are the program's own. The theorems need no bound.

## 5. Fairness

`Spec` has `WF_vars(Next)`: a call that has been made is executed. Nothing in it
waits for another party, takes a lock or performs I/O, so the only assumption is
that the thread keeps running. The same holds of `NginxUri` and `Differential`.
`FuzzMain` and `Bench` state no fairness and no liveness: their loops count up
to fixed totals, and what is checked of them is what holds when they end.
`Termination` follows from weak fairness and `Progress`; no liveness is assumed of the
caller, who makes one call.

## 6. Proofs

Eight modules prove theorems; those about the port hold for every set `Targets`
of byte sequences and every `UsizeSize`, the ones about the reference for every
input, and the pointers also for every capacity and with or without memory.

| Theorem | What is proved of every behaviour | Module |
|---|---|---|
| `TypeCorrect`, `OutputAlwaysFits` | `TypeOK`, `OutputFits` | `OriginForm_proofs` |
| `StepsProgress` | `Progress` | `OriginForm_proofs` |
| `StateAlwaysTellsOutput`, `PathsAreNormal` | `StateTellsOutput`, `PathIsNormal` | `OriginForm_proofs` |
| `ExtensionsAreInside`, `PlusAlwaysReported` | `ExtensionInsidePath`, `PlusIsReported` | `Result_proofs` |
| `QueriesAreExact` | `QueryIsExact` | `Result_proofs` |
| `BufferIsStack` | `StackSpec`: stage 2 implements `SegmentStack` | `StackMapping_proofs` |
| `PointersAlwaysInside` | `PointersStayInside` | `NginxUri_proofs` |
| `ReferenceIsPort` | `PortSteps`: the reference implements the port | `OneToOne_proofs` |
| `ReplyIsPortPath` | `ReplyIsPath` | `OneToOne_proofs` |
| `RepliesAreNormal`, `ReplyQueriesAreExact` | `ReplyIsNormal`, `ReplyQueryIsExact` | `OneToOne_proofs` |
| `FuzzerAgrees` | `Agreement`: the fuzzer finds no divergence | `Agreement_proofs` |
| `PortRetraces`, `RequestsAlwaysAgree` | `Retraces`, `RequestsAgree` | `Agreement_proofs` |
| `PathsSurvive` | `PathSurvives`: encoding a returned path and parsing it gives it back | `RoundTrip_proofs` |
| `SeedDecides` | `StuckOnlyAtSeedZero` | `FuzzMain_proofs` |
| `SuccessIsEarned` | `SuccessIsExhaustive` | `FuzzMain_proofs` |

Assumptions, each named where its constant is declared:

* a target is a sequence of bytes (`TargetsAssumption`), `None` is neither a number
  nor a buffer (`NoneAssumption`, `BufferAssumption`), and a slice has fewer than
  half as many bytes as a `usize` has values (`UsizeAssumption`; Rust allows
  `isize::MAX`);
* for the reference, inputs are sequences of bytes, `None` is no integer, no name of
  a buffer and no record, and capacities are numbers (`InputsAssumption`,
  `NullAssumption`, `CapsAssumption`); for the refinement also that the caller gives
  as many bytes as the input has, as `c_parse` does (`main.rs` 87), and that `malloc`
  does not fail (`RoomAssumption`, `MemoryAssumption`): without room the reference
  has a third answer, which the port has not, and without memory it rejects what the
  port accepts;
* for `Replay`, which is both at once, that `None` is none of these
  (`NullsAssumption`); what `OneToOne` assumes of its caller is proved of `check`;
* for the fuzzer's program, that seeds are 64-bit words, the corpus and the printable bytes are
  sequences, and the counts are numbers (`FuzzAssumption`).

*Types and bounds.* `TypeOK` is not inductive: a write at `u` stays in the buffer
only if `u` is below its end. `TypeInv` adds `Cursor`. Its core is
`u + Lag < p`: each iteration that writes also reads, except the one that
processes a decoded byte, and by then two more bytes have been read than written
(`Lag` is 1 and 2 inside an escape). `OutputFits` is its consequence.

*Normal paths.* `PathIsNormal` speaks of the end of the call; the invariant must
say what holds before. `PathInv` is `TypeInv` with

* `ScanInv`: as long as stage 1 has set no flag, what it has scanned of the path
  has no NUL and no slash before a slash or a dot, and its state tells whether
  the last byte is a slash. This is what makes a borrowed path normal.
* `OutputInv`: in stage 2 the buffer up to `u` starts with a slash and has no
  *closed* dot segment, no empty one when merging, and no NUL; the end of the
  buffer, which may be an open `/.` or `/..`, is what `Resume` (the state, or
  `quoted_state` inside an escape) says. `StateTellsOutput` is a part of it. It is
  preserved by the backwards scan because a prefix that ends with a slash is
  closed.
* `ReturnInv`: between the end of a stage and the return, the same of the path.

*Progress.* `StepsProgress` follows from `TypeInv` alone: twice the bytes
left to read, plus one in the second digit of an escape, goes down with every step
of a stage. A step that reads moves `p` forward; the one that does not, which
processes a decoded byte, leaves the second digit for the saved state.

*The extension.* `ExtensionInv` says what `uri_ext` means before the end of the
path: the open segment is a name (`Resume` is `Usual`), `uri_ext` follows one of
its dots, and no slash or dot was written since. A path that ends with a dot
segment therefore has no extension to cut short, and the subtraction in
`finish_done` is of a smaller number from a larger.

*Plus signs.* `PlusInv`: while `plus_in_uri` is unset, stage 1 has passed no plus
in the path and stage 2 has written none. It rests on `PathInv`, since a borrowed
path is as long as what stage 1 has scanned.

*The query.* `QueryInv` follows the first `?` through the three places that may
find it. Stage 1 has seen no `?` or `#`, or one `?` and no `#` since. Stage 2 has
passed neither, and the byte in hand is the target's or neither of the two is a
mark: an escaped `?` never ends a path. At the return, the slice that
`parsed_args` takes is the one `QueryIsExact` defines from the target.

*The pointers of the reference.* `WrapperInv` types the request structure and the
locals and adds three bounds. The state of stage 2, or `quoted_state` inside an
escape, gives the least number of bytes before `u` (`Least`: three for
`sw_dot_dot`), so `u -= 4` leaves `u` at -1 or above, and the loop after it stops
there. `u + Lag < p` as in the port. All bytes below `u` are `Written`, also after
a step back, so the scan and the reply read none that `malloc` left. Unlike the
port's proof it need not know that the scan finds a slash: where there is none
the C code refuses.

*The reference is the port.* `NextPort` shows of each action of the reference that it
maps to a step of `Port!Next` or leaves the port's variables alone. The invariant
`PortInv` is `WrapperInv` with `HistoryInv`, which says what the mapping needs of
the loops the port takes in one step: inside a run of usual bytes `run` is its
end and all bytes up to it are usual; between `break` and the reply, `left` is the
`p` and `u` with which the port left its loop, and what the loop has scanned since
leads from there to where it is (`u` has passed only bytes other than a slash, `p`
only bytes other than a `#`); the fields that `ngx_memzero` cleared are still clear
until their one assignment. In these loops the reference stutters, and where one
ends the port takes its step: `PathEnds` and `FinishArgs` of the port are computed
from `left`. The history variables are assigned from the step and read by no
action, so they change nothing about the reference.

*The reply.* `Replying` says of `pc = "reply"` that the path is either the first
`uri.len` bytes of the input or lies in `nbuf` with all of them written. The bytes
copied are then those of `Port!Path`, which is a slice of the target or of the
zeroed buffer.

*From the port to the reference.* A step that maps to a step of the port keeps every
invariant of the port, read through the mapping. `OneToOne_proofs` instantiates
`Result_proofs` with the mapping, proves its assumptions from those of the reference,
and cites the lemmas that `PathInv` and `QueryInv` are inductive (`PortInvariants`).
Nothing about segments, dots or queries is proved again of the C code: that its path
is normal and its query exact follows from `ReferenceIsPort`, `ReplyIsPath` and the
theorems about the port.

*The fuzzer's verdict.* `Agreement` compares a call of the port with one of the
reference that is over. Three facts lead to it. A step of the port is a function of
the state it is taken in (`NextStep`: `Now' = Step(Now)`, where `Now` is the state as
a record), since for every byte and state the guards leave one action. A step of
the reference is that same function applied to the state it stands for, or leaves
it alone (`NextHist`, which is `ReferenceIsPort` with `NextStep` read through the
mapping). So the states in `seen` are a run of `Step` from the first state to the
one the reference stands for now (`OneRun`), and the port, which starts in the
first, can leave `seen` nowhere: `Retraces` is inductive together with `OneRun`.
When both have returned, the port is in a state of `seen` that has no successor,
and the only one is the last (`SameEnd`); that state tells the path, the query,
the flags and the extension, and equality of results follows (`BothAgree`). The
theorems are about `ReplaySpec`, which is `CheckSpec` with the history variables and
which the run `agree` checks. `RequestsAlwaysAgree` also carries the theorems about the
port's extension and plus flag over to the reference.

*The stack of segments.* `StackInv` is `PathInv` with the fact that the buffer exists
from the call of stage 2 on. The lemmas are about pure buffers: a slash has a rank
among the slashes below it (`Count`), ranks are distinct and without gaps, so
`SlashAt` is defined. Writing a byte other than a slash extends the open segment
(`PutByte`), a slash closes it (`PutSlash`). A step back to `n`, where a slash lies
at `n - 1`, leaves the closed segments up to that slash: for `u` at the end of `/..`
this drops the dots and one closed segment. The scan finds the nearest slash, by the
least-number principle, and finds none (`PathEnds` is empty) exactly if one segment
is closed, which is where the stack is refused. The proof needs `OutputInv` to know
that the bytes before `u` are the dots that `state` claims.

*The round trip.* `PathSurvives` is about two calls, joined by an encoder that is a
concatenation of pieces. `TargetEncodes` turns the concatenation into offsets: with
`off[k]` the place in the target where byte `k` of the path begins, the target holds
there that byte or the three bytes of its escape, and nothing else lies between
(`Encoding`; `Pieces` is an induction on the number of pieces, by the least-number
principle). The offsets are a witness that the invariant `TripInv` quantifies over,
and `Run` says where the second call is in them: stage 1 meets no `?` or `#` and
skips stage 2 only if no byte was escaped; stage 2 has written the first `u` bytes of
the path, and holds in an unquoted state either the first byte that stands for byte
`u` (`Fetched`) or byte `u` itself (`Unescaped`), and inside an escape the digit of it
that the state names. That it drops nothing is due to the first call: its path is
normal (`SentNormal`, from `ReturnsNormal`), so the state, which tells the end of the
buffer, never finds a slash or the end of the path where a segment of dots would be
resolved or a slash merged. The theorem needs no assumption of its own: `Forward`
is enabled only if the encoded path is no longer than a slice may be.

*The generator.* `RngInv` adds that the state is a word of 64 bits. `x ^= x >> k`
gives 0 only if `x` equals its own shift, so a bit of `x` needs another one `k`
places away; for `k` of at least 12, six of them leave the word. Hence no step
reaches 0 from a state other than 0 or leaves it.

*Exhaustive sweeps.* `LoopInv` says of each phase that all targets below its counters
were compared with both values of `merge_slashes`, that a divergence left `main`
at once, and that earlier phases are complete. What remains is that the numbers
below `Total` are all suffixes: the odometer is onto, since a suffix with one more
digit is the number of the rest times the base plus the digit, and the division
takes it apart again (`NextDigit`). A sweep's suffix has at most four bytes, so the
step is taken once for each width.

Each proof has a step per action, and lemmas for the parts that actions share.

*Layout.* Facts about sequences (`Len(target)`, reads of `target`) are isolated
in a few lemmas (`ReadType`, `ReadStable`, `OffsetFits`), and `uri_end` and `At`
stay unexpanded elsewhere: the SMT encoding is not to be trusted where sequences
and 0-based arrays such as `out` occur in one obligation, so none has both.

*Only model-checked*:

* `Termination`, `PortReturns` and `Verdict`: liveness is out of the prover's reach.
* `MatchesNormalization`: the definition it compares with folds over the segments of
  the decoded target, and what that computes for every input needs an induction over
  data. `BufferIsStack`, `PathsAreNormal` and `QueriesAreExact` prove most of what it
  says, by other means.
* `EscapeSetsAgree`, `BenchRuns` and `CasesExercise`: 256 bytes and four inputs, which
  the runs cover in full.

## 7. Findings

Four statements of the repository that the code does not keep. None of them
concerns what the parser accepts or returns.

* README.md 28-29 and the documentation of `Parsed` say that a path is allocated
  only when its bytes differ. Any `.` or `/` after a slash starts stage 2, whose
  result is owned even if it is the input: `//` without merging, `/.a`
  (`allocation`).
* The comment at `lib.rs` 152 lists `"` among the bytes its word excludes; the bit
  is set (`usual_table`). nginx has the same word.
* `nginx_url.c` 809 documents -1 as a rejection by nginx; it is also the answer
  to a failed `malloc`, which the fuzzer then reports as a divergence (`memory`).
* `fuzz/src/main.rs` 3-5 says that each generated input is run with both values of
  `merge_slashes`; the random phase draws one value per input (`both_merge`). The
  corpora and the sweeps do take both, as `SuccessIsExhaustive` shows.

Two remarks. The comment in `finish_done` says that the subtraction may wrap;
`ExtensionInsidePath` shows that it does not, in the port or (`RequestsAgree`)
in C. The backwards scan of the port has two error branches: the second, of
`rposition`, is never taken, because the buffer always starts with a slash.

## 8. Not modelled

* The fuzzer's report of a divergence, its usage message and what it prints on
  success; the parsing of its arguments, whose values are constants of `FuzzMain`.
* The benchmark's clock, its throughput figures and their output.
* `selftest.c` and the unit tests of `lib.rs`: examples, whose shapes the sets of
  targets contain.
* `extract.sh`, build scripts, CI: downloading and text processing.
* `NGX_WIN32` branches, `empty_path_in_uri`, the types of `ngx_escape_uri` other
  than `NGX_ESCAPE_URI`: not compiled, never set, never passed.
* Integer widths other than the wrapping subtraction: all other arithmetic is on
  offsets that `TypeCorrect` and `OutputAlwaysFits` bound by the length of a slice.

## 9. Plan

Done, in this order: `Bytes`, `Request`, the two stages, `OriginForm`,
`Normalization` and their runs; the theorems on types and normal paths; the
reference, the comparison and the refinement; encoding; the stack of segments;
the fuzzer's program and the benchmark; the theorems on progress, the extension,
plus signs, the query, the pointers of the reference and the generator; the
theorems on the refinement of the port by the reference, on the reply, on the
stack of segments and on the fuzzer's exit code; those about the port's path
and query, carried over to the reference; those on the fuzzer's verdict; and the
one on the round trip.

Next:

1. `MatchesNormalization` as a theorem, by way of `SegmentStack`: its stack is the
   fold over the segments that are closed so far.
