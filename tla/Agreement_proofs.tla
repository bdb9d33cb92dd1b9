-------------------------- MODULE Agreement_proofs --------------------------
(***************************************************************************)
(* Theorem: whatever the target, check of the fuzzer finds no divergence.  *)
(* The port goes through the states that the reference has stood for,      *)
(* since a state of the port leaves it no choice, and so it ends where the *)
(* reference ended.                                                        *)
(***************************************************************************)
EXTENDS Replay, Result_proofs

P == INSTANCE OneToOne_proofs WITH
       Inputs <- Targets, OutCaps <- Capacity, MallocMayFail <- FALSE,
       in <- target, out_cap <- uri_end + 1,
       pc <- c_pc, r <- c_r, state <- c_state, p <- c_p, ch <- c_ch,
       decoded <- c_decoded, quoted_state <- c_quoted_state, u <- c_u,
       nbuf <- c_nbuf, rc <- c_rc, reply <- c_reply

(* The fuzzer is a caller that OneToOne speaks of.                         *)
LEMMA CallerAssumptions ==
  /\ P!InputsAssumption /\ P!NullAssumption /\ P!CapsAssumption
  /\ P!RoomAssumption /\ P!MemoryAssumption /\ P!UsizeAssumption /\ P!NoneAssumption
<1>1. \A i \in Targets : Len(i) \in Nat
  BY TargetsAssumption
<1>2. P!InputsAssumption
  BY TargetsAssumption DEF P!InputsAssumption, P!Byte, Byte
<1>3. P!NullAssumption /\ P!NoneAssumption
  BY NullsAssumption DEF P!NullAssumption, P!NoneAssumption
<1>4. P!CapsAssumption /\ P!RoomAssumption
  BY <1>1 DEF P!CapsAssumption, P!RoomAssumption, Capacity
<1>5. P!MemoryAssumption /\ P!UsizeAssumption
  BY UsizeAssumption DEF P!MemoryAssumption, P!UsizeAssumption
<1> QED BY <1>2, <1>3, <1>4, <1>5

LEMMA ReferenceRuns ==
  /\ P!HistInit => P!HistInv /\ P!Port!Now = P!Proved!Begin(target, merge_slashes)
  /\ P!HistInv /\ [P!HistNext]_(P!hist_vars) =>
       /\ P!HistInv'
       /\ \/ P!Port!Now' = P!Port!Now
          \/ /\ P!Port!Now.pc \notin {"ok", "err"}
             /\ P!Port!Now' = P!Proved!Step(P!Port!Now)
BY CallerAssumptions, P!InputsAssumption, P!NullAssumption, P!CapsAssumption,
   P!RoomAssumption, P!MemoryAssumption, P!UsizeAssumption, P!NoneAssumption,
   P!InitHist, P!NextHist

LEMMA ReferenceReturns ==
  P!HistInv /\ c_pc = "returned" =>
    /\ c_rc \in {0, -1}
    /\ P!port_pc = IF c_rc = 0 THEN "ok" ELSE "err"
    /\ P!Port!Now.pc \in {"ok", "err"}
    /\ c_rc = 0 =>
         /\ c_reply.out = P!Port!Path
         /\ c_reply.args_offset \in Nat /\ c_reply.args_len \in Nat
         /\ c_reply.args_offset + c_reply.args_len <= uri_end
         /\ P!port_args_start = c_r.args_start
         /\ P!Offset(c_r.exten) = IF c_r.exten.data = None
                                  THEN [len |-> 0, data |-> 0] ELSE c_r.exten
BY CallerAssumptions, P!InputsAssumption, P!NullAssumption, P!CapsAssumption,
   P!RoomAssumption, P!MemoryAssumption, P!UsizeAssumption, P!NoneAssumption,
   P!HistReturns, P!SameNow
   DEF P!in_len, uri_end

(***************************************************************************)
(* The instances are of the same definitions.                              *)
(***************************************************************************)
LEMMA SameStep ==
  /\ \A s : P!Proved!Step(s) = Step(s)
  /\ P!Proved!Begin(target, merge_slashes) = Begin(target, merge_slashes)
<1>1. \A s : P!Proved!Step(s) = Step(s)
  BY DEF P!Proved!Answer, Answer, P!Proved!DEL, DEL, P!Proved!DOT, DOT, P!Proved!End, End,
         P!Proved!Finish, Finish, P!Proved!Goto, Goto, P!Proved!HASH, HASH,
         P!Proved!Hashes, Hashes, P!Proved!HexValue, HexValue, P!Proved!IsDigit, IsDigit,
         P!Proved!IsHexDigit, IsHexDigit, P!Proved!IsHexLetter, IsHexLetter,
         P!Proved!Marked, Marked, P!Proved!Normalize, Normalize, P!Proved!On, On,
         P!Proved!OrCaseBit, OrCaseBit, P!Proved!PERCENT, PERCENT, P!Proved!PLUS, PLUS,
         P!Proved!QUESTION, QUESTION, P!Proved!Read, Read, P!Proved!Refusal, Refusal,
         P!Proved!Refused, Refused, P!Proved!RunEnds, RunEnds, P!Proved!SLASH, SLASH,
         P!Proved!SeekArgs, SeekArgs, P!Proved!Set, Set, P!Proved!Step, Step,
         P!Proved!StepCopy, StepCopy, P!Proved!StepEscape, StepEscape, P!Proved!StepInName,
         StepInName, P!Proved!StepOne, StepOne, P!Proved!StepOut, StepOut,
         P!Proved!StepSegment, StepSegment, P!Proved!StepTwo, StepTwo, P!Proved!USUAL,
         USUAL, P!Proved!Unquoted, Unquoted, P!Proved!Word, Word, P!Proved!Write, Write,
         P!Proved!usual, usual, P!Proved!wrapping_sub, wrapping_sub, P!Proved!Of!At, Of!At,
         P!Proved!Of!HASH, Of!HASH, P!Proved!Of!HexValue, Of!HexValue, P!Proved!Of!IsDigit,
         Of!IsDigit, P!Proved!Of!LF, Of!LF, P!Proved!Of!Literals, Of!Literals,
         P!Proved!Of!NeedsNormalization, Of!NeedsNormalization, P!Proved!Of!OrCaseBit,
         Of!OrCaseBit, P!Proved!Of!PERCENT, Of!PERCENT, P!Proved!Of!PathEnds, Of!PathEnds,
         P!Proved!Of!QUESTION, Of!QUESTION, P!Proved!Of!ReadWithLf, Of!ReadWithLf,
         P!Proved!Of!SLASH, Of!SLASH, P!Proved!Of!Scanned, Of!Scanned, P!Proved!Of!Seen,
         Of!Seen, P!Proved!Of!Value, Of!Value, P!Proved!Of!parsed_args, Of!parsed_args,
         P!Proved!Of!uri_end, Of!uri_end
<1>2. P!Proved!Begin(target, merge_slashes) = Begin(target, merge_slashes)
  BY DEF P!Proved!Begin, Begin
<1> QED BY <1>1, <1>2

LEMMA SameMapped ==
  /\ P!Port!Now = Mapped /\ P!Port!Now' = Mapped'
<1>1. P!Port!Now = Mapped
  BY DEF Mapped, P!Port!Now, R!Port!Now, P!InLoop, R!InLoop, P!Normalized, R!Normalized,
         P!Offset, R!Offset, P!Owned, R!Owned, P!StateName, R!StateName, P!Zeroed,
         R!Zeroed, P!in_len, R!in_len, P!port_args, R!port_args, P!port_args_start,
         R!port_args_start, P!port_out, R!port_out, P!port_p, R!port_p, P!port_pc,
         R!port_pc, P!port_result, R!port_result, P!port_u, R!port_u, P!port_uri_len,
         R!port_uri_len
<1>2. (P!Port!Now = Mapped)'
  BY DEF Mapped, P!Port!Now, R!Port!Now, P!InLoop, R!InLoop, P!Normalized, R!Normalized,
         P!Offset, R!Offset, P!Owned, R!Owned, P!StateName, R!StateName, P!Zeroed,
         R!Zeroed, P!in_len, R!in_len, P!port_args, R!port_args, P!port_args_start,
         R!port_args_start, P!port_out, R!port_out, P!port_p, R!port_p, P!port_pc,
         R!port_pc, P!port_result, R!port_result, P!port_u, R!port_u, P!port_uri_len,
         R!port_uri_len
<1> QED BY <1>1, <1>2

LEMMA SameRecords ==
  P!RecordRun = R!RecordRun /\ P!RecordLeft = R!RecordLeft
BY DEF P!CurrentRun, R!CurrentRun, P!High, R!High, P!InLoop, R!InLoop, P!LF, R!LF, P!Low,
       R!Low, P!RecordLeft, R!RecordLeft, P!RecordRun, R!RecordRun, P!RunEnds, R!RunEnds,
       P!Scans, R!Scans, P!Usual, R!Usual, P!UsualMap, R!UsualMap, P!Word, R!Word,
       P!in_len, R!in_len, P!inbuf, R!inbuf

LEMMA SameReferenceNext == P!Next = C!Next
<1>1. /\ P!EmptyInput = C!EmptyInput /\ P!OutOfMemory = C!OutOfMemory
      /\ P!CopyInput = C!CopyInput /\ P!sw_start = C!sw_start
      /\ P!sw_after_slash_in_uri = C!sw_after_slash_in_uri /\ P!sw_check_uri = C!sw_check_uri
      /\ P!sw_uri = C!sw_uri /\ P!ScanError = C!ScanError
      /\ P!KeepPath = C!KeepPath /\ P!EnterComplex = C!EnterComplex
  BY DEF P!Control, C!Control, P!CopyInput, C!CopyInput, P!DOT, C!DOT, P!EmptyInput,
         C!EmptyInput, P!EnterComplex, C!EnterComplex, P!Go, C!Go, P!HASH, C!HASH, P!High,
         C!High, P!KeepPath, C!KeepPath, P!LF, C!LF, P!Low, C!Low, P!OutOfMemory,
         C!OutOfMemory, P!PERCENT, C!PERCENT, P!PLUS, C!PLUS, P!Passes, C!Passes,
         P!QUESTION, C!QUESTION, P!RawLength, C!RawLength, P!Refuse, C!Refuse, P!Return,
         C!Return, P!SLASH, C!SLASH, P!ScanError, C!ScanError, P!Scans, C!Scans, P!Sees,
         C!Sees, P!Simple, C!Simple, P!Usual, C!Usual, P!UsualMap, C!UsualMap, P!With,
         C!With, P!Word, C!Word, P!call, C!call, P!in_len, C!in_len, P!inbuf, C!inbuf,
         P!local2, C!local2, P!sw_after_slash_in_uri, C!sw_after_slash_in_uri,
         P!sw_check_uri, C!sw_check_uri, P!sw_start, C!sw_start, P!sw_uri, C!sw_uri
<1>2. /\ P!sw_usual = C!sw_usual /\ P!sw_slash = C!sw_slash
      /\ P!sw_dot = C!sw_dot /\ P!sw_dot_dot = C!sw_dot_dot
      /\ P!ScanBack = C!ScanBack /\ P!AboveRoot = C!AboveRoot
      /\ P!ParentFound = C!ParentFound /\ P!BeginQuoted = C!BeginQuoted
      /\ P!CopyByte = C!CopyByte
  BY DEF P!AboveRoot, C!AboveRoot, P!Back, C!Back, P!BeginQuoted, C!BeginQuoted, P!Case,
         C!Case, P!CopyByte, C!CopyByte, P!DOT, C!DOT, P!GotoArgs, C!GotoArgs, P!GotoDone,
         C!GotoDone, P!HASH, C!HASH, P!High, C!High, P!LF, C!LF, P!Leave, C!Leave, P!Low,
         C!Low, P!PERCENT, C!PERCENT, P!PLUS, C!PLUS, P!ParentFound, C!ParentFound,
         P!QUESTION, C!QUESTION, P!ReadOn, C!ReadOn, P!Reads, C!Reads, P!Refuse, C!Refuse,
         P!Return, C!Return, P!SLASH, C!SLASH, P!ScanBack, C!ScanBack, P!Switched,
         C!Switched, P!Unquoted, C!Unquoted, P!Usual, C!Usual, P!UsualMap, C!UsualMap,
         P!With, C!With, P!Word, C!Word, P!Write, C!Write, P!call, C!call, P!in_len,
         C!in_len, P!inbuf, C!inbuf, P!local2, C!local2, P!sw_dot, C!sw_dot, P!sw_dot_dot,
         C!sw_dot_dot, P!sw_slash, C!sw_slash, P!sw_usual, C!sw_usual
<1>3. /\ P!sw_quoted = C!sw_quoted /\ P!sw_quoted_second = C!sw_quoted_second
      /\ P!BadEscape = C!BadEscape /\ P!LoopEnds = C!LoopEnds
      /\ P!SeekHash = C!SeekHash /\ P!Done = C!Done
      /\ P!OutTooSmall = C!OutTooSmall /\ P!Reply = C!Reply
  BY DEF P!Args, C!Args, P!Back, C!Back, P!BadEscape, C!BadEscape, P!Decimal, C!Decimal,
         P!Digit, C!Digit, P!Done, C!Done, P!GotoDone, C!GotoDone, P!HASH, C!HASH, P!LF,
         C!LF, P!Leave, C!Leave, P!Letter, C!Letter, P!LoopEnds, C!LoopEnds, P!OrCaseBit,
         C!OrCaseBit, P!OutTooSmall, C!OutTooSmall, P!PERCENT, C!PERCENT, P!PLUS, C!PLUS,
         P!PathByte, C!PathByte, P!QUESTION, C!QUESTION, P!Quoted, C!Quoted, P!ReadOn,
         C!ReadOn, P!Reads, C!Reads, P!Refuse, C!Refuse, P!Reply, C!Reply, P!Return,
         C!Return, P!SeekHash, C!SeekHash, P!Unquoted, C!Unquoted, P!Verbatim, C!Verbatim,
         P!With, C!With, P!Write, C!Write, P!call, C!call, P!in_len, C!in_len, P!inbuf,
         C!inbuf, P!local2, C!local2, P!sw_quoted, C!sw_quoted, P!sw_quoted_second,
         C!sw_quoted_second
<1> QED BY <1>1, <1>2, <1>3 DEF P!Next, C!Next

-----------------------------------------------------------------------------
(***************************************************************************)
(* The states collected are those of the port's one run: it begins with    *)
(* the arguments, and every state but the last is followed by its Step.    *)
(* The last is what the reference stands for now.                          *)
(***************************************************************************)
OneRun ==
  /\ Begin(target, merge_slashes) \in seen /\ Mapped \in seen
  /\ \A s \in seen : s # Mapped => s.pc \notin {"ok", "err"} /\ Step(s) \in seen

ReplayInv ==
  /\ TypeInv /\ P!HistInv /\ OneRun /\ Retraces
  /\ c_pc # "returned" => Now = Begin(target, merge_slashes)

LEMMA InitReplay == ReplayInit => ReplayInv
<1> SUFFICES ASSUME ReplayInit PROVE ReplayInv
  OBVIOUS
<1>1. P!HistInit
  BY DEF ReplayInit, CheckInit, Init, C!Entry, C!Request0, C!in_len, P!HistInit, P!Init,
         P!Entry, P!Request0, P!in_len, Capacity, uri_end
<1>2. P!HistInv /\ Mapped = Begin(target, merge_slashes)
  BY <1>1, ReferenceRuns, SameStep, SameMapped
<1>3. TypeInv /\ Now = Begin(target, merge_slashes)
  BY InitTypeInv, InitBegins DEF ReplayInit, CheckInit
<1> QED BY <1>2, <1>3 DEF ReplayInit, ReplayInv, OneRun, Retraces

LEMMA NextReplay == ReplayInv /\ [ReplayNext]_replay_vars => ReplayInv'
<1> SUFFICES ASSUME ReplayInv, [ReplayNext]_replay_vars PROVE ReplayInv'
  OBVIOUS
<1>1. CASE RecordCParse
  <2>1. UNCHANGED vars /\ c_pc # "returned" /\ P!HistNext
    BY <1>1, SameReferenceNext, SameRecords DEF RecordCParse, CParse, P!HistNext
  <2>2. /\ P!HistInv'
        /\ Mapped' = Mapped \/ (Mapped.pc \notin {"ok", "err"} /\ Mapped' = Step(Mapped))
    BY <2>1, ReferenceRuns, SameMapped, SameStep DEF ReplayInv
  <2>3. seen' = seen \cup {Mapped'}
    BY <1>1 DEF RecordCParse
  <2>4. TypeInv' /\ Now' = Now /\ UNCHANGED << target, merge_slashes >>
    BY <2>1, NextTypeInv DEF ReplayInv, vars, input, flags, marks, fields, locals, Now
  <2>5. Begin(target, merge_slashes)' = Begin(target, merge_slashes)
    BY <2>4 DEF Begin
  <2>6. OneRun'
    BY <2>2, <2>3, <2>5 DEF ReplayInv, OneRun
  <2> QED BY <2>1, <2>2, <2>3, <2>4, <2>5, <2>6 DEF ReplayInv, Retraces
<1>2. ASSUME UNCHANGED << target, merge_slashes, c_vars, run, left, seen >>
      PROVE  P!HistInv' /\ Mapped' = Mapped /\ OneRun'
  <2>1. UNCHANGED P!hist_vars
    BY <1>2 DEF P!hist_vars, P!vars, P!call, P!local2, c_vars, uri_end
  <2>2. Mapped' = Mapped
    BY <1>2 DEF c_vars, uri_end, Mapped, R!Port!Now, R!InLoop, R!Normalized, R!Offset,
                R!Owned, R!StateName, R!Zeroed, R!in_len, R!port_args, R!port_args_start,
                R!port_out, R!port_p, R!port_pc, R!port_result, R!port_u, R!port_uri_len
  <2>3. Begin(target, merge_slashes)' = Begin(target, merge_slashes)
    BY <1>2 DEF Begin
  <2> QED BY <1>2, <2>1, <2>2, <2>3, ReferenceRuns DEF ReplayInv, OneRun
<1>3. CASE RustParse /\ UNCHANGED << run, left, seen >>
  <2>1. UNCHANGED << c_vars, target, merge_slashes >> /\ Next /\ c_pc = "returned"
    BY <1>3, NextKeepsInput DEF RustParse, input
  <2>2. P!HistInv' /\ Mapped' = Mapped /\ OneRun'
    BY <1>2, <1>3, <2>1
  <2>3. TypeInv' /\ Now' = Step(Now) /\ Now.pc \notin {"ok", "err"}
    BY <2>1, NextTypeInv, NextStep, NextRuns DEF ReplayInv, Now
  <2>4. Mapped.pc \in {"ok", "err"}
    BY <2>1, ReferenceReturns, SameMapped DEF ReplayInv
  <2>5. Step(Now) \in seen
    BY <2>3, <2>4 DEF ReplayInv, OneRun, Retraces
  <2> QED BY <1>3, <2>1, <2>2, <2>3, <2>5 DEF ReplayInv, Retraces, c_vars
<1>4. CASE (Check /\ UNCHANGED << run, left, seen >>) \/ UNCHANGED replay_vars
  <2>1. UNCHANGED << vars, c_vars, run, left, seen >>
    BY <1>4 DEF Check, replay_vars, all_vars
  <2>2. UNCHANGED << target, merge_slashes >> /\ TypeInv' /\ Now' = Now
    BY <2>1, NextTypeInv DEF ReplayInv, vars, input, flags, marks, fields, locals, Now
  <2>3. P!HistInv' /\ OneRun'
    BY <1>2, <2>1, <2>2
  <2>4. Begin(target, merge_slashes)' = Begin(target, merge_slashes)
    BY <2>2 DEF Begin
  <2> QED BY <2>1, <2>2, <2>3, <2>4 DEF ReplayInv, Retraces, c_vars
<1> QED BY <1>1, <1>3, <1>4 DEF ReplayNext

-----------------------------------------------------------------------------
(***************************************************************************)
(* When both have returned, the port is in the state the reference stands  *)
(* for: any other one of the run lets the port go on.                      *)
(***************************************************************************)
LEMMA SameEnd ==
  ASSUME ReplayInv, c_pc = "returned", Returned
  PROVE  /\ pc = P!port_pc /\ result = P!port_result /\ out = P!port_out
         /\ complex_uri = c_r.complex_uri /\ quoted_uri = c_r.quoted_uri
         /\ plus_in_uri = c_r.plus_in_uri
         /\ args_start = P!port_args_start /\ uri_ext = c_r.uri_ext
         /\ exten = P!Offset(c_r.exten)
         /\ Path = P!Port!Path
<1>1. Now = P!Port!Now
  BY NowFields, SameMapped DEF ReplayInv, OneRun, Retraces, Returned
<1>2. /\ pc = P!port_pc /\ result = P!port_result /\ out = P!port_out
      /\ args_start = P!port_args_start /\ uri_ext = c_r.uri_ext
      /\ exten = P!Offset(c_r.exten)
  BY <1>1, NowFields DEF P!Port!Now
<1>3. /\ complex_uri = c_r.complex_uri /\ quoted_uri = c_r.quoted_uri
      /\ plus_in_uri = c_r.plus_in_uri
  BY <1>1, NowFields DEF P!Port!Now
<1>4. Path = P!Port!Path
  BY <1>2 DEF Path, PathLen, At, P!Port!Path, P!Port!PathLen, P!Port!At
<1> QED BY <1>2, <1>3, <1>4

LEMMA BothAgree ==
  ASSUME ReplayInv, c_pc = "returned", Returned
  PROVE  CResult # Panic /\ CResult = RustResult
<1>1. /\ c_rc \in {0, -1} /\ pc = IF c_rc = 0 THEN "ok" ELSE "err"
      /\ result = P!port_result
  BY SameEnd, ReferenceReturns DEF ReplayInv
<1>2. CASE c_rc = -1
  BY <1>1, <1>2 DEF CResult, RustResult, Rejected, Panic
<1>3. CASE c_rc = 0
  <2>1. /\ c_reply.out = Path
        /\ c_reply.args_offset \in Nat /\ c_reply.args_len \in Nat
        /\ c_reply.args_offset + c_reply.args_len <= uri_end
    BY <1>3, SameEnd, ReferenceReturns DEF ReplayInv
  <2>2. result.args = IF c_reply.args_present
                      THEN [len |-> c_reply.args_len, data |-> c_reply.args_offset]
                      ELSE None
    BY <1>1, <1>3 DEF P!port_result
  <2>3. c_reply.args_present => result.args # None
    BY <2>1, <2>2, NullsAssumption
  <2>4. RustResult = Result(c_reply.out, IF c_reply.args_present
                              THEN ArgsOf(c_reply.args_len, c_reply.args_offset)
                              ELSE None)
    BY <1>1, <1>3, <2>1, <2>2, <2>3 DEF RustResult
  <2>5. CResult = RustResult
    <3>1. uri_end \in Nat
      BY ReadType DEF ReplayInv, TypeInv, TypeOK
    <3>2. ~(c_reply.args_offset + c_reply.args_len > uri_end)
      BY <2>1, <3>1
    <3> QED BY <1>3, <2>4, <3>2 DEF CResult
  <2>6. RustResult.kind = "some" /\ Panic.kind = "panic"
    BY <2>4 DEF Result, Panic
  <2> QED BY <2>5, <2>6
<1> QED BY <1>1, <1>2, <1>3

(***************************************************************************)
(* The fuzzer finds no divergence, for every target and both values of     *)
(* merge_slashes: check returns true whenever it returns.                  *)
(***************************************************************************)
THEOREM FuzzerAgrees == ReplaySpec => []Agreement
<1>1. ReplayInit => Agreement
  BY DEF ReplayInit, CheckInit, Agreement
<1>2. ReplayInv /\ Agreement /\ [ReplayNext]_replay_vars => Agreement'
  <2> SUFFICES ASSUME ReplayInv, Agreement, [ReplayNext]_replay_vars PROVE Agreement'
    OBVIOUS
  <2>1. CASE Check
    BY <2>1, BothAgree DEF Check, Agreement
  <2>2. CASE UNCHANGED verdict
    BY <2>2 DEF Agreement
  <2> QED
    BY <2>1, <2>2 DEF ReplayNext, RecordCParse, CParse, RustParse, replay_vars, all_vars
<1> QED
  BY <1>1, <1>2, InitReplay, NextReplay, PTL DEF ReplaySpec

(* The port retraces the reference, state by state.                        *)
THEOREM PortRetraces == ReplaySpec => []Retraces
<1>1. ReplayInv => Retraces
  BY DEF ReplayInv
<1> QED
  BY <1>1, InitReplay, NextReplay, PTL DEF ReplaySpec

(***************************************************************************)
(* The request structures agree in what the fuzzer does not compare: the   *)
(* flags, the extension and the start of the query.                        *)
(***************************************************************************)
THEOREM RequestsAlwaysAgree == ReplaySpec => []RequestsAgree
<1>1. ReplayInv => RequestsAgree
  BY SameEnd, ReferenceReturns DEF ReplayInv, RequestsAgree, Returned
<1> QED
  BY <1>1, InitReplay, NextReplay, PTL DEF ReplaySpec
=============================================================================
