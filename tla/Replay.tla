------------------------------- MODULE Replay -------------------------------
(***************************************************************************)
(* The fuzzer's check, with a memory.  While the reference parses the      *)
(* target, the states of the port that its own states stand for are        *)
(* collected; the port, which parses the target after it, goes through     *)
(* them again.  The three variables record the past, are read by no action *)
(* and forbid none.                                                        *)
(***************************************************************************)
EXTENDS Differential

VARIABLES
  run, left,   \* of the refinement of OneToOne
  seen         \* the states of the port the reference's stood for

(* A value that is none of those it is the absence of. *)
ASSUME NullsAssumption ==
  None \notin Int \cup {"inbuf", "nbuf"} \cup [p : Nat, u : Nat] \cup [len : Int, data : Int]

R == INSTANCE OneToOne WITH
       Inputs <- Targets, OutCaps <- Capacity, MallocMayFail <- FALSE,
       in <- target, out_cap <- uri_end + 1,
       pc <- c_pc, r <- c_r, state <- c_state, p <- c_p, ch <- c_ch,
       decoded <- c_decoded, quoted_state <- c_quoted_state, u <- c_u,
       nbuf <- c_nbuf, rc <- c_rc, reply <- c_reply

replay_vars == << all_vars, run, left, seen >>

(* The state of the port that the reference's stands for. *)
Mapped == R!Port!Now

ReplayInit ==
  CheckInit /\ run = None /\ left = None /\ seen = {Mapped}

RecordCParse ==
  CParse /\ R!RecordRun /\ R!RecordLeft /\ seen' = seen \cup {Mapped'}

ReplayNext ==
  \/ RecordCParse
  \/ (RustParse \/ Check) /\ UNCHANGED << run, left, seen >>

ReplaySpec ==
  ReplayInit /\ [][ReplayNext]_replay_vars /\ WF_replay_vars(ReplayNext)
-----------------------------------------------------------------------------
(***************************************************************************)
(* The port retraces the reference: every state it is in, up to its        *)
(* return, is one that the reference has stood for.                        *)
(***************************************************************************)
Retraces == Now \in seen
=============================================================================
