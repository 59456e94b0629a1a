----------------------------- MODULE Subprocess -----------------------------
(***************************************************************************)
(* _run_with_output of metadata/source.py: a build runs in a subprocess    *)
(* whose output a helper thread, the shoveler, reads from a pipe while the *)
(* caller polls for the end of the subprocess or of the timeout.           *)
(*                                                                         *)
(* A subprocess may have children of its own that outlive it: some have    *)
(* inherited the write end of the pipe, others write to an output of their *)
(* own (the backend that pip runs).  Output is counted in chunks.          *)
(***************************************************************************)
EXTENDS Naturals

CONSTANTS
  Thread,   \* threads that may start a subprocess
  Chunks,   \* bound on the chunks a subprocess writes
  Lingers   \* may children outlive the subprocess?
ASSUME SubprocessAssumption == Chunks \in Nat /\ Lingers \in BOOLEAN

VARIABLE proc   \* thread -> its last call of _run_with_output

Orphans == IF Lingers THEN {"pipe", "apart"} ELSE {}
NoCall == [call |-> "none", child |-> "none", orphans |-> {}, late |-> FALSE,
           written |-> 0, read |-> 0, shoveler |-> "none"]
Calls == [call : {"none", "polling", "joining", "output", "error"},
          child : {"none", "running", "ok", "failed", "killed"},
          orphans : SUBSET Orphans, late : BOOLEAN, written : 0..Chunks,
          read : 0..Chunks, shoveler : {"none", "reading", "ended"}]

InitSubprocess == proc = [t \in Thread |-> NoCall]

(* Popen, and the shoveler started; children of the last subprocess that   *)
(* have their own output do not end with its call. *)
Popen(t) ==
  proc' = [proc EXCEPT ![t] = [NoCall EXCEPT !.call = "polling", !.child = "running",
                                             !.orphans = proc[t].orphans \ {"pipe"},
                                             !.shoveler = "reading"]]
Answered(t) == proc[t].call \in {"output", "error"}
HasOutput(t) == proc[t].call = "output"
Collected(t) == proc' = [proc EXCEPT ![t] = NoCall]
HoldsPipe(p) == p.child = "running" \/ "pipe" \in p.orphans

-----------------------------------------------------------------------------
(* The subprocess, its children and the clock *)

Writes(t) == /\ HoldsPipe(proc[t])
             /\ proc[t].written < Chunks
             /\ proc' = [proc EXCEPT ![t].written = @ + 1]

Exits(t) ==
  /\ proc[t].child = "running"
  /\ \E end \in {"ok", "failed"}, left \in SUBSET Orphans :
       proc' = [proc EXCEPT ![t].child = end, ![t].orphans = @ \cup left]

OrphanEnds(t, o) == /\ o \in proc[t].orphans
                    /\ proc' = [proc EXCEPT ![t].orphans = @ \ {o}]

TimePasses(t) == /\ proc[t].call = "polling"
                 /\ ~proc[t].late
                 /\ proc' = [proc EXCEPT ![t].late = TRUE]

-----------------------------------------------------------------------------
(* The shoveler reads until the pipe has no writer left. *)

Shovel(t) == /\ proc[t].shoveler = "reading"
             /\ proc[t].read < proc[t].written
             /\ proc' = [proc EXCEPT ![t].read = @ + 1]

ShovelEnds(t) == /\ proc[t].shoveler = "reading"
                 /\ proc[t].read = proc[t].written
                 /\ ~HoldsPipe(proc[t])
                 /\ proc' = [proc EXCEPT ![t].shoveler = "ended"]

-----------------------------------------------------------------------------
(* Mutant: the loop waits for the subprocess only. *)
NeverTime(t) == FALSE
TimeIsUp(t) == proc[t].late

(* The polling loop ends when the subprocess did or time is up; a          *)
(* subprocess still running then is killed, and nobody looks for the       *)
(* children it leaves. *)
PollEnds(t) ==
  /\ proc[t].call = "polling"
  /\ \/ /\ proc[t].child # "running"
        /\ proc' = [proc EXCEPT ![t].call = "joining"]
     \/ /\ proc[t].child = "running" /\ TimeIsUp(t)
        /\ \E left \in SUBSET Orphans :
             proc' = [proc EXCEPT ![t].call = "joining", ![t].child = "killed",
                                  ![t].orphans = @ \cup left]

(* Mutant: the join gives up when the subprocess failed. *)
JoinGivesUp(t) == proc[t].shoveler = "ended" \/ proc[t].child # "ok"

(* output_shoveler.join() has no timeout. *)
MayJoin(t) == proc[t].shoveler = "ended"
Joined(t) ==
  /\ proc[t].call = "joining"
  /\ MayJoin(t)
  /\ proc' = [proc EXCEPT ![t].call = IF proc[t].child = "ok" THEN "output" ELSE "error"]

-----------------------------------------------------------------------------
Environment(t) == Writes(t) \/ Exits(t) \/ \E o \in Orphans : OrphanEnds(t, o)
Caller(t) == PollEnds(t) \/ Joined(t)
Shoveler(t) == Shovel(t) \/ ShovelEnds(t)
SubprocessStep(t) == Environment(t) \/ TimePasses(t) \/ Shoveler(t) \/ Caller(t)

SubprocessNext == \E t \in Thread : (proc[t] = NoCall /\ Popen(t)) \/ SubprocessStep(t)
(* The clock and the threads of this process run on; a subprocess and its  *)
(* children may go on for ever. *)
SubprocessFairness == \A t \in Thread : /\ WF_proc(TimePasses(t))
                                        /\ WF_proc(Shoveler(t))
                                        /\ WF_proc(Caller(t))
(* What ends every call: that children which hold the pipe end too.        *)
OrphansEnd == \A t \in Thread : WF_proc(OrphanEnds(t, "pipe"))
SubprocessSpec == InitSubprocess /\ [][SubprocessNext]_proc /\ SubprocessFairness

-----------------------------------------------------------------------------
(* A call answers only when its subprocess has ended and everything that   *)
(* it and the children that inherited the pipe wrote has been read: no     *)
(* error is reported with half of its output.  A child with an output of   *)
(* its own is not waited for and may go on (see WheelBuilt). *)
OutputComplete ==
  \A t \in Thread :
    Answered(t) => ~HoldsPipe(proc[t]) /\ proc[t].read = proc[t].written

(* "After this timeout is exhausted, the subprocess will be killed and an  *)
(* exception raise" (the docstring of _run_with_output): where the         *)
(* subprocess was killed, the call comes to its end with an error. *)
TimeoutAnswers ==
  \A t \in Thread : proc[t].child = "killed" ~> proc[t].call = "error"

=============================================================================
