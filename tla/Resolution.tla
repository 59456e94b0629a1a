------------------------------ MODULE Resolution ------------------------------
(***************************************************************************)
(* What perform_compile promises, whatever way it searches: the result it  *)
(* returns is a solution of the roots.  It holds one distribution of every *)
(* project that the roots require directly or transitively, with the       *)
(* extras that are asked for, and every distribution is one that all the   *)
(* requirements on it allow.                                               *)
(***************************************************************************)
EXTENDS Requirements

CONSTANT Project

VARIABLES
  asked,    \* the containers the resolution starts from
  limits,   \* requirements that restrict the versions without asking for them
  chosen,   \* project -> the distribution held for it, or None
  verdict   \* "running", "solved" or "failed"

(* A pair <<d, e>> stands for the requirements of distribution d for the   *)
(* extra e (None: those that need no extra). *)
RequirementsOf(p) == {p[1].requires[p[2]][i] : i \in DOMAIN p[1].requires[p[2]]}

(* The pairs that a requirement brings in.                                 *)
Brings(r) == IF r.name \in Project /\ chosen[r.name] # None
             THEN {chosen[r.name]} \X (r.extras \cup {None})
             ELSE {}

(* Everything the roots bring in, directly or transitively. *)
Wanted ==
  LET closure[S \in SUBSET (Dist \X (Extra \cup {None}))] ==
        LET T == S \cup UNION {UNION {Brings(r) : r \in RequirementsOf(p)} : p \in S}
        IN  IF T = S THEN S ELSE closure[T]
  IN  closure[{<<d, None>> : d \in asked}]

IsSolution ==
  \A p \in Wanted :
    /\ \A r \in RequirementsOf(p) :
         /\ r.name \in Project
         /\ chosen[r.name] # None
         /\ Contains(r.spec, chosen[r.name].version)
    /\ \A r \in limits : r.name = p[1].name => Contains(r.spec, p[1].version)

Init == /\ asked \subseteq Dist
        /\ limits \subseteq Req
        /\ chosen = [p \in Project |-> None]
        /\ verdict = "running"

Search == /\ verdict = "running"
          /\ chosen' \in [Project -> Dist \cup {None}]
          /\ \A p \in Project : chosen'[p] # None => chosen'[p].name = p
          /\ UNCHANGED <<asked, limits, verdict>>

Accept == /\ verdict = "running" /\ IsSolution
          /\ verdict' = "solved"
          /\ UNCHANGED <<asked, limits, chosen>>

(* Once it has given up only the report of what was found so far changes. *)
GiveUp == /\ verdict \in {"running", "failed"}
          /\ verdict' = "failed"
          /\ chosen' \in [Project -> Dist \cup {None}]
          /\ UNCHANGED <<asked, limits>>

Next == Search \/ Accept \/ GiveUp
Spec == Init /\ [][Next]_<<asked, limits, chosen, verdict>>
=============================================================================
