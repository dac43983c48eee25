------------------------------- MODULE RunLife -------------------------------
(***************************************************************************)
(* What becomes of a run that is dispatched per host, and of its rows, as  *)
(* those who asked for it see it: a run goes from one end of its life to   *)
(* the other and never back, though how it ended may be written over; its  *)
(* rows come into being all together, when it opens; each row waits, works *)
(* and is over, or is over without ever having worked, as it is when the   *)
(* run is cancelled before the row started.                                *)
(*                                                                         *)
(* Both HostQueue, with its locks and many runs, and Orchestrator, with    *)
(* its batches and heartbeats of one, implement this.                      *)
(***************************************************************************)
CONSTANTS
  Run,    \* runs
  Row,    \* rows: one per host of a run
  RowRun  \* the run of a row

VARIABLES
  run,    \* "none", "queued", "open", "ended" or "cancelled"
  row     \* "none", "waiting", "working" or "over"

TypeOK ==
  /\ run \in [Run -> {"none", "queued", "open", "ended", "cancelled"}]
  /\ row \in [Row -> {"none", "waiting", "working", "over"}]

Init ==
  /\ run \in [Run -> {"none", "queued"}]
  /\ row = [w \in Row |-> "none"]

Rows(r) == { w \in Row : RowRun[w] = r }
Waiting(r) == { w \in Rows(r) : row[w] = "waiting" }

\* Rows become what they are to be, a run or not with them.
Moved(S, to) == [w \in Row |-> IF w \in S THEN to ELSE row[w]]

Submit(r) ==
  /\ run[r] = "none"
  /\ run' = [run EXCEPT ![r] = "queued"]
  /\ UNCHANGED row

Open(r) ==
  /\ run[r] = "queued"
  /\ \A w \in Rows(r) : row[w] = "none"
  /\ run' = [run EXCEPT ![r] = "open"]
  /\ row' = Moved(Rows(r), "waiting")

\* A run that ends may give up some of its rows, and leave others to start yet.
End(r) ==
  /\ run[r] # "none"
  /\ run' = [run EXCEPT ![r] = "ended"]
  /\ \E S \in SUBSET Waiting(r) : row' = Moved(S, "over")

\* A run that is cancelled gives up all of them.
Cancel(r) ==
  /\ run[r] # "none"
  /\ run' = [run EXCEPT ![r] = "cancelled"]
  /\ row' = Moved(Waiting(r), "over")

Start(w) ==
  /\ row[w] = "waiting"
  /\ run[RowRun[w]] \in {"open", "ended"}
  /\ row' = [row EXCEPT ![w] = "working"]
  /\ UNCHANGED run

GiveUp(w) ==
  /\ row[w] = "waiting"
  /\ row' = [row EXCEPT ![w] = "over"]
  /\ UNCHANGED run

Finish(w) ==
  /\ row[w] = "working"
  /\ row' = [row EXCEPT ![w] = "over"]
  /\ UNCHANGED run

Next ==
  \/ \E r \in Run : Submit(r) \/ Open(r) \/ End(r) \/ Cancel(r)
  \/ \E w \in Row : Start(w) \/ GiveUp(w) \/ Finish(w)

Spec == Init /\ [][Next]_<<run, row>>

\* What follows: an open run has all of its rows, a run that is not open yet
\* none, and what waits can still start.
RowsFollowRun ==
  \A w \in Row :
    LET r == RowRun[w] IN
    /\ run[r] = "open" => row[w] # "none"
    /\ run[r] \in {"none", "queued"} => row[w] = "none"
    /\ row[w] = "waiting" => run[r] \in {"open", "ended"}
=============================================================================
