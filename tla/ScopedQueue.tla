---------------------------- MODULE ScopedQueue ----------------------------
(***************************************************************************)
(* What the job queue promises, without leases, clocks, attempts, webhooks *)
(* or workers: jobs of one scope run one at a time and in the order they   *)
(* were submitted, a job that stopped running either waits for another try *)
(* or is settled for good, and nothing that is settled changes again.      *)
(***************************************************************************)
EXTENDS Naturals, Sequences

CONSTANT Scopes

VARIABLE board      \* the submitted jobs, oldest first

Waiting == "queued"
Running == "running"
Outcomes == {"succeeded", "failed", "dead", "cancelled", "superseded"}

Entry == [scope : Scopes, status : {Waiting, Running} \cup Outcomes]

Init == board = <<>>

\* What may happen to one job in one step.
Moves(before, after) ==
    /\ after.scope = before.scope
    /\ \/ after.status = before.status
       \/ before.status = Waiting /\ after.status = Running
       \/ before.status = Waiting /\ after.status \in {"cancelled", "superseded"}
       \/ before.status = Running /\ after.status = Waiting
       \/ before.status = Running /\ after.status \in Outcomes \ {"cancelled"}

\* Job j may start: every older job of its scope is settled, none is running.
MayStart(b, j) ==
    \A i \in DOMAIN b :
        b[i].scope = b[j].scope /\ i # j =>
            /\ b[i].status # Running
            /\ i < j => b[i].status \in Outcomes

\* Any number of jobs settle or give up their turn, at most one starts.
Advance ==
    /\ DOMAIN board' = DOMAIN board
    /\ \A j \in DOMAIN board : Moves(board[j], board'[j])
    /\ \A j \in DOMAIN board :
          board[j].status # Running /\ board'[j].status = Running => MayStart(board', j)

\* A job joins the end of the queue and may displace waiting ones of its scope.
Submit ==
    /\ Len(board') = Len(board) + 1
    /\ board'[Len(board) + 1].status = Waiting
    /\ \A j \in DOMAIN board :
          \/ board'[j] = board[j]
          \/ /\ board[j].status = Waiting
             /\ board[j].scope = board'[Len(board) + 1].scope
             /\ board'[j] = [board[j] EXCEPT !.status = "superseded"]

Next == Advance \/ Submit

Spec == Init /\ [][Next]_board
=============================================================================
