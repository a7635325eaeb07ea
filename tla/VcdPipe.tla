------------------------------ MODULE VcdPipe -------------------------------
(***************************************************************************)
(* What one engine promises to its user, whatever the mode: it is a        *)
(* reliable FIFO pipe of bytes.  A byte that comes out went in, in the     *)
(* same place; a pipe that says it is finished has delivered every byte it *)
(* accepted; a pipe that failed, finished or was released says nothing     *)
(* more.  Bytes stand for the positions of the input stream, so "comes     *)
(* out" means that the output produced so far covers that input.           *)
(***************************************************************************)
EXTENDS Integers, Sequences, SequencesExt

CONSTANT Byte       \* the input bytes, told apart by their position

VARIABLES
    accepted,       \* every byte taken from the writer, in order
    delivered,      \* every byte whose output was handed back, in order
    status          \* "open", "finished", "failed" or "released"

vars == <<accepted, delivered, status>>

Statuses == {"open", "finished", "failed", "released"}

TypeOK ==
    /\ accepted \in Seq(Byte)
    /\ delivered \in Seq(Byte)
    /\ status \in Statuses

Init ==
    /\ accepted = <<>>
    /\ delivered = <<>>
    /\ status = "open"

-----------------------------------------------------------------------------

\* The writer hands over one more chunk.
Accept ==
    /\ status = "open"
    /\ accepted' \in Seq(Byte)
    /\ IsPrefix(accepted, accepted')
    /\ UNCHANGED <<delivered, status>>

\* The reader gets the next bytes: what was delivered only grows, and is
\* always an initial segment of what was accepted.
Deliver ==
    /\ status = "open"
    /\ delivered' \in Seq(Byte)
    /\ IsPrefix(delivered, delivered')
    /\ IsPrefix(delivered', accepted)
    /\ UNCHANGED <<accepted, status>>

\* The last bytes come out together with the end of the stream; a one-shot
\* engine is released at the same time.
Finish ==
    /\ status = "open"
    /\ delivered' = accepted
    /\ status' \in {"finished", "released"}
    /\ UNCHANGED accepted

Fail ==
    /\ status = "open"
    /\ status' = "failed"
    /\ UNCHANGED <<accepted, delivered>>

Release ==
    /\ status' = "released"
    /\ UNCHANGED <<accepted, delivered>>

Next == Accept \/ Deliver \/ Finish \/ Fail \/ Release

Spec == Init /\ [][Next]_vars
=============================================================================
