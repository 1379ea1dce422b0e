------------------------- MODULE DocumentLifecycle -------------------------
(***************************************************************************)
(* What backend/documents promises of a document, whoever acts and         *)
(* whatever fails on the way: its texts become active one by one, in the   *)
(* order in which they were accepted; one at a time is on its way, and the *)
(* one before stays active until then; what has been active is never       *)
(* rewritten; and only a document with nothing on its way is deleted.      *)
(***************************************************************************)
EXTENDS Sequences

CONSTANTS Docs, TextsOf

VARIABLES
    history,  \* the texts that have been active; the last of them is so now
    coming,   \* those accepted since
    phase

Init ==
    /\ history = [d \in Docs |-> << >>]
    /\ coming = [d \in Docs |-> << >>]
    /\ phase = [d \in Docs |-> "PRESENT"]

\* create and add_revision, with the job that is to index the text.
Accept(d, text) ==
    /\ phase[d] = "PRESENT"
    /\ coming[d] = << >>
    /\ coming' = [coming EXCEPT ![d] = <<text>>]
    /\ UNCHANGED <<history, phase>>

\* The first revision becomes READY, or a replacement is completed.
Activate(d) ==
    /\ phase[d] = "PRESENT"
    /\ coming[d] # << >>
    /\ history' = [history EXCEPT ![d] = @ \o coming[d]]
    /\ coming' = [coming EXCEPT ![d] = << >>]
    /\ UNCHANGED phase

\* READY -> DELETING.
Withdraw(d) ==
    /\ phase[d] = "PRESENT"
    /\ coming[d] = << >> /\ history[d] # << >>
    /\ phase' = [phase EXCEPT ![d] = "DELETING"]
    /\ UNCHANGED <<history, coming>>

\* complete_deletion_for_job.
Remove(d) ==
    /\ phase[d] = "DELETING"
    /\ phase' = [phase EXCEPT ![d] = "DELETED"]
    /\ UNCHANGED <<history, coming>>

Moves(d) ==
    \/ \E text \in TextsOf[d] : Accept(d, text)
    \/ Activate(d)
    \/ Withdraw(d)
    \/ Remove(d)

Next == \E d \in Docs : Moves(d)

Spec == Init /\ [][Next]_<<history, coming, phase>>
=============================================================================
