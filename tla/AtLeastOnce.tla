---------------------------- MODULE AtLeastOnce ----------------------------
(***************************************************************************)
(* What a standard SQS queue with a redrive policy (sqs.tf) and the        *)
(* program that handles its messages promise together.  A message is       *)
(* received again until it is deleted, Limit times at most; it is deleted  *)
(* by a receiver only, once its work is done, and goes to the dead-letter  *)
(* queue only when its receives are used up; either is for good.           *)
(***************************************************************************)
EXTENDS Naturals

CONSTANT Limit   \* maxReceiveCount

VARIABLES
  queue,     \* [msg, n]: the messages on the queue, with their receive count
  deleted,   \* the messages deleted
  buried,    \* the messages on the dead-letter queue
  worked     \* what the messages ask for is done: which ones, for ever

deliveryVars == <<queue, deleted, buried, worked>>

Known == {e.msg : e \in queue} \cup deleted \cup buried

Init == queue = {} /\ deleted = {} /\ buried = {} /\ worked = {}

Send ==
  /\ \E e \in queue' : /\ e = [msg |-> e.msg, n |-> 0] /\ e.msg \notin Known
                       /\ queue' = queue \cup {e}
  /\ UNCHANGED <<deleted, buried>>

Receive(e) ==
  /\ e.n < Limit
  /\ queue' = (queue \ {e}) \cup {[e EXCEPT !.n = @ + 1]}
  /\ UNCHANGED <<deleted, buried>>

Delete(e) ==
  /\ e.n > 0 /\ e.msg \in worked
  /\ queue' = queue \ {e} /\ deleted' = deleted \cup {e.msg}
  /\ UNCHANGED buried

Bury(e) ==
  /\ e.n = Limit
  /\ queue' = queue \ {e} /\ buried' = buried \cup {e.msg}
  /\ UNCHANGED deleted

\* Work is done at any moment, by whomever, and not undone.
Next ==
  /\ worked \subseteq worked'
  /\ \/ Send
     \/ \E e \in queue : Receive(e) \/ Delete(e) \/ Bury(e)
     \/ UNCHANGED <<queue, deleted, buried>>

Spec == Init /\ [][Next]_deliveryVars
=============================================================================
