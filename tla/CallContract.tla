---------------------------- MODULE CallContract ----------------------------
(***************************************************************************)
(* What one call of the SDK promises its caller, whatever happens on the   *)
(* network.  A call takes effect at the API at most once.  It ends with a  *)
(* verdict:                                                                *)
(*                                                                         *)
(*   done     the API has processed the request                            *)
(*   refused  the API has not processed it and never will                  *)
(*   unknown  the caller cannot tell, and it may still happen later        *)
(*                                                                         *)
(* Requests.tla is shown to implement this.                                *)
(***************************************************************************)
EXTENDS Naturals, Sequences

CONSTANT Calls

VARIABLES verdict, \* per call: idle, pending, done, refused or unknown
          history  \* the calls in the order in which they took effect

vars == <<verdict, history>>

Effective == {history[i] : i \in DOMAIN history}

Init == /\ verdict = [c \in Calls |-> "idle"]
        /\ history = <<>>

Begin(c) == /\ verdict[c] = "idle"
            /\ verdict' = [verdict EXCEPT ![c] = "pending"]
            /\ UNCHANGED history

(* The one effect of a call.  An unknown call may still have it.           *)
TakeEffect(c) == /\ verdict[c] \in {"pending", "unknown"}
                 /\ c \notin Effective
                 /\ history' = Append(history, c)
                 /\ UNCHANGED verdict

End(c, v) == /\ verdict[c] = "pending"
             /\ v = "done" => c \in Effective
             /\ v = "refused" => c \notin Effective
             /\ verdict' = [verdict EXCEPT ![c] = v]
             /\ UNCHANGED history

Next == \E c \in Calls :
           \/ Begin(c)
           \/ TakeEffect(c)
           \/ \E v \in {"done", "refused", "unknown"} : End(c, v)

Spec == Init /\ [][Next]_vars
=============================================================================
