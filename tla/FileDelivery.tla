---------------------------- MODULE FileDelivery ----------------------------
(***************************************************************************)
(* What the file transfer of p2put/relayfile.go promises: the file name on *)
(* the receiver holds nothing or one of the files sent, never a part of    *)
(* one; a call of SendFile that reports success saved its file, one that   *)
(* reports cancellation did not, and one that fails may have.              *)
(***************************************************************************)
CONSTANTS Senders, Content, None

VARIABLES
  saved,   \* the content under the final name, or None
  result   \* result[p]: "running", "ok", "failed" or "cancelled"

Init == /\ saved = None
        /\ result = [p \in Senders |-> "running"]

Save(p) == /\ result[p] \in {"running", "failed"}
           /\ saved' = Content[p]
           /\ UNCHANGED result

ReturnFrom(p, r) == /\ result[p] = "running"
                    /\ r = "ok" => saved = Content[p]
                    /\ result' = [result EXCEPT ![p] = r]
                    /\ UNCHANGED saved

Next == \E p \in Senders : \/ Save(p)
                           \/ \E r \in {"ok", "failed", "cancelled"} : ReturnFrom(p, r)

Spec == Init /\ [][Next]_<<saved, result>>

=============================================================================
