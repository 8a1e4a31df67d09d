---------------------------- MODULE PictureRelay ----------------------------
(***************************************************************************)
(* What the two buffers of a video stream promise: finished pictures go    *)
(* from the worker to the viewer through one place per stream.  What the   *)
(* viewer sees changes only as it takes the picture on offer, which is     *)
(* then no longer there; the worker may take an offer back, and never puts *)
(* one in place of another.  VideoWorker implements this.                  *)
(***************************************************************************)
CONSTANTS Streams, Pictures, Blank, None

VARIABLES
  shown,    \* the picture the viewer of each stream sees
  offered   \* the finished picture it may take, or None

vars == <<shown, offered>>

Init == shown = [s \in Streams |-> Blank] /\ offered = [s \in Streams |-> None]

Offer(s, p) ==
  /\ offered[s] = None
  /\ offered' = [offered EXCEPT ![s] = p]
  /\ UNCHANGED shown

Withdraw(s) ==
  /\ offered' = [offered EXCEPT ![s] = None]
  /\ UNCHANGED shown

Take(s) ==
  /\ offered[s] # None
  /\ shown' = [shown EXCEPT ![s] = offered[s]]
  /\ offered' = [offered EXCEPT ![s] = None]

(* A new stream, which begins with a blank picture.                        *)
Begin(s) ==
  /\ shown' = [shown EXCEPT ![s] = Blank]
  /\ offered' = [offered EXCEPT ![s] = None]

Next ==
  \E s \in Streams :
    \/ \E p \in Pictures : Offer(s, p)
    \/ Withdraw(s) \/ Take(s) \/ Begin(s)

Spec == Init /\ [][Next]_vars
=============================================================================
