---------------------------- MODULE VoiceLedger ----------------------------
(***************************************************************************)
(* What the audio pool promises about its OpenAL voices, whatever happens  *)
(* inside the Sources: a voice is either free or lent to one Source, a     *)
(* group of Sources gets its voices in one step or not at all, and a       *)
(* Source keeps the voice it was lent until it hands it back.              *)
(* AudioPool implements this specification.                                *)
(***************************************************************************)
CONSTANTS Sources, Voices, NoVoice

VARIABLES
  free,   \* the voices nobody holds
  lent    \* the voice each Source holds, or NoVoice

vars == <<free, lent>>

Init ==
  /\ free = Voices
  /\ lent = [s \in Sources |-> NoVoice]

(* Every Source of S gets a voice of its own, all in the same step.        *)
Take(S) ==
  \E grant \in [S -> free] :
    /\ \A s, t \in S : grant[s] = grant[t] => s = t
    /\ \A s \in S : lent[s] = NoVoice
    /\ lent' = [s \in Sources |-> IF s \in S THEN grant[s] ELSE lent[s]]
    /\ free' = free \ {grant[s] : s \in S}

(* The Sources of S hand their voices back.                                *)
Give(S) ==
  /\ \A s \in S : lent[s] # NoVoice
  /\ lent' = [s \in Sources |-> IF s \in S THEN NoVoice ELSE lent[s]]
  /\ free' = free \cup {lent[s] : s \in S}

Next == \E S \in SUBSET Sources : Take(S) \/ Give(S)

Spec == Init /\ [][Next]_vars
=============================================================================
