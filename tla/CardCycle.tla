----------------------------- MODULE CardCycle -----------------------------
(***************************************************************************)
(* What the loop of test() promises for each card: the card is taken in,   *)
(* the RF reading is started and the card moved before its image is        *)
(* scanned, and it is given back only after all three succeeded; if one    *)
(* fails the loop gives up and waits for the next card.  It always comes   *)
(* back to waiting, and never ends.                                        *)
(***************************************************************************)
VARIABLES
  stage,  \* "off", "waiting", "taking", "giving", or "dead" with the process
  done    \* what has succeeded with the card that is in

vars == <<stage, done>>

Steps == {"rfStart", "move", "image"}

Init == stage = "off" /\ done = {}

Begin == stage = "off" /\ stage' = "waiting" /\ UNCHANGED done

Take == stage = "waiting" /\ stage' = "taking" /\ UNCHANGED done

Succeed(d) ==
  /\ stage = "taking"
  /\ d \in Steps \ done
  /\ d = "image" => done = {"rfStart", "move"}
  /\ done' = done \cup {d}
  /\ UNCHANGED stage

GiveUp == stage = "taking" /\ stage' = "waiting" /\ done' = {}

Give == stage = "taking" /\ done = Steps /\ stage' = "giving" /\ UNCHANGED done

Back == stage = "giving" /\ stage' = "waiting" /\ done' = {}

Die == stage # "dead" /\ stage' = "dead" /\ done' = {}

Next ==
  \/ Begin \/ Take \/ GiveUp \/ Give \/ Back \/ Die
  \/ \E d \in Steps : Succeed(d)

Spec == Init /\ [][Next]_vars

\* A card that was taken is disposed of.
FairSpec == Spec /\ WF_vars(GiveUp \/ Give) /\ WF_vars(Back)
=============================================================================
