------------------------------ MODULE Directory ------------------------------
(***************************************************************************)
(* What a graph promises its readers.  An entity is declared once, and may *)
(* be part of another, which is there when it is declared.  The directory  *)
(* shows an entity some time after it was declared, and stops showing it   *)
(* some time after it or what it is part of was undeclared.  It never      *)
(* shows a part without the whole, drops what is there, or brings back     *)
(* what it has dropped.                                                    *)
(***************************************************************************)
CONSTANTS
  Entity,
  WholeOf     \* what an entity is part of, itself if nothing else

VARIABLES
  alive,      \* entities declared and not undeclared
  used,       \* entities ever declared
  stage       \* whether the directory has still to show an entity

directoryVars == <<alive, used, stage>>

Gone(t) == t \notin alive \/ WholeOf[t] \notin alive

Init == alive = {} /\ used = {} /\ stage = [t \in Entity |-> "unknown"]

Declare(t) ==
  /\ t \notin used
  /\ WholeOf[t] # t => WholeOf[t] \in alive
  /\ alive' = alive \cup {t} /\ used' = used \cup {t}
  /\ UNCHANGED stage

Undeclare(t) ==
  /\ t \in alive
  /\ alive' = alive \ {t}
  /\ UNCHANGED <<used, stage>>

PartsFollow == \A t \in Entity : stage'[t] = "shown" => stage'[WholeOf[t]] = "shown"

Show(S) ==
  /\ \A t \in S : stage[t] = "unknown"
  /\ stage' = [t \in Entity |-> IF t \in S THEN "shown" ELSE stage[t]]
  /\ PartsFollow
  /\ UNCHANGED <<alive, used>>

Drop(S) ==
  /\ \A t \in S : stage[t] = "shown" /\ Gone(t)
  /\ stage' = [t \in Entity |-> IF t \in S THEN "dropped" ELSE stage[t]]
  /\ PartsFollow
  /\ UNCHANGED <<alive, used>>

Next ==
  \/ \E t \in Entity : Declare(t) \/ Undeclare(t)
  \/ \E S \in SUBSET used : Show(S) \/ Drop(S)

Spec == Init /\ [][Next]_directoryVars
=============================================================================
