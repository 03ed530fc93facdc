--------------------------- MODULE MCMatchSearch ---------------------------
(***************************************************************************)
(* A first track, two prefetches and a /play search that look for two      *)
(* recordings.  The callers that take part, a group, are chosen in the     *)
(* initial state; the others stay away.                                    *)
(***************************************************************************)
EXTENDS MatchSearch, TLC

CONSTANT Groups   \* of callers

VARIABLE group

MCKey == ("f1" :> "k") @@ ("b1" :> "k") @@ ("b2" :> "l") @@ ("d1" :> "k")

MCInit == MatchInit /\ group \in Groups
MCNext == MatchNext /\ (\A c \in Callers \ group : caller'[c] = Away) /\ UNCHANGED group
MCSpec == MCInit /\ [][MCNext]_<<matchVars, group>> /\ MatchFairness
=============================================================================
