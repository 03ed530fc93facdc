--------------------------- MODULE MCGuildPlayer ---------------------------
(***************************************************************************)
(* Instances of GuildPlayer for TLC.  A behaviour has one scenario: the    *)
(* commands and faults that happen in it, chosen in the initial state.     *)
(* In a crowded one MaxTracks recordings are requested, enough for a full  *)
(* queue behind a playing track; in the others one fewer.                  *)
(***************************************************************************)
EXTENDS GuildPlayer, TLC

CONSTANTS
    Scenarios,   \* sets of commands and faults
    Crowded      \* the scenarios in which MaxTracks recordings are requested

MCInit == Init /\ enabled \in Scenarios
MCNext ==
    /\ Next /\ UNCHANGED enabled
    /\ nextId' <= (IF enabled \in Crowded THEN MaxTracks ELSE MaxTracks - 1)   \* bound
MCSpec == MCInit /\ [][MCNext]_<<vars, enabled>>
MCFairSpec == MCSpec /\ Fairness
=============================================================================
