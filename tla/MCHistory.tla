----------------------------- MODULE MCHistory -----------------------------
(***************************************************************************)
(* The ids of chat messages and their log, for TLC.  The two share no      *)
(* state, so their steps need not be interleaved: the generator moves only *)
(* while the log is untouched, and the log only before the first id.       *)
(***************************************************************************)
EXTENDS History, IdGenerator

\* A chat of 1 and 2 with a message to all and one of 2 to 3 between; the third
\* of its messages is too long.
MCChats == <<
    [sender |-> 2, target |-> 1, wide |-> FALSE],
    [sender |-> 1, target |-> 2, wide |-> FALSE],
    [sender |-> 2, target |-> 0, wide |-> FALSE],
    [sender |-> 2, target |-> 1, wide |-> TRUE],
    [sender |-> 2, target |-> 3, wide |-> FALSE],
    [sender |-> 1, target |-> 2, wide |-> FALSE]>>

\* The clock jumps within these values, on both sides of the epoch.
ClockValues == 0..30

ChatInit == HistoryInit /\ IdInit

ChatNext ==
    \/ HistoryInit /\ IdNext /\ UNCHANGED historyVars
    \/ IdInit /\ HistoryNext /\ UNCHANGED idVars

\* The fairness of the log, where it is the part that moves.
ChatSpec ==
    /\ ChatInit /\ [][ChatNext]_<<historyVars, idVars>>
    /\ WF_historyVars(IdInit /\ LogThread /\ UNCHANGED idVars)
    /\ WF_historyVars(IdInit /\ SyncHistory /\ UNCHANGED idVars)
=============================================================================
