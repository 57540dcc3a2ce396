---------------------------- MODULE MCGhostSync ----------------------------
(* GhostSync for TLC.                                                      *)
EXTENDS GhostSyncProofs, TLC

ValSymmetry == Permutations(Vals)

\* What the steps ahead can read.  The length of the binlog at the start is read by
\* WriteRangeState only; the range of the copy by nobody once the copy is complete, but
\* for what a checkpoint takes of it; and the checkpoint by nobody once there is no
\* restart left and the streamer is past its skipping.
Restarts == reconnects < MaxReconnects \/ phase = "streaming"
Copying == phase \in {"streaming", "listening", "flushed", "copying"}

RelevantState ==
    <<orig, binlog, visible, ghost, phase, applied, reconnects, writer, failures, batchVars,
      IF phase = "listening" THEN <<start>> ELSE << >>,
      IF Copying THEN rangeVars ELSE IF Restarts THEN <<iteration, lastMax>> ELSE << >>,
      IF Restarts THEN chkVars ELSE << >> >>

=============================================================================
