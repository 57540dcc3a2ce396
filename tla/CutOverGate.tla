---------------------------- MODULE CutOverGate ----------------------------
(***************************************************************************)
(* The gate before every attempt at the cut-over: cutOver() polls, and     *)
(* postpones the cut-over while the flag file exists, unless the user's    *)
(* unpostpone command came.  The server handles commands in goroutines of  *)
(* its own: between the look at IsPostponingCutOver and the store to       *)
(* UserCommandedUnpostponeFlag the gate may do anything.                   *)
(***************************************************************************)
EXTENDS Naturals

CONSTANT MaxAttempts    \* --default-retries

ASSUME CutOverGateAssumption == MaxAttempts \in Nat \ {0}

VARIABLES
    flagFile,       \* PostponeCutOverFlagFile: "none" or "set"
    exists,         \* whether that file exists
    lagging,        \* whether the heartbeat lag is too high to cut over
    postponing,     \* IsPostponingCutOver
    unpostpone,     \* UserCommandedUnpostponeFlag
    server,         \* the handler of an unpostpone command: "idle", "accepted"
    gate,           \* "poll", "file", "cutOver", "done", "failed"
    attempt,        \* attempts begun
    notified,       \* history: gh-ost-on-begin-postponed hooks of this attempt
    told            \* history: commands accepted, less the gates that one opened; bounded
                    \* by the number of gates

files == <<flagFile, exists>>
flags == <<postponing, unpostpone>>
gateVars == <<files, lagging, flags, server, gate, attempt, notified, told>>

\* createFlagFiles makes sure that the file exists.
GateInit ==
    /\ flagFile \in {"none", "set"}
    /\ exists = IF flagFile = "set" THEN "yes" ELSE "no"
    /\ lagging = "no"
    /\ postponing = "no" /\ unpostpone = "no"
    /\ server = "idle"
    /\ gate = "poll" /\ attempt = 1 /\ notified = 0 /\ told = 0

Waiting == gate \in {"poll", "file", "cutOver"}

\* The user creates or removes the file, by hand or with the command
\* postpone-cut-over-flag-file=<path>.
UserFile ==
    /\ Waiting
    /\ \/ exists' = "yes" /\ flagFile' = "set"
       \/ exists' = "no" /\ UNCHANGED flagFile
    /\ UNCHANGED <<lagging, flags, server, gate, attempt, notified, told>>

LagChanges ==
    /\ Waiting
    /\ lagging' = IF lagging = "no" THEN "yes" ELSE "no"
    /\ UNCHANGED <<files, flags, server, gate, attempt, notified, told>>

\* unpostpone is refused unless the cut-over is being postponed.
ServerAccepts ==
    /\ Waiting /\ server = "idle"
    /\ postponing = "yes"
    /\ server' = "accepted"
    /\ told' = IF told < MaxAttempts THEN told + 1 ELSE told
    /\ UNCHANGED <<files, lagging, flags, gate, attempt, notified>>

ServerUnpostpones ==
    /\ server = "accepted"
    /\ server' = "idle"
    /\ unpostpone' = "yes"
    /\ UNCHANGED <<files, lagging, postponing, gate, attempt, notified, told>>

-----------------------------------------------------------------------------
\* Mutant: IsPostponingCutOver is not reset.
PassGateKeeps == gate' = "cutOver" /\ UNCHANGED postponing

PassGate ==
    /\ gate' = "cutOver"
    /\ postponing' = "no"

\* Mutant: the command is forgotten while the lag is too high.
PollForgets ==
    /\ gate = "poll"
    /\ \/ lagging = "yes" /\ unpostpone' = "no" /\ UNCHANGED <<gate, postponing, told>>
       \/ lagging = "no" /\ unpostpone = "yes" /\ unpostpone' = "no" /\ PassGate /\ told' = told - 1
       \/ lagging = "no" /\ unpostpone = "no" /\ gate' = "file" /\ UNCHANGED <<flags, told>>
    /\ UNCHANGED <<files, lagging, server, attempt, notified>>

\* Mutant: the command is not used up by the gate it opens.
PollKeepsCommand ==
    /\ gate = "poll" /\ lagging = "no"
    /\ \/ flagFile = "none" /\ PassGate /\ UNCHANGED <<unpostpone, told>>
       \/ /\ flagFile = "set" /\ unpostpone = "yes"
          /\ PassGate
          /\ told' = IF told > 0 THEN told - 1 ELSE told
          /\ UNCHANGED unpostpone
       \/ flagFile = "set" /\ unpostpone = "no" /\ gate' = "file" /\ UNCHANGED <<flags, told>>
    /\ UNCHANGED <<files, lagging, server, attempt, notified>>

\* The poll of sleepWhileTrue, up to the look at the file.
Poll ==
    /\ gate = "poll" /\ lagging = "no"
    /\ \/ flagFile = "none" /\ PassGate /\ UNCHANGED <<unpostpone, told>>
       \/ /\ flagFile = "set" /\ unpostpone = "yes"
          /\ PassGate
          /\ unpostpone' = "no" /\ told' = told - 1
       \/ flagFile = "set" /\ unpostpone = "no" /\ gate' = "file" /\ UNCHANGED <<flags, told>>
    /\ UNCHANGED <<files, lagging, server, attempt, notified>>

\* An attempt failed: cutOver() is called again, or it was the last.
NextAttempt ==
    /\ gate' = IF attempt < MaxAttempts THEN "poll" ELSE "failed"
    /\ attempt' = IF attempt < MaxAttempts THEN attempt + 1 ELSE attempt
    /\ notified' = 0

\* The look at the file.  The hook may fail.
PollFile ==
    /\ gate = "file"
    /\ \/ exists = "no" /\ PassGate /\ UNCHANGED <<attempt, notified>>
       \/ /\ exists = "yes"
          /\ gate' = "poll"
          /\ postponing' = "yes"
          /\ notified' = IF postponing = "no" THEN notified + 1 ELSE notified
          /\ UNCHANGED attempt
       \/ exists = "yes" /\ postponing = "no" /\ NextAttempt /\ UNCHANGED postponing
    /\ UNCHANGED <<files, lagging, unpostpone, server, told>>

\* atomicCutOver or cutOverTwoStep.
AttemptCutOver ==
    /\ gate = "cutOver"
    /\ \/ gate' = "done" /\ UNCHANGED <<attempt, notified>>
       \/ NextAttempt
    /\ UNCHANGED <<files, lagging, flags, server, told>>

GateEnded == ~Waiting /\ server = "idle" /\ UNCHANGED gateVars

GateNext ==
    \/ UserFile \/ LagChanges \/ ServerAccepts \/ ServerUnpostpones
    \/ Poll \/ PollFile \/ AttemptCutOver \/ GateEnded

GateSpec == GateInit /\ [][GateNext]_gateVars

\* cutOver() keeps polling and the server finishes what it began.
GateFairSpec ==
    /\ GateSpec
    /\ WF_gateVars(Poll) /\ WF_gateVars(PollFile) /\ WF_gateVars(AttemptCutOver)
    /\ WF_gateVars(ServerUnpostpones)

-----------------------------------------------------------------------------
\* The types of the variables.
GateTypeOK ==
    /\ flagFile \in {"none", "set"} /\ exists \in {"no", "yes"}
    /\ lagging \in {"no", "yes"}
    /\ postponing \in {"no", "yes"} /\ unpostpone \in {"no", "yes"}
    /\ server \in {"idle", "accepted"}
    /\ gate \in {"poll", "file", "cutOver", "done", "failed"}
    /\ attempt \in 1..MaxAttempts
    /\ notified \in 0..1
    /\ told \in 0..MaxAttempts

\* Users are notified once of every postponement, when it begins: unpostpone is
\* accepted only after that.
PostponementIsAnnounced ==
    gate \in {"poll", "file"} => (postponing = "yes" <=> notified = 1)

\* "As long as this file exists, gh-ost will not take the final cut-over step"
\* (doc/perks.md): the gate opens only when the poll found no file, or for an
\* unpostpone command, and one command opens one gate, over all attempts.  It may be
\* that of a later attempt, if its own opened for want of the file.
GateHolds ==
    [][gate # "cutOver" /\ gate' = "cutOver" =>
          exists = "no" \/ flagFile = "none" \/ (told > 0 /\ told' = told - 1)]_gateVars

\* "instruct gh-ost to stop postponing and proceed immediately to cut-over"
\* (doc/interactive-commands.md): an accepted command opens the gate, even if the
\* file still exists and the lag was too high when it came.
UnpostponeIsHeeded ==
    <>[](lagging = "no") => (server = "accepted" ~> gate \notin {"poll", "file"})

=============================================================================
