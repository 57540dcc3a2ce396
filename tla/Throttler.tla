----------------------------- MODULE Throttler -----------------------------
(***************************************************************************)
(* The throttler.  Collectors read one metric each and store it, each in   *)
(* its own time; a check reads what they stored and, later, stores whether *)
(* to throttle; the writer, and the heartbeat that replication lag is      *)
(* measured by, read that.  A critical load puts gh-ost into hibernation:  *)
(* a timer ends it.                                                        *)
(*                                                                         *)
(* A metric is what the thresholds make of it.  load also stands for flag  *)
(* files, --throttle-query and failures to read a status variable.         *)
(***************************************************************************)
EXTENDS Naturals

CONSTANTS
    Replicas,          \* --throttle-control-replicas
    IgnoreHTTPErrors,  \* --ignore-http-errors
    MaxMoves           \* bound: how often the world may change

ASSUME ThrottlerAssumption ==
    /\ IgnoreHTTPErrors \in BOOLEAN
    /\ MaxMoves \in Nat

VARIABLES
    \* the world
    onCritical,     \* what a critical load leads to: "hibernate", "abort", or "recheck"
                    \* (--critical-load-interval-millis)
    user,           \* ThrottleCommandedByUser
    load,           \* "ok", "max", "critical"
    url, answer,    \* throttleHTTP, and the status code its service would answer
    behind,         \* "yes" while the inspected replica lags
    replica,        \* the control replicas: "ok", "lag" or "err"
    heartbeat,      \* "stale" once the last heartbeat is older than --max-lag-millis
    critical,       \* InCutOverCriticalSectionFlag
    injected,       \* AllEventsUpToLockProcessedInjectedFlag; "off" when the migration is
                    \* not on a replica, where nothing depends on it
    moves,          \* how often it has changed
    \* the metrics, as the collectors stored them
    general, httpStatus, lag, replicaResult,
    collected,      \* collectors that have collected once
    control,        \* collectControlReplicasLag: "start", "loop", "gone"
    hibernating,    \* HibernateUntil
    sleeper,        \* the timer of the hibernation: "none", "asleep", "leaving"
    recheck,        \* "yes" while the timer of a second look at the load runs
    \* the decision
    check,          \* initiateThrottlerChecks: "off", "idle", "set"
    verdict,        \* what shouldThrottle returned, <<"no" | "yes", hint>>
    throttled, hint,
    writing,        \* "yes" while the writer writes
    aborted,
    \* history
    renewed,        \* general metrics were collected since the hibernation began
    noticed         \* a check has noticed the hibernation

world == <<onCritical, user, load, url, answer, behind, replica, critical,
           injected, moves>>
metrics == <<general, httpStatus, lag, replicaResult>>
hibernation == <<hibernating, sleeper, recheck, renewed>>
decision == <<check, verdict, throttled, hint, noticed>>
throttlerVars == <<world, heartbeat, metrics, collected, control, hibernation, decision,
                   writing, aborted>>

\* A migration on a replica is looked at with one of the three answers to a critical
\* load, which have nothing to do with it.
ThrottlerInit ==
    /\ onCritical \in {"hibernate", "abort", "recheck"}
    /\ user = "off" /\ url = "set" /\ answer = "200" /\ behind = "no"
    /\ load \in {"ok", "critical"}
    /\ replica = [r \in Replicas |-> "ok"]
    /\ heartbeat = "fresh" /\ critical = "no" /\ moves = 0
    /\ injected \in IF onCritical = "abort" THEN {"off", "no"} ELSE {"off"}
    /\ general = "go" /\ httpStatus = "none" /\ lag = "low" /\ replicaResult = "none"
    /\ collected = {} /\ control = "start"
    /\ hibernating = "no" /\ sleeper = "none" /\ recheck = "no"
    /\ check = "off" /\ verdict = <<"no", "none">>
    /\ throttled = "no" /\ hint = "none" /\ writing = "no" /\ aborted = "no"
    /\ renewed = "yes" /\ noticed = "no"

Running == aborted = "no"

-----------------------------------------------------------------------------
(* The world changes; a user does part of it through the server.           *)

Other(x) == IF x = "off" THEN "on" ELSE IF x = "on" THEN "off"
            ELSE IF x = "no" THEN "yes" ELSE "no"

Move == Running /\ moves < MaxMoves /\ moves' = moves + 1

UserCommands ==
    /\ Move
    /\ user' = Other(user)
    /\ UNCHANGED <<onCritical, load, url, answer, behind, replica, critical, injected,
                   heartbeat, metrics, collected, control, hibernation, decision,
                   writing, aborted>>

LoadChanges ==
    /\ Move
    /\ load' \in {"ok", "max", "critical"} \ {load}
    /\ UNCHANGED <<onCritical, user, url, answer, behind, replica, critical, injected,
                   heartbeat, metrics, collected, control, hibernation, decision,
                   writing, aborted>>

\* throttle-http=<url> of the server, and the service it names.
HTTPChanges ==
    /\ Move
    /\ \/ answer' \in {"200", "429", "error"} \ {answer} /\ UNCHANGED url
       \/ url' \in {"set", "none"} \ {url} /\ UNCHANGED answer
    /\ UNCHANGED <<onCritical, user, load, behind, replica, critical, injected, heartbeat,
                   metrics, collected, control, hibernation, decision, writing,
                   aborted>>

ReplicationChanges ==
    /\ Move
    /\ \/ behind' = Other(behind) /\ UNCHANGED replica
       \/ /\ \E r \in Replicas, s \in {"ok", "lag", "err"} :
                replica[r] # s /\ replica' = [replica EXCEPT ![r] = s]
          /\ UNCHANGED behind
    /\ UNCHANGED <<onCritical, user, load, url, answer, critical, injected, heartbeat,
                   metrics, collected, control, hibernation, decision, writing,
                   aborted>>

\* atomicCutOver and cutOverTwoStep set InCutOverCriticalSectionFlag, and reset the
\* other flag when they begin.
CutOverCriticalSection ==
    /\ Move /\ check # "off"
    /\ critical' = Other(critical)
    /\ injected' = IF critical = "no" /\ injected = "yes" THEN "no" ELSE injected
    /\ UNCHANGED <<onCritical, user, load, url, answer, behind, replica, heartbeat,
                   metrics, collected, control, hibernation, decision, writing,
                   aborted>>

\* waitForEventsUpToLock, once the sentinel is written.
WaitForEventsUpToLock ==
    /\ Running /\ critical = "yes" /\ injected = "no"
    /\ injected' = "yes"
    /\ UNCHANGED <<onCritical, user, load, url, answer, behind, replica, critical,
                   moves, heartbeat, metrics, collected, control, hibernation,
                   decision, writing, aborted>>

-----------------------------------------------------------------------------
(* The heartbeat.                                                          *)

\* Mutant: a cut-over that holds locks is throttled like everything else.
IsThrottledAlways == throttled = "yes"

IsThrottled == throttled = "yes" /\ critical = "no"

Beating == hibernating = "no" /\ ~(IsThrottled /\ hint = "user")

InjectHeartbeat ==
    /\ Running /\ Beating
    /\ heartbeat' = "fresh"
    /\ UNCHANGED <<world, metrics, collected, control, hibernation, decision,
                   writing, aborted>>

\* --max-lag-millis is many heartbeat intervals.
HeartbeatAges ==
    /\ Running /\ ~Beating
    /\ heartbeat' = "stale"
    /\ UNCHANGED <<world, metrics, collected, control, hibernation, decision,
                   writing, aborted>>

-----------------------------------------------------------------------------
(* The collectors.                                                         *)

CollectReplicationLag ==
    /\ Running
    /\ collected' = collected \cup {"lag"}
    /\ lag' = IF hibernating = "yes" THEN lag
              ELSE IF behind = "yes" \/ heartbeat = "stale" THEN "high" ELSE "low"
    /\ UNCHANGED <<world, heartbeat, general, httpStatus, replicaResult, control,
                   hibernation, decision, writing, aborted>>

\* Mutant: the answer that comes last is the result.
WorseLast(result, next) == next

\* readControlReplicasLag, for one more answer.  The lag of an error is 0.
Worse(result, next) ==
    CASE result = "none" \/ next = "err" -> next
      [] next = "lag" /\ result # "lag" -> next
      [] next = "ok" /\ result = "err" -> next
      [] OTHER -> result

\* The answers of the replicas come in any order: what may be made of those in R.
ResultsOf[R \in SUBSET Replicas] ==
    IF R = {} THEN {"none"}
    ELSE UNION {{Worse(result, replica[last]) : result \in ResultsOf[R \ {last}]} : last \in R}

ControlReplicasLag == ResultsOf[Replicas]

\* On a replica the control replicas do not count once the sentinel is written.
ChecksControlReplicas == injected # "yes"

CollectControlReplicasLag ==
    /\ Running
    /\ \/ /\ control = "start"
          /\ control' = IF hibernating = "yes" THEN "gone" ELSE "loop"
          /\ UNCHANGED replicaResult
       \/ /\ control = "loop"
          /\ replicaResult' \in
                IF ChecksControlReplicas THEN ControlReplicasLag ELSE {replicaResult}
          /\ UNCHANGED control
    /\ UNCHANGED <<world, heartbeat, general, httpStatus, lag, collected,
                   hibernation, decision, writing, aborted>>

CollectThrottleHTTPStatus ==
    /\ Running
    /\ collected' = collected \cup {"http"}
    /\ httpStatus' = IF \/ hibernating = "yes" \/ url = "none"
                        \/ answer = "error" /\ IgnoreHTTPErrors
                       THEN httpStatus ELSE answer
    /\ UNCHANGED <<world, heartbeat, general, lag, replicaResult, control,
                   hibernation, decision, writing, aborted>>

\* collectGeneralThrottleMetrics
CollectGeneral ==
    /\ Running
    /\ collected' = collected \cup {"general"}
    /\ \/ hibernating = "yes" /\ UNCHANGED <<general, hibernation, aborted>>
       \/ /\ hibernating = "no" /\ load = "critical" /\ onCritical = "hibernate"
          /\ hibernating' = "yes" /\ sleeper' = "asleep" /\ renewed' = "no"
          /\ UNCHANGED <<general, recheck, aborted>>
       \/ /\ hibernating = "no" /\ load = "critical" /\ onCritical = "abort"
          /\ aborted' = "yes"
          /\ UNCHANGED <<general, hibernation>>
       \/ /\ hibernating = "no" /\ (load = "critical" => onCritical = "recheck")
          /\ recheck' = IF load = "critical" THEN "yes" ELSE recheck
          /\ general' = IF user = "on" THEN "user" ELSE IF load = "ok" THEN "go" ELSE "load"
          /\ renewed' = "yes"
          /\ UNCHANGED <<hibernating, sleeper, aborted>>
    /\ UNCHANGED <<world, heartbeat, httpStatus, lag, replicaResult, control, check,
                   verdict, throttled, hint, writing>>
    /\ noticed' = IF hibernating' = hibernating THEN noticed ELSE "no"

\* Mutant: the load is looked at again, and that is all.
RecheckCriticalLoadIdle ==
    /\ Running /\ recheck = "yes"
    /\ recheck' = "no"
    /\ UNCHANGED <<world, heartbeat, metrics, collected, control, hibernating,
                   sleeper, renewed, decision, writing, aborted>>

RecheckCriticalLoad ==
    /\ Running /\ recheck = "yes"
    /\ recheck' = "no"
    /\ aborted' = IF load = "critical" THEN "yes" ELSE "no"
    /\ UNCHANGED <<world, heartbeat, metrics, collected, control, hibernating,
                   sleeper, renewed, decision, writing>>

\* Mutant: the hibernation is over before there is a reason not to write.
LeaveHibernationFirst ==
    /\ Running
    /\ \/ /\ sleeper = "asleep" /\ noticed = "yes"
          /\ sleeper' = "leaving" /\ hibernating' = "no"
          /\ UNCHANGED general
       \/ /\ sleeper = "leaving"
          /\ sleeper' = "none" /\ general' = "leaving"
          /\ UNCHANGED hibernating
    /\ UNCHANGED <<world, heartbeat, httpStatus, lag, replicaResult, collected,
                   control, recheck, renewed, decision, writing, aborted>>

\* The end of the hibernation, which outlasts a throttle check.
LeaveHibernation ==
    /\ Running
    /\ \/ /\ sleeper = "asleep" /\ noticed = "yes"
          /\ sleeper' = "leaving" /\ general' = "leaving"
          /\ UNCHANGED hibernating
       \/ /\ sleeper = "leaving"
          /\ sleeper' = "none" /\ hibernating' = "no"
          /\ UNCHANGED general
    /\ UNCHANGED <<world, heartbeat, httpStatus, lag, replicaResult, collected,
                   control, recheck, renewed, decision, writing, aborted>>

-----------------------------------------------------------------------------
(* The decision, and the writer.                                           *)

\* initiateThrottler waits for three metrics, not for the control replicas.
InitiateThrottlerChecks ==
    /\ Running /\ check = "off" /\ collected = {"lag", "http", "general"}
    /\ check' = "idle"
    /\ UNCHANGED <<world, heartbeat, metrics, collected, control, hibernation,
                   verdict, throttled, hint, noticed, writing, aborted>>

\* Mutant: an HTTP service that says yes overrules the others.
ShouldThrottleUnlessHTTP ==
    CASE hibernating = "yes" -> <<"yes", "none">>
      [] hibernating = "no" /\ httpStatus = "200" /\ lag = "low" -> <<"no", "none">>
      [] OTHER -> <<"yes", "none">>

ShouldThrottle ==
    IF hibernating = "yes" THEN <<"yes", "none">>
    ELSE IF general # "go"
      THEN <<"yes", IF general \in {"user", "leaving"} THEN general ELSE "none">>
    ELSE IF \/ httpStatus \notin {"none", "200"}
            \/ lag = "high"
            \/ ChecksControlReplicas /\ replicaResult \in {"lag", "err"}
      THEN <<"yes", "none">>
    ELSE <<"no", "none">>

\* throttlerFunction: it may take long to write to the changelog what it is doing.
CheckThrottle ==
    /\ Running /\ check = "idle"
    /\ check' = "set"
    /\ verdict' = ShouldThrottle
    /\ noticed' = IF hibernating = "yes" /\ noticed = "no" THEN "set" ELSE noticed
    /\ UNCHANGED <<world, heartbeat, metrics, collected, control, hibernation,
                   throttled, hint, writing, aborted>>

\* Mutant: the hint stays the one that throttling began with.
SetThrottledOnce ==
    /\ Running /\ check = "set"
    /\ check' = "idle"
    /\ throttled' = verdict[1]
    /\ hint' = IF throttled = "yes" /\ verdict[1] = "yes" THEN hint ELSE verdict[2]
    /\ noticed' = IF noticed = "set" THEN "yes" ELSE noticed
    /\ UNCHANGED <<world, heartbeat, metrics, collected, control, hibernation,
                   verdict, writing, aborted>>

SetThrottled ==
    /\ Running /\ check = "set"
    /\ check' = "idle"
    /\ throttled' = verdict[1]
    /\ hint' = verdict[2]
    /\ noticed' = IF noticed = "set" THEN "yes" ELSE noticed
    /\ UNCHANGED <<world, heartbeat, metrics, collected, control, hibernation,
                   verdict, writing, aborted>>

\* throttle(), in the loop of the writer.
ThrottledWrite ==
    /\ Running /\ check # "off"
    /\ \/ writing = "no" /\ ~IsThrottled /\ writing' = "yes"
       \/ writing = "yes" /\ writing' = "no"
    /\ UNCHANGED <<world, heartbeat, metrics, collected, control, hibernation,
                   decision, aborted>>

Aborted == aborted = "yes" /\ UNCHANGED throttlerVars

ThrottlerNext ==
    \/ UserCommands \/ LoadChanges \/ HTTPChanges \/ ReplicationChanges
    \/ CutOverCriticalSection \/ WaitForEventsUpToLock
    \/ InjectHeartbeat \/ HeartbeatAges
    \/ CollectReplicationLag \/ CollectControlReplicasLag
    \/ CollectThrottleHTTPStatus \/ CollectGeneral \/ RecheckCriticalLoad
    \/ LeaveHibernation
    \/ InitiateThrottlerChecks \/ CheckThrottle \/ SetThrottled \/ ThrottledWrite
    \/ Aborted

ThrottlerSpec == ThrottlerInit /\ [][ThrottlerNext]_throttlerVars

\* Tickers and timers keep firing; the world does what it likes.
ThrottlerFairSpec ==
    /\ ThrottlerSpec
    /\ WF_throttlerVars(InjectHeartbeat)
    /\ WF_throttlerVars(CollectReplicationLag)
    /\ WF_throttlerVars(CollectControlReplicasLag)
    /\ WF_throttlerVars(CollectThrottleHTTPStatus) /\ WF_throttlerVars(CollectGeneral)
    /\ WF_throttlerVars(RecheckCriticalLoad) /\ WF_throttlerVars(LeaveHibernation)
    /\ WF_throttlerVars(InitiateThrottlerChecks) /\ WF_throttlerVars(CheckThrottle)
    /\ WF_throttlerVars(SetThrottled) /\ WF_throttlerVars(ThrottledWrite)

-----------------------------------------------------------------------------
\* The types of the variables.
ThrottlerTypeOK ==
    /\ onCritical \in {"hibernate", "abort", "recheck"}
    /\ user \in {"off", "on"} /\ load \in {"ok", "max", "critical"}
    /\ url \in {"set", "none"} /\ answer \in {"200", "429", "error"}
    /\ behind \in {"no", "yes"} /\ critical \in {"no", "yes"}
    /\ injected \in {"off", "no", "yes"} /\ moves \in 0..MaxMoves
    /\ replica \in [Replicas -> {"ok", "lag", "err"}]
    /\ heartbeat \in {"fresh", "stale"}
    /\ general \in {"go", "load", "user", "leaving"}
    /\ httpStatus \in {"none", "200", "429", "error"}
    /\ IgnoreHTTPErrors => httpStatus # "error"
    /\ lag \in {"low", "high"} /\ replicaResult \in {"none", "ok", "lag", "err"}
    /\ collected \subseteq {"lag", "http", "general"}
    /\ control \in {"start", "loop", "gone"}
    /\ hibernating \in {"no", "yes"} /\ sleeper \in {"none", "asleep", "leaving"}
    /\ recheck \in {"no", "yes"}
    /\ check \in {"off", "idle", "set"}
    /\ verdict \in {"no", "yes"} \X {"none", "user", "leaving"}
    /\ throttled \in {"no", "yes"} /\ hint \in {"none", "user", "leaving"}
    /\ writing \in {"no", "yes"} /\ aborted \in {"no", "yes"}
    /\ renewed \in {"no", "yes"} /\ noticed \in {"no", "set", "yes"}

\* After a hibernation gh-ost stays throttled until the load was looked at again:
\* what was stored before the critical load is never acted upon.
WakesThrottled == hibernating = "no" /\ renewed = "no" => throttled = "yes"

\* "Any single factor in the above that suggests the migration should throttle -
\* causes throttling" (doc/throttle.md): a throttle command that is not taken back
\* holds whatever the other metrics say.
UserThrottles ==
    <>[](user = "on" /\ aborted = "no") => <>[](throttled = "yes" \/ aborted = "yes")

\* No reason to throttle, and no URL taken away: the last answer of its service
\* would be heeded for ever.
Calm ==
    /\ user = "off" /\ load = "ok" /\ behind = "no" /\ aborted = "no"
    /\ url = "set" /\ answer = "200"
    /\ \A r \in Replicas : replica[r] = "ok"

\* When every reason to throttle is gone gh-ost resumes, though the heartbeat that
\* lag is measured by was not written while the user throttled it, and though a
\* hibernation came between.
Resumes == <>[]Calm => <>[](throttled = "no")

\* "any controlled replica lagging more than this value will cause throttling to
\* kick in" (doc/throttle.md), in whatever order the replicas answer.  That is so while
\* all of them can be read: a lag, an error and a small lag, in this order, come out as
\* the small lag.  And it is so if their collector was not started during a
\* hibernation, and the lag is looked at.
ReplicaLagThrottles ==
    <>[](/\ aborted = "no" /\ control = "loop" /\ ChecksControlReplicas
         /\ "lag" \in {replica[r] : r \in Replicas}
         /\ "err" \notin {replica[r] : r \in Replicas})
        => <>[](throttled = "yes")

\* "When cutting over, we need to be aggressive" (IsThrottled): with the table
\* locked the writer goes on, however busy the servers are.
CutOverProceeds ==
    critical = "yes" ~> writing = "yes" \/ critical = "no" \/ aborted = "yes"

\* A critical load that does not go away ends the migration or its activity.
CriticalLoadHeeded ==
    <>[](load = "critical") => <>(aborted = "yes" \/ hibernating = "yes")

=============================================================================
