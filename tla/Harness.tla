------------------------------ MODULE Harness ------------------------------
(***************************************************************************)
(* The integration harness, ci/run-integration.sh, beside the worker it    *)
(* starts in the background: the script polls the worker's log for its     *)
(* endpoint, runs the suite against it and cleans up from a trap, while    *)
(* the worker may be slow, fail to start, or die at any time.              *)
(***************************************************************************)
EXTENDS Integers

CONSTANT MaxTries  \* turns of the loop that waits for the worker, 60 in the script

ASSUME TriesAssumption == MaxTries \in Nat

VARIABLES transport,  \* TRANSPORT
          preset,     \* VGI_BSON_WORKER is set by the caller to an http URL
          otherUp,    \* somebody else's worker serves that URL, or an old log's port
          fresh,      \* STAGE is a new directory
          pc,         \* where the script is
          tries,      \* turns of the waiting loop
          serverPid,  \* SERVER_PID is set
          sockPath,   \* SOCK_PATH is set
          location,   \* VGI_BSON_WORKER
          outcome,    \* what the runner's report says
          reached,    \* the runner reached a worker when it began
          status,     \* the exit status of the script
          worker,     \* none, forked, running or dead
          listening,  \* the worker serves its port or socket
          log,        \* absent, stale, empty or announced
          sock,       \* the socket file: none, stale or live
          announced   \* history: the worker wrote its endpoint

config   == <<transport, preset, otherUp, fresh>>
script   == <<pc, tries, serverPid, sockPath, location, outcome, reached, status>>
process  == <<worker, listening, log, sock, announced>>
vars     == <<config, script, process>>

Init ==
    /\ transport \in {"subprocess", "http", "unix", "other"}
    /\ preset \in BOOLEAN /\ otherUp \in BOOLEAN /\ fresh \in BOOLEAN
    /\ log \in IF fresh THEN {"absent"} ELSE {"absent", "stale"}
    /\ sock \in {"none", "stale"}
    /\ pc = "start" /\ tries = 0 /\ serverPid = FALSE /\ sockPath = FALSE
    /\ location = "unset" /\ outcome = "none" /\ reached = FALSE /\ status = 0
    /\ worker = "none" /\ listening = FALSE /\ announced = FALSE

-----------------------------------------------------------------------------
(* The worker, external to the script.                                     *)

Alive == worker \in {"forked", "running"}

\* The forked shell opens the log for the redirection and executes the binary.
OpenLog ==
    /\ worker = "forked"
    /\ worker' = "running" /\ log' = "empty"
    /\ UNCHANGED <<config, script, listening, sock, announced>>

Listen ==
    /\ worker = "running" /\ ~listening
    /\ listening' = TRUE
    /\ sock' = IF transport = "unix" THEN "live" ELSE sock
    /\ UNCHANGED <<config, script, worker, log, announced>>

Announce ==
    /\ worker = "running" /\ log = "empty"
    /\ transport = "http" => listening
    /\ log' = "announced" /\ announced' = TRUE
    /\ UNCHANGED <<config, script, worker, listening, sock>>

\* A worker that dies leaves its socket file behind.
Die ==
    /\ worker' = "dead" /\ listening' = FALSE
    /\ UNCHANGED <<config, script, log, sock, announced>>

Crash == Alive /\ Die

\* The signal of cleanup is delivered.
Terminate == pc = "wait" /\ Alive /\ Die

Worker == OpenLog \/ Listen \/ Announce \/ Crash

-----------------------------------------------------------------------------
(* The script up to the suite.                                             *)

Goto(label) ==
    /\ pc' = label
    /\ UNCHANGED <<tries, serverPid, sockPath, location, outcome, reached, status>>

\* exit, or a command that fails under `set -e`: the trap runs.
Exit(code) ==
    /\ pc' = "cleanup" /\ status' = code
    /\ UNCHANGED <<config, process, tries, serverPid, sockPath, location, outcome,
                   reached>>

Resolve(endpoint) ==
    /\ location' = endpoint /\ pc' = "staging"
    /\ UNCHANGED <<config, process, tries, serverPid, sockPath, outcome, reached,
                   status>>

NeedsServer == (transport = "unix") \/ (transport = "http" /\ ~preset)

UseBinary ==
    /\ pc = "start" /\ transport = "subprocess"
    /\ Resolve(IF preset THEN "preset" ELSE "binary")

UsePreset == pc = "start" /\ transport = "http" /\ preset /\ Resolve("preset")

UnknownTransport == pc = "start" /\ transport = "other" /\ Exit(1)

NotExecutable == pc = "start" /\ NeedsServer /\ Exit(1)

\* A bug: the process is not remembered for the trap.
LaunchForgotten ==
    /\ pc = "start" /\ NeedsServer
    /\ worker' = "forked"
    /\ sockPath' = (transport = "unix")
    /\ sock' = IF transport = "unix" THEN "none" ELSE sock
    /\ pc' = "probe"
    /\ UNCHANGED <<config, tries, serverPid, location, outcome, reached, status,
                   listening, log, announced>>

Launch ==
    /\ pc = "start" /\ NeedsServer
    /\ worker' = "forked" /\ serverPid' = TRUE
    /\ sockPath' = (transport = "unix")
    /\ sock' = IF transport = "unix" THEN "none" ELSE sock
    /\ pc' = "probe"
    /\ UNCHANGED <<config, tries, location, outcome, reached, status,
                   listening, log, announced>>

\* A bug: one turn more than the loop has.
ProbeOnceMore ==
    /\ pc = "probe" /\ tries <= MaxTries
    /\ IF worker = "dead" THEN Exit(1)
       ELSE Goto("look") /\ UNCHANGED <<config, process>>

\* kill -0: the worker may be gone already.
Probe ==
    /\ pc = "probe" /\ tries < MaxTries
    /\ IF worker = "dead" THEN Exit(1)
       ELSE Goto("look") /\ UNCHANGED <<config, process>>

\* A bug: the loop has no bound.
TryForEver == Goto("probe") /\ UNCHANGED <<config, process>>

TryAgain ==
    /\ pc' = "probe" /\ tries' = tries + 1
    /\ UNCHANGED <<config, process, serverPid, sockPath, location, outcome, reached,
                   status>>

\* `port=$(sed ... | head -1)`: with pipefail and errexit a log that is not
\* there yet ends the script, and a log that is left of an earlier run has a
\* port of its own until the forked shell empties it.
LookForPort ==
    /\ pc = "look" /\ transport = "http"
    /\ CASE log = "absent"    -> Exit(2)
         [] log = "empty"     -> TryAgain
         [] log = "stale"     -> Resolve("old")
         [] log = "announced" -> Resolve("own")

\* A bug: the announcement is enough, whether or not there is a socket.
LookForAnnouncement ==
    /\ pc = "look" /\ transport = "unix"
    /\ IF log \in {"stale", "announced"} THEN Resolve("own") ELSE TryAgain

LookForSocket ==
    /\ pc = "look" /\ transport = "unix"
    /\ IF log \in {"stale", "announced"} /\ sock # "none" THEN Resolve("own") ELSE TryAgain

TimedOut == pc = "probe" /\ tries = MaxTries /\ Exit(1)

\* Tests and fixture are copied into STAGE.
StageTests == pc = "staging" /\ Goto("suite") /\ UNCHANGED <<config, process>>

StagingFails == pc = "staging" /\ Exit(1)

-----------------------------------------------------------------------------
(* The suite.  The runner is external: against a worker it passes or       *)
(* fails; a test that cannot connect is an error, which over http the      *)
(* runner skips with status 0.                                             *)

Reachable ==
    CASE location = "binary" -> TRUE
      [] location = "own"    -> listening
      [] OTHER               -> otherUp

BeginSuite ==
    /\ pc = "suite" /\ pc' = "running" /\ reached' = Reachable
    /\ UNCHANGED <<config, process, tries, serverPid, sockPath, location, outcome,
                   status>>

Unconnected ==
    IF transport = "unix" \/ location = "binary" THEN {"failed"} ELSE {"skipped"}

EndSuite ==
    /\ pc = "running" /\ pc' = "report"
    /\ outcome' \in (IF reached THEN {"passed", "failed"} ELSE {})
                    \cup (IF reached /\ Reachable THEN {} ELSE Unconnected)
    /\ UNCHANGED <<config, process, tries, serverPid, sockPath, location, reached,
                   status>>

\* A bug: the status of the runner is all that is looked at.
ReportStatus == pc = "report" /\ Exit(IF outcome = "failed" THEN 1 ELSE 0)

Report == pc = "report" /\ Exit(IF outcome = "passed" THEN 0 ELSE 1)

-----------------------------------------------------------------------------
(* The trap.                                                               *)

Removed ==
    /\ sock' = IF sockPath THEN "none" ELSE sock
    /\ UNCHANGED <<config, worker, listening, log, announced>>

Cleanup ==
    /\ pc = "cleanup"
    /\ IF serverPid
       THEN Goto("wait") /\ UNCHANGED <<config, process>>
       ELSE Goto("exited") /\ Removed

\* `wait` returns when the worker is gone.
Waited == pc = "wait" /\ worker = "dead" /\ Goto("exited") /\ Removed

Script ==
    \/ UseBinary \/ UsePreset \/ UnknownTransport \/ NotExecutable \/ Launch
    \/ Probe \/ LookForPort \/ LookForSocket \/ TimedOut
    \/ StageTests \/ StagingFails \/ BeginSuite \/ EndSuite \/ Report
    \/ Cleanup \/ Waited

Exited == pc = "exited" /\ UNCHANGED vars

Next == Worker \/ Terminate \/ Script \/ Exited

\* The script runs on, the runner ends, and a signalled worker dies.
Spec == Init /\ [][Next]_vars /\ WF_vars(Script) /\ WF_vars(Terminate)
-----------------------------------------------------------------------------
TypeOK ==
    /\ pc \in {"start", "probe", "look", "staging", "suite", "running", "report",
               "cleanup", "wait", "exited"}
    /\ tries \in 0 .. MaxTries
    /\ location \in {"unset", "binary", "preset", "own", "old"}
    /\ outcome \in {"none", "passed", "failed", "skipped"}
    /\ status \in 0 .. 2
    /\ worker \in {"none", "forked", "running", "dead"}
    /\ log \in {"absent", "stale", "empty", "announced"}
    /\ sock \in {"none", "stale", "live"}
    /\ listening => worker = "running"
    /\ serverPid \in BOOLEAN /\ sockPath \in BOOLEAN /\ reached \in BOOLEAN
    /\ listening \in BOOLEAN /\ announced \in BOOLEAN

(* However the script ends, it leaves neither the worker it started nor    *)
(* the worker's socket behind (cleanup, lines 51-58).                      *)
NothingLeftBehind ==
    pc = "exited" => ~Alive /\ (sockPath => sock = "none")

(* A run is green only if the suite passed against a worker that was there *)
(* when it began: neither a dead worker, nor an endpoint left in an old    *)
(* log, nor the skips of the runner over http make it green (lines         *)
(* 173-190).                                                               *)
GreenMeansTested ==
    pc = "exited" /\ status = 0 => outcome = "passed" /\ reached

(* On a new STAGE the suite starts only when the worker it starts has      *)
(* served its endpoint and said so, for each transport (lines 61-62).      *)
ReadinessGate ==
    fresh /\ pc \in {"staging", "suite"} /\ serverPid =>
        announced /\ (listening \/ worker = "dead")

(* The script ends, also if the worker neither starts nor dies.            *)
EventuallyExits == <>(pc = "exited")

-----------------------------------------------------------------------------
(* Lines 61-62, "which we poll for in the log": a worker that is alive has *)
(* all turns of the loop to announce itself.                               *)
WaitsForSlowWorkers ==
    [][pc = "look" /\ pc' = "cleanup" => tries >= MaxTries \/ worker = "dead"]_vars
=============================================================================
