--------------------------- MODULE NetworkControl ---------------------------
(***************************************************************************)
(* The files by which the dashboard, the command line and start.sh ask the *)
(* supervisor on the host to change the network source or to reconnect the *)
(* phone: network-source-control.py, iphone-supervisor.sh, start.sh,       *)
(* web/network_sources.go and web/network_recovery.go.                     *)
(*                                                                         *)
(* A source request is claimed by renaming its file, in a tick that holds  *)
(* the controller's lock to its end; a reconnect by renaming another file, *)
(* after the tick, without a lock. Who asks looks at the files first and   *)
(* writes later: requests of the dashboard exclude one another only.       *)
(*                                                                         *)
(* Abstracted: a session (epoch) is whether it is still the present one;   *)
(* each source has one adapter; a snapshot counts as fresh; what the       *)
(* bridge does is whether start.sh succeeds; the failure counts and the    *)
(* cooldown before an automatic reconnect may have been reached or not.    *)
(***************************************************************************)
EXTENDS Naturals

CONSTANTS
  Actions,      \* what a source request may ask for
  NoRequest,
  MaxCrashes    \* bound: deaths of the supervisor and runs of start.sh

VARIABLES
  attached,     \* sources whose adapter has an address
  config,       \* config.json: the source selected, those with an adapter
  snapshot,     \* status.json: source, session, job
  request,      \* request.json
  processing,   \* processing.json
  reconnect,    \* iphone-recovery.request exists
  reconnecting, \* iphone-recovery.processing exists
  recovery,     \* iphone-recovery-status.json; "idle": not active, or stale
  pc,           \* the supervisor
  post,         \* a POST that passed its checks, with its source request
  cli,          \* a `recover` that passed its checks
  start,        \* a start.sh of the user
  crashes

files == <<request, processing, reconnect, reconnecting, recovery>>
askers == <<post, cli, start>>
vars == <<attached, config, snapshot, files, pc, askers, crashes>>

Sources == {"iphone", "router"}
Other(s) == IF s = "iphone" THEN "router" ELSE "iphone"
Requests == [action : Actions, source : Sources, current : BOOLEAN]
NoPost == [step |-> "none", request |-> NoRequest]

ASSUME NetworkControlAssumption ==
  /\ Actions \subseteq {"configure", "validate", "activate"}
  /\ NoRequest \notin Requests
  /\ MaxCrashes \in Nat

InTick == {"process", "switch", "commit", "rollback", "report", "unlink"}
InStart == {"switch", "rollback", "choose", "bridge"}

TypeOK ==
  /\ attached \subseteq Sources
  /\ config \in [active : Sources, configured : SUBSET Sources]
  /\ config.active \in config.configured
  /\ snapshot \in [active : Sources, current : BOOLEAN, running : BOOLEAN]
  /\ request \in Requests \cup {NoRequest}
  /\ processing \in Requests \cup {NoRequest}
  /\ {reconnect, reconnecting, cli} \subseteq BOOLEAN
  /\ recovery \in {"idle", "queued", "running"}
  /\ pc \in InTick \cup InStart \cup
            {"down", "tick", "after", "remove", "close"}
  /\ post \in [step : {"none", "link", "queue", "write"},
               request : Requests \cup {NoRequest}]
  /\ start \in {"none", "locked", "chosen"}
  /\ crashes \in 0..MaxCrashes
  /\ pc \in InTick => processing # NoRequest

-----------------------------------------------------------------------------
(* What several steps do.                                                  *)

Available(s) == s \in config.configured \cap attached

Published(running) ==
  [active |-> config.active, current |-> TRUE, running |-> running]

Old(r) == IF r = NoRequest THEN r ELSE [r EXCEPT !.current = FALSE]

(* Nothing made for the session before counts as current in the new one.   *)
NewSession(active, configured) ==
  /\ config' = [active |-> active, configured |-> configured]
  /\ request' = Old(request)
  /\ processing' = Old(processing)
  /\ post' = [post EXCEPT !.request = Old(@)]

(* startup and new-epoch: the selected source, or the other one when only  *)
(* that is attached, in a new session that is published.                   *)
Choose(s) ==
  /\ s = IF ~Available(config.active) /\ Available(Other(config.active))
         THEN Other(config.active) ELSE config.active
  /\ NewSession(s, config.configured)
  /\ snapshot' = [active |-> s, current |-> TRUE,
                  running |-> IF s # config.active THEN FALSE
                              ELSE snapshot.running]

-----------------------------------------------------------------------------
(* Who asks.                                                               *)

Plug(s) ==
  /\ attached' = IF s \in attached THEN attached \ {s} ELSE attached \cup {s}
  /\ UNCHANGED <<config, snapshot, files, pc, askers, crashes>>

SourceBusy ==
  snapshot.running \/ request # NoRequest \/ processing # NoRequest

(* APINetworkSourcesHandler, up to the link.                               *)
AdmitSource(action, source) ==
  /\ post = NoPost
  /\ ~SourceBusy /\ ~reconnect /\ recovery = "idle"
  /\ ~(action = "configure" /\ source = snapshot.active)
  /\ post' = [step |-> "link",
              request |-> [action |-> action, source |-> source,
                           current |-> snapshot.current]]
  /\ UNCHANGED <<attached, config, snapshot, files, pc, cli, start, crashes>>

(* The link does not replace a request.                                    *)
LinkRequest ==
  /\ post.step = "link"
  /\ request' = IF request = NoRequest THEN post.request ELSE request
  /\ post' = NoPost
  /\ UNCHANGED <<attached, config, snapshot, processing, reconnect,
                 reconnecting, recovery, pc, cli, start, crashes>>

(* APINetworkRecoveryHandler: the checks, the status, the request.         *)
AdmitReconnect ==
  /\ post = NoPost
  /\ snapshot.active = "iphone" /\ ~SourceBusy
  /\ ~reconnect /\ recovery = "idle"
  /\ post' = [post EXCEPT !.step = "queue"]
  /\ UNCHANGED <<attached, config, snapshot, files, pc, cli, start, crashes>>

QueueReconnect ==
  /\ post.step = "queue"
  /\ recovery' = "queued"
  /\ post' = [post EXCEPT !.step = "write"]
  /\ UNCHANGED <<attached, config, snapshot, request, processing, reconnect,
                 reconnecting, pc, cli, start, crashes>>

WriteReconnect ==
  /\ post.step = "write"
  /\ reconnect' = TRUE
  /\ post' = NoPost
  /\ UNCHANGED <<attached, config, snapshot, request, processing,
                 reconnecting, recovery, pc, cli, start, crashes>>

(* The checker goes down with the bridge, or the write fails.              *)
LosePost ==
  /\ post # NoPost
  /\ post' = NoPost
  /\ UNCHANGED <<attached, config, snapshot, files, pc, cli, start, crashes>>

(* request_manual_recovery: `active` waits for the lock.                   *)
AdmitCommand ==
  /\ ~cli
  /\ pc \notin InTick
  /\ config.active = "iphone"
  /\ request = NoRequest /\ processing = NoRequest
  /\ ~reconnect /\ ~reconnecting
  /\ cli' = TRUE
  /\ UNCHANGED <<attached, config, snapshot, files, pc, post, start, crashes>>

WriteCommand ==
  /\ cli
  /\ recovery' = "queued"
  /\ reconnect' = TRUE
  /\ cli' = FALSE
  /\ UNCHANGED <<attached, config, snapshot, request, processing,
                 reconnecting, pc, post, start, crashes>>

-----------------------------------------------------------------------------
(* The supervisor: a tick of the controller.                               *)

(* Mutant: what a tick left behind when it died stays.                     *)
KeepLeftOver == UNCHANGED processing

DropLeftOver == processing' = NoRequest

LeftOver ==
  /\ pc = "tick" /\ processing # NoRequest
  /\ snapshot' = Published(FALSE)
  /\ DropLeftOver
  /\ UNCHANGED <<attached, config, request, reconnect, reconnecting,
                 recovery, pc, askers, crashes>>

NoWork ==
  /\ pc = "tick" /\ processing = NoRequest /\ request = NoRequest
  /\ snapshot' = Published(snapshot.running)
  /\ pc' = "after"
  /\ UNCHANGED <<attached, config, files, askers, crashes>>

Claim ==
  /\ pc = "tick" /\ processing = NoRequest /\ request # NoRequest
  /\ processing' = request
  /\ request' = NoRequest
  /\ snapshot' = Published(TRUE)
  /\ pc' = "process"
  /\ UNCHANGED <<attached, config, reconnect, reconnecting, recovery,
                 askers, crashes>>

(* Mutant: the session of a request is not compared.                       *)
ValidInAnySession ==
  /\ processing.action # "configure" => processing.source \in attached
  /\ processing.action = "configure" => processing.source # config.active

(* validate_request; a request may also have expired.                      *)
Valid ==
  /\ processing.current
  /\ processing.action # "configure" => processing.source \in attached
  /\ processing.action = "configure" => processing.source # config.active

Refuse ==
  /\ pc = "process"
  /\ pc' = "report"
  /\ UNCHANGED <<attached, config, snapshot, files, askers, crashes>>

Configure ==
  /\ pc = "process" /\ Valid /\ processing.action = "configure"
  /\ config' = [config EXCEPT !.configured = @ \cup {processing.source}]
  /\ pc' = "report"
  /\ UNCHANGED <<attached, snapshot, files, askers, crashes>>

Validate ==
  /\ pc = "process" /\ Valid /\ processing.action = "validate"
  /\ pc' = "report"
  /\ UNCHANGED <<attached, config, snapshot, files, askers, crashes>>

BeginSwitch ==
  /\ pc = "process" /\ Valid /\ processing.action = "activate"
  /\ pc' = "switch"
  /\ UNCHANGED <<attached, config, snapshot, files, askers, crashes>>

(* start.sh finds its lock free and the adapter attached, and the bridge   *)
(* passes traffic: or it does not.                                         *)
EndSwitch ==
  /\ pc = "switch"
  /\ \/ start = "none" /\ processing.source \in attached /\ pc' = "commit"
     \/ pc' = "rollback"
  /\ UNCHANGED <<attached, config, snapshot, files, askers, crashes>>

(* Mutant: the adapter that was switched to is not saved.                  *)
CommitSourceOnly ==
  /\ pc = "commit"
  /\ NewSession(processing.source, config.configured)
  /\ pc' = "report"
  /\ UNCHANGED <<attached, snapshot, reconnect, reconnecting, recovery,
                 cli, start, crashes>>

Commit ==
  /\ pc = "commit"
  /\ NewSession(processing.source, config.configured \cup {processing.source})
  /\ pc' = "report"
  /\ UNCHANGED <<attached, snapshot, reconnect, reconnecting, recovery,
                 cli, start, crashes>>

Rollback ==
  /\ pc = "rollback"
  /\ \/ /\ start = "none" /\ config.active \in attached
        /\ NewSession(config.active, config.configured)
     \/ UNCHANGED <<config, request, processing, post>>
  /\ pc' = "report"
  /\ UNCHANGED <<attached, snapshot, reconnect, reconnecting, recovery,
                 cli, start, crashes>>

Report ==
  /\ pc = "report"
  /\ snapshot' = Published(FALSE)
  /\ pc' = "unlink"
  /\ UNCHANGED <<attached, config, files, askers, crashes>>

Unlink ==
  /\ pc = "unlink"
  /\ processing' = NoRequest
  /\ pc' = "after"
  /\ UNCHANGED <<attached, config, snapshot, request, reconnect,
                 reconnecting, recovery, askers, crashes>>

-----------------------------------------------------------------------------
(* The supervisor: after the tick.                                         *)

(* Nothing is asked, or the phone is not the source.                       *)
Sleep ==
  /\ pc = "after"
  /\ config.active = "router" \/ ~reconnect
  /\ pc' = "tick"
  /\ UNCHANGED <<attached, config, snapshot, files, askers, crashes>>

TakeReconnect ==
  /\ pc = "after" /\ config.active = "iphone" /\ reconnect
  /\ reconnect' = FALSE
  /\ reconnecting' = TRUE
  /\ recovery' = "running"
  /\ pc' = "choose"
  /\ UNCHANGED <<attached, config, snapshot, request, processing, askers,
                 crashes>>

(* The phone has a route, the bridge has not.                              *)
AutomaticReconnect ==
  /\ pc = "after" /\ config.active = "iphone" /\ ~reconnect
  /\ "iphone" \in attached
  /\ recovery' = "running"
  /\ pc' = "choose"
  /\ UNCHANGED <<attached, config, snapshot, request, processing, reconnect,
                 reconnecting, askers, crashes>>

(* start.sh without a source: it makes the choice of a startup, unless it  *)
(* stops before.                                                           *)
ChooseSource ==
  /\ pc = "choose"
  /\ \/ /\ start = "none"
        /\ \E s \in attached : Choose(s)
        /\ pc' = "bridge"
     \/ /\ UNCHANGED <<config, snapshot, request, processing, post>>
        /\ pc' = "remove"
  /\ UNCHANGED <<attached, reconnect, reconnecting, recovery, cli, start,
                 crashes>>

(* With whatever outcome.                                                  *)
EndReconnect ==
  /\ pc = "bridge"
  /\ pc' = "remove"
  /\ UNCHANGED <<attached, config, snapshot, files, askers, crashes>>

(* A request that came meanwhile is met by the same reconnect.             *)
RemoveReconnect ==
  /\ pc = "remove"
  /\ reconnect' = FALSE
  /\ reconnecting' = FALSE
  /\ pc' = "close"
  /\ UNCHANGED <<attached, config, snapshot, request, processing, recovery,
                 askers, crashes>>

CloseReconnect ==
  /\ pc = "close"
  /\ recovery' = "idle"
  /\ pc' = "tick"
  /\ UNCHANGED <<attached, config, snapshot, request, processing, reconnect,
                 reconnecting, askers, crashes>>

(* A status that says active for five minutes is taken for failed.         *)
StatusStale ==
  /\ recovery # "idle"
  /\ recovery' = "idle"
  /\ UNCHANGED <<attached, config, snapshot, request, processing, reconnect,
                 reconnecting, pc, askers, crashes>>

-----------------------------------------------------------------------------
(* The supervisor dies, alone or with the host, and is started again.      *)

Crash ==
  /\ pc # "down" /\ crashes < MaxCrashes
  /\ crashes' = crashes + 1
  /\ pc' = "down"
  /\ cli' \in {cli, FALSE}
  /\ UNCHANGED <<attached, config, snapshot, files, post, start>>

Restart ==
  /\ pc = "down"
  /\ IF reconnecting THEN reconnecting' = FALSE /\ recovery' = "idle"
     ELSE UNCHANGED <<reconnecting, recovery>>
  /\ pc' = "tick"
  /\ UNCHANGED <<attached, config, snapshot, request, processing, reconnect,
                 askers, crashes>>

(* start.sh by hand: its lock, then the choice of a source under the       *)
(* controller's lock.                                                      *)
LockStart ==
  /\ start = "none" /\ pc \notin InStart /\ crashes < MaxCrashes
  /\ crashes' = crashes + 1
  /\ start' = "locked"
  /\ UNCHANGED <<attached, config, snapshot, files, pc, post, cli>>

ChooseStart ==
  /\ start = "locked" /\ pc \notin InTick
  /\ \/ (\E s \in attached : Choose(s)) /\ start' = "chosen"
     \/ /\ UNCHANGED <<config, snapshot, request, processing, post>>
        /\ start' = "none"
  /\ UNCHANGED <<attached, reconnect, reconnecting, recovery, pc, cli,
                 crashes>>

(* start.sh ends, and if all went well the supervisor is replaced.         *)
EndStart ==
  /\ start = "chosen"
  /\ pc' \in {pc, "down"}
  /\ start' = "none"
  /\ UNCHANGED <<attached, config, snapshot, files, post, cli, crashes>>

-----------------------------------------------------------------------------
Init ==
  /\ attached \in SUBSET Sources
  /\ config \in {[active |-> "iphone", configured |-> {"iphone"}]}
  /\ snapshot = [active |-> "iphone", current |-> TRUE, running |-> FALSE]
  /\ request = NoRequest /\ processing = NoRequest
  /\ reconnect = FALSE /\ reconnecting = FALSE
  /\ recovery = "idle"
  /\ pc = "tick"
  /\ post = NoPost
  /\ cli = FALSE
  /\ start = "none"
  /\ crashes = 0

Tick ==
  \/ LeftOver \/ NoWork \/ Claim
  \/ Refuse \/ Configure \/ Validate \/ BeginSwitch
  \/ EndSwitch \/ Commit \/ Rollback \/ Report \/ Unlink

Reconnect ==
  \/ Sleep \/ TakeReconnect \/ AutomaticReconnect
  \/ ChooseSource \/ EndReconnect \/ RemoveReconnect \/ CloseReconnect

Next ==
  \/ \E s \in Sources : Plug(s)
  \/ \E a \in Actions, s \in Sources : AdmitSource(a, s)
  \/ LinkRequest \/ AdmitReconnect \/ QueueReconnect \/ WriteReconnect
  \/ LosePost \/ AdmitCommand \/ WriteCommand
  \/ Tick \/ Reconnect \/ StatusStale
  \/ Crash \/ Restart
  \/ LockStart \/ ChooseStart \/ EndStart

Spec == Init /\ [][Next]_vars

(* launchd keeps the supervisor running, and its loop goes round.          *)
Fairness == WF_vars(Tick \/ Reconnect \/ Restart)

FairSpec == Spec /\ Fairness

-----------------------------------------------------------------------------
(* The source changes only as asked in the session it changes in, or when  *)
(* start.sh makes its choice because the selected one is not attached.     *)
ChangesAsAsked ==
  [][config'.active # config.active =>
       \/ /\ processing # NoRequest
          /\ processing.action = "activate" /\ processing.current
          /\ processing.source = config'.active
       \/ pc \notin InTick /\ config.active \notin attached]_vars

(* No request is left lying, whatever died in between: a file that blocks  *)
(* further requests goes, except that a reconnect asked for is not taken   *)
(* while the router is the source.                                         *)
NothingBlocks ==
  /\ request # NoRequest ~> request = NoRequest
  /\ processing # NoRequest ~> processing = NoRequest
  /\ reconnecting ~> ~reconnecting
  /\ []<>(reconnect => config.active = "router")

(* Requests are carried out as asked, and each of them ends.               *)
RequestsServed == ChangesAsAsked /\ NothingBlocks

=============================================================================
