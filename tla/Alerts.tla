------------------------------- MODULE Alerts -------------------------------
(***************************************************************************)
(* The Telegram alerts (alerts/manager.go): one goroutine compares the     *)
(* nodes with what it saw last, queues an alert for each transition and    *)
(* delivers the queue, while requests save or remove the recipient. The    *)
(* lock is free while a batch is delivered and while a save asks Telegram  *)
(* about the bot.                                                          *)
(*                                                                         *)
(* What was seen and what is queued is one file, written under the lock    *)
(* after every change, so a crash loses only what is under way; the        *)
(* settings are another file. A recipient is a chat of a bot. The process  *)
(* may get a token from its environment, and a chat with it: they take the *)
(* place of what is saved whenever it starts.                              *)
(*                                                                         *)
(* Abstracted: the batch window, the minute before a retry and the hours   *)
(* between reminders may have passed or not; a batch of one and a digest   *)
(* are sequences of messages; failures of a replaced address count as      *)
(* failures, its success as a recovery, and are asked for with them;       *)
(* address changes and the network's own alert, delivery routes and the    *)
(* test message are left out, and so are files that cannot be written.     *)
(* The environment is the same at every start.                             *)
(***************************************************************************)
EXTENDS Naturals, Sequences, FiniteSets, SequencesExt

CONSTANTS
  Nodes,        \* by server
  States,       \* the states of a node that may occur, of those below
  Recipients,
  Requests,     \* [recipient, enabled, wanted, withToken]: asked to save
  Environments, \* the chat given to the process with a token, NoRecipient
                \* when it is a token only, Unmanaged when there is none
  NoRecipient, Unmanaged, NoScan, NoFlight,
  MaxPending,   \* bound: alerts in the queue
  MaxSaves,     \* bound: saves at a time
  MaxCrashes    \* bound: crashes and new sessions

VARIABLES
  status,     \* state of each node in collectNodes, or "absent"
  settings,   \* m.settings, m.token and what the environment gives
  state,      \* m.state and its file
  scan,       \* what collectNodes returned, while it waits for the lock
  flight,     \* the batch that flush is delivering
  saves,      \* saves that have read the previous settings
  torn,       \* auxiliary: alerts may be queued for somebody else
  told,       \* auxiliary: what this recipient read since the last reset
  crashes

vars == <<status, settings, state, scan, flight, saves, torn, told, crashes>>

NodeStates == {"critical", "verifying", "unstable", "healthy", "unclear"}
Down == {"critical", "reminder"}
Kinds == Down \cup {"unstable", "recovered"}
Alerts == [kind : Kinds, node : Nodes, for : Recipients]

EmptyState == [initialized |-> FALSE, nodes |-> <<>>, pending |-> <<>>]
Untold == [n \in Nodes |-> "nothing"]

ASSUME AlertsAssumption ==
  /\ States \subseteq NodeStates
  /\ {NoRecipient, Unmanaged} \cap Recipients = {}
  /\ NoRecipient # Unmanaged
  /\ Environments \subseteq Recipients \cup {NoRecipient, Unmanaged}
  /\ Requests \subseteq [recipient : Recipients, enabled : BOOLEAN,
                         wanted : SUBSET Kinds, withToken : BOOLEAN]
  /\ IsFiniteSet(Nodes)
  /\ {MaxPending, MaxSaves, MaxCrashes} \subseteq Nat

Settings == [recipient : Recipients \cup {NoRecipient}, token : BOOLEAN,
             enabled : BOOLEAN, wanted : SUBSET Kinds,
             env : Environments]
Observed == [state : NodeStates, alerted : BOOLEAN, missed : BOOLEAN]
Queues == BoundedSeq(Alerts, MaxPending)
Memory == [initialized : BOOLEAN,
           nodes : UNION {[s -> Observed] : s \in SUBSET Nodes},
           pending : Queues]
Batch == [left : Queues, to : Recipients, mixed : SUBSET Nodes,
          reset : BOOLEAN, torn : BOOLEAN]

TypeOK ==
  /\ status \in [Nodes -> States \cup {"absent"}]
  /\ settings \in Settings
  /\ state \in Memory
  /\ scan = NoScan \/ \E s \in SUBSET Nodes : scan \in [s -> States]
  /\ flight = NoFlight \/ flight \in Batch
  /\ saves \subseteq [request : Requests, previous : Settings]
  /\ torn \in BOOLEAN
  /\ told \in [Nodes -> {"nothing", "down", "up", "mixed"}]
  /\ crashes \in 0..MaxCrashes

Configured(s) == s.token /\ s.recipient # NoRecipient
Active == settings.enabled /\ Configured(settings)

-----------------------------------------------------------------------------
(* evaluate.                                                               *)

(* The checker's nodes change.                                             *)
Change(n, s) ==
  /\ status' = [status EXCEPT ![n] = s]
  /\ UNCHANGED <<settings, state, scan, flight, saves, torn, told, crashes>>

(* Mutant: a scan while a batch is on its way.                             *)
IdleWhileSending == scan = NoScan

(* The goroutine is between two rounds.                                    *)
Idle == scan = NoScan /\ flight = NoFlight

(* Up to the lock.                                                         *)
CollectNodes ==
  /\ Active
  /\ Idle
  /\ Len(state.pending) + Cardinality(Nodes) <= MaxPending
  /\ scan' = [n \in {m \in Nodes : status[m] # "absent"} |-> status[n]]
  /\ UNCHANGED <<status, settings, state, flight, saves, torn, told, crashes>>

Known(n) == n \in DOMAIN state.nodes
Was(n) == IF Known(n) THEN state.nodes[n].state ELSE "unknown"
Alerted(n) == Known(n) /\ state.nodes[n].alerted

(* Mutant: what was critical from the start is not worth a reminder.       *)
RemindsOfAlerted(n, due) == Alerted(n) /\ n \in due

(* RepeatHours have passed, also since an alert that never was.            *)
Reminds(n, due) == ~Alerted(n) \/ n \in due

(* The kind of alert that the new state of a node gives, or "none". A node *)
(* not known before is reported when it was checked since the last scan.   *)
Kind(n, due) ==
  LET kind ==
        CASE scan[n] = "critical" /\ Was(n) = "unknown" ->
               IF n \in due THEN "critical" ELSE "none"
          [] scan[n] = "critical" /\ Was(n) = "critical" ->
               IF Reminds(n, due) THEN "reminder" ELSE "none"
          [] scan[n] = "critical" /\ Was(n) \notin {"unknown", "critical"} ->
               "critical"
          [] scan[n] = "healthy"
             /\ Was(n) \in {"critical", "verifying", "unstable"} ->
               "recovered"
          [] scan[n] = "unstable" /\ Was(n) \notin {"unknown", "unstable"} ->
               "unstable"
          [] OTHER -> "none"
  IN IF kind \in settings.wanted THEN kind ELSE "none"

(* auxiliary: nothing was said of the state of a node when it came to it,  *)
(* nor since.                                                              *)
Missed(n, due) ==
  /\ Kind(n, due) = "none"
  /\ scan[n] = Was(n) => state.nodes[n].missed

(* The first scan after a reset only looks.                                *)
FirstScan ==
  [initialized |-> TRUE,
   nodes |-> [n \in DOMAIN scan |-> [state |-> scan[n], alerted |-> FALSE,
                                    missed |-> scan[n] = "critical"]],
   pending |-> state.pending]

(* The alerts that a scan adds to the queue.                               *)
Raised(due) ==
  LET alerts == {n \in DOMAIN scan : Kind(n, due) # "none"}
  IN [i \in 1..Cardinality(alerts) |->
        LET n == SetToSeq(alerts)[i]
        IN [kind |-> Kind(n, due), node |-> n, for |-> settings.recipient]]

NextScan(due, forgotten) ==
  [initialized |-> TRUE,
   nodes |->
     [n \in (DOMAIN state.nodes \cup DOMAIN scan) \ forgotten |->
        IF n \in DOMAIN scan
        THEN [state |-> scan[n],
              alerted |-> Alerted(n) \/ Kind(n, due) \in Down,
              missed |-> Missed(n, due)]
        ELSE state.nodes[n]],
   pending |-> state.pending \o Raised(due)]

Judge(due) ==
  /\ scan # NoScan
  /\ \E forgotten \in SUBSET (DOMAIN state.nodes \ DOMAIN scan) :
       state' = IF state.initialized THEN NextScan(due, forgotten)
                ELSE FirstScan
  /\ scan' = NoScan
  /\ UNCHANGED <<status, settings, flight, saves, torn, told, crashes>>

-----------------------------------------------------------------------------
(* flush.                                                                  *)

Have(alerts, kinds, n) ==
  \E i \in DOMAIN alerts : alerts[i].kind \in kinds /\ alerts[i].node = n

(* formatNotifications: what is down, what is unstable, what recovered,    *)
(* each in the order it was queued.                                        *)
Group(kind) == IF kind \in Down THEN 1 ELSE IF kind = "unstable" THEN 2 ELSE 3

Ahead(alerts, i, j) ==
  \/ Group(alerts[i].kind) < Group(alerts[j].kind)
  \/ Group(alerts[i].kind) = Group(alerts[j].kind) /\ i < j

Place(alerts, i) ==
  1 + Cardinality({j \in DOMAIN alerts : Ahead(alerts, j, i)})

Digest(alerts) ==
  [p \in DOMAIN alerts |->
     alerts[CHOOSE i \in DOMAIN alerts : Place(alerts, i) = p]]

StartFlush ==
  /\ Idle
  /\ state.pending # <<>> /\ Configured(settings)
  /\ flight' = [left |-> Digest(state.pending),
                to |-> settings.recipient,
                mixed |-> {n \in Nodes :
                             /\ Have(state.pending, Down, n)
                             /\ Have(state.pending, {"recovered"}, n)},
                reset |-> FALSE,
                torn |-> torn]
  /\ UNCHANGED <<status, settings, state, scan, saves, torn, told, crashes>>

(* Mutant: the chat is read when a message is sent.                        *)
CurrentRecipient == settings.recipient

Recipient == flight.to

(* auxiliary: the recipient has read the next k alerts of the batch.       *)
Tell(k) ==
  told' = [n \in Nodes |->
    LET read == SubSeq(flight.left, 1, k)
    IN IF flight.reset \/ ~Have(read, Down \cup {"recovered"}, n)
       THEN told[n]
       ELSE IF n \in flight.mixed THEN "mixed"
       ELSE IF Have(read, Down, n) THEN "down" ELSE "up"]

(* A message holds the next alerts of the digest.                          *)
SendMessage(k) ==
  /\ flight # NoFlight
  /\ k \in DOMAIN flight.left
  /\ Tell(k)
  /\ flight' = [flight EXCEPT !.left = SubSeq(@, k + 1, Len(@))]
  /\ UNCHANGED <<status, settings, state, scan, saves, torn, crashes>>

(* No route delivers a message; the last of them may have lost only the    *)
(* answer.                                                                 *)
FailMessage ==
  /\ flight # NoFlight
  /\ flight.left # <<>>
  /\ \E k \in 0..Len(flight.left) : Tell(k)
  /\ flight' = NoFlight
  /\ UNCHANGED <<status, settings, state, scan, saves, torn, crashes>>

(* The queue is emptied, whatever it holds by now.                         *)
FinishFlush ==
  /\ flight # NoFlight
  /\ flight.left = <<>>
  /\ state' = [state EXCEPT !.pending = <<>>]
  /\ flight' = NoFlight
  /\ UNCHANGED <<status, settings, scan, saves, torn, told, crashes>>

-----------------------------------------------------------------------------
(* Save and Disconnect.                                                    *)

(* Mutant: the next scan is not taken for the first.                       *)
ResetQueueOnly ==
  /\ state' = [EmptyState EXCEPT !.initialized = state.initialized]
  /\ told' = Untold
  /\ torn' = FALSE

Reset ==
  /\ state' = EmptyState
  /\ told' = Untold
  /\ torn' = FALSE

(* The state stays; auxiliary: a new recipient has read nothing yet.       *)
Keep ==
  IF settings'.recipient = settings.recipient THEN UNCHANGED <<state, told>>
  ELSE /\ state' = [state EXCEPT !.nodes =
                      [n \in DOMAIN state.nodes |->
                         [state.nodes[n] EXCEPT !.missed = TRUE]]]
       /\ told' = Untold

(* The previous settings are read; then Telegram may be asked.             *)
BeginSave(request) ==
  /\ Cardinality(saves) < MaxSaves
  /\ request.withToken \/ settings.token
  /\ saves' = saves \cup {[request |-> request, previous |-> settings]}
  /\ UNCHANGED <<status, settings, state, scan, flight, torn, told, crashes>>

Saved(request) ==
  [settings EXCEPT !.recipient = request.recipient,
                   !.token = @ \/ request.withToken,
                   !.enabled = request.enabled,
                   !.wanted = request.wanted]

Resets(request, previous) ==
  \/ previous.recipient # request.recipient
  \/ ~Configured(previous)
  \/ previous.enabled # request.enabled

(* auxiliary: the batch on its way is not of this queue and its recipient. *)
InFlight(reset) ==
  IF reset /\ flight # NoFlight THEN [flight EXCEPT !.reset = TRUE] ELSE flight

(* auxiliary: a save that compared with settings that are no longer those  *)
(* of the manager may keep a queue it should have dropped.                 *)
CommitSave(s) ==
  /\ settings' = Saved(s.request)
  /\ IF Resets(s.request, s.previous) THEN Reset
     ELSE Keep /\ torn' = (torn \/ s.previous # settings)
  /\ flight' = InFlight(\/ Resets(s.request, s.previous)
                       \/ settings'.recipient # settings.recipient)
  /\ saves' = saves \ {s}
  /\ UNCHANGED <<status, scan, crashes>>

(* Telegram rejects the bot, or a file cannot be written.                  *)
RejectSave(s) ==
  /\ saves' = saves \ {s}
  /\ UNCHANGED <<status, settings, state, scan, flight, torn, told, crashes>>

Removed ==
  [settings EXCEPT !.recipient = NoRecipient, !.token = FALSE,
                   !.enabled = FALSE]

(* Refused when the environment has a token.                               *)
Disconnect ==
  /\ settings.env = Unmanaged
  /\ settings' = Removed
  /\ Reset
  /\ flight' = InFlight(TRUE)
  /\ UNCHANGED <<status, scan, saves, crashes>>

-----------------------------------------------------------------------------
(* The process dies and starts again.                                      *)

(* NewManager: the environment goes before what is saved.                  *)
Managed(s) ==
  IF s.env = Unmanaged THEN s
  ELSE [s EXCEPT !.recipient = IF s.env = NoRecipient THEN @ ELSE s.env,
                 !.token = TRUE,
                 !.enabled = TRUE]

Restart(saved) ==
  /\ crashes < MaxCrashes
  /\ crashes' = crashes + 1
  /\ settings' = Managed(saved)
  /\ scan' = NoScan
  /\ flight' = NoFlight
  /\ saves' = {}
  /\ UNCHANGED status

(* The environment's chat takes over what was queued for another.          *)
Crash ==
  /\ Restart(settings)
  /\ Keep
  /\ torn' = \/ torn
             \/ /\ state.pending # <<>>
                /\ settings'.recipient # settings.recipient

(* The token may have been written, or the settings as well, and the state *)
(* was not yet.                                                            *)
CrashInSave(s) ==
  /\ \/ Restart(Saved(s.request))
     \/ s.request.withToken /\ Restart([settings EXCEPT !.token = TRUE])
  /\ Keep
  /\ torn' = TRUE

(* The token was removed, and the settings were not yet.                   *)
CrashInDisconnect ==
  /\ settings.env = Unmanaged
  /\ Restart([settings EXCEPT !.token = FALSE])
  /\ Reset \/ UNCHANGED <<state, torn, told>>

(* start.sh: another session has another state file.                       *)
NewSession == Restart(settings) /\ Reset

-----------------------------------------------------------------------------
(* DefaultPreferences.                                                     *)
Default == Kinds \ {"unstable"}

Init ==
  /\ status \in [Nodes -> States]
  /\ \E env \in Environments :
       settings = Managed([recipient |-> NoRecipient, token |-> FALSE,
                           enabled |-> FALSE, wanted |-> Default,
                           env |-> env])
  /\ state = EmptyState
  /\ scan = NoScan
  /\ flight = NoFlight
  /\ saves = {}
  /\ torn = FALSE
  /\ told = Untold
  /\ crashes = 0

Next ==
  \/ \E n \in Nodes, s \in States \cup {"absent"} : Change(n, s)
  \/ CollectNodes
  \/ \E due \in SUBSET Nodes : Judge(due)
  \/ StartFlush \/ FailMessage \/ FinishFlush
  \/ \E k \in 1..MaxPending : SendMessage(k)
  \/ \E request \in Requests : BeginSave(request)
  \/ \E s \in saves : CommitSave(s) \/ RejectSave(s) \/ CrashInSave(s)
  \/ Disconnect \/ Crash \/ CrashInDisconnect \/ NewSession

Spec == Init /\ [][Next]_vars

(* The ticker runs; RepeatHours pass again and again; and a message that   *)
(* is tried again and again, at the same place of the digest, gets through.*)
Fairness ==
  /\ WF_vars(CollectNodes \/ (\E due \in SUBSET Nodes : Judge(due)) \/ FinishFlush)
  /\ SF_vars(Judge(Nodes))
  /\ SF_vars(StartFlush)
  /\ \A left \in 1..MaxPending :
       SF_vars(/\ flight # NoFlight /\ Len(flight.left) = left
               /\ \E k \in 1..left : SendMessage(k))

FairSpec == Spec /\ Fairness

-----------------------------------------------------------------------------
(* A batch goes to the recipient its alerts were raised for, although      *)
(* others may be saved while it waits and while it is on its way: unless   *)
(* two saves overlapped, the process died within one, or it started again  *)
(* with another chat in its environment than the one it had saved.         *)
OwnAlertsOnly ==
  flight # NoFlight =>
    \/ flight.torn
    \/ \A i \in DOMAIN flight.left : flight.left[i].for = Recipient

(* When nothing waits, what the recipient read last of a node agrees with  *)
(* what was seen of it: no transition is lost to a retry, a crash, a       *)
(* change of the preferences or an answer that got lost. Not told is what  *)
(* was not asked for at the time, or came about by way of "unclear"; and a *)
(* digest that holds both an outage and a recovery of a node does not say  *)
(* which was last.                                                         *)
AgreesAtRest ==
  state.initialized /\ state.pending = <<>> =>
    \A n \in DOMAIN state.nodes :
      LET seen == state.nodes[n]
      IN ~seen.missed =>
           /\ seen.state = "critical" => told[n] \in {"down", "mixed"}
           /\ seen.state = "healthy" => told[n] # "down"

(* A recipient that asks to be reminded is told of a node that stays       *)
(* critical, from the first scan on or since.                              *)
Informed ==
  \A n \in Nodes :
    /\ <>[](/\ status[n] = "critical" /\ Active
            /\ "reminder" \in settings.wanted)
    /\ <>[][settings' = settings]_settings
    => <>[](told[n] \in {"down", "mixed"})

=============================================================================
