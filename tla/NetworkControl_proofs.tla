------------------------ MODULE NetworkControl_proofs ------------------------
(***************************************************************************)
(* The files of the source control keep their types, and the source        *)
(* changes only as asked, however often whoever dies and whoever asks.     *)
(***************************************************************************)
EXTENDS NetworkControl, TLAPS

(* Only a request to activate, made in the present session, gets past the  *)
(* checks of `process` to start.sh: nothing begins a new session before    *)
(* its tick is over.                                                       *)
SwitchAsked ==
  pc \in {"switch", "commit", "rollback"} =>
    processing.action = "activate" /\ processing.current

IInv == TypeOK /\ SwitchAsked

-----------------------------------------------------------------------------
(* A request of an earlier session is a request.                           *)
LEMMA OldTypes ==
  ASSUME NEW r \in Requests \cup {NoRequest}
  PROVE  /\ Old(r) \in Requests \cup {NoRequest}
         /\ Old(r) = NoRequest <=> r = NoRequest
PROOF
<1>1. CASE r = NoRequest
  BY <1>1 DEF Old
<1>2. CASE r \in Requests
  BY <1>2, NetworkControlAssumption DEF Old, Requests
<1>. QED
  BY <1>1, <1>2

(* What a new session leaves well typed.                                   *)
LEMMA SessionTypes ==
  ASSUME TypeOK, NEW active \in Sources, NEW configured \in SUBSET Sources,
         active \in configured, NewSession(active, configured)
  PROVE  /\ config' \in [active : Sources, configured : SUBSET Sources]
         /\ config'.active \in config'.configured
         /\ config'.active = active
         /\ request' \in Requests \cup {NoRequest}
         /\ processing' \in Requests \cup {NoRequest}
         /\ processing' = NoRequest <=> processing = NoRequest
         /\ post' \in [step : {"none", "link", "queue", "write"},
                       request : Requests \cup {NoRequest}]
PROOF
<1>1. post' = [post EXCEPT !.request = Old(post.request)]
  BY DEF NewSession
<1>2. Old(post.request) \in Requests \cup {NoRequest}
  BY OldTypes DEF TypeOK
<1>3. post' \in [step : {"none", "link", "queue", "write"},
                 request : Requests \cup {NoRequest}]
  BY <1>1, <1>2 DEF TypeOK
<1>4. /\ request' \in Requests \cup {NoRequest}
      /\ processing' \in Requests \cup {NoRequest}
      /\ processing' = NoRequest <=> processing = NoRequest
  BY OldTypes DEF NewSession, TypeOK
<1>5. config' = [active |-> active, configured |-> configured]
  BY DEF NewSession
<1>. QED
  BY <1>3, <1>4, <1>5

(* What start.sh chooses.                                                  *)
LEMMA ChooseTypes ==
  ASSUME TypeOK, NEW s \in attached, Choose(s)
  PROVE  /\ config' \in [active : Sources, configured : SUBSET Sources]
         /\ config'.active \in config'.configured
         /\ snapshot' \in [active : Sources, current : BOOLEAN,
                           running : BOOLEAN]
         /\ request' \in Requests \cup {NoRequest}
         /\ processing' \in Requests \cup {NoRequest}
         /\ processing' = NoRequest <=> processing = NoRequest
         /\ post' \in [step : {"none", "link", "queue", "write"},
                       request : Requests \cup {NoRequest}]
         /\ config'.active # config.active => config.active \notin attached
PROOF
<1>1. s \in Sources /\ s \in config.configured
  BY DEF Choose, TypeOK, Available, Sources, Other
<1>2. config.configured \in SUBSET Sources
  BY DEF TypeOK
<1>3. NewSession(s, config.configured)
  BY DEF Choose
<1>4. s # config.active => config.active \notin attached
  BY DEF Choose, TypeOK, Available
<1>5. snapshot' \in [active : Sources, current : BOOLEAN, running : BOOLEAN]
  BY <1>1 DEF Choose, TypeOK
<1>. QED
  BY <1>1, <1>2, <1>3, <1>4, <1>5, SessionTypes

-----------------------------------------------------------------------------
LEMMA InitIInv == Init => IInv
PROOF
<1>. SUFFICES ASSUME Init
              PROVE  IInv
  OBVIOUS
<1>1. /\ attached \subseteq Sources
      /\ config \in [active : Sources, configured : SUBSET Sources]
      /\ config.active \in config.configured
      /\ snapshot \in [active : Sources, current : BOOLEAN,
                       running : BOOLEAN]
  BY DEF Init, Sources
<1>2. /\ post \in [step : {"none", "link", "queue", "write"},
                   request : Requests \cup {NoRequest}]
      /\ crashes \in 0..MaxCrashes
  BY NetworkControlAssumption DEF Init, NoPost
<1>3. TypeOK
  BY <1>1, <1>2 DEF Init, TypeOK, InTick, InStart
<1>4. SwitchAsked
  BY DEF Init, SwitchAsked
<1>. QED
  BY <1>3, <1>4 DEF IInv

(* The files and the askers.                                               *)
LEMMA AskersKeep ==
  ASSUME IInv,
         \/ \E s \in Sources : Plug(s)
         \/ \E a \in Actions, s \in Sources : AdmitSource(a, s)
         \/ LinkRequest \/ AdmitReconnect \/ QueueReconnect
         \/ WriteReconnect \/ LosePost \/ AdmitCommand \/ WriteCommand
  PROVE  IInv' /\ config' = config
PROOF
<1>. USE NetworkControlAssumption DEF files, askers
<1>1. ASSUME NEW s \in Sources, Plug(s)
      PROVE  IInv' /\ config' = config
  BY <1>1 DEF Plug, IInv, TypeOK, SwitchAsked
<1>2. ASSUME NEW a \in Actions, NEW s \in Sources, AdmitSource(a, s)
      PROVE  IInv' /\ config' = config
  <2>1. [action |-> a, source |-> s, current |-> snapshot.current]
          \in Requests
    BY DEF Requests, IInv, TypeOK
  <2>2. post' \in [step : {"none", "link", "queue", "write"},
                   request : Requests \cup {NoRequest}]
    BY <1>2, <2>1 DEF AdmitSource
  <2>. QED
    BY <1>2, <2>2 DEF AdmitSource, IInv, TypeOK, SwitchAsked
<1>3. CASE LinkRequest
  BY <1>3 DEF LinkRequest, NoPost, IInv, TypeOK, SwitchAsked
<1>4. CASE AdmitReconnect
  BY <1>4 DEF AdmitReconnect, NoPost, IInv, TypeOK, SwitchAsked
<1>5. CASE QueueReconnect
  BY <1>5 DEF QueueReconnect, IInv, TypeOK, SwitchAsked
<1>6. CASE WriteReconnect
  BY <1>6 DEF WriteReconnect, NoPost, IInv, TypeOK, SwitchAsked
<1>7. CASE LosePost
  BY <1>7 DEF LosePost, NoPost, IInv, TypeOK, SwitchAsked
<1>8. CASE AdmitCommand
  BY <1>8 DEF AdmitCommand, IInv, TypeOK, SwitchAsked
<1>9. CASE WriteCommand
  <2>1. /\ {reconnect', reconnecting', cli'} \subseteq BOOLEAN
        /\ recovery' \in {"idle", "queued", "running"}
    BY <1>9 DEF WriteCommand, IInv, TypeOK
  <2>. QED
    BY <1>9, <2>1 DEF WriteCommand, IInv, TypeOK, SwitchAsked
<1>. QED
  BY <1>1, <1>2, <1>3, <1>4, <1>5, <1>6, <1>7, <1>8, <1>9

(* The controller's tick: only Commit changes the source.                  *)
LEMMA TickKeeps ==
  ASSUME IInv, Tick
  PROVE  /\ IInv'
         /\ config'.active # config.active =>
              Commit /\ config'.active = processing.source
PROOF
<1>. USE NetworkControlAssumption DEF files, askers
<1>1. CASE LeftOver \/ NoWork \/ Claim
  <2>1. snapshot' \in [active : Sources, current : BOOLEAN,
                       running : BOOLEAN]
    <3>1. /\ config.active \in Sources
          /\ snapshot.running \in BOOLEAN
      BY DEF IInv, TypeOK
    <3>2. \A r \in BOOLEAN :
            Published(r) \in [active : Sources, current : BOOLEAN,
                             running : BOOLEAN]
      BY <3>1 DEF Published
    <3>3. \E r \in BOOLEAN : snapshot' = Published(r)
      BY <1>1, <3>1 DEF LeftOver, NoWork, Claim
    <3>. QED
      BY <3>2, <3>3
  <2>2. CASE LeftOver
    BY <2>1, <2>2 DEF LeftOver, DropLeftOver, IInv, TypeOK, SwitchAsked,
                      InTick
  <2>3. CASE NoWork
    BY <2>1, <2>3 DEF NoWork, IInv, TypeOK, SwitchAsked, InTick
  <2>4. CASE Claim
    BY <2>1, <2>4 DEF Claim, IInv, TypeOK, SwitchAsked, InTick
  <2>. QED
    BY <1>1, <2>2, <2>3, <2>4
<1>2. CASE Refuse
  BY <1>2 DEF Refuse, IInv, TypeOK, SwitchAsked, InTick
<1>3. CASE Configure
  <2>1. processing.source \in Sources
    BY <1>3 DEF Configure, IInv, TypeOK, InTick, Requests
  <2>2. /\ config' \in [active : Sources, configured : SUBSET Sources]
        /\ config'.active \in config'.configured
        /\ config'.active = config.active
    BY <1>3, <2>1 DEF Configure, IInv, TypeOK
  <2>. QED
    BY <1>3, <2>2 DEF Configure, IInv, TypeOK, SwitchAsked, InTick
<1>4. CASE Validate
  BY <1>4 DEF Validate, IInv, TypeOK, SwitchAsked, InTick
<1>5. CASE BeginSwitch
  BY <1>5 DEF BeginSwitch, Valid, IInv, TypeOK, SwitchAsked, InTick
<1>6. CASE EndSwitch
  BY <1>6 DEF EndSwitch, IInv, TypeOK, SwitchAsked, InTick
<1>7. CASE Commit
  <2>1. processing \in Requests /\ processing # NoRequest
    BY <1>7 DEF Commit, IInv, TypeOK, InTick
  <2>2. processing.source \in Sources
    BY <2>1 DEF Requests
  <2>3. config.configured \cup {processing.source} \in SUBSET Sources
    BY <2>2 DEF IInv, TypeOK
  <2>4. NewSession(processing.source,
                   config.configured \cup {processing.source})
    BY <1>7 DEF Commit
  <2>5. /\ config' \in [active : Sources, configured : SUBSET Sources]
        /\ config'.active \in config'.configured
        /\ config'.active = processing.source
        /\ request' \in Requests \cup {NoRequest}
        /\ processing' \in Requests \cup {NoRequest}
        /\ processing' = NoRequest <=> processing = NoRequest
        /\ post' \in [step : {"none", "link", "queue", "write"},
                      request : Requests \cup {NoRequest}]
    BY <2>2, <2>3, <2>4, SessionTypes DEF IInv
  <2>. QED
    BY <1>7, <2>1, <2>5 DEF Commit, IInv, TypeOK, SwitchAsked, InTick
<1>8. CASE Rollback
  <2>1. CASE NewSession(config.active, config.configured)
    <3>1. /\ config.active \in Sources
          /\ config.configured \in SUBSET Sources
          /\ config.active \in config.configured
      BY DEF IInv, TypeOK
    <3>2. /\ config' \in [active : Sources, configured : SUBSET Sources]
          /\ config'.active \in config'.configured
          /\ config'.active = config.active
          /\ request' \in Requests \cup {NoRequest}
          /\ processing' \in Requests \cup {NoRequest}
          /\ processing' = NoRequest <=> processing = NoRequest
          /\ post' \in [step : {"none", "link", "queue", "write"},
                        request : Requests \cup {NoRequest}]
      BY <2>1, <3>1, SessionTypes DEF IInv
    <3>. QED
      BY <1>8, <3>2 DEF Rollback, IInv, TypeOK, SwitchAsked, InTick
  <2>2. CASE UNCHANGED <<config, request, processing, post>>
    BY <1>8, <2>2 DEF Rollback, IInv, TypeOK, SwitchAsked, InTick
  <2>. QED
    BY <1>8, <2>1, <2>2 DEF Rollback
<1>9. CASE Report
  <2>1. snapshot' \in [active : Sources, current : BOOLEAN,
                       running : BOOLEAN]
    BY <1>9 DEF Report, Published, IInv, TypeOK
  <2>. QED
    BY <1>9, <2>1 DEF Report, IInv, TypeOK, SwitchAsked, InTick
<1>10. CASE Unlink
  BY <1>10 DEF Unlink, IInv, TypeOK, SwitchAsked, InTick
<1>. QED
  BY <1>1, <1>2, <1>3, <1>4, <1>5, <1>6, <1>7, <1>8, <1>9, <1>10 DEF Tick

(* start.sh, run by the supervisor or by hand.                             *)
LEMMA ChoiceKeeps ==
  ASSUME IInv, ChooseSource \/ ChooseStart
  PROVE  /\ IInv'
         /\ config'.active # config.active =>
              pc \notin InTick /\ config.active \notin attached
PROOF
<1>. USE NetworkControlAssumption DEF files, askers
<1>1. pc \notin InTick
  BY DEF ChooseSource, ChooseStart, InTick
<1>2. CASE \E s \in attached : Choose(s)
  <2>1. /\ config' \in [active : Sources, configured : SUBSET Sources]
        /\ config'.active \in config'.configured
        /\ snapshot' \in [active : Sources, current : BOOLEAN,
                          running : BOOLEAN]
        /\ request' \in Requests \cup {NoRequest}
        /\ processing' \in Requests \cup {NoRequest}
        /\ processing' = NoRequest <=> processing = NoRequest
        /\ post' \in [step : {"none", "link", "queue", "write"},
                      request : Requests \cup {NoRequest}]
        /\ config'.active # config.active => config.active \notin attached
    BY <1>2, ChooseTypes DEF IInv
  <2>2. CASE ChooseSource
    BY <1>1, <2>1, <2>2
    DEF ChooseSource, IInv, TypeOK, SwitchAsked, InTick, InStart
  <2>3. CASE ChooseStart
    BY <1>1, <2>1, <2>3
    DEF ChooseStart, IInv, TypeOK, SwitchAsked, InTick
  <2>. QED
    BY <2>2, <2>3
<1>3. CASE UNCHANGED <<config, snapshot, request, processing, post>>
  <2>1. CASE ChooseSource
    BY <1>1, <1>3, <2>1
    DEF ChooseSource, IInv, TypeOK, SwitchAsked, InTick, InStart
  <2>2. CASE ChooseStart
    BY <1>1, <1>3, <2>2
    DEF ChooseStart, IInv, TypeOK, SwitchAsked, InTick
  <2>. QED
    BY <2>1, <2>2
<1>. QED
  BY <1>2, <1>3 DEF ChooseSource, ChooseStart

(* The rest of the supervisor and of start.sh.                             *)
LEMMA SupervisorKeeps ==
  ASSUME IInv,
         \/ Sleep \/ TakeReconnect \/ AutomaticReconnect
         \/ EndReconnect \/ RemoveReconnect \/ CloseReconnect
         \/ StatusStale \/ Crash \/ Restart \/ LockStart \/ EndStart
  PROVE  IInv' /\ config' = config
PROOF
<1>. USE NetworkControlAssumption
     DEF files, askers, IInv, TypeOK, SwitchAsked, InTick, InStart
<1>1. CASE Sleep
  BY <1>1 DEF Sleep
<1>2. CASE TakeReconnect
  BY <1>2 DEF TakeReconnect
<1>3. CASE AutomaticReconnect
  BY <1>3 DEF AutomaticReconnect
<1>4. CASE EndReconnect
  BY <1>4 DEF EndReconnect
<1>5. CASE RemoveReconnect
  BY <1>5 DEF RemoveReconnect
<1>6. CASE CloseReconnect
  BY <1>6 DEF CloseReconnect
<1>7. CASE StatusStale
  BY <1>7 DEF StatusStale
<1>8. CASE Crash
  <2>1. cli' \in BOOLEAN
    BY <1>8 DEF Crash
  <2>2. {reconnect', reconnecting', cli'} \subseteq BOOLEAN
    BY <1>8, <2>1 DEF Crash
  <2>3. crashes' \in 0..MaxCrashes
    BY <1>8 DEF Crash
  <2>. QED
    BY <1>8, <2>2, <2>3 DEF Crash
<1>9. CASE Restart
  BY <1>9 DEF Restart
<1>10. CASE LockStart
  BY <1>10 DEF LockStart
<1>11. CASE EndStart
  BY <1>11 DEF EndStart
<1>. QED
  BY <1>1, <1>2, <1>3, <1>4, <1>5, <1>6, <1>7, <1>8, <1>9, <1>10, <1>11

-----------------------------------------------------------------------------
(* A step keeps the invariant and changes the source only as asked.        *)
LEMMA NextKeeps ==
  ASSUME IInv, [Next]_vars
  PROVE  /\ IInv'
         /\ config'.active # config.active =>
              \/ /\ processing # NoRequest
                 /\ processing.action = "activate" /\ processing.current
                 /\ processing.source = config'.active
              \/ pc \notin InTick /\ config.active \notin attached
PROOF
<1>1. CASE Tick
  <2>1. /\ IInv'
        /\ config'.active # config.active =>
             Commit /\ config'.active = processing.source
    BY <1>1, TickKeeps
  <2>2. Commit => /\ processing # NoRequest
                  /\ processing.action = "activate"
                  /\ processing.current
    BY DEF Commit, IInv, TypeOK, SwitchAsked, InTick
  <2>. QED
    BY <2>1, <2>2
<1>2. CASE ChooseSource \/ ChooseStart
  BY <1>2, ChoiceKeeps
<1>3. CASE \/ Sleep \/ TakeReconnect \/ AutomaticReconnect
           \/ EndReconnect \/ RemoveReconnect \/ CloseReconnect
           \/ StatusStale \/ Crash \/ Restart \/ LockStart \/ EndStart
  BY <1>3, SupervisorKeeps
<1>4. CASE \/ \E s \in Sources : Plug(s)
           \/ \E a \in Actions, s \in Sources : AdmitSource(a, s)
           \/ LinkRequest \/ AdmitReconnect \/ QueueReconnect
           \/ WriteReconnect \/ LosePost \/ AdmitCommand \/ WriteCommand
  BY <1>4, AskersKeep
<1>5. CASE UNCHANGED vars
  BY <1>5 DEF vars, files, askers, IInv, TypeOK, SwitchAsked
<1>. QED
  BY <1>1, <1>2, <1>3, <1>4, <1>5 DEF Next, Reconnect

(* The files of the source control and of the recovery always hold what    *)
(* the program may write there, the selected source has an adapter, and a  *)
(* tick that processes a request has one.                                  *)
THEOREM NetworkTypes == Spec => []TypeOK
PROOF
<1>1. Init => IInv
  BY InitIInv
<1>2. IInv /\ [Next]_vars => IInv'
  BY NextKeeps
<1>3. IInv => TypeOK
  BY DEF IInv
<1>. QED
  BY <1>1, <1>2, <1>3, PTL DEF Spec

(* However requests, reconnects, runs of start.sh and deaths interleave,   *)
(* the source changes only to what a request of the present session asks   *)
(* for, or by the choice start.sh makes when the selected one is detached. *)
THEOREM SourceAsAsked == Spec => ChangesAsAsked
PROOF
<1>1. Init => IInv
  BY InitIInv
<1>2. IInv /\ [Next]_vars => IInv'
  BY NextKeeps
<1>3. IInv /\ [Next]_vars =>
        [config'.active # config.active =>
           \/ /\ processing # NoRequest
              /\ processing.action = "activate" /\ processing.current
              /\ processing.source = config'.active
           \/ pc \notin InTick /\ config.active \notin attached]_vars
  BY NextKeeps
<1>. QED
  BY <1>1, <1>2, <1>3, PTL DEF Spec, ChangesAsAsked

=============================================================================
