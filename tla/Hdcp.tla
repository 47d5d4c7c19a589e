--------------------------------- MODULE Hdcp ---------------------------------
(***************************************************************************)
(* Content protection: a client of libhwcservice asks for HDCP on one      *)
(* connector or on all of them; the request crosses binder                 *)
(* (libhwcservice/hwcserviceapi.cpp, icontrols.cpp, iservice.cpp), reaches *)
(* HwcService::Controls (hwc2_device/hwcservice.cpp), which hands it to    *)
(* DrmHwcTwo; that walks its displays by index and calls                   *)
(* DrmAtomicStateManager::SetHDCPState on each.                            *)
(*                                                                         *)
(* Nothing in that path takes the main lock, and binder serves several     *)
(* requests at once: the walk interleaves with other walks and with the    *)
(* hotplug thread, which here plugs, attaches, detaches and disposes one   *)
(* display at a time (DisplayBinding has that protocol in full).           *)
(***************************************************************************)
EXTENDS Naturals, FiniteSets

CONSTANTS
    Conns,       \* the connectors
    NoPipe,      \* no pipeline: a headless or detached display
    Typed,       \* the connectors with property "HDCP Content Type"
    Protectable, \* the connectors with property "Content Protection"
    Callers,     \* the clients of the hwc service
    Targets,     \* what they ask about: connectors, or All
    Types,       \* the content types they ask for
    MaxHandle    \* bound on last_display_handle_

ASSUME HdcpAssumption ==
    /\ NoPipe \notin Conns
    /\ Typed \subseteq Conns
    /\ Protectable \subseteq Conns
    /\ Targets \subseteq Conns \cup {"all"}
    /\ Types \subseteq {0, 1}    \* kCONTENT_TYPE0, kCONTENT_TYPE1
    /\ MaxHandle \in Nat

Primary == 0            \* kPrimaryDisplay
Kinds   == {"enable", "disable"}
Invalid == 2            \* kInvalid
All     == "all"        \* the target of the ...ForAllDisplays calls

VARIABLES
    displays,   \* displays_: the connector of each display's pipeline
    last,       \* last_display_handle_
    connected,  \* the connectors whose connection_ is DRM_MODE_CONNECTED
    asm,        \* the protection state of each pipeline's state manager
    cached,     \* the value of "Content Protection" each DrmConnector read
    kernel,     \* what the driver holds for each connector: see Kernel
    call,       \* the request of each caller
    dead,       \* the process has crashed
    wanted      \* the last state each connector was asked for (history)

vars == <<displays, last, connected, asm, cached, kernel, call, dead,
          wanted>>

NoCall   == [pc |-> "idle", kind |-> "none", target |-> All, type |-> Invalid,
             i |-> 0, size |-> 0, pipe |-> NoPipe, status |-> "none"]
NewAsm   == [current |-> "unsupported", desired |-> "unsupported", type |-> 0]
Pipes    == {displays[h] : h \in DOMAIN displays} \ {NoPipe}
Headless == [h \in {Primary} |-> NoPipe]

Init ==
    /\ displays = Headless
    /\ last = Primary
    /\ connected = {}
    /\ asm = [c \in Conns |-> NewAsm]
    /\ cached = [c \in Conns |-> 0]
    /\ kernel = [c \in Conns |-> [value |-> 0, type |-> 0]]
    /\ call = [t \in Callers |-> NoCall]
    /\ dead = FALSE
    /\ wanted = [c \in Conns |-> "none"]

-----------------------------------------------------------------------------
(* The client's side.                                                      *)

(* A request: HwcService_Connect has waited for the service and got its    *)
(* controls, the transaction is delivered, and DrmHwcTwo reads the number  *)
(* of displays before its loop.                                            *)
Request(t, kind, target, type) ==
    /\ ~dead
    /\ call[t].pc = "idle"
    /\ (type = Invalid) <=> (kind = "disable")
    /\ call' = [call EXCEPT ![t] =
                  [NoCall EXCEPT !.pc = "walk", !.kind = kind, !.target = target,
                                 !.type = type, !.size = Cardinality(DOMAIN displays)]]
    /\ UNCHANGED <<displays, last, connected, asm, cached, kernel, dead,
                   wanted>>

(* SetHDCPSRM: the controls do nothing with the list they are given.       *)
SetHDCPSRM(t) ==
    /\ ~dead
    /\ call[t].pc = "idle"
    /\ call' = [call EXCEPT ![t] = [NoCall EXCEPT !.status = "OK"]]
    /\ UNCHANGED <<displays, last, connected, asm, cached, kernel, dead,
                   wanted>>

(* The walk is over; the controls report OK whatever was done.             *)
Reply(t) ==
    /\ call[t].pc = "walk"
    /\ call[t].i = call[t].size
    /\ call' = [call EXCEPT ![t] = [NoCall EXCEPT !.kind = call[t].kind, !.status = "OK"]]
    /\ UNCHANGED <<displays, last, connected, asm, cached, kernel, dead,
                   wanted>>

(* What the proxies return when the transaction fails: disabling all       *)
(* displays only logs it, and then reads 0 from the empty reply.           *)
ReplyOfDead(cl) ==
    IF cl.kind = "disable" /\ cl.target = All THEN "OK" ELSE "error"

-----------------------------------------------------------------------------
(* The walk over the displays.                                             *)

At(t)       == call[t].i
Conn(t)     == displays[At(t)]
Reached(t)  == At(t) \in DOMAIN displays /\ Conn(t) # NoPipe
Advanced(t) == [call EXCEPT ![t].pc = "walk", ![t].pipe = NoPipe, ![t].i = @ + 1]
Inside(c)   == {t \in Callers : call[t].pipe = c /\ call[t].pc \in {"assign", "write"}}

(* displays_[i] creates an entry without a display when there is none, and *)
(* GetPipe() dereferences the pipeline a headless display does not have.   *)
Crash ==
    /\ dead' = TRUE
    /\ call' = [t \in Callers |->
                  IF call[t].pc = "idle" THEN call[t]
                  ELSE [NoCall EXCEPT !.status = ReplyOfDead(call[t])]]
    /\ UNCHANGED <<displays, last, connected, asm, cached, kernel, wanted>>

WalkCrashes(t) ==
    /\ call[t].pc = "walk"
    /\ At(t) < call[t].size
    /\ ~Reached(t)
    /\ Crash

WalkSkips(t) ==
    /\ call[t].pc = "walk"
    /\ At(t) < call[t].size
    /\ Reached(t)
    /\ call[t].target \notin {All, Conn(t)}
    /\ call' = Advanced(t)
    /\ UNCHANGED <<displays, last, connected, asm, cached, kernel, dead,
                   wanted>>

-----------------------------------------------------------------------------
(* SetHDCPState.                                                           *)

StateOf(kind) == IF kind = "enable" THEN "desired" ELSE "undesired"

(* How the driver takes a value: a client may not claim Enabled (2), and   *)
(* asking for what is established changes nothing.                         *)
Kernel(k, value) ==
    CASE value = 2                 -> k
      [] value = 1 /\ k.value = 2  -> k
      [] OTHER                     -> [k EXCEPT !.value = value]

(* Up to the type property: nothing for a connector that is disconnected,  *)
(* already in the desired state, or without the type property; the type is *)
(* written when it differs from the last one.                              *)
SetHDCPState(t) ==
    LET c     == Conn(t)
        state == StateOf(call[t].kind)
        type  == call[t].type
        retype == type < Invalid /\ asm[c].type # type
        done  == asm[c].current = state \/ c \notin Typed
    IN /\ call[t].pc = "walk"
       /\ At(t) < call[t].size
       /\ Reached(t)
       /\ call[t].target \in {All, c}
       /\ \/ /\ c \notin connected
             /\ call' = Advanced(t)
             /\ UNCHANGED <<asm, kernel, wanted>>
          \/ /\ c \in connected
             /\ done
             /\ asm' = [asm EXCEPT ![c].desired = state]
             /\ call' = Advanced(t)
             /\ wanted' = IF c \in Typed THEN [wanted EXCEPT ![c] = call[t].kind]
                          ELSE wanted
             /\ UNCHANGED kernel
          \/ /\ c \in connected
             /\ ~done
             /\ asm' = [asm EXCEPT ![c].desired = state,
                                   ![c].type = IF retype THEN type ELSE @]
             /\ kernel' = [kernel EXCEPT ![c].type = IF retype THEN type ELSE @]
             /\ call' = IF c \in Protectable THEN [call EXCEPT ![t].pc = "assign", ![t].pipe = c]
                        ELSE Advanced(t)
             /\ UNCHANGED wanted
       /\ UNCHANGED <<displays, last, connected, cached, dead>>

(* Faulty: the state taken from the property is not replaced by the one    *)
(* that is asked for.                                                      *)
CurrentFromProperty(c) ==
    IF cached[c] = 0 THEN "undesired"
    ELSE IF cached[c] = 1 THEN "desired" ELSE asm[c].current

(* The state is derived from the property as it was read when the          *)
(* connector was made, and then replaced by the desired one.               *)
NextCurrent(c) == asm[c].desired

AssignState(t) ==
    /\ call[t].pc = "assign"
    /\ asm' = [asm EXCEPT ![call[t].pipe].current = NextCurrent(call[t].pipe)]
    /\ call' = [call EXCEPT ![t].pc = "write"]
    /\ UNCHANGED <<displays, last, connected, cached, kernel, dead, wanted>>

(* The value that is written: 1 to enable, else the one read from the      *)
(* property when the connector was made.                                   *)
Value(c) == IF asm[c].current = "desired" THEN 1 ELSE cached[c]

WriteState(t) ==
    LET c == call[t].pipe
    IN /\ call[t].pc = "write"
       /\ kernel' = [kernel EXCEPT ![c] = Kernel(@, Value(c))]
       /\ call' = Advanced(t)
       /\ wanted' = [wanted EXCEPT ![c] = call[t].kind]
       /\ UNCHANGED <<displays, last, connected, asm, cached, dead>>

(* The pipeline was deleted under the request, which goes on with what is  *)
(* left of it: it crashes, or comes to nothing.                            *)
UseAfterDetach(t) ==
    /\ call[t].pc = "freed"
    /\ \/ Crash
       \/ /\ call' = Advanced(t)
          /\ UNCHANGED <<displays, last, connected, asm, cached, kernel, dead,
                         wanted>>

-----------------------------------------------------------------------------
(* The hotplug thread, the driver, and new connectors.                     *)

HandleOf(c) == CHOOSE h \in DOMAIN displays : displays[h] = c

(* UpdateModes reads the connection of a connector.                        *)
UpdateModes(c) ==
    /\ ~dead
    /\ (c \in connected) <=> (c \in Pipes)
    /\ connected' = IF c \in connected THEN connected \ {c} ELSE connected \cup {c}
    /\ UNCHANGED <<displays, last, asm, cached, kernel, call, dead, wanted>>

(* BindDisplay: a new pipeline, with a state manager of its own.           *)
BindDisplay(c) ==
    LET new == displays[Primary] # NoPipe
        h   == IF new THEN last + 1 ELSE Primary
    IN /\ ~dead
       /\ c \in connected \ Pipes
       /\ h <= MaxHandle
       /\ displays' = [g \in DOMAIN displays \cup {h} |->
                         IF g = h THEN c ELSE displays[g]]
       /\ last' = IF new THEN h ELSE last
       /\ asm' = [asm EXCEPT ![c] = NewAsm]
       /\ UNCHANGED <<connected, cached, kernel, call, dead, wanted>>

(* The pipeline is deleted, also under the requests that are using it.     *)
UnbindDisplay(c) ==
    /\ ~dead
    /\ c \in Pipes \ connected
    /\ displays' = [displays EXCEPT ![HandleOf(c)] = NoPipe]
    /\ call' = [t \in Callers |->
                  IF t \in Inside(c) THEN [call[t] EXCEPT !.pc = "freed"] ELSE call[t]]
    /\ UNCHANGED <<last, connected, asm, cached, kernel, dead, wanted>>

(* FinalizeDisplayBinding: a headless primary display takes the pipeline   *)
(* of another display; displays without a pipeline are disposed of.        *)
FinalizeDisplayBinding ==
    \E h \in DOMAIN displays :
       LET moved == IF displays[Primary] = NoPipe /\ displays[h] # NoPipe
                    THEN [displays EXCEPT ![Primary] = displays[h], ![h] = NoPipe]
                    ELSE displays
       IN /\ ~dead
          /\ displays[Primary] = NoPipe /\ Pipes # {} => displays[h] # NoPipe
          /\ displays' = [g \in {k \in DOMAIN displays :
                                   k = Primary \/ moved[k] # NoPipe} |-> moved[g]]
          /\ displays' # displays
          /\ UNCHANGED <<last, connected, asm, cached, kernel, call, dead,
                         wanted>>

(* The displays are detached and the connectors made again, when the       *)
(* client of the composer is replaced (DeInit, then Init) or after a       *)
(* crash; the driver keeps its state, and DrmConnector reads it.           *)
Reload ==
    /\ \A t \in Callers : call[t].pc = "idle"
    /\ displays' = Headless
    /\ last' = IF dead THEN Primary ELSE last
    /\ connected' = {}
    /\ asm' = [c \in Conns |-> NewAsm]
    /\ cached' = [c \in Conns |-> kernel[c].value]
    /\ dead' = FALSE
    /\ UNCHANGED <<kernel, call, wanted>>

(* The driver establishes protection that is desired, or loses it.         *)
Authenticate(c) ==
    /\ kernel[c].value \in {1, 2}
    /\ kernel' = [kernel EXCEPT ![c].value = 3 - @]
    /\ UNCHANGED <<displays, last, connected, asm, cached, call, dead, wanted>>

Next ==
    \/ \E t \in Callers :
         \/ SetHDCPSRM(t) \/ Reply(t)
         \/ \E kind \in Kinds, target \in Targets, type \in Types \cup {Invalid} :
              Request(t, kind, target, type)
         \/ WalkCrashes(t) \/ WalkSkips(t) \/ SetHDCPState(t) \/ AssignState(t)
         \/ WriteState(t) \/ UseAfterDetach(t)
    \/ \E c \in Conns :
         UpdateModes(c) \/ BindDisplay(c) \/ UnbindDisplay(c) \/ Authenticate(c)
    \/ FinalizeDisplayBinding
    \/ Reload

Spec == Init /\ [][Next]_vars

-----------------------------------------------------------------------------
Idle == \A t \in Callers : call[t].pc = "idle"

(* When no request is under way, a connector that has both properties is   *)
(* protected exactly when the last request that reached it asked for it,   *)
(* through unplugging, re-plugging, new state managers, crashes of the     *)
(* walk and reloads, unless it was already protected when its DrmConnector *)
(* was made (SetHDCPState, DrmHwcTwo's walks).  It holds for requests one  *)
(* after the other: two that meet in SetHDCPState can break it.            *)
ProtectionFollowsRequests ==
    Idle => \A c \in Typed \cap Protectable :
              cached[c] = 0 /\ wanted[c] # "none" =>
                ((kernel[c].value # 0) <=> (wanted[c] = "enable"))

(* hwcserviceapi.h says that the disable control "disables the usage of    *)
(* HDCP": after one that reached a connector and reported OK it is off.    *)
DisableDisables ==
    \A t \in Callers :
       call[t].kind = "disable" /\ call[t].status = "OK" /\ Idle =>
         \A c \in Pipes \cap Typed \cap Protectable :
            wanted[c] = "disable" => kernel[c].value = 0

=============================================================================
