------------------------------ MODULE OutputProofs ------------------------------
(***************************************************************************)
(* What a display's output is set to.  Hdcp: ProtectionFollowsRequests,    *)
(* for any connectors, content types and targets, and any number of        *)
(* displays, as long as requests come one after the other.  DisplayOutput: *)
(* the colour table is sound for every size and setting, the colours are   *)
(* what the files say, and ParseCTAFromExtensionBlock finds the HDR block  *)
(* of any EDID.                                                            *)
(***************************************************************************)
EXTENDS Hdcp, DisplayOutput, FiniteSetTheorems, WellFoundedInduction, TLAPS

States    == {"unsupported", "desired", "undesired"}
AsmRecord == [current : States, desired : States, type : {0, 1}]
KmsRecord == [value : 0 .. 2, type : {0, 1}]
CallRecord ==
    [pc : {"idle", "walk", "assign", "write", "freed"},
     kind : Kinds \cup {"none"}, target : Conns \cup {All}, type : 0 .. Invalid,
     i : Nat, size : Nat, pipe : Conns \cup {NoPipe}, status : {"none", "OK", "error"}]

(* Every variable holds a value of its kind.                               *)
TypeOK ==
    /\ displays \in [DOMAIN displays -> Conns \cup {NoPipe}]
    /\ DOMAIN displays \subseteq 0 .. last
    /\ Primary \in DOMAIN displays
    /\ last \in Nat
    /\ connected \subseteq Conns
    /\ asm \in [Conns -> AsmRecord]
    /\ cached \in [Conns -> 0 .. 2]
    /\ kernel \in [Conns -> KmsRecord]
    /\ call \in [Callers -> CallRecord]
    /\ wanted \in [Conns -> Kinds \cup {"none"}]

(* A pipeline serves one display.                                          *)
OneDisplayEach ==
    \A g, h \in DOMAIN displays :
        displays[g] = displays[h] /\ displays[g] # NoPipe => g = h

(* A request that is inside SetHDCPState works on a pipeline that is       *)
(* there, whose connector has both properties, and the state it asked for  *)
(* is the one the manager keeps.                                           *)
Both == Typed \cap Protectable
RequestInv ==
    \A t \in Callers :
        /\ call[t].pc # "idle" => call[t].kind \in Kinds
        /\ call[t].pc \in {"assign", "write"} =>
             /\ call[t].pipe \in Pipes \cap Both
             /\ asm[call[t].pipe].desired = StateOf(call[t].kind)
        /\ call[t].pc = "write" =>
             asm[call[t].pipe].current = StateOf(call[t].kind)

(* What a manager believes of a connector is what the driver was told,     *)
(* except between the two halves of a request; what the last request asked *)
(* for as well; and a connector that was protected when its DrmConnector   *)
(* was made stays so.                                                      *)
Writing(c) == \E t \in Callers : call[t].pc = "write" /\ call[t].pipe = c
StateInv ==
    \A c \in Both :
        /\ cached[c] # 0 => kernel[c].value # 0
        /\ cached[c] = 0 =>
             /\ c \in Pipes /\ ~Writing(c) =>
                  /\ asm[c].current = "desired" => kernel[c].value # 0
                  /\ asm[c].current = "undesired" => kernel[c].value = 0
             /\ wanted[c] # "none" =>
                  ((kernel[c].value # 0) <=> (wanted[c] = "enable"))

ProtectionInv == TypeOK /\ OneDisplayEach /\ RequestInv /\ StateInv

-----------------------------------------------------------------------------
(* The number of displays is a number.                                     *)
LEMMA DisplaysCount ==
    ASSUME TypeOK
    PROVE  Cardinality(DOMAIN displays) \in Nat
<1>0. 0 \in Int /\ last \in Int
  BY DEF TypeOK
<1>1. IsFiniteSet(0 .. last)
  BY <1>0, FS_Interval
<1>2. IsFiniteSet(DOMAIN displays)
  BY <1>1, FS_Subset DEF TypeOK
<1> QED
  BY <1>2, FS_CardinalityType

(* A walk that goes on is again a call.                                    *)
LEMMA AdvancedType ==
    ASSUME TypeOK, NEW t \in Callers
    PROVE  /\ Advanced(t) \in [Callers -> CallRecord]
           /\ \A u \in Callers \ {t} : Advanced(t)[u] = call[u]
           /\ Advanced(t)[t].pc = "walk"
           /\ Advanced(t)[t].kind = call[t].kind
<1> DEFINE n == call[t].i + 1
<1>1. call[t] \in CallRecord
  BY DEF TypeOK
<1>2. n \in Nat
  BY <1>1 DEF CallRecord
<1> DEFINE r == [call[t] EXCEPT !.pc = "walk", !.pipe = NoPipe, !.i = n]
<1>3. Advanced(t) = [call EXCEPT ![t] = r]
  BY <1>1 DEF TypeOK, Advanced, CallRecord
<1> HIDE DEF n
<1>4. r \in CallRecord /\ r.pc = "walk" /\ r.kind = call[t].kind
  BY <1>1, <1>2 DEF CallRecord
<1> QED
  BY <1>3, <1>4 DEF TypeOK

(* Nothing is protected at first, and nothing was asked for.               *)
LEMMA InitProtection == Init => ProtectionInv
<1> SUFFICES ASSUME Init PROVE ProtectionInv
  OBVIOUS
<1>1. TypeOK
  BY HdcpAssumption DEF Init, TypeOK, Headless, Primary, AsmRecord, KmsRecord, NewAsm,
     States, CallRecord, NoCall, Invalid, All
<1>2. OneDisplayEach
  BY DEF Init, OneDisplayEach, Headless
<1>3. RequestInv
  BY DEF Init, RequestInv, NoCall
<1>4. StateInv
  BY HdcpAssumption DEF Init, StateInv, Both, NewAsm
<1> QED
  BY <1>1, <1>2, <1>3, <1>4 DEF ProtectionInv

-----------------------------------------------------------------------------
(* Steps of a request that leave displays, managers and driver alone.      *)
LEMMA CallStep ==
    ASSUME ProtectionInv, call' \in [Callers -> CallRecord],
           UNCHANGED <<displays, last, connected, asm, cached, kernel, wanted>>,
           \A t \in Callers :
             \/ call'[t] = call[t]
             \/ /\ call[t].pc # "write"
                /\ call'[t].pc = "idle"
             \/ /\ call[t].pc # "write"
                /\ call'[t].pc = "walk" /\ call'[t].kind \in Kinds
    PROVE  ProtectionInv'
<1>1. TypeOK'
  BY DEF ProtectionInv, TypeOK
<1>2. OneDisplayEach'
  BY DEF ProtectionInv, OneDisplayEach
<1>3. RequestInv'
  BY DEF ProtectionInv, RequestInv, Pipes
<1>4. \A c \in Conns : Writing(c) => Writing(c)'
  BY DEF Writing
<1>5. StateInv'
  BY <1>4, HdcpAssumption DEF ProtectionInv, StateInv, Both, Pipes
<1> QED
  BY <1>1, <1>2, <1>3, <1>5 DEF ProtectionInv

-----------------------------------------------------------------------------
(* The steps of a request.                                                 *)

(* A request that begins, ends or passes over a display changes no         *)
(* protection.                                                             *)
LEMMA RequestProtection ==
    ASSUME ProtectionInv, NEW t \in Callers,
           \/ SetHDCPSRM(t) \/ Reply(t) \/ WalkSkips(t)
           \/ \E kind \in Kinds, target \in Targets, type \in Types \cup {Invalid} :
                Request(t, kind, target, type)
    PROVE  ProtectionInv'
<1> USE DEF ProtectionInv
<1>0. call[t] \in CallRecord /\ NoCall \in CallRecord
  BY HdcpAssumption DEF TypeOK, CallRecord, NoCall, All, Invalid
<1>1. CASE SetHDCPSRM(t)
  <2>1. [NoCall EXCEPT !.status = "OK"] \in CallRecord
    BY <1>0 DEF CallRecord
  <2> QED
    BY <1>1, <2>1, CallStep DEF SetHDCPSRM, TypeOK, NoCall
<1>2. CASE Reply(t)
  <2>1. [NoCall EXCEPT !.kind = call[t].kind, !.status = "OK"] \in CallRecord
    BY <1>0 DEF CallRecord
  <2> QED
    BY <1>2, <2>1, CallStep DEF Reply, TypeOK, NoCall
<1>3. CASE WalkSkips(t)
  BY <1>3, AdvancedType, CallStep DEF WalkSkips, RequestInv
<1>4. ASSUME NEW kind \in Kinds, NEW target \in Targets, NEW type \in Types \cup {Invalid},
             Request(t, kind, target, type)
      PROVE  ProtectionInv'
  <2> DEFINE count == Cardinality(DOMAIN displays)
             new == [NoCall EXCEPT !.pc = "walk", !.kind = kind, !.target = target,
                                   !.type = type, !.size = count]
  <2>1. count \in Nat /\ target \in Conns \cup {All} /\ type \in 0 .. Invalid
    BY DisplaysCount, HdcpAssumption DEF All, Invalid
  <2>2. call' = [call EXCEPT ![t] = new] /\ call[t].pc = "idle"
    BY <1>4 DEF Request
  <2> HIDE DEF count
  <2>3. new \in CallRecord /\ new.pc = "walk" /\ new.kind = kind
    BY <1>0, <2>1 DEF CallRecord, NoCall
  <2> HIDE DEF new
  <2> QED
    BY <1>4, <2>2, <2>3, CallStep, ZenonT(40) DEF Request, TypeOK
<1> QED
  BY <1>1, <1>2, <1>3, <1>4

(* A crash ends every request; one that wrote half of its state would      *)
(* leave it behind.                                                        *)
LEMMA CrashProtection ==
    ASSUME ProtectionInv, \A t \in Callers : call[t].pc # "write", Crash
    PROVE  ProtectionInv'
<1>1. \A t \in Callers : [NoCall EXCEPT !.status = ReplyOfDead(call[t])] \in CallRecord
  BY HdcpAssumption DEF CallRecord, NoCall, All, Invalid, ReplyOfDead
<1>2. call' \in [Callers -> CallRecord]
  BY <1>1 DEF Crash, ProtectionInv, TypeOK
<1>3. \A t \in Callers : call'[t] = call[t] \/ call'[t].pc = "idle"
  BY DEF Crash, NoCall
<1> QED
  BY <1>2, <1>3, CallStep DEF Crash

(* SetHDCPState up to the point where it gives way.                        *)
LEMMA SetStateProtection ==
    ASSUME ProtectionInv, NEW t \in Callers, \A u \in Callers : u = t, SetHDCPState(t)
    PROVE  ProtectionInv'
<1> DEFINE c == Conn(t)
           state == StateOf(call[t].kind)
           retype == call[t].type < Invalid /\ asm[c].type # call[t].type
<1>1. c \in Pipes /\ c \in Conns
  BY DEF SetHDCPState, Reached, Pipes, Conn, ProtectionInv, TypeOK
<1>2. call[t].kind \in Kinds /\ state \in {"desired", "undesired"}
  BY DEF SetHDCPState, ProtectionInv, RequestInv, StateOf
<1>3. call[t] \in CallRecord /\ asm[c] \in AsmRecord /\ kernel[c] \in KmsRecord
  BY <1>1 DEF ProtectionInv, TypeOK
<1>4. CASE call' = Advanced(t) /\ UNCHANGED <<asm, kernel, wanted>>
  BY <1>4, <1>2, AdvancedType, CallStep DEF SetHDCPState, ProtectionInv
<1>5. \A u \in Callers : u = t
  OBVIOUS
<1>6. CASE /\ asm' = [asm EXCEPT ![c].desired = state]
           /\ call' = Advanced(t)
           /\ wanted' = IF c \in Typed THEN [wanted EXCEPT ![c] = call[t].kind] ELSE wanted
           /\ UNCHANGED kernel
           /\ asm[c].current = state \/ c \notin Typed
  <2>1. UNCHANGED <<displays, last, connected, cached>> /\ Pipes' = Pipes
    BY DEF SetHDCPState, Pipes
  <2>2. /\ asm' \in [Conns -> AsmRecord]
        /\ \A d \in Conns : asm'[d].current = asm[d].current
    BY <1>1, <1>2, <1>3, <1>6 DEF ProtectionInv, TypeOK, AsmRecord, States
  <2>3. wanted' \in [Conns -> Kinds \cup {"none"}]
    BY <1>1, <1>2, <1>6 DEF ProtectionInv, TypeOK
  <2>4. TypeOK'
    BY <1>6, <2>1, <2>2, <2>3, AdvancedType DEF ProtectionInv, TypeOK
  <2>5. OneDisplayEach'
    BY <2>1 DEF ProtectionInv, OneDisplayEach
  <2>6. call'[t].pc = "walk" /\ call'[t].kind = call[t].kind /\ call[t].pc = "walk"
    BY <1>6, AdvancedType DEF ProtectionInv, SetHDCPState
  <2>7. RequestInv'
    BY <1>2, <1>5, <2>6 DEF RequestInv
  <2>8. \A d \in Conns : ~Writing(d) /\ ~Writing(d)'
    BY <1>5, <2>6 DEF Writing
  <2>9. c \in Both => /\ asm[c].current = state
                      /\ wanted' = [wanted EXCEPT ![c] = call[t].kind]
    BY <1>6 DEF Both
  <2>10. StateInv'
    <3> SUFFICES ASSUME NEW d \in Both
                 PROVE  /\ cached'[d] # 0 => kernel'[d].value # 0
                        /\ cached'[d] = 0 =>
                             /\ d \in Pipes' /\ ~Writing(d)' =>
                                  /\ asm'[d].current = "desired" => kernel'[d].value # 0
                                  /\ asm'[d].current = "undesired" => kernel'[d].value = 0
                             /\ wanted'[d] # "none" =>
                                  ((kernel'[d].value # 0) <=> (wanted'[d] = "enable"))
      BY DEF StateInv
    <3>1. d \in Conns
      BY HdcpAssumption DEF Both
    <3>2. CASE d = c
      <4>1. wanted'[d] = call[t].kind
        BY <2>9, <3>1, <3>2 DEF ProtectionInv, TypeOK
      <4>2. wanted'[d] = "enable" <=> asm[d].current = "desired"
        BY <1>2, <2>9, <3>2, <4>1 DEF StateOf, Kinds
      <4>3. asm[d].current \in {"desired", "undesired"}
        BY <1>2, <2>9, <3>2
      <4> QED
        BY <1>1, <1>6, <2>1, <2>2, <2>8, <3>1, <3>2, <4>2, <4>3 DEF ProtectionInv, StateInv
    <3>3. CASE d # c
      <4>1. wanted'[d] = wanted[d]
        BY <1>6, <3>1, <3>3 DEF ProtectionInv, TypeOK
      <4> QED
        BY <1>6, <2>1, <2>2, <2>8, <3>1, <4>1 DEF ProtectionInv, StateInv
    <3> QED
      BY <3>2, <3>3
  <2> QED
    BY <2>4, <2>5, <2>7, <2>10 DEF ProtectionInv
<1>7. CASE /\ c \in Typed
           /\ asm' = [asm EXCEPT ![c].desired = state,
                                 ![c].type = IF retype THEN call[t].type ELSE @]
           /\ kernel' = [kernel EXCEPT ![c].type = IF retype THEN call[t].type ELSE @]
           /\ call' = IF c \in Protectable
                      THEN [call EXCEPT ![t].pc = "assign", ![t].pipe = c]
                      ELSE Advanced(t)
           /\ UNCHANGED wanted
  <2>1. UNCHANGED <<displays, last, connected, cached>> /\ Pipes' = Pipes
    BY DEF SetHDCPState, Pipes
  <2> DEFINE asmtype == IF retype THEN call[t].type ELSE asm[c].type
             kmstype == IF retype THEN call[t].type ELSE kernel[c].type
  <2>2. asmtype \in {0, 1} /\ kmstype \in {0, 1}
    BY <1>3 DEF CallRecord, AsmRecord, KmsRecord, Invalid
  <2> DEFINE a == [asm[c] EXCEPT !.desired = state, !.type = asmtype]
             k == [kernel[c] EXCEPT !.type = kmstype]
  <2>3. asm' = [asm EXCEPT ![c] = a] /\ kernel' = [kernel EXCEPT ![c] = k]
    BY <1>1, <1>3, <1>7 DEF ProtectionInv, TypeOK, AsmRecord, KmsRecord
  <2> HIDE DEF asmtype, kmstype
  <2>4. /\ a \in AsmRecord /\ a.current = asm[c].current /\ a.desired = state
        /\ k \in KmsRecord /\ k.value = kernel[c].value
    BY <1>2, <1>3, <2>2 DEF AsmRecord, KmsRecord, States
  <2> HIDE DEF a, k
  <2>5. /\ asm' \in [Conns -> AsmRecord] /\ kernel' \in [Conns -> KmsRecord]
        /\ \A d \in Conns : /\ asm'[d].current = asm[d].current
                            /\ kernel'[d].value = kernel[d].value
        /\ asm'[c].desired = state
    BY <1>1, <2>3, <2>4 DEF ProtectionInv, TypeOK
  <2>6. /\ call' \in [Callers -> CallRecord]
        /\ call'[t].pc \in {"walk", "assign"}
        /\ call'[t].kind = call[t].kind
        /\ call'[t].pc = "assign" => call'[t].pipe = c /\ c \in Protectable
    <3>1. CASE c \notin Protectable
      BY <1>7, <3>1, AdvancedType DEF ProtectionInv
    <3>2. CASE c \in Protectable
      <4> DEFINE r == [call[t] EXCEPT !.pc = "assign", !.pipe = c]
      <4>1. r \in CallRecord /\ r.pc = "assign" /\ r.pipe = c /\ r.kind = call[t].kind
        BY <1>1, <1>3 DEF CallRecord
      <4>2. call' = [call EXCEPT ![t] = r]
        BY <1>3, <1>7, <3>2 DEF ProtectionInv, TypeOK, CallRecord
      <4> HIDE DEF r
      <4> QED
        BY <3>2, <4>1, <4>2 DEF ProtectionInv, TypeOK
    <3> QED
      BY <3>1, <3>2
  <2>7. TypeOK'
    BY <1>7, <2>1, <2>5, <2>6, SMTT(40) DEF ProtectionInv, TypeOK
  <2>8. OneDisplayEach'
    BY <2>1 DEF ProtectionInv, OneDisplayEach
  <2>9. RequestInv'
    <3>1. StateOf(call'[t].kind) = state
      BY <2>6
    <3> QED
      BY <1>1, <1>2, <1>5, <1>7, <2>1, <2>5, <2>6, <3>1 DEF RequestInv, Both, StateOf
  <2>10. \A d \in Conns : ~Writing(d) /\ ~Writing(d)'
    BY <1>5, <2>6 DEF Writing, SetHDCPState
  <2>11. StateInv'
    BY <1>7, <2>1, <2>5, <2>10, HdcpAssumption DEF ProtectionInv, StateInv, Both
  <2> QED
    BY <2>7, <2>8, <2>9, <2>11 DEF ProtectionInv
<1> QED
  BY <1>4, <1>6, <1>7 DEF SetHDCPState

(* The manager takes over the state it was asked for; the driver does not  *)
(* know of it yet.                                                         *)
LEMMA AssignProtection ==
    ASSUME ProtectionInv, NEW t \in Callers, \A u \in Callers : u = t, AssignState(t)
    PROVE  ProtectionInv'
<1> DEFINE c == call[t].pipe
           a == [asm[c] EXCEPT !.current = asm[c].desired]
           r == [call[t] EXCEPT !.pc = "write"]
<1>1. /\ c \in Pipes \cap Both /\ c \in Conns /\ call[t].kind \in Kinds
      /\ asm[c].desired = StateOf(call[t].kind)
  BY HdcpAssumption DEF AssignState, ProtectionInv, RequestInv, Both
<1>2. asm[c] \in AsmRecord /\ call[t] \in CallRecord
  BY <1>1 DEF ProtectionInv, TypeOK
<1>3. asm' = [asm EXCEPT ![c] = a] /\ call' = [call EXCEPT ![t] = r]
  BY <1>1, <1>2 DEF AssignState, NextCurrent, ProtectionInv, TypeOK, AsmRecord, CallRecord
<1>4. /\ a \in AsmRecord /\ a.desired = asm[c].desired /\ a.current = asm[c].desired
      /\ r \in CallRecord /\ r.pc = "write" /\ r.pipe = c /\ r.kind = call[t].kind
  BY <1>2 DEF AsmRecord, CallRecord
<1> HIDE DEF a, r
<1>5. UNCHANGED <<displays, last, connected, cached, kernel, wanted>> /\ Pipes' = Pipes
  BY DEF AssignState, Pipes
<1>6. TypeOK'
  BY <1>1, <1>3, <1>4, <1>5 DEF ProtectionInv, TypeOK
<1>7. /\ call'[t].pc = "write" /\ call'[t].pipe = c /\ call'[t].kind = call[t].kind
      /\ asm'[c].desired = asm[c].desired /\ asm'[c].current = asm[c].desired
      /\ \A d \in Conns \ {c} : asm'[d] = asm[d]
  BY <1>1, <1>3, <1>4 DEF ProtectionInv, TypeOK
<1>8. OneDisplayEach'
  BY <1>5 DEF ProtectionInv, OneDisplayEach
<1>9. RequestInv'
  <2>1. StateOf(call'[t].kind) = StateOf(call[t].kind)
    BY <1>7
  <2> QED
    BY <1>1, <1>5, <1>7, <2>1 DEF RequestInv, StateOf
<1>10. Writing(c)' /\ \A d \in Conns : ~Writing(d)
  BY <1>7 DEF Writing, AssignState
<1>11. StateInv'
  BY <1>5, <1>7, <1>10, HdcpAssumption DEF ProtectionInv, StateInv, Both
<1> QED
  BY <1>6, <1>8, <1>9, <1>11 DEF ProtectionInv

(* The driver is told: 1 to enable, else the value that was read when the  *)
(* connector was made.                                                     *)
LEMMA WriteProtection ==
    ASSUME ProtectionInv, NEW t \in Callers, \A u \in Callers : u = t, WriteState(t)
    PROVE  ProtectionInv'
<1> DEFINE c == call[t].pipe
           k == Kernel(kernel[c], Value(c))
<1>1. /\ c \in Pipes \cap Both /\ c \in Conns /\ call[t].kind \in Kinds
      /\ asm[c].current = StateOf(call[t].kind)
  BY HdcpAssumption DEF WriteState, ProtectionInv, RequestInv, Both
<1>2. kernel[c] \in KmsRecord /\ cached[c] \in 0 .. 2 /\ Value(c) \in 0 .. 2
  BY <1>1 DEF ProtectionInv, TypeOK, Value
<1>3. /\ k \in KmsRecord
      /\ Value(c) # 0 /\ kernel[c].value # 0 => k.value # 0
      /\ Value(c) = 1 => k.value # 0
      /\ Value(c) = 0 => k.value = 0
  BY <1>2 DEF Kernel, KmsRecord
<1>4. /\ kernel' = [kernel EXCEPT ![c] = k] /\ call' = Advanced(t)
      /\ wanted' = [wanted EXCEPT ![c] = call[t].kind]
      /\ UNCHANGED <<displays, last, connected, asm, cached>>
  BY DEF WriteState
<1> HIDE DEF k
<1>5. /\ kernel'[c] = k /\ wanted'[c] = call[t].kind
      /\ \A d \in Conns \ {c} : kernel'[d] = kernel[d] /\ wanted'[d] = wanted[d]
      /\ Pipes' = Pipes
  BY <1>1, <1>4 DEF ProtectionInv, TypeOK, Pipes
<1>6. TypeOK'
  BY <1>1, <1>3, <1>4, AdvancedType DEF ProtectionInv, TypeOK
<1>7. OneDisplayEach'
  BY <1>4 DEF ProtectionInv, OneDisplayEach
<1>8. call'[t].pc = "walk" /\ call'[t].kind = call[t].kind
  BY <1>4, AdvancedType DEF ProtectionInv
<1>9. RequestInv'
  BY <1>1, <1>8 DEF RequestInv
<1>10. \A d \in Conns \ {c} : ~Writing(d)
  BY DEF Writing
<1>11. StateInv'
  <2>1. cached[c] # 0 => k.value # 0
    BY <1>1, <1>3 DEF ProtectionInv, StateInv, Value
  <2>2. cached[c] = 0 => ((k.value # 0) <=> (asm[c].current = "desired"))
    BY <1>3 DEF Value
  <2>3. asm[c].current = "desired" <=> call[t].kind = "enable"
    BY <1>1 DEF StateOf, Kinds
  <2>4. asm[c].current = "undesired" <=> asm[c].current # "desired"
    BY <1>1 DEF StateOf
  <2>5. \A d \in Both : d \in Conns
    BY HdcpAssumption DEF Both
  <2> QED
    BY <1>1, <1>4, <1>5, <1>10, <2>1, <2>2, <2>3, <2>4, <2>5 DEF ProtectionInv, StateInv
<1> QED
  BY <1>6, <1>7, <1>9, <1>11 DEF ProtectionInv

(* Two ways for a request to crash or to go on: an entry without a display *)
(* or a pipeline, and a pipeline deleted under it.                         *)
LEMMA WalkCrashesProtection ==
    ASSUME ProtectionInv, NEW t \in Callers, \A u \in Callers : u = t,
           WalkCrashes(t) \/ UseAfterDetach(t)
    PROVE  ProtectionInv'
<1>1. call[t].pc \in {"walk", "freed"} /\ call[t].kind \in Kinds
  BY DEF WalkCrashes, UseAfterDetach, ProtectionInv, RequestInv
<1>2. CASE Crash
  <2>1. \A u \in Callers : call[u].pc # "write"
    BY <1>1
  <2> QED
    BY <1>2, <2>1, CrashProtection
<1>3. CASE /\ call' = Advanced(t)
           /\ UNCHANGED <<displays, last, connected, asm, cached, kernel, dead, wanted>>
  BY <1>1, <1>3, AdvancedType, CallStep DEF ProtectionInv
<1> QED
  BY <1>2, <1>3 DEF WalkCrashes, UseAfterDetach

-----------------------------------------------------------------------------
(* The hotplug thread, the driver, and new connectors.                     *)

(* Reading the modes of a connector leaves its protection alone.           *)
LEMMA UpdateModesProtection ==
    ASSUME ProtectionInv, NEW c \in Conns, UpdateModes(c)
    PROVE  ProtectionInv'
<1>1. UNCHANGED <<displays, last, asm, cached, kernel, call, wanted>> /\ Pipes' = Pipes
  BY DEF UpdateModes, Pipes
<1>2. connected' \subseteq Conns
  BY DEF UpdateModes, ProtectionInv, TypeOK
<1>3. \A d \in Conns : Writing(d)' <=> Writing(d)
  BY <1>1 DEF Writing
<1> QED
  BY <1>1, <1>2, <1>3, HdcpAssumption
     DEF ProtectionInv, TypeOK, OneDisplayEach, RequestInv, StateInv, Both

(* The new display takes an entry without a pipeline, so that every other  *)
(* one keeps its own.                                                      *)
LEMMA BindProtection ==
    ASSUME ProtectionInv, NEW c \in Conns, BindDisplay(c)
    PROVE  ProtectionInv'
<1> DEFINE new == displays[Primary] # NoPipe
           h == IF new THEN last + 1 ELSE Primary
<1>1. /\ displays' = [g \in DOMAIN displays \cup {h} |-> IF g = h THEN c ELSE displays[g]]
      /\ last' = IF new THEN h ELSE last
      /\ asm' = [asm EXCEPT ![c] = NewAsm]
      /\ UNCHANGED <<connected, cached, kernel, call, wanted>>
      /\ c \notin Pipes
  BY DEF BindDisplay
<1>2. h \in DOMAIN displays => displays[h] = NoPipe
  BY DEF ProtectionInv, TypeOK
<1>3. last' \in Nat /\ DOMAIN displays \subseteq 0 .. last' /\ h \in 0 .. last'
  BY <1>1 DEF ProtectionInv, TypeOK, Primary
<1> HIDE DEF new, h
<1>4. /\ DOMAIN displays' = DOMAIN displays \cup {h} /\ displays'[h] = c
      /\ \A g \in DOMAIN displays \ {h} : displays'[g] = displays[g]
  BY <1>1
<1>5. \A g \in DOMAIN displays : displays[g] # c
  BY <1>1, HdcpAssumption DEF Pipes
<1>6. Pipes' = Pipes \cup {c}
  BY <1>2, <1>4, HdcpAssumption DEF Pipes
<1>7. NewAsm \in AsmRecord /\ NewAsm.current = "unsupported"
  BY DEF NewAsm, AsmRecord, States
<1>8. /\ asm' \in [Conns -> AsmRecord] /\ asm'[c] = NewAsm
      /\ \A d \in Conns \ {c} : asm'[d] = asm[d]
  BY <1>1, <1>7 DEF ProtectionInv, TypeOK
<1>9. TypeOK'
  <2>1. displays' \in [DOMAIN displays' -> Conns \cup {NoPipe}]
    BY <1>1 DEF ProtectionInv, TypeOK
  <2> QED
    BY <1>1, <1>3, <1>4, <1>8, <2>1 DEF ProtectionInv, TypeOK
<1>10. OneDisplayEach'
  BY <1>4, <1>5 DEF ProtectionInv, OneDisplayEach
<1>11. RequestInv'
  <2>1. \A t \in Callers : call[t].pc \in {"assign", "write"} =>
                             call[t].pipe \in Pipes \cap Both /\ asm'[call[t].pipe] = asm[call[t].pipe]
    BY <1>1, <1>8, HdcpAssumption DEF ProtectionInv, RequestInv, Both
  <2> QED
    BY <1>1, <1>6, <2>1 DEF ProtectionInv, RequestInv
<1>12. \A d \in Conns : Writing(d)' <=> Writing(d)
  BY <1>1 DEF Writing
<1>13. StateInv'
  BY <1>1, <1>6, <1>7, <1>8, <1>12, HdcpAssumption DEF ProtectionInv, StateInv, Both
<1> QED
  BY <1>9, <1>10, <1>11, <1>13 DEF ProtectionInv

(* A pipeline that goes takes with it what its manager believed; the       *)
(* request that was inside goes on with what is left.                      *)
LEMMA UnbindProtection ==
    ASSUME ProtectionInv, NEW c \in Conns, UnbindDisplay(c),
           \A t, u \in Callers : t = u
    PROVE  ProtectionInv'
<1> DEFINE h == HandleOf(c)
<1>1. h \in DOMAIN displays /\ displays[h] = c /\ c # NoPipe /\ c \in Pipes
  BY HdcpAssumption DEF UnbindDisplay, Pipes, HandleOf
<1>2. /\ displays' = [displays EXCEPT ![h] = NoPipe]
      /\ UNCHANGED <<last, connected, asm, cached, kernel, wanted>>
      /\ call' = [t \in Callers |->
                    IF t \in Inside(c) THEN [call[t] EXCEPT !.pc = "freed"] ELSE call[t]]
  BY DEF UnbindDisplay
<1> HIDE DEF h
<1>3. /\ DOMAIN displays' = DOMAIN displays /\ displays'[h] = NoPipe
      /\ \A g \in DOMAIN displays \ {h} : displays'[g] = displays[g] /\ displays[g] # c
  BY <1>1, <1>2 DEF ProtectionInv, TypeOK, OneDisplayEach
<1>4. Pipes' = Pipes \ {c}
  BY <1>1, <1>3 DEF Pipes
<1>5. \A t \in Callers : /\ call[t] \in CallRecord
                         /\ [call[t] EXCEPT !.pc = "freed"] \in CallRecord
                         /\ [call[t] EXCEPT !.pc = "freed"].pc = "freed"
                         /\ [call[t] EXCEPT !.pc = "freed"].kind = call[t].kind
  BY DEF ProtectionInv, TypeOK, CallRecord
<1>6. TypeOK'
  <2>1. call' \in [Callers -> CallRecord]
    BY <1>2, <1>5
  <2>2. displays' \in [DOMAIN displays' -> Conns \cup {NoPipe}]
    BY <1>2 DEF ProtectionInv, TypeOK
  <2> QED
    BY <1>2, <1>3, <2>1, <2>2 DEF ProtectionInv, TypeOK
<1>7. OneDisplayEach'
  BY <1>3 DEF ProtectionInv, OneDisplayEach
<1>8. \A t \in Callers :
         \/ t \notin Inside(c) /\ call'[t] = call[t]
         \/ t \in Inside(c) /\ call'[t].pc = "freed" /\ call'[t].kind = call[t].kind
  BY <1>2, <1>5
<1>9. RequestInv'
  BY <1>2, <1>4, <1>8 DEF ProtectionInv, RequestInv, Inside
<1>10. \A d \in Conns \ {c} : Writing(d) => Writing(d)'
  BY <1>8 DEF Writing, Inside
<1>11. StateInv'
  BY <1>2, <1>4, <1>10, HdcpAssumption DEF ProtectionInv, StateInv, Both
<1> QED
  BY <1>6, <1>7, <1>9, <1>11 DEF ProtectionInv

(* Pipelines move between displays; none appears or goes.                  *)
LEMMA FinalizeProtection ==
    ASSUME ProtectionInv, FinalizeDisplayBinding
    PROVE  ProtectionInv'
<1>1. PICK h \in DOMAIN displays :
        LET moved == IF displays[Primary] = NoPipe /\ displays[h] # NoPipe
                     THEN [displays EXCEPT ![Primary] = displays[h], ![h] = NoPipe]
                     ELSE displays
        IN  displays' = [g \in {k \in DOMAIN displays :
                                  k = Primary \/ moved[k] # NoPipe} |-> moved[g]]
  BY DEF FinalizeDisplayBinding
<1> DEFINE moved == IF displays[Primary] = NoPipe /\ displays[h] # NoPipe
                    THEN [displays EXCEPT ![Primary] = displays[h], ![h] = NoPipe]
                    ELSE displays
<1>2. UNCHANGED <<last, connected, asm, cached, kernel, call, wanted>>
  BY DEF FinalizeDisplayBinding
<1>3. Primary \in DOMAIN displays /\ displays \in [DOMAIN displays -> Conns \cup {NoPipe}]
  BY DEF ProtectionInv, TypeOK
<1>4. moved \in [DOMAIN displays -> Conns \cup {NoPipe}] /\ DOMAIN moved = DOMAIN displays
  BY <1>3
<1>5. \A f, g \in DOMAIN moved : moved[f] = moved[g] /\ moved[f] # NoPipe => f = g
  BY <1>3 DEF ProtectionInv, OneDisplayEach
<1>6. {moved[g] : g \in DOMAIN displays} \ {NoPipe} = Pipes
  <2>1. CASE displays[Primary] = NoPipe /\ displays[h] # NoPipe
    <3>1. /\ h # Primary /\ moved[Primary] = displays[h] /\ moved[h] = NoPipe
          /\ \A g \in DOMAIN displays \ {h, Primary} : moved[g] = displays[g]
      BY <1>3, <2>1
    <3> HIDE DEF moved
    <3> QED
      BY <1>3, <2>1, <3>1 DEF Pipes
  <2>2. CASE ~(displays[Primary] = NoPipe /\ displays[h] # NoPipe)
    BY <2>2 DEF Pipes
  <2> QED
    BY <2>1, <2>2
<1>7. /\ displays' = [g \in DOMAIN displays' |-> moved[g]]
      /\ DOMAIN displays' = {k \in DOMAIN displays : k = Primary \/ moved[k] # NoPipe}
  BY <1>1
<1> HIDE DEF moved
<1>8. Pipes' = Pipes
  BY <1>6, <1>7 DEF Pipes
<1>9. TypeOK'
  BY <1>2, <1>3, <1>4, <1>7 DEF ProtectionInv, TypeOK
<1>10. OneDisplayEach'
  BY <1>4, <1>5, <1>7 DEF OneDisplayEach
<1>11. \A d \in Conns : Writing(d)' <=> Writing(d)
  BY <1>2 DEF Writing
<1>12. RequestInv' /\ StateInv'
  BY <1>2, <1>8, <1>11, HdcpAssumption DEF ProtectionInv, RequestInv, StateInv, Both
<1> QED
  BY <1>9, <1>10, <1>12 DEF ProtectionInv

(* New connectors read what the driver holds: from here on a connector     *)
(* that is protected is exempt.                                            *)
LEMMA ReloadProtection ==
    ASSUME ProtectionInv, Reload
    PROVE  ProtectionInv'
<1>1. /\ displays' = Headless /\ connected' = {} /\ asm' = [c \in Conns |-> NewAsm]
      /\ cached' = [c \in Conns |-> kernel[c].value]
      /\ UNCHANGED <<kernel, call, wanted>>
      /\ last' = IF dead THEN Primary ELSE last
  BY DEF Reload
<1>2. \A c \in Conns : kernel[c].value \in 0 .. 2
  BY DEF ProtectionInv, TypeOK, KmsRecord
<1>3. NewAsm \in AsmRecord
  BY DEF NewAsm, AsmRecord, States
<1>4. TypeOK'
  <2>1. cached' \in [Conns -> 0 .. 2] /\ asm' \in [Conns -> AsmRecord]
    BY <1>1, <1>2, <1>3
  <2>2. last' \in Nat /\ DOMAIN displays' = {Primary} /\ Primary \in 0 .. last'
    BY <1>1 DEF Headless, Primary, ProtectionInv, TypeOK
  <2>3. displays' \in [DOMAIN displays' -> Conns \cup {NoPipe}]
    BY <1>1 DEF Headless
  <2> QED
    BY <1>1, <2>1, <2>2, <2>3 DEF ProtectionInv, TypeOK
<1>5. OneDisplayEach' /\ Pipes' = {}
  BY <1>1 DEF OneDisplayEach, Headless, Pipes
<1>6. RequestInv'
  BY <1>1 DEF Reload, ProtectionInv, RequestInv
<1>7. StateInv'
  BY <1>1, <1>5, HdcpAssumption DEF ProtectionInv, StateInv, Both
<1> QED
  BY <1>4, <1>5, <1>6, <1>7 DEF ProtectionInv

(* The kernel turns desired into enabled and back, and both are protected. *)
LEMMA AuthenticateProtection ==
    ASSUME ProtectionInv, NEW c \in Conns, Authenticate(c)
    PROVE  ProtectionInv'
<1> DEFINE v == 3 - kernel[c].value
           k == [kernel[c] EXCEPT !.value = v]
<1>1. kernel[c] \in KmsRecord /\ v \in {1, 2} /\ kernel[c].value # 0
  BY DEF Authenticate, ProtectionInv, TypeOK
<1>2. /\ kernel' = [kernel EXCEPT ![c] = k]
      /\ UNCHANGED <<displays, last, connected, asm, cached, call, dead, wanted>>
  BY <1>1 DEF Authenticate, ProtectionInv, TypeOK, KmsRecord
<1> HIDE DEF v
<1>3. k \in KmsRecord /\ k.value # 0
  BY <1>1 DEF KmsRecord
<1> HIDE DEF k
<1>4. /\ kernel' \in [Conns -> KmsRecord]
      /\ \A d \in Conns : kernel'[d].value = 0 <=> kernel[d].value = 0
  BY <1>1, <1>2, <1>3 DEF ProtectionInv, TypeOK
<1>5. Pipes' = Pipes /\ \A d \in Conns : Writing(d)' <=> Writing(d)
  BY <1>2 DEF Pipes, Writing
<1>6. TypeOK' /\ OneDisplayEach' /\ RequestInv'
  BY <1>2, <1>4, <1>5 DEF ProtectionInv, TypeOK, OneDisplayEach, RequestInv
<1>7. StateInv'
  BY <1>2, <1>4, <1>5, HdcpAssumption DEF ProtectionInv, StateInv, Both
<1> QED
  BY <1>6, <1>7 DEF ProtectionInv

-----------------------------------------------------------------------------
(* With one client of the hwc service at a time, a connector that has both *)
(* properties is protected exactly when the last request that reached it   *)
(* asked for it, whatever is unplugged, re-plugged, reloaded or crashes in *)
(* between (DrmAtomicStateManager::SetHDCPState).                          *)
THEOREM ProtectionFollows ==
    ASSUME \A t, u \in Callers : t = u
    PROVE  Spec => []ProtectionFollowsRequests
<1>1. ASSUME ProtectionInv, [Next]_vars PROVE ProtectionInv'
  <2>1. CASE \E t \in Callers :
               \/ SetHDCPSRM(t) \/ Reply(t)
               \/ \E kind \in Kinds, target \in Targets, type \in Types \cup {Invalid} :
                    Request(t, kind, target, type)
               \/ WalkCrashes(t) \/ WalkSkips(t) \/ SetHDCPState(t) \/ AssignState(t)
               \/ WriteState(t) \/ UseAfterDetach(t)
    <3> PICK t \in Callers :
               \/ SetHDCPSRM(t) \/ Reply(t)
               \/ \E kind \in Kinds, target \in Targets, type \in Types \cup {Invalid} :
                    Request(t, kind, target, type)
               \/ WalkCrashes(t) \/ WalkSkips(t) \/ SetHDCPState(t) \/ AssignState(t)
               \/ WriteState(t) \/ UseAfterDetach(t)
      BY <2>1
    <3>1. \A u \in Callers : u = t
      OBVIOUS
    <3> QED
      BY <1>1, <3>1, RequestProtection, WalkCrashesProtection, SetStateProtection,
         AssignProtection, WriteProtection
  <2>2. CASE \E c \in Conns :
               UpdateModes(c) \/ BindDisplay(c) \/ UnbindDisplay(c) \/ Authenticate(c)
    BY <1>1, <2>2, UpdateModesProtection, BindProtection, UnbindProtection,
       AuthenticateProtection
  <2>3. CASE FinalizeDisplayBinding \/ Reload
    BY <1>1, <2>3, FinalizeProtection, ReloadProtection
  <2>4. CASE UNCHANGED vars
    <3>1. Pipes' = Pipes /\ \A d \in Conns : Writing(d)' <=> Writing(d)
      BY <2>4 DEF vars, Pipes, Writing
    <3> QED
      BY <1>1, <2>4, <3>1, HdcpAssumption
         DEF vars, ProtectionInv, TypeOK, OneDisplayEach, RequestInv, StateInv, Both
  <2> QED
    BY <1>1, <2>1, <2>2, <2>3, <2>4 DEF Next
<1>2. ProtectionInv => ProtectionFollowsRequests
  BY DEF ProtectionInv, StateInv, ProtectionFollowsRequests, Both
<1> QED
  BY <1>1, <1>2, InitProtection, PTL DEF Spec

-----------------------------------------------------------------------------
(* The gamma table of a CRTC (DisplayOutput)                               *)

(* What a quotient of naturals is.                                         *)
LEMMA Quotient ==
    ASSUME NEW a \in Nat, NEW b \in Nat \ {0}
    PROVE  /\ a \div b \in Nat
           /\ b * (a \div b) <= a
           /\ a < b * (a \div b) + b
BY SMT

(* Division keeps the order of naturals.                                   *)
LEMMA QuotientMonotone ==
    ASSUME NEW a \in Nat, NEW c \in Nat, NEW b \in Nat \ {0}, a <= c
    PROVE  a \div b <= c \div b
<1> DEFINE x == a \div b
           y == c \div b
<1>1. x \in Nat /\ b * x <= a
  BY Quotient
<1>2. y \in Nat /\ c < b * y + b
  BY Quotient
<1> HIDE DEF x, y
<1>3. b * x < b * y + b
  <2>1. b * x \in Nat /\ b * y \in Nat
    BY <1>1, <1>2
  <2> QED
    BY <1>1, <1>2, <2>1
<1>4. CASE x > y
  <2>1. x - (y + 1) \in Nat
    BY <1>1, <1>2, <1>4
  <2>2. b * (x - (y + 1)) \in Nat
    BY <2>1
  <2>3. b * (x - (y + 1)) = b * x - (b * y + b)
    BY <1>1, <1>2
  <2>4. b * x \in Nat /\ b * y \in Nat
    BY <1>1, <1>2
  <2> QED
    BY <1>3, <2>2, <2>3, <2>4
<1> QED
  BY <1>1, <1>2, <1>4 DEF x, y

(* A quotient is at most the factor by which the divisor exceeds.          *)
LEMMA QuotientBound ==
    ASSUME NEW a \in Nat, NEW b \in Nat \ {0}, NEW k \in Nat, a <= b * k
    PROVE  a \div b <= k
<1> DEFINE x == a \div b
<1>1. x \in Nat /\ b * x <= a
  BY Quotient
<1> HIDE DEF x
<1>2. CASE x > k
  <2>1. x - k - 1 \in Nat
    BY <1>1, <1>2
  <2>2. b * (x - k - 1) \in Nat
    BY <2>1
  <2>3. b * (x - k - 1) = b * x - b * k - b
    BY <1>1
  <2>4. b * x \in Nat /\ b * k \in Nat
    BY <1>1
  <2> QED
    BY <1>1, <2>2, <2>3, <2>4
<1> QED
  BY <1>1, <1>2 DEF x

(* The transformation stays between black and white and keeps the order.   *)
LEMMA TransformSound ==
    ASSUME NEW b \in 0 .. 255, NEW c \in 0 .. 255
    PROVE  /\ \A i \in Nat : TransformContrastBrightness(i, b, c) \in 0 .. Scale
           /\ \A i, j \in Nat : i <= j =>
                TransformContrastBrightness(i, b, c) <= TransformContrastBrightness(j, b, c)
<1>1. LutSize \in Nat /\ b \in Nat /\ c \in Nat
  BY OutputAssumption
<1> DEFINE base == b * LutSize * 256
           x(i) == (2 * i - LutSize) * c * 255 + base
<1>2. base \in Nat /\ Scale \in Nat
  BY <1>1 DEF Scale
<1>3. ASSUME NEW i \in Nat
      PROVE  x(i) \in Int /\ TransformContrastBrightness(i, b, c)
                               = IF x(i) < 0 THEN 0 ELSE IF x(i) > Scale THEN Scale ELSE x(i)
  <2>1. (2 * i - LutSize) * c \in Int
    BY <1>1
  <2> QED
    BY <1>2, <2>1 DEF TransformContrastBrightness
<1>4. ASSUME NEW i \in Nat, NEW j \in Nat, i <= j
      PROVE  x(i) <= x(j)
  <2> DEFINE u == (2 * i - LutSize) * c
             v == (2 * j - LutSize) * c
  <2>1. u \in Int /\ v \in Int
    BY <1>1
  <2>2. v - u = (2 * (j - i)) * c
    BY <1>1
  <2>3. (2 * (j - i)) \in Nat
    BY <1>4
  <2>4. (2 * (j - i)) * c \in Nat
    BY <1>1, <2>3
  <2>5. x(i) = u * 255 + base /\ x(j) = v * 255 + base
    OBVIOUS
  <2> HIDE DEF u, v, base
  <2> QED
    BY <1>2, <2>1, <2>2, <2>4, <2>5
<1> HIDE DEF x
<1>5. \A i \in Nat : TransformContrastBrightness(i, b, c) \in 0 .. Scale
  BY <1>2, <1>3
<1>6. ASSUME NEW i \in Nat, NEW j \in Nat, i <= j
      PROVE  TransformContrastBrightness(i, b, c) <= TransformContrastBrightness(j, b, c)
  <2>1. x(i) <= x(j) /\ x(i) \in Int /\ x(j) \in Int
    BY <1>3, <1>4, <1>6
  <2> QED
    BY <1>2, <1>3, <2>1
<1> QED
  BY <1>5, <1>6

(* A table that SetColorCorrection makes starts black, never falls, and    *)
(* never wraps at 16 bits.                                                 *)
LEMMA TableSound ==
    ASSUME NEW b \in 0 .. 255, NEW c \in 0 .. 255,
           NEW lut, lut = SetColorCorrection(b, c)
    PROVE  /\ DOMAIN lut = 1 .. LutSize
           /\ lut[1] = 0
           /\ \A i, j \in DOMAIN lut : i <= j => lut[i] <= lut[j]
<1> DEFINE T(n) == TransformContrastBrightness(n - 1, b, c)
           q(n) == (257 * T(n)) \div (LutSize * 256)
<1>0. LutSize \in Nat
  BY OutputAssumption
<1>1. LutSize \in Nat \ {0} /\ LutSize * 256 \in Nat \ {0} /\ Scale = (LutSize * 256) * 255
  BY OutputAssumption DEF Scale
<1>2. ASSUME NEW n \in 1 .. LutSize
      PROVE  /\ T(n) \in Nat /\ T(n) <= (LutSize * 256) * 255
             /\ q(n) \in Nat /\ q(n) <= 65535
  <2>1. n - 1 \in Nat
    BY <1>0
  <2>2. T(n) \in 0 .. Scale
    BY <2>1, TransformSound, ZenonT(60)
  <2>3. T(n) \in Nat /\ T(n) <= (LutSize * 256) * 255
    BY <1>1, <2>2
  <2> HIDE DEF T
  <2>4. 257 * T(n) \in Nat /\ 257 * T(n) <= (LutSize * 256) * 65535
    BY <1>1, <2>3
  <2>5. q(n) \in Nat /\ q(n) <= 65535
    BY <1>1, <2>4, Quotient, QuotientBound
  <2> QED
    BY <2>3, <2>5
<1>3. ASSUME NEW n \in 1 .. LutSize
      PROVE  lut[n] = IF n = 1 THEN 0 ELSE q(n)
  <2>1. lut[n] = IF n = 1 THEN 0 ELSE q(n) % 65536
    BY DEF SetColorCorrection
  <2>2. q(n) \in Nat /\ q(n) <= 65535
    BY <1>2
  <2> HIDE DEF q
  <2>3. q(n) % 65536 = q(n)
    BY <2>2
  <2> QED
    BY <2>1, <2>3
<1>4. ASSUME NEW i \in 1 .. LutSize, NEW j \in 1 .. LutSize, i <= j
      PROVE  q(i) <= q(j)
  <2>1. i - 1 \in Nat /\ j - 1 \in Nat /\ i - 1 <= j - 1
    BY <1>0, <1>4
  <2>2. T(i) <= T(j)
    BY <2>1, TransformSound, ZenonT(60)
  <2>3. T(i) \in Nat /\ T(j) \in Nat
    BY <1>2
  <2> HIDE DEF T
  <2>4. 257 * T(i) \in Nat /\ 257 * T(j) \in Nat /\ 257 * T(i) <= 257 * T(j)
    BY <2>2, <2>3
  <2> QED
    BY <1>1, <2>4, QuotientMonotone
<1>5. DOMAIN lut = 1 .. LutSize
  BY DEF SetColorCorrection
<1>6. 1 \in 1 .. LutSize
  BY <1>1
<1> HIDE DEF q
<1>7. ASSUME NEW i \in 1 .. LutSize, NEW j \in 1 .. LutSize, i <= j
      PROVE  lut[i] <= lut[j]
  <2>1. q(i) \in Nat /\ q(j) \in Nat /\ q(i) <= q(j)
    BY <1>2, <1>4, <1>7
  <2>2. i \in Nat /\ j \in Nat /\ (j = 1 => i = 1)
    BY <1>1, <1>7
  <2>3. lut[i] = (IF i = 1 THEN 0 ELSE q(i)) /\ lut[j] = (IF j = 1 THEN 0 ELSE q(j))
    BY <1>3
  <2>4. CASE i = 1
    BY <2>1, <2>3, <2>4
  <2>5. CASE i # 1
    BY <2>1, <2>2, <2>3, <2>5
  <2> QED
    BY <2>4, <2>5
<1> QED
  BY <1>3, <1>5, <1>6, <1>7

-----------------------------------------------------------------------------
(* The colours of a CRTC along a behaviour                                 *)

IsCrtc(c) == c = [on |-> c.on, bound |-> c.bound, ctm |-> c.ctm, lut |-> c.lut, hdr |-> c.hdr]

(* c has the colours of the CRTC, or those that a commit reads.            *)
Coloured(c) ==
    /\ IsCrtc(c)
    /\ \E blob \in BOOLEAN : c.ctm \in {crtc.ctm, ApplyPendingCTM(blob)}
    /\ \E blob \in BOOLEAN : c.lut \in {crtc.lut, ApplyPendingLUT(blob)}

(* SetColorSaturationHue and its sibling touch the colours alone.          *)
LEMMA AdjustedColoured ==
    ASSUME IsCrtc(crtc), NEW adjust, NEW blobs \in BOOLEAN
    PROVE  Coloured(Adjusted(adjust, blobs))
<1>1. PICK a, b : a = ApplyPendingCTM(blobs) /\ b = ApplyPendingLUT(blobs)
  OBVIOUS
<1>2. CASE adjust
  <2>1. Adjusted(adjust, blobs) = [crtc EXCEPT !.ctm = a, !.lut = b]
    BY <1>1, <1>2 DEF Adjusted
  <2>2. Adjusted(adjust, blobs) = [on |-> crtc.on, bound |-> crtc.bound, ctm |-> a, lut |-> b,
                                   hdr |-> crtc.hdr]
    BY <2>1 DEF IsCrtc
  <2> QED
    BY <1>1, <2>2 DEF Coloured, IsCrtc
<1>3. CASE ~adjust
  <2>1. Adjusted(adjust, blobs) = crtc
    BY <1>3 DEF Adjusted
  <2> QED
    BY <2>1 DEF Coloured
<1> QED
  BY <1>2, <1>3

(* A record with the same colours.                                         *)
LEMMA SameColours ==
    ASSUME NEW c, Coloured(c), NEW a, NEW b, NEW h,
           NEW d, d = [on |-> a, bound |-> b, ctm |-> c.ctm, lut |-> c.lut, hdr |-> h]
    PROVE  Coloured(d)
<1>1. IsCrtc(d) /\ d.ctm = c.ctm /\ d.lut = c.lut
  BY DEF IsCrtc
<1> QED
  BY <1>1 DEF Coloured

(* Switching a CRTC on leaves the colours alone.                           *)
LEMMA LitColoured ==
    ASSUME NEW c, Coloured(c)
    PROVE  Coloured(Lit(c))
<1>1. PICK x, y : x = (c.on \/ ~active) /\ y = (c.bound \/ ~active)
  OBVIOUS
<1>2. Lit(c) = [c EXCEPT !.on = x, !.bound = y]
  BY <1>1 DEF Lit
<1>3. Lit(c) = [on |-> x, bound |-> y, ctm |-> c.ctm, lut |-> c.lut, hdr |-> c.hdr]
  BY <1>2 DEF Coloured, IsCrtc
<1> QED
  BY <1>3, SameColours

(* So does a call that switches it on.                                     *)
LEMMA OnColoured ==
    ASSUME NEW c, Coloured(c), NEW x, NEW d, d = [c EXCEPT !.on = x]
    PROVE  Coloured(d)
<1>1. d = [on |-> x, bound |-> c.bound, ctm |-> c.ctm, lut |-> c.lut, hdr |-> c.hdr]
  BY DEF Coloured, IsCrtc
<1> QED
  BY <1>1, SameColours

(* So does new HDR metadata.                                               *)
LEMMA HdrColoured ==
    ASSUME NEW c, Coloured(c), NEW x, NEW d, d = [c EXCEPT !.hdr = x]
    PROVE  Coloured(d)
<1>1. d = [on |-> c.on, bound |-> c.bound, ctm |-> c.ctm, lut |-> c.lut, hdr |-> x]
  BY DEF Coloured, IsCrtc
<1> QED
  BY <1>1, SameColours

(* So does all of it together.                                             *)
LEMMA GivenUpColoured ==
    ASSUME NEW c, Coloured(c), NEW x, NEW z,
           NEW d, d = [c EXCEPT !.on = x, !.hdr = z]
    PROVE  Coloured(d)
<1>1. d = [on |-> x, bound |-> c.bound, ctm |-> c.ctm, lut |-> c.lut, hdr |-> z]
  BY DEF Coloured, IsCrtc
<1> QED
  BY <1>1, SameColours

(* What recovery from a failed commit leaves.                              *)
LEMMA RecoveredColoured ==
    ASSUME NEW h, NEW left, Coloured(left), NEW cleaned
    PROVE  Coloured(Recovered(h, left, cleaned).crtc)
<1>1. CASE cleaned
  <2>1. PICK x : x = HdrShown(Lit(left).hdr, HdrOp(h, FALSE))
    OBVIOUS
  <2>2. Recovered(h, left, cleaned).crtc = [Lit(left) EXCEPT !.hdr = x]
    BY <1>1, <2>1 DEF Recovered
  <2>3. Coloured(Lit(left))
    BY LitColoured
  <2> QED
    BY <2>2, <2>3, HdrColoured
<1>2. CASE ~cleaned
  <2>1. Recovered(h, left, cleaned).crtc = left
    BY <1>2 DEF Recovered
  <2> QED
    BY <2>1
<1> QED
  BY <1>1, <1>2

(* Whatever a step does, the colours stay or are those that a commit reads *)
(* from the files in that step.                                            *)
LEMMA StepColoured ==
    ASSUME IsCrtc(crtc), [OutputNext]_outputVars
    PROVE  \E c : crtc' = c /\ Coloured(c)
<1>0. Coloured(crtc)
  BY DEF Coloured
<1>1. CASE UNCHANGED crtc
  BY <1>0, <1>1
<1>2. ASSUME NEW b \in BOOLEAN, Present(b) PROVE \E c : crtc' = c /\ Coloured(c)
  <2>1. PICK a : a = Lit(Adjusted(dev.adjust, b))
    OBVIOUS
  <2>2. Coloured(a)
    BY <2>1, AdjustedColoured, LitColoured
  <2>3. PICK x : x = HdrShown(a.hdr, HdrOp(Hdr, HdrLayer))
    OBVIOUS
  <2>4. crtc' = [a EXCEPT !.hdr = x]
    BY <1>2, <2>1, <2>3 DEF Present
  <2> QED
    BY <2>2, <2>4, HdrColoured
<1>3. ASSUME NEW t \in Stages, NEW b \in BOOLEAN, NEW k \in BOOLEAN, PresentFails(t, b, k)
      PROVE  \E c : crtc' = c /\ Coloured(c)
  <2>1. crtc' = Recovered(HdrBy(t, HdrLayer), AdjustedBy(t, b), k).crtc
    BY <1>3 DEF PresentFails
  <2>2. Coloured(AdjustedBy(t, b))
    BY AdjustedColoured DEF AdjustedBy
  <2> QED
    BY <2>1, <2>2, RecoveredColoured
<1>4. ASSUME NEW b \in BOOLEAN, NEW f \in Fates, Deinit(b, f)
      PROVE  \E c : crtc' = c /\ Coloured(c)
  <2>1. PICK a : a = Adjusted(dev.adjust, b)
    OBVIOUS
  <2>2. PICK x, y : x = HdrShown(a.hdr, HdrOp(Hdr, FALSE)) /\ y = ~active
    OBVIOUS
  <2>3. crtc' = [a EXCEPT !.on = y, !.hdr = x]
    BY <1>4, <2>1, <2>2 DEF Deinit, Handed
  <2>4. Coloured(a)
    BY <2>1, AdjustedColoured
  <2> QED
    BY <2>3, <2>4, GivenUpColoured
<1>5. ASSUME NEW b \in BOOLEAN, NEW f \in Fates, NEW k \in BOOLEAN, DeinitFails(b, f, k)
      PROVE  \E c : crtc' = c /\ Coloured(c)
  <2>1. crtc' = Recovered(HdrBy("commit", FALSE), AdjustedBy("commit", b), k).crtc
    BY <1>5 DEF DeinitFails, Handed
  <2>2. Coloured(AdjustedBy("commit", b))
    BY AdjustedColoured DEF AdjustedBy
  <2> QED
    BY <2>1, <2>2, RecoveredColoured
<1>6. ASSUME NEW m, SetPowerMode(m) PROVE \E c : crtc' = c /\ Coloured(c)
  <2>1. PICK x : x = (crtc.on \/ crtc.bound)
    OBVIOUS
  <2>2. crtc' = [crtc EXCEPT !.on = x]
    BY <1>6, <2>1 DEF SetPowerMode, ActivateDisplayUsingDPMS
  <2> QED
    BY <1>0, <2>2, OnColoured
<1>7. ASSUME NEW m, \/ Hotplug(m) \/ SetLayerDataspace(m) \/ SetLayerBuffer(m)
                    \/ SetLayerPerFrameMetadata(m) \/ Edit(m) \/ Validate(m)
      PROVE  UNCHANGED crtc
  BY <1>7 DEF Hotplug, SetLayerDataspace, SetLayerBuffer, SetLayerPerFrameMetadata, Edit, Validate
<1> QED
  BY <1>1, <1>2, <1>3, <1>4, <1>5, <1>6, <1>7 DEF OutputNext, outputVars

(* The table of a CRTC is none, or one made for two bytes.                 *)
TableInv ==
    /\ IsCrtc(crtc)
    /\ crtc.lut # NoLut => \E b, c \in 0 .. 255 : crtc.lut = SetColorCorrection(b, c)

(* A new table is made for two bytes, whatever the files say.              *)
LEMMA PendingTable ==
    ASSUME NEW blob
    PROVE  \/ ApplyPendingLUT(blob) = crtc.lut
           \/ \E b, c \in 0 .. 255 : ApplyPendingLUT(blob) = SetColorCorrection(b, c)
<1>1. \A n : SettingByte(n) \in 0 .. 255
  BY DEF SettingByte
<1> QED
  BY <1>1, ZenonT(60) DEF ApplyPendingLUT

(* Whatever contrast and brightness the files give, in whatever order they *)
(* are edited and commits fail, a brighter input never comes out darker,   *)
(* and black stays black.                                                  *)
THEOREM TablesSound == OutputSpec => []LutSound
<1>1. OutputInit => TableInv
  BY DEF OutputInit, TableInv, IsCrtc
<1>2. TableInv /\ [OutputNext]_outputVars => TableInv'
  <2> SUFFICES ASSUME TableInv, [OutputNext]_outputVars
               PROVE  TableInv'
    OBVIOUS
  <2>1. PICK c : crtc' = c /\ Coloured(c)
    BY StepColoured, ZenonT(60) DEF TableInv
  <2>2. IsCrtc(c)
    BY <2>1 DEF Coloured
  <2>3. \/ c.lut = crtc.lut
        \/ \E b, d \in 0 .. 255 : c.lut = SetColorCorrection(b, d)
    BY <2>1, PendingTable, ZenonT(60) DEF Coloured
  <2>4. IsCrtc(crtc')
    BY <2>1, <2>2
  <2>5. crtc'.lut # NoLut => \E b, d \in 0 .. 255 : crtc'.lut = SetColorCorrection(b, d)
    BY <2>1, <2>3 DEF TableInv
  <2> QED
    BY <2>4, <2>5, ZenonT(60) DEF TableInv, IsCrtc
<1>3. TableInv => LutSound
  <2> SUFFICES ASSUME TableInv PROVE LutSound
    OBVIOUS
  <2>1. CASE crtc.lut = NoLut
    BY <2>1 DEF LutSound, NoLut
  <2>2. CASE crtc.lut # NoLut
    <3>1. PICK b, c \in 0 .. 255 : crtc.lut = SetColorCorrection(b, c)
      BY <2>2 DEF TableInv
    <3> QED
      BY <3>1, TableSound, ZenonT(60) DEF LutSound
  <2> QED
    BY <2>1, <2>2
<1> QED
  BY <1>1, <1>2, <1>3, PTL DEF OutputSpec

-----------------------------------------------------------------------------
(* The settings and the buffer two reads share                             *)

(* A nonempty set of numbers has a least one.                              *)
LEMMA LeastNatural ==
    ASSUME NEW T, T \subseteq Nat, T # {}
    PROVE  \E x \in T : \A y \in T : x <= y
<1> DEFINE R == OpToRel(<, Nat)
<1>1. IsWellFoundedOn(R, Nat)
  BY NatLessThanWellFounded
<1>2. \A x, y \in Nat : x < y => <<x, y>> \in R
  BY DEF OpToRel
<1> HIDE DEF R
<1>3. PICK x \in T : \A y \in T : ~ (<<y, x>> \in R)
  BY <1>1, WFMin
<1>4. \A y \in T : ~(y < x)
  BY <1>2, <1>3
<1> QED
  BY <1>3, <1>4

(* A file is missing, is empty, or has a line that ends within the bytes   *)
(* that are read.                                                          *)
EndsLine(t, k) == t \in Seq(Nat) /\ k \in 1 .. Len(t) /\ k <= Chunk /\ t[k] = Newline
Setting(t) == t \in {Absent, <<>>} \/ \E k \in Nat : EndsLine(t, k)
TextsTerminated ==
    \A p \in Presets : /\ Setting(p.saturation) /\ Setting(p.hue)
                       /\ Setting(p.brightness) /\ Setting(p.contrast)

(* Where the digits of a text end.                                         *)
Ends(t, f) == {i \in f .. Len(t) + 1 : i = Len(t) + 1 \/ t[i] > 9}
LeastEnd(t, f) == CHOOSE i \in Ends(t, f) : \A j \in Ends(t, f) : i <= j

(* There is such a place, at the end of the line at the latest.            *)
LEMMA LineEnds ==
    ASSUME NEW t \in Seq(Nat), NEW f \in 1 .. 2, NEW k \in 1 .. Len(t), f <= k, t[k] = Newline,
           NEW m, m = LeastEnd(t, f)
    PROVE  m \in Nat /\ f <= m /\ m <= k /\ t[m] > 9 /\ \A j \in Ends(t, f) : m <= j
<1>1. k \in Ends(t, f)
  BY DEF Ends, Newline
<1>2. Ends(t, f) \subseteq Nat
  BY DEF Ends
<1>3. \E i \in Ends(t, f) : \A j \in Ends(t, f) : i <= j
  BY <1>1, <1>2, LeastNatural
<1>4. m \in Ends(t, f) /\ \A j \in Ends(t, f) : m <= j
  BY <1>3 DEF LeastEnd
<1>5. m \in Nat /\ m <= k
  BY <1>1, <1>2, <1>4
<1>6. f <= m /\ (m = Len(t) + 1 \/ t[m] > 9)
  BY <1>4 DEF Ends
<1> QED
  BY <1>4, <1>5, <1>6

(* atoi reads no further than the end of the line.                         *)
LEMMA AtoiOfLine ==
    ASSUME NEW t \in Seq(Nat), NEW u \in Seq(Nat), NEW k \in 1 .. Len(t), t[k] = Newline,
           k <= Len(u), \A i \in 1 .. k : u[i] = t[i]
    PROVE  Atoi(u) = Atoi(t)
<1>1. t # <<>> /\ u # <<>> /\ u[1] = t[1] /\ u[k] = Newline /\ k \in 1 .. Len(u)
  OBVIOUS
<1>2. Signed(u) <=> Signed(t)
  BY <1>1 DEF Signed
<1>3. PICK f : f = IF Signed(t) THEN 2 ELSE 1
  OBVIOUS
<1>4. f \in 1 .. 2 /\ f <= k
  BY <1>1, <1>3 DEF Signed, Minus, Newline
<1>5. PICK m, n : m = LeastEnd(t, f) /\ n = LeastEnd(u, f)
  OBVIOUS
<1>6. m \in Nat /\ f <= m /\ m <= k /\ t[m] > 9 /\ \A j \in Ends(t, f) : m <= j
  BY <1>4, <1>5, LineEnds
<1>7. n \in Nat /\ f <= n /\ n <= k /\ u[n] > 9 /\ \A j \in Ends(u, f) : n <= j
  BY <1>1, <1>4, <1>5, LineEnds
<1>8. m \in Ends(u, f) /\ n \in Ends(t, f)
  <2>1. m \in 1 .. k /\ n \in 1 .. k
    BY <1>4, <1>6, <1>7, SMTT(40)
  <2>2. u[m] = t[m] /\ u[n] = t[n]
    BY <2>1
  <2>3. u[m] > 9 /\ t[n] > 9
    BY <1>6, <1>7, <2>2
  <2>4. m \in f .. Len(u) + 1 /\ n \in f .. Len(t) + 1
    <3>1. Len(u) \in Nat /\ Len(t) \in Nat /\ k <= Len(t)
      OBVIOUS
    <3> QED
      BY <1>4, <1>6, <1>7, <3>1, SMTT(40)
  <2> QED
    BY <2>3, <2>4 DEF Ends
<1>9. m = n
  BY <1>6, <1>7, <1>8
<1>10. Digits(t) = SubSeq(t, f, m - 1) /\ Digits(u) = SubSeq(u, f, m - 1)
  BY <1>2, <1>3, <1>5, <1>9 DEF Digits, LeastEnd, Ends
<1>11. SubSeq(t, f, m - 1) = SubSeq(u, f, m - 1)
  <2>1. \A i \in 1 .. (m - 1) - f + 1 : i + f - 1 \in 1 .. k
    BY <1>4, <1>6
  <2>2. \A i \in 1 .. (m - 1) - f + 1 : t[i + f - 1] = u[i + f - 1]
    BY <2>1
  <2>3. /\ SubSeq(t, f, m - 1) = [i \in 1 .. (m - 1) - f + 1 |-> t[i + f - 1]]
        /\ SubSeq(u, f, m - 1) = [i \in 1 .. (m - 1) - f + 1 |-> u[i + f - 1]]
    BY <1>4, <1>6, SMTT(40)
  <2> QED
    BY <2>2, <2>3
<1> QED
  BY <1>2, <1>10, <1>11 DEF Atoi

(* What a read leaves in the buffer starts with the line.                  *)
LEMMA FreadLine ==
    ASSUME NEW buf \in Seq(Nat), NEW t, NEW k \in Nat, EndsLine(t, k)
    PROVE  /\ Fread(buf, t) \in Seq(Nat)
           /\ Atoi(Fread(buf, t)) = Atoi(t)
<1> DEFINE n == IF Len(t) < Chunk THEN Len(t) ELSE Chunk
           new == SubSeq(t, 1, n)
           rest == SubSeq(buf, Len(new) + 1, Len(buf))
<1>1. t \in Seq(Nat) /\ k \in 1 .. Len(t) /\ k <= Chunk /\ t[k] = Newline
  BY DEF EndsLine
<1>2. n \in Nat /\ n <= Len(t) /\ k <= n
  BY <1>1 DEF Chunk
<1> HIDE DEF n
<1>3. new \in Seq(Nat) /\ Len(new) = n /\ \A i \in 1 .. n : new[i] = t[i]
  BY <1>1, <1>2
<1> HIDE DEF new
<1>4. rest \in Seq(Nat)
  BY <1>3, <1>2
<1> HIDE DEF rest
<1>5. Fread(buf, t) = new \o rest
  BY DEF Fread, new, rest, n
<1>6. /\ new \o rest \in Seq(Nat)
      /\ Len(new \o rest) >= n
      /\ \A i \in 1 .. k : (new \o rest)[i] = t[i]
  BY <1>1, <1>2, <1>3, <1>4, SMTT(40)
<1>7. PICK u : u = new \o rest
  OBVIOUS
<1>8. u \in Seq(Nat) /\ k <= Len(u) /\ \A i \in 1 .. k : u[i] = t[i]
  <2>1. u \in Seq(Nat) /\ Len(u) \in Nat /\ Len(u) >= n
    BY <1>6, <1>7
  <2> QED
    BY <1>2, <1>6, <1>7, <2>1, SMTT(40)
<1> QED
  BY <1>1, <1>5, <1>7, <1>8, AtoiOfLine

(* So each of two files is read as if it were alone.                       *)
LEMMA ReadAlone ==
    ASSUME NEW a, Setting(a), NEW b, Setting(b), NEW default, ~Unreadable(a, b),
           NEW x, x = (IF a = Absent THEN default[1] ELSE Atoi(a)),
           NEW y, y = (IF b = Absent THEN default[2] ELSE Atoi(b))
    PROVE  ReadTwo(a, b, default) = <<x, y>>
<1>1. PICK first : first = IF a = Absent THEN <<>> ELSE Fread(<<>>, a)
  OBVIOUS
<1>2. /\ a # Absent => \E k \in Nat : EndsLine(a, k)
      /\ b # Absent => \E k \in Nat : EndsLine(b, k)
  BY DEF Setting, Unreadable
<1>3. first \in Seq(Nat) /\ (a # Absent => Atoi(first) = Atoi(a))
  <2>1. <<>> \in Seq(Nat)
    OBVIOUS
  <2> QED
    BY <1>1, <1>2, <2>1, FreadLine
<1>4. b # Absent => Atoi(Fread(first, b)) = Atoi(b)
  BY <1>2, <1>3, FreadLine
<1> QED
  BY <1>1, <1>3, <1>4 DEF ReadTwo

(* The matrix and the table that a commit makes are those wanted.          *)
LEMMA PendingWanted ==
    ASSUME TextsTerminated, files \in Presets, NEW blob
    PROVE  /\ ApplyPendingCTM(blob) \in {crtc.ctm, WantedCtm}
           /\ ApplyPendingLUT(blob) \in {crtc.lut, WantedLut}
<1>1. Setting(files.saturation) /\ Setting(files.hue)
      /\ Setting(files.brightness) /\ Setting(files.contrast)
  BY DEF TextsTerminated
<1>2. ASSUME ~Unreadable(files.saturation, files.hue)
      PROVE  ApplyPendingCTM(blob) \in {crtc.ctm, WantedCtm}
  <2>1. PICK s, h : /\ s = (IF files.saturation = Absent THEN 100 ELSE Atoi(files.saturation))
                    /\ h = (IF files.hue = Absent THEN 0 ELSE Atoi(files.hue))
    OBVIOUS
  <2>2. ReadTwo(files.saturation, files.hue, <<100, 0>>) = <<s, h>>
    <3>1. PICK d : d = <<100, 0>>
      OBVIOUS
    <3>2. s = (IF files.saturation = Absent THEN d[1] ELSE Atoi(files.saturation))
          /\ h = (IF files.hue = Absent THEN d[2] ELSE Atoi(files.hue))
      BY <2>1, <3>1
    <3>3. ReadTwo(files.saturation, files.hue, d) = <<s, h>>
      BY <1>1, <1>2, <3>2, ReadAlone
    <3> QED
      BY <3>1, <3>3
  <2>3. SetColorTransformMatrix = GenerateHueSaturationMatrix(h, s)
    BY <2>2 DEF SetColorTransformMatrix
  <2>4. SetColorTransformMatrix = WantedCtm
    BY <2>1, <2>3 DEF GenerateHueSaturationMatrix, WantedCtm, Wanted
  <2> QED
    BY <2>4 DEF ApplyPendingCTM
<1>3. ASSUME ~Unreadable(files.brightness, files.contrast)
      PROVE  ApplyPendingLUT(blob) \in {crtc.lut, WantedLut}
  <2>1. PICK b, c : /\ b = (IF files.brightness = Absent THEN 128 ELSE Atoi(files.brightness))
                    /\ c = (IF files.contrast = Absent THEN 128 ELSE Atoi(files.contrast))
    OBVIOUS
  <2>2. ReadTwo(files.brightness, files.contrast, <<128, 128>>) = <<b, c>>
    <3>1. PICK d : d = <<128, 128>>
      OBVIOUS
    <3>2. b = (IF files.brightness = Absent THEN d[1] ELSE Atoi(files.brightness))
          /\ c = (IF files.contrast = Absent THEN d[2] ELSE Atoi(files.contrast))
      BY <2>1, <3>1
    <3>3. ReadTwo(files.brightness, files.contrast, d) = <<b, c>>
      BY <1>1, <1>3, <3>2, ReadAlone
    <3> QED
      BY <3>1, <3>3
  <2>3. /\ SettingByte(b) = Wanted(files.brightness, 128, 0, 255, 128)
        /\ SettingByte(c) = Wanted(files.contrast, 128, 0, 255, 128)
    BY <2>1 DEF SettingByte, Wanted
  <2>4. SetColorCorrection(SettingByte(b), SettingByte(c)) = WantedLut
    BY <2>3 DEF WantedLut
  <2> QED
    BY <2>2, <2>4 DEF ApplyPendingLUT
<1>4. ASSUME Unreadable(files.saturation, files.hue)
      PROVE  ApplyPendingCTM(blob) = crtc.ctm
  BY <1>4 DEF ApplyPendingCTM
<1>5. ASSUME Unreadable(files.brightness, files.contrast)
      PROVE  ApplyPendingLUT(blob) = crtc.lut
  BY <1>5 DEF ApplyPendingLUT
<1> QED
  BY <1>2, <1>3, <1>4, <1>5

(* The colours of the CRTC change only to what the files say at that time, *)
(* each taken by itself, for any files whose line ends within the bytes    *)
(* that are read.                                                          *)
THEOREM SettingsFollowFiles ==
    ASSUME TextsTerminated
    PROVE  OutputSpec => SettingsTaken
<1> DEFINE Inv == IsCrtc(crtc) /\ files \in Presets
           Taken == crtc'.ctm \in {crtc.ctm, WantedCtm} /\ crtc'.lut \in {crtc.lut, WantedLut}
<1>1. OutputInit => Inv
  BY DEF OutputInit, IsCrtc
<1>2. Inv /\ [OutputNext]_outputVars => Inv' /\ Taken
  <2> SUFFICES ASSUME Inv, [OutputNext]_outputVars
               PROVE  Inv' /\ Taken
    OBVIOUS
  <2>1. PICK c : crtc' = c /\ Coloured(c)
    BY StepColoured
  <2>2. IsCrtc(crtc)'
    BY <2>1 DEF Coloured, IsCrtc
  <2>3. c.ctm \in {crtc.ctm, WantedCtm} /\ c.lut \in {crtc.lut, WantedLut}
    BY <2>1, PendingWanted DEF Coloured
  <2>4. files' \in Presets
    <3>1. ASSUME NEW m, \/ Hotplug(m) \/ SetLayerDataspace(m) \/ SetLayerBuffer(m)
                        \/ SetLayerPerFrameMetadata(m) \/ Validate(m) \/ SetPowerMode(m)
                        \/ Present(m)
          PROVE  UNCHANGED files
      BY <3>1 DEF Hotplug, SetLayerDataspace, SetLayerBuffer, SetLayerPerFrameMetadata,
                  Validate, SetPowerMode, Present
    <3>2. ASSUME NEW t, NEW b, NEW k,
                 PresentFails(t, b, k) \/ Deinit(b, t) \/ DeinitFails(b, t, k)
          PROVE  UNCHANGED files
      BY <3>2 DEF PresentFails, Deinit, DeinitFails, Handed
    <3>3. ASSUME NEW p \in Presets, Edit(p) PROVE files' \in Presets
      BY <3>3 DEF Edit
    <3>4. CASE UNCHANGED outputVars
      BY <3>4 DEF outputVars
    <3> QED
      BY <3>1, <3>2, <3>3, <3>4 DEF OutputNext
  <2> QED
    BY <2>1, <2>2, <2>3, <2>4
<1>3. Inv /\ [OutputNext]_outputVars => [Taken]_outputVars
  BY <1>2
<1> QED
  BY <1>1, <1>2, <1>3, PTL DEF OutputSpec, SettingsTaken

-----------------------------------------------------------------------------
(* The HDR metadata block of a monitor                                     *)

Monitors == Seq(ExtensionBlock)

(* A byte of an EDID is a place in one of its blocks.                      *)
LEMMA ByteOfBlock ==
    ASSUME NEW edid \in Monitors, NEW p \in Bytes(edid)
    PROVE  /\ p[1] \in 1 .. Len(edid) /\ p[1] \in Nat /\ p[1] <= Len(edid)
           /\ edid[p[1]] \in ExtensionBlock
           /\ p[2] \in 1 .. Len(edid[p[1]].data)
           /\ p = <<p[1], p[2]>>
<1>1. PICK n \in DOMAIN edid : p \in {n} \X DOMAIN edid[n].data
  BY DEF Bytes
<1>2. n \in 1 .. Len(edid) /\ edid[n] \in ExtensionBlock
  BY <1>1 DEF Monitors
<1>3. edid[n].data \in Seq(0 .. 255)
  BY <1>2 DEF ExtensionBlock
<1>4. p[1] = n /\ p[2] \in DOMAIN edid[n].data /\ p = <<p[1], p[2]>>
  BY <1>1
<1> QED
  BY <1>2, <1>3, <1>4 DEF Monitors

(* Some places of an EDID have a last one.                                 *)
LEMMA LastExists ==
    ASSUME NEW edid \in Monitors, NEW S, S \subseteq Bytes(edid), S # {}
    PROVE  Last(S) \in S
<1>1. Len(edid) \in Nat
  BY DEF Monitors
<1>2. \A p \in S : p[1] \in Nat /\ p[1] <= Len(edid)
  BY ByteOfBlock
<1> DEFINE A == {Len(edid) - p[1] : p \in S}
<1>3. A \subseteq Nat /\ A # {}
  BY <1>1, <1>2
<1>4. PICK a \in A : \A x \in A : a <= x
  BY <1>3, LeastNatural
<1>5. PICK q \in S : a = Len(edid) - q[1]
  BY <1>4
<1>6. \A p \in S : p[1] <= q[1]
  <2> TAKE p \in S
  <2>1. Len(edid) - q[1] <= Len(edid) - p[1]
    BY <1>4, <1>5
  <2> QED
    BY <1>1, <1>2, <2>1
<1> HIDE DEF A
<1> DEFINE U == {p \in S : p[1] = q[1]}
           L == Len(edid[q[1]].data)
<1>7. edid[q[1]] \in ExtensionBlock /\ L \in Nat
  BY ByteOfBlock DEF ExtensionBlock
<1>8. \A p \in U : p[2] \in Nat /\ p[2] <= L
  <2> TAKE p \in U
  <2>1. p[2] \in 1 .. Len(edid[p[1]].data) /\ p[1] = q[1]
    BY ByteOfBlock
  <2> QED
    BY <1>7, <2>1
<1>9. q \in U
  OBVIOUS
<1> HIDE DEF L, U
<1> DEFINE B == {L - p[2] : p \in U}
<1>10. B \subseteq Nat /\ B # {}
  BY <1>7, <1>8, <1>9
<1>11. PICK b \in B : \A x \in B : b <= x
  BY <1>10, LeastNatural
<1>12. PICK r \in U : b = L - r[2]
  BY <1>11
<1>13. \A p \in U : p[2] <= r[2]
  <2> TAKE p \in U
  <2>1. L - r[2] <= L - p[2]
    BY <1>11, <1>12
  <2> QED
    BY <1>7, <1>8, <2>1
<1>14. r \in S /\ r[1] = q[1]
  BY <1>12 DEF U
<1>15. \A p \in S : Later(r, p)
  <2> TAKE p \in S
  <2>1. CASE p[1] = q[1]
    <3>1. p \in U
      BY <2>1 DEF U
    <3>2. p[2] <= r[2] /\ p[2] \in Nat /\ r[2] \in Nat
      BY <1>8, <1>12, <1>13, <3>1
    <3> QED
      BY <1>14, <2>1, <3>2 DEF Later
  <2>2. CASE p[1] # q[1]
    <3>1. p[1] < q[1]
      BY <1>2, <1>6, <2>2
    <3> QED
      BY <1>2, <1>14, <3>1 DEF Later
  <2> QED
    BY <2>1, <2>2
<1> QED
  BY <1>14, <1>15 DEF Last

(* A sequence is a function on its indices.                                *)
LEMMA SeqIsFunction ==
    ASSUME NEW S, NEW seq \in Seq(S)
    PROVE  /\ Len(seq) \in Nat /\ DOMAIN seq = 1 .. Len(seq)
           /\ \A i \in 1 .. Len(seq) : seq[i] \in S
OBVIOUS

(* The walk over every byte comes to every HDR metadata block.             *)
LEMMA BlocksWalked ==
    ASSUME NEW edid \in Monitors
    PROVE  /\ HdrBlocks(edid) \subseteq HdrPositions(edid)
           /\ HdrPositions(edid) \subseteq Bytes(edid)
           /\ \A p \in HdrBlocks(edid) :
                Byte(edid[p[1]], p[2] + 2) = edid[p[1]].data[p[2] + 2]
<1>1. HdrPositions(edid) \subseteq Bytes(edid)
  BY DEF HdrPositions, Positions
<1>2. ASSUME NEW p \in HdrBlocks(edid)
      PROVE  /\ p \in HdrPositions(edid)
             /\ Byte(edid[p[1]], p[2] + 2) = edid[p[1]].data[p[2] + 2]
  <2>1. p \in Bytes(edid)
    BY DEF HdrBlocks
  <2>2. PICK n, i, bytes : n = p[1] /\ i = p[2] /\ bytes = edid[n].data
    OBVIOUS
  <2>3. edid[n] \in ExtensionBlock /\ i \in 1 .. Len(bytes)
    BY <2>1, <2>2, ByteOfBlock
  <2>4. bytes \in Seq(0 .. 255)
    BY <2>2, <2>3 DEF ExtensionBlock
  <2>5. PICK v : v = bytes[i]
    OBVIOUS
  <2>6. v \in 0 .. 255
    <3>1. \A j \in 1 .. Len(bytes) : bytes[j] \in 0 .. 255
      BY <2>4, SeqIsFunction, Zenon
    <3> QED
      BY <2>3, <2>5, <3>1
  <2>7. /\ edid[n].cta /\ i + (v % 32) <= Len(bytes)
        /\ v \div 32 = 7 /\ v % 32 >= 3 /\ bytes[i + 1] = 6
    BY <2>2, <2>5 DEF HdrBlocks, DbLen
  <2>8. v % 32 \in 3 .. 31
    BY <2>6, <2>7
  <2>9. i \in Nat /\ Len(bytes) \in Nat /\ i <= Len(bytes) - 1 /\ i + 1 \in 1 .. Len(bytes)
        /\ i + 2 \in 1 .. Len(bytes)
    <3>1. Len(bytes) \in Nat
      BY <2>4, SeqIsFunction, Zenon
    <3>2. PICK n1, n2 : n1 = Len(bytes) /\ n2 = v % 32
      OBVIOUS
    <3> QED
      BY <2>3, <2>7, <2>8, <3>1, <3>2
  <2>10. DOMAIN bytes = 1 .. Len(bytes)
    BY <2>4, SeqIsFunction, Zenon
  <2>11. /\ Byte(edid[n], i) = v /\ Byte(edid[n], i + 1) = 6
         /\ Byte(edid[n], i + 2) = bytes[i + 2]
    BY <2>2, <2>3, <2>5, <2>7, <2>9, <2>10 DEF Byte
  <2>12. p \in Positions(edid)
    BY <2>1, <2>2, <2>7, <2>9, <2>11 DEF Positions, LastPosition, Tag, ExtendedTag
  <2>13. PayloadLength(edid[n], i) >= 2
    <3>1. PayloadLength(edid[n], i) = ((v % 32) - 1) % 256
      BY <2>11 DEF PayloadLength, DbLen
    <3> QED
      BY <2>8, <3>1
  <2> QED
    BY <2>2, <2>11, <2>12, <2>13 DEF HdrPositions, HdrCode
<1> QED
  BY <1>1, <1>2

(* Parsing an EDID finds its HDR metadata.                                 *)
LEMMA ParseFinds ==
    ASSUME NEW edid \in Monitors, NEW md, md = ParseCTAFromExtensionBlock(edid).md,
           HdrBlocks(edid) # {}
    PROVE  /\ md # NoMd
           /\ Lookalikes(edid) = {} =>
                md.eotf = edid[Last(HdrBlocks(edid))[1]].data[Last(HdrBlocks(edid))[2] + 2] % 64
<1>1. HdrPositions(edid) # {}
  BY BlocksWalked
<1>2. PICK p : p = Last(HdrPositions(edid))
  OBVIOUS
<1>3. md = GetHDRStaticMetadata(edid[p[1]], p[2])
  BY <1>1, <1>2 DEF ParseCTAFromExtensionBlock
<1>4. md.eotf = Byte(edid[p[1]], p[2] + 2) % 64 /\ "none" \notin DOMAIN md
  BY <1>3 DEF GetHDRStaticMetadata
<1>5. md # NoMd
  <2>1. "none" \in DOMAIN NoMd
    BY DEF NoMd
  <2> QED
    BY <1>4, <2>1
<1>6. ASSUME Lookalikes(edid) = {}
      PROVE  md.eotf = edid[Last(HdrBlocks(edid))[1]].data[Last(HdrBlocks(edid))[2] + 2] % 64
  <2>1. HdrPositions(edid) = HdrBlocks(edid)
    BY <1>6, BlocksWalked DEF Lookalikes
  <2>2. p \in HdrBlocks(edid)
    BY <1>1, <1>2, <2>1, BlocksWalked, LastExists
  <2>3. p = Last(HdrBlocks(edid))
    BY <1>2, <2>1
  <2>4. Byte(edid[p[1]], p[2] + 2) = edid[p[1]].data[p[2] + 2]
    BY <2>2, BlocksWalked
  <2> QED
    BY <1>4, <2>3, <2>4
<1> QED
  BY <1>5, <1>6

IsConn(c) ==
    /\ c = [edid |-> c.edid, md |-> c.md, primary |-> c.primary, valid |-> c.valid,
            given |-> c.given]
    /\ c.edid \in Monitors
    /\ c.md = ParseCTAFromExtensionBlock(c.edid).md

(* A connector that is made anew, and one that takes metadata.             *)
LEMMA ConnMade ==
    ASSUME NEW hdr, NEW monitor \in Monitors
    PROVE  IsConn(CreateInstance(hdr, monitor))
<1>1. PICK e : e = UpdateEdidProperty(hdr, monitor)
  OBVIOUS
<1>2. e \in Monitors
  BY <1>1 DEF UpdateEdidProperty, NoMonitor, Monitors
<1>3. PICK r : r = ParseCTAFromExtensionBlock(e)
  OBVIOUS
<1>4. r = [edid |-> r.edid, md |-> r.md, primary |-> r.primary, valid |-> r.valid,
           given |-> r.given] /\ r.edid = e
  BY <1>3 DEF ParseCTAFromExtensionBlock
<1>5. CreateInstance(hdr, monitor) = r
  BY <1>1, <1>3 DEF CreateInstance
<1> QED
  BY <1>2, <1>3, <1>4, <1>5 DEF IsConn

(* What a client gives, and what commits count, leave the EDID alone.      *)
LEMMA ConnKept ==
    ASSUME NEW c, IsConn(c), NEW v, NEW g
    PROVE  IsConn([c EXCEPT !.valid = v]) /\ IsConn([c EXCEPT !.valid = v, !.given = g])
<1>1. [c EXCEPT !.valid = v] = [edid |-> c.edid, md |-> c.md, primary |-> c.primary,
                                valid |-> v, given |-> c.given]
  BY DEF IsConn
<1>2. [c EXCEPT !.valid = v, !.given = g] = [edid |-> c.edid, md |-> c.md, primary |-> c.primary,
                                            valid |-> v, given |-> g]
  <2>1. PICK d : d = [c EXCEPT !.valid = v]
    OBVIOUS
  <2>2. [c EXCEPT !.valid = v, !.given = g] = [d EXCEPT !.given = g]
    BY <2>1
  <2>3. d = [edid |-> c.edid, md |-> c.md, primary |-> c.primary, valid |-> v,
             given |-> c.given]
    BY <1>1, <2>1
  <2>4. [d EXCEPT !.given = g] = [edid |-> c.edid, md |-> c.md, primary |-> c.primary,
                                  valid |-> v, given |-> g]
    BY <2>3
  <2> QED
    BY <2>2, <2>4
<1>3. \A x : IsConn([edid |-> c.edid, md |-> c.md, primary |-> c.primary,
                     valid |-> v, given |-> x])
  BY DEF IsConn
<1> QED
  BY <1>1, <1>2, <1>3

ConnInv == IsConn(conn) /\ plugged \in Monitors

(* Whatever the EDIDs, and however monitors come and go, no HDR metadata   *)
(* block of the monitor that was read is missed, and when no other bytes   *)
(* look like one the metadata is that of the last one.                     *)
THEOREM HdrBlocksFound == OutputSpec => []HdrBlockFound
<1>1. OutputInit => ConnInv
  BY OutputAssumption, ConnMade DEF OutputInit, ConnInv, Monitors
<1>2. ConnInv /\ [OutputNext]_outputVars => ConnInv'
  <2> SUFFICES ASSUME ConnInv, [OutputNext]_outputVars
               PROVE  ConnInv'
    OBVIOUS
  <2>0. IsConn(conn) /\ plugged \in Monitors
    BY DEF ConnInv
  <2>1. ASSUME NEW h, HdrIs(h), UNCHANGED plugged PROVE ConnInv'
    <3>1. PICK c : c = [conn EXCEPT !.valid = h.valid]
      OBVIOUS
    <3>2. IsConn(c)
      BY <2>0, <3>1, ConnKept
    <3>3. conn' = c
      BY <2>1, <3>1 DEF HdrIs
    <3> QED
      BY <2>0, <2>1, <3>2, <3>3 DEF ConnInv, IsConn
  <2>2. ASSUME NEW m \in Spares \cup {NoMonitor}, Hotplug(m) PROVE ConnInv'
    <3>1. m \in Monitors
      <4>1. <<>> \in Seq(ExtensionBlock)
        OBVIOUS
      <4>2. Spares \subseteq Seq(ExtensionBlock)
        BY OutputAssumption
      <4> QED
        BY <4>1, <4>2 DEF Monitors, NoMonitor
    <3> QED
      BY <2>0, <2>2, <3>1 DEF Hotplug, ConnInv, IsConn
  <2>3. ASSUME NEW m, SetLayerPerFrameMetadata(m) PROVE ConnInv'
    <3>1. PICK c, v : v = TRUE /\ c = [conn EXCEPT !.valid = v, !.given = m]
      OBVIOUS
    <3>2. IsConn(c)
      BY <2>0, <3>1, ConnKept
    <3>3. conn' = c /\ plugged' = plugged
      BY <2>3, <3>1 DEF SetLayerPerFrameMetadata
    <3> QED
      BY <2>0, <3>2, <3>3 DEF ConnInv, IsConn
  <2>4. ASSUME NEW m, \/ SetLayerDataspace(m) \/ SetLayerBuffer(m) \/ Edit(m) \/ SetPowerMode(m)
        PROVE  ConnInv'
    BY <2>0, <2>4 DEF SetLayerDataspace, SetLayerBuffer, Edit, SetPowerMode, ConnInv, IsConn
  <2>5. ASSUME NEW t, NEW b, NEW k, Validate(t) \/ Present(b) \/ PresentFails(t, b, k)
        PROVE  ConnInv'
    <3>1. \E h : HdrIs(h)
      BY <2>5 DEF Validate, Present, PresentFails
    <3>2. UNCHANGED plugged
      BY <2>5 DEF Validate, Present, PresentFails
    <3> QED
      BY <2>1, <3>1, <3>2
  <2>6. ASSUME NEW r, NEW f, Handed(r, f) PROVE ConnInv'
    <3>1. plugged' = plugged
      BY <2>6 DEF Handed
    <3>2. CASE f = "reopened"
      <4>1. PICK c : c = CreateInstance(dev.hdr, plugged)
        OBVIOUS
      <4>2. IsConn(c)
        BY <2>0, <4>1, ConnMade
      <4>3. conn' = c
        BY <2>6, <3>2, <4>1 DEF Handed
      <4> QED
        BY <2>0, <3>1, <4>2, <4>3 DEF ConnInv, IsConn
    <3>3. CASE f # "reopened"
      <4>1. PICK c : c = [conn EXCEPT !.valid = r.hdr.valid]
        OBVIOUS
      <4>2. IsConn(c)
        BY <2>0, <4>1, ConnKept
      <4>3. conn' = c
        BY <2>6, <3>3, <4>1 DEF Handed
      <4> QED
        BY <2>0, <3>1, <4>2, <4>3 DEF ConnInv, IsConn
    <3> QED
      BY <3>2, <3>3
  <2>7. ASSUME NEW t, NEW b, NEW k, Deinit(b, t) \/ DeinitFails(b, t, k) PROVE ConnInv'
    BY <2>6, <2>7 DEF Deinit, DeinitFails
  <2>8. CASE UNCHANGED outputVars
    BY <2>0, <2>8 DEF outputVars, ConnInv, IsConn
  <2> QED
    BY <2>2, <2>3, <2>4, <2>5, <2>7, <2>8 DEF OutputNext
<1>3. ConnInv => HdrBlockFound
  <2> SUFFICES ASSUME ConnInv PROVE HdrBlockFound
    OBVIOUS
  <2>1. conn.edid \in Monitors /\ conn.md = ParseCTAFromExtensionBlock(conn.edid).md
    BY DEF ConnInv, IsConn
  <2>2. HdrBlocks(conn.edid) # {} =>
          /\ conn.md # NoMd
          /\ Lookalikes(conn.edid) = {} =>
               conn.md.eotf = conn.edid[Last(HdrBlocks(conn.edid))[1]]
                                .data[Last(HdrBlocks(conn.edid))[2] + 2] % 64
    BY <2>1, ParseFinds
  <2> QED
    BY <2>2 DEF HdrBlockFound, IsConnectorHdrCapable
<1> QED
  BY <1>1, <1>2, <1>3, PTL DEF OutputSpec
=============================================================================
