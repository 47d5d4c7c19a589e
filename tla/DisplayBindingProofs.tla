------------------------- MODULE DisplayBindingProofs -------------------------
(***************************************************************************)
(* Theorems about DisplayBinding: the bookkeeping of displays and          *)
(* pipelines stays consistent, the primary display serves, displays are    *)
(* disposed of after notice, and the client knows what is connected.       *)
(*                                                                         *)
(* What is proved without a hypothesis on Windows holds however the two    *)
(* threads interleave.  The pairing of displays and pipelines needs that   *)
(* not both of the windows of Exclusive are open.                          *)
(***************************************************************************)
EXTENDS DisplayBinding, TLAPS, WellFoundedInduction

(* The other thread does not both wait in the hotplug handler while the    *)
(* callback is unregistered and attach displays during the unregistration. *)
Exclusive == ~({"deinit", "handler"} \subseteq Windows)

-----------------------------------------------------------------------------
(* The invariant, for the record s of the bookkeeping.                     *)

Shape(s) ==
    /\ s = [displays |-> s.displays, handles |-> s.handles,
            deferred |-> s.deferred, removal |-> s.removal, last |-> s.last,
            attached |-> s.attached, refused |-> s.refused]
    /\ s.displays = [h \in DOMAIN s.displays |-> s.displays[h]]
    /\ s.handles = [c \in DOMAIN s.handles |-> s.handles[c]]
    /\ s.deferred = [h \in DOMAIN s.deferred |-> s.deferred[h]]
    /\ s.last \in Nat
    /\ Primary \notin s.removal
    /\ DOMAIN s.handles \subseteq Conns

(* The connectors with a pipeline are those that have a display.           *)
Linked(s) == DOMAIN s.handles = s.attached

(* Displays and pipelines are paired, fresh handles are unused, and what   *)
(* waits for disposal has no pipeline.                                     *)
Paired(s) ==
    /\ DOMAIN s.displays \subseteq 0 .. s.last
    /\ s.removal \subseteq 0 .. s.last /\ DOMAIN s.deferred \subseteq 0 .. s.last
    /\ \A c \in DOMAIN s.handles :
         s.handles[c] \in DOMAIN s.displays /\ s.displays[s.handles[c]] = c
    /\ \A h \in DOMAIN s.displays : s.displays[h] # NoPipe =>
         s.displays[h] \in DOMAIN s.handles /\ s.handles[s.displays[h]] = h
    /\ \A h \in s.removal : ~HasPipe(s, h)

(* The events of s say what changed since s0, when there were none.        *)
Tracked(s0, s) ==
    /\ DOMAIN s0.displays \subseteq DOMAIN s.displays
    /\ DOMAIN s.displays \ DOMAIN s0.displays \subseteq DOMAIN s.deferred
    /\ \A h \in DOMAIN s.deferred : s.deferred[h] <=> HasPipe(s, h) \/ h = Primary
    /\ \A h : h \notin DOMAIN s.deferred => (HasPipe(s, h) <=> HasPipe(s0, h))

Serving(s) ==
    /\ Primary \in DOMAIN s.displays
    /\ s.attached # {} => HasPipe(s, Primary)

Good(s0, s) == Shape(s) /\ (Exclusive => Paired(s) /\ Tracked(s0, s))

-----------------------------------------------------------------------------
(* The invariant, for the threads.                                         *)

Busy(t) == pc[t] \in {"send", "sleep"}

(* The client's thread is not between the first update of Init and DeInit. *)
Quiet ==
    \/ pc["client"] = "primary"
    \/ (Busy("client") /\ job["client"] = "deinit")
    \/ (~initialized /\ pc["client"] \in {"idle", "open"})

ThreadsInv ==
    /\ pc \in [Threads -> {"idle", "handler", "open", "send", "sleep", "primary"}]
    /\ pc["client"] # "handler"
    /\ pc["uevent"] \notin {"open", "primary"}
    /\ job \in [Threads -> {"none", "update", "init", "deinit"}]
    /\ Busy("client") => job["client"] \in {"init", "deinit"}
    /\ Busy("uevent") => job["uevent"] = "update"
    /\ cursor = [t \in Threads |-> cursor[t]]
    /\ initialized \in BOOLEAN /\ drms \in BOOLEAN
    /\ handler \in BOOLEAN /\ registered \in BOOLEAN
    /\ pc["client"] \in {"open", "primary"} => ~initialized
    /\ pc["uevent"] = "send" => pc["client"] \notin {"send", "open"}
    /\ registered <=> ~Quiet \/ pc["client"] = "open"
    /\ Quiet => ~handler
    /\ pc["client"] = "primary" \/ (~initialized /\ pc["client"] = "idle") => ~drms
    /\ "handler" \notin Windows /\ ~handler => pc["uevent"] # "handler"
    /\ ~registered => known = {}
    /\ pc["client"] = "open" => known = {}

BookInv ==
    /\ Shape(b) /\ Linked(b)
    /\ initialized \/ Busy("client") => Serving(b)
    /\ (\A t \in Threads : pc[t] # "send") => DOMAIN b.deferred = {}
    /\ Exclusive =>
         /\ Paired(b)
         /\ Quiet => b.attached = {}

(* What the client knows once the events still to be sent are sent.        *)
WillKnow(h) ==
    \/ \E t \in Threads : pc[t] = "send" /\ h \in ToSend(t) /\ b.deferred[h]
    \/ h \in known /\ \A t \in Threads : pc[t] = "send" => h \notin ToSend(t)

NoticeInv ==
    /\ Exclusive /\ ~Quiet =>
         /\ \A h : HasPipe(b, h) => WillKnow(h)
         /\ \A h : h # Primary /\ WillKnow(h) => HasPipe(b, h)
    /\ "handler" \notin Windows =>
         /\ ~Quiet => WillKnow(Primary)
         /\ Quiet /\ pc["client"] \in {"idle", "open"} =>
              Primary \notin DOMAIN b.displays
    /\ pc["client"] = "send" => known \subseteq cursor["client"]

BindingInv == ThreadsInv /\ BookInv /\ NoticeInv

-----------------------------------------------------------------------------
(* Lemmas about the bookkeeping.                                           *)

(* A nonempty set of numbers has a least one.                              *)
LEMMA LeastNatural ==
    ASSUME NEW T, T \subseteq Nat, T # {}
    PROVE  \E x \in T : \A y \in T : x <= y
<1> DEFINE R == OpToRel(<, Nat)
<1>1. IsWellFoundedOn(R, Nat)
  BY NatLessThanWellFounded
<1>2. \A x, y \in Nat : x < y => <<x, y>> \in R
  BY DEF OpToRel
<1> HIDE DEF R
<1>3. PICK x \in T : \A y \in T : ~ (<<y, x>> \in R)
  BY <1>1, WFMin
<1>4. \A y \in T : ~(y < x)
  BY <1>2, <1>3
<1> QED
  BY <1>3, <1>4

(* What Put and Drop do to a partial function.                             *)
IsPut(g, f, x, v) ==
    /\ DOMAIN g = DOMAIN f \cup {x}
    /\ g[x] = v
    /\ \A y \in DOMAIN f : y # x => g[y] = f[y]
    /\ g = [y \in DOMAIN g |-> g[y]]

IsDrop(g, f, S) ==
    /\ DOMAIN g = DOMAIN f \ S
    /\ \A y \in DOMAIN f \ S : g[y] = f[y]
    /\ g = [y \in DOMAIN g |-> g[y]]

(* What an entry put into a map changes.                                   *)
LEMMA PutIs ==
    ASSUME NEW f, NEW x, NEW v
    PROVE  IsPut(Put(f, x, v), f, x, v)
BY DEF Put, IsPut

(* What dropping entries of a map changes.                                 *)
LEMMA DropIs ==
    ASSUME NEW f, NEW S
    PROVE  IsDrop(Drop(f, S), f, S)
BY DEF Drop, IsDrop

(* SetPipeline, field by field.                                            *)
LEMMA PipelineFields ==
    ASSUME NEW s, Shape(s), NEW h, NEW p
    PROVE  SetPipeline(s, h, p) =
             [displays |-> Put(s.displays, h, p), handles |-> s.handles,
              deferred |-> Put(s.deferred, h, p # NoPipe \/ h = Primary),
              removal |-> s.removal, last |-> s.last,
              attached |-> s.attached, refused |-> s.refused]
<1> DEFINE D == Put(s.displays, h, p)
           E == Put(s.deferred, h, p # NoPipe \/ h = Primary)
<1>1. s = [displays |-> s.displays, handles |-> s.handles,
            deferred |-> s.deferred, removal |-> s.removal, last |-> s.last,
            attached |-> s.attached, refused |-> s.refused]
  BY DEF Shape
<1>2. SetPipeline(s, h, p) = [s EXCEPT !.displays = D, !.deferred = E]
  BY DEF SetPipeline
<1> HIDE DEF D, E
<1>3. SetPipeline(s, h, p) =
        [displays |-> D, handles |-> s.handles, deferred |-> E,
         removal |-> s.removal, last |-> s.last,
         attached |-> s.attached, refused |-> s.refused]
  BY <1>1, <1>2
<1> QED
  BY <1>3 DEF D, E

(* BindDisplay, field by field.                                            *)
LEMMA BindFields ==
    ASSUME NEW s, Shape(s), NEW c
    PROVE  \E H :
             /\ H = IF HasPipe(s, Primary) THEN s.last + 1 ELSE Primary
             /\ BindDisplay(s, c) =
                  [displays |-> Put(s.displays, H, c), handles |-> Put(s.handles, c, H),
                   deferred |-> Put(s.deferred, H, c # NoPipe \/ H = Primary),
                   removal |-> s.removal,
                   last |-> IF HasPipe(s, Primary) THEN H ELSE s.last,
                   attached |-> s.attached, refused |-> s.refused]
<1> DEFINE H == IF HasPipe(s, Primary) THEN s.last + 1 ELSE Primary
           D == Put(s.displays, H, c)
           E == Put(s.deferred, H, c # NoPipe \/ H = Primary)
           G == Put(s.handles, c, H)
           L == IF HasPipe(s, Primary) THEN H ELSE s.last
           t == SetPipeline(s, H, c)
<1>1. t = [displays |-> D, handles |-> s.handles, deferred |-> E,
           removal |-> s.removal, last |-> s.last,
           attached |-> s.attached, refused |-> s.refused]
  BY PipelineFields
<1>2. t.handles = s.handles /\ t.last = s.last
  BY <1>1
<1>3. BindDisplay(s, c) =
        [t EXCEPT !.handles = Put(t.handles, c, H),
                  !.last = IF HasPipe(s, Primary) THEN H ELSE t.last]
  BY DEF BindDisplay
<1>4. BindDisplay(s, c) = [t EXCEPT !.handles = G, !.last = L]
  BY <1>2, <1>3
<1> HIDE DEF t, D, E, G, L
<1>5. BindDisplay(s, c) =
        [displays |-> D, handles |-> G, deferred |-> E, removal |-> s.removal,
         last |-> L, attached |-> s.attached, refused |-> s.refused]
  BY <1>1, <1>4
<1> QED
  BY <1>5 DEF D, E, G, L

(* UnbindDisplay, field by field.                                          *)
LEMMA UnbindFields ==
    ASSUME NEW s, Shape(s), NEW c
    PROVE  \E h :
             /\ h = s.handles[c]
             /\ h \in DOMAIN s.displays => UnbindDisplay(s, c) =
                  [displays |-> Put(s.displays, h, NoPipe), handles |-> Drop(s.handles, {c}),
                   deferred |-> Put(s.deferred, h, NoPipe # NoPipe \/ h = Primary),
                   removal |-> IF h = Primary THEN s.removal ELSE s.removal \cup {h},
                   last |-> s.last, attached |-> s.attached, refused |-> s.refused]
             /\ h \notin DOMAIN s.displays => UnbindDisplay(s, c) =
                  [displays |-> s.displays, handles |-> Drop(s.handles, {c}),
                   deferred |-> s.deferred, removal |-> s.removal,
                   last |-> s.last, attached |-> s.attached, refused |-> s.refused]
<1> DEFINE h == s.handles[c]
           D == Put(s.displays, h, NoPipe)
           E == Put(s.deferred, h, NoPipe # NoPipe \/ h = Primary)
           G == Drop(s.handles, {c})
           W == IF h = Primary THEN s.removal ELSE s.removal \cup {h}
           u == [s EXCEPT !.handles = G]
           t == SetPipeline(u, h, NoPipe)
<1>1. s = [displays |-> s.displays, handles |-> s.handles,
            deferred |-> s.deferred, removal |-> s.removal, last |-> s.last,
            attached |-> s.attached, refused |-> s.refused]
  BY DEF Shape
<1>2. UnbindDisplay(s, c) = IF h \in DOMAIN s.displays
        THEN [t EXCEPT !.removal = IF h = Primary THEN t.removal ELSE t.removal \cup {h}]
        ELSE u
  BY DEF UnbindDisplay
<1>3. DOMAIN G \subseteq DOMAIN s.handles /\ G = [x \in DOMAIN G |-> G[x]]
  BY DEF Drop
<1>4. u = [displays |-> s.displays, handles |-> G,
           deferred |-> s.deferred, removal |-> s.removal, last |-> s.last,
           attached |-> s.attached, refused |-> s.refused]
  <2> HIDE DEF G
  <2> QED
    BY <1>1
<1>5. Shape(u)
  <2> HIDE DEF G, u
  <2>1. /\ u.displays = s.displays /\ u.handles = G /\ u.deferred = s.deferred
        /\ u.removal = s.removal /\ u.last = s.last /\ u.attached = s.attached
        /\ u.refused = s.refused
    BY <1>4
  <2> QED
    BY <1>3, <1>4, <2>1 DEF Shape
<1>6. t = [displays |-> D, handles |-> G, deferred |-> E, removal |-> s.removal,
           last |-> s.last, attached |-> s.attached, refused |-> s.refused]
  <2> HIDE DEF G, u
  <2>1. /\ u.displays = s.displays /\ u.handles = G /\ u.deferred = s.deferred
        /\ u.removal = s.removal /\ u.last = s.last /\ u.attached = s.attached
        /\ u.refused = s.refused
    BY <1>4
  <2>2. t = [displays |-> Put(u.displays, h, NoPipe), handles |-> u.handles,
              deferred |-> Put(u.deferred, h, NoPipe # NoPipe \/ h = Primary),
              removal |-> u.removal, last |-> u.last,
              attached |-> u.attached, refused |-> u.refused]
    BY <1>5, PipelineFields
  <2> QED
    BY <2>1, <2>2
<1>7. t.removal = s.removal
  <2> HIDE DEF t, D, E, G
  <2> QED
    BY <1>6
<1>8. h \in DOMAIN s.displays => UnbindDisplay(s, c) = [t EXCEPT !.removal = W]
  BY <1>2, <1>7
<1>9. h \in DOMAIN s.displays => UnbindDisplay(s, c) =
        [displays |-> D, handles |-> G, deferred |-> E, removal |-> W,
         last |-> s.last, attached |-> s.attached, refused |-> s.refused]
  <2> HIDE DEF t, D, E, G, W, h
  <2> QED
    BY <1>6, <1>8
<1> QED
  BY <1>2, <1>4, <1>9

(* A connector that has no display gets one.                               *)
LEMMA BindKept ==
    ASSUME BindingAssumption, NEW s0, NEW s, Good(s0, s),
           NEW c \in Conns, c \notin DOMAIN s.handles
    PROVE  LET u == BindDisplay(s, c)
           IN /\ Good(s0, u)
              /\ DOMAIN u.handles = DOMAIN s.handles \cup {c}
              /\ u.attached = s.attached
              /\ DOMAIN s.displays \subseteq DOMAIN u.displays
              /\ HasPipe(u, Primary)
<1> DEFINE u == BindDisplay(s, c)
<1>1. Shape(s)
  BY DEF Good
<1>2. PICK H :
        /\ H = IF HasPipe(s, Primary) THEN s.last + 1 ELSE Primary
        /\ u = [displays |-> Put(s.displays, H, c), handles |-> Put(s.handles, c, H),
                deferred |-> Put(s.deferred, H, c # NoPipe \/ H = Primary),
                removal |-> s.removal,
                last |-> IF HasPipe(s, Primary) THEN H ELSE s.last,
                attached |-> s.attached, refused |-> s.refused]
  BY <1>1, BindFields
<1>3. /\ u.displays = Put(s.displays, H, c) /\ u.handles = Put(s.handles, c, H)
      /\ u.deferred = Put(s.deferred, H, c # NoPipe \/ H = Primary)
      /\ u.removal = s.removal
      /\ u.last = IF HasPipe(s, Primary) THEN H ELSE s.last
      /\ u.attached = s.attached /\ u.refused = s.refused
  BY <1>2
<1> HIDE DEF u
<1>4. c # NoPipe /\ s.last \in Nat /\ Primary = 0 /\ H \in Nat
      /\ u.last \in Nat /\ s.last <= u.last
      /\ (HasPipe(s, Primary) => H = s.last + 1)
      /\ (~HasPipe(s, Primary) => H = Primary)
  BY <1>1, <1>2, <1>3 DEF Shape, BindingAssumption, Primary
<1>5. /\ DOMAIN u.displays = DOMAIN s.displays \cup {H}
      /\ u.displays[H] = c
      /\ \A h \in DOMAIN s.displays : h # H => u.displays[h] = s.displays[h]
      /\ u.displays = [h \in DOMAIN u.displays |-> u.displays[h]]
  <2>1. IsPut(u.displays, s.displays, H, c)
    BY <1>3, PutIs
  <2> QED
    BY <2>1 DEF IsPut
<1>6. /\ DOMAIN u.handles = DOMAIN s.handles \cup {c}
      /\ u.handles[c] = H
      /\ \A x \in DOMAIN s.handles : x # c => u.handles[x] = s.handles[x]
      /\ u.handles = [x \in DOMAIN u.handles |-> u.handles[x]]
  <2>1. IsPut(u.handles, s.handles, c, H)
    BY <1>3, PutIs
  <2> QED
    BY <2>1 DEF IsPut
<1>7. /\ DOMAIN u.deferred = DOMAIN s.deferred \cup {H}
      /\ u.deferred[H] <=> TRUE
      /\ \A h \in DOMAIN s.deferred : h # H => u.deferred[h] = s.deferred[h]
      /\ u.deferred = [h \in DOMAIN u.deferred |-> u.deferred[h]]
  <2>1. (c # NoPipe \/ H = Primary) = TRUE
    BY <1>4
  <2>2. IsPut(u.deferred, s.deferred, H, TRUE)
    BY <1>3, <2>1, PutIs
  <2> QED
    BY <2>2 DEF IsPut
<1>8. Shape(u)
  <2>1. u = [displays |-> u.displays, handles |-> u.handles,
             deferred |-> u.deferred, removal |-> u.removal, last |-> u.last,
             attached |-> u.attached, refused |-> u.refused]
    BY <1>2, <1>3
  <2> QED
    BY <1>1, <1>3, <1>4, <1>5, <1>6, <1>7, <2>1 DEF Shape
<1>9. /\ \A h : h # H => (HasPipe(u, h) <=> HasPipe(s, h))
      /\ HasPipe(u, H)
  BY <1>4, <1>5 DEF HasPipe
<1>10. HasPipe(u, Primary)
  BY <1>4, <1>9
<1>11. ASSUME Exclusive PROVE Paired(u) /\ Tracked(s0, u)
  <2>1. Paired(s) /\ Tracked(s0, s)
    BY <1>11 DEF Good
  <2>2. HasPipe(s, Primary) => H \notin DOMAIN s.displays /\ H \notin s.removal
    BY <1>4, <2>1 DEF Paired
  <2>3. H \notin s.removal
    BY <1>1, <1>4, <2>2 DEF Shape
  <2>4. H \in DOMAIN s.displays => s.displays[H] = NoPipe
    BY <1>4, <2>2 DEF HasPipe
  <2>5. \A x \in DOMAIN s.handles : x # c /\ s.handles[x] # H
    <3> SUFFICES ASSUME NEW x \in DOMAIN s.handles PROVE x # c /\ s.handles[x] # H
      OBVIOUS
    <3>1. s.handles[x] \in DOMAIN s.displays /\ s.displays[s.handles[x]] = x /\ x \in Conns
      BY <1>1, <2>1 DEF Paired, Shape
    <3> QED
      BY <2>4, <3>1 DEF BindingAssumption
  <2>6. /\ DOMAIN u.displays \subseteq 0 .. u.last /\ u.removal \subseteq 0 .. u.last
        /\ DOMAIN u.deferred \subseteq 0 .. u.last
    <3>1. H \in 0 .. u.last
      BY <1>3, <1>4
    <3>2. 0 .. s.last \subseteq 0 .. u.last
      BY <1>4
    <3> QED
      BY <1>3, <1>5, <1>7, <2>1, <3>1, <3>2 DEF Paired
  <2>7. \A x \in DOMAIN u.handles :
          u.handles[x] \in DOMAIN u.displays /\ u.displays[u.handles[x]] = x
    BY <1>5, <1>6, <2>1, <2>5 DEF Paired
  <2>8. \A h \in DOMAIN u.displays : u.displays[h] # NoPipe =>
          u.displays[h] \in DOMAIN u.handles /\ u.handles[u.displays[h]] = h
    <3> SUFFICES ASSUME NEW h \in DOMAIN u.displays, u.displays[h] # NoPipe
                 PROVE  u.displays[h] \in DOMAIN u.handles /\ u.handles[u.displays[h]] = h
      OBVIOUS
    <3>1. CASE h = H
      BY <1>5, <1>6, <3>1
    <3>2. CASE h # H
      <4>1. h \in DOMAIN s.displays /\ u.displays[h] = s.displays[h]
        BY <1>5, <3>2
      <4>2. s.displays[h] \in DOMAIN s.handles /\ s.handles[s.displays[h]] = h
        BY <2>1, <4>1 DEF Paired
      <4> QED
        BY <1>6, <2>5, <4>1, <4>2
    <3> QED
      BY <3>1, <3>2
  <2>9. \A h \in u.removal : ~HasPipe(u, h)
    BY <1>3, <1>9, <2>1, <2>3 DEF Paired
  <2>10. Paired(u)
    BY <2>6, <2>7, <2>8, <2>9 DEF Paired
  <2>11. Tracked(s0, u)
    BY <1>5, <1>7, <1>9, <2>1 DEF Tracked
  <2> QED
    BY <2>10, <2>11
<1> QED
  BY <1>3, <1>5, <1>6, <1>8, <1>10, <1>11 DEF Good, u

(* A connector loses its display.                                          *)
LEMMA UnbindKept ==
    ASSUME BindingAssumption, NEW s0, NEW s, Good(s0, s),
           NEW c \in DOMAIN s.handles
    PROVE  LET u == UnbindDisplay(s, c)
           IN /\ Good(s0, u)
              /\ DOMAIN u.handles = DOMAIN s.handles \ {c}
              /\ u.attached = s.attached
              /\ DOMAIN s.displays \subseteq DOMAIN u.displays
              /\ ~HasPipe(s, Primary) => ~HasPipe(u, Primary)
<1> DEFINE u == UnbindDisplay(s, c)
           h == s.handles[c]
<1>1. Shape(s)
  BY DEF Good
<1>2. /\ h \in DOMAIN s.displays => u =
           [displays |-> Put(s.displays, h, NoPipe), handles |-> Drop(s.handles, {c}),
            deferred |-> Put(s.deferred, h, NoPipe # NoPipe \/ h = Primary),
            removal |-> IF h = Primary THEN s.removal ELSE s.removal \cup {h},
            last |-> s.last, attached |-> s.attached, refused |-> s.refused]
      /\ h \notin DOMAIN s.displays => u =
           [displays |-> s.displays, handles |-> Drop(s.handles, {c}),
            deferred |-> s.deferred, removal |-> s.removal,
            last |-> s.last, attached |-> s.attached, refused |-> s.refused]
  BY <1>1, UnbindFields, ZenonT(40)
<1> HIDE DEF u, h
<1>3. u.handles = Drop(s.handles, {c}) /\ u.last = s.last
      /\ u.attached = s.attached /\ u.refused = s.refused
  BY <1>2
<1>4. /\ DOMAIN u.handles = DOMAIN s.handles \ {c}
      /\ \A x \in DOMAIN s.handles \ {c} : u.handles[x] = s.handles[x]
      /\ u.handles = [x \in DOMAIN u.handles |-> u.handles[x]]
  <2>1. IsDrop(u.handles, s.handles, {c})
    BY <1>3, DropIs
  <2> QED
    BY <2>1 DEF IsDrop
<1>5. CASE h \notin DOMAIN s.displays
  <2>1. ~Exclusive
    BY <1>5 DEF Good, Paired, h
  <2>2. u.displays = s.displays /\ u.deferred = s.deferred /\ u.removal = s.removal
    BY <1>2, <1>5
  <2>3. u = [displays |-> u.displays, handles |-> u.handles,
             deferred |-> u.deferred, removal |-> u.removal, last |-> u.last,
             attached |-> u.attached, refused |-> u.refused]
    BY <1>2, <1>3, <1>5, <2>2
  <2>4. Shape(u)
    BY <1>1, <1>3, <1>4, <2>2, <2>3 DEF Shape
  <2> QED
    BY <1>3, <1>4, <2>1, <2>2, <2>4 DEF Good, HasPipe, u
<1>6. CASE h \in DOMAIN s.displays
  <2>1. /\ u.displays = Put(s.displays, h, NoPipe)
        /\ u.deferred = Put(s.deferred, h, NoPipe # NoPipe \/ h = Primary)
        /\ u.removal = IF h = Primary THEN s.removal ELSE s.removal \cup {h}
    <3> DEFINE E == Put(s.deferred, h, NoPipe # NoPipe \/ h = Primary)
               W == IF h = Primary THEN s.removal ELSE s.removal \cup {h}
    <3>1. u = [displays |-> Put(s.displays, h, NoPipe), handles |-> Drop(s.handles, {c}),
               deferred |-> E, removal |-> W,
               last |-> s.last, attached |-> s.attached, refused |-> s.refused]
      BY <1>2, <1>6
    <3> HIDE DEF E, W
    <3>2. u.displays = Put(s.displays, h, NoPipe) /\ u.deferred = E /\ u.removal = W
      BY <3>1
    <3> QED
      BY <3>2 DEF E, W
  <2>2. u = [displays |-> u.displays, handles |-> u.handles,
             deferred |-> u.deferred, removal |-> u.removal, last |-> u.last,
             attached |-> u.attached, refused |-> u.refused]
    BY <1>2, <1>3, <1>6, <2>1
  <2>3. /\ DOMAIN u.displays = DOMAIN s.displays
        /\ u.displays[h] = NoPipe
        /\ \A g \in DOMAIN s.displays : g # h => u.displays[g] = s.displays[g]
        /\ u.displays = [g \in DOMAIN u.displays |-> u.displays[g]]
    <3>1. IsPut(u.displays, s.displays, h, NoPipe)
      BY <2>1, PutIs
    <3> QED
      BY <1>6, <3>1 DEF IsPut
  <2>4. /\ DOMAIN u.deferred = DOMAIN s.deferred \cup {h}
        /\ u.deferred[h] <=> h = Primary
        /\ \A g \in DOMAIN s.deferred : g # h => u.deferred[g] = s.deferred[g]
        /\ u.deferred = [g \in DOMAIN u.deferred |-> u.deferred[g]]
    <3>1. IsPut(u.deferred, s.deferred, h, NoPipe # NoPipe \/ h = Primary)
      BY <2>1, PutIs
    <3> QED
      BY <3>1 DEF IsPut
  <2>5. Primary \notin u.removal
    BY <1>1, <2>1 DEF Shape
  <2>6. Shape(u)
    BY <1>1, <1>3, <1>4, <2>2, <2>3, <2>4, <2>5 DEF Shape
  <2>7. /\ \A g : g # h => (HasPipe(u, g) <=> HasPipe(s, g))
        /\ ~HasPipe(u, h)
    BY <2>3 DEF HasPipe
  <2>8. ASSUME Exclusive PROVE Paired(u) /\ Tracked(s0, u)
    <3>1. Paired(s) /\ Tracked(s0, s)
      BY <2>8 DEF Good
    <3>2. /\ DOMAIN u.displays \subseteq 0 .. u.last /\ u.removal \subseteq 0 .. u.last
          /\ DOMAIN u.deferred \subseteq 0 .. u.last
      BY <1>3, <1>6, <2>1, <2>3, <2>4, <3>1 DEF Paired
    <3>3. \A x \in DOMAIN u.handles :
            u.handles[x] \in DOMAIN u.displays /\ u.displays[u.handles[x]] = x
      <4> SUFFICES ASSUME NEW x \in DOMAIN s.handles, x # c
                   PROVE  u.handles[x] \in DOMAIN u.displays /\ u.displays[u.handles[x]] = x
        BY <1>4
      <4>1. s.handles[x] \in DOMAIN s.displays /\ s.displays[s.handles[x]] = x
        BY <3>1 DEF Paired
      <4>2. s.displays[h] = c
        BY <3>1 DEF Paired, h
      <4> QED
        BY <1>4, <2>3, <4>1, <4>2
    <3>4. \A g \in DOMAIN u.displays : u.displays[g] # NoPipe =>
            u.displays[g] \in DOMAIN u.handles /\ u.handles[u.displays[g]] = g
      <4> SUFFICES ASSUME NEW g \in DOMAIN s.displays, u.displays[g] # NoPipe
                   PROVE  u.displays[g] \in DOMAIN u.handles /\ u.handles[u.displays[g]] = g
        BY <2>3
      <4>1. g # h /\ u.displays[g] = s.displays[g]
        BY <2>3
      <4>2. s.displays[g] \in DOMAIN s.handles /\ s.handles[s.displays[g]] = g
        BY <3>1, <4>1 DEF Paired
      <4>3. s.displays[g] # c
        BY <4>1, <4>2 DEF h
      <4> QED
        BY <1>4, <4>1, <4>2, <4>3
    <3>5. \A g \in u.removal : ~HasPipe(u, g)
      <4> SUFFICES ASSUME NEW g \in u.removal, g # h PROVE ~HasPipe(u, g)
        BY <2>7
      <4>1. g \in s.removal
        BY <2>1
      <4> QED
        BY <2>7, <3>1, <4>1 DEF Paired
    <3>6. Paired(u)
      BY <3>2, <3>3, <3>4, <3>5 DEF Paired
    <3>7. Tracked(s0, u)
      BY <2>3, <2>4, <2>7, <3>1 DEF Tracked
    <3> QED
      BY <3>6, <3>7
  <2>9. ~HasPipe(s, Primary) => ~HasPipe(u, Primary)
    BY <2>7
  <2> QED
    BY <1>3, <1>4, <2>3, <2>6, <2>8, <2>9 DEF Good, u
<1> QED
  BY <1>5, <1>6

(* u is s but for what is attached and refused.                            *)
SameBook(s, u) ==
    /\ u = [displays |-> u.displays, handles |-> u.handles,
            deferred |-> u.deferred, removal |-> u.removal, last |-> u.last,
            attached |-> u.attached, refused |-> u.refused]
    /\ u.displays = s.displays /\ u.handles = s.handles
    /\ u.deferred = s.deferred /\ u.removal = s.removal /\ u.last = s.last

(* The properties of a record survive changes of what is not recorded.     *)
LEMMA SameIsGood ==
    ASSUME NEW s0, NEW s, Good(s0, s), NEW u, SameBook(s, u)
    PROVE  Good(s0, u)
<1>1. \A h : HasPipe(u, h) <=> HasPipe(s, h)
  BY DEF SameBook, HasPipe
<1>2. Shape(u)
  BY DEF Good, Shape, SameBook
<1>3. Paired(s) => Paired(u)
  BY <1>1 DEF Paired, SameBook
<1>4. Tracked(s0, s) => Tracked(s0, u)
  BY <1>1 DEF Tracked, SameBook
<1> QED
  BY <1>2, <1>3, <1>4 DEF Good

(* The sets of attached and refused connectors are not part of the record. *)
LEMMA Relabelled ==
    ASSUME NEW s, Shape(s), NEW A, NEW R
    PROVE  /\ SameBook(s, [s EXCEPT !.attached = A])
           /\ [s EXCEPT !.attached = A].attached = A
           /\ SameBook(s, [s EXCEPT !.refused = R])
           /\ [s EXCEPT !.refused = R].attached = s.attached
<1>1. s = [displays |-> s.displays, handles |-> s.handles,
            deferred |-> s.deferred, removal |-> s.removal, last |-> s.last,
            attached |-> s.attached, refused |-> s.refused]
  BY DEF Shape
<1>2. SameBook(s, [s EXCEPT !.attached = A]) /\ [s EXCEPT !.attached = A].attached = A
  BY <1>1 DEF SameBook
<1>3. SameBook(s, [s EXCEPT !.refused = R]) /\ [s EXCEPT !.refused = R].attached = s.attached
  BY <1>1 DEF SameBook
<1> QED
  BY <1>2, <1>3

(* The second half of it, for a record that is given.                      *)
LEMMA RefusedOnly ==
    ASSUME NEW s, Shape(s), NEW R, NEW u, u = [s EXCEPT !.refused = R]
    PROVE  SameBook(s, u) /\ u.attached = s.attached
<1> DEFINE t == [s EXCEPT !.refused = R]
<1>1. SameBook(s, t) /\ t.attached = s.attached
  BY Relabelled
<1> HIDE DEF t
<1>2. u = t
  BY DEF t
<1> QED
  BY <1>1, <1>2

(* The same when both sets are emptied.                                    *)
LEMMA BothCleared ==
    ASSUME NEW s, Shape(s), NEW u, u = [s EXCEPT !.attached = {}, !.refused = {}]
    PROVE  SameBook(s, u) /\ u.attached = {}
<1> DEFINE t == [s EXCEPT !.attached = {}]
<1>1. s = [displays |-> s.displays, handles |-> s.handles,
            deferred |-> s.deferred, removal |-> s.removal, last |-> s.last,
            attached |-> s.attached, refused |-> s.refused]
  BY DEF Shape
<1>2. t = [displays |-> s.displays, handles |-> s.handles,
           deferred |-> s.deferred, removal |-> s.removal, last |-> s.last,
           attached |-> {}, refused |-> s.refused]
  BY <1>1
<1>3. u = [t EXCEPT !.refused = {}]
  OBVIOUS
<1> HIDE DEF t
<1>4. u = [displays |-> s.displays, handles |-> s.handles,
           deferred |-> s.deferred, removal |-> s.removal, last |-> s.last,
           attached |-> {}, refused |-> {}]
  BY <1>2, <1>3
<1> QED
  BY <1>4 DEF SameBook

(* One connector of an update.                                             *)
LEMMA VisitKept ==
    ASSUME BindingAssumption, NEW s0, NEW s, Good(s0, s), Linked(s),
           NEW c \in Conns, NEW bad
    PROVE  LET u == UpdateConnector(s, c, bad)
           IN /\ Good(s0, u) /\ Linked(u)
              /\ DOMAIN s.displays \subseteq DOMAIN u.displays
<1> DEFINE u == UpdateConnector(s, c, bad)
<1>1. CASE c \in connected /\ c \notin s.attached /\ c \notin bad
  <2> DEFINE t == BindDisplay(s, c)
  <2>1. c \notin DOMAIN s.handles
    BY <1>1 DEF Linked
  <2>2. /\ Good(s0, t)
        /\ DOMAIN t.handles = DOMAIN s.handles \cup {c}
        /\ t.attached = s.attached
        /\ DOMAIN s.displays \subseteq DOMAIN t.displays
    BY <2>1, BindKept
  <2>3. u = [t EXCEPT !.attached = t.attached \cup {c}]
    BY <1>1 DEF UpdateConnector
  <2> HIDE DEF t, u
  <2>4. SameBook(t, u) /\ u.attached = t.attached \cup {c}
    BY <2>2, <2>3, Relabelled DEF Good
  <2>5. Good(s0, u)
    BY <2>2, <2>4, SameIsGood
  <2>6. Linked(u) /\ DOMAIN s.displays \subseteq DOMAIN u.displays
    BY <2>2, <2>4 DEF Linked, SameBook
  <2> QED
    BY <2>5, <2>6 DEF u
<1>2. CASE c \notin connected /\ c \in s.attached
  <2> DEFINE t == UnbindDisplay(s, c)
  <2>1. c \in DOMAIN s.handles
    BY <1>2 DEF Linked
  <2>2. /\ Good(s0, t)
        /\ DOMAIN t.handles = DOMAIN s.handles \ {c}
        /\ t.attached = s.attached
        /\ DOMAIN s.displays \subseteq DOMAIN t.displays
    BY <2>1, UnbindKept
  <2>3. u = [t EXCEPT !.attached = t.attached \ {c}]
    BY <1>2 DEF UpdateConnector
  <2> HIDE DEF t, u
  <2>4. SameBook(t, u) /\ u.attached = t.attached \ {c}
    BY <2>2, <2>3, Relabelled DEF Good
  <2>5. Good(s0, u)
    BY <2>2, <2>4, SameIsGood
  <2>6. Linked(u) /\ DOMAIN s.displays \subseteq DOMAIN u.displays
    BY <2>2, <2>4 DEF Linked, SameBook
  <2> QED
    BY <2>5, <2>6 DEF u
<1>3. CASE /\ ~(c \in connected /\ c \notin s.attached /\ c \notin bad)
           /\ ~(c \notin connected /\ c \in s.attached)
  <2>1. u = s
    BY <1>3 DEF UpdateConnector
  <2> QED
    BY <2>1
<1> QED
  BY <1>1, <1>2, <1>3

(* The loops over the connectors, pass by pass.                            *)
UpdatePass(s, bad, f, k) ==
    IF k = 0 THEN [s EXCEPT !.refused = bad]
    ELSE UpdateConnector(f[k - 1], Order[k], bad)

DetachPass(s, f, k) ==
    IF k = 0 THEN s
    ELSE IF Order[k] \in s.attached THEN UnbindDisplay(f[k - 1], Order[k])
    ELSE f[k - 1]

Pass(what, s, bad, f, k) ==
    IF what = "detach" THEN DetachPass(s, f, k) ELSE UpdatePass(s, bad, f, k)

IsLoop(f, what, s, bad, N) == f = [k \in 0 .. N |-> Pass(what, s, bad, f, k)]

(* The passes exist: take the least number for which they do not.         *)
LEMMA LoopDefined ==
    ASSUME NEW what, NEW s, NEW bad, NEW N \in Nat
    PROVE  \E f : IsLoop(f, what, s, bad, N)
<1> SUFFICES \E f : f = [k \in 0 .. N |-> Pass(what, s, bad, f, k)]
  BY DEF IsLoop
<1> DEFINE T == {m \in Nat : ~\E f : f = [k \in 0 .. m |-> Pass(what, s, bad, f, k)]}
<1>1. SUFFICES ASSUME T # {} PROVE FALSE
  OBVIOUS
<1>2. PICK m \in T : \A y \in T : m <= y
  <2>1. T \subseteq Nat
    OBVIOUS
  <2> QED
    BY <1>1, <2>1, LeastNatural
<1>3. CASE m = 0
  <2> DEFINE f == [k \in 0 .. 0 |-> Pass(what, s, bad, s, 0)]
  <2>1. \A k \in 0 .. 0 : k = 0
    OBVIOUS
  <2>2. Pass(what, s, bad, f, 0) = Pass(what, s, bad, s, 0)
    BY DEF Pass, UpdatePass, DetachPass
  <2>3. f = [k \in 0 .. 0 |-> Pass(what, s, bad, f, k)]
    BY <2>1, <2>2
  <2> QED
    BY <2>3, <1>2, <1>3
<1>4. CASE m # 0
  <2>1. m \in Nat /\ m - 1 \in Nat /\ ~(m <= m - 1)
    BY <1>4
  <2>2. m - 1 \notin T
    BY <2>1, <1>2
  <2>3. PICK f : f = [k \in 0 .. m - 1 |-> Pass(what, s, bad, f, k)]
    BY <2>1, <2>2
  <2> DEFINE g == [k \in 0 .. m |-> IF k = m THEN Pass(what, s, bad, f, m) ELSE f[k]]
  <2>4. \A k \in 0 .. m - 1 : g[k] = f[k] /\ f[k] = Pass(what, s, bad, f, k)
    <3>1. \A k \in 0 .. m - 1 : k \in 0 .. m /\ k # m
      BY <2>1
    <3>2. \A k \in 0 .. m - 1 : f[k] = Pass(what, s, bad, f, k)
      BY <2>3
    <3> QED
      BY <3>1, <3>2
  <2>5. g[m] = Pass(what, s, bad, f, m)
    BY <2>1
  <2>6. g = [k \in 0 .. m |-> g[k]]
    OBVIOUS
  <2> HIDE DEF g
  <2>7. \A k \in 0 .. m : Pass(what, s, bad, g, k) = Pass(what, s, bad, f, k)
    <3>1. \A k \in 0 .. m : k # 0 => k - 1 \in 0 .. m - 1
      BY <2>1
    <3> QED
      BY <3>1, <2>4 DEF Pass, UpdatePass, DetachPass
  <2>8. \A k \in 0 .. m : g[k] = Pass(what, s, bad, f, k)
    <3>1. \A k \in 0 .. m : k = m \/ k \in 0 .. m - 1
      BY <2>1
    <3> QED
      BY <3>1, <2>4, <2>5
  <2>9. g = [k \in 0 .. m |-> Pass(what, s, bad, g, k)]
    BY <2>6, <2>7, <2>8
  <2> QED
    BY <2>9, <1>2
<1> QED
  BY <1>3, <1>4

(* The walk of DetachAll over the connectors is a function.                *)
LEMMA DetachLoop ==
    ASSUME NEW s, NEW N \in Nat
    PROVE  \E f : f = [k \in 0 .. N |-> DetachPass(s, f, k)]
<1>1. PICK f : IsLoop(f, "detach", s, s, N)
  BY LoopDefined
<1>2. f = [k \in 0 .. N |-> Pass("detach", s, s, f, k)]
  BY <1>1 DEF IsLoop
<1>3. \A k : Pass("detach", s, s, f, k) = DetachPass(s, f, k)
  BY Zenon DEF Pass
<1> QED
  BY <1>2, <1>3

(* All connectors of an update.                                            *)
LEMMA UpdateKept ==
    ASSUME BindingAssumption, NEW s0, NEW s, Good(s0, s), Linked(s), NEW bad
    PROVE  LET u == UpdateConnectors(s, bad)
           IN /\ Good(s0, u) /\ Linked(u)
              /\ DOMAIN s.displays \subseteq DOMAIN u.displays
<1> DEFINE u == UpdateConnectors(s, bad)
           N == Len(Order)
           f == CHOOSE g : g = [k \in 0 .. N |-> UpdatePass(s, bad, g, k)]
<1>1. N \in Nat
  BY DEF BindingAssumption
<1>2. u = IF drms THEN f[N] ELSE s
  BY Zenon DEF UpdateConnectors, UpdatePass
<1>3. \E g : g = [k \in 0 .. N |-> UpdatePass(s, bad, g, k)]
  <2>0. PICK g : IsLoop(g, "update", s, bad, N)
    BY <1>1, LoopDefined
  <2>1. g = [k \in 0 .. N |-> Pass("update", s, bad, g, k)]
    BY <2>0 DEF IsLoop
  <2>2. \A k : Pass("update", s, bad, g, k) = UpdatePass(s, bad, g, k)
    BY Zenon DEF Pass
  <2>3. g = [k \in 0 .. N |-> UpdatePass(s, bad, g, k)]
    BY <2>1, <2>2
  <2> QED
    BY <2>3
<1>4. f = [k \in 0 .. N |-> UpdatePass(s, bad, f, k)]
  BY <1>3, Zenon
<1> HIDE DEF f, N, u
<1>5. \A k \in 0 .. N : f[k] = UpdatePass(s, bad, f, k)
  BY <1>4
<1> DEFINE Fine(t) == /\ Good(s0, t) /\ Linked(t)
                      /\ DOMAIN s.displays \subseteq DOMAIN t.displays
           T == {k \in 0 .. N : ~Fine(f[k])}
<1>6. T = {}
  <2>1. SUFFICES ASSUME T # {} PROVE FALSE
    OBVIOUS
  <2>2. T \subseteq Nat
    BY <1>1
  <2>3. PICK k \in T : \A y \in T : k <= y
    BY <2>1, <2>2, LeastNatural
  <2>4. k \in 0 .. N /\ ~Fine(f[k])
    OBVIOUS
  <2>5. CASE k = 0
    <3>1. f[k] = [s EXCEPT !.refused = bad]
      BY <1>5, <2>4, <2>5 DEF UpdatePass
    <3>2. SameBook(s, f[k]) /\ f[k].attached = s.attached
      <4>1. Shape(s)
        BY DEF Good
      <4> QED
        BY <3>1, <4>1, RefusedOnly, ZenonT(40)
    <3>3. Good(s0, f[k])
      BY <3>2, SameIsGood
    <3> QED
      BY <2>4, <3>2, <3>3 DEF Linked, SameBook
  <2>6. CASE k # 0
    <3>1. k - 1 \in 0 .. N /\ ~(k <= k - 1) /\ k \in 1 .. N
      BY <1>1, <2>4, <2>6
    <3>2. Fine(f[k - 1])
      BY <2>3, <3>1
    <3>3. f[k] = UpdateConnector(f[k - 1], Order[k], bad)
      BY <1>5, <2>4, <2>6 DEF UpdatePass
    <3>4. Order[k] \in Conns
      BY <3>1 DEF BindingAssumption, N
    <3>5. /\ Good(s0, f[k]) /\ Linked(f[k])
          /\ DOMAIN f[k - 1].displays \subseteq DOMAIN f[k].displays
      BY <3>2, <3>3, <3>4, VisitKept
    <3> QED
      BY <2>4, <3>2, <3>5
  <2> QED
    BY <2>5, <2>6
<1>7. Fine(f[N])
  BY <1>1, <1>6
<1>8. Fine(s)
  OBVIOUS
<1>9. Fine(u)
  BY <1>2, <1>7, <1>8
<1> QED
  BY <1>9 DEF u

(* All connectors at DeInit.                                               *)
LEMMA DetachKept ==
    ASSUME BindingAssumption, NEW s0, NEW s, Good(s0, s), Linked(s)
    PROVE  LET u == DetachAll(s)
           IN /\ Good(s0, u) /\ Linked(u) /\ u.attached = {}
              /\ DOMAIN s.displays \subseteq DOMAIN u.displays
<1> DEFINE u == DetachAll(s)
           N == Len(Order)
           f == CHOOSE g : g = [k \in 0 .. N |-> DetachPass(s, g, k)]
           Seen(k) == {Order[i] : i \in 1 .. k}
<1>1. N \in Nat /\ DOMAIN Order = 1 .. N
  BY DEF BindingAssumption
<1>2. u = [f[N] EXCEPT !.attached = {}, !.refused = {}]
  BY Zenon DEF DetachAll, DetachPass
<1>3. \E g : g = [k \in 0 .. N |-> DetachPass(s, g, k)]
  BY <1>1, DetachLoop
<1>4. f = [k \in 0 .. N |-> DetachPass(s, f, k)]
  BY <1>3, Zenon
<1> HIDE DEF f, N, u
<1>5. \A k \in 0 .. N : f[k] = DetachPass(s, f, k)
  BY <1>4
<1> DEFINE Fine(t, k) == /\ Good(s0, t)
                         /\ DOMAIN t.handles = s.attached \ Seen(k)
                         /\ DOMAIN s.displays \subseteq DOMAIN t.displays
           T == {k \in 0 .. N : ~Fine(f[k], k)}
<1>6. T = {}
  <2>1. SUFFICES ASSUME T # {} PROVE FALSE
    OBVIOUS
  <2>2. T \subseteq Nat
    BY <1>1
  <2>3. PICK k \in T : \A y \in T : k <= y
    BY <2>1, <2>2, LeastNatural
  <2>4. k \in 0 .. N /\ ~Fine(f[k], k)
    OBVIOUS
  <2>5. CASE k = 0
    <3>1. f[k] = s
      BY <1>5, <2>4, <2>5 DEF DetachPass
    <3>2. Seen(k) = {}
      BY <2>5
    <3> QED
      BY <2>4, <3>1, <3>2 DEF Linked
  <2>6. CASE k # 0
    <3>1. k - 1 \in 0 .. N /\ ~(k <= k - 1) /\ k \in 1 .. N
      BY <1>1, <2>4, <2>6
    <3>2. Fine(f[k - 1], k - 1)
      BY <2>3, <3>1
    <3>3. f[k] = IF Order[k] \in s.attached THEN UnbindDisplay(f[k - 1], Order[k])
                 ELSE f[k - 1]
      BY <1>5, <2>4, <2>6 DEF DetachPass
    <3>4. Order[k] \notin Seen(k - 1)
      <4>1. \A i \in 1 .. k - 1 : i \in 1 .. N /\ i # k
        BY <1>1, <3>1
      <4> QED
        BY <1>1, <3>1, <4>1 DEF BindingAssumption, IsInjective
    <3>5. Seen(k) = Seen(k - 1) \cup {Order[k]}
      <4>1. \A i : i \in 1 .. k <=> i \in 1 .. k - 1 \/ i = k
        BY <1>1, <3>1
      <4> QED
        BY <4>1
    <3> HIDE DEF Seen
    <3>6. CASE Order[k] \in s.attached
      <4>1. Order[k] \in DOMAIN f[k - 1].handles
        BY <3>2, <3>4, <3>6
      <4>2. /\ Good(s0, f[k])
            /\ DOMAIN f[k].handles = DOMAIN f[k - 1].handles \ {Order[k]}
            /\ DOMAIN f[k - 1].displays \subseteq DOMAIN f[k].displays
        BY <3>2, <3>3, <3>6, <4>1, UnbindKept
      <4> QED
        BY <2>4, <3>2, <3>5, <4>2
    <3>7. CASE Order[k] \notin s.attached
      BY <2>4, <3>2, <3>3, <3>5, <3>7
    <3> QED
      BY <3>6, <3>7
  <2> QED
    BY <2>5, <2>6
<1>7. Fine(f[N], N)
  BY <1>1, <1>6
<1>8. s.attached \subseteq Seen(N)
  <2>1. s.attached \subseteq Conns
    BY DEF Good, Shape, Linked
  <2> QED
    BY <1>1, <2>1 DEF Conns, Range
<1> HIDE DEF Seen
<1>9. SameBook(f[N], u) /\ u.attached = {}
  <2>1. Shape(f[N])
    BY <1>7 DEF Good
  <2> QED
    BY <1>2, <2>1, BothCleared
<1>10. Good(s0, u)
  BY <1>7, <1>9, SameIsGood
<1>11. Linked(u) /\ DOMAIN s.displays \subseteq DOMAIN u.displays
  BY <1>7, <1>8, <1>9 DEF Linked, SameBook
<1> QED
  BY <1>9, <1>10, <1>11 DEF u

(* The headless primary display is made if there is none.                  *)
LEMMA PrimaryKept ==
    ASSUME BindingAssumption, NEW s0, NEW s, Good(s0, s), Linked(s)
    PROVE  LET u == WithPrimary(s)
           IN /\ Good(s0, u) /\ Linked(u) /\ u.attached = s.attached
              /\ DOMAIN u.displays = DOMAIN s.displays \cup {Primary}
<1> DEFINE u == WithPrimary(s)
<1>1. CASE Primary \in DOMAIN s.displays
  BY <1>1 DEF WithPrimary
<1>2. CASE Primary \notin DOMAIN s.displays
  <2>1. Shape(s)
    BY DEF Good
  <2>2. u = SetPipeline(s, Primary, NoPipe)
    BY <1>2 DEF WithPrimary
  <2>3. u = [displays |-> Put(s.displays, Primary, NoPipe), handles |-> s.handles,
             deferred |-> Put(s.deferred, Primary, NoPipe # NoPipe \/ Primary = Primary),
             removal |-> s.removal, last |-> s.last,
             attached |-> s.attached, refused |-> s.refused]
    BY <2>1, <2>2, PipelineFields
  <2> HIDE DEF u
  <2>4. /\ u.displays = Put(s.displays, Primary, NoPipe) /\ u.handles = s.handles
        /\ u.deferred = Put(s.deferred, Primary, NoPipe # NoPipe \/ Primary = Primary)
        /\ u.removal = s.removal /\ u.last = s.last
        /\ u.attached = s.attached /\ u.refused = s.refused
    BY <2>3
  <2>5. u = [displays |-> u.displays, handles |-> u.handles,
             deferred |-> u.deferred, removal |-> u.removal, last |-> u.last,
             attached |-> u.attached, refused |-> u.refused]
    BY <2>3, <2>4
  <2>6. /\ DOMAIN u.displays = DOMAIN s.displays \cup {Primary}
        /\ u.displays[Primary] = NoPipe
        /\ \A g \in DOMAIN s.displays : g # Primary => u.displays[g] = s.displays[g]
        /\ u.displays = [g \in DOMAIN u.displays |-> u.displays[g]]
    <3>1. IsPut(u.displays, s.displays, Primary, NoPipe)
      BY <2>4, PutIs
    <3> QED
      BY <3>1 DEF IsPut
  <2>7. /\ DOMAIN u.deferred = DOMAIN s.deferred \cup {Primary}
        /\ u.deferred[Primary] <=> TRUE
        /\ \A g \in DOMAIN s.deferred : g # Primary => u.deferred[g] = s.deferred[g]
        /\ u.deferred = [g \in DOMAIN u.deferred |-> u.deferred[g]]
    <3>1. IsPut(u.deferred, s.deferred, Primary, NoPipe # NoPipe \/ Primary = Primary)
      BY <2>4, PutIs
    <3> QED
      BY <3>1 DEF IsPut
  <2>8. Shape(u) /\ Linked(u)
    BY <2>1, <2>4, <2>5, <2>6, <2>7 DEF Shape, Linked
  <2>9. \A g : HasPipe(u, g) <=> HasPipe(s, g)
    BY <1>2, <2>6 DEF HasPipe
  <2>10. ASSUME Exclusive PROVE Paired(u) /\ Tracked(s0, u)
    <3>1. Paired(s) /\ Tracked(s0, s)
      BY <2>10 DEF Good
    <3>2. Primary \in 0 .. s.last
      BY <2>1 DEF Shape, Primary
    <3>3. \A x \in DOMAIN s.handles : s.handles[x] # Primary
      BY <1>2, <3>1 DEF Paired
    <3>4. Paired(u)
      BY <2>4, <2>6, <2>7, <2>9, <3>1, <3>2, <3>3 DEF Paired
    <3>5. Tracked(s0, u)
      BY <2>6, <2>7, <2>9, <3>1 DEF Tracked
    <3> QED
      BY <3>4, <3>5
  <2> QED
    BY <2>4, <2>6, <2>8, <2>10 DEF Good, u
<1> QED
  BY <1>1, <1>2

(* The primary display serves once FinalizeDisplayBinding has begun.       *)
LEMMA ReattachKept ==
    ASSUME BindingAssumption, NEW s0, NEW s, Good(s0, s), Linked(s),
           NEW r \in Reattached(s)
    PROVE  /\ Good(s0, r) /\ Linked(r) /\ Serving(r) /\ r.attached = s.attached
           /\ DOMAIN s.displays \subseteq DOMAIN r.displays
<1> DEFINE t == WithPrimary(s)
<1>1. /\ Good(s0, t) /\ Linked(t) /\ t.attached = s.attached
      /\ DOMAIN t.displays = DOMAIN s.displays \cup {Primary}
  BY PrimaryKept
<1>2. r \in IF ~HasPipe(t, Primary) /\ DOMAIN t.handles # {}
            THEN {BindDisplay(UnbindDisplay(t, c), c) : c \in DOMAIN t.handles}
            ELSE {t}
  BY DEF Reattached
<1> HIDE DEF t
<1>3. CASE ~HasPipe(t, Primary) /\ DOMAIN t.handles # {}
  <2>1. PICK c \in DOMAIN t.handles : r = BindDisplay(UnbindDisplay(t, c), c)
    BY <1>2, <1>3
  <2> DEFINE u == UnbindDisplay(t, c)
  <2>2. /\ Good(s0, u) /\ DOMAIN u.handles = DOMAIN t.handles \ {c}
        /\ u.attached = t.attached
        /\ DOMAIN t.displays \subseteq DOMAIN u.displays
    BY <1>1, UnbindKept
  <2>3. r = BindDisplay(u, c)
    BY <2>1
  <2>4. c \in Conns
    BY <1>1 DEF Good, Shape
  <2> HIDE DEF u
  <2>5. /\ Good(s0, r) /\ DOMAIN r.handles = DOMAIN u.handles \cup {c}
        /\ r.attached = u.attached
        /\ DOMAIN u.displays \subseteq DOMAIN r.displays
        /\ HasPipe(r, Primary)
    BY <2>2, <2>3, <2>4, BindKept
  <2> QED
    BY <1>1, <2>2, <2>5 DEF Linked, Serving, HasPipe
<1>4. CASE ~(~HasPipe(t, Primary) /\ DOMAIN t.handles # {})
  <2>1. r = t
    BY <1>2, <1>4
  <2> QED
    BY <1>1, <1>4, <2>1 DEF Linked, Serving
<1> QED
  BY <1>3, <1>4

(* Displays are disposed of.                                               *)
LEMMA DropKept ==
    ASSUME NEW s, Shape(s), NEW S
    PROVE  LET u == [s EXCEPT !.displays = Drop(@, S)]
           IN /\ Shape(u) /\ IsDrop(u.displays, s.displays, S)
              /\ u.handles = s.handles /\ u.deferred = s.deferred
              /\ u.removal = s.removal /\ u.last = s.last /\ u.attached = s.attached
<1> DEFINE D == Drop(s.displays, S)
           u == [s EXCEPT !.displays = D]
<1>1. s = [displays |-> s.displays, handles |-> s.handles,
            deferred |-> s.deferred, removal |-> s.removal, last |-> s.last,
            attached |-> s.attached, refused |-> s.refused]
  BY DEF Shape
<1>2. IsDrop(D, s.displays, S)
  BY DropIs
<1> HIDE DEF D
<1>3. u = [displays |-> D, handles |-> s.handles,
           deferred |-> s.deferred, removal |-> s.removal, last |-> s.last,
           attached |-> s.attached, refused |-> s.refused]
  BY <1>1
<1> HIDE DEF u
<1>4. /\ u.displays = D /\ u.handles = s.handles /\ u.deferred = s.deferred
      /\ u.removal = s.removal /\ u.last = s.last /\ u.attached = s.attached
      /\ u.refused = s.refused
  BY <1>3
<1>5. Shape(u)
  BY <1>2, <1>3, <1>4 DEF Shape, IsDrop
<1> QED
  BY <1>2, <1>4, <1>5 DEF u, D

(* The events have been sent.                                              *)
LEMMA ClearKept ==
    ASSUME NEW s, Shape(s)
    PROVE  LET u == [s EXCEPT !.deferred = [h \in {} |-> TRUE]]
           IN /\ Shape(u) /\ DOMAIN u.deferred = {}
              /\ u.displays = s.displays /\ u.handles = s.handles
              /\ u.removal = s.removal /\ u.last = s.last /\ u.attached = s.attached
<1> DEFINE E == [h \in {} |-> TRUE]
           u == [s EXCEPT !.deferred = E]
<1>1. s = [displays |-> s.displays, handles |-> s.handles,
            deferred |-> s.deferred, removal |-> s.removal, last |-> s.last,
            attached |-> s.attached, refused |-> s.refused]
  BY DEF Shape
<1>2. DOMAIN E = {} /\ E = [h \in DOMAIN E |-> E[h]]
  OBVIOUS
<1> HIDE DEF E
<1>3. u = [displays |-> s.displays, handles |-> s.handles,
           deferred |-> E, removal |-> s.removal, last |-> s.last,
           attached |-> s.attached, refused |-> s.refused]
  BY <1>1
<1> HIDE DEF u
<1>4. /\ u.displays = s.displays /\ u.handles = s.handles /\ u.deferred = E
      /\ u.removal = s.removal /\ u.last = s.last /\ u.attached = s.attached
      /\ u.refused = s.refused
  BY <1>3
<1>5. Shape(u)
  BY <1>2, <1>3, <1>4 DEF Shape
<1> QED
  BY <1>2, <1>4, <1>5 DEF u, E

(* Dropping displays that have no pipeline keeps the pairing.              *)
LEMMA DropPaired ==
    ASSUME BindingAssumption, NEW s, NEW u, Shape(s), Paired(s), NEW S,
           IsDrop(u.displays, s.displays, S),
           u.handles = s.handles, u.deferred = s.deferred,
           u.removal = s.removal, u.last = s.last,
           \A h \in S : ~HasPipe(s, h)
    PROVE  Paired(u) /\ \A h : HasPipe(u, h) <=> HasPipe(s, h)
<1>1. \A h : HasPipe(u, h) <=> HasPipe(s, h)
  BY DEF HasPipe, IsDrop
<1>2. DOMAIN u.displays \subseteq DOMAIN s.displays
  BY DEF IsDrop
<1>3. \A c \in DOMAIN u.handles :
        u.handles[c] \in DOMAIN u.displays /\ u.displays[u.handles[c]] = c
  <2> SUFFICES ASSUME NEW c \in DOMAIN s.handles
               PROVE  s.handles[c] \in DOMAIN u.displays /\ u.displays[s.handles[c]] = c
    OBVIOUS
  <2>1. s.handles[c] \in DOMAIN s.displays /\ s.displays[s.handles[c]] = c
    BY DEF Paired
  <2>2. c # NoPipe
    BY DEF Shape, BindingAssumption
  <2> QED
    BY <2>1, <2>2 DEF IsDrop, HasPipe
<1> QED
  BY <1>1, <1>2, <1>3 DEF Paired, IsDrop

-----------------------------------------------------------------------------
(* The threads.                                                            *)

(* No thread is busy at first.                                             *)
LEMMA ThreadsInit == Init => ThreadsInv
BY DEF Init, ThreadsInv, Threads, Busy, Quiet

(* Where the threads are follows from what they do.                        *)
LEMMA ThreadsKept ==
    ASSUME BindingAssumption, ThreadsInv, [Next]_vars
    PROVE  ThreadsInv'
<1> USE DEF ThreadsInv, Threads, Busy, Quiet
<1>1. ASSUME NEW t \in Threads, Send(t) PROVE ThreadsInv'
  BY <1>1, ZenonT(40) DEF Send, vars
<1>2. ASSUME NEW t \in Threads, AllSent(t) PROVE ThreadsInv'
  BY <1>2 DEF AllSent
<1>3. ASSUME NEW t \in Threads, Dispose(t) PROVE ThreadsInv'
  BY <1>3 DEF Dispose
<1>4. CASE ReadUevent
  BY <1>4 DEF ReadUevent
<1>5. CASE HandleUevent
  <2>1. /\ pc' = [pc EXCEPT !["uevent"] = "send"]
        /\ job' = [job EXCEPT !["uevent"] = "update"]
        /\ cursor' = [cursor EXCEPT !["uevent"] = {}]
    BY <1>5 DEF HandleUevent, Update, Finalize
  <2>2. pc["client"] \in {"idle", "sleep"}
    BY <1>5 DEF HandleUevent, LockFree
  <2>3. UNCHANGED <<connected, pending, drms, handler, initialized, registered, known>>
    BY <1>5 DEF HandleUevent
  <2> QED
    BY <2>1, <2>2, <2>3
<1>6. CASE DropUevent
  BY <1>6 DEF DropUevent
<1>7. CASE OpenDevices
  <2>1. pc["uevent"] # "send"
    BY <1>7 DEF OpenDevices, LockFree
  <2> QED
    BY <1>7, <2>1 DEF OpenDevices
<1>8. CASE ResourceManagerInit
  <2>1. /\ pc["client"] = "open" /\ handler' = TRUE
        /\ pc' = [pc EXCEPT !["client"] = "send"]
        /\ job' = [job EXCEPT !["client"] = "init"]
        /\ cursor' = [cursor EXCEPT !["client"] = {}]
        /\ UNCHANGED <<connected, pending, drms, initialized, registered, known>>
    BY <1>8 DEF ResourceManagerInit, Update, Finalize
  <2>2. pc["uevent"] # "send"
    BY <2>1
  <2> QED
    BY <2>1, <2>2
<1>9. CASE Unregister
  BY <1>9 DEF Unregister, Finalize, LockFree
<1>10. CASE RemovePrimary
  BY <1>10 DEF RemovePrimary
<1>11. ASSUME NEW c \in Conns, Plug(c) PROVE ThreadsInv'
  BY <1>11 DEF Plug
<1>12. CASE UNCHANGED vars
  BY <1>12 DEF vars
<1> QED
  BY <1>1, <1>2, <1>3, <1>4, <1>5, <1>6, <1>7, <1>8, <1>9, <1>10, <1>11, <1>12
     DEF Next, Step

-----------------------------------------------------------------------------
(* The bookkeeping between the threads' steps.                             *)

NoSender == \A t \in Threads : pc[t] # "send"

(* When no events wait, the record tracks itself.                          *)
LEMMA SelfGood ==
    ASSUME BookInv, NoSender
    PROVE  Good(b, b) /\ Linked(b)
<1>1. Exclusive => Paired(b)
  BY DEF BookInv
<1>2. DOMAIN b.deferred = {}
  BY DEF BookInv, NoSender
<1>3. Tracked(b, b)
  BY <1>2 DEF Tracked
<1> QED
  BY <1>1, <1>3 DEF BookInv, Good

(* What the beginning of FinalizeDisplayBinding leaves.                    *)
LEMMA FinalizeKept ==
    ASSUME BindingAssumption, NEW s, Good(b, s), Linked(s), NEW t, NEW what,
           Finalize(t, what, s)
    PROVE  /\ Shape(b') /\ Linked(b') /\ Serving(b') /\ b'.attached = s.attached
           /\ Exclusive => Paired(b') /\ Tracked(b, b')
<1>1. b' \in Reattached(s)
  BY DEF Finalize
<1>2. Good(b, b') /\ Linked(b') /\ Serving(b') /\ b'.attached = s.attached
  BY <1>1, ReattachKept
<1> QED
  BY <1>2 DEF Good

(* An update of the displays leaves a record that is in order.             *)
LEMMA UpdateFinalizes ==
    ASSUME BindingAssumption, BookInv, NoSender, NEW t, NEW what, Update(t, what, b)
    PROVE  /\ Shape(b') /\ Linked(b') /\ Serving(b')
           /\ ~drms => b'.attached = b.attached
           /\ Exclusive => Paired(b') /\ Tracked(b, b')
<1>1. PICK bad : Finalize(t, what, UpdateConnectors(b, bad))
  BY DEF Update
<1> DEFINE u == UpdateConnectors(b, bad)
<1>2. Good(b, u) /\ Linked(u)
  BY SelfGood, UpdateKept
<1>3. ~drms => u = b
  BY DEF UpdateConnectors
<1> HIDE DEF u
<1>4. Finalize(t, what, u)
  BY <1>1 DEF u
<1> QED
  BY <1>2, <1>3, <1>4, FinalizeKept

(* So does detaching all of them.                                          *)
LEMMA DetachFinalizes ==
    ASSUME BindingAssumption, BookInv, NoSender, NEW t, NEW what,
           Finalize(t, what, DetachAll(b))
    PROVE  /\ Shape(b') /\ Linked(b') /\ Serving(b') /\ b'.attached = {}
           /\ Exclusive => Paired(b') /\ Tracked(b, b')
<1> DEFINE u == DetachAll(b)
<1>2. Good(b, u) /\ Linked(u) /\ u.attached = {}
  BY SelfGood, DetachKept
<1> HIDE DEF u
<1>3. Finalize(t, what, u)
  BY DEF u
<1> QED
  BY <1>2, <1>3, FinalizeKept

(* At first the headless primary display is all there is.                  *)
LEMMA BookInit == BindingAssumption /\ Init => BookInv
<1> SUFFICES ASSUME BindingAssumption, Init PROVE BookInv
  OBVIOUS
<1>1. b = Empty
  BY DEF Init
<1>2. /\ DOMAIN b.displays = {} /\ b.displays = [h \in {} |-> b.displays[h]]
      /\ DOMAIN b.handles = {} /\ b.handles = [c \in {} |-> b.handles[c]]
      /\ DOMAIN b.deferred = {} /\ b.deferred = [h \in {} |-> b.deferred[h]]
      /\ b.removal = {} /\ b.last = Primary /\ b.attached = {}
  BY <1>1 DEF Empty
<1>3. b = [displays |-> b.displays, handles |-> b.handles,
           deferred |-> b.deferred, removal |-> b.removal, last |-> b.last,
           attached |-> b.attached, refused |-> b.refused]
  BY <1>1 DEF Empty
<1>4. Shape(b) /\ Linked(b)
  BY <1>2, <1>3 DEF Shape, Linked, Primary
<1>5. Paired(b)
  BY <1>2 DEF Paired
<1>6. ~initialized /\ ~Busy("client")
  BY DEF Init, Busy, Threads
<1> QED
  BY <1>2, <1>4, <1>5, <1>6 DEF BookInv

(* Every step leaves the record in order.                                  *)
LEMMA BookKept ==
    ASSUME BindingAssumption, ThreadsInv, BookInv, [Next]_vars
    PROVE  BookInv'
<1>1. ASSUME UNCHANGED b, ((initialized \/ Busy("client"))' => (initialized \/ Busy("client"))),
             (NoSender' => NoSender), (Quiet' => Quiet)
      PROVE  BookInv'
  BY <1>1 DEF BookInv, NoSender
<1>2. ASSUME NEW t \in Threads, Send(t) PROVE BookInv'
  BY <1>1, <1>2 DEF Send, NoSender, Busy, Quiet
<1>3. ASSUME NEW t \in Threads, AllSent(t) PROVE BookInv'
  <2>1. b' = [b EXCEPT !.deferred = [h \in {} |-> TRUE]]
    BY <1>3 DEF AllSent
  <2>2. /\ Shape(b') /\ DOMAIN b'.deferred = {}
        /\ b'.displays = b.displays /\ b'.handles = b.handles
        /\ b'.removal = b.removal /\ b'.last = b.last /\ b'.attached = b.attached
    BY <2>1, ClearKept DEF BookInv
  <2>3. Paired(b) => Paired(b')
    BY <2>2 DEF Paired, HasPipe
  <2>4. Serving(b) => Serving(b')
    BY <2>2 DEF Serving, HasPipe
  <2>5. Linked(b')
    BY <2>2 DEF BookInv, Linked
  <2>6. (initialized \/ Busy("client"))' => (initialized \/ Busy("client"))
    BY <1>3 DEF AllSent, Busy, ThreadsInv, Threads
  <2>7. Quiet' => Quiet
    BY <1>3 DEF AllSent, Busy, Quiet, ThreadsInv, Threads
  <2> QED
    BY <2>2, <2>3, <2>4, <2>5, <2>6, <2>7 DEF BookInv
<1>4. ASSUME NEW t \in Threads, Dispose(t) PROVE BookInv'
  <2>1. b' = [b EXCEPT !.displays = Drop(@, b.removal)]
    BY <1>4 DEF Dispose
  <2>2. /\ Shape(b') /\ IsDrop(b'.displays, b.displays, b.removal)
        /\ b'.handles = b.handles /\ b'.deferred = b.deferred
        /\ b'.removal = b.removal /\ b'.last = b.last /\ b'.attached = b.attached
    BY <2>1, DropKept DEF BookInv
  <2>3. Paired(b) => Paired(b')
    <3>1. SUFFICES ASSUME Paired(b) PROVE Paired(b')
      OBVIOUS
    <3>2. \A h \in b.removal : ~HasPipe(b, h)
      BY <3>1 DEF Paired
    <3> QED
      BY <2>2, <3>1, <3>2, DropPaired DEF BookInv
  <2>4. Serving(b) => Serving(b')
    BY <2>2 DEF Serving, HasPipe, IsDrop, BookInv, Shape
  <2>5. Linked(b')
    BY <2>2 DEF BookInv, Linked
  <2>6. (initialized \/ Busy("client"))' => (initialized \/ Busy("client"))
    BY <1>4 DEF Dispose, Busy, ThreadsInv, Threads
  <2>7. Quiet' => Quiet
    BY <1>4 DEF Dispose, Busy, Quiet, ThreadsInv, Threads
  <2>8. NoSender' => NoSender
    BY <1>4 DEF Dispose, NoSender, ThreadsInv, Threads
  <2> QED
    BY <2>2, <2>3, <2>4, <2>5, <2>6, <2>7, <2>8 DEF BookInv, NoSender
<1>5. CASE ReadUevent
  BY <1>1, <1>5 DEF ReadUevent, NoSender, Busy, Quiet, ThreadsInv, Threads
<1>6. CASE HandleUevent
  <2>1. /\ Update("uevent", "update", b) /\ pc["uevent"] = "handler" /\ LockFree("uevent")
        /\ pc' = [pc EXCEPT !["uevent"] = "send"]
        /\ job' = [job EXCEPT !["uevent"] = "update"]
        /\ UNCHANGED <<connected, pending, drms, handler, initialized, registered, known>>
    BY <1>6 DEF HandleUevent, Update, Finalize
  <2>2. \/ pc["client"] = "idle"
        \/ pc["client"] = "sleep" /\ job["client"] \in Windows
    BY <2>1 DEF LockFree, Threads, ThreadsInv
  <2>3. NoSender
    BY <2>1, <2>2 DEF NoSender, Threads
  <2>4. /\ Shape(b') /\ Linked(b') /\ Serving(b')
        /\ ~drms => b'.attached = b.attached
        /\ Exclusive => Paired(b')
    BY <2>1, <2>3, UpdateFinalizes
  <2>5. pc'["uevent"] = "send"
    BY <2>1 DEF ThreadsInv, Threads
  <2>6. ASSUME Exclusive, Quiet' PROVE b'.attached = {}
    <3>1. Quiet
      BY <2>1, <2>6 DEF Quiet, Busy, ThreadsInv, Threads
    <3>2. ~handler
      BY <3>1 DEF ThreadsInv
    <3>3. "handler" \in Windows
      BY <2>1, <3>2 DEF ThreadsInv
    <3>4. ~(Busy("client") /\ job["client"] = "deinit")
      BY <2>2, <2>6, <3>3 DEF Busy, Exclusive
    <3>5. ~drms
      BY <2>2, <3>1, <3>4 DEF ThreadsInv, Quiet
    <3> QED
      BY <2>4, <2>6, <3>1, <3>5 DEF BookInv
  <2> QED
    BY <2>4, <2>5, <2>6 DEF BookInv, Threads
<1>7. CASE DropUevent
  BY <1>1, <1>7 DEF DropUevent, NoSender, Busy, Quiet
<1>8. CASE OpenDevices
  <2>1. UNCHANGED b /\ UNCHANGED <<initialized, job>> /\ ~initialized /\ pc["client"] = "idle"
        /\ pc' = [pc EXCEPT !["client"] = "open"]
    BY <1>8 DEF OpenDevices
  <2>2. (NoSender' => NoSender) /\ Quiet /\ ~Busy("client")'
    BY <2>1 DEF NoSender, Quiet, Busy, Threads, ThreadsInv
  <2> QED
    BY <1>1, <2>1, <2>2
<1>9. CASE ResourceManagerInit
  <2>1. /\ Update("client", "init", b) /\ pc["client"] = "open"
        /\ pc' = [pc EXCEPT !["client"] = "send"]
        /\ job' = [job EXCEPT !["client"] = "init"]
    BY <1>9 DEF ResourceManagerInit, Update, Finalize
  <2>2. NoSender
    BY <2>1 DEF NoSender, Threads, ThreadsInv
  <2>3. Shape(b') /\ Linked(b') /\ Serving(b') /\ (Exclusive => Paired(b'))
    BY <2>1, <2>2, UpdateFinalizes
  <2>4. pc'["client"] = "send" /\ job'["client"] = "init"
    BY <2>1 DEF ThreadsInv, Threads
  <2> QED
    BY <2>3, <2>4 DEF BookInv, Threads, Quiet, Busy
<1>10. CASE Unregister
  <2>1. /\ Finalize("client", "deinit", DetachAll(b)) /\ pc["client"] = "idle"
        /\ LockFree("client")
        /\ pc' = [pc EXCEPT !["client"] = "send"]
    BY <1>10 DEF Unregister, Finalize
  <2>2. NoSender
    BY <2>1 DEF NoSender, Threads, LockFree
  <2>3. Shape(b') /\ Linked(b') /\ Serving(b') /\ b'.attached = {} /\ (Exclusive => Paired(b'))
    BY <2>1, <2>2, DetachFinalizes
  <2>4. pc'["client"] = "send"
    BY <2>1 DEF ThreadsInv, Threads
  <2> QED
    BY <2>3, <2>4 DEF BookInv, Threads
<1>11. CASE RemovePrimary
  <2>1. b' = [b EXCEPT !.displays = Drop(@, {Primary})]
        /\ pc["client"] = "primary" /\ pc' = [pc EXCEPT !["client"] = "idle"]
        /\ UNCHANGED <<initialized, job>>
    BY <1>11 DEF RemovePrimary
  <2>2. /\ Shape(b') /\ IsDrop(b'.displays, b.displays, {Primary})
        /\ b'.handles = b.handles /\ b'.deferred = b.deferred
        /\ b'.removal = b.removal /\ b'.last = b.last /\ b'.attached = b.attached
    BY <2>1, DropKept DEF BookInv
  <2>3. ~initialized' /\ ~Busy("client")' /\ Quiet
    BY <2>1 DEF ThreadsInv, Threads, Busy, Quiet
  <2>4. Exclusive => Paired(b')
    <3>1. SUFFICES ASSUME Exclusive PROVE Paired(b')
      OBVIOUS
    <3>2. Paired(b) /\ DOMAIN b.handles = {}
      BY <2>3, <3>1 DEF BookInv, Linked
    <3>3. ~HasPipe(b, Primary)
      BY <3>2 DEF Paired, HasPipe
    <3>4. \A h \in {Primary} : ~HasPipe(b, h)
      BY <3>3
    <3>5. Shape(b)
      BY DEF BookInv
    <3> QED
      BY <2>2, <3>2, <3>4, <3>5, DropPaired
  <2>5. Linked(b') /\ (Exclusive => b'.attached = {})
    BY <2>2, <2>3 DEF BookInv, Linked
  <2>6. NoSender' => NoSender
    BY <2>1 DEF NoSender, ThreadsInv, Threads
  <2> QED
    BY <2>2, <2>3, <2>4, <2>5, <2>6 DEF BookInv, NoSender
<1>12. ASSUME NEW c \in Conns, Plug(c) PROVE BookInv'
  BY <1>1, <1>12 DEF Plug, NoSender, Busy, Quiet
<1>13. CASE UNCHANGED vars
  BY <1>1, <1>13 DEF vars, NoSender, Busy, Quiet
<1> QED
  BY <1>2, <1>3, <1>4, <1>5, <1>6, <1>7, <1>8, <1>9, <1>10, <1>11, <1>12, <1>13
     DEF Next, Step

-----------------------------------------------------------------------------
(* What the client is told.                                                *)

(* At first there is nothing to tell the client.                           *)
LEMMA NoticeInit == Init => NoticeInv
BY DEF Init, NoticeInv, Quiet, Empty, Threads, Busy

(* A thread that begins to send: what the record says of each display it   *)
(* will announce, the rest the client knew.                                *)
LEMMA NoticeAfterFinalize ==
    ASSUME ThreadsInv, NoSender, NEW t \in Threads, Tracked(b, b'),
           pc' = [pc EXCEPT ![t] = "send"], cursor' = [cursor EXCEPT ![t] = {}],
           UNCHANGED known, NEW h
    PROVE  WillKnow(h)' <=> IF h \in DOMAIN b'.deferred
                            THEN HasPipe(b', h) \/ h = Primary
                            ELSE h \in known
<1>1. pc'[t] = "send" /\ \A u \in Threads : pc'[u] = "send" => u = t
  BY DEF ThreadsInv, NoSender
<1>2. cursor'[t] = {}
  BY DEF ThreadsInv
<1>3. ToSend(t)' = DOMAIN b'.deferred
  BY <1>2 DEF ToSend
<1>4. WillKnow(h)' <=> \/ h \in DOMAIN b'.deferred /\ b'.deferred[h]
                       \/ h \in known /\ h \notin DOMAIN b'.deferred
  BY <1>1, <1>3 DEF WillKnow
<1>5. h \in DOMAIN b'.deferred => (b'.deferred[h] <=> HasPipe(b', h) \/ h = Primary)
  BY DEF Tracked
<1> QED
  BY <1>4, <1>5

(* Nothing the client knows or will be told changes.                       *)
LEMMA NoticeUnmoved ==
    ASSUME NoticeInv, UNCHANGED known,
           UNCHANGED cursor, b'.deferred = b.deferred,
           \A t \in Threads : pc'[t] = "send" <=> pc[t] = "send",
           Exclusive => \A h : HasPipe(b, h)' <=> HasPipe(b, h),
           Quiet' <=> Quiet,
           Quiet' /\ pc'["client"] \in {"idle", "open"} =>
             \/ Primary \notin DOMAIN b'.displays
             \/ /\ pc["client"] \in {"idle", "open"}
                /\ DOMAIN b'.displays \subseteq DOMAIN b.displays
    PROVE  NoticeInv'
<1>1. \A h : WillKnow(h)' <=> WillKnow(h)
  BY DEF WillKnow, ToSend
<1> QED
  BY <1>1 DEF NoticeInv, Threads

(* With no thread sending, what the client will know is what it knows.     *)
LEMMA NothingToSend ==
    ASSUME NoSender, NEW h
    PROVE  WillKnow(h) <=> h \in known
BY DEF NoSender, WillKnow

(* A handler that never comes in between never does so during DeInit.      *)
LEMMA HandlerExcludes == "handler" \notin Windows => Exclusive
BY DEF Exclusive

(* Every step keeps what the client knows, or is about to be told.         *)
LEMMA NoticeKept ==
    ASSUME BindingAssumption, ThreadsInv, BookInv, NoticeInv, [Next]_vars
    PROVE  NoticeInv'
<1>1. ASSUME NEW t \in Threads, Send(t) PROVE NoticeInv'
  <2>1. pc[t] = "send" /\ ToSend(t) # {} /\ UNCHANGED <<b, initialized, registered, pc, job>>
    BY <1>1 DEF Send
  <2>2. PICK h : /\ h = CHOOSE x \in ToSend(t) : \A g \in ToSend(t) : x <= g
                 /\ cursor' = [cursor EXCEPT ![t] = @ \cup {h}]
                 /\ known' = CASE ~registered -> known
                               [] registered /\ b.deferred[h] -> known \cup {h}
                               [] OTHER -> known \ {h}
    BY <1>1 DEF Send
  <2>3. \A u \in Threads : pc[u] = "send" => u = t
    BY <2>1 DEF ThreadsInv, Threads
  <2>4. cursor'[t] = cursor[t] \cup {h}
    BY <2>2 DEF ThreadsInv
  <2>5. Quiet' <=> Quiet
    BY <2>1 DEF Quiet, Busy
  <2>6. pc'["client"] = "send" => known' \subseteq cursor'["client"]
    <3>1. SUFFICES ASSUME pc["client"] = "send" PROVE known' \subseteq cursor'["client"]
      BY <2>1
    <3>2. t = "client" /\ known \subseteq cursor[t]
      BY <2>3, <3>1 DEF Threads, NoticeInv
    <3>3. known' \subseteq known \cup {h}
      BY <2>2
    <3> QED
      BY <2>4, <3>2, <3>3
  <2>7. ASSUME Exclusive, ~Quiet, NEW g PROVE WillKnow(g)' <=> WillKnow(g)
    <3>1. registered
      BY <2>7 DEF ThreadsInv
    <3>2. ToSend(t) \subseteq Nat
      <4>1. DOMAIN b.deferred \subseteq 0 .. b.last /\ b.last \in Nat
        BY <2>7 DEF BookInv, Paired, Shape
      <4> QED
        BY <4>1 DEF ToSend
    <3>3. h \in ToSend(t)
      BY <2>1, <2>2, <3>2, LeastNatural
    <3>4. ToSend(t)' = ToSend(t) \ {h}
      BY <2>1, <2>4 DEF ToSend
    <3>5. known' = IF b.deferred[h] THEN known \cup {h} ELSE known \ {h}
      BY <2>2, <3>1
    <3>6. WillKnow(g) <=> \/ g \in ToSend(t) /\ b.deferred[g]
                          \/ g \in known /\ g \notin ToSend(t)
      BY <2>1, <2>3 DEF WillKnow
    <3>7. WillKnow(g)' <=> \/ g \in ToSend(t)' /\ b.deferred[g]
                           \/ g \in known' /\ g \notin ToSend(t)'
      BY <2>1, <2>3 DEF WillKnow
    <3> QED
      BY <3>3, <3>4, <3>5, <3>6, <3>7
  <2>8. \A g : HasPipe(b, g)' <=> HasPipe(b, g)
    BY <2>1
  <2> QED
    BY <2>1, <2>5, <2>6, <2>7, <2>8, HandlerExcludes DEF NoticeInv
<1>2. ASSUME NEW t \in Threads, AllSent(t) PROVE NoticeInv'
  <2>1. b' = [b EXCEPT !.deferred = [h \in {} |-> TRUE]]
    BY <1>2 DEF AllSent
  <2>2. b'.displays = b.displays /\ DOMAIN b'.deferred = {}
    BY <2>1, ClearKept DEF BookInv
  <2>3. /\ pc[t] = "send" /\ ToSend(t) = {} /\ pc' = [pc EXCEPT ![t] = "sleep"]
        /\ UNCHANGED <<initialized, job, cursor, known>>
    BY <1>2 DEF AllSent
  <2>4. \A u \in Threads : pc[u] = "send" => u = t
    BY <2>3 DEF ThreadsInv, Threads
  <2>5. \A g : WillKnow(g) <=> g \in known
    BY <2>3, <2>4 DEF WillKnow
  <2>6. \A u \in Threads : pc'[u] # "send"
    BY <2>3, <2>4 DEF ThreadsInv
  <2>7. \A g : WillKnow(g)' <=> g \in known
    BY <2>3, <2>6 DEF WillKnow
  <2>8. Quiet' <=> Quiet
    BY <2>3 DEF Quiet, Busy, ThreadsInv, Threads
  <2>9. \A g : HasPipe(b, g)' <=> HasPipe(b, g)
    BY <2>2 DEF HasPipe
  <2>10. pc'["client"] \in {"idle", "open"} => pc["client"] \in {"idle", "open"}
    BY <2>3 DEF ThreadsInv, Threads
  <2>11. pc'["client"] # "send"
    BY <2>6 DEF Threads
  <2> QED
    BY <2>2, <2>5, <2>7, <2>8, <2>9, <2>10, <2>11 DEF NoticeInv
<1>3. ASSUME NEW t \in Threads, Dispose(t) PROVE NoticeInv'
  <2>1. /\ b' = [b EXCEPT !.displays = Drop(@, b.removal)] /\ pc[t] = "sleep"
        /\ pc' = [pc EXCEPT ![t] = IF job[t] = "deinit" THEN "primary" ELSE "idle"]
        /\ job' = [job EXCEPT ![t] = "none"]
        /\ initialized' = CASE job[t] = "init" -> TRUE
                            [] job[t] = "deinit" -> FALSE
                            [] OTHER -> initialized
        /\ UNCHANGED <<cursor, known>>
    BY <1>3 DEF Dispose
  <2>2. /\ IsDrop(b'.displays, b.displays, b.removal) /\ b'.deferred = b.deferred
        /\ b'.handles = b.handles /\ b'.removal = b.removal /\ b'.last = b.last
    BY <2>1, DropKept DEF BookInv
  <2>3. \A u \in Threads : pc'[u] = "send" <=> pc[u] = "send"
    BY <2>1 DEF ThreadsInv, Threads
  <2>4. ASSUME Exclusive PROVE \A h : HasPipe(b, h)' <=> HasPipe(b, h)
    <3>1. Paired(b) /\ Shape(b) /\ \A h \in b.removal : ~HasPipe(b, h)
      BY <2>4 DEF BookInv, Paired
    <3> QED
      BY <2>2, <3>1, DropPaired
  <2>5. Quiet' <=> Quiet
    BY <2>1 DEF Quiet, Busy, ThreadsInv, Threads
  <2>6. Quiet' /\ pc'["client"] \in {"idle", "open"} => pc["client"] \in {"idle", "open"}
    BY <2>1 DEF Quiet, Busy, ThreadsInv, Threads
  <2>7. DOMAIN b'.displays \subseteq DOMAIN b.displays
    BY <2>2 DEF IsDrop
  <2> QED
    BY <2>1, <2>2, <2>3, <2>4, <2>5, <2>6, <2>7, NoticeUnmoved
<1>4. CASE ReadUevent
  <2>1. /\ UNCHANGED <<b, initialized, job, cursor, known>>
        /\ pc["uevent"] = "idle" /\ pc' = [pc EXCEPT !["uevent"] = "handler"]
    BY <1>4 DEF ReadUevent
  <2>2. pc'["client"] = pc["client"] /\ \A u \in Threads : pc'[u] = "send" <=> pc[u] = "send"
    BY <2>1 DEF ThreadsInv, Threads
  <2>3. (Quiet' <=> Quiet) /\ \A h : HasPipe(b, h)' <=> HasPipe(b, h)
    BY <2>1, <2>2 DEF Quiet, Busy
  <2> QED
    BY <2>1, <2>2, <2>3, NoticeUnmoved
<1>5. CASE HandleUevent
  <2>1. /\ Update("uevent", "update", b) /\ pc["uevent"] = "handler" /\ LockFree("uevent")
        /\ pc' = [pc EXCEPT !["uevent"] = "send"]
        /\ cursor' = [cursor EXCEPT !["uevent"] = {}]
        /\ job' = [job EXCEPT !["uevent"] = "update"]
        /\ UNCHANGED <<handler, initialized, known>>
    BY <1>5 DEF HandleUevent, Update, Finalize
  <2>2. pc["client"] \in {"idle", "sleep"}
    BY <2>1 DEF LockFree, Threads, ThreadsInv
  <2>3. NoSender
    BY <2>1, <2>2 DEF NoSender, Threads
  <2>4. Exclusive => Tracked(b, b')
    BY <2>1, <2>3, UpdateFinalizes
  <2>5. pc'["client"] = pc["client"] /\ (Quiet' <=> Quiet)
    BY <2>1 DEF ThreadsInv, Threads, Quiet, Busy
  <2>6. Exclusive => \A h : WillKnow(h)' <=>
          IF h \in DOMAIN b'.deferred THEN HasPipe(b', h) \/ h = Primary ELSE WillKnow(h)
    BY <2>1, <2>3, <2>4, NoticeAfterFinalize, NothingToSend DEF Threads
  <2>7. Exclusive => \A h : h \notin DOMAIN b'.deferred => (HasPipe(b', h) <=> HasPipe(b, h))
    BY <2>4 DEF Tracked
  <2>8. ASSUME "handler" \notin Windows PROVE ~Quiet
    BY <2>1, <2>8 DEF ThreadsInv
  <2>9. \A h : HasPipe(b, h)' <=> HasPipe(b', h)
    BY DEF HasPipe
  <2> QED
    BY <2>2, <2>5, <2>6, <2>7, <2>8, <2>9, HandlerExcludes DEF NoticeInv
<1>6. CASE DropUevent
  <2>1. UNCHANGED <<b, initialized, job, cursor, known, pc>>
    BY <1>6 DEF DropUevent
  <2>2. (Quiet' <=> Quiet) /\ \A h : HasPipe(b, h)' <=> HasPipe(b, h)
    BY <2>1 DEF Quiet, Busy
  <2> QED
    BY <2>1, <2>2, NoticeUnmoved
<1>7. CASE OpenDevices
  <2>1. /\ UNCHANGED <<b, initialized, job, cursor, known>> /\ ~initialized
        /\ pc["client"] = "idle" /\ pc' = [pc EXCEPT !["client"] = "open"]
    BY <1>7 DEF OpenDevices
  <2>2. \A u \in Threads : pc'[u] = "send" <=> pc[u] = "send"
    BY <2>1 DEF ThreadsInv, Threads
  <2>3. (Quiet' <=> Quiet) /\ \A h : HasPipe(b, h)' <=> HasPipe(b, h)
    BY <2>1 DEF Quiet, Busy, ThreadsInv, Threads
  <2> QED
    BY <2>1, <2>2, <2>3, NoticeUnmoved
<1>8. CASE ResourceManagerInit
  <2>1. /\ Update("client", "init", b) /\ pc["client"] = "open"
        /\ pc' = [pc EXCEPT !["client"] = "send"]
        /\ cursor' = [cursor EXCEPT !["client"] = {}]
        /\ UNCHANGED <<initialized, known>>
    BY <1>8 DEF ResourceManagerInit, Update, Finalize
  <2>2. NoSender
    BY <2>1 DEF NoSender, Threads, ThreadsInv
  <2>3. Serving(b') /\ (Exclusive => Tracked(b, b'))
    BY <2>1, <2>2, UpdateFinalizes
  <2>4. Quiet /\ known = {} /\ known' = {} /\ pc'["client"] = "send"
    BY <2>1 DEF ThreadsInv, Threads, Quiet
  <2>5. Exclusive => \A h : WillKnow(h)' <=>
          h \in DOMAIN b'.deferred /\ (HasPipe(b', h) \/ h = Primary)
    BY <2>1, <2>2, <2>3, <2>4, NoticeAfterFinalize DEF Threads
  <2>6. Exclusive => \A h : ~HasPipe(b, h)
    BY <2>4 DEF BookInv, Paired, Linked, HasPipe
  <2>7. Exclusive => \A h : HasPipe(b', h) => h \in DOMAIN b'.deferred
    BY <2>3, <2>6 DEF Tracked
  <2>8. "handler" \notin Windows => Primary \in DOMAIN b'.deferred
    <3>1. "handler" \notin Windows => Primary \notin DOMAIN b.displays
      BY <2>1, <2>4 DEF NoticeInv
    <3> QED
      BY <2>3, <3>1, HandlerExcludes DEF Tracked, Serving
  <2>9. \A h : HasPipe(b, h)' <=> HasPipe(b', h)
    BY DEF HasPipe
  <2> QED
    BY <2>4, <2>5, <2>7, <2>8, <2>9, HandlerExcludes DEF NoticeInv
<1>9. CASE Unregister
  <2>1. /\ pc["client"] = "idle" /\ known' = {}
        /\ pc' = [pc EXCEPT !["client"] = "send"]
        /\ job' = [job EXCEPT !["client"] = "deinit"]
    BY <1>9 DEF Unregister, Finalize
  <2>2. pc'["client"] = "send" /\ Quiet'
    BY <2>1 DEF ThreadsInv, Threads, Quiet, Busy
  <2> QED
    BY <2>1, <2>2 DEF NoticeInv
<1>10. CASE RemovePrimary
  <2>1. /\ b' = [b EXCEPT !.displays = Drop(@, {Primary})]
        /\ pc["client"] = "primary" /\ pc' = [pc EXCEPT !["client"] = "idle"]
        /\ UNCHANGED <<initialized, job, known>>
    BY <1>10 DEF RemovePrimary
  <2>2. pc'["client"] = "idle" /\ Quiet'
    BY <2>1 DEF ThreadsInv, Threads, Quiet
  <2>3. Primary \notin DOMAIN b'.displays
    <3>1. IsDrop(b'.displays, b.displays, {Primary})
      BY <2>1, DropKept DEF BookInv
    <3> QED
      BY <3>1 DEF IsDrop
  <2> QED
    BY <2>2, <2>3 DEF NoticeInv
<1>11. ASSUME NEW c \in Conns, Plug(c) PROVE NoticeInv'
  <2>1. UNCHANGED <<b, initialized, job, cursor, known, pc>>
    BY <1>11 DEF Plug
  <2>2. (Quiet' <=> Quiet) /\ \A h : HasPipe(b, h)' <=> HasPipe(b, h)
    BY <2>1 DEF Quiet, Busy
  <2> QED
    BY <2>1, <2>2, NoticeUnmoved
<1>12. CASE UNCHANGED vars
  <2>1. UNCHANGED <<b, initialized, job, cursor, known, pc>>
    BY <1>12 DEF vars
  <2>2. (Quiet' <=> Quiet) /\ \A h : HasPipe(b, h)' <=> HasPipe(b, h)
    BY <2>1 DEF Quiet, Busy
  <2> QED
    BY <2>1, <2>2, NoticeUnmoved
<1> QED
  BY <1>1, <1>2, <1>3, <1>4, <1>5, <1>6, <1>7, <1>8, <1>9, <1>10, <1>11, <1>12
     DEF Next, Step

-----------------------------------------------------------------------------
(* The theorems.                                                           *)

(* The inductive invariant: what each thread may be doing, the pairing of  *)
(* the records, and what the client knows or is about to be told.          *)
THEOREM BindingKeepsInv == Spec => []BindingInv
<1>1. Init => BindingInv
  BY BindingAssumption, ThreadsInit, BookInit, NoticeInit DEF BindingInv
<1>2. BindingInv /\ [Next]_vars => BindingInv'
  BY BindingAssumption, ThreadsKept, BookKept, NoticeKept DEF BindingInv
<1> QED
  BY <1>1, <1>2, PTL DEF Spec

(* However the threads interleave, while the client is registered the      *)
(* primary display exists, and has a pipeline if any connector has one     *)
(* (FinalizeDisplayBinding).                                               *)
THEOREM PrimaryAlwaysServes == Spec => []PrimaryServes
<1>1. BindingInv => PrimaryServes
  BY DEF BindingInv, BookInv, PrimaryServes, Serving
<1> QED
  BY <1>1, BindingKeepsInv, PTL

(* Displays and pipelines are paired up by display_handles_ whenever the   *)
(* main lock is free (BindDisplay, UnbindDisplay).                         *)
THEOREM BindingStaysConsistent ==
    ASSUME Exclusive
    PROVE  Spec => []BindingConsistent
<1>1. BindingInv => BindingConsistent
  <2> SUFFICES ASSUME BindingInv PROVE BindingConsistent
    OBVIOUS
  <2>1. Paired(b) /\ Linked(b) /\ Shape(b)
    BY DEF BindingInv, BookInv
  <2>2. \A c \in DOMAIN b.handles : c # NoPipe
    BY <2>1, BindingAssumption DEF Shape, BindingAssumption
  <2> QED
    BY <2>1, <2>2 DEF Paired, Linked, BindingConsistent, HasPipe
<1> QED
  BY <1>1, BindingKeepsInv, PTL

(* Between announcements the client knows exactly the displays that have a *)
(* pipeline, and the primary one (SendHotplugEventToClient).               *)
THEOREM ClientIsTold ==
    ASSUME "handler" \notin Windows
    PROVE  Spec => []ClientKnows
<1>1. BindingInv => ClientKnows
  <2> SUFFICES ASSUME BindingInv, registered, initialized, NoSender
               PROVE  known = {h \in DOMAIN b.displays : HasPipe(b, h)} \cup {Primary}
    BY DEF ClientKnows, NoSender
  <2>1. ~Quiet
    BY DEF BindingInv, ThreadsInv
  <2>2. \A h : WillKnow(h) <=> h \in known
    BY NothingToSend
  <2>3. \A h : h \in known <=> HasPipe(b, h) \/ h = Primary
    BY <2>1, <2>2, HandlerExcludes DEF BindingInv, NoticeInv
  <2>4. \A h : HasPipe(b, h) => h \in DOMAIN b.displays
    BY DEF HasPipe
  <2> QED
    BY <2>3, <2>4
<1> QED
  BY <1>1, BindingKeepsInv, PTL

(* A display is disposed of only when it has no pipeline and the client    *)
(* has been told, but for the disposal that ends Init while a hotplug      *)
(* announces (displays_for_removal_list_).                                 *)
THEOREM DisposalAfterNotice ==
    ASSUME Exclusive
    PROVE  Spec => DisposedAfterNotice
<1> DEFINE Noticed ==
      \A h \in DOMAIN b.displays \ DOMAIN b'.displays :
          /\ ~HasPipe(b, h)
          /\ h \in known => pc["uevent"] = "send" /\ job["client"] = "init"
<1>1. BindingInv /\ [Next]_vars => [Noticed]_vars
  <2> SUFFICES ASSUME BindingInv, Next PROVE Noticed
    OBVIOUS
  <2> USE DEF BindingInv
  <2>1. ASSUME DOMAIN b.displays \subseteq DOMAIN b'.displays PROVE Noticed
    BY <2>1
  <2>2. ASSUME NEW t \in Threads, Dispose(t) PROVE Noticed
    <3>1. /\ b' = [b EXCEPT !.displays = Drop(@, b.removal)] /\ pc[t] = "sleep"
      BY <2>2 DEF Dispose
    <3>2. IsDrop(b'.displays, b.displays, b.removal)
      BY <3>1, DropKept DEF BookInv
    <3>3. SUFFICES ASSUME NEW h \in DOMAIN b.displays, h \in b.removal
                   PROVE  /\ ~HasPipe(b, h)
                          /\ h \in known => pc["uevent"] = "send" /\ job["client"] = "init"
      BY <3>2 DEF IsDrop
    <3>4. ~HasPipe(b, h) /\ h # Primary
      BY <3>3 DEF BookInv, Paired, Shape
    <3>5. SUFFICES ASSUME h \in known PROVE pc["uevent"] = "send" /\ job["client"] = "init"
      BY <3>4
    <3>6. ~Quiet /\ pc["client"] # "open"
      BY <3>5 DEF ThreadsInv
    <3>7. ~WillKnow(h)
      BY <3>4, <3>6 DEF NoticeInv
    <3>8. PICK u \in Threads : pc[u] = "send" /\ h \in ToSend(u)
      BY <3>5, <3>7 DEF WillKnow
    <3>9. u # "client"
      BY <3>5, <3>8 DEF NoticeInv, ToSend
    <3>10. u = "uevent" /\ t = "client"
      BY <3>1, <3>8, <3>9 DEF Threads
    <3> QED
      BY <3>1, <3>6, <3>8, <3>10 DEF ThreadsInv, Quiet, Busy
  <2>3. CASE RemovePrimary
    <3>1. b' = [b EXCEPT !.displays = Drop(@, {Primary})] /\ pc["client"] = "primary"
      BY <2>3 DEF RemovePrimary
    <3>2. Quiet /\ known = {}
      BY <3>1 DEF Quiet, ThreadsInv
    <3>3. \A h : ~HasPipe(b, h)
      BY <3>2 DEF BookInv, Paired, Linked, HasPipe
    <3> QED
      BY <3>2, <3>3
  <2>4. ASSUME NEW t \in Threads, AllSent(t) PROVE Noticed
    <3>1. b' = [b EXCEPT !.deferred = [h \in {} |-> TRUE]]
      BY <2>4 DEF AllSent
    <3>2. b'.displays = b.displays
      BY <3>1, ClearKept DEF BookInv
    <3> QED
      BY <2>1, <3>2
  <2>5. CASE HandleUevent
    <3>1. /\ Update("uevent", "update", b) /\ pc["uevent"] = "handler" /\ LockFree("uevent")
      BY <2>5 DEF HandleUevent
    <3>2. NoSender
      BY <3>1 DEF NoSender, LockFree, Threads
    <3> QED
      BY <2>1, <3>1, <3>2, UpdateFinalizes, BindingAssumption DEF Tracked
  <2>6. CASE ResourceManagerInit
    <3>1. Update("client", "init", b) /\ pc["client"] = "open"
      BY <2>6 DEF ResourceManagerInit
    <3>2. NoSender
      BY <3>1 DEF NoSender, Threads, ThreadsInv
    <3> QED
      BY <2>1, <3>1, <3>2, UpdateFinalizes, BindingAssumption DEF Tracked
  <2>7. CASE Unregister
    <3>1. /\ Finalize("client", "deinit", DetachAll(b)) /\ pc["client"] = "idle"
          /\ LockFree("client")
      BY <2>7 DEF Unregister
    <3>2. NoSender
      BY <3>1 DEF NoSender, Threads, LockFree
    <3> QED
      BY <2>1, <3>1, <3>2, DetachFinalizes, BindingAssumption DEF Tracked
  <2>8. UNCHANGED b => Noticed
    BY <2>1
  <2> QED
    BY <2>2, <2>3, <2>4, <2>5, <2>6, <2>7, <2>8
       DEF Next, Step, Send, ReadUevent, DropUevent, OpenDevices, Plug
<1>2. Spec => [][Noticed]_vars
  BY <1>1, BindingKeepsInv, PTL DEF Spec
<1> QED
  BY <1>2 DEF DisposedAfterNotice

=============================================================================
