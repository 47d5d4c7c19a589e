----------------------------- MODULE ClientRange -----------------------------
(***************************************************************************)
(* How Backend (backend/Backend.cpp) divides the layers of a display       *)
(* between the client's GPU and the hardware planes.                       *)
(*                                                                         *)
(* The layers are numbered 0 .. n-1 from the bottom up.  The result is a   *)
(* range [start, size]: the layers start .. start + size - 1 go to the     *)
(* client, the others to planes.  size_t arithmetic wraps at SizeMod.      *)
(***************************************************************************)
EXTENDS Integers, FiniteSets, FiniteSetsExt

CONSTANT SizeMod    \* 2^64 on the devices this runs on

ASSUME SizeAssumption == SizeMod \in Nat \ {0}

SizeT(x) == x % SizeMod

MinOf(a, b) == IF a <= b THEN a ELSE b

(* The span from the first to the last layer with a property: what the     *)
(* loop of GetClientLayers leaves in client_start and client_size, or in   *)
(* device_start and device_size.                                           *)
Span(S) == IF S = {} THEN [start |-> -1, size |-> 0]
           ELSE [start |-> Min(S), size |-> Max(S) - Min(S) + 1]

InRange(i, r) == r.start <= i /\ i < r.start + r.size

(* One plane is kept for the client target when there are too few.         *)
AvailPlanes(planes, n) == IF planes < n THEN planes - 1 ELSE planes

-----------------------------------------------------------------------------
(* GetExtraClientRange                                                     *)

ExtraClient(n, planes, client) == (n - client.size) - AvailPlanes(planes, n)

FirstStart(n, planes, client) ==
    IF client.size # 0
    THEN client.start - MinOf(client.start, ExtraClient(n, planes, client))
    ELSE 0

NewSize(n, planes, client) == client.size + ExtraClient(n, planes, client)

(* Faulty: the range may move past the client layers.                      *)
StepsTooMany(n, planes, client) ==
    1 + n - (FirstStart(n, planes, client) + NewSize(n, planes, client))

Steps(n, planes, client) ==
    LET extra   == ExtraClient(n, planes, client)
        prepend == MinOf(client.start, extra)
        append  == MinOf(n - (client.start + client.size), extra)
    IN IF client.size # 0
       THEN 1 + MinOf(MinOf(append, prepend),
                      n - (FirstStart(n, planes, client) + NewSize(n, planes, client)))
       ELSE 1 + n - extra

(* The ranges whose cost the loop compares.                                *)
Candidates(n, planes, client) ==
    {[start |-> FirstStart(n, planes, client) + i,
      size  |-> NewSize(n, planes, client)] :
        i \in 0 .. Steps(n, planes, client) - 1}

(* CalcPixOps of a range, area[i] being the pixels of layer i: pixops[k]   *)
(* is the sum after k passes of its loop over the layers.                  *)
CalcPixOps(area, r) ==
    LET size == Cardinality(DOMAIN area)
        pixops[k \in 0 .. size] ==
          IF k = 0 THEN 0
          ELSE pixops[k - 1] + (IF InRange(k - 1, r) THEN area[k - 1] ELSE 0)
    IN pixops[size]

(* Faulty: the first candidate whatever it costs.                          *)
FirstCandidate(area, C) == CHOOSE r \in C : \A q \in C : r.start <= q.start

(* The first of the cheapest candidates.                                   *)
Cheapest(area, C) ==
    CHOOSE r \in C : \A q \in C :
        \/ CalcPixOps(area, r) < CalcPixOps(area, q)
        \/ CalcPixOps(area, r) = CalcPixOps(area, q) /\ r.start <= q.start

GetExtraClientRange(n, planes, client, area) ==
    IF ExtraClient(n, planes, client) > 0
    THEN Cheapest(area, Candidates(n, planes, client))
    ELSE client

-----------------------------------------------------------------------------
(* GetExtraClientRange2: video layers, in the span device, stay on planes, *)
(* and each of them takes a second one.                                    *)

VideoPlanes(planes, n, device) ==
    LET rest == SizeT(planes - device.size)
    IN IF rest < n THEN SizeT(rest - 1) ELSE rest

Rng(start, size) == [start |-> start, size |-> size]

(* No layer needs the client: the other layers nearest to the video layers *)
(* stay on planes with them, the client gets the rest on one side.         *)
AroundVideo(n, device, extra, fallback) ==
    LET prepend == device.start
        append  == n - (device.start + device.size)
    IN IF MinOf(prepend, append) > extra THEN fallback
       ELSE IF prepend <= append
       THEN Rng(device.start + device.size + (extra - prepend),
                  n - extra - device.size)
       ELSE Rng(0, n - extra - device.size)

(* Faulty: the client's layers are counted from the first video layer.     *)
ClientFromVideo(n, client, device, extra, fallback) ==
    LET mid == MinOf(client.start - (device.start + device.size), extra - device.start)
    IN IF device.start > extra THEN fallback
       ELSE Rng(device.start + mid, n - device.start - mid)

ClientAboveVideo(n, client, device, extra, fallback) ==
    LET prepend == device.start
        midpend == client.start - (device.start + device.size)
        append  == n - (client.start + client.size)
        remain  == extra - prepend
        mid     == MinOf(midpend, remain)
    IN CASE prepend > extra -> fallback
         [] prepend <= extra /\ mid = remain ->
              Rng(device.start + device.size + mid, n - prepend - mid - device.size)
         [] OTHER ->
              Rng(device.start + device.size + mid,
                    n - prepend - mid - MinOf(remain - mid, append) - device.size)

ClientBelowVideo(n, client, device, extra, fallback) ==
    LET prepend == client.start
        midpend == device.start - (client.start + client.size)
        append  == n - (device.start + device.size)
        remain  == extra - append
        mid     == MinOf(midpend, remain)
        first   == MinOf(remain - mid, prepend)
    IN CASE append > extra -> fallback
         [] append <= extra /\ mid = remain ->
              Rng(0, n - append - mid - device.size)
         [] OTHER -> Rng(first, n - append - mid - first - device.size)

GetExtraClientRange2(n, planes, client, device, area) ==
    LET avail    == VideoPlanes(planes, n, device)
        extra    == MinOf(n - device.size - client.size, avail - device.size)
        fallback == GetExtraClientRange(n, planes, client, area)
    IN CASE avail < device.size -> fallback
         [] avail = device.size ->
              IF device.start = 0 THEN Rng(device.size, n - device.size)
              ELSE IF device.start + device.size = n THEN Rng(0, n - device.size)
              ELSE fallback
         [] avail > device.size /\ client.start = -1 ->
              AroundVideo(n, device, extra, fallback)
         [] avail > device.size /\ client.start > device.start ->
              ClientAboveVideo(n, client, device, extra, fallback)
         [] OTHER -> ClientBelowVideo(n, client, device, extra, fallback)

-----------------------------------------------------------------------------
(* GetClientLayers: clients and videos are the layers that must be         *)
(* composed by the GPU and the video layers.                               *)

Mixed(n, client, device, videos) ==
    \/ \E i \in videos : InRange(i, client)
    \/ \E i \in 0 .. n - 1 : InRange(i, device) /\ InRange(i, client)

GetClientLayers(n, planes, clients, videos, area) ==
    LET client == Span(clients)
        device == Span(videos)
    IN IF videos = {} \/ Mixed(n, client, device, videos)
       THEN GetExtraClientRange(n, planes, client, area)
       ELSE GetExtraClientRange2(n, planes, client, device, area)

(* The planes a division needs: one per device layer, one for the client   *)
(* target, and a second one for each video layer on a plane.               *)
PlanesNeeded(n, r, videos) ==
    (n - r.size) + (IF r.size > 0 THEN 1 ELSE 0)
    + Cardinality({i \in videos : ~InRange(i, r)})

=============================================================================
