------------------------------ MODULE FbImporter ------------------------------
(***************************************************************************)
(* DrmFbImporter and DrmFbIdHandle (drm/DrmFbImporter.cpp, .h), the cache  *)
(* of KMS framebuffers of a DRM device, and the swap chains of the layers  *)
(* in front of it (hwc2_device/HwcLayer.cpp).                              *)
(*                                                                         *)
(* A DrmFbIdHandle is a shared object: the cache and the layers and frame  *)
(* states that use it refer to it, and the last reference to go removes    *)
(* the framebuffer and closes its GEM handles.  The kernel's GEM handle    *)
(* table (external) gives one handle per memory object and file, hands out *)
(* the same handle for every further import of an object, and reuses the   *)
(* lowest number that is free.  Everything runs under the main lock, so    *)
(* every operation is one step.                                            *)
(*                                                                         *)
(* A layer learns the order in which its buffers come back (Reassemble);   *)
(* once it has seen the first one again it keeps their framebuffers by     *)
(* position, and finds them without asking the importer.                   *)
(***************************************************************************)
EXTENDS Naturals, Sequences, FiniteSets, FiniteSetsExt, Functions

CONSTANTS
    Bufs,         \* graphic buffers the clients own
    Mem,          \* Mem[b]: the memory objects of b's planes, in order
    Layers,       \* layers of the displays, the client layer among them
    Frames,       \* frame states, which keep what they show
    Identified,   \* the buffers that GetUniqueId gives an id (dma-buf inode)
    NumHandles,   \* GEM handles are 1 .. NumHandles
    NumFbs,       \* framebuffer ids are 1 .. NumFbs
    CleanupSize,  \* minimal_cleanup_size (128 in the code)
    None          \* null pointer, free handle, free id

Holders   == Layers \cup Frames
Objects   == UNION {Range(Mem[b]) : b \in Bufs}
GemHandle == 1 .. NumHandles
FbId      == 1 .. NumFbs
DrmFbIdHandle == [buf : Bufs, handles : SUBSET GemHandle]

ASSUME ImporterAssumption ==
    /\ IsFiniteSet(Bufs) /\ IsFiniteSet(Objects)
    /\ IsFiniteSet(Layers) /\ IsFiniteSet(Frames)
    /\ \A b \in Bufs : Mem[b] \in Seq(Objects) /\ Mem[b] # <<>>
    /\ NumHandles \in Nat /\ NumHandles >= Cardinality(Objects)
    /\ NumFbs \in Nat
    /\ NumFbs > Cardinality(Holders) + (1 + Cardinality(Layers)) * Cardinality(Bufs)
    /\ Layers \cap Frames = {} /\ Identified \subseteq Bufs
    /\ CleanupSize \in Nat
    /\ None \notin Bufs \cup Objects \cup FbId \cup DrmFbIdHandle

VARIABLES
    fbs,     \* the DrmFbIdHandle with each framebuffer id, or None
    gem,     \* kernel: the memory object behind each GEM handle, or None
    cache,   \* drm_fb_id_handle_cache_: GEM handle -> framebuffer id
    holder,  \* the framebuffer each holder refers to, or None
    wanted,  \* the buffer that holder last asked for, or None
    chain,   \* [layer -> swap chain]: order is swchain_lookup_table_ (the
             \* buffers by sequence number), kept is swchain_cache_, whole
             \* is swchain_reassembled_
    failed,  \* layers with bi_get_failed_ or fb_import_failed_
    doubled  \* history: a buffer has been imported anew although a
             \* framebuffer of it that the emptied cache forgot still lived

vars == <<fbs, gem, cache, holder, wanted, chain, failed, doubled>>

(* SwChainClearCache leaves this; faulty: the cached elements stay.        *)
ClearLookupOnly(c) == [order |-> <<>>, kept |-> c.kept, whole |-> FALSE]
SwChainClearCache(c) == [order |-> <<>>, kept |-> <<>>, whole |-> FALSE]
NoChain == [order |-> <<>>, kept |-> <<>>, whole |-> FALSE]

Init ==
    /\ chain = [l \in Layers |-> NoChain]
    /\ failed = {}
    /\ doubled = FALSE
    /\ fbs = [i \in FbId |-> None]
    /\ gem = [h \in GemHandle |-> None]
    /\ cache = [h \in {} |-> None]
    /\ holder = [l \in Holders |-> None]
    /\ wanted = [l \in Holders |-> None]

-----------------------------------------------------------------------------
(* The state between the statements of an operation, as a record, and what *)
(* the statements do to it.                                                *)

State == [fbs |-> fbs, gem |-> gem, cache |-> cache, holder |-> holder,
          chain |-> chain]

Referenced(s) == Range(s.cache) \cup Range(s.holder)
                   \cup UNION {Range(s.chain[l].kept) : l \in Layers}

(* ~DrmFbIdHandle of whatever lost its last reference: RmFB, then          *)
(* GEM_CLOSE of its handles.  They form a set: the destructor skips a      *)
(* plane with the handle of the first, and where two other planes share    *)
(* one, the second close of a number just closed fails and is only logged. *)
Collect(s) ==
    LET kept   == Referenced(s)
        dead   == {i \in FbId : s.fbs[i] # None /\ i \notin kept}
        closed == UNION {s.fbs[i].handles : i \in dead}
    IN [s EXCEPT !.fbs = [i \in FbId |-> IF i \in dead THEN None ELSE @[i]],
                 !.gem = [h \in GemHandle |-> IF h \in closed THEN None ELSE @[h]]]

(* The shared_ptr of a holder is replaced.                                 *)
Assign(s, l, i) == Collect([s EXCEPT !.holder = [@ EXCEPT ![l] = i]])

(* drmPrimeFDToHandle (external): the handle of object o in a table, and   *)
(* the table with it open.                                                 *)
HandleFor(table, o) ==
    IF \E h \in GemHandle : table[h] = o
    THEN CHOOSE h \in GemHandle : table[h] = o
    ELSE Min({h \in GemHandle : table[h] = None})

PrimeFDToHandle(table, o) == [table EXCEPT ![HandleFor(table, o)] = o]

(* CleanupEmptyCacheElements: erases every element.  Faulty: it also       *)
(* closes the handles of the framebuffers it drops.                        *)
CleanupClosesHandles(s) ==
    LET closed == UNION {s.fbs[s.cache[h]].handles : h \in DOMAIN s.cache}
        t      == Collect([s EXCEPT !.cache = [h \in {} |-> None]])
    IN [t EXCEPT !.gem = [h \in GemHandle |-> IF h \in closed THEN None ELSE @[h]]]

CleanupEmptyCacheElements(s) == Collect([s EXCEPT !.cache = [h \in {} |-> None]])

CleanupCache(s) ==
    IF Cardinality(DOMAIN s.cache) > CleanupSize
    THEN CleanupEmptyCacheElements(s) ELSE s

(* CreateInstance: handles for the other planes, then ADDFB2.              *)
ImportPlanes(s, b) ==
    LET opened[k \in 0 .. Len(Mem[b])] ==
          IF k = 0 THEN s.gem ELSE PrimeFDToHandle(opened[k - 1], Mem[b][k])
    IN [s EXCEPT !.gem = opened[Len(Mem[b])]]

NewId(s) == Min({i \in FbId : s.fbs[i] = None})

CreateInstance(s, b) ==
    LET t == ImportPlanes(s, b)
    IN [t EXCEPT !.fbs = [@ EXCEPT ![NewId(t)] =
          [buf |-> b, handles |-> {h \in GemHandle : t.gem[h] \in Range(Mem[b])}]]]

(* CreateInstance fails: a later plane cannot be imported (which is only   *)
(* logged, and ADDFB2 then lacks a handle), the modifiers are not          *)
(* supported, or ADDFB2 is refused.  The new object dies with its only     *)
(* reference, and closes the handles of the objects it did import.         *)
CloseObjects(s, objects) ==
    [s EXCEPT !.gem = [h \in GemHandle |-> IF @[h] \in objects THEN None ELSE @[h]]]

Store(s) ==
    /\ fbs' = s.fbs
    /\ gem' = s.gem
    /\ cache' = s.cache
    /\ holder' = s.holder
    /\ chain' = s.chain

-----------------------------------------------------------------------------
(* The swap chain of a layer.                                              *)

SeqNo(c, b) == CHOOSE n \in DOMAIN c.order : c.order[n] = b
Tracked(c, b) == b \in Range(c.order)

(* SwChainGetBufferFromCache finds the buffer.                             *)
InSwapChain(c, b) == b \in Identified /\ Tracked(c, b) /\ SeqNo(c, b) \in DOMAIN c.kept

SwChainReassemble(c, b) ==
    CASE ~Tracked(c, b) -> [c EXCEPT !.order = Append(@, b)]
      [] Tracked(c, b) /\ SeqNo(c, b) = Len(c.order) -> c
      [] Tracked(c, b) /\ SeqNo(c, b) < Len(c.order) /\ SeqNo(c, b) = 1 ->
           [c EXCEPT !.whole = TRUE]
      [] OTHER -> SwChainClearCache(c)

SwChainAddCurrentBuffer(c, b, fb) ==
    LET d == IF c.whole THEN c ELSE SwChainReassemble(c, b)
    IN CASE ~d.whole -> d
         [] d.whole /\ ~Tracked(d, b) -> SwChainClearCache(d)
         [] d.whole /\ Tracked(d, b) ->
              [d EXCEPT !.kept = [n \in DOMAIN @ \cup {SeqNo(d, b)} |->
                                    IF n = SeqNo(d, b) THEN fb ELSE @[n]]]

(* The layer has its framebuffer; the swap chain learns of it, and what it *)
(* forgets loses a reference.                                              *)
Learns(s, l, b) ==
    IF b \notin Identified THEN s
    ELSE Collect([s EXCEPT !.chain =
           [@ EXCEPT ![l] = SwChainAddCurrentBuffer(s.chain[l], b, s.holder[l])]])

-----------------------------------------------------------------------------
(* GetOrCreateFbId as HwcLayer::ImportFb calls it for holder l, which has  *)
(* dropped its reference first.                                            *)

Released(l)  == Assign(State, l, None)
Imported(l, b) == [Released(l) EXCEPT !.gem = PrimeFDToHandle(@, Mem[b][1])]
Key(l, b)    == HandleFor(Released(l).gem, Mem[b][1])

(* The layer has a new buffer and is still usable: one failed import ends  *)
(* its use for good.  Does it go to the importer?                          *)
ImportFb(l, b) ==
    /\ l \notin failed
    /\ ~InSwapChain(chain[l], b)

(* The swap chain has it.                                                  *)
SwapChainHit(l, b) ==
    /\ l \notin failed
    /\ InSwapChain(chain[l], b)
    /\ Store(Assign(Released(l), l, chain[l].kept[SeqNo(chain[l], b)]))
    /\ wanted' = [wanted EXCEPT ![l] = b]
    /\ UNCHANGED <<failed, doubled>>

ImportHit(l, b) ==
    LET s == Imported(l, b)
        h == Key(l, b)
    IN
    /\ ImportFb(l, b)
    /\ h \in DOMAIN s.cache
    /\ Store(Learns(Assign(s, l, s.cache[h]), l, b))
    /\ wanted' = [wanted EXCEPT ![l] = b]
    /\ UNCHANGED <<failed, doubled>>

(* The cache misses.  Does a framebuffer of b live beside it?              *)
LivesBeside(l, b) ==
    LET r == Released(l) IN \E i \in FbId : r.fbs[i] # None /\ r.fbs[i].buf = b

ImportMiss(l, b) ==
    LET m == Imported(l, b)
        s == CleanupCache(m)
        t == CreateInstance(s, b)
        i == NewId(ImportPlanes(s, b))
        h == Key(l, b)
        u == [t EXCEPT !.holder = [@ EXCEPT ![l] = i],
                       !.cache = [k \in DOMAIN @ \cup {h} |-> IF k = h THEN i ELSE @[k]]]
    IN
    /\ ImportFb(l, b)
    /\ h \notin DOMAIN m.cache
    /\ Store(Learns(u, l, b))
    /\ wanted' = [wanted EXCEPT ![l] = b]
    /\ doubled' = (doubled \/ LivesBeside(l, b))
    /\ UNCHANGED failed

(* Faulty: the handles of a refused framebuffer are not closed.            *)
CreateFailsKeepsHandles(l, b) ==
    /\ ImportFb(l, b)
    /\ Key(l, b) \notin DOMAIN Imported(l, b).cache
    /\ Store(ImportPlanes(CleanupCache(Imported(l, b)), b))
    /\ wanted' = [wanted EXCEPT ![l] = None]
    /\ doubled' = (doubled \/ LivesBeside(l, b))
    /\ failed' = failed \cup {l}

CreateFails(l, b) ==
    LET m == Imported(l, b)
        s == CleanupCache(m)
    IN
    /\ ImportFb(l, b)
    /\ Key(l, b) \notin DOMAIN m.cache
    /\ \E objects \in SUBSET Range(Mem[b]) :
         /\ Mem[b][1] \in objects
         /\ Store(CloseObjects(s, objects))
    /\ wanted' = [wanted EXCEPT ![l] = None]
    /\ doubled' = (doubled \/ LivesBeside(l, b))
    /\ failed' = failed \cup {l}

(* The buffer has no information, or the prime fd cannot be imported.      *)
ImportFails(l, b) ==
    /\ ImportFb(l, b)
    /\ Store(Released(l))
    /\ wanted' = [wanted EXCEPT ![l] = None]
    /\ failed' = failed \cup {l}
    /\ UNCHANGED doubled

(* A layer is destroyed; one that takes its place begins anew.             *)
DestroyLayer(l) ==
    /\ Store(Collect([State EXCEPT !.holder = [@ EXCEPT ![l] = None],
                                !.chain = [@ EXCEPT ![l] = NoChain]]))
    /\ wanted' = [wanted EXCEPT ![l] = None]
    /\ failed' = failed \ {l}
    /\ UNCHANGED doubled

(* SetClientTarget without a buffer: the client layer forgets its chain    *)
(* but keeps the framebuffer it shows.                                     *)
ClearClientTarget(l) ==
    /\ Store(Collect([State EXCEPT !.chain = [@ EXCEPT ![l] = SwChainClearCache(chain[l])]]))
    /\ UNCHANGED <<wanted, failed, doubled>>

(* A frame is retired.                                                     *)
Release(m) ==
    /\ holder[m] # None
    /\ Store(Released(m))
    /\ wanted' = [wanted EXCEPT ![m] = None]
    /\ UNCHANGED <<failed, doubled>>

(* A frame state copies a layer's reference.                               *)
Share(l, m) ==
    /\ holder[l] # None
    /\ holder[m] = None
    /\ Store([State EXCEPT !.holder = [@ EXCEPT ![m] = holder[l]]])
    /\ wanted' = [wanted EXCEPT ![m] = wanted[l]]
    /\ UNCHANGED <<failed, doubled>>

Next ==
    \/ \E l \in Layers :
        \/ \E b \in Bufs : \/ SwapChainHit(l, b) \/ ImportHit(l, b) \/ ImportMiss(l, b)
                            \/ CreateFails(l, b) \/ ImportFails(l, b)
        \/ DestroyLayer(l) \/ ClearClientTarget(l)
        \/ \E m \in Frames : Share(l, m)
    \/ \E m \in Frames : Release(m)

Spec == Init /\ [][Next]_vars

-----------------------------------------------------------------------------
(* Properties.  An emptied cache forgets framebuffers that are in use; the *)
(* first three hold up to the moment a buffer of such a one is imported    *)
(* anew, and the last says that they hold for good, which they do not.     *)

ShowsWanted ==
    \A l \in Holders : holder[l] # None => fbs[holder[l]].buf = wanted[l]

(* The framebuffer a layer gets, from its swap chain or from the importer, *)
(* shows the buffer it asked for ("First handle serves as a cache key"),   *)
(* in whatever order buffers come, are refused, layers go, and the cache   *)
(* is emptied under the framebuffers in use.                               *)
FbShowsWantedBuffer == ~doubled => ShowsWanted

(* A GEM handle is open as long as a framebuffer that would close it       *)
(* lives, and stands for that framebuffer's memory: neither the emptying   *)
(* of the cache nor the end or the refusal of another framebuffer closes a *)
(* handle somebody still owns.                                             *)
HandlesOfLiveFbsOpen ==
    ~doubled => \A i \in FbId : fbs[i] # None =>
        {gem[h] : h \in fbs[i].handles} = Range(Mem[fbs[i].buf])

(* No GEM handle leaks: an open handle belongs to a live framebuffer, also *)
(* when an import ends after only some of the planes.                      *)
NoHandleLeak ==
    ~doubled => \A h \in GemHandle : gem[h] # None =>
        \E i \in FbId : fbs[i] # None /\ h \in fbs[i].handles

(* The claim of "First handle serves as a cache key", without a condition. *)
FbAlwaysShowsWanted == ShowsWanted

=============================================================================
