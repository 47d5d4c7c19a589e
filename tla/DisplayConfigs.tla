---------------------------- MODULE DisplayConfigs ----------------------------
(* The configurations of displays: DrmConnector::UpdateModes chooses modes,    *)
(* HwcDisplayConfigs::Update groups and numbers them, and HwcDisplay stages a   *)
(* chosen one until a commit puts it on the screen.                             *)
(*                                                                              *)
(* A mode is a record: res names its resolution, hz its refresh rate in tenths  *)
(* of a hertz, kind its flags, preferred its type.  Every action is one call    *)
(* under the main lock.  Of the time at which a staged mode may be committed    *)
(* only whether it has come is kept.                                            *)
EXTENDS Integers, Sequences, FiniteSets

CONSTANTS
  Displays,     \* handles
  Primary,      \* kPrimaryDisplay, which goes headless instead of away
  ModeLists,    \* lists of modes the kernel may report for a monitor
  Settings,     \* [limit, index]: vendor.hwcomposer.preferred.mode.limit and, when
                \* connector.id names the connector, mode.id (0 when it does not)
  MaxConfigId,  \* bound: numbers handed out
  None

HeadlessMode == [res |-> "headless", hz |-> 600, kind |-> "progressive", preferred |-> FALSE]

IsMode(m) ==
  /\ m # None
  /\ m.hz \in Int /\ m.kind \in {"progressive", "interlaced", "3d"}

\* The kernel sorts preferred modes to the front of its list; a mode with a 3D flag it
\* does not prefer, and lists only behind a mode of the same resolution without one (and
\* only to clients that ask for such modes, which DrmDevice does not).
ASSUME KernelOrder ==
  \A ms \in ModeLists :
    /\ Len(ms) \in Nat /\ DOMAIN ms = 1..Len(ms)
    /\ \A i \in DOMAIN ms : IsMode(ms[i])
    /\ \A i, j \in DOMAIN ms : i < j /\ ms[j].preferred => ms[i].preferred
    /\ \A i \in DOMAIN ms : ms[i].kind = "3d" =>
         /\ ~ms[i].preferred
         /\ \E j \in 1..i-1 : ms[j].res = ms[i].res /\ ms[j].kind # "3d"
ASSUME PrimaryAssumption ==
  Primary \in Displays /\ MaxConfigId \in Nat /\ None # HeadlessMode

VARIABLES
  setting,   \* the properties, read again on every update and never changed
  last,      \* HwcDisplayConfigs::last_config_id
  pipe,      \* [display -> "pipe", "headless" or None]  (pipeline_ and existence)
  configs,   \* [display -> hwc_configs]
  active,    \* [display -> active_config_id]
  preferred, \* [display -> preferred_config_id]
  staged,    \* [display -> staged_mode_]
  stagedId,  \* [display -> staged_mode_config_id_]
  due,       \* [display -> staged_mode_change_time_ has come]
  screen,    \* [display -> active_mode_ of its connector]
  told       \* history: [display -> what its client was told the numbers mean]

vars == <<setting, last, pipe, configs, active, preferred, staged, stagedId, due, screen,
          told>>

Init ==
  /\ setting \in Settings
  /\ last = 1
  /\ pipe = [d \in Displays |-> None]
  /\ configs = [d \in Displays |-> <<>>]
  /\ active = [d \in Displays |-> 0]
  /\ preferred = [d \in Displays |-> 0]
  /\ staged = [d \in Displays |-> None]
  /\ stagedId = [d \in Displays |-> 0]
  /\ due = [d \in Displays |-> FALSE]
  /\ screen = [d \in Displays |-> None]
  /\ told = [d \in Displays |-> <<>>]

-------------------------------------------------------------------------------
(* DrmConnector::UpdateModes *)

\* The modes the properties let through: the one mode.id names, or the preferred
\* ones (the first, when none is), or all.
Chosen(ms, i) ==
  IF setting.index \in DOMAIN ms THEN i = setting.index
  ELSE setting.limit =>
         IF \E j \in DOMAIN ms : ms[j].preferred THEN ms[i].preferred ELSE i = 1

\* The modes of the given indices, in their order.
Pick(ms, indices) ==
  [n \in 1..Cardinality(indices) |->
     ms[CHOOSE i \in indices : Cardinality({j \in indices : j < i}) = n - 1]]

\* A single mode brings all modes of its resolution along
\* (UpdateMultiRefreshRateModes).
UpdateModes(ms) ==
  LET chosen == Pick(ms, {i \in DOMAIN ms : Chosen(ms, i)})
  IN IF Len(chosen) = 1 THEN Pick(ms, {i \in DOMAIN ms : ms[i].res = chosen[1].res})
     ELSE chosen

-------------------------------------------------------------------------------
(* HwcDisplayConfigs::Update *)

\* Faulty: progressive modes are kept whatever is preferred.
KeepsInterlacedNever(ms, i) == FALSE

\* Number of the group of mode i: groups are numbered as their resolutions come.
Group(ms, i) ==
  LET first == CHOOSE k \in 1..i : /\ ms[k].res = ms[i].res
                                   /\ \A j \in 1..k-1 : ms[j].res # ms[i].res
  IN Cardinality({ms[j].res : j \in 1..first})

PreferredIndex(ms) ==
  IF \E i \in DOMAIN ms : ms[i].preferred
  THEN CHOOSE i \in DOMAIN ms : ms[i].preferred /\ \A j \in 1..i-1 : ~ms[j].preferred
  ELSE 1

\* Modes with a 3D flag are not supported.
Supported(ms, i) == ms[i].kind # "3d"

\* The kind of modes a group keeps when it has both: that of the preferred mode
\* if it is interlaced and of this group, else progressive.
KeepsInterlaced(ms, i) ==
  LET p == PreferredIndex(ms)
  IN ms[p].res = ms[i].res /\ ms[p].kind = "interlaced"
OfGroupsKind(ms, i) ==
  LET kinds == {ms[j].kind : j \in {k \in DOMAIN ms : ms[k].res = ms[i].res /\ Supported(ms, k)}}
  IN {"interlaced", "progressive"} \subseteq kinds
       => (ms[i].kind = "interlaced" <=> KeepsInterlaced(ms, i))

\* Faulty: rates are compared as rounded numbers.
CloseRounded(ms, i, j) == ms[i].res = ms[j].res /\ ms[i].hz \div 10 = ms[j].hz \div 10
Close(ms, i, j) == ms[i].res = ms[j].res /\ ms[i].hz - ms[j].hz \in -9..9

\* A mode that is still enabled when its turn comes disables the other enabled
\* ones of its group whose rate is less than one hertz away.
Enabled(ms) ==
  LET kept[i \in 1..Len(ms)] ==
        /\ Supported(ms, i)
        /\ OfGroupsKind(ms, i)
        /\ \A j \in 1..i-1 : kept[j] => ~Close(ms, j, i)
  IN kept

\* The map of configurations, numbered from first on.
NewConfigs(ms, first) ==
  [id \in first..first+Len(ms)-1 |->
     LET i == id - first + 1
     IN [mode |-> ms[i], group |-> Group(ms, i), disabled |-> ~Enabled(ms)[i]]]

-------------------------------------------------------------------------------
(* HwcDisplay *)

Listed(d) == {id \in DOMAIN configs[d] : ~configs[d][id].disabled}

\* GetDisplayConfigs and GetDisplayAttribute, which a client may call as soon as
\* there are new configurations, and remember for as long as it likes.
Tell(d, cs) ==
  LET shown == {id \in DOMAIN cs : ~cs[id].disabled}
  IN told' = [told EXCEPT ![d] =
       [id \in DOMAIN @ \cup shown |-> IF id \in shown THEN cs[id].mode ELSE @[id]]]

SetConfigs(d, cs, act, pref) ==
  /\ configs' = [configs EXCEPT ![d] = cs]
  /\ active' = [active EXCEPT ![d] = act]
  /\ preferred' = [preferred EXCEPT ![d] = pref]
  /\ Tell(d, cs)

Stage(d, id, mode, now) ==
  /\ staged' = [staged EXCEPT ![d] = mode]
  /\ stagedId' = [stagedId EXCEPT ![d] = id]
  /\ due' = [due EXCEPT ![d] = now]

Headless(id) == [i \in {id} |-> [mode |-> HeadlessMode, group |-> 1, disabled |-> FALSE]]

\* Faulty: a display counts its configurations from one.
ChosePreferredConfigLocal(d, ms) ==
  LET cs == NewConfigs(ms, 2)
      pref == 1 + PreferredIndex(ms)
  IN /\ ms # <<>>
     /\ UNCHANGED last
     /\ SetConfigs(d, cs, 2, pref)
     /\ Stage(d, pref, cs[pref].mode, TRUE)

\* FillHeadless, and ChosePreferredConfig of a display without a pipeline.
ChoseHeadless(d) ==
  /\ last < MaxConfigId
  /\ last' = last + 1
  /\ SetConfigs(d, Headless(last + 1), last + 1, last + 1)
  /\ Stage(d, last + 1, HeadlessMode, TRUE)

\* Update and ChosePreferredConfig.  The number FillHeadless took is the number
\* of the first mode, and the active one until a commit.  Without modes the
\* headless configuration stays and nothing new is staged.
ChosePreferredConfig(d, ms) ==
  LET first == last + 1
      cs == NewConfigs(ms, first)
      pref == first + PreferredIndex(ms) - 1
  IN /\ first + Len(ms) <= MaxConfigId
     /\ IF ms = <<>>
        THEN /\ last' = first
             /\ SetConfigs(d, Headless(first), first, first)
             /\ UNCHANGED <<staged, stagedId, due>>
        ELSE /\ last' = first + Len(ms)
             /\ SetConfigs(d, cs, first, pref)
             /\ Stage(d, pref, cs[pref].mode, TRUE)

\* SetPipeline(pipeline): a monitor with these modes is plugged in.
Attach(d) ==
  /\ pipe[d] # "pipe"
  /\ \E ms \in ModeLists \cup {<<>>} : ChosePreferredConfig(d, UpdateModes(ms))
  /\ pipe' = [pipe EXCEPT ![d] = "pipe"]
  /\ UNCHANGED <<setting, screen>>

\* SetPipeline(nullptr): the primary display becomes headless, another one is
\* disposed of (and begins anew when it comes back).
Detach(d) ==
  /\ pipe[d] = "pipe"
  /\ \/ /\ d = Primary
        /\ ChoseHeadless(d)
        /\ pipe' = [pipe EXCEPT ![d] = "headless"]
     \/ /\ d # Primary
        /\ pipe' = [pipe EXCEPT ![d] = None]
        /\ SetConfigs(d, <<>>, 0, 0)
        /\ Stage(d, 0, None, FALSE)
        /\ UNCHANGED last
  /\ UNCHANGED <<setting, screen>>

\* The handler of a bad link; its two calls of SetPowerMode set DPMS only.  The
\* connector may report no modes any more, or its modes may not be read.
LinkBad(d) ==
  /\ pipe[d] = "pipe"
  /\ \E ms \in ModeLists \cup {<<>>} : ChosePreferredConfig(d, UpdateModes(ms))
  /\ UNCHANGED <<setting, pipe, screen>>

\* SetActiveConfig and SetActiveConfigWithConstraints, for any number the client
\* was ever told (those the display has no more are refused); a later time than
\* now only with constraints.
SetActiveConfig(d) ==
  /\ pipe[d] # None
  /\ \E id \in DOMAIN told[d] \cap DOMAIN configs[d], now \in BOOLEAN :
       Stage(d, id, configs[d][id].mode, now)
  /\ UNCHANGED <<setting, last, pipe, configs, active, preferred, screen, told>>

TimePasses(d) ==
  /\ ~due[d]
  /\ due' = [due EXCEPT ![d] = TRUE]
  /\ UNCHANGED <<setting, last, pipe, configs, active, preferred, staged, stagedId,
                 screen, told>>

\* Faulty: a tested mode change counts as done.
CreateCompositionOnce(d, test, ok) ==
  LET change == staged[d] # None /\ due[d]
  IN /\ active' = IF change THEN [active EXCEPT ![d] = stagedId[d]] ELSE active
     /\ screen' = IF change /\ ok /\ ~test THEN [screen EXCEPT ![d] = staged[d]] ELSE screen
     /\ staged' = IF change /\ ok THEN [staged EXCEPT ![d] = None] ELSE staged

\* CreateComposition makes a staged mode whose time has come the active one, also
\* for a test; a real commit that succeeds puts it on the screen.  The kernel
\* refuses the headless mode, which has no clock.
CreateComposition(d, test, ok) ==
  LET change == staged[d] # None /\ due[d]
      done == change /\ ~test /\ ok
  IN /\ ok => ~(change /\ staged[d] = HeadlessMode)
     /\ active' = IF change THEN [active EXCEPT ![d] = stagedId[d]] ELSE active
     /\ screen' = IF done THEN [screen EXCEPT ![d] = staged[d]] ELSE screen
     /\ staged' = IF done THEN [staged EXCEPT ![d] = None] ELSE staged

Frame(d) ==
  /\ pipe[d] = "pipe"
  /\ \E test, ok \in BOOLEAN : CreateComposition(d, test, ok)
  /\ UNCHANGED <<setting, last, pipe, configs, preferred, stagedId, due, told>>

Next == \E d \in Displays :
  \/ Attach(d) \/ Detach(d) \/ LinkBad(d)
  \/ SetActiveConfig(d) \/ TimePasses(d) \/ Frame(d)

Spec == Init /\ [][Next]_vars

-------------------------------------------------------------------------------
(* Properties *)

\* What HwcDisplayConfigs::Update promises of its result: groups are the modes of
\* one resolution; the enabled modes of a group are all interlaced or all
\* progressive and differ by a hertz; no group with a supported mode is left
\* empty; and the preferred configuration, which ChosePreferredConfig stages, is
\* not among the disabled ones.
ConfigsSound ==
  \A d \in Displays : configs[d] # <<>> =>
    LET cs == configs[d]
        Same(i, j) == cs[i].group = cs[j].group
    IN /\ preferred[d] \in Listed(d)
       /\ \A i, j \in DOMAIN cs : Same(i, j) <=> cs[i].mode.res = cs[j].mode.res
       /\ \A i, j \in Listed(d) : i # j /\ Same(i, j) =>
            /\ cs[i].mode.kind = cs[j].mode.kind
            /\ cs[i].mode.hz - cs[j].mode.hz \notin -9..9
       /\ \A i \in DOMAIN cs : cs[i].mode.kind # "3d" => \E j \in Listed(d) : Same(i, j)

\* A number keeps its meaning: whatever hotplugs and retrained links came between
\* GetDisplayConfigs and SetActiveConfig, an accepted request stages the mode the
\* client saw under that number.  This is why last_config_id is static.
NumbersKeepMeaning ==
  \A d \in Displays : \A id \in DOMAIN told[d] \cap DOMAIN configs[d] :
    told[d][id] = configs[d][id].mode

\* What GetActiveConfig answers is one of the configurations GetDisplayConfigs
\* lists.
ActiveConfigListed ==
  \A d \in Displays : stagedId[d] \in DOMAIN configs[d] => stagedId[d] \in Listed(d)

\* When no mode change is pending, the configuration whose vsync period is
\* reported is the mode that is on the screen, also after refused and tested
\* commits.
ReportedModeShown ==
  \A d \in Displays :
    /\ pipe[d] = "pipe" /\ staged[d] = None
    /\ active[d] \in DOMAIN configs[d]
    /\ configs[d][active[d]].mode # HeadlessMode
    => configs[d][active[d]].mode = screen[d]

\* "In case UpdateModes will fail we will still have one mode for headless mode":
\* a display always has an active configuration.
ActiveConfigKnown ==
  \A d \in Displays : pipe[d] # None => stagedId[d] \in DOMAIN configs[d]

===============================================================================
