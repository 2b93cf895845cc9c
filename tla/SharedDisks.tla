---------------------------- MODULE SharedDisks ----------------------------
(***************************************************************************)
(* The shared disks of a YAC cluster, from what the hosts see to what      *)
(* yasboot overwrites: B-021..B-031 of internal/steps/os, the discovery of *)
(* C-001 (--skip-os), C-012 and the disks of C-014/C-022, over several     *)
(* runs that may fail, be interrupted, or be followed by a reboot.         *)
(*                                                                         *)
(* A host sees a LUN under one device name, under several (paths) or not   *)
(* at all, and the names of two hosts need not agree.  A disk is named by  *)
(* its device ("dev"), a multipath alias ("mapper") or an alias below      *)
(* /dev/yfs ("yfs").  multipathd and udev are not in the repository: they  *)
(* are modelled as the steps expect them to behave.                        *)
(***************************************************************************)
EXTENDS Naturals, Sequences, FiniteSets, SequencesExt, FiniteSetsExt, Functions, TLC

CONSTANTS HostList,              \* the targets in order
          Luns, Size,            \* the disks, and their sizes
          SystemdgMax,           \* --yac-systemdg-size-max
          Layouts,               \* what the hosts may see
          Options,               \* the command lines to check
          Runs                   \* bound on the runs of the command

Hosts == ToSet(HostList)
FirstHost == HostList[1]

(* dev[h]: device name -> LUN; busy: mounted or partitioned somewhere;     *)
(* reliable: WWIDs differ; nvme: names are /dev/nvme*; native[h]:          *)
(* nvme_core.multipath=Y.                                                  *)
IsLayout(l) ==
    /\ DOMAIN l = {"dev", "busy", "reliable", "nvme", "native"}
    /\ \A h \in Hosts : Range(l.dev[h]) \subseteq Luns /\ IsFiniteSet(DOMAIN l.dev[h])
    /\ l.busy \subseteq Luns
    /\ {l.reliable, l.nvme} \subseteq BOOLEAN /\ l.native \in [Hosts -> BOOLEAN]

Parts == {"sys", "data", "arch"}
NoGroups == [p \in Parts |-> <<>>]

(* groups: --yac-systemdg, -datadg, -archdg, as disk names; arch is        *)
(* --yac-archdg-enable, force -F for every step.                           *)
IsGroups(g) ==
    /\ g = [p \in Parts |-> g[p]]
    /\ \A p \in Parts : /\ g[p] \in Seq(Range(g[p]))
                       /\ \A d \in Range(g[p]) : d.in \in {"dev", "mapper", "yfs"}
IsOption(o) == /\ DOMAIN o = {"groups", "skipOS", "force", "arch"} /\ IsGroups(o.groups)
               /\ {o.skipOS, o.force, o.arch} \subseteq BOOLEAN

ASSUME HostsAssumption == HostList \in Seq(Hosts) /\ HostList # <<>> /\ IsInjective(HostList)
ASSUME SizeAssumption == Size \in [Luns -> Nat]
ASSUME LayoutsAssumption == \A l \in Layouts : IsLayout(l)
ASSUME OptionsAssumption == \A o \in Options : IsOption(o)
ASSUME RunsAssumption == Runs \in Nat \ {0}

VARIABLES lay,                   \* what the hosts see, one of Layouts
          conf,                  \* /etc/multipath.conf: alias -> LUN, per host
          daemon,                \* hosts where multipathd runs
          maps,                  \* the live multipath maps: alias -> LUN
          rules,                 \* the udev rules file: yfs alias -> match
          links,                 \* the live /dev/yfs: yfs alias -> LUN
          groups,                \* the shared params yac_{system,data,arch}dg
          policy,                \* yac_need_multipath, yac_udev_use_id_wwn
          changed,               \* yac_udev_changed in the host's Results
          asked,                 \* the LUNs the run is meant to use
          opt, run,              \* options and number of the run
          step, turn,            \* its position: the step, and on which host
          disturbed,             \* a step failed for a reason of its own
          exitStatus

host == <<conf, daemon, maps, rules, links>>
disksVars == <<lay, host, groups, policy, changed, asked, opt, run, step, turn, disturbed, exitStatus>>

-----------------------------------------------------------------------------
(* Names. *)

Nothing == [p \in {} |-> p]
Dev(n) == [in |-> "dev", id |-> n]
Mapper(a) == [in |-> "mapper", id |-> a]
Yfs(a) == [in |-> "yfs", id |-> a]

View(h, where) == CASE where = "dev" -> lay.dev[h]
                    [] where = "mapper" -> maps[h]
                    [] where = "yfs" -> links[h]
Exists(h, d) == d.id \in DOMAIN View(h, d.in)
Lun(h, d) == View(h, d.in)[d.id]

(* The i-th disk of a group has alias <<group, i>>: sys1, data1, arch1.    *)
DiskSlots(g) == UNION {{<<p, i>> : i \in DOMAIN g[p]} : p \in Parts}
DiskAt(g, s) == g[s[1]][s[2]]
Disks(g) == {DiskAt(g, s) : s \in DiskSlots(g)}
Aliased(g) == {s \in DiskSlots(g) : s[1] = "arch" => g["arch"] # g["data"]}
Multipath(d) == d.in = "mapper"

(* GetDiskWWID: two disks with equal WWIDs are one disk to the steps.      *)
WWID(l) == IF lay.reliable THEN l ELSE "same"

(* diskStorageFlags, for the raw disks of a host and for multipath ones.   *)
RealDM == [need |-> FALSE, wwn |-> FALSE]
Kind(h, d) ==
    LET native == d.in = "dev" /\ lay.nvme /\ lay.native[h]
    IN  IF Multipath(d) THEN RealDM ELSE [need |-> ~native, wwn |-> native]
-----------------------------------------------------------------------------
(* B-021: automatic discovery, on all hosts at once. *)

(* scanDisksOnNode: unmounted, unpartitioned, with a WWID. *)
Scanned(h) == {n \in DOMAIN lay.dev[h] : lay.dev[h][n] \notin lay.busy}

(* matchByWWID: a WWID that all hosts see, but not once each, makes all    *)
(* WWIDs unreliable.  The name taken is that of the host that the          *)
(* iteration over a map happens to yield first.                            *)
NamesOf(h, w) == {n \in Scanned(h) : WWID(lay.dev[h][n]) = w}
SizesOf(w) == UNION {{Size[lay.dev[h][n]] : n \in NamesOf(h, w)} : h \in Hosts}
SeenByAll == {w \in {WWID(l) : l \in Luns} : \A h \in Hosts : NamesOf(h, w) # {}}
ByWWID(h) ==
    IF \A w \in SeenByAll : \A g \in Hosts : Cardinality(NamesOf(g, w)) = 1
    THEN UNION {NamesOf(h, w) : w \in {v \in SeenByAll : Cardinality(SizesOf(v)) = 1}}
    ELSE {}

(* matchByPathAndSize: one name on all hosts, with disks of one size.      *)
ByPathAndSize ==
    {n \in Scanned(FirstHost) :
        \A h \in Hosts : /\ n \in Scanned(h)
                         /\ Size[lay.dev[h][n]] = Size[lay.dev[FirstHost][n]]}

(* matchSharedDisks: the host whose names are used, and the names.         *)
Matches ==
    LET wwid == {<<h, ByWWID(h)>> : h \in Hosts}
    IN  IF \E m \in wwid : m[2] # {} THEN wwid ELSE {<<FirstHost, ByPathAndSize>>}

(* Disks of one size stay in the order that sort.Slice left them in.       *)
Orders(names, n) == {f \in [1..n -> names] : IsInjective(f)}

(* sameSizeTolerance: the disks of one size.                               *)
SizesAt(h, names) == {Size[lay.dev[h][n]] : n \in names}
OfSize(h, names, z) == {n \in names : Size[lay.dev[h][n]] = z}
BestValidCountAny(n) == n                \* mutant: any number of system disks
BestValidCount(n) == CASE n >= 5 -> 5 [] n \in 3..4 -> 3 [] n \in 1..2 -> 1 [] OTHER -> 0

(* classifyDisksBySize, first half: of the sizes below the limit the one   *)
(* that gives most system disks, the smaller one if two give as many.      *)
SystemDisks(h, names) ==
    LET below == {z \in SizesAt(h, names) : z < SystemdgMax}
        count(z) == BestValidCount(Cardinality(OfSize(h, names, z)))
        best == {z \in below : \A y \in below : count(y) < count(z) \/ (count(y) = count(z) /\ z <= y)}
    IN  IF below = {} THEN {<<>>}
        ELSE UNION {Orders(OfSize(h, names, z), count(z)) : z \in best}

(* Second half: the data pool is the largest set of one size among the     *)
(* rest; --yac-archdg-enable splits one disk off, an odd one if possible.  *)
DataPool(h, rest) ==
    LET count(z) == Cardinality(OfSize(h, rest, z))
    IN  {n \in rest : \A y \in SizesAt(h, rest) :
            LET z == Size[lay.dev[h][n]]
            IN  count(y) < count(z) \/ (count(y) = count(z) /\ y <= z)}

DataAndArch(h, rest, arch) ==
    LET pool == DataPool(h, rest)
        odd == rest \ pool
        spare == IF odd = {} THEN pool
                 ELSE {n \in odd : \A y \in SizesAt(h, odd) : y <= Size[lay.dev[h][n]]}
        all(names) == Orders(names, Cardinality(names))
    IN  IF ~arch \/ Cardinality(pool) <= 1
        THEN {[data |-> d, arch |-> <<>>] : d \in all(pool)}
        ELSE UNION {{[data |-> d, arch |-> <<a>>] : d \in all(pool \ {a})} : a \in spare}

Named(t) == [i \in DOMAIN t |-> Dev(t[i])]
Classified(h, names, arch) ==
    UNION {{[sys |-> Named(sys), data |-> Named(dg.data), arch |-> Named(dg.arch)] :
                dg \in DataAndArch(h, names \ Range(sys), arch)} :
           sys \in SystemDisks(h, names)}
-----------------------------------------------------------------------------
(* multipathd and udev (external). *)

(* One map per WWID that multipathd finds unused, under an alias of the    *)
(* configuration if there is one (if several, one of them), else under a   *)
(* name of its own; it leaves native NVMe alone.                           *)
Mappable(h) == IF lay.nvme /\ lay.native[h] THEN {} ELSE Range(lay.dev[h]) \ lay.busy
AliasesFor(h, l) ==
    LET named == {a \in DOMAIN conf[h] : conf[h][a] = WWID(l)}
    IN  IF named = {} THEN {<<"mpath", l>>} ELSE named
LiveMaps(h) ==
    LET ways == {c \in [Mappable(h) -> UNION {AliasesFor(h, l) : l \in Mappable(h)}] :
                    \A l \in Mappable(h) : c[l] \in AliasesFor(h, l)}
    IN  {[a \in Range(c) |-> CHOOSE l \in Mappable(h) : c[l] = a] : c \in ways}

(* The disks that a rule matches; udev links one of them.                  *)
Matching(h, m, rule) ==
    CASE rule.by = "dm" -> IF rule.key \in DOMAIN m THEN {m[rule.key]} ELSE {}
      [] rule.by = "wwn" -> {l \in Range(lay.dev[h]) : WWID(l) = rule.key}
      [] rule.by = "kernel" -> IF rule.key \in DOMAIN lay.dev[h] THEN {lay.dev[h][rule.key]} ELSE {}
LiveLinks(h, m) ==
    LET live == {a \in DOMAIN rules[h] : Matching(h, m, rules[h][a]) # {}}
    IN  {f \in [live -> Luns] : \A a \in live : f[a] \in Matching(h, m, rules[h][a])}
-----------------------------------------------------------------------------
(* The run. *)

(* Phase 2 on one host after the other, or C-001, then phase 4.            *)
Following ==
    [discover |-> "validate", validate |-> "wwid", wwid |-> "conf", conf |-> "multipathd",
     multipathd |-> "lookMaps", lookMaps |-> "rules", rules |-> "trigger",
     trigger |-> "lookLinks", aliases |-> "check", check |-> "deploy"]
Running == exitStatus = "none"
Here(s) == Running /\ step = s
h0 == HostList[turn]

DisksInit ==
    /\ lay \in Layouts
    /\ conf = [h \in Hosts |-> Nothing] /\ daemon = {} /\ maps = conf
    /\ rules = conf /\ links = conf
    /\ groups = NoGroups /\ policy = RealDM /\ changed = FALSE /\ asked = Nothing
    /\ opt \in Options /\ run = 0 /\ step = "discover" /\ turn = 1 /\ disturbed = FALSE /\ exitStatus = "ok"

Meant(h, g) == [s \in {t \in DiskSlots(g) : Exists(h, DiskAt(g, t))} |-> Lun(h, DiskAt(g, s))]

Start ==
    /\ ~Running /\ run < Runs
    /\ run' = run + 1 /\ opt' \in Options /\ exitStatus' = "none"
    /\ step' = (IF opt'.skipOS THEN "aliases" ELSE "discover") /\ turn' = 1
    /\ groups' = opt'.groups /\ asked' = Meant(FirstHost, opt'.groups)
    /\ policy' = RealDM /\ changed' = FALSE /\ disturbed' = FALSE
    /\ UNCHANGED <<lay, host>>

Pass ==
    \/ /\ step \in DOMAIN Following
       /\ step' = Following[step] /\ UNCHANGED <<turn, exitStatus>>
    \/ /\ step = "lookLinks" /\ turn < Len(HostList)
       /\ step' = "validate" /\ turn' = turn + 1 /\ UNCHANGED exitStatus
    \/ /\ step = "lookLinks" /\ turn = Len(HostList)
       /\ step' = "check" /\ UNCHANGED <<turn, exitStatus>>
    \/ step = "deploy" /\ exitStatus' = "ok" /\ UNCHANGED <<step, turn>>
Refuse == exitStatus' = "error" /\ UNCHANGED <<step, turn>>
Frame == <<lay, opt, run, disturbed>>
Params == <<groups, policy, changed, asked>>

(* A group given on the command line, or a single host, skips B-021.       *)
Discover ==
    /\ Here("discover")
    /\ IF groups # NoGroups \/ Len(HostList) < 2
       THEN Pass /\ UNCHANGED <<groups, asked>>
       ELSE \E m \in Matches : \E g \in Classified(m[1], m[2], opt.arch) :
               IF g["sys"] = <<>> \/ g["data"] = <<>>
               THEN Refuse /\ UNCHANGED <<groups, asked>>
               ELSE Pass /\ groups' = g /\ asked' = Meant(m[1], g)
    /\ UNCHANGED <<Frame, host, policy, changed>>

(* C-001 with --skip-os: the aliases below /dev/yfs, or the multipath ones *)
(* if there are none, must be the same on all hosts.                       *)
Layout(h) ==
    LET of(where) == {a \in DOMAIN View(h, where) : a[1] \in {"sys", "data"}}
        in == IF of("yfs") # {} THEN "yfs" ELSE "mapper"
    IN  [in |-> in, aliases |-> {a \in DOMAIN View(h, in) : a[1] \in Parts}]
Ordered(p, ids, in) ==
    LET nums == SetToSortSeq({a[2] : a \in {b \in ids : b[1] = p}}, <)
    IN  [i \in DOMAIN nums |-> [in |-> in, id |-> <<p, nums[i]>>]]

DiscoverAliases ==
    /\ Here("aliases")
    /\ LET ref == Layout(FirstHost)
           g == [p \in Parts |->
                    IF p = "arch" /\ ~opt.arch THEN <<>> ELSE Ordered(p, ref.aliases, ref.in)]
       IN  IF groups # NoGroups THEN Pass /\ UNCHANGED <<groups, asked>>
           ELSE IF /\ \A h \in Hosts : Layout(h).aliases = ref.aliases
                   /\ Len(g["sys"]) \in {1, 3, 5} /\ g["data"] # <<>>
                   /\ \A h \in Hosts, d \in Disks(g) : Exists(h, d)
                THEN Pass /\ groups' = g /\ asked' = Meant(FirstHost, g)
                ELSE Refuse /\ UNCHANGED <<groups, asked>>
    /\ UNCHANGED <<Frame, host, policy, changed>>
-----------------------------------------------------------------------------
(* B-022..B-031 on the host of the call. *)

(* B-022 is Optional: a disk that the host does not have makes it skip,    *)
(* and the policy of an earlier host, or none, stays in the params.        *)
Validate ==
    /\ Here("validate")
    /\ LET kinds == {Kind(h0, d) : d \in Disks(groups)}
       IN  IF \/ groups["sys"] = <<>> \/ groups["data"] = <<>>
              \/ \E d \in Disks(groups) : ~Exists(h0, d)
           THEN Pass /\ UNCHANGED policy
           ELSE IF \E p, q \in kinds : p # q THEN Refuse /\ UNCHANGED policy
           ELSE Pass /\ \E p \in kinds : policy' = p
    /\ UNCHANGED <<Frame, host, groups, changed, asked>>

Raw == {d \in Disks(groups) : ~Multipath(d)}

(* B-025 asks for the WWID of every disk that is not a multipath device.   *)
CollectWwid ==
    /\ Here("wwid")
    /\ IF \A d \in Raw : Exists(h0, d) THEN Pass ELSE Refuse
    /\ UNCHANGED <<Frame, host, Params>>

(* B-026: the entries are for the raw disks, by their WWIDs on this host.  *)
Entries ==
    [s \in {t \in Aliased(groups) : ~Multipath(DiskAt(groups, t))} |->
        WWID(Lun(h0, DiskAt(groups, s)))]

WriteConf ==
    /\ Here("conf")
    /\ IF conf[h0] # Nothing /\ ~policy.need THEN Pass /\ UNCHANGED conf
       ELSE IF \E d \in Disks(groups) : ~Exists(h0, d) THEN Refuse /\ UNCHANGED conf
       ELSE Pass /\ conf' = [conf EXCEPT ![h0] = Entries]
    /\ UNCHANGED <<Frame, daemon, maps, rules, links, Params>>

Restarted(h) ==
    /\ daemon' = daemon \cup {h}
    /\ \E m \in LiveMaps(h) :
          /\ maps' = [maps EXCEPT ![h] = m]
          /\ \E f \in LiveLinks(h, m) : links' = [links EXCEPT ![h] = f]

(* B-027: a multipathd that runs is left alone, whatever B-026 has written.*)

EnableMultipathd ==
    /\ Here("multipathd")
    /\ IF h0 \in daemon /\ ~opt.force THEN UNCHANGED <<daemon, maps, links>> ELSE Restarted(h0)
    /\ Pass
    /\ UNCHANGED <<Frame, conf, rules, Params>>

(* Interrupted, or failing, between the stop and the restart.              *)
MultipathdStopped ==
    /\ Here("multipathd") /\ (h0 \notin daemon \/ opt.force)
    /\ daemon' = daemon \ {h0} /\ maps' = [maps EXCEPT ![h0] = Nothing]
    /\ \E f \in LiveLinks(h0, Nothing) : links' = [links EXCEPT ![h0] = f]
    /\ Refuse /\ disturbed' = TRUE
    /\ UNCHANGED <<lay, opt, run, conf, rules, Params>>

(* B-029: by WWN, by multipath name, or by kernel name, as the policy says.*)
RuleFor(s) ==
    LET d == DiskAt(groups, s)
    IN  IF policy.wwn THEN [by |-> "wwn", key |-> WWID(Lun(h0, d))]
        ELSE IF Multipath(d) THEN [by |-> "dm", key |-> d.id]
        ELSE IF policy.need THEN [by |-> "dm", key |-> s]
        ELSE [by |-> "kernel", key |-> d.id]

WriteRules ==
    /\ Here("rules")
    /\ IF policy.wwn /\ \E d \in Disks(groups) : ~Exists(h0, d)
       THEN Refuse /\ UNCHANGED <<rules, changed>>
       ELSE LET new == [s \in Aliased(groups) |-> RuleFor(s)]
            IN  /\ changed' = (opt.force \/ rules[h0] # new)
                /\ rules' = [rules EXCEPT ![h0] = new]
                /\ Pass
    /\ UNCHANGED <<Frame, conf, daemon, maps, links, groups, policy, asked>>

TriggerUdev ==
    /\ Here("trigger")
    /\ IF changed \/ opt.force
       THEN \E f \in LiveLinks(h0, maps[h0]) : links' = [links EXCEPT ![h0] = f]
       ELSE UNCHANGED links
    /\ Pass
    /\ UNCHANGED <<Frame, conf, daemon, maps, rules, Params>>

(* B-028 and B-031 show multipath -ll and the devices. *)
Look == (Here("lookMaps") \/ Here("lookLinks")) /\ Pass /\ UNCHANGED <<Frame, host, Params>>
-----------------------------------------------------------------------------
(* C-012, on all hosts. *)

(* The multipath device of a disk: that of its WWID on this host.          *)
MapsOf(h, d) ==
    IF Multipath(d) THEN {d}
    ELSE {Mapper(a) : a \in {b \in DOMAIN maps[h] :
                                Exists(h, d) /\ WWID(maps[h][b]) = WWID(Lun(h, d))}}
AgreedByName(d) == \A h \in Hosts : MapsOf(h, d) # {}  \* mutant: hosts are not compared
Agreed(d) ==
    /\ \A h \in Hosts : MapsOf(h, d) # {}
    /\ \A g, h \in Hosts : /\ MapsOf(g, d) = MapsOf(h, d)
                           /\ ~Multipath(d) => WWID(Lun(g, d)) = WWID(Lun(h, d))
MapOf(d) == CHOOSE m \in MapsOf(FirstHost, d) : TRUE
ToMapper(g) ==
    IF ~policy.need THEN g
    ELSE [p \in Parts |-> [i \in DOMAIN g[p] |-> MapOf(g[p][i])]]

(* NormalizeDiskGroupToYfs: the i-th disk of a group becomes /dev/yfs/<i>  *)
(* if the first host has that name, whatever it is linked to.              *)
ToYfs(g) ==
    [p \in Parts |-> [i \in DOMAIN g[p] |->
        IF <<p, i>> \in DOMAIN links[FirstHost] THEN Yfs(<<p, i>>) ELSE g[p][i]]]

Owned(h, d) ==
    \/ d.in = "yfs"
    \/ \E a \in DOMAIN rules[h] :
          LET r == rules[h][a]
          IN  \/ Multipath(d) /\ r.by = "dm" /\ r.key = d.id
              \/ d.in = "dev" /\ r.by = "kernel" /\ r.key = d.id
              \/ d.in = "dev" /\ r.by = "wwn" /\ r.key = WWID(Lun(h, d))

(* Without groups C-012 (Optional) is skipped, and C-014 has no disks.     *)
CheckDisks ==
    /\ Here("check")
    /\ LET allYfs == \A d \in Disks(groups) : d.in = "yfs"
           mapped == ToMapper(groups)
           final == IF ~policy.need /\ allYfs THEN groups ELSE ToYfs(mapped)
       IN  IF groups["sys"] = <<>> \/ groups["data"] = <<>>
           THEN Pass /\ UNCHANGED groups
           ELSE IF policy.need /\ \E d \in Disks(groups) : ~Agreed(d)
           THEN Refuse /\ UNCHANGED groups
           ELSE /\ groups' = final
                /\ IF \A h \in Hosts, d \in Disks(final) : Exists(h, d) /\ Owned(h, d)
                   THEN Pass ELSE Refuse
    /\ UNCHANGED <<Frame, host, policy, changed, asked>>

(* C-014 passes the names to yasboot, C-022 --yfs-force-create overwrites. *)
Deploy ==
    /\ Here("deploy")
    /\ IF groups["sys"] = <<>> \/ groups["data"] = <<>> THEN Refuse ELSE Pass
    /\ UNCHANGED <<Frame, host, Params>>
-----------------------------------------------------------------------------
(* Any step may fail for a reason of its own, or the run be interrupted.   *)
StepFails ==
    /\ Running /\ Refuse /\ disturbed' = TRUE
    /\ UNCHANGED <<lay, opt, run, host, Params>>

(* Between runs a host may restart: multipathd reads its configuration.    *)
Reboot ==
    /\ ~Running /\ run < Runs
    /\ \E h \in daemon : Restarted(h)
    /\ UNCHANGED <<Frame, conf, rules, Params, step, turn, exitStatus>>

Finished == ~Running /\ run = Runs /\ UNCHANGED disksVars

DisksNext == \/ Start \/ Discover \/ DiscoverAliases
        \/ Validate \/ CollectWwid \/ WriteConf \/ EnableMultipathd \/ MultipathdStopped
        \/ WriteRules \/ TriggerUdev \/ Look \/ CheckDisks \/ Deploy
        \/ StepFails \/ Reboot \/ Finished

DisksSpec == DisksInit /\ [][DisksNext]_disksVars
-----------------------------------------------------------------------------
(* Properties. *)

DisksTypeOK ==
    /\ lay \in Layouts /\ opt \in Options /\ run \in 0..Runs /\ turn \in DOMAIN HostList
    /\ \A h \in Hosts : /\ Range(maps[h]) \cup Range(links[h]) \subseteq Luns
                        /\ \A a \in DOMAIN rules[h] : rules[h][a].by \in {"dm", "wwn", "kernel"}
    /\ daemon \subseteq Hosts /\ \A h \in Hosts \ daemon : maps[h] = Nothing
    /\ policy.need => ~policy.wwn
    /\ {changed, disturbed} \subseteq BOOLEAN
    /\ exitStatus \in {"none", "ok", "error"}

(* What is about to be overwritten: C-012 is over and C-022 not yet.       *)
Deploying == Here("deploy") /\ groups["sys"] # <<>> /\ groups["data"] # <<>>
Deployed(s) == DiskAt(groups, s)
IsAsked(s) == s \in DOMAIN asked /\ Lun(FirstHost, Deployed(s)) = asked[s]
SameEverywhere(d) == \A h \in Hosts : Exists(h, d) /\ Lun(h, d) = Lun(FirstHost, d)

(* Where WWIDs can be trusted and the disks are discovered or named by     *)
(* their devices, what the first run, and with -F any run, deploys on      *)
(* under the multipath policy is what it was asked for: each disk the same *)
(* on every host and not in use, whatever the hosts call their disks, in   *)
(* whatever order discovery found them, and whatever maps, rules and       *)
(* aliases an earlier run for other disks has left.                        *)
DeploymentIsSound ==
    /\ Deploying /\ policy.need /\ (run = 1 \/ opt.force)
    /\ lay.reliable /\ \A d \in Disks(opt.groups) : d.in # "yfs"
    => \A s \in DiskSlots(groups) :
           /\ IsAsked(s) /\ SameEverywhere(Deployed(s))
           /\ Lun(FirstHost, Deployed(s)) \notin lay.busy

(* What discovery has chosen, where each disk has a WWID of its own and    *)
(* one name on a host.                                                     *)
Discovered ==
    /\ Running /\ ~opt.skipOS /\ opt.groups = NoGroups /\ groups # NoGroups
    /\ lay.reliable /\ \A h \in Hosts : IsInjective(lay.dev[h])
OnAllHosts == \A s \in DOMAIN asked, h \in Hosts : asked[s] \in Range(lay.dev[h])

(* If the hosts share any unused disk, discovery takes disks that all      *)
(* hosts see and none uses, none twice, and 1, 3 or 5 of one size for the  *)
(* system group.                                                           *)
DiscoveryIsSound ==
    Discovered /\ SeenByAll # {} =>
        LET sys == {s \in DOMAIN asked : s[1] = "sys"}
        IN  /\ Cardinality(sys) \in {1, 3, 5} /\ IsInjective(asked)
            /\ \A s, t \in sys : Size[asked[s]] = Size[asked[t]]
            /\ OnAllHosts /\ \A s \in DOMAIN asked : asked[s] \notin lay.busy
=============================================================================
