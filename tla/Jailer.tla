------------------------------- MODULE Jailer -------------------------------
(***************************************************************************)
(* tools/jailer/src/main.rs: from a box's configuration to nesbox running  *)
(* in a jail.  A path is the sequence of its components.  What a process   *)
(* in the jail sees at a path is what the mount made last, of those at or  *)
(* above it, shows there, and a bind mount that is not recursive shows one *)
(* filesystem of the host and nothing that is mounted on it.  Any system   *)
(* call may fail, which ends the process and its mount namespace with it.  *)
(***************************************************************************)
EXTENDS Naturals, Sequences, FiniteSets, Functions

CONSTANTS
  Jobs,        \* what the command line and the configuration may ask for
  HostMounts,  \* the paths of the host where a filesystem is mounted
  Nodes,       \* the paths of the host that are character devices
  Absent,      \* the paths of the host that do not exist
  Modes        \* the modes a device node may have: [other, group, gid]

ASSUME JailerAssumption ==
  /\ <<>> \in HostMounts
  /\ (Nodes \union Absent) \cap HostMounts = {}

VARIABLES
  job,     \* the paths of the configuration by field; has: the devices it asks
           \* for; uid, gid, scratch; dry; absolute: every path is; live: the
           \* uid has a process; comma: the image's path has one
  mode,    \* device node -> its mode
  step,    \* what run() does next, "dry", "failed" or "nesbox"
  bound,   \* how many of the binds are done
  space,   \* [own: in a mount namespace of its own, private: not propagating]
  mounts,  \* the mounts of the jail's tree, in order: [at, rec]
  leaked,  \* paths where a mount of this process appeared on the host
  written, \* [overlay: paths made in the private layer, host: on the host]
  cred     \* [root, inside: BOOLEAN, uid, gid, groups, nnp: BOOLEAN]

jailVars == <<job, mode, step, bound, space, mounts, leaked, written, cred>>

Proc == <<"proc">>
Sys == <<"sys">>

\* p is d or below it; the directory p is in.
Under(d, p) == Len(d) <= Len(p) /\ SubSeq(p, 1, Len(d)) = d
Parent(p) == SubSeq(p, 1, Len(p) - 1)

(***************************************************************************)
(* Which paths come in.                                                    *)
(***************************************************************************)

\* In the order of the configuration's fields, --bind last.
host_paths(j) ==
  <<j.config, <<"dev", "kvm">>, <<"dev", "null">>, j.kernel>>
  \o j.drives
  \o j.gpu
  \o j.forward \o SelectSeq(j.proc_nvidia, LAMBDA p : ~Under(Proc, p))
  \o (IF "network" \in j.has THEN <<<<"dev", "net", "tun">>, <<"dev", "vhost-net">>>>
      ELSE <<>>)
  \o (IF "vsock" \in j.has THEN <<<<"dev", "vhost-vsock">>>> ELSE <<>>)
  \o [i \in DOMAIN j.sockets |-> Parent(j.sockets[i])]
  \o j.shares
  \o j.extra

ASSUME JobsAssumption ==
  /\ \A j \in Jobs : host_paths(j) \in Seq(Seq(STRING)) /\ j.uid \in Nat /\ j.gid \in Nat
  /\ Modes \subseteq [other : BOOLEAN, group : BOOLEAN, gid : Nat]

\* /proc and /sys, recursively, then the derived set.
Binds(j) ==
  <<[at |-> Proc, rec |-> TRUE], [at |-> Sys, rec |-> TRUE]>>
  \o [i \in DOMAIN host_paths(j) |-> [at |-> host_paths(j)[i], rec |-> FALSE]]

device_access(m) ==
  CASE m.other -> "anyone"
    [] ~m.other /\ m.group /\ m.gid # 0 -> "group"
    [] OTHER -> "owner"

NodesOf(j) == (Range(host_paths(j)) \cap Nodes) \ Absent

device_groups(j) ==
  [groups |-> {mode[p].gid : p \in {q \in NodesOf(j) : device_access(mode[q]) = "group"}},
   unreachable |-> {p \in NodesOf(j) : device_access(mode[p]) = "owner"}]

(***************************************************************************)
(* What a path shows.                                                      *)
(***************************************************************************)

\* The filesystem of the host that holds a path: the deepest mount above it.
Filesystem(p) ==
  CHOOSE m \in HostMounts :
    /\ Under(m, p)
    /\ \A n \in HostMounts : Under(n, p) => Len(n) <= Len(m)

\* A bind of `at` shows the host's own p.
Shows(b, p) == b.rec \/ Filesystem(b.at) = Filesystem(p)

\* The mount a path of the jail is looked up in; 0 is the overlay.
Covering(p) ==
  LET above == {i \in DOMAIN mounts : Under(mounts[i].at, p)}
  IN IF above = {} THEN 0 ELSE CHOOSE i \in above : \A k \in above : k <= i

SeenTruly(p) == Covering(p) # 0 /\ Shows(mounts[Covering(p)], p)

(***************************************************************************)
(* run().                                                                  *)
(***************************************************************************)

To(from, next) == step = from /\ step' = next

\* raw_mount at a path: without MS_PRIVATE the host sees it too.
raw_mount(at) ==
  leaked' = IF space.own /\ space.private THEN leaked ELSE leaked \union {at}

\* Everything checked before anything is done.
Allowed(j) ==
  /\ j.uid # 0 /\ j.gid # 0 /\ ~j.live
  /\ device_groups(j).unreachable = {}

Check ==
  /\ step = "check"
  /\ step' = IF ~job.absolute THEN "failed"
             ELSE IF job.dry THEN "dry"
             ELSE IF Allowed(job) THEN "unshare" ELSE "failed"
  /\ UNCHANGED <<job, mode, bound, space, mounts, leaked, written, cred>>

unshare_mount_namespace_shared ==
  /\ To("unshare", "tmpfs")
  /\ space' = [own |-> TRUE, private |-> FALSE]
  /\ UNCHANGED <<job, mode, bound, mounts, leaked, written, cred>>

\* unshare, then MS_REC | MS_PRIVATE on /; the failure of the second is Fails.
unshare_mount_namespace ==
  /\ To("unshare", "tmpfs")
  /\ space' = [own |-> TRUE, private |-> TRUE]
  /\ UNCHANGED <<job, mode, bound, mounts, leaked, written, cred>>

\* build_jail's tmpfs, and then the overlay, whose options cannot express a
\* path with a comma or a colon.
MountScratch ==
  /\ To("tmpfs", "overlay")
  /\ raw_mount(job.scratch)
  /\ written' = [written EXCEPT !.host = @ \union {job.scratch}]
  /\ UNCHANGED <<job, mode, bound, space, mounts, cred>>

build_jail ==
  /\ ~job.comma
  /\ To("overlay", "bind")
  /\ raw_mount(Append(job.scratch, "merged"))
  /\ UNCHANGED <<job, mode, bound, space, mounts, written, cred>>

\* The bind above p has an entry there: p itself, or the directory that
\* another filesystem of the host is mounted on.
HasEntry(b, p) ==
  Shows(b, p) \/ (p \in HostMounts /\ Filesystem(Parent(p)) = Filesystem(b.at))

\* Where the mount point is made: nowhere when the jail has the entry, in the
\* private layer when nothing is bound above it, else on the filesystem of
\* the host that the bind above it shows.
Makes(p) ==
  IF Covering(p) # 0 /\ HasEntry(mounts[Covering(p)], p) THEN written
  ELSE IF Covering(p) = 0 THEN [written EXCEPT !.overlay = @ \union {p}]
  ELSE [written EXCEPT !.host = @ \union {p}]

\* /sys bound as everything else is.
bind_mount_flat(b) ==
  /\ b.at \notin Absent
  /\ written' = Makes(b.at)
  /\ mounts' = Append(mounts, [b EXCEPT !.rec = FALSE])
  /\ raw_mount(b.at)

bind_mount(b) ==
  /\ b.at \notin Absent
  /\ written' = Makes(b.at)
  /\ mounts' = Append(mounts, b)
  /\ raw_mount(b.at)

Bind ==
  /\ step = "bind" /\ bound < Len(Binds(job))
  /\ bind_mount(Binds(job)[bound + 1])
  /\ bound' = bound + 1
  /\ step' = IF bound' = Len(Binds(job)) THEN "chroot" ELSE "bind"
  /\ UNCHANGED <<job, mode, space, cred>>

\* chroot and the chdir it needs; in between, the process stands outside.
enter_jail ==
  /\ \/ To("chroot", "chdir") /\ cred' = [cred EXCEPT !.root = "jail"]
     \/ To("chdir", "setgroups") /\ cred' = [cred EXCEPT !.inside = TRUE]
  /\ UNCHANGED <<job, mode, bound, space, mounts, leaked, written>>

\* setgroups, setgid and setuid each need the root that setuid gives up; then
\* every one of the three is read back, and setuid(0) must fail.
drop_privileges ==
  /\ \/ /\ To("setgroups", "setgid") /\ cred.uid = 0
        /\ cred' = [cred EXCEPT !.groups = device_groups(job).groups]
     \/ /\ To("setgid", "setuid") /\ cred.uid = 0
        /\ cred' = [cred EXCEPT !.gid = job.gid]
     \/ /\ To("setuid", "verify") /\ cred.uid = 0
        /\ cred' = [cred EXCEPT !.uid = job.uid]
     \/ /\ To("verify", "exec")
        /\ cred.uid = job.uid /\ cred.gid = job.gid /\ cred.uid # 0
        /\ cred.groups = device_groups(job).groups
        /\ UNCHANGED cred
  /\ UNCHANGED <<job, mode, bound, space, mounts, leaked, written>>

\* NO_NEW_PRIVS, then execv of the image's nesbox.
exec_command ==
  /\ To("exec", "nesbox")
  /\ cred' = [cred EXCEPT !.nnp = TRUE]
  /\ UNCHANGED <<job, mode, bound, space, mounts, leaked, written>>

\* A call that fails, as does a bind of a path that is not there: an error
\* out of run(), and the namespace goes with the process.
Fails ==
  /\ step \notin {"dry", "failed", "nesbox"}
  /\ step' = "failed"
  /\ mounts' = <<>> /\ space' = [own |-> FALSE, private |-> FALSE]
  /\ UNCHANGED <<job, mode, bound, leaked, written, cred>>

JailerInit ==
  /\ job \in Jobs
  /\ mode \in [Nodes -> Modes]
  /\ step = "check" /\ bound = 0
  /\ space = [own |-> FALSE, private |-> FALSE]
  /\ mounts = <<>> /\ leaked = {}
  /\ written = [overlay |-> {}, host |-> {}]
  /\ cred = [root |-> "host", inside |-> FALSE, uid |-> 0, gid |-> 0,
             groups |-> {0}, nnp |-> FALSE]

JailerNext ==
  \/ Check \/ unshare_mount_namespace \/ MountScratch \/ build_jail \/ Bind
  \/ enter_jail \/ drop_privileges \/ exec_command \/ Fails

JailerSpec == JailerInit /\ [][JailerNext]_jailVars

(***************************************************************************)
(* Properties.                                                             *)
(***************************************************************************)

\* A path is listed before a directory above it that another filesystem of
\* the host holds: host_paths' doc says the outer mount then hides it.
HiddenByOrder(j, p) ==
  \E i, k \in DOMAIN host_paths(j) :
    /\ i < k /\ host_paths(j)[i] = p
    /\ Under(host_paths(j)[k], p) /\ Filesystem(host_paths(j)[k]) # Filesystem(p)

Opens(m) == m.other \/ (m.group /\ m.gid \in cred.groups \union {cred.gid})

\* When nesbox is running, each path its configuration names shows the host's
\* own file in the jail, whatever was bound after it, unless the order of the
\* configuration itself hides it; so does the cgroup tree mounted below /sys,
\* unless the configuration binds something over it; every device node among
\* them can be opened with the identity and groups that are left; and the
\* process is inside, not root, and without a way to new privileges (run,
\* bind_mount, device_groups, drop_privileges).
JailServesConfig ==
  step = "nesbox" =>
    /\ \A p \in Range(host_paths(job)) : SeenTruly(p) \/ HiddenByOrder(job, p)
    /\ \A p \in HostMounts : Under(Sys, p) =>
         SeenTruly(p) \/ \E q \in Range(host_paths(job)) : Under(q, p)
    /\ \A p \in NodesOf(job) : Opens(mode[p])
    /\ cred.root = "jail" /\ cred.inside /\ cred.nnp
    /\ cred.uid # 0 /\ cred.gid # 0 /\ 0 \notin cred.groups

\* Wherever run() stops, no mount of the jail is on the host, and the scratch
\* directory is all that was made there (build_jail: "the only thing left on
\* the host"), except the mount point of a path bound below an earlier bind
\* of another filesystem, which that bind does not show.
HostUntouched ==
  /\ leaked = {}
  /\ \A p \in written.host :
       \/ p = job.scratch
       \/ \E i, k \in DOMAIN Binds(job) :
            /\ i < k /\ Binds(job)[k].at = p /\ Under(Binds(job)[i].at, p)
            /\ ~HasEntry(Binds(job)[i], p)
  /\ step = "dry" => written.host = {}
=============================================================================
