------------------------------ MODULE LinuxHosts ------------------------------
(* What the resolvers of lib/src/facts/linux collect. The release files are a *)
(* function from their name in release_file.hpp to what their text says: the  *)
(* words in it, the version it gives and the patch level.                     *)
EXTENDS PosixHosts

\* -------------------------------------------------------------- distribution

ReleaseFiles ==
    {"redhat", "fedora", "meego", "oracle_linux", "oracle_enterprise_linux",
     "oracle_vm_linux", "debian", "alpine", "suse", "os", "lsb", "gentoo", "openwrt",
     "openwrt_version", "mandriva", "mandrake", "archlinux", "vmware_esx", "slackware",
     "mageia", "amazon", "linux_mint_info", "arista_eos"}
IsFile(h, file) == file \in ReleaseFiles \cap DOMAIN h.release
NoText == [words |-> {}, version |-> <<>>, patch |-> ""]
Text(h, file) == Get(h.release, file, NoText)

RedHats ==
    <<<<"centos", "CentOS">>, <<"scientific linux CERN", "SLC">>,
      <<"scientific linux release", "Scientific">>, <<"cloudlinux", "CloudLinux">>,
      <<"Ascendos", "Ascendos">>, <<"XenServer", "XenServer">>, <<"XCP", "XCP">>,
      <<"Parallels Server Bare Metal", "PSBM">>, <<"Fedora release", "Fedora">>>>
Suses ==
    <<<<"SUSE LINUX Enterprise Server", "SLES">>,
      <<"SUSE LINUX Enterprise Desktop", "SLED">>, <<"openSUSE", "OpenSuSE">>>>
OtherLinuxes ==
    <<<<"openwrt", "OpenWrt">>, <<"gentoo", "Gentoo">>, <<"mandriva", "Mandriva">>,
      <<"mandrake", "Mandrake">>, <<"meego", "MeeGo">>, <<"archlinux", "Archlinux">>,
      <<"oracle_linux", "OracleLinux">>, <<"vmware_esx", "VMWareESX">>,
      <<"slackware", "Slackware">>, <<"alpine", "Alpine">>, <<"mageia", "Mageia">>,
      <<"amazon", "Amazon">>, <<"arista_eos", "AristaEOS">>>>

CheckDebian(h, distroId) ==
    IF ~IsFile(h, "debian") THEN ""
    ELSE IF distroId \in {"Ubuntu", "LinuxMint"} THEN distroId ELSE "Debian"
CheckOracle(h) ==
    IF ~IsFile(h, "oracle_enterprise_linux") THEN ""
    ELSE IF IsFile(h, "oracle_vm_linux") THEN "OVS" ELSE "OEL"
CheckRedHat(h) ==
    IF ~IsFile(h, "redhat") THEN "" ELSE FirstWord(RedHats, Text(h, "redhat").words, "RedHat")
CheckSuse(h) ==
    IF ~IsFile(h, "suse") THEN "" ELSE FirstWord(Suses, Text(h, "suse").words, "SuSE")
CheckOther(h) == FirstWord(OtherLinuxes, DOMAIN h.release, "")
LinuxName(h, distroId) ==
    FirstFound(<<CheckDebian(h, distroId), CheckOracle(h), CheckRedHat(h), CheckSuse(h),
                 CheckOther(h)>>)

Families ==
    <<<<{"RedHat", "Fedora", "CentOS", "Scientific", "SLC", "Ascendos", "CloudLinux", "PSBM",
         "OracleLinux", "OVS", "OEL", "Amazon", "XenServer"}, "RedHat">>,
      <<{"LinuxMint", "Ubuntu", "Debian"}, "Debian">>,
      <<{"SLES", "SLED", "OpenSuSE", "SuSE"}, "Suse">>,
      <<{"Gentoo"}, "Gentoo">>, <<{"Archlinux"}, "Archlinux">>,
      <<{"Mandrake", "Mandriva", "Mageia"}, "Mandrake">>>>
LinuxFamily(name) == FirstRow(Families, LAMBDA r : name \in r[1], <<{}, "">>)[2]

\* The file whose first line has "release X" for a distribution.
ReleaseFileOf(name) ==
    FirstRow(<<<<{"CentOS", "RedHat", "Scientific", "SLC", "Ascendos", "CloudLinux", "PSBM",
                  "XenServer"}, "redhat">>,
               <<{"Fedora"}, "fedora">>, <<{"MeeGo"}, "meego">>,
               <<{"OracleLinux"}, "oracle_linux">>, <<{"OEL"}, "oracle_enterprise_linux">>,
               <<{"OVS"}, "oracle_vm_linux">>, <<{"AristaEOS"}, "arista_eos">>>>,
             LAMBDA r : name \in r[1], <<{}, "">>)[2]
\* The file, the fewest and the most components its pattern takes of a version.
VersionFiles ==
    "Ubuntu"    :> <<"lsb", 2, 2>>        @@ "Slackware" :> <<"slackware", 1, 9>> @@
    "Mageia"    :> <<"mageia", 1, 9>>     @@ "LinuxMint" :> <<"linux_mint_info", 1, 1>> @@
    "OpenWrt"   :> <<"openwrt_version", 2, 9>> @@ "AristaEOS" :> <<"arista_eos", 3, 3>>
VersionIn(text, fewest, most) ==
    IF Len(text.version) < fewest THEN <<>>
    ELSE SubSeq(text.version, 1, Min({most, Len(text.version)}))
SuseRelease(text) ==
    IF text.version = <<>> THEN <<"unknown">>
    ELSE <<text.version[1],
           IF Len(text.version) > 1 THEN text.version[2]
           ELSE IF text.patch # "" THEN text.patch ELSE "0">>
\* Each way is tried while the ones before it found nothing.
LinuxRelease(h, name, distroRelease) ==
    LET text == Text(h, ReleaseFileOf(name))
        line == IF "(Rawhide)" \in text.words THEN <<"Rawhide">> ELSE text.version
    IN  IF line # <<>> THEN line
        ELSE CASE name \in {"Debian", "Alpine"} ->
                    Text(h, IF name = "Debian" THEN "debian" ELSE "alpine").version
               [] name \in {"SuSE", "SLES", "SLED", "OpenSuSE"} -> SuseRelease(Text(h, "suse"))
               [] name \in DOMAIN VersionFiles ->
                    LET v == VersionFiles[name] IN VersionIn(Text(h, v[1]), v[2], v[3])
               [] name = "VMWareESX" -> h.vmware.version
               [] name = "Amazon" -> distroRelease
               [] OTHER -> <<>>

\* key_value_file: the first value of each item asked for, of a regular file.
KeyValueFile(rows, items) ==
    [k \in {r[1] : r \in ToSet(rows)} \cap items |-> FirstValue(rows, k)]
\* The name, family and release of the implementation get_os chooses; nothing where
\* it finds nothing. os_cumulus and os_coreos read VERSION_ID of os-release.
ChosenOs(h, data) ==
    LET info == KeyValueFile(h.os_release, {"NAME", "CISCO_RELEASE_INFO"})
        cisco == KeyValueFile(h.cisco, {"ID", "ID_LIKE"})
        isCisco == Get(info, "CISCO_RELEASE_INFO", "") # "" /\ h.cisco # <<>>
        Os(name, family, release, parsed) ==
            [name |-> name, family |-> family, release |-> release,
             major |-> parsed[1], minor |-> parsed[2]]
        id == LinuxName(h, data.distro.id)
        name == IF id = "" THEN data.name ELSE id
        release == LinuxRelease(h, name, data.distro.release)
    IN  CASE Get(info, "NAME", "") = "Cumulus Linux" ->
               Os("CumulusLinux", "Debian", h.version_id,
                  ParseDistro("CumulusLinux", h.version_id))
          [] Get(info, "NAME", "") = "CoreOS" ->
               Os("CoreOS", "CoreOS", h.version_id, ParseDistro("CoreOS", h.version_id))
          [] OTHER ->
               IF isCisco
               THEN Os(Get(cisco, "ID", ""), Get(cisco, "ID_LIKE", ""),
                       h.cisco_version.plain \o h.cisco_version.rest,
                       <<h.cisco_version.plain, <<>>>>)
               ELSE Os(id, LinuxFamily(name), release, ParseDistro(name, release))

Selinux(h) ==
    LET s == h.selinux
    IN  IF ~s.mounted THEN [supported |-> TRUE, enabled |-> FALSE]
        ELSE [supported |-> TRUE, enabled |-> TRUE, enforced |-> s.enforce = "1",
              current_mode |-> IF s.enforce = "" THEN ""
                               ELSE IF s.enforce = "1" THEN "enforcing" ELSE "permissive",
              policy_version |-> s.policyvers,
              config_mode    |-> LastValue(s.config, "SELINUX"),
              config_policy  |-> LastValue(s.config, "SELINUXTYPE")]

LinuxArchitecture(machine, name) ==
    IF machine = "x86_64" /\ name \in {"Debian", "Gentoo", "GNU/kFreeBSD", "Ubuntu"} THEN "amd64"
    ELSE IF machine \in {"i386", "i486", "i586", "i686", "pentium"}
         THEN IF name = "Gentoo" THEN "x86" ELSE "i386"
         ELSE machine
\* lsb_release -a: the last line with a label counts.
LinuxOs(h, f) ==
    LET base == [PosixOs(h, f) EXCEPT
                    !.specification = LastValue(h.lsb_release, "LSB Version"),
                    !.distro = [id          |-> LastValue(h.lsb_release, "Distributor ID"),
                                description |-> LastValue(h.lsb_release, "Description"),
                                codename    |-> LastValue(h.lsb_release, "Codename"),
                                release     |-> h.lsb_version]]
        os == ChosenOs(h, base)
        found == os.release # <<>>
        name == IF os.name = "" THEN base.name ELSE os.name
    IN  [base EXCEPT
            !.name    = name,
            !.family  = IF os.family = "" THEN @ ELSE os.family,
            !.release = IF found THEN os.release ELSE @,
            !.major   = IF found THEN os.major ELSE @,
            !.minor   = IF found THEN os.minor ELSE @,
            !.architecture = LinuxArchitecture(@, name),
            !.selinux = Selinux(h)]

\* The first two numbers of the version.
LinuxParseVersion(version) == SubSeq(version, 1, Min({2, Len(version)}))

\* -------------------------------------------------------------- hardware

\* A block device without a device directory is none; sizes count 512 bytes.
LinuxDisks(h) ==
    LET Disk512(d) == [d.files EXCEPT !.size = @ * 512]
        disks == SelectSeq(h.block, LAMBDA d : d.device)
    IN  [i \in DOMAIN disks |-> Disk512(disks[i])]

LinuxDmi(h) == [h.dmi EXCEPT !.chassis_type = ChassisDescription(@)]

\* Lines of /proc/meminfo add up; a value that is no number is left out (-1).
LinuxMemory(h) ==
    LET Total(labels) ==
            FoldLeft(LAMBDA s, r : IF r[1] \in labels /\ r[2] >= 0
                                   THEN (s + r[2] * 1024) % Word ELSE s, 0, h.meminfo)
    IN  [mem_total |-> Total({"MemTotal"}), mem_free |-> Total({"MemFree", "Buffers", "Cached"}),
         swap_total |-> Total({"SwapTotal"}), swap_free |-> Total({"SwapFree"}),
         swap_encryption |-> "unknown"]

\* h.cpus: the package of each processor under /sys, "" when it has no topology.
\* h.cpuinfo: the processors of /proc/cpuinfo, with "" for a line that is missing.
LinuxProcessor(h) ==
    LET unknown == SelectSeq(h.cpus, LAMBDA id : id = "")
        packages == ToSet(h.cpus) \ {""}
        counted == h.cpus # <<>>
        physical == {c.physical : c \in ToSet(h.cpuinfo)} \ {""}
        models == SelectSeq([i \in DOMAIN h.cpuinfo |-> h.cpuinfo[i].model],
                            LAMBDA m : m # "")
    IN  [isa |-> PosixProcessor(h).isa,
         logical_count |-> IF counted THEN Len(h.cpus) ELSE Len(h.cpuinfo),
         physical_count |-> IF counted THEN Len(unknown) + Cardinality(packages)
                            ELSE Cardinality(physical),
         models |-> models,
         speed |-> h.max_freq * 1000]

\* sysinfo, and `uptime` when it fails.
LinuxUptime(h) == IF h.sysinfo.ok THEN h.sysinfo.uptime ELSE PosixUptime(h)

\* -------------------------------------------------------------- file systems

\* What /etc/mtab lists from a device, with the sizes statfs gives.
LinuxMountpoints(h) ==
    LET Sized(m) == IF m.statfs THEN m ELSE [m EXCEPT !.size = 0, !.available = 0]
        listed == SelectSeq(h.mounts, LAMBDA m : m.isdevice)
    IN  [i \in DOMAIN listed |-> Sized(listed[i])]
LinuxFileSystems(h) ==
    {r[2] : r \in {q \in ToSet(h.filesystems) : q[1] # "nodev" /\ q[2] # "fuseblk"}}
\* What blkid lists; its mount is that of the first mount point of the device.
LinuxPartitions(h) ==
    LET points == LinuxMountpoints(h)
        Mounted(p) ==
            [p EXCEPT !.size = @ * 512,
                      !.mount = FirstRow(points, LAMBDA m : m.device = p.name,
                                         [name |-> ""]).name]
    IN  IF ~h.blkid THEN <<>>
        ELSE [i \in DOMAIN h.partitions |-> Mounted(h.partitions[i])]
LinuxFileSystem(h) ==
    [mountpoints |-> LinuxMountpoints(h), filesystems |-> LinuxFileSystems(h),
     partitions |-> LinuxPartitions(h)]

\* -------------------------------------------------------------- networking

\* The first default route of /proc/net/route.
LinuxPrimary(h) == FirstRow(h.routes, LAMBDA r : r[2] = "00000000", <<"", "">>)[1]
LinuxNetworking(h) ==
    BsdNetworking(h, LinuxPrimary(h), BsdDhcpServers(h), [n \in InterfaceNames(h) |-> BsdDhcpServer(h, n)])

\* -------------------------------------------------------------- virtualization

CgroupVm(h) ==
    LET line == FirstRow(h.cgroup, LAMBDA c : c \in {"/docker", "/lxc"}, "")
    IN  IF line = "" THEN "" ELSE IF line = "/docker" THEN "docker" ELSE "lxc"
GceVm(f) == IF Get(f, "bios_vendor", "") = "Google" THEN "gce" ELSE ""
\* The context of /proc/self/status, "" when there is none.
VserverVm(h) ==
    IF h.vxid = "" THEN "" ELSE IF h.vxid = "0" THEN "vserver_host" ELSE "vserver"
\* The first line of virt-what that is no message of its own.
WhatVm(h) ==
    LET value == FirstRow(h.virt_what, LAMBDA line : line # "virt-what:", "")
    IN  CASE value = "linux_vserver" -> VserverVm(h)
          [] value = "xen-hvm"       -> "xenhvm"
          [] value = "xen-dom0"      -> "xen0"
          [] value = "xen-domu"      -> "xenu"
          [] value = "ibm_systemz"   -> "zlinux"
          [] OTHER                   -> value
\* The first two words of `vmware -v`.
VmwareVm(h) == IF Len(h.vmware.words) < 2 THEN "" ELSE h.vmware.words[1] \o "_" \o h.vmware.words[2]
OpenvzVm(h) ==
    IF h.vz # "filled" \/ h.lve \/ h.envid = "" THEN ""
    ELSE IF h.envid = "0" THEN "openvzhn" ELSE "openvzve"
XenVm(h) ==
    FirstWord(<<<<"/dev/xen/evtchn", "xen0">>, <<"/proc/xen", "xenu">>, <<"/dev/xvda1", "xenu">>>>,
              h.devices, "")
ProductNameVm(f) ==
    FirstWord(<<<<"VMware", "vmware">>, <<"VirtualBox", "virtualbox">>,
                <<"Parallels", "parallels">>, <<"KVM", "kvm">>, <<"Virtual Machine", "hyperv">>,
                <<"RHEV Hypervisor", "rhev">>, <<"oVirt Node", "ovirt">>,
                <<"HVM domU", "xenhvm">>, <<"Bochs", "bochs">>>>,
              {Get(f, "productname", "")}, "")
\* Of the first line of lspci that any of them is in.
LspciVm(h) ==
    LET table == <<<<"VMware", "vmware">>, <<"VirtualBox", "virtualbox">>,
                   <<"1ab8:", "parallels">>, <<"XenSource", "xenhvm">>,
                   <<"Microsoft Corporation Hyper-V", "hyperv">>,
                   <<"Class 8007: Google, Inc", "gce">>, <<"virtio", "kvm">>>>
        known == {table[i][1] : i \in DOMAIN table}
    IN  FirstWord(table, FirstRow(h.lspci, LAMBDA words : words \cap known # {}, {}), "")

\* get_hypervisor is lazy: a detection runs when those before it found nothing.
\* The two that ask for a fact divide the others.
BeforeGce(h) == CgroupVm(h)
BeforeProduct(h) == FirstFound(<<WhatVm(h), VmwareVm(h), OpenvzVm(h), VserverVm(h), XenVm(h)>>)
LinuxHypervisor(h, f) ==
    FirstFound(<<BeforeGce(h), GceVm(f), BeforeProduct(h), ProductNameVm(f), LspciVm(h)>>)
\* The facts get_hypervisor asks for, given the facts f there are.
LinuxVirtualizationAsks(h, f) ==
    IF BeforeGce(h) # "" THEN <<>>
    ELSE IF GceVm(f) # "" \/ BeforeProduct(h) # "" THEN <<"bios_vendor">>
    ELSE <<"bios_vendor", "productname">>
=============================================================================
