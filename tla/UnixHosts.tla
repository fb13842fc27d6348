------------------------------ MODULE UnixHosts ------------------------------
(* What the resolvers of lib/src/facts/osx, solaris and aix collect.         *)
EXTENDS PosixHosts

CONSTANT Word32   \* the number of values of a 32-bit word, cut down like Word

ASSUME Word32Assumption == Word32 \in Nat \ {0} /\ Word32 <= Word

\* -------------------------------------------------------------- OS X

OsxDmi(h) == h.model

\* The free pages, less the speculative ones, are multiplied as 32-bit numbers.
OsxMemory(h) ==
    LET m == h.memory
    IN  [mem_total  |-> m.total,
         mem_free   |-> IF m.stats THEN ((m.free - m.speculative) * m.page_size) % Word32 ELSE 0,
         swap_total |-> IF m.swap.ok THEN m.swap.total ELSE 0,
         swap_free  |-> IF m.swap.ok THEN Less(m.swap.total, m.swap.used) ELSE 0,
         swap_encryption |-> IF ~m.swap.ok THEN "unknown"
                             ELSE IF m.swap.encrypted THEN "encrypted" ELSE "not_encrypted"]

\* route -n get default; ipconfig getoption of each interface.
OsxPrimary(h) == FirstValue(h.default_route, "interface")
OsxDhcpServer(h, name) == Get(h.ipconfig, name, "")
OsxNetworking(h) ==
    BsdNetworking(h, OsxPrimary(h), <<>>, [n \in InterfaceNames(h) |-> OsxDhcpServer(h, n)])

\* sw_vers is read until all three are known.
OsxOs(h, f) ==
    LET First(key, default) == FirstRow(h.sw_vers, LAMBDA r : r[1] = key, <<key, default>>)[2]
    IN  [PosixOs(h, f) EXCEPT !.osx = [product |-> First("ProductName", ""),
                                       build   |-> First("BuildVersion", ""),
                                       version |-> First("ProductVersion", <<>>)]]

\* Every processor has the one brand there is.
OsxProcessor(h) ==
    LET c == h.sysctl
    IN  [isa |-> PosixProcessor(h).isa, logical_count |-> c.logicalcpu_max,
         physical_count |-> c.physicalcpu_max, speed |-> c.cpufrequency_max,
         models |-> IF c.brand = "" THEN <<>> ELSE [i \in 1 .. c.logicalcpu_max |-> c.brand]]

\* Of the lines with a known label the first are read, as many as there are labels.
ProfilerLabels == {r[3] : r \in SystemProfilerRows}
OsxSystemProfiler(h) ==
    LET known == SelectSeq(h.profiler, LAMBDA r : r[1] \in ProfilerLabels)
        most == Cardinality(ProfilerLabels)
        read == SubSeq(known, 1, Min({Len(known), most}))
    IN  [l \in ProfilerLabels |-> LastValue(read, l)]

OsxHypervisor(h, f) ==
    IF Get(f, "sp_machine_model", "") = "VMware" THEN "vmware"
    ELSE IF Get(f, "sp_boot_rom_version", "") = "VirtualBox" THEN "virtualbox"
    ELSE IF "0x1ab8" \in h.subsystems THEN "parallels" ELSE ""
OsxVirtualizationAsks(f) ==
    IF Get(f, "sp_machine_model", "") = "VMware" THEN <<"sp_machine_model">>
    ELSE <<"sp_machine_model", "sp_boot_rom_version">>

\* -------------------------------------------------------------- Solaris

\* kstat: <<>> when it raises. The name goes up to the comma.
SolarisDisks(h) == h.sderr

\* smbios on x86, prtconf and uname on SPARC: the first line that has a value.
NoDmi == [f \in {r[3] : r \in BiosRows \cup BoardRows \cup ProductRows \cup ChassisRows
                                  \cup MakerRows} |-> ""]
SolarisDmi(h, f) ==
    CASE Get(f, "architecture", "") = "i86pc" ->
           [NoDmi EXCEPT !.bios_vendor = FirstValue(h.smbios.bios, "Vendor"),
                         !.bios_version = FirstValue(h.smbios.bios, "Version String"),
                         !.bios_release_date = FirstValue(h.smbios.bios, "Release Date"),
                         !.manufacturer = FirstValue(h.smbios.system, "Manufacturer"),
                         !.product_name = FirstValue(h.smbios.system, "Product"),
                         !.uuid = FirstValue(h.smbios.system, "UUID"),
                         !.serial_number = FirstValue(h.smbios.system, "Serial Number"),
                         !.chassis_type = FirstValue(h.smbios.chassis, "Type"),
                         !.chassis_asset_tag = FirstValue(h.smbios.chassis, "Asset Tag")]
      [] Get(f, "architecture", "") = "sparc" ->
           [NoDmi EXCEPT !.manufacturer = h.prtconf, !.product_name = h.sparc_product]
      [] OTHER -> NoDmi

\* Every mount point, sized if statvfs64 can; the file systems sysdef names.
SolarisFileSystem(h) ==
    LET Sized(m) == IF m.statfs THEN m ELSE [m EXCEPT !.size = 0, !.available = 0]
    IN  [mountpoints |-> [i \in DOMAIN h.mounts |-> Sized(h.mounts[i])],
         filesystems |-> h.sysdef, partitions |-> <<>>]

SolarisKernel(h) ==
    IF ~h.uname.ok THEN [name |-> "", release |-> <<>>, version |-> <<>>]
    ELSE [name |-> h.uname.sysname, release |-> h.uname.version, version |-> h.uname.build]

\* The swap devices add up; their list may be unavailable.
SolarisMemory(h) ==
    LET m == h.memory
        Sum(field) == FoldLeft(LAMBDA s, d : s + d[field], 0, m.devices)
        none == [mem_total |-> 0, mem_free |-> 0, swap_total |-> 0, swap_free |-> 0,
                 swap_encryption |-> "unknown"]
        memory == [none EXCEPT !.mem_total = m.physmem * m.page_size,
                               !.mem_free = m.pagesfree * m.page_size]
    IN  IF ~m.kstat THEN none
        ELSE IF m.devices = <<>> \/ ~m.swapctl THEN memory
        ELSE [memory EXCEPT !.swap_total = Sum("pages") * m.page_size,
                            !.swap_free  = Sum("free") * m.page_size]

\* The last address of a family counts, and its mask and network with it.
SolarisAddress(iface, a) ==
    LET text    == AddressText(a.family, a.address)
        mask    == AddressText(a.family, a.mask)
        network == AddressText(a.family, Masked(a.address, a.mask))
    IN  CASE a.family = "inet" /\ a.mask = <<>>  -> [iface EXCEPT !.ip = text]
          [] a.family = "inet6" /\ a.mask = <<>> -> [iface EXCEPT !.ip6 = text]
          [] a.family = "inet" /\ a.mask # <<>> ->
               [iface EXCEPT !.ip = text, !.netmask = mask, !.network = network]
          [] a.family = "inet6" /\ a.mask # <<>> ->
               [iface EXCEPT !.ip6 = text, !.netmask6 = mask, !.network6 = network]
          [] OTHER -> iface
\* The column of the interface in the first default route; "" in a short line.
SolarisPrimary(h) == FirstValue(h.netstat, "default")
SolarisDhcpServer(h, name) == Get(h.dhcpinfo, name, "")
\* The MAC address and the MTU are those of the first entry. There is no fallback
\* for the primary interface.
SolarisNetworking(h) ==
    LET Interface(n) ==
            LET entries == Entries(h.addrs, n)
            IN  FoldLeft(SolarisAddress,
                         [NoInterface EXCEPT !.name = n, !.mac = entries[1].mac,
                                             !.mtu = entries[1].mtu,
                                             !.dhcp = SolarisDhcpServer(h, n)],
                         entries)
        names == Named(h.addrs)
    IN  IF ~h.ifaddrs THEN PosixNetworking(h)
        ELSE [PosixNetworking(h) EXCEPT
                !.primary = SolarisPrimary(h),
                !.interfaces = [i \in DOMAIN names |-> Interface(names[i])]]

SolarisFamilies == {"SunOS", "Solaris", "Nexenta", "OmniOS", "OpenIndiana", "SmartOS"}
\* h.etc_release: what the first line of /etc/release that fits gives, as <<kind, major, minor>>.
SolarisOs(h, f) ==
    LET base == PosixOs(h, f)
        named == [base EXCEPT !.name = IF @ = "SunOS" THEN "Solaris" ELSE @,
                              !.family = IF base.name \in SolarisFamilies THEN "Solaris" ELSE @]
        line == FirstRow(h.etc_release, LAMBDA r : r[1] \in {"update", "dotted", "plain"}, <<"">>)
    IN  CASE line[1] = "update" ->
               [named EXCEPT !.release = <<line[2] \o "_u" \o line[3]>>,
                             !.major = <<line[2]>>, !.minor = <<line[3]>>]
          [] line[1] = "dotted" ->
               [named EXCEPT !.release = Tail(line), !.major = <<line[2]>>, !.minor = <<line[3]>>]
          [] line[1] = "plain" ->
               [named EXCEPT !.release = <<line[2], "0">>, !.major = <<line[2]>>, !.minor = <<"0">>]
          [] OTHER -> named

\* kstat of cpu_info: a processor that lacks a value is counted, and no more is
\* read of it. "" is a brand, -1 a chip and 0 a clock that is missing.
SolarisProcessor(h) ==
    LET branded == SelectSeq(h.cpu_info, LAMBDA c : c.brand # "")
        chipped == SelectSeq(branded, LAMBDA c : c.chip_id >= 0)
    IN  [isa |-> PosixProcessor(h).isa,
         logical_count |-> Len(h.cpu_info), physical_count |-> Cardinality({c.chip_id : c \in ToSet(chipped)}),
         models |-> [i \in DOMAIN branded |-> branded[i].brand],
         speed |-> FirstRow(chipped, LAMBDA c : c.clock # 0, [clock |-> 0]).clock]

SolarisUptime(h) == IF h.boot.ok THEN h.now - h.boot.seconds ELSE PosixUptime(h)

\* In a zone that is not the global one nothing else is looked at. prtdiag that
\* takes more than 20 seconds found nothing.
SolarisHypervisor(h, f) ==
    LET arch == Get(f, "architecture", "")
        guests == [VMware |-> "vmware", VirtualBox |-> "virtualbox", Parallels |-> "parallels",
                   KVM |-> "kvm", HVMdomU |-> "xenhvm", oVirtNode |-> "ovirt"]
        guest == Get(guests, FirstRow(h.prtdiag, LAMBDA w : w \in DOMAIN guests, ""), "")
        role == FirstRow(h.virtinfo, LAMBDA l : l \in {"root", "guest", "zone"}, "root")
    IN  CASE h.zonename \notin {"", "global"} -> "zone"
          [] h.zonename \in {"", "global"} /\ arch = "i86pc" -> IF h.prtdiag_slow THEN "" ELSE guest
          [] h.zonename \in {"", "global"} /\ arch = "sparc" ->
               IF role = "guest" THEN "ldom" ELSE IF role = "zone" THEN "zone" ELSE ""
          [] OTHER -> ""
\* Mutant of SolarisVirtualizationAsks: the fact is looked up and not asked for.
SolarisVirtualizationLooks(h) == <<>>
SolarisVirtualizationAsks(h) ==
    IF h.zonename \notin {"", "global"} THEN <<>> ELSE <<"architecture">>

\* zfs stops at the first version, zpool keeps the last.
SolarisZfs(h) == h.zfs
SolarisZpool(h) == h.zpool
\* zonename, and the lines of zoneadm that have all seven fields.
SolarisZone(h) == [current |-> h.zonename, zones |-> h.zoneadm]

\* -------------------------------------------------------------- AIX

\* The greatest level in the cache of oslevel, which is run when there is none.
\* A level is <<version, technology level, service pack, build>>, in numbers.
Greater(a, b) == \E i \in DOMAIN a : a[i] > b[i] /\ \A j \in 1 .. i - 1 : a[j] = b[j]
AixLevel(levels) ==
    FoldLeft(LAMBDA s, l : IF s = <<>> \/ Greater(l, s) THEN l ELSE s, <<>>, levels)
AixKernel(h) ==
    LET level == AixLevel(IF h.rml_cache # <<>> THEN h.rml_cache
                          ELSE IF h.oslevel THEN h.rml_regenerated ELSE <<>>)
    IN  IF level = <<>> THEN [name |-> "", release |-> <<>>, version |-> <<>>]
        ELSE [name |-> "AIX", version |-> <<level[1] * 100>>,
              release |-> <<level[1] * 100>> \o Tail(level)]
\* lsattr -El: the second word of the first line that has two.
AixOs(h, f) == [PosixOs(h, f) EXCEPT !.architecture = h.lsattr.type, !.hardware = h.lsattr.modelname]
=============================================================================
