---------------------------- MODULE BaseResolvers ----------------------------
(* What the resolvers of lib/src/facts/resolvers announce, and the facts their *)
(* resolve() makes of the data a platform collected. Facts, and the maps that *)
(* are values of facts, are functions from names to values; "" is a string    *)
(* that was not found. A version is the sequence of its components. Numbers   *)
(* of bytes are unsigned words of Word values.                                 *)
EXTENDS Integers, FiniteSets, SequencesExt, TLC

CONSTANT Word    \* the number of values of uint64_t, cut down

ASSUME WordAssumption == Word \in Nat /\ Word % 2 = 0

\* -------------------------------------------------------------- values

\* A string that is added unless it is empty.
Opt(name, v) == IF v = "" THEN <<>> ELSE name :> v

\* A map (or an array) that is added unless it is empty.
Keep(name, m) == IF DOMAIN m = {} THEN <<>> ELSE name :> m

\* map_value::add does not replace an entry.
MapAdd(m, name, v) == m @@ (name :> v)

\* Rows <<fact, key, field>>: a field of the data that is added, when it is not
\* empty, as a fact of its own and under a key of a structured fact.
FlatOf(rows, d) ==
    [n \in {r[1] : r \in {q \in rows : d[q[3]] # ""}} |->
        d[(CHOOSE r \in rows : r[1] = n)[3]]]
MapOf(rows, d) ==
    [k \in {r[2] : r \in {q \in rows : d[q[3]] # ""}} |->
        d[(CHOOSE r \in rows : r[2] = k)[3]]]

\* -------------------------------------------------------------- numbers

Less(a, b) == (a - b) % Word                    \* unsigned subtraction
AsInteger(n) == IF n >= Word \div 2 THEN n - Word ELSE n
Rounded(n, d) == (n + d \div 2) \div d

\* A number with two digits and the power of the prefix; it is exact below the base.
\* Mutant of Prefixed: what is rounded up to the base stays in its unit.
PrefixedNoCarry(n, base) ==
    IF n < base THEN <<100 * n, 0>>
    ELSE LET exp == CHOOSE e \in 1 .. 2 : base ^ e <= n /\ n < base ^ (e + 1)
         IN  <<Rounded(100 * n, base ^ exp), exp>>
Prefixed(n, base) ==
    IF n < base THEN <<100 * n, 0>>
    ELSE LET exp == CHOOSE e \in 1 .. 2 : base ^ e <= n /\ n < base ^ (e + 1)
             converted == Rounded(100 * n, base ^ exp)
         IN  IF converted = 100 * base THEN <<100, exp + 1>> ELSE <<converted, exp>>
SiString(size) == Prefixed(size, 1024)
Frequency(freq) == Prefixed(freq, 1000)

\* Hundredths of a percent.
Percentage(used, total) ==
    IF total = 0 \/ used >= total THEN 10000
    ELSE LET converted == Rounded(10000 * used, total)
         IN  IF converted = 10000 THEN 9999 ELSE converted

\* -------------------------------------------------------------- resolvers

AugeasNames == {"augeas", "augeasversion"}
Augeas(version) ==
    Opt("augeasversion", version) @@ Keep("augeas", Opt("version", version))

DiskNames == {"blockdevices", "disks"}
DiskPatterns == {"blockdevice_"}
DiskPrefix(d) == "blockdevice_" \o d.name
DiskFlat(d) ==
    Opt(DiskPrefix(d) \o "_vendor", d.vendor) @@ Opt(DiskPrefix(d) \o "_model", d.model)
        @@ ((DiskPrefix(d) \o "_size") :> AsInteger(d.size))
DiskMap(d) ==
    Opt("vendor", d.vendor) @@ Opt("model", d.model) @@ Opt("product", d.product)
        @@ [size_bytes |-> AsInteger(d.size), size |-> SiString(d.size)]
Disk(disks) ==
    LET named == SelectSeq(disks, LAMBDA d : d.name # "")
    IN  FoldLeft(LAMBDA fs, d : fs @@ DiskFlat(d), <<>>, named)
            @@ Keep("blockdevices", [i \in DOMAIN named |-> named[i].name])
            @@ Keep("disks", FoldLeft(LAMBDA m, d : MapAdd(m, d.name, DiskMap(d)), <<>>, named))

DmiNames ==
    {"dmi", "bios_vendor", "bios_version", "bios_release_date", "boardassettag",
     "boardmanufacturer", "boardproductname", "boardserialnumber", "chassisassettag",
     "manufacturer", "productname", "serialnumber", "uuid", "chassistype"}
BiosRows == {<<"bios_vendor", "vendor", "bios_vendor">>,
             <<"bios_version", "version", "bios_version">>,
             <<"bios_release_date", "release_date", "bios_release_date">>}
BoardRows == {<<"boardassettag", "asset_tag", "board_asset_tag">>,
              <<"boardmanufacturer", "manufacturer", "board_manufacturer">>,
              <<"boardproductname", "product", "board_product_name">>,
              <<"boardserialnumber", "serial_number", "board_serial_number">>}
ProductRows == {<<"productname", "name", "product_name">>,
                <<"serialnumber", "serial_number", "serial_number">>,
                <<"uuid", "uuid", "uuid">>}
ChassisRows == {<<"chassisassettag", "asset_tag", "chassis_asset_tag">>,
                <<"chassistype", "type", "chassis_type">>}
MakerRows == {<<"manufacturer", "manufacturer", "manufacturer">>}
Dmi(d) ==
    FlatOf(BiosRows \cup BoardRows \cup ProductRows \cup ChassisRows \cup MakerRows, d)
        @@ Keep("dmi", MapOf(MakerRows, d)
                        @@ Keep("bios", MapOf(BiosRows, d))
                        @@ Keep("board", MapOf(BoardRows, d))
                        @@ Keep("product", MapOf(ProductRows, d))
                        @@ Keep("chassis", MapOf(ChassisRows, d)))

\* The types with a description: all from 1 to 24 but 2; the texts are left out.
ChassisDescription(type) ==
    IF type = "" THEN "" ELSE IF type \in {ToString(i) : i \in (1 .. 24) \ {2}}
                              THEN "chassis " \o type ELSE "Unknown"

FileSystemNames == {"mountpoints", "filesystems", "partitions"}
MountPoint(p) ==
    LET used == Less(p.size, p.available)
    IN  Opt("filesystem", p.filesystem) @@ Opt("device", p.device)
        @@ [size_bytes      |-> AsInteger(p.size),      size      |-> SiString(p.size),
            available_bytes |-> AsInteger(p.available), available |-> SiString(p.available),
            used_bytes      |-> AsInteger(used),        used      |-> SiString(used),
            capacity        |-> Percentage(used, p.size)]
        @@ Keep("options", p.options)
PartitionRows == {<<"", "filesystem", "filesystem">>, <<"", "mount", "mount">>,
                  <<"", "label", "label">>, <<"", "partlabel", "partition_label">>,
                  <<"", "uuid", "uuid">>, <<"", "partuuid", "partition_uuid">>}
Partition(p) ==
    MapOf(PartitionRows, p) @@ [size_bytes |-> AsInteger(p.size), size |-> SiString(p.size)]
\* The named parts of a list as a map.
NamedMap(list, Value(_)) ==
    FoldLeft(LAMBDA m, p : IF p.name = "" THEN m ELSE MapAdd(m, p.name, Value(p)), <<>>, list)
FileSystem(d) ==
    (IF d.mountpoints = <<>> THEN <<>> ELSE "mountpoints" :> NamedMap(d.mountpoints, MountPoint))
    @@ (IF d.filesystems = {} THEN <<>> ELSE "filesystems" :> d.filesystems)
    @@ (IF d.partitions = <<>> THEN <<>> ELSE "partitions" :> NamedMap(d.partitions, Partition))

IdentityNames == {"id", "gid", "identity"}
IdentityRows == {<<"id", "user", "user_name">>, <<"gid", "group", "group_name">>}
Identity(d) ==
    FlatOf(IdentityRows, d)
        @@ Keep("identity", MapOf(IdentityRows, d)
                             @@ Opt("uid", d.user_id) @@ Opt("gid", d.group_id))

KernelNames == {"kernel", "kernelversion", "kernelrelease", "kernelmajversion"}
\* parse_version: what stands before the second dot, or before the only one.
ParseVersion(v) ==
    IF Len(v) >= 3 THEN SubSeq(v, 1, 2) ELSE SubSeq(v, 1, 1)
\* major is what the parse_version of the platform makes of the version.
Kernel(d, major) ==
    Opt("kernel", d.name) @@ Keep("kernelrelease", d.release)
        @@ IF d.version = <<>> THEN <<>>
           ELSE Keep("kernelmajversion", major) @@ "kernelversion" :> d.version

LoadAverageNames == {"load_averages"}
LoadAverage(averages) ==
    IF averages = <<>> THEN <<>>
    ELSE "load_averages" :> ("1m" :> averages[1] @@ "5m" :> averages[2] @@ "15m" :> averages[3])
MemoryNames ==
    {"memory", "memoryfree", "memoryfree_mb", "memorysize", "memorysize_mb",
     "swapfree", "swapfree_mb", "swapsize", "swapsize_mb", "swapencrypted"}
Stats(total, free) ==
    LET used == Less(total, free)
    IN  [total     |-> SiString(total), total_bytes     |-> AsInteger(total),
         used      |-> SiString(used),  used_bytes      |-> AsInteger(used),
         available |-> SiString(free),  available_bytes |-> AsInteger(free),
         capacity  |-> Percentage(used, total)]
\* The facts in MiB are the exact number of bytes here.
Memory(d) ==
    LET system == IF d.mem_total = 0 THEN <<>> ELSE "system" :> Stats(d.mem_total, d.mem_free)
        encrypted == d.swap_encryption = "encrypted"
        swap == IF d.swap_total = 0 THEN <<>>
                ELSE "swap" :> (Stats(d.swap_total, d.swap_free)
                                @@ IF d.swap_encryption = "unknown" THEN <<>>
                                   ELSE "encrypted" :> encrypted)
    IN  (IF d.mem_total = 0 THEN <<>>
         ELSE [memoryfree |-> SiString(d.mem_free),  memoryfree_mb |-> d.mem_free,
               memorysize |-> SiString(d.mem_total), memorysize_mb |-> d.mem_total])
        @@ (IF d.swap_total = 0 THEN <<>>
            ELSE [swapfree |-> SiString(d.swap_free),  swapfree_mb |-> d.swap_free,
                  swapsize |-> SiString(d.swap_total), swapsize_mb |-> d.swap_total]
                 @@ IF d.swap_encryption = "unknown" THEN <<>> ELSE "swapencrypted" :> encrypted)
        @@ Keep("memory", system @@ swap)

NetworkingNames ==
    {"networking", "hostname", "ipaddress", "ipaddress6", "netmask", "netmask6", "network",
     "network6", "macaddress", "interfaces", "domain", "fqdn", "dhcp_servers"}
\* Mutant of NetworkingPatterns: one is forgotten.
NetworkingPatternsLess ==
    {"ipaddress_", "ipaddress6_", "mtu_", "netmask_", "netmask6_", "network_", "macaddress_"}
NetworkingPatterns ==
    {"ipaddress_", "ipaddress6_", "mtu_", "netmask_", "netmask6_", "network_", "network6_",
     "macaddress_"}
HostRows == {<<"hostname", "hostname", "hostname">>, <<"domain", "domain", "domain">>,
             <<"fqdn", "fqdn", "fqdn">>}
\* Mutant of InterfaceRows: a key is pasted and not edited.
InterfaceRowsPasted ==
    {<<"ipaddress", "ip", "ip">>, <<"ipaddress6", "ip6", "ip6">>,
     <<"netmask", "netmask", "netmask">>, <<"netmask6", "netmask6", "netmask6">>,
     <<"network", "net", "network">>, <<"network6", "network6", "network6">>,
     <<"macaddress", "mac", "mac">>}
InterfaceRows ==
    {<<"ipaddress", "ip", "ip">>,             <<"ipaddress6", "ip6", "ip6">>,
     <<"netmask", "netmask", "netmask">>,     <<"netmask6", "netmask6", "netmask6">>,
     <<"network", "network", "network">>,     <<"network6", "network6", "network6">>,
     <<"macaddress", "mac", "mac">>}
MtuRows == {<<"mtu", "mtu", "mtu">>}
DhcpRows == {<<"", "dhcp", "dhcp">>}
InterfaceMap(i) == MapOf(InterfaceRows \cup MtuRows \cup DhcpRows, i)
\* The facts of one interface, suffixed with its name.
InterfaceFlat(i) ==
    LET flat == FlatOf(InterfaceRows \cup MtuRows, i)
        suffix == "_" \o i.name
    IN  [n \in {f \o suffix : f \in DOMAIN flat} |->
            flat[CHOOSE f \in DOMAIN flat : f \o suffix = n]]
\* The names of interfaces differ, so at most one is the primary one.
Networking(data) ==
    LET d == IF data.hostname # "" /\ data.fqdn = ""
             THEN [data EXCEPT !.fqdn = data.hostname
                        \o (IF data.domain = "" THEN "" ELSE ".") \o data.domain]
             ELSE data
        primary == SelectSeq(d.interfaces, LAMBDA i : i.name = d.primary)
        leased  == SelectSeq(d.interfaces, LAMBDA i : i.dhcp # "")
        servers == FoldLeft(LAMBDA m, i : MapAdd(m, i.name, i.dhcp), <<>>, leased)
        Of(Map(_)) == IF primary = <<>> THEN <<>> ELSE Map(primary[1])
    IN  FlatOf(HostRows, d)
        @@ FoldLeft(LAMBDA fs, i : fs @@ InterfaceFlat(i), <<>>, d.interfaces)
        @@ Of(LAMBDA i : FlatOf(InterfaceRows, i))
        @@ Keep("interfaces", [k \in DOMAIN d.interfaces |-> d.interfaces[k].name])
        @@ Keep("dhcp_servers", Of(LAMBDA i : Opt("system", i.dhcp)) @@ servers)
        @@ Keep("networking", MapOf(HostRows, d) @@ Of(InterfaceMap)
                               @@ Keep("interfaces", NamedMap(d.interfaces, InterfaceMap)))

PathNames == {"path"}
Path(value) == IF value.set THEN "path" :> value.text ELSE <<>>

ProcessorNames == {"processors", "processorcount", "physicalprocessorcount", "hardwareisa"}
Processor(d) ==
    Opt("hardwareisa", d.isa)
        @@ [processorcount |-> d.logical_count, physicalprocessorcount |-> d.physical_count]
        @@ [n \in {"processor" \o ToString(i - 1) : i \in DOMAIN d.models} |->
                d.models[CHOOSE i \in DOMAIN d.models : "processor" \o ToString(i - 1) = n]]
        @@ "processors" :>
            (Opt("isa", d.isa)
             @@ [count |-> d.logical_count, physicalcount |-> d.physical_count]
             @@ (IF d.speed > 0 THEN "speed" :> Frequency(d.speed) ELSE <<>>)
             @@ Keep("models", d.models))
\* The pattern ^processor[0-9]+$ as the names it can match here.
ProcessorMatches == {"processor" \o ToString(i) : i \in 0 .. 9}

RubyNames == {"ruby", "rubyplatform", "rubysitedir", "rubyversion"}
RubyRows == {<<"rubyplatform", "platform", "platform">>, <<"rubysitedir", "sitedir", "sitedir">>,
             <<"rubyversion", "version", "version">>}
\* Each lookup is rescued on its own; without an interpreter there is nothing.
Ruby(d) ==
    LET data == IF d.initialized THEN d ELSE [platform |-> "", sitedir |-> "", version |-> ""]
    IN  FlatOf(RubyRows, data) @@ Keep("ruby", MapOf(RubyRows, data))

SshNames ==
    {"ssh", "sshdsakey", "sshrsakey", "sshecdsakey", "sshed25519key",
     "sshfp_dsa", "sshfp_rsa", "sshfp_ecdsa", "sshfp_ed25519"}
SshKinds == <<"dsa", "rsa", "ecdsa", "ed25519">>
\* The flat fingerprint joins the digests there are.
Fingerprint(key) == SelectSeq(<<key.sha1, key.sha256>>, LAMBDA f : f # "")
KeyMap(key) ==
    Opt("key", key.key)
        @@ Keep("fingerprints", Opt("sha1", key.sha1) @@ Opt("sha256", key.sha256))
Ssh(keys) ==
    LET found == SelectSeq(SshKinds, LAMBDA k : keys[k].key # "")
    IN  FoldLeft(LAMBDA fs, k : fs @@ ("ssh" \o k \o "key") :> keys[k].key
                                   @@ Keep("sshfp_" \o k, Fingerprint(keys[k])), <<>>, found)
        @@ Keep("ssh", FoldLeft(LAMBDA m, k : MapAdd(m, k, KeyMap(keys[k])), <<>>, found))

OperatingSystemNames ==
    {"os", "operatingsystem", "osfamily", "operatingsystemrelease",
     "operatingsystemmajrelease", "hardwaremodel", "architecture", "lsbdistid",
     "lsbdistrelease", "lsbdistcodename", "lsbdistdescription", "lsbmajdistrelease",
     "lsbminordistrelease", "lsbrelease", "macosx_buildversion", "macosx_productname",
     "macosx_productversion", "macosx_productversion_major", "macosx_productversion_minor",
     "system32", "selinux", "selinux_enforced", "selinux_policyversion",
     "selinux_current_mode", "selinux_config_mode", "selinux_config_policy"}
OsRows == {<<"osfamily", "family", "family">>, <<"hardwaremodel", "hardware", "hardware">>,
           <<"architecture", "architecture", "architecture">>,
           <<"operatingsystem", "name", "name">>}
DistroRows == {<<"lsbdistid", "id", "id">>, <<"lsbdistcodename", "codename", "codename">>,
               <<"lsbdistdescription", "description", "description">>}
SpecificationRows == {<<"lsbrelease", "specification", "specification">>}
MacRows == {<<"macosx_productname", "product", "product">>,
            <<"macosx_buildversion", "build", "build">>}
SelinuxRows ==
    {<<"selinux_current_mode", "current_mode", "current_mode">>,
     <<"selinux_config_mode", "config_mode", "config_mode">>,
     <<"selinux_config_policy", "config_policy", "config_policy">>,
     <<"selinux_policyversion", "policy_version", "policy_version">>}

\* parse_distro: <<major, minor>> of a release; Ubuntu's major has two components.
ParseDistro(name, release) ==
    LET majorLength == IF name = "Ubuntu" THEN 2 ELSE 1
    IN  IF name = "Ubuntu" /\ Len(release) < 2 THEN <<<<>>, <<>>>>
        ELSE <<SubSeq(release, 1, Min({majorLength, Len(release)})),
               SubSeq(release, majorLength + 1, Min({majorLength + 1, Len(release)}))>>

OsRelease(d) ==
    IF d.release = <<>> THEN <<>>
    ELSE Keep("major", d.major) @@ Keep("minor", d.minor) @@ "full" :> d.release
DistroRelease(d) ==
    IF d.distro.release = <<>> THEN <<>>
    ELSE LET parsed == ParseDistro(d.name, d.distro.release)
             major == IF parsed[1] = <<>> THEN d.distro.release ELSE parsed[1]
         IN  "major" :> major @@ Keep("minor", parsed[2]) @@ "full" :> d.distro.release
\* Mac OS 10.11 is the major version of 10.11.6; 10.10 is a major version.
MacVersion(v) ==
    IF v = <<>> THEN <<>>
    ELSE "full" :> v
         @@ IF Len(v) = 1 THEN <<>>
            ELSE IF Len(v) = 2 THEN "major" :> v @@ "minor" :> <<"0">>
            ELSE "major" :> Front(v) @@ "minor" :> <<Last(v)>>
\* Renames the keys of a map to the names of flat facts.
Renamed(m, names) ==
    [n \in {names[k] : k \in DOMAIN m \cap DOMAIN names} |->
        m[CHOOSE k \in DOMAIN m \cap DOMAIN names : names[k] = n]]
SelinuxMap(s) ==
    "enabled" :> s.enabled
        @@ IF s.enabled THEN "enforced" :> s.enforced @@ MapOf(SelinuxRows, s) ELSE <<>>

OperatingSystem(d) ==
    LET release == OsRelease(d)
        distroRelease == DistroRelease(d)
        version == MacVersion(d.osx.version)
        selinux == IF d.selinux.supported THEN SelinuxMap(d.selinux) ELSE <<>>
        distro == MapOf(DistroRows, d.distro) @@ MapOf(SpecificationRows, d)
                      @@ Keep("release", distroRelease)
        macosx == MapOf(MacRows, d.osx) @@ Keep("version", version)
    IN  FlatOf(OsRows, d) @@ FlatOf(DistroRows, d.distro) @@ FlatOf(SpecificationRows, d)
        @@ FlatOf(MacRows, d.osx) @@ Opt("system32", d.system32)
        @@ Renamed(release, [full |-> "operatingsystemrelease",
                             major |-> "operatingsystemmajrelease"])
        @@ Renamed(distroRelease, [full |-> "lsbdistrelease", major |-> "lsbmajdistrelease",
                                   minor |-> "lsbminordistrelease"])
        @@ Renamed(version, [full |-> "macosx_productversion",
                             major |-> "macosx_productversion_major",
                             minor |-> "macosx_productversion_minor"])
        @@ (IF d.selinux.supported
            THEN Renamed(selinux, [enabled |-> "selinux", enforced |-> "selinux_enforced"])
                 @@ (IF d.selinux.enabled THEN FlatOf(SelinuxRows, d.selinux) ELSE <<>>)
            ELSE <<>>)
        @@ Keep("os", MapOf(OsRows, d) @@ Keep("release", release) @@ Keep("distro", distro)
                       @@ Keep("macosx", macosx)
                       @@ Keep("windows", Opt("system32", d.system32))
                       @@ Keep("selinux", selinux))

SystemProfilerNames ==
    {"system_profiler", "sp_boot_mode", "sp_boot_rom_version", "sp_boot_volume", "sp_cpu_type",
     "sp_current_processor_speed", "sp_kernel_version", "sp_l2_cache_core", "sp_l3_cache",
     "sp_local_host_name", "sp_machine_model", "sp_machine_name", "sp_number_processors",
     "sp_os_version", "sp_packages", "sp_physical_memory", "sp_platform_uuid", "sp_secure_vm",
     "sp_serial_number", "sp_smc_version_system", "sp_uptime", "sp_user_name"}
SystemProfilerRows ==
    {<<"sp_boot_mode", "boot_mode", "Boot Mode">>,
     <<"sp_boot_rom_version", "boot_rom_version", "Boot ROM Version">>,
     <<"sp_boot_volume", "boot_volume", "Boot Volume">>,
     <<"sp_cpu_type", "processor_name", "Processor Name">>,
     <<"sp_current_processor_speed", "processor_speed", "Processor Speed">>,
     <<"sp_kernel_version", "kernel_version", "Kernel Version">>,
     <<"sp_l2_cache_core", "l2_cache_per_core", "L2 Cache (per Core)">>,
     <<"sp_l3_cache", "l3_cache", "L3 Cache">>,
     <<"sp_local_host_name", "computer_name", "Computer Name">>,
     <<"sp_machine_model", "model_identifier", "Model Identifier">>,
     <<"sp_machine_name", "model_name", "Model Name">>,
     <<"sp_number_processors", "cores", "Total Number of Cores">>,
     <<"sp_os_version", "system_version", "System Version">>,
     <<"sp_packages", "processors", "Number of Processors">>,
     <<"sp_physical_memory", "memory", "Memory">>,
     <<"sp_platform_uuid", "hardware_uuid", "Hardware UUID">>,
     <<"sp_secure_vm", "secure_virtual_memory", "Secure Virtual Memory">>,
     <<"sp_serial_number", "serial_number", "Serial Number (system)">>,
     <<"sp_smc_version_system", "smc_version", "SMC Version (system)">>,
     <<"sp_uptime", "uptime", "Time since boot">>,
     <<"sp_user_name", "username", "User Name">>}
SystemProfiler(d) ==
    FlatOf(SystemProfilerRows, d) @@ Keep("system_profiler", MapOf(SystemProfilerRows, d))

TimezoneNames == {"timezone"}
Timezone(name) == Opt("timezone", name)

UptimeNames == {"system_uptime", "uptime", "uptime_days", "uptime_hours", "uptime_seconds"}
UptimeText(seconds) ==
    LET days == seconds \div 86400
    IN  IF days = 0 THEN <<"hours", seconds \div 3600, (seconds \div 60) % 60>>
        ELSE <<"days", days>>
Uptime(seconds) ==
    IF seconds < 0 THEN <<>>
    ELSE LET hours == seconds \div 3600
             days == seconds \div 86400
         IN  [uptime_seconds |-> seconds, uptime_hours |-> hours, uptime_days |-> days,
              uptime |-> UptimeText(seconds),
              system_uptime |-> [seconds |-> seconds, hours |-> hours, days |-> days,
                                 uptime |-> UptimeText(seconds)]]

VirtualizationNames == {"virtual", "is_virtual"}
NotVirtual == {"physical", "xen0", "vmware_server", "vmware_workstation", "openvzhn",
               "vserver_host"}
Virtualization(hypervisor) ==
    LET name == IF hypervisor = "" THEN "physical" ELSE hypervisor
    IN  [is_virtual |-> name \notin NotVirtual, virtual |-> name]

\* zfs and zpool: the version and the numbers of the features, from the lines of
\* `upgrade`. zfs takes the first version, zpool the last one.
ZfsNames == {"zfs_version", "zfs_featurenumbers"}
Zfs(d) ==
    (IF d.versions = <<>> THEN <<>> ELSE "zfs_version" :> Head(d.versions))
        @@ Keep("zfs_featurenumbers", d.features)
ZpoolNames == {"zpool_version", "zpool_featurenumbers"}
Zpool(d) ==
    (IF d.versions = <<>> THEN <<>> ELSE "zpool_version" :> Last(d.versions))
        @@ Keep("zpool_featurenumbers", d.features)

ZoneNames == {"zones", "zonename", "solaris_zones"}
ZoneFields == <<"id", "name", "status", "path", "uuid", "brand", "iptype">>
\* The patterns are ^zone_.+_<field>$.
ZonePrefix == "zone_"
ZoneSuffixes == {"_" \o ZoneFields[i] : i \in DOMAIN ZoneFields}
ZoneRows == {<<f, IF f = "iptype" THEN "ip_type" ELSE f, f>> : f \in ToSet(ZoneFields)}
ZoneFlat(z) ==
    LET flat == FlatOf(ZoneRows, z)
        prefix == "zone_" \o z.name \o "_"
    IN  [n \in {prefix \o f : f \in DOMAIN flat} |->
            flat[CHOOSE f \in DOMAIN flat : prefix \o f = n]]
ZoneMap(z) == MapOf({r \in ZoneRows : r[1] # "name"}, z)
Zone(d) ==
    LET zones == FoldLeft(LAMBDA m, z : MapAdd(m, z.name, ZoneMap(z)), <<>>, d.zones)
    IN  FoldLeft(LAMBDA fs, z : fs @@ ZoneFlat(z), <<>>, d.zones)
        @@ "zones" :> Cardinality(DOMAIN zones)
        @@ Opt("zonename", d.current)
        @@ (IF d.zones = <<>> THEN <<>>
            ELSE "solaris_zones" :> (Opt("current", d.current) @@ "zones" :> zones))
=============================================================================
