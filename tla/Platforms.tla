------------------------------ MODULE Platforms ------------------------------
(* The built-in resolvers of a platform at work on a host: a fact is asked    *)
(* for, its resolver asks for the facts it needs itself, which may start       *)
(* other resolvers, and adds its own. The names are those of Collection.tla,   *)
(* which has the protocol for any resolvers; here the resolvers are the        *)
(* platform's and their facts those the host gives.                           *)
EXTENDS LinuxHosts, UnixHosts, WindowsHosts

CONSTANTS
    Hosts,        \* a sequence of hosts: records of what the resolvers read
    Queries,      \* the names the program may ask for
    MaxQueries    \* bound: how many it asks for

VARIABLES
    number,       \* the number of the host
    facts,        \* the collection's facts
    pending,      \* the resolvers not started
    stack,        \* the resolvers in progress, the latest first
    completed,    \* the resolvers that added their facts
    all,          \* resolve_facts is in progress
    asked         \* how many names were asked for

vars == <<number, facts, pending, stack, completed, all, asked>>

host == Hosts[number]

\* -------------------------------------------------------------- registration

\* The platforms' resolvers in the order they are added.
CommonResolvers == <<"ruby", "path", "ec2", "gce", "augeas">>
LinuxResolvers ==
    <<"kernel", "os", "networking", "disk", "dmi", "processor", "uptime", "ssh",
      "virtualization", "identity", "timezone", "filesystem", "memory", "loadaverage">>
OsxResolvers ==
    <<"kernel", "os", "uptime", "networking", "processor", "dmi", "ssh", "systemprofiler",
      "virtualization", "identity", "timezone", "filesystem", "memory", "loadaverage">>
BsdResolvers ==
    <<"kernel", "os", "uptime", "filesystem", "ssh", "identity", "timezone", "loadaverage">>
SolarisResolvers ==
    <<"kernel", "os", "networking", "processor", "uptime", "ssh", "identity", "timezone",
      "filesystem", "dmi", "disk", "virtualization", "memory", "loadaverage", "zpool", "zfs",
      "zone">>
AixResolvers == <<"kernel", "os", "ssh", "identity", "timezone">>
\* Those that need WMI are left out when it cannot be had.
WindowsResolvers(h) ==
    <<"identity", "kernel", "memory", "networking", "timezone">>
        \o IF h.haswmi THEN <<"dmi", "os", "processor", "virtualization", "uptime">> ELSE <<>>
PlatformResolvers(h) ==
    CASE h.platform = "linux"   -> LinuxResolvers
      [] h.platform = "osx"     -> OsxResolvers
      [] h.platform = "bsd"     -> BsdResolvers
      [] h.platform = "solaris" -> SolarisResolvers
      [] h.platform = "aix"     -> AixResolvers
      [] h.platform = "windows" -> WindowsResolvers(h)
Registered(h) == CommonResolvers \o PlatformResolvers(h)

Ec2Names == {"ec2_metadata", "ec2_userdata"}
GceNames == {"gce"}
NamesOf ==
    [ruby |-> RubyNames, path |-> PathNames, ec2 |-> Ec2Names, gce |-> GceNames,
     augeas |-> AugeasNames, kernel |-> KernelNames, os |-> OperatingSystemNames,
     networking |-> NetworkingNames, disk |-> DiskNames, dmi |-> DmiNames,
     processor |-> ProcessorNames, uptime |-> UptimeNames, ssh |-> SshNames,
     virtualization |-> VirtualizationNames, identity |-> IdentityNames,
     timezone |-> TimezoneNames, filesystem |-> FileSystemNames, memory |-> MemoryNames,
     loadaverage |-> LoadAverageNames, systemprofiler |-> SystemProfilerNames,
     zpool |-> ZpoolNames, zfs |-> ZfsNames, zone |-> ZoneNames]
StartsWith(name, prefix) ==
    Len(name) > Len(prefix) /\ SubSeq(name, 1, Len(prefix)) = prefix
EndsWith(name, suffix) ==
    /\ Len(name) > Len(suffix)
    /\ SubSeq(name, Len(name) - Len(suffix) + 1, Len(name)) = suffix
\* The patterns of a resolver.
MatchesPattern(r, name) ==
    CASE r = "networking" -> \E p \in NetworkingPatterns : StartsWith(name, p)
      [] r = "disk"       -> \E p \in DiskPatterns : StartsWith(name, p)
      [] r = "processor"  -> name \in ProcessorMatches
      [] r = "zone"       ->
             StartsWith(name, ZonePrefix) /\ \E s \in ZoneSuffixes : EndsWith(name, s)
      [] OTHER            -> FALSE
Announces(r, name) == name \in NamesOf[r] \/ MatchesPattern(r, name)

\* -------------------------------------------------------------- resolvers

\* The names resolver r asks the collection for, in order, when it has the facts f.
Asks(r, h, f) ==
    CASE r = "os" -> <<"kernel", "kernelrelease">>
      [] r \in {"ec2", "gce"} -> <<"virtual">>
      [] r = "virtualization" /\ h.platform = "linux"   -> LinuxVirtualizationAsks(h, f)
      [] r = "virtualization" /\ h.platform = "osx"     -> OsxVirtualizationAsks(f)
      [] r = "virtualization" /\ h.platform = "solaris" -> SolarisVirtualizationAsks(h)
      [] r = "dmi" /\ h.platform = "solaris"            -> <<"architecture">>
      [] OTHER -> <<>>

\* The metadata service answers on the machines it is for; see Metadata.tla.
Ec2(h, f) ==
    IF Get(f, "virtual", "") \in {"kvm", "xen", "xen0", "xenu", "xenhvm"} THEN h.ec2 ELSE <<>>
Gce(h, f) == IF Get(f, "virtual", "") = "gce" THEN h.gce ELSE <<>>

\* What collect_data of each platform's resolver returns.
KernelOf(h) ==
    CASE h.platform = "solaris" -> SolarisKernel(h)
      [] h.platform = "aix"     -> AixKernel(h)
      [] h.platform = "windows" -> WindowsKernel(h)
      [] OTHER                  -> PosixKernel(h)
OsOf(h, f) ==
    CASE h.platform = "linux"   -> LinuxOs(h, f)
      [] h.platform = "osx"     -> OsxOs(h, f)
      [] h.platform = "bsd"     -> BaseOs(f)
      [] h.platform = "solaris" -> SolarisOs(h, f)
      [] h.platform = "aix"     -> AixOs(h, f)
      [] h.platform = "windows" -> WindowsOs(h, f)
NetworkingOf(h) ==
    CASE h.platform = "linux"   -> LinuxNetworking(h)
      [] h.platform = "osx"     -> OsxNetworking(h)
      [] h.platform = "solaris" -> SolarisNetworking(h)
      [] h.platform = "windows" -> WindowsNetworking(h)
DmiOf(h, f) ==
    CASE h.platform = "linux"   -> LinuxDmi(h)
      [] h.platform = "osx"     -> [NoDmi EXCEPT !.product_name = OsxDmi(h)]
      [] h.platform = "solaris" -> SolarisDmi(h, f)
      [] h.platform = "windows" -> WindowsDmi(h)
ProcessorOf(h) ==
    CASE h.platform = "linux"   -> LinuxProcessor(h)
      [] h.platform = "osx"     -> OsxProcessor(h)
      [] h.platform = "solaris" -> SolarisProcessor(h)
      [] h.platform = "windows" -> WindowsProcessor(h)
UptimeOf(h) ==
    CASE h.platform = "linux"   -> LinuxUptime(h)
      [] h.platform = "solaris" -> SolarisUptime(h)
      [] h.platform = "windows" -> WindowsUptime(h)
      [] OTHER                  -> BsdUptime(h)
FileSystemOf(h) ==
    CASE h.platform = "linux"   -> LinuxFileSystem(h)
      [] h.platform = "solaris" -> SolarisFileSystem(h)
      [] OTHER                  -> BsdFileSystem(h)
MemoryOf(h) ==
    CASE h.platform = "linux"   -> LinuxMemory(h)
      [] h.platform = "osx"     -> OsxMemory(h)
      [] h.platform = "solaris" -> SolarisMemory(h)
      [] h.platform = "windows" -> WindowsMemory(h)
HypervisorOf(h, f) ==
    CASE h.platform = "linux"   -> LinuxHypervisor(h, f)
      [] h.platform = "osx"     -> OsxHypervisor(h, f)
      [] h.platform = "solaris" -> SolarisHypervisor(h, f)
      [] h.platform = "windows" -> WindowsHypervisor(h)
IdentityOf(h) == IF h.platform = "windows" THEN WindowsIdentity(h) ELSE PosixIdentity(h)
TimezoneOf(h) == IF h.platform = "windows" THEN WindowsTimezone(h) ELSE PosixTimezone(h)

\* The facts resolver r adds when the collection has the facts f.
FactsOf(r, h, f) ==
    CASE r = "ruby"    -> Ruby(h.ruby)
      [] r = "path"    -> Path(h.path)
      [] r = "ec2"     -> Ec2(h, f)
      [] r = "gce"     -> Gce(h, f)
      [] r = "augeas"  -> Augeas(h.augtool)
      [] r = "kernel"  -> Kernel(KernelOf(h), IF h.platform = "linux"
                                             THEN LinuxParseVersion(KernelOf(h).version)
                                             ELSE ParseVersion(KernelOf(h).version))
      [] r = "os"             -> OperatingSystem(OsOf(h, f))
      [] r = "networking"     -> Networking(NetworkingOf(h))
      [] r = "disk"           -> Disk(IF h.platform = "linux" THEN LinuxDisks(h)
                                      ELSE SolarisDisks(h))
      [] r = "dmi"            -> Dmi(DmiOf(h, f))
      [] r = "processor"      -> Processor(ProcessorOf(h))
      [] r = "uptime"         -> Uptime(UptimeOf(h))
      [] r = "ssh"            -> Ssh(PosixSsh(h))
      [] r = "virtualization" -> Virtualization(HypervisorOf(h, f))
      [] r = "identity"       -> Identity(IdentityOf(h))
      [] r = "timezone"       -> Timezone(TimezoneOf(h))
      [] r = "filesystem"     -> FileSystem(FileSystemOf(h))
      [] r = "memory"         -> Memory(MemoryOf(h))
      [] r = "loadaverage"    -> LoadAverage(GlibLoadAverages(h))
      [] r = "systemprofiler" -> SystemProfiler(OsxSystemProfiler(h))
      [] r = "zpool"          -> Zpool(SolarisZpool(h))
      [] r = "zfs"            -> Zfs(SolarisZfs(h))
      [] r = "zone"           -> Zone(SolarisZone(h))
Raises(r) == host.platform = "windows" /\ WindowsRaises(host, r)

\* -------------------------------------------------------------- behaviour

Init ==
    /\ number \in DOMAIN Hosts
    /\ facts = ("facterversion" :> "3")
    /\ pending = ToSet(Registered(host))
    /\ stack = <<>>
    /\ completed = {}
    /\ all = FALSE
    /\ asked = 0

\* A resolver is taken off before it runs.
Start(r) ==
    /\ pending' = pending \ {r}
    /\ stack' = <<r>> \o stack

\* get_value of a fact that is not there yet.
Ask(name) ==
    /\ stack = <<>> /\ ~all
    /\ asked < MaxQueries
    /\ \E r \in pending : Announces(r, name) /\ Start(r)
    /\ asked' = asked + 1
    /\ UNCHANGED <<number, facts, completed, all>>

\* resolve_facts: the resolvers left, in their order.
AskAll ==
    /\ stack = <<>> /\ ~all /\ asked < MaxQueries /\ pending # {}
    /\ all' = TRUE
    /\ asked' = asked + 1
    /\ UNCHANGED <<number, facts, pending, stack, completed>>
NextOfAll ==
    /\ stack = <<>> /\ all
    /\ IF pending = {} THEN all' = FALSE /\ UNCHANGED <<pending, stack>>
       ELSE Start(FirstRow(Registered(host), LAMBDA r : r \in pending, "")) /\ UNCHANGED all
    /\ UNCHANGED <<number, facts, completed, asked>>

\* The resolvers that would run for what the latest resolver asks.
Wanted ==
    LET names == Asks(Head(stack), host, facts)
        Answers(name) == {r \in pending : Announces(r, name)}
        name == FirstRow(names, LAMBDA n : Answers(n) # {}, "")
    IN  IF name = "" THEN {} ELSE Answers(name)
\* The latest resolver asks for a fact whose resolver has not run.
Enquire ==
    /\ stack # <<>>
    /\ \E r \in Wanted : Start(r)
    /\ UNCHANGED <<number, facts, completed, all, asked>>
\* It has what it can get, and adds its facts.
Complete ==
    /\ stack # <<>> /\ Wanted = {} /\ ~Raises(Head(stack))
    /\ facts' = FactsOf(Head(stack), host, facts) @@ facts
    /\ completed' = completed \cup {Head(stack)}
    /\ stack' = Tail(stack)
    /\ UNCHANGED <<number, pending, all, asked>>
\* An exception leaves every resolver in progress, and resolve_facts.
Raise ==
    /\ stack # <<>> /\ Wanted = {} /\ Raises(Head(stack))
    /\ stack' = <<>>
    /\ all' = FALSE
    /\ UNCHANGED <<number, facts, pending, completed, asked>>

Next ==
    \/ \E name \in Queries : Ask(name)
    \/ AskAll
    \/ NextOfAll
    \/ Enquire
    \/ Complete
    \/ Raise

Spec == Init /\ [][Next]_vars

\* -------------------------------------------------------------- properties

\* Whatever was asked for first, the facts of a resolver are those it would add
\* knowing everything that is known now: it did not run on the lack of a fact
\* that came later, unless the resolver of that fact failed.
OrderDoesNotMatter ==
    \A r \in completed \cap {"os", "dmi", "virtualization", "ec2", "gce"} :
        LET now == FactsOf(r, host, facts)
        IN  \A n \in DOMAIN now : n \in DOMAIN facts /\ facts[n] = now[n]

\* The entry of a structured fact at a path, as a sequence; <<>> where there is none.
Follow(found, key) ==
    IF found = <<>> THEN <<>>
    ELSE IF key \in DOMAIN found[1] THEN <<found[1][key]>> ELSE <<>>
At(path) == FoldLeft(Follow, <<facts>>, path)
\* Flat facts, and where the structured fact that replaced them has the same.
Counterparts ==
    "ipaddress"  :> <<"networking", "ip">>     @@ "ipaddress6" :> <<"networking", "ip6">>     @@
    "netmask"    :> <<"networking", "netmask">> @@ "network"   :> <<"networking", "network">> @@
    "macaddress" :> <<"networking", "mac">>    @@ "hostname"   :> <<"networking", "hostname">> @@
    "domain"     :> <<"networking", "domain">> @@ "fqdn"       :> <<"networking", "fqdn">>    @@
    "operatingsystem" :> <<"os", "name">>      @@ "osfamily"   :> <<"os", "family">>          @@
    "operatingsystemrelease"    :> <<"os", "release", "full">>    @@
    "operatingsystemmajrelease" :> <<"os", "release", "major">>   @@
    "architecture" :> <<"os", "architecture">> @@ "hardwaremodel" :> <<"os", "hardware">>     @@
    "lsbdistid"    :> <<"os", "distro", "id">> @@
    "lsbmajdistrelease"   :> <<"os", "distro", "release", "major">> @@
    "lsbminordistrelease" :> <<"os", "distro", "release", "minor">> @@
    "macosx_productversion_major" :> <<"os", "macosx", "version", "major">> @@
    "selinux_enforced" :> <<"os", "selinux", "enforced">> @@
    "memoryfree"   :> <<"memory", "system", "available">> @@
    "memorysize"   :> <<"memory", "system", "total">> @@
    "swapfree"     :> <<"memory", "swap", "available">> @@
    "productname"  :> <<"dmi", "product", "name">> @@
    "uptime_seconds" :> <<"system_uptime", "seconds">> @@
    "processorcount" :> <<"processors", "count">> @@
    "sp_machine_model" :> <<"system_profiler", "model_identifier">> @@
    "id" :> <<"identity", "user">> @@ "rubyversion" :> <<"ruby", "version">> @@
    "ipaddress_eth0" :> <<"networking", "interfaces", "eth0", "ip">> @@
    "network_eth1"   :> <<"networking", "interfaces", "eth1", "network">> @@
    "sshfp_rsa"      :> <<"ssh", "rsa", "key">>
\* A fact from before structured facts and its counterpart are there together
\* and are the same; for a fingerprint the key is there.
OldAndNewAgree ==
    \A n \in DOMAIN Counterparts :
        IF n = "sshfp_rsa" THEN At(<<n>>) # <<>> => At(Counterparts[n]) # <<>>
        ELSE At(<<n>>) = At(Counterparts[n])

\* The sizes there are: <<bytes, what is shown>>.
SizesIn(m, keys) == {<<m[k[1]], m[k[2]]>> : k \in keys}
Parts(fact) == IF fact \in DOMAIN facts THEN {facts[fact][k] : k \in DOMAIN facts[fact]} ELSE {}
MemoryKeys == {<<"total_bytes", "total">>, <<"used_bytes", "used">>,
               <<"available_bytes", "available">>}
MountKeys == {<<"size_bytes", "size">>, <<"used_bytes", "used">>,
              <<"available_bytes", "available">>}
Sizes == UNION ({SizesIn(m, MemoryKeys) : m \in Parts("memory")}
                \cup {SizesIn(m, MountKeys) : m \in Parts("mountpoints")}
                \cup {SizesIn(d, {<<"size_bytes", "size">>}) : d \in Parts("disks")})
\* The number shown is within half of its last digit of the size, and is less than
\* one of the next unit.
ShownRight(size) ==
    LET shown == size[2][1]
        unit == 1024 ^ size[2][2]
    IN  /\ shown < 100 * 1024
        /\ 2 * (shown * unit - 100 * size[1]) <= unit
        /\ 2 * (100 * size[1] - shown * unit) <= unit
\* 100% is shown when all is used, and only then.
CapacityRight(used, total, capacity) ==
    capacity \in 0 .. 10000 /\ (capacity = 10000) = (used >= total)
\* The sizes of file systems, of disks and of memory are shown right, they add up, and
\* what is nearly full is not shown as full. Holds while no more is available
\* than there is: the subtraction wraps then.
SizesAreShownRight ==
    /\ \A size \in Sizes : size[1] >= 0 => ShownRight(size)
    /\ \A m \in Parts("memory") :
        /\ m.used_bytes + m.available_bytes = m.total_bytes
        /\ m.used_bytes >= 0 => CapacityRight(m.used_bytes, m.total_bytes, m.capacity)
    /\ \A m \in Parts("mountpoints") :
        /\ m.used_bytes + m.available_bytes = m.size_bytes
        /\ m.used_bytes >= 0 => CapacityRight(m.used_bytes, m.size_bytes, m.capacity)

\* A fact that is shown can be asked for: its resolver announces its name or matches it.
NamesAreAnnounced ==
    \A n \in DOMAIN facts \ {"facterversion"} : \E r \in completed : Announces(r, n)

=============================================================================
