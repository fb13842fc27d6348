------------------------------ MODULE PosixHosts ------------------------------
(* What the resolvers of lib/src/facts/posix, bsd and glib collect from a host *)
(* (h). A file or the output of a command is a sequence of rows, one row per   *)
(* line the code looks at; a call that fails has ok = FALSE. An address is     *)
(* a pair of numbers, the network's and the host's, and so is a mask.          *)
EXTENDS BaseResolvers

\* What facts.get returns: the value of a fact there is.
Get(f, name, default) == IF name \in DOMAIN f THEN f[name] ELSE default

\* The first row that passes, or a default.
FirstRow(rows, Test(_), default) ==
    LET i == SelectInSeq(rows, Test) IN IF i = 0 THEN default ELSE rows[i]

\* The value in the rows <<key, value>> of a file: of the first row with the key, or of the last.
FirstValue(rows, key) == FirstRow(rows, LAMBDA r : r[1] = key, <<key, "">>)[2]
LastValue(rows, key) == FirstValue(Reverse(rows), key)

\* The first entry <<word, name>> of a table whose word is in the text.
FirstWord(table, words, default) ==
    FirstRow(table, LAMBDA r : r[1] \in words, <<"", default>>)[2]
\* The first string found.
FirstFound(strings) == FirstRow(strings, LAMBDA s : s # "", "")
\* The labels of a name, with their dots.
DottedName(labels) == FoldLeft(LAMBDA s, l : IF s = "" THEN l ELSE s \o "." \o l, "", labels)

\* -------------------------------------------------------------- kernel, OS

\* The version is the release up to the first dash.
PosixKernel(h) ==
    IF ~h.uname.ok THEN [name |-> "", release |-> <<>>, version |-> <<>>]
    ELSE [name |-> h.uname.sysname, release |-> h.uname.version \o h.uname.suffix,
          version |-> h.uname.version]

\* resolvers::operating_system_resolver::collect_data: asks for the kernel facts.
BaseOs(f) ==
    [name |-> Get(f, "kernel", ""), family |-> Get(f, "kernel", ""),
     release |-> Get(f, "kernelrelease", <<>>), major |-> <<>>, minor |-> <<>>,
     hardware |-> "", architecture |-> "", specification |-> "", system32 |-> "",
     distro |-> [id |-> "", release |-> <<>>, codename |-> "", description |-> ""],
     osx |-> [product |-> "", build |-> "", version |-> <<>>],
     selinux |-> [supported |-> FALSE, enabled |-> FALSE]]
PosixOs(h, f) ==
    LET machine == IF h.uname.ok THEN h.uname.machine ELSE ""
    IN  [BaseOs(f) EXCEPT !.hardware = machine, !.architecture = machine]

\* A command that is not found, or fails, has the output "".
PosixProcessor(h) ==
    [isa |-> h.isa, logical_count |-> 0, physical_count |-> 0, models |-> <<>>, speed |-> 0]

\* -------------------------------------------------------------- small ones

\* getpwuid_r and getgrgid_r: an id without an entry is not reported.
PosixIdentity(h) ==
    [user_name  |-> h.user,  user_id  |-> IF h.user = "" THEN "" ELSE h.uid,
     group_name |-> h.group, group_id |-> IF h.group = "" THEN "" ELSE h.gid]

\* strftime fails when the name does not fit into 16 characters.
PosixTimezone(h) == IF Len(h.zone) >= 16 THEN "" ELSE h.zone

GlibLoadAverages(h) == h.averages

\* parse_uptime: the sum of the parts `uptime` shows; -1 is a part it does not.
PosixUptime(h) ==
    LET u == h.uptime
        Part(n, seconds) == IF n < 0 THEN 0 ELSE n * seconds
    IN  IF u.days < 0 /\ u.hours < 0 /\ u.minutes < 0 THEN -1
        ELSE Part(u.days, 86400) + Part(u.hours, 3600) + Part(u.minutes, 60)
\* sysctl KERN_BOOTTIME, and `uptime` when it fails.
BsdUptime(h) == IF h.boot.ok THEN h.now - h.boot.seconds ELSE PosixUptime(h)

\* The words of the first key file in the directories searched, in their order.
SshFile(found) == IF DOMAIN found = {} THEN <<>> ELSE found[Min(DOMAIN found)]
SshKey(h, kind, type) ==
    LET words == SshFile(h.ssh[kind])
        Digest(algorithm) == "SSHFP " \o type \o " " \o algorithm \o " " \o words[2]
    IN  IF Len(words) < 2 THEN [key |-> "", sha1 |-> "", sha256 |-> ""]
        ELSE IF ~h.openssl \/ words[2] = "notbase64"
             THEN [key |-> words[2], sha1 |-> "", sha256 |-> ""]
             ELSE [key |-> words[2], sha1 |-> Digest("1"), sha256 |-> Digest("2")]
PosixSsh(h) ==
    [rsa |-> SshKey(h, "rsa", "1"), dsa |-> SshKey(h, "dsa", "2"),
     ecdsa |-> SshKey(h, "ecdsa", "3"), ed25519 |-> SshKey(h, "ed25519", "4")]

\* -------------------------------------------------------------- networking

\* address_to_string, with its mask when it has one of the same family.
Masked(address, mask) ==
    IF mask = <<>> THEN address ELSE [i \in 1 .. 2 |-> IF mask[i] = 0 THEN 0 ELSE address[i]]
AddressText(family, address) ==
    ToString(address[1]) \o (IF family = "inet" THEN "." ELSE ":") \o ToString(address[2])
Fe80 == 65152
\* An address that cannot make its interface the primary one.
LocalAddress(family, address) ==
    IF family = "inet" THEN address[1] = 127 ELSE address = <<0, 1>> \/ address[1] = Fe80

\* The domain of resolv.conf: of the first "domain" line, else of the last "search".
ResolvConfDomain(h) ==
    LET domain == FirstValue(h.resolv, "domain")
    IN  IF domain # "" THEN domain ELSE LastValue(h.resolv, "search")
\* The host's name, its canonical name and its domain. `canonical` is what
\* getaddrinfo makes of the short name; <<>> when the name is unknown.
PosixNetworking(h) ==
    LET hostname == IF h.hostname = <<>> THEN "" ELSE h.hostname[1]
        canonical == IF hostname = "" THEN <<>> ELSE h.canonical
        found == IF canonical # <<>> /\ canonical[1] = hostname THEN DottedName(Tail(canonical))
                 ELSE ""
    IN  [hostname |-> hostname, fqdn |-> DottedName(canonical),
         domain |-> IF found = "" THEN ResolvConfDomain(h) ELSE found,
         primary |-> "", interfaces |-> <<>>]

NoInterface == [name |-> "", ip |-> "", ip6 |-> "", netmask |-> "", netmask6 |-> "",
                network |-> "", network6 |-> "", mac |-> "", mtu |-> "", dhcp |-> ""]

\* The entries of a multimap: by the name of the interface, then as they came.
InterfaceOrder == <<"eth0", "eth1", "lo">>
Entries(addrs, name) == SelectSeq(addrs, LAMBDA a : a.name = name)
Named(addrs) == SelectSeq(InterfaceOrder, LAMBDA n : Entries(addrs, n) # <<>>)

\* populate_address, populate_network and populate_mtu for one entry of getifaddrs.
Populate(iface, a) ==
    LET text    == AddressText(a.family, a.address)
        mask    == AddressText(a.family, a.mask)
        network == AddressText(a.family, Masked(a.address, a.mask))
    IN  CASE a.family = "link" ->
               [iface EXCEPT !.mac = a.mac, !.mtu = IF a.mtu = "" THEN @ ELSE a.mtu]
          [] a.family = "inet" ->
               IF a.mask = <<>> \/ iface.netmask # "" THEN [iface EXCEPT !.ip = text]
               ELSE [iface EXCEPT !.ip = text, !.netmask = mask, !.network = network]
          [] a.family = "inet6" ->
               IF a.mask = <<>> \/ iface.netmask6 # "" THEN [iface EXCEPT !.ip6 = text]
               ELSE [iface EXCEPT !.ip6 = text, !.netmask6 = mask, !.network6 = network]

\* Without a default route: the first interface with an address that is not local.
FallbackPrimary(addrs) ==
    FirstRow(Named(addrs),
             LAMBDA n : \E a \in ToSet(Entries(addrs, n)) :
                 a.family \in {"inet", "inet6"}
                     /\ ~LocalAddress(a.family, Masked(a.address, a.mask)),
             "")

\* find_dhcp_servers: the leases of dhclient. A server counts for the interface
\* named above it, once; the first lease of an interface stays.
LeaseServers(files) ==
    LET Line(s, row) ==
            IF row[1] = "interface" THEN [s EXCEPT !.interface = row[2]]
            ELSE IF s.interface = "" THEN s
            ELSE [interface |-> "", servers |-> MapAdd(s.servers, s.interface, row[2])]
        File(servers, rows) ==
            FoldLeft(Line, [interface |-> "", servers |-> servers], rows).servers
    IN  FoldLeft(File, <<>>, files)
BsdDhcpServers(h) == LeaseServers(h.leases)
BsdDhcpServer(h, name) == Get(h.dhcpcd, name, "")

InterfaceNames(h) == {a.name : a \in ToSet(h.addrs)}
\* primary, servers and other (find_dhcp_server) are what the virtual functions of the
\* platform return.
BsdNetworking(h, primary, servers, other) ==
    LET addrs == SelectSeq(h.addrs, LAMBDA a : a.family # "other")
        Interface(n) ==
            [FoldLeft(Populate, [NoInterface EXCEPT !.name = n], Entries(addrs, n))
                EXCEPT !.dhcp = IF n \in DOMAIN servers THEN servers[n] ELSE other[n]]
        names == Named(addrs)
    IN  IF ~h.ifaddrs THEN PosixNetworking(h)
        ELSE [PosixNetworking(h) EXCEPT
                !.primary = IF primary = "" THEN FallbackPrimary(addrs) ELSE primary,
                !.interfaces = [i \in DOMAIN names |-> Interface(names[i])]]

\* -------------------------------------------------------------- file systems

\* getfsstat
BsdFileSystem(h) ==
    IF ~h.fsstat THEN [mountpoints |-> <<>>, filesystems |-> {}, partitions |-> <<>>]
    ELSE [mountpoints |-> h.mounts, filesystems |-> {m.filesystem : m \in ToSet(h.mounts)},
          partitions |-> <<>>]
=============================================================================
